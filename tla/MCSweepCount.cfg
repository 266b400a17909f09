SPECIFICATION Spec
CONSTANTS
  Key = {k1, k2}
  Worker = {w1}
  NoEntry = NoEntry
  Nil = Nil
  Never = Never
  Text = Text
  IntMax = 1
  SizeMax = 7
  SetArgs = {0}
  Ttls = {0, 1}
  Deltas <- MCDeltas
PROPERTY SweepCountIsTrue
CHECK_DEADLOCK FALSE
