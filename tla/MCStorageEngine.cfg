SPECIFICATION Spec
CONSTANTS
  Key = {k1}
  Worker = {w1, w2}
  NoEntry = NoEntry
  Nil = Nil
  Never = Never
  Text = Text
  IntMax = 0
  SizeMax = 7
  SetArgs = {0, Text}
  Ttls = {0, 1}
  Deltas <- MCDeltas
PROPERTIES   SweepTakesOverdue ExpiredLeaves
CHECK_DEADLOCK FALSE
