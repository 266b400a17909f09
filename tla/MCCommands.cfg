CONSTANTS
  Key <- MCKey
  environment <- MCEnvironment
  arguments <- MCArguments
  Lines <- MCLines
  IntMax = 1
  Capacity = 20
  MaxOwed = 2
SPECIFICATION Spec
INVARIANTS  StoredRoundTrips
PROPERTY ErrorsChangeNothing
CHECK_DEADLOCK FALSE
