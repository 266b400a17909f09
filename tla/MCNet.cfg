CONSTANTS
  Client = {c1, c2}
  Workers = 1
  max_clients = 1
  MaxLine = 1
  MaxSent = 3
SPECIFICATION NetSpec
INVARIANTS OnlyWholeLines
PROPERTIES EveryConnectionClosed 
CHECK_DEADLOCK FALSE
