CONSTANTS
  Client = {c1, c2}
  MaxFd = 4
  Kinds = {"async", "blocking", "keeping"}
SPECIFICATION Spec
INVARIANTS OwnDescriptors HandlerSeesServer NothingLeftOpen
PROPERTY SignalEndsRun
CHECK_DEADLOCK FALSE
