SPECIFICATION Spec
CONSTANTS
  Worker = {w1, w2}
  Caller = {c1, c2}
  Task = {t1, t2, t3}
  NoTask = NoTask
INVARIANTS EachTaskOnce NoLostWakeup ShutdownDrains
PROPERTIES AcceptedTaskRuns ShutdownReturns
