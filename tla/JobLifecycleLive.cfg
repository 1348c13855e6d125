SPECIFICATION FairSpec
CONSTANTS
  Producer = {p1, p2}
  Message = {m1, m2}
  Worker = {v1, v2}
  Controller = {o1}
  Kinds = {"cancel", "kill", "supersede"}
  None = None
  Faults = {"queueError"}
INVARIANTS OneExecution QueuedIsRunnable
PROPERTIES Served CancelTakesEffect
CHECK_DEADLOCK FALSE
