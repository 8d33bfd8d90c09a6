\* Stop with a live pool, and the events goroutine of watch().
CONSTANTS
  MaxEvents = 1
  MaxFailures = 0
  MaxRpcResets = 0
SPECIFICATION Spec
PROPERTY EventsLoopEndsAfterStop
\* The loops block on their channels when nothing more happens.
CHECK_DEADLOCK FALSE
