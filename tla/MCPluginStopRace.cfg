\* Stop racing a pool replacement already past the closing check.
CONSTANTS
  MaxEvents = 1
  MaxFailures = 0
  MaxRpcResets = 0
SPECIFICATION Spec
INVARIANT StopLeavesNoPool
CHECK_DEADLOCK FALSE
