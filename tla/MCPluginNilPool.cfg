\* WorkflowNames() during a pool replacement.
CONSTANTS
  MaxEvents = 1
  MaxFailures = 0
  MaxRpcResets = 0
SPECIFICATION Spec
INVARIANT NamesNeverNil
CHECK_DEADLOCK FALSE
