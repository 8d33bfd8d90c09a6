\* Two worker failures of one pool, no Reset() RPC.
CONSTANTS
  MaxEvents = 2
  MaxFailures = 0
  MaxRpcResets = 0
SPECIFICATION Spec
INVARIANT HealthyPoolKept
CHECK_DEADLOCK FALSE
