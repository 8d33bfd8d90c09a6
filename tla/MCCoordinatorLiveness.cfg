\* Liveness of the coordinator: every worker request is eventually answered,
\* with children (start callback, GetChildWorkflowExecution, IDRegistry),
\* activities, cancels and typed upserts; no zero-duration timers (see the violation run).
CONSTANTS
  MaxCmds = 3
  MaxReply = 2
  Updates = {}
  MaxSignals = 0
  MaxQueries = 0
  WorkerCmds = {"ExecuteActivity", "ExecuteChildWorkflow", "GetChildWorkflowExecution", "Cancel", "GetVersion", "CompleteWorkflow", "UpsertWorkflowTypedSearchAttributes"}
  ZeroTimers = FALSE
  Faults = FALSE
  OrderedUpdates = TRUE
  StopsAfterTerminal = TRUE
  TypedInputs <- MCTypedInputs
SPECIFICATION Spec
PROPERTY EveryRequestAnswered
INVARIANT TypedUpsertsFollowP8
\* A run stops for good when the workflow completes or the worker waits on
\* nothing the SDK will deliver.
CHECK_DEADLOCK FALSE
