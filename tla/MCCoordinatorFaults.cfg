\* The remaining commands (local activities, children, external workflows,
\* continue-as-new, panic, upserts), queries, workflow cancellation and
\* transport/SDK errors.
CONSTANTS
  MaxCmds = 3
  MaxReply = 2
  Updates = {}
  MaxSignals = 0
  MaxQueries = 1
  WorkerCmds = {"ExecuteLocalActivity", "ExecuteChildWorkflow", "GetChildWorkflowExecution", "SignalExternalWorkflow", "CancelExternalWorkflow", "Cancel", "SideEffect", "ContinueAsNew", "Panic", "UpsertMemo", "UpsertWorkflowSearchAttributes", "UpsertWorkflowTypedSearchAttributes"}
  ZeroTimers = FALSE
  Faults = TRUE
  OrderedUpdates = TRUE
  StopsAfterTerminal = TRUE
  TypedInputs <- MCTypedInputsFaults
SPECIFICATION Spec
PROPERTY LedgerSafeSpec
INVARIANT CancelErrorPrecedesAck
\* A run stops for good when the workflow completes, its task fails, or the
\* worker waits on nothing the SDK will deliver.
CHECK_DEADLOCK FALSE
