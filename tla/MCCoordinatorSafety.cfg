\* Safety of the coordinator: activities, timers (zero-duration included),
\* cancels, mid-dispatch flushes, updates and completion.
CONSTANTS
  MaxCmds = 3
  MaxReply = 2
  Updates = {"u1"}
  MaxSignals = 1
  MaxQueries = 0
  WorkerCmds = {"ExecuteActivity", "NewTimer", "Cancel", "GetVersion", "SideEffect", "UpdateValidated", "UpdateCompleted", "CompleteWorkflow"}
  ZeroTimers = TRUE
  Faults = FALSE
  OrderedUpdates = TRUE
  StopsAfterTerminal = TRUE
  TypedInputs <- MCTypedInputs
SPECIFICATION Spec
INVARIANT CancelErrorPrecedesAck
PROPERTY LedgerSafeSpec
INVARIANT UpdateCallbacksWellFormed
INVARIANT CancelOnlyPending
\* A run stops for good when the workflow completes, its task fails, or the
\* worker waits on nothing the SDK will deliver.
CHECK_DEADLOCK FALSE
