\* A worker that sends commands after CompleteWorkflow in the same frame.
CONSTANTS
  MaxCmds = 3
  MaxReply = 2
  Updates = {}
  MaxSignals = 0
  MaxQueries = 0
  WorkerCmds = {"ExecuteActivity", "CompleteWorkflow"}
  ZeroTimers = FALSE
  Faults = FALSE
  OrderedUpdates = TRUE
  StopsAfterTerminal = FALSE
  TypedInputs <- MCTypedInputs
SPECIFICATION Spec
PROPERTY TerminalIsFinal
CHECK_DEADLOCK FALSE
