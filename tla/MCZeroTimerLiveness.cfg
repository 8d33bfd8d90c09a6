\* Zero-duration timers: is their response delivered without a later task?
CONSTANTS
  MaxCmds = 3
  MaxReply = 2
  Updates = {}
  MaxSignals = 0
  MaxQueries = 0
  WorkerCmds = {"NewTimer", "ExecuteActivity", "CompleteWorkflow"}
  ZeroTimers = TRUE
  Faults = FALSE
  OrderedUpdates = TRUE
  StopsAfterTerminal = TRUE
  TypedInputs <- MCTypedInputs
SPECIFICATION Spec
PROPERTY EveryRequestAnswered
CHECK_DEADLOCK FALSE
