\* Worker failures lead to a replacement pool, with start/destroy failures,
\* backoff retries, Reset() RPCs and a concurrent Stop.
CONSTANTS
  MaxEvents = 3
  MaxFailures = 2
  MaxRpcResets = 2
SPECIFICATION Spec
PROPERTY BrokenPoolReplaced
PROPERTY ResetRpcReturns
\* The loops block on their channels when nothing more happens.
CHECK_DEADLOCK FALSE
