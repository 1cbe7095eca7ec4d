SPECIFICATION Spec
CONSTANTS
  Agent = {a1}
  Task = {t1, t2}
  NoAgent = NoAgent
  Cap = 1
  MaxMessages = 4
  MaxPasses = 0
  MaxRejections = 0
  MaxRestarts = 0
INVARIANT NoPhantomFailure
CHECK_DEADLOCK FALSE
