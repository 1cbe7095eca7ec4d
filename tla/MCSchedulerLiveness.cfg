SPECIFICATION FairSpec
CONSTANTS
  Agent = {a1, a2}
  Task = {t1, t2}
  NoAgent = NoAgent
  Cap = 1
  MaxMessages = 2
  MaxPasses = 0
  MaxRejections = 1
  MaxRestarts = 1
PROPERTY TurnsSettle
PROPERTY TasksSettle
CHECK_DEADLOCK FALSE
