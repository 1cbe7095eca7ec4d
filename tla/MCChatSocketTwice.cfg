SPECIFICATION Spec
CONSTANTS
  Page = {p1}
  Nobody = Nobody
  QueueCap = 1
  Buffer = 2
  MaxLoads = 1
  MaxMessages = 0
  MaxOthers = 1
  MaxNarrations = 1
  MaxRestarts = 0
INVARIANT NothingShownTwice
CHECK_DEADLOCK FALSE
