SPECIFICATION FairSpec
CONSTANTS
  KeepTail = 2
  MaxInput = 5
  MaxOutput = 2
  Threshold = 4
  MaxChat = 2
  Static = 1
  Prompt = 1
  RowSize = {1, 3}
  MaxRows = 6
  MaxRestarts = 0
PROPERTY TurnsEnd
CHECK_DEADLOCK FALSE
