SPECIFICATION FairSpec
CONSTANTS
  KeepTail = 2
  MaxInput = 8
  MaxOutput = 1
  Threshold = 6
  MaxChat = 2
  Static = 1
  Prompt = 1
  RowSize = {1, 3}
  MaxRows = 8
  MaxRestarts = 1
INVARIANT SummariesAreWhole
INVARIANT RowsReadOnce
PROPERTY JobsDoTheirWork
PROPERTY ImplementsHistory
PROPERTY CompactionsEnd
PROPERTY TurnsEnd
CHECK_DEADLOCK FALSE
