SPECIFICATION FairSpec
CONSTANTS
  Page = {p1,p2}
  Nobody = Nobody
  QueueCap = 1
  Buffer = 1
  MaxLoads = 2
  MaxMessages = 1
  MaxOthers = 1
  MaxNarrations = 0
  MaxRestarts = 1
PROPERTY SubmittedIsAnswered
PROPERTY ViewersGetIn
CHECK_DEADLOCK FALSE
