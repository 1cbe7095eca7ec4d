SPECIFICATION Spec
CONSTANTS
  Page = {p1,p2}
  Nobody = Nobody
  QueueCap = 1
  Buffer = 2
  MaxLoads = 2
  MaxMessages = 1
  MaxOthers = 0
  MaxNarrations = 3
  MaxRestarts = 0
INVARIANT NobodyForgotten
INVARIANT NarrationsReach
INVARIANT RepliesShownOnce
INVARIANT NarrationBeforeReply
PROPERTY OpeningSpeaksFirst
SYMMETRY Symmetric
CHECK_DEADLOCK FALSE
