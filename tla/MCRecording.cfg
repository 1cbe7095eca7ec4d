SPECIFICATION Spec
CONSTANTS
  Answer <- MCAnswer
  Newline = "|"
  Piece = {"a", "r", "x", "z"}
  CallId = {"1", "2"}
  ToolName = {"look", "take"}
  Build <- MCBuild
  Summarize = "summarize"
  KeepTail = 1
  MaxRows = 3
  MaxInferences = 3
  MaxTexts = 4
INVARIANT TypeOK
INVARIANT ResponseIsAnswer
INVARIANT ReplayIsExact
INVARIANT RecipesConnect
INVARIANT MeasuredAsSent
CHECK_DEADLOCK FALSE
