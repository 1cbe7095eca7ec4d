SPECIFICATION Spec
CONSTANTS
  World = {w}
  User = {o, g}
  Invite = {t}
  Nobody = Nobody
  Limit = {0}
  Here = w
  GM = GM
  Roll = {"hp"}
  Item = {lamp}
  Alike = {lamp}
  Talk = Talk
  Opening = Opening
  Nothing = Nothing
  MaxChat = 2
  MaxTotal = 4
  MaxCalls = 2
  MaxActions = 2
SYMMETRY Symmetric
INVARIANT NestedTurnsEnd
INVARIANT ItemsFollowLog
INVARIANT ResolvedOnce
INVARIANT RolledOnce
INVARIANT AnsweredIsWhole
PROPERTY LeftoversStay
PROPERTY RemovedDoNothing
PROPERTY TriggersWindDown
CHECK_DEADLOCK FALSE
