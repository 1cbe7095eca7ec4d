SPECIFICATION Spec
CONSTANTS
  World = {w, x}
  User = {o, g, h}
  Invite = {t}
  Nobody = Nobody
  Limit = {0, 1}
  Name = {"shop", "lane", "inn", "food", "tool", "arms", "light"}
  Scenario <- MCScenario
  Base = 2
SYMMETRY Symmetric
INVARIANT GraphsAreWhole
INVARIANT ExportsAreWhole
INVARIANT HandlesAreShort
INVARIANT SlotsAreSeats
INVARIANT OwnersStay
PROPERTY SeatsAreForever
CHECK_DEADLOCK FALSE
