SPECIFICATION Spec
CONSTANTS
  User = {a, b, c}
  Device = {a, b}
  None = None
  Tabs = {"menu", "messages"}
  SteadyClock = FALSE
  Rejects = TRUE
  MaxMessages = 1
  MaxKills = 0
  MaxCuts = 0
SYMMETRY Symmetry
INVARIANTS
  OwnSide
  ShownOnce
  ShowsConversation
CHECK_DEADLOCK FALSE
