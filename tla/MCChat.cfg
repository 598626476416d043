SPECIFICATION Spec
CONSTANTS
  User = {a, b, c}
  Device = {a, b}
  None = None
  Tabs = {"menu"}
  SteadyClock = TRUE
  Rejects = FALSE
  MaxMessages = 2
  MaxKills = 0
  MaxCuts = 0
SYMMETRY Symmetry
INVARIANTS
  TypeOK
  AuthorShown
  PeerOrder
  StartedIsListed
CHECK_DEADLOCK FALSE
