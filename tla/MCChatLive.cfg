SPECIFICATION FairSpec
CONSTANTS
  User = {a, b}
  Device = {a, b}
  None = None
  Tabs = {"menu"}
  SteadyClock = TRUE
  Rejects = FALSE
  MaxMessages = 1
  MaxKills = 1
  MaxCuts = 1
INVARIANTS
  ListedIsStarted
PROPERTIES
  Delivered
  SentIsStored
  IsConversation
CHECK_DEADLOCK FALSE
