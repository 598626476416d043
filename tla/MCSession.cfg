SPECIFICATION Spec
CONSTANTS
  Account = {a, b, n, m}
  None = None
  Unset = Unset
  Enrolled = {a, b}
  AvatarOutcomes = {TRUE, FALSE}
  MaxLaunches = 1
  MaxStack = 4
  KeychainFirst = TRUE
  Rejects = FALSE
INVARIANTS
  TypeOK
  ProfileMatchesSession
  RestoreUsesOwnPassword
  CommitsAsNewStudent
CHECK_DEADLOCK FALSE
