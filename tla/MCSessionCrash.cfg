SPECIFICATION FairSpec
CONSTANTS
  Account = {a, b, n}
  None = None
  Unset = Unset
  Enrolled = {a, b}
  AvatarOutcomes = {TRUE}
  KeychainFirst = FALSE
  Rejects = TRUE
  MaxLaunches = 3
  MaxStack = 6
INVARIANTS
  SuccessMeansRestored
  RegistrationCovered
  ListenersUpToDate
  LoginShownWhenSignedOut
PROPERTIES
  IsRegistration
  SpinnerEndsOrSignedOut
  SplashLeft
CHECK_DEADLOCK FALSE
