SPECIFICATION Spec
CONSTANTS
  Classes = {"A", "B"}
  NoClass = "none"
  Genders = {"male", "female"}
  Days = {29, 30}
  Months = {2, 4}
  Years = {2011}
  Weights = {20}
  NotANumber = NotANumber
  FirstProfile <- InClass
  Rejects = TRUE
  MaxPending = 1
  MaxPicks = 2
  MaxLaunches = 2
INVARIANTS
  TypeOK
  TornOnlyByReset
  ValidDate
  ProfileIsSaved
  ThrownOutCauses
PROPERTIES
  UntouchedKept
CHECK_DEADLOCK FALSE
