SPECIFICATION Spec
CONSTANTS
  Classes = {"A", "B"}
  NoClass = "none"
  Genders = {"male"}
  Days = {29}
  Months = {4}
  Years = {2011}
  Weights = {20}
  NotANumber = NotANumber
  FirstProfile <- InClass
  Rejects = FALSE
  MaxPending = 1
  MaxPicks = 3
  MaxLaunches = 1
INVARIANTS
  TeacherOfClass
CHECK_DEADLOCK FALSE
