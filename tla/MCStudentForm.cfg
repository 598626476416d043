SPECIFICATION Spec
CONSTANTS
  Classes = {"A", "B"}
  NoClass = "none"
  Emails = {"e1", "e2"}
  NoEmail = ""
  Pictures = {"photo"}
  Camera = "camera"
  Days = {1, 29}
  Months = {1, 2}
  Years = {2011}
  NotAYear = NotAYear
  FirstYear = 2011
INVARIANTS
  TypeOK
  PasswordIsBirthDate
  ValidBirthDate
PROPERTIES
  WrittenAsShown
  NeverFinished
CHECK_DEADLOCK FALSE
