SPECIFICATION FairSpec
CONSTANTS
  Device = {d1, d2}
  Fails = {"delete", "upload", "url", "commit", "write", "read"}
  MaxUploads = 3
  MaxLaunches = 2
  MaxUpdates = 1
INVARIANTS
  TypeOK
  OneUploader
  DeadLinkCauses
PROPERTIES
  SuccessIsRecorded
  GoneForGood
  SpinnerEnds
CHECK_DEADLOCK FALSE
