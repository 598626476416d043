SPECIFICATION ListSpec
CONSTANTS
  Device = {d1}
  Fails = {}
  MaxUploads = 2
  MaxLaunches = 1
  MaxUpdates = 0
  Cell = {c1, c2}
  MaxRows = 3
  MaxLoads = 5
INVARIANTS
  ImageCauses
CHECK_DEADLOCK FALSE
