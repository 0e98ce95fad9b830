SPECIFICATION Spec
CONSTANTS
  w = w
  t = t
  p1 = p1
  p2 = p2
  None = None
  NoPage = NoPage
  Keys <- MCText
  TextKeys <- MCText
  Pages <- MCPages
  Data <- MCOneDatum
  Devices <- MCDevices
  Device = 1
  ServedKept = 1
  Android = TRUE
  Tries = 1
  MaxClock = 4
  MaxActs = 3
INVARIANTS SavedMeansOnDisk
SYMMETRY PageSymmetry
CHECK_DEADLOCK FALSE
