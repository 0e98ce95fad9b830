SPECIFICATION Spec
CONSTANTS
  w = w
  t = t
  p1 = p1
  p2 = p2
  None = None
  NoPage = NoPage
  Keys <- MCKeys
  TextKeys = {}
  Pages <- MCOnePage
  Data <- MCOneDatum
  Devices <- MCDevices
  Device = 1
  ServedKept = 2
  Android = FALSE
  Tries = 0
  MaxClock = 5
  MaxActs = 4
INVARIANTS FailedSavesAreMadeUpFor
CHECK_DEADLOCK FALSE
