SPECIFICATION Spec
CONSTANTS
  w = w
  t = t
  p1 = p1
  p2 = p2
  None = None
  NoPage = NoPage
  Keys <- MCText
  TextKeys <- MCText
  Pages <- MCPages
  Data <- MCData
  Devices <- MCDevices
  Device = 1
  ServedKept = 2
  Android = FALSE
  Tries = 1
  MaxClock = 3
  MaxActs = 3
INVARIANTS IInv OwnerKnowsItsBase CacheAgreesWithDisk
PROPERTIES ClockCoversEveryRecord FirstDeletionsAreTheUsers SavedEditsWin UntouchedRecordsKeepForeignWrites ThePageInUseIsRemembered
SYMMETRY PageSymmetry
CHECK_DEADLOCK FALSE
