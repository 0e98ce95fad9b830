SPECIFICATION MCSpec
CONSTANTS
  w1 = w1
  w2 = w2
  None = None
  Torn = Torn
  Keys <- MCKeys
  Data <- MCData
  Devices <- MCDevices
  Device = 1
  MaxActs = 1
  MaxCrashes = 1
  MaxErrors = 1
  Langs = {"de", "fr"}
  Words = {"a", "b"}
  Algorithms = {"sm2", "fsrs"}
  Grades = {1, 4}
  Statuses = {"learning", "known"}
  NewWordsToo = TRUE
  MaxDay = 1
  MaxSteps = 2
PROPERTY WordsComeFromTheUser
CHECK_DEADLOCK FALSE
