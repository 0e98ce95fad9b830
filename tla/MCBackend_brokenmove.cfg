SPECIFICATION MCSpec
CONSTANTS
  w = w
  t = t
  p = p
  None = None
  NoFile = NoFile
  Torn = Torn
  MaxRequests = 3
  Asked <- MCAsked
  MaxPanics = 1
  NumWorkers <- MCNumWorkers
  Values = {v1, v2, dead}
  Dead = dead
  Keys = {w, t}
  Texts = {t}
  Data = {1, 2}
  Devices = {1, 2}
  Device = 1
  Cut = 9
  Dirs = {"home", "other"}
  DefaultDir = "home"
  MaxActs = 4
  MaxClock = 8
  MaxFaults = 2

PROPERTY MovesKeepImages
CHECK_DEADLOCK FALSE
