SPECIFICATION MCSpec
CONSTANTS
  a = a
  b = b
  prefs = prefs
  Keys <- MCKeys
  Prefs = prefs
  MaxEdits = 2
  MaxFailures = 2
  MaxWrites = 1
  MaxHides = 1
INVARIANT SavesLoseNothing
PROPERTIES EverythingIsStoredInTheEnd OpenTextStays
CHECK_DEADLOCK FALSE
