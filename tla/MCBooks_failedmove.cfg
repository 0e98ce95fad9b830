SPECIFICATION MCSpec
CONSTANTS
  NumImports = 2
  MaxFaults = 2
  Langs = {"de", "fr"}
  Titles = {"novel"}
  UserBooks = {"book"}
  Catalog = {"built"}
  MaxBodies = 3
  MaxTurns = 4
  MaxFailures = 2
  Books = {"own", "long"}
  Vocabularies = {"old", "new"}
  MaxActs = 5
INVARIANT FailedMovesLeaveNoCopy
CHECK_DEADLOCK FALSE
