SPECIFICATION MCSpec
CONSTANTS
  NumImports = 2
  MaxFaults = 2
  Langs = {"de", "fr"}
  Titles = {"novel"}
  UserBooks = {"book"}
  Catalog = {"built"}
  MaxBodies = 3
  MaxTurns = 4
  MaxFailures = 1
  Books = {"own", "long"}
  Vocabularies = {"old", "new"}
  MaxActs = 4
INVARIANTS LiveBooksHaveTheirImages LeftoversAreMarked BooksAreKept CountsAreCurrent
PROPERTIES ImportsEnd CorrectionsHold
CHECK_DEADLOCK FALSE
