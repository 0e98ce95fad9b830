SPECIFICATION MCSpec
CONSTANTS
  Platforms = {"local", "edge", "android"}
  Sentences = 2
  MaxAsks <- MCAsks
  MaxStops = 2
  MaxHides = 1
  Books = {"novel", "scan"}
  Pages <- MCPages
  Scans = {"scan"}
  Chunks = 1
  MaxMoves = 3
  MaxRerenders = 1
INVARIANTS OneVoiceAtHand FollowsTheVoice ShowsTheOpenPlace 
PROPERTY ReadingsEnd
CHECK_DEADLOCK FALSE
