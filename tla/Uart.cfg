SPECIFICATION FairSpec
CONSTANTS
  Opener = {a, b}
  Bytes = 2
INVARIANTS
  NothingReleasedTwice
  LeftBehind
  LateOpenersRefused
PROPERTIES
  ProbeEnds
CHECK_DEADLOCK FALSE
