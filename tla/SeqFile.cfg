SPECIFICATION SeqFairSpec
CONSTANTS
  Nodes = 6
  Width <- ShortTexts
  Page = 9
  Sizes = {1, 2, 3, 7}
INVARIANTS
  ShownInOrder
  CompleteAtEnd
  NoFreedNode
PROPERTIES
  ReadingEnds
CHECK_DEADLOCK FALSE
