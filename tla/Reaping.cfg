SPECIFICATION ReapingSpec
CONSTANTS
  Children = 5
  ForkPrograms = {"2_1/a1", "2_1/a2", "2_2/a1", "2_2/a2", "2_2/a3", "2_2/a4", "2_2/a5",
                  "2_3/a2"}
  Entry = {0, 1, 2, 3, 4, 5, 6}
  Init1 = init1
  Five = 5
INVARIANTS
  SignalHasItsZombie
  ReapedWhenDone
  NobodyOrphaned
PROPERTIES
  AllEnd
CHECK_DEADLOCK FALSE
