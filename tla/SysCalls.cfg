SPECIFICATION SysCallsSpec
CONSTANTS
  Task = {t1, t2}
  InitTask = t1
  Info = {i0, i1, i2, i3, i4}
  InitGroups = i0
  Lists <- NearLists
  PerBlock = 2
  Small = 1
  Pages = 4
  Width = 16
  Process = {"p", "c", "g"}
  Thread = {1, 2, 3, 4}
  ProcessOf <- ThreadProcess
  LeaderOf <- Leaders
  ParentOf <- Parents
  NoProcess = "none"
  NoThread = 0
  Callers = {1}
  Ticks = 3
SYMMETRY Objects
INVARIANTS
  CountsAreReferences
  NoPageLost
  MembersAreFound
  AsIfLater
  ChildrenWhole
  ReapedAsTold
PROPERTIES
  GroupsAsAsked
CHECK_DEADLOCK FALSE
