SPECIFICATION Spec
CONSTANTS
  Pid = {1, 2, 3}
  InitPid = 1
  User = {0, 1}
  Root = 0
  MinNice = 0
  MaxNice = 1
INVARIANTS
  GroupInOneSession
  

  
