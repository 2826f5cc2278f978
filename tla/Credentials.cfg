SPECIFICATION IdSpec
CONSTANTS
  User = {0, 1, 2}
  Group = {0, 1}
  Root = 0
  Same = Same
PROPERTIES
  DroppedForGood
  
