SPECIFICATION Spec
CONSTANTS
  Layouts <- MCLayouts
  NumButtons <- MCNumButtons
  Props <- MCProps
  HasToggleEvent = TRUE
INVARIANTS
  OneFocus
  CursorShown
  
CHECK_DEADLOCK FALSE
