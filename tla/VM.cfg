SPECIFICATION VMSpec
CONSTANTS
  MaxLength = 5
  Used <- Instructions
  StackSize = 4
INVARIANT VMTypeOK
PROPERTY RunsThePrograms
CHECK_DEADLOCK FALSE
