SPECIFICATION Spec
CONSTANTS
  N = 5
  R = 3
  AltRows = 4
  MaxPrompts = 1
  Null = Null
 
PROPERTIES
  ImplementsScrollback
  LinesStay
CHECK_DEADLOCK FALSE
