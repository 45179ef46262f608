CONSTANTS
  MaxLength = 4
  TextWidths <- MCTextWidths
  IntMax = 8
  MaxChanges = 4
SPECIFICATION Spec
INVARIANTS
  ScrollTypeOK
  WindowFitsButton
PROPERTIES
  ScrollsByOne
  WholeTitleShown
