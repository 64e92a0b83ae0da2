CONSTANTS
  a = a
  b = b
  None = None
  Editors = {a, b}
  MaxTexts = 4
  MaxWrites = 4
  MaxNet = 1
  MaxFaults = 0
SPECIFICATION Spec
SYMMETRY Windows
INVARIANT VaultEditsStand
CHECK_DEADLOCK FALSE
