SPECIFICATION Spec
CONSTANTS
  LineCycles = 6
  OamCycles = 2
  Visible = 2
  Lines = 4
  DrawLengths = {5, 10}
  BootDot = 8
  Selections <- MCSelections
  YValues = {0, 1, 3}
  MaxWrites = 3
PROPERTIES HeldOffOnlyWhenLyChanges
