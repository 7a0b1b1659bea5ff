SPECIFICATION Spec
CONSTANTS
  Base = 4
  U8Max = 3
  U16Max = 15
  U32Max = 255
  Ports = {p, q}
  MaxOps = 3
  Declarations <- MCDeclarations
INVARIANTS TypeOK ReadsBack WritesJudged SizeAsDeclared
SYMMETRY Symmetry
CHECK_DEADLOCK FALSE
