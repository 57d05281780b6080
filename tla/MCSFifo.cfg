SPECIFICATION Spec
CONSTANTS
  Word = {w1, w2}
  Depth = 4
  SramMacro = FALSE
INVARIANTS
  TypeOK
  FillBounded
PROPERTIES
  ImplementsQueue
