CONSTANTS
  x = x
  y = y
  b1 = b1
  b2 = b2
  b3 = b3
  Expr = {x, y}
  None = None
  Block = {b1, b2, b3}
  NULL = NULL
  Length = {1}
  OwnPrompt = OwnPrompt
SYMMETRY BlockSymmetry
SPECIFICATION Spec
INVARIANT ErrorsTold
