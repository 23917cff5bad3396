SPECIFICATION Spec
CONSTANTS
  r1 = r1
  r2 = r2
  r3 = r3
  Contents = {c}
  Runs = {r1, r2, r3}
  None = None
  MaxText = 2
CHECK_DEADLOCK FALSE
SYMMETRY RunSymmetry
INVARIANT TypeOK
 
INVARIANT EmbeddingFollows
