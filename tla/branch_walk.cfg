\* Files of four heads and items, three deep.
CONSTANTS
  Atoms = {"a", "b", "r", "x", "y"}
  Exprs <- MCExprs
  MaxCubes = 3
  MaxAtoms = 3
  None = None
  Conditions <- MCConditions
  MaxLines = 4
  MaxDepth = 3
SPECIFICATION Spec
INVARIANTS PathExact ClaimsHold
PROPERTIES DeadIsFound
CHECK_DEADLOCK FALSE
