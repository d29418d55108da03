\* Files of four heads and definitions, two deep, against two profiles.
CONSTANTS
  Profiles = {"el", "fc"}
  Macros = {"rhel", "edition", "flavour", "stage", "suse"}
  Registry <- MCRegistry
  Archs <- MCArchs
  Numbers <- MCNumbers
  Variants <- MCVariants
  MaxCombinations = 2
  Exprs <- MCExprs
  Heads <- MCHeads
  Definitions <- MCDefinitions
  Bconds = {"gtk", "tests", "docs"}
  Declarations <- MCDeclarations
  ForcedOn = {"tests"}
  ForcedOff = {"docs"}
  MaxLines = 4
  MaxDepth = 2
  Unknown = Unknown
  None = None
SPECIFICATION Spec
INVARIANTS NobodyLost DeadIsDead VerdictsHold
CHECK_DEADLOCK FALSE
