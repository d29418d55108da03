\* The mirror changes and processes die while an index is read.
CONSTANTS
  a = a
  b = b
  Revs = {a, b}
  Last = 3
  Declares <- MixedDeclares
  Optional = {3}
  Hashed = {1, 2}
  MaxUpdates = 2
  MaxFailures = 1
  None = None
SPECIFICATION Spec
INVARIANTS TypeOK FetchesServed ValidatorHasBody IndexMatchesRevision
PROPERTIES StillMirrorPublished
