\* A prune between two syncs: one of them holds the lock of the renamed directory.
SPECIFICATION Spec
CONSTANTS
  None = None
  Syncs = {s1, s2}
  Gcs = {}
  Prunes = {p1}
  Readers = {}
  Confirming = {}
  Revs = {a}
  Keep = 1
  MaxCrashes = 0
  Root <- AllCanonical
INVARIANTS CurrentComplete
