\* Two prunes rename the directory away under a sync and a gc; one process dies.
SPECIFICATION FairSpec
CONSTANTS
  None = None
  Syncs = {s1}
  Gcs = {g1}
  Prunes = {p1, p2}
  Readers = {}
  Confirming = {g1}
  Revs = {a}
  Keep = 0
  MaxCrashes = 1
  Root <- AllCanonical
INVARIANTS LockExclusive
PROPERTIES LockWaitEnds
