\* Syncs, any of which may fail half-way, gcs (one of them prompting) and a reader;
\* no prune, a process may be killed.  With three syncs the current snapshot may be
\* the oldest of three.
SPECIFICATION Spec
CONSTANTS
  None = None
  Syncs = {s1, s2, s3}
  Gcs = {g1, g2}
  Prunes = {}
  Readers = {r1}
  Confirming = {g2}
  Revs = {a, b, c}
  Keep = 1
  MaxCrashes = 1
  Root <- AllCanonical
SYMMETRY SyncRevSymmetry
INVARIANTS TypeOK SingleWriter CurrentComplete ReaderSound
PROPERTIES SyncPublishesOwnIndex GcBound StoreSpec
