--------------------------- MODULE RepoCacheProofs ---------------------------
(***************************************************************************)
(* Proofs about RepoCache, for every set of processes and revisions.       *)
(***************************************************************************)
EXTENDS RepoCache, FiniteSetTheorems, WellFoundedInduction, TLAPS

\* The types, and the two facts they need to survive a step: a sync that writes
\* has fetched a revision, a gc that removes has picked a victim.
TypeInv ==
  /\ TypeOK
  /\ \A p \in Syncs : pc[p] \in Writing => rev[p] \in Revs
  /\ \A g \in Gcs : pc[g] = "remove" => victim[g] \in Revs

USE DEF Lockers, Procs, locking, disk, syncVars, gcVars

LEMMA TouchType ==
  ASSUME age \in [Revs -> Nat], NEW r, Touch(r)
  PROVE  age' \in [Revs -> Nat]
BY DEF Touch

LEMMA MakeDirType ==
  ASSUME dirs \in Nat, dir \in 0..dirs, fd \in [Lockers -> 0..dirs],
         MakeDir, UNCHANGED fd
  PROVE  dirs' \in Nat /\ dir' \in 0..dirs' /\ fd' \in [Lockers -> 0..dirs']
BY DEF MakeDir

LEMMA EmptyIsSnapshot == EmptySnapshot \in Snapshot /\ EmptySnapshot # None
BY NoneAssumption DEF EmptySnapshot, Snapshot

LEMMA AbortType ==
  ASSUME TypeInv, NEW p \in Lockers, Abort(p)
  PROVE  TypeInv'
BY ProcsAssumption DEF TypeInv, TypeOK, Abort, GoTo, Release, Final, Critical, Writing

LEMMA AcquireType ==
  ASSUME TypeInv, NEW p \in Lockers, Acquire(p)
  PROVE  TypeInv'
<1>1. CASE Mkdir(p)
  <2>1. dirs' \in Nat /\ dir' \in 0..dirs' /\ fd' \in [Lockers -> 0..dirs']
    BY <1>1, MakeDirType DEF TypeInv, TypeOK, Mkdir
  <2>. QED BY <1>1, <2>1, ProcsAssumption
           DEF TypeInv, TypeOK, Mkdir, GoTo, Final, Critical, Writing
<1>2. CASE Open(p)
  BY <1>2, ProcsAssumption DEF TypeInv, TypeOK, Open, GoTo, Final, Critical, Writing
<1>3. CASE OpenFails(p)
  BY <1>3, AbortType DEF OpenFails
<1>4. CASE Flock(p)
  BY <1>4, ProcsAssumption DEF TypeInv, TypeOK, Flock, GoTo, Final, Critical, Writing
<1>. QED BY <1>1, <1>2, <1>3, <1>4 DEF Acquire

LEMMA SyncType ==
  ASSUME TypeInv, NEW p \in Syncs, SyncStep(p)
  PROVE  TypeInv'
<1>. USE ProcsAssumption, DataAssumption
<1>. p \in Lockers /\ p \in Procs
  OBVIOUS
<1>1. CASE Acquire(p)
  BY <1>1, AcquireType
<1>2. CASE SyncFetch(p)
  BY <1>2 DEF TypeInv, TypeOK, SyncFetch, GoTo, Final, Critical, Writing
<1>3. CASE SyncFetchFails(p)
  BY <1>3 DEF TypeInv, TypeOK, SyncFetchFails, GoTo, Release, Final, Critical, Writing
<1>4. CASE SyncMkSnap(p)
  <2>1. dirs' \in Nat /\ dir' \in 0..dirs' /\ fd' \in [Lockers -> 0..dirs']
    BY <1>4, MakeDirType DEF TypeInv, TypeOK, SyncMkSnap
  <2>2. age' \in [Revs -> Nat]
    BY <1>4, TouchType DEF TypeInv, TypeOK, SyncMkSnap
  <2>4. snaps' \in [Revs -> Snapshot \cup {None}]
    BY <1>4, EmptyIsSnapshot DEF TypeInv, TypeOK, SyncMkSnap
  <2>. QED BY <1>4, <2>1, <2>2, <2>4
           DEF TypeInv, TypeOK, SyncMkSnap, GoTo, Final, Critical, Writing
<1>5. ASSUME NEW from \in Writing, NEW snap \in Snapshot, NEW to \in Writing,
             SyncWrites(p, from, snap, to), UNCHANGED syncVars
      PROVE  TypeInv'
  <2>1. age' \in [Revs -> Nat]
    BY <1>5, TouchType DEF TypeInv, TypeOK, SyncWrites
  <2>2. snaps' \in [Revs -> Snapshot \cup {None}]
    BY <1>5 DEF TypeInv, TypeOK, SyncWrites
  <2>. QED BY <1>5, <2>1, <2>2
           DEF TypeInv, TypeOK, SyncWrites, GoTo, Final, Critical, Writing
<1>6. ASSUME pc[p] \in Writing, snaps[rev[p]] # None
      PROVE  snaps[rev[p]] \in Snapshot
  BY <1>6 DEF TypeInv, TypeOK
<1>7. CASE SyncManifest(p)
  <2>1. [snaps[rev[p]] EXCEPT !.manifest = p] \in Snapshot
    BY <1>6, <1>7 DEF SyncManifest, SyncWrites, Writing, Snapshot
  <2>. QED BY <1>5, <1>7, <2>1 DEF SyncManifest, Writing
<1>8. CASE SyncClearTmp(p)
  <2>1. [snaps[rev[p]] EXCEPT !.tmp = None] \in Snapshot
    BY <1>6, <1>8 DEF SyncClearTmp, SyncWrites, Writing, Snapshot
  <2>. QED BY <1>5, <1>8, <2>1 DEF SyncClearTmp, Writing
<1>9. CASE SyncCreateTmp(p)
  <2>1. [snaps[rev[p]] EXCEPT !.tmp = p] \in Snapshot
    BY <1>6, <1>9 DEF SyncCreateTmp, SyncWrites, Writing, Snapshot
  <2>. QED BY <1>5, <1>9, <2>1 DEF SyncCreateTmp, Writing
<1>10. CASE SyncIngest(p)
  BY <1>10 DEF TypeInv, TypeOK, SyncIngest, GoTo, Final, Critical, Writing
<1>11. CASE SyncRename(p)
  <2>1. [snaps[rev[p]] EXCEPT !.db = snaps[rev[p]].tmp, !.tmp = None] \in Snapshot
    BY <1>6, <1>11 DEF SyncRename, SyncWrites, Writing, Snapshot
  <2>. QED BY <1>5, <1>11, <2>1 DEF SyncRename, Writing
<1>12. CASE SyncUnlink(p)
  BY <1>12 DEF TypeInv, TypeOK, SyncUnlink, GoTo, Final, Critical, Writing
<1>13. CASE SyncLink(p)
  <2>1. current' \in Link
    BY <1>13 DEF TypeInv, TypeOK, SyncLink, Link, Writing
  <2>. QED BY <1>13, <2>1
           DEF TypeInv, TypeOK, SyncLink, GoTo, Release, Final, Critical, Writing
<1>14. CASE SyncFails(p)
  BY <1>14, AbortType DEF SyncFails
<1>. QED BY <1>1, <1>2, <1>3, <1>4, <1>7, <1>8, <1>9, <1>10, <1>11, <1>12,
            <1>13, <1>14 DEF SyncStep

LEMMA GcType ==
  ASSUME TypeInv, NEW g \in Gcs, GcStep(g) \/ GcConfirm(g)
  PROVE  TypeInv'
<1>. USE ProcsAssumption, DataAssumption
<1>. g \in Lockers /\ g \in Procs
  OBVIOUS
<1>0. BeyondKeep \in SUBSET Revs
  BY DEF BeyondKeep, Present
<1>1. CASE Acquire(g)
  BY <1>1, AcquireType
<1>2. CASE GcSkips(g) \/ GcStarts(g) \/ GcConfirm(g)
  BY <1>2 DEF TypeInv, TypeOK, GcSkips, GcStarts, GcConfirm, GoTo,
              Final, Critical, Writing
<1>3. CASE GcPreview(g)
  BY <1>0, <1>3 DEF TypeInv, TypeOK, GcPreview, GoTo, Final, Critical, Writing
<1>4. CASE GcList(g)
  BY <1>0, <1>4 DEF TypeInv, TypeOK, GcList, GoTo, Final, Critical, Writing
<1>5. CASE GcListFails(g) \/ GcRemoveFails(g)
  BY <1>5, AbortType DEF GcListFails, GcRemoveFails
<1>6. CASE GcSkipCurrent(g)
  BY <1>6 DEF TypeInv, TypeOK, GcSkipCurrent
<1>7. CASE GcPick(g)
  BY <1>7 DEF TypeInv, TypeOK, GcPick, GoTo, Final, Critical, Writing
<1>8. CASE GcRemoveFile(g)
  <2>1. age' \in [Revs -> Nat]
    BY <1>8, TouchType DEF TypeInv, TypeOK, GcRemoveFile
  <2>2. victim[g] \in Revs /\ snaps[victim[g]] \in Snapshot
    BY <1>8 DEF TypeInv, TypeOK, GcRemoveFile
  <2>3. \A f \in {"manifest", "db", "tmp"} :
          [snaps[victim[g]] EXCEPT ![f] = None] \in Snapshot
    BY <2>2 DEF Snapshot
  <2>4. PICK f \in {"manifest", "db", "tmp"} :
          snaps' = [snaps EXCEPT ![victim[g]] = [@ EXCEPT ![f] = None]]
    BY <1>8 DEF GcRemoveFile
  <2>5. snaps' \in [Revs -> Snapshot \cup {None}]
    BY <2>2, <2>3, <2>4 DEF TypeInv, TypeOK
  <2>. QED BY <1>8, <2>1, <2>5 DEF TypeInv, TypeOK, GcRemoveFile
<1>9. CASE GcRemoveDir(g)
  BY <1>9 DEF TypeInv, TypeOK, GcRemoveDir, GoTo, Final, Critical, Writing
<1>10. CASE GcEnds(g)
  BY <1>10 DEF TypeInv, TypeOK, GcEnds, GoTo, Release, Final, Critical, Writing
<1>. QED BY <1>1, <1>2, <1>3, <1>4, <1>5, <1>6, <1>7, <1>8, <1>9, <1>10 DEF GcStep

LEMMA PruneType ==
  ASSUME TypeInv, NEW p \in Prunes, PruneStep(p)
  PROVE  TypeInv'
<1>. USE ProcsAssumption
<1>. p \in Lockers /\ p \in Procs
  OBVIOUS
<1>1. CASE Acquire(p)
  BY <1>1, AcquireType
<1>2. CASE PruneLooks(p)
  BY <1>2 DEF TypeInv, TypeOK, PruneLooks, GoTo, Final, Critical, Writing
<1>3. CASE PruneRename(p)
  BY <1>3 DEF TypeInv, TypeOK, PruneRename, GoTo, Final, Critical, Writing
<1>4. CASE PruneRenameFails(p)
  BY <1>4, AbortType DEF PruneRenameFails
<1>5. CASE PruneEnds(p)
  BY <1>5 DEF TypeInv, TypeOK, PruneEnds, GoTo, Release, Final, Critical, Writing
<1>. QED BY <1>1, <1>2, <1>3, <1>4, <1>5 DEF PruneStep

\* What `current` resolves to is a snapshot that is there.
LEMMA CurrentRevPresent ==
  ASSUME TypeOK, CurrentRev # None
  PROVE  CurrentRev \in Revs /\ snaps[CurrentRev] \in Snapshot
BY DEF TypeOK, CurrentRev, Link

LEMMA ReaderType ==
  ASSUME TypeInv, NEW p \in Readers, ReaderStep(p)
  PROVE  TypeInv'
<1>. USE ProcsAssumption
<1>. p \in Procs
  OBVIOUS
<1>1. CASE ReadCurrent(p) \/ ReadDbExists(p)
  BY <1>1 DEF TypeInv, TypeOK, ReadCurrent, ReadDbExists, GoTo,
              Final, Critical, Writing
<1>2. CASE ReadDb(p)
  <2>1. age' \in [Revs -> Nat]
    BY <1>2, TouchType DEF TypeInv, TypeOK, ReadDb
  <2>2. VisibleDb \in Procs \cup {None}
    BY CurrentRevPresent DEF TypeInv, VisibleDb, Snapshot
  <2>3. PICK status \in {"OK", "ERROR"} : GoTo(p, status)
    BY <1>2 DEF ReadDb
  <2>. QED BY <1>2, <2>1, <2>2, <2>3
           DEF TypeInv, TypeOK, ReadDb, GoTo, Final, Critical, Writing
<1>3. CASE ReadDbFails(p)
  <2>1. age' \in [Revs -> Nat]
    BY <1>3, TouchType DEF TypeInv, TypeOK, ReadDbFails
  <2>2. snaps' \in [Revs -> Snapshot \cup {None}]
    <3>1. CASE CurrentRev = None
      BY <1>3, <3>1 DEF TypeInv, TypeOK, ReadDbFails
    <3>2. CASE CurrentRev # None
      <4>1. [snaps[CurrentRev] EXCEPT !.db = p] \in Snapshot
        BY <3>2, CurrentRevPresent DEF TypeInv, Snapshot
      <4>. QED BY <1>3, <3>2, <4>1 DEF TypeInv, TypeOK, ReadDbFails
    <3>. QED BY <3>1, <3>2
  <2>. QED BY <1>3, <2>1, <2>2
           DEF TypeInv, TypeOK, ReadDbFails, GoTo, Final, Critical, Writing
<1>. QED BY <1>1, <1>2, <1>3 DEF ReaderStep

LEMMA CrashType ==
  ASSUME TypeInv, NEW p \in Lockers, Crash(p)
  PROVE  TypeInv'
BY ProcsAssumption, DataAssumption
   DEF TypeInv, TypeOK, Crash, GoTo, Release, Final, Critical, Writing

LEMMA TypeInvariant == Spec => []TypeInv
<1>1. Init => TypeInv
  <2>1. Cardinality(Revs) \in Nat
    BY DataAssumption, FS_CardinalityType
  <2>. QED BY <2>1, ProcsAssumption, DataAssumption
           DEF Init, TypeInv, TypeOK, Final, Critical, Writing
<1>2. TypeInv /\ [Next]_vars => TypeInv'
  <2>1. TypeInv /\ UNCHANGED vars => TypeInv'
    BY DEF TypeInv, TypeOK, vars
  <2>2. TypeInv /\ Next => TypeInv'
    BY <2>1, SyncType, GcType, PruneType, ReaderType, CrashType DEF Next, AllDone
  <2>. QED BY <2>1, <2>2
<1>. QED BY <1>1, <1>2, PTL DEF Spec

\* Whatever the processes do, every variable keeps its type.
THEOREM TypeCorrect == Spec => []TypeOK
<1>1. TypeInv => TypeOK
  BY DEF TypeInv
<1>. QED BY <1>1, TypeInvariant, PTL

-----------------------------------------------------------------------------
(* The lock, with prunes and deaths.                                       *)

\* A process is in its critical part exactly while the kernel counts it among
\* the holders, and the kernel grants one directory's lock to one holder.
LockInv ==
  /\ \A p \in Lockers : pc[p] \in Critical <=> p \in holds
  /\ \A p, q \in holds : fd[p] = fd[q] => p = q

\* A step that changes neither a descriptor, nor the holders, nor whether its
\* process is in its critical part.
LEMMA LockFrame ==
  ASSUME TypeOK, LockInv, NEW p \in Lockers, NEW to, GoTo(p, to),
         pc[p] \in Critical <=> to \in Critical, UNCHANGED locking
  PROVE  LockInv'
BY DEF LockInv, GoTo, TypeOK

LEMMA LockReleased ==
  ASSUME TypeOK, LockInv, NEW p \in Lockers, NEW to, GoTo(p, to), Release(p),
         to \notin Critical
  PROVE  LockInv'
BY DEF LockInv, GoTo, Release, TypeOK

LEMMA LockAcquire ==
  ASSUME TypeOK, LockInv, NEW p \in Lockers, Acquire(p)
  PROVE  LockInv'
<1>1. CASE Mkdir(p)
  BY <1>1, LockFrame DEF Mkdir, Critical, Writing
<1>2. CASE Open(p)
  BY <1>2 DEF Open, LockInv, GoTo, TypeOK, Critical, Writing
<1>3. CASE OpenFails(p)
  BY <1>3, LockReleased DEF OpenFails, Abort, Critical, Writing
<1>4. CASE Flock(p)
  BY <1>4 DEF Flock, LockFree, LockInv, GoTo, TypeOK, Critical, Writing
<1>. QED BY <1>1, <1>2, <1>3, <1>4 DEF Acquire

LEMMA LockSync ==
  ASSUME TypeOK, LockInv, NEW p \in Syncs, SyncStep(p)
  PROVE  LockInv'
<1>. p \in Lockers
  OBVIOUS
<1>1. CASE Acquire(p)
  BY <1>1, LockAcquire
<1>2. CASE SyncFetch(p) \/ SyncMkSnap(p) \/ SyncIngest(p) \/ SyncUnlink(p)
  BY <1>2, LockFrame
     DEF SyncFetch, SyncMkSnap, SyncIngest, SyncUnlink, Critical, Writing
<1>3. CASE SyncManifest(p) \/ SyncClearTmp(p) \/ SyncCreateTmp(p) \/ SyncRename(p)
  <2>1. ASSUME NEW from \in Critical, NEW snap, NEW to \in Critical,
               SyncWrites(p, from, snap, to)
        PROVE  LockInv'
    BY <2>1, LockFrame DEF SyncWrites
  <2>. QED BY <1>3, <2>1
           DEF SyncManifest, SyncClearTmp, SyncCreateTmp, SyncRename, Critical, Writing
<1>4. CASE SyncFetchFails(p) \/ SyncLink(p) \/ SyncFails(p)
  BY <1>4, LockReleased DEF SyncFetchFails, SyncLink, SyncFails, Abort, Critical, Writing
<1>. QED BY <1>1, <1>2, <1>3, <1>4 DEF SyncStep

LEMMA LockGc ==
  ASSUME TypeOK, LockInv, NEW g \in Gcs, GcStep(g) \/ GcConfirm(g)
  PROVE  LockInv'
<1>. g \in Lockers
  OBVIOUS
<1>1. CASE Acquire(g)
  BY <1>1, LockAcquire
<1>2. CASE GcSkips(g) \/ GcStarts(g) \/ GcConfirm(g)
  BY <1>2, LockFrame DEF GcSkips, GcStarts, GcConfirm, Critical, Writing
<1>3. CASE GcPreview(g)
  BY <1>3, LockFrame DEF GcPreview, Critical, Writing
<1>4. CASE GcList(g) \/ GcPick(g) \/ GcRemoveDir(g)
  BY <1>4, LockFrame DEF GcList, GcPick, GcRemoveDir, Critical, Writing
<1>5. CASE GcSkipCurrent(g) \/ GcRemoveFile(g)
  BY <1>5 DEF GcSkipCurrent, GcRemoveFile, LockInv
<1>6. CASE GcListFails(g) \/ GcRemoveFails(g) \/ GcEnds(g)
  BY <1>6, LockReleased DEF GcListFails, GcRemoveFails, GcEnds, Abort, Critical, Writing
<1>. QED BY <1>1, <1>2, <1>3, <1>4, <1>5, <1>6 DEF GcStep

LEMMA LockPrune ==
  ASSUME TypeOK, LockInv, NEW p \in Prunes, PruneStep(p)
  PROVE  LockInv'
<1>. p \in Lockers
  OBVIOUS
<1>1. CASE Acquire(p)
  BY <1>1, LockAcquire
<1>2. CASE PruneLooks(p) \/ PruneRename(p)
  BY <1>2, LockFrame DEF PruneLooks, PruneRename, Critical, Writing
<1>3. CASE PruneRenameFails(p) \/ PruneEnds(p)
  BY <1>3, LockReleased DEF PruneRenameFails, PruneEnds, Abort, Critical, Writing
<1>. QED BY <1>1, <1>2, <1>3 DEF PruneStep

\* Readers and locks have nothing to do with each other.
LEMMA ReaderFrame ==
  ASSUME TypeOK, NEW p \in Readers, ReaderStep(p)
  PROVE  /\ UNCHANGED <<locking, dir, dirs, current, syncVars, gcVars>>
         /\ \A q \in Lockers : pc'[q] = pc[q]
BY ProcsAssumption
   DEF TypeOK, ReaderStep, ReadCurrent, ReadDbExists, ReadDb, ReadDbFails, GoTo

LEMMA LockInvariant == Spec => []LockInv
<1>1. Init => LockInv
  BY ProcsAssumption DEF Init, LockInv, Critical, Writing
<1>2. TypeOK /\ LockInv /\ [Next]_vars => LockInv'
  <2>1. TypeOK /\ LockInv /\ UNCHANGED vars => LockInv'
    BY DEF LockInv, vars
  <2>2. ASSUME TypeOK, LockInv, NEW p \in Readers, ReaderStep(p) PROVE LockInv'
    BY <2>2, ReaderFrame DEF LockInv
  <2>3. ASSUME TypeOK, LockInv, NEW p \in Lockers, Crash(p) PROVE LockInv'
    BY <2>3, LockReleased DEF Crash, Critical, Writing
  <2>. QED BY <2>1, <2>2, <2>3, LockSync, LockGc, LockPrune DEF Next, AllDone
<1>. QED BY <1>1, <1>2, TypeCorrect, PTL DEF Spec

\* One directory's lock has one holder, for any number of syncs, gcs and prunes
\* and any number of deaths: the mutual exclusion flock gives, and no more (the
\* directory at the path need not be the one whose lock is held).
THEOREM LockExclusion == Spec => []LockExclusive
<1>1. LockInv => LockExclusive
  BY DEF LockInv, LockExclusive
<1>. QED BY <1>1, LockInvariant, PTL

-----------------------------------------------------------------------------
(* The cache when nobody prunes and everybody spells its root alike.       *)

Undisturbed == Prunes = {} /\ \A p \in Procs : Root[p] = "canonical"

\* The directory at the path is created once, and it is the one that is locked.
DirInv ==
  /\ dirs \in {0, 1} /\ dir = dirs
  /\ \A p \in Lockers : pc[p] \in Critical \cup {"flock"} => fd[p] # 0

\* How far a sync has got tells what its snapshot holds.
WriteInv ==
  \A p \in Syncs :
    /\ p \in ingested => rev[p] \in Revs /\ pc[p] \in {"rename", "unlink", "link"} \cup Final
    /\ pc[p] \in {"rename", "unlink", "link"} => p \in ingested /\ newest = p
    /\ pc[p] \in Writing \ {"mkSnap"} => snaps[rev[p]] # None
    /\ pc[p] \in {"ingest", "rename"} => snaps[rev[p]].tmp = p
    /\ pc[p] \in {"unlink", "link"} => snaps[rev[p]].db = p
    /\ pc[p] = "link" => current = None

\* A database under its final name is complete and of the snapshot's revision.
DbInv ==
  \A r \in Revs : snaps[r] # None /\ snaps[r].db # None =>
    snaps[r].db \in ingested /\ rev[snaps[r].db] = r

LinkInv ==
  current # None =>
    /\ current.root = "canonical"
    /\ snaps[current.rev] # None /\ snaps[current.rev].db # None

\* A gc never removes what the link leads to.
GcInv ==
  \A g \in Gcs : pc[g] = "remove" /\ current # None => current.rev # victim[g]

CacheInv == DirInv /\ WriteInv /\ DbInv /\ LinkInv /\ GcInv /\ ReaderSound

FullInv == TypeInv /\ LockInv /\ CacheInv

\* With one directory, exclusion on its lock is exclusion.
LEMMA Alone ==
  ASSUME FullInv, NEW p \in Lockers, NEW q \in Lockers,
         pc[p] \in Critical, pc[q] \in Critical
  PROVE  p = q
BY DEF FullInv, CacheInv, DirInv, LockInv, TypeInv, TypeOK

\* A step that ends, or does not begin, a process's work on the disk.
LEMMA CacheFrame ==
  ASSUME FullInv, NEW p \in Lockers, NEW to, GoTo(p, to),
         to \notin Writing \cup {"remove"}, p \in ingested => to \in Final,
         UNCHANGED <<disk, syncVars, victim, seen>>, DirInv'
  PROVE  CacheInv'
<1>. USE ProcsAssumption DEF FullInv, TypeInv, TypeOK, CacheInv, GoTo
<1>1. WriteInv'
  BY DEF WriteInv, Writing
<1>2. DbInv' /\ LinkInv'
  BY DEF DbInv, LinkInv
<1>3. GcInv' /\ ReaderSound'
  BY DEF GcInv, ReaderSound
<1>. QED BY <1>1, <1>2, <1>3

LEMMA CacheReleased ==
  ASSUME FullInv, NEW p \in Lockers, NEW to \in Final, GoTo(p, to), Release(p),
         UNCHANGED <<disk, syncVars, victim, seen>>
  PROVE  CacheInv'
<1>1. DirInv'
  BY DEF FullInv, TypeInv, TypeOK, CacheInv, DirInv, GoTo, Release,
         Final, Critical, Writing
<1>. QED BY <1>1, CacheFrame DEF Final, Writing

LEMMA CacheAcquire ==
  ASSUME FullInv, NEW p \in Lockers, Acquire(p)
  PROVE  CacheInv'
<1>. USE DEF FullInv, TypeInv, TypeOK, CacheInv
<1>0. pc[p] \in {"mkdir", "open", "flock"} => p \notin ingested
  BY ProcsAssumption DEF WriteInv, Final
<1>1. CASE Mkdir(p)
  <2>1. DirInv'
    BY <1>1 DEF Mkdir, MakeDir, DirInv, GoTo, Critical, Writing
  <2>2. WriteInv'
    BY <1>1, <1>0 DEF Mkdir, WriteInv, GoTo, Writing
  <2>3. DbInv' /\ LinkInv' /\ GcInv' /\ ReaderSound'
    BY <1>1, ProcsAssumption DEF Mkdir, GoTo, DbInv, LinkInv, GcInv, ReaderSound
  <2>. QED BY <2>1, <2>2, <2>3
<1>2. CASE Open(p)
  <2>1. DirInv'
    BY <1>2 DEF Open, DirInv, GoTo, Critical, Writing
  <2>. QED BY <1>0, <1>2, <2>1, CacheFrame DEF Open, Writing
<1>3. CASE OpenFails(p)
  BY <1>3, CacheReleased DEF OpenFails, Abort, Final
<1>4. CASE Flock(p)
  <2>1. DirInv'
    BY <1>4 DEF Flock, DirInv, GoTo, Critical, Writing
  <2>. QED BY <1>0, <1>4, <2>1, CacheFrame DEF Flock, Writing
<1>. QED BY <1>1, <1>2, <1>3, <1>4 DEF Acquire

\* A step of write_snapshot works on the only snapshot being written, in the
\* directory whose lock it holds.
LEMMA CacheSyncWrites ==
  ASSUME FullInv, NEW p \in Syncs, NEW from \in Writing \ {"mkSnap"},
         NEW snap \in Snapshot, NEW to \in Writing \ {"mkSnap", "link"},
         SyncWrites(p, from, snap, to), UNCHANGED syncVars,
         snap.db # None => snap.db \in ingested /\ rev[snap.db] = rev[p],
         snaps[rev[p]].db # None => snap.db # None,
         to \in {"ingest", "rename"} => snap.tmp = p,
         to = "unlink" => snap.db = p,
         p \in ingested <=> to \in {"rename", "unlink"},
         to \in {"rename", "unlink"} => newest = p
  PROVE  CacheInv'
<1>. USE ProcsAssumption, DataAssumption
     DEF FullInv, TypeInv, TypeOK, CacheInv, SyncWrites
<1>0. rev[p] \in Revs /\ snaps[rev[p]] # None
  OBVIOUS
<1>1. DirInv'
  BY DEF DirInv, GoTo, Critical, Writing
<1>2. \A q \in Syncs : q # p => pc[q] \notin Writing
  BY Alone DEF Critical
<1>3. WriteInv'
  BY <1>0, <1>2, NoneAssumption DEF WriteInv, GoTo, Writing, Snapshot
<1>4. DbInv'
  BY <1>0 DEF DbInv, GoTo
<1>5. LinkInv'
  BY <1>0, NoneAssumption DEF LinkInv, GoTo, Snapshot
<1>6. GcInv' /\ ReaderSound'
  BY DEF GcInv, ReaderSound, GoTo, Writing
<1>. QED BY <1>1, <1>3, <1>4, <1>5, <1>6

LEMMA CacheSync ==
  ASSUME FullInv, Undisturbed, NEW p \in Syncs, SyncStep(p)
  PROVE  CacheInv'
<1>. USE ProcsAssumption, DataAssumption
<1>0. /\ p \in Lockers /\ p \in Procs /\ Root[p] = "canonical"
      /\ pc[p] \in Critical => dir = 1 /\ dirs = 1
      /\ pc[p] \in {"locked", "mkSnap", "manifest", "clearTmp", "createTmp", "ingest"}
           => p \notin ingested
      /\ pc[p] \in Critical => \A q \in Lockers : q # p => pc[q] \notin Critical
  <2>1. pc[p] \in Critical => \A q \in Lockers : q # p => pc[q] \notin Critical
    BY Alone
  <2>. QED BY <2>1 DEF FullInv, TypeInv, TypeOK, CacheInv, DirInv, WriteInv, Undisturbed,
                  Critical, Writing, Final
<1>1. CASE Acquire(p)
  BY <1>1, CacheAcquire
<1>2. CASE SyncFetch(p)
  <2>. USE <1>2 DEF SyncFetch, FullInv, TypeInv, TypeOK, CacheInv, GoTo
  <2>1. DirInv'
    BY DEF DirInv, Critical, Writing
  <2>2. WriteInv'
    BY <1>0 DEF WriteInv, Writing, Final, Critical
  <2>3. DbInv'
    BY <1>0 DEF DbInv
  <2>4. LinkInv' /\ GcInv' /\ ReaderSound'
    BY DEF LinkInv, GcInv, ReaderSound
  <2>. QED BY <2>1, <2>2, <2>3, <2>4
<1>3. CASE SyncFetchFails(p) \/ SyncFails(p)
  BY <1>3, CacheReleased DEF SyncFetchFails, SyncFails, Abort, Final
<1>4. CASE SyncMkSnap(p)
  <2>. USE <1>4 DEF SyncMkSnap, FullInv, TypeInv, TypeOK, CacheInv, GoTo
  <2>0. rev[p] \in Revs /\ dir' = dir /\ dirs' = dirs
    BY <1>0 DEF MakeDir, Critical, Writing
  <2>1. DirInv'
    BY <2>0 DEF DirInv, Critical, Writing
  <2>2. WriteInv'
    BY <1>0, <2>0, EmptyIsSnapshot DEF WriteInv, Writing, Critical, EmptySnapshot
  <2>3. DbInv'
    BY <2>0, EmptyIsSnapshot DEF DbInv, EmptySnapshot
  <2>5. \A r \in Revs : snaps[r] # None => snaps'[r] = snaps[r]
    BY <2>0
  <2>6. current # None => current.rev \in Revs
    BY DEF Link
  <2>7. LinkInv'
    BY <2>5, <2>6 DEF LinkInv
  <2>4. GcInv' /\ ReaderSound'
    BY DEF GcInv, ReaderSound
  <2>. QED BY <2>1, <2>2, <2>3, <2>4, <2>7
<1>5. pc[p] \in Writing /\ snaps[rev[p]] # None =>
        /\ rev[p] \in Revs /\ snaps[rev[p]] \in Snapshot
        /\ snaps[rev[p]].db # None =>
             snaps[rev[p]].db \in ingested /\ rev[snaps[rev[p]].db] = rev[p]
  BY DEF FullInv, TypeInv, TypeOK, CacheInv, DbInv
<1>6. CASE SyncManifest(p)
  <2>. DEFINE snap == [snaps[rev[p]] EXCEPT !.manifest = p]
  <2>1. snap \in Snapshot /\ snap.db = snaps[rev[p]].db
    BY <1>5, <1>6 DEF SyncManifest, SyncWrites, Writing, Snapshot
  <2>. HIDE DEF snap
  <2>2. SyncWrites(p, "manifest", snap, "clearTmp") /\ UNCHANGED syncVars
    BY <1>6 DEF SyncManifest, snap
  <2>. QED BY <1>0, <1>5, <2>1, <2>2, CacheSyncWrites DEF SyncWrites, Writing
<1>7. CASE SyncClearTmp(p)
  <2>. DEFINE snap == [snaps[rev[p]] EXCEPT !.tmp = None]
  <2>1. snap \in Snapshot /\ snap.db = snaps[rev[p]].db
    BY <1>5, <1>7 DEF SyncClearTmp, SyncWrites, Writing, Snapshot
  <2>. HIDE DEF snap
  <2>2. SyncWrites(p, "clearTmp", snap, "createTmp") /\ UNCHANGED syncVars
    BY <1>7 DEF SyncClearTmp, snap
  <2>. QED BY <1>0, <1>5, <2>1, <2>2, CacheSyncWrites DEF SyncWrites, Writing
<1>8. CASE SyncCreateTmp(p)
  <2>. DEFINE snap == [snaps[rev[p]] EXCEPT !.tmp = p]
  <2>1. snap \in Snapshot /\ snap.db = snaps[rev[p]].db /\ snap.tmp = p
    BY <1>5, <1>8 DEF SyncCreateTmp, SyncWrites, Writing, Snapshot
  <2>. HIDE DEF snap
  <2>2. SyncWrites(p, "createTmp", snap, "ingest") /\ UNCHANGED syncVars
    BY <1>8 DEF SyncCreateTmp, snap
  <2>. QED BY <1>0, <1>5, <2>1, <2>2, CacheSyncWrites DEF SyncWrites, Writing
<1>9. CASE SyncIngest(p)
  <2>. USE <1>9 DEF SyncIngest, FullInv, TypeInv, TypeOK, CacheInv, GoTo
  <2>1. DirInv'
    BY DEF DirInv, Critical, Writing
  <2>2. WriteInv'
    BY <1>0 DEF WriteInv, Writing, Critical
  <2>3. DbInv' /\ LinkInv' /\ GcInv' /\ ReaderSound'
    BY DEF DbInv, LinkInv, GcInv, ReaderSound
  <2>. QED BY <2>1, <2>2, <2>3
<1>10. CASE SyncRename(p)
  <2>. DEFINE snap == [snaps[rev[p]] EXCEPT !.db = snaps[rev[p]].tmp, !.tmp = None]
  <2>1. /\ p \in ingested /\ newest = p /\ snaps[rev[p]].tmp = p
    BY <1>10 DEF SyncRename, SyncWrites, FullInv, CacheInv, WriteInv
  <2>2. snap \in Snapshot /\ snap.db = p
    BY <1>5, <1>10, <2>1 DEF SyncRename, SyncWrites, Writing, Snapshot
  <2>. HIDE DEF snap
  <2>3. SyncWrites(p, "rename", snap, "unlink") /\ UNCHANGED syncVars
    BY <1>10 DEF SyncRename, snap
  <2>. QED BY <1>0, <2>1, <2>2, <2>3, CacheSyncWrites DEF SyncWrites, Writing
<1>11. CASE SyncUnlink(p)
  <2>. USE <1>11 DEF SyncUnlink, FullInv, TypeInv, TypeOK, CacheInv, GoTo
  <2>1. DirInv'
    BY DEF DirInv, Critical, Writing
  <2>2. WriteInv'
    BY DEF WriteInv, Writing
  <2>3. DbInv' /\ LinkInv' /\ GcInv' /\ ReaderSound'
    BY DEF DbInv, LinkInv, GcInv, ReaderSound
  <2>. QED BY <2>1, <2>2, <2>3
<1>12. CASE SyncLink(p)
  <2>. USE <1>12 DEF SyncLink, FullInv, TypeInv, TypeOK, CacheInv, GoTo, Release
  <2>0. /\ rev[p] \in Revs /\ snaps[rev[p]] # None /\ snaps[rev[p]].db = p
        /\ p \in ingested
    BY DEF WriteInv, Writing
  <2>1. DirInv'
    BY DEF DirInv, Critical, Writing
  <2>2. WriteInv'
    BY <1>0, <2>0 DEF WriteInv, Writing, Final, Critical
  <2>3. DbInv' /\ LinkInv'
    BY <1>0, <2>0 DEF DbInv, LinkInv
  <2>4. GcInv' /\ ReaderSound'
    BY <1>0 DEF GcInv, ReaderSound, Critical, Writing
  <2>. QED BY <2>1, <2>2, <2>3, <2>4
<1>. QED BY <1>1, <1>2, <1>3, <1>4, <1>6, <1>7, <1>8, <1>9, <1>10, <1>11, <1>12
         DEF SyncStep

LEMMA CacheGc ==
  ASSUME FullInv, Undisturbed, NEW g \in Gcs, GcStep(g) \/ GcConfirm(g)
  PROVE  CacheInv'
<1>. USE ProcsAssumption, DataAssumption
<1>0. /\ g \in Lockers /\ g \in Procs /\ g \notin ingested /\ Root[g] = "canonical"
      /\ pc[g] \in Critical => \A q \in Lockers : q # g => pc[q] \notin Critical
  <2>1. pc[g] \in Critical => \A q \in Lockers : q # g => pc[q] \notin Critical
    BY Alone
  <2>. QED BY <2>1 DEF FullInv, TypeInv, TypeOK, Undisturbed
<1>1. CASE Acquire(g)
  BY <1>1, CacheAcquire
<1>2. ASSUME NEW to \in {"mkdir", "prompt", "sweep"} \cup Final, GoTo(g, to),
             pc[g] \in Critical <=> to \in Critical,
             UNCHANGED <<locking, disk, syncVars, victim, seen>>,
             to = "sweep" => pc[g] = "locked"
      PROVE  CacheInv'
  <2>1. DirInv'
    BY <1>2 DEF FullInv, TypeInv, TypeOK, CacheInv, DirInv, GoTo, Final,
                Critical, Writing
  <2>. QED BY <1>0, <1>2, <2>1, CacheFrame DEF Final, Writing
<1>3. CASE GcSkips(g) \/ GcStarts(g) \/ GcPreview(g) \/ GcConfirm(g)
  BY <1>2, <1>3 DEF GcSkips, GcStarts, GcPreview, GcConfirm, Final, Critical, Writing
<1>4. CASE GcList(g)
  BY <1>2, <1>4 DEF GcList, Final, Critical, Writing
<1>5. CASE GcListFails(g) \/ GcRemoveFails(g) \/ GcEnds(g)
  BY <1>5, CacheReleased DEF GcListFails, GcRemoveFails, GcEnds, Abort, Final
<1>6. CASE GcSkipCurrent(g)
  BY <1>6 DEF GcSkipCurrent, FullInv, CacheInv, DirInv, WriteInv, DbInv, LinkInv,
              GcInv, ReaderSound
<1>7. CASE GcPick(g)
  <2>. USE <1>7 DEF GcPick, FullInv, TypeInv, TypeOK, CacheInv, GoTo
  <2>1. DirInv'
    BY DEF DirInv, Critical, Writing
  <2>2. WriteInv' /\ DbInv' /\ LinkInv' /\ ReaderSound'
    BY DEF WriteInv, DbInv, LinkInv, ReaderSound
  <2>3. PICK r \in todo[g] : ~LinkedBy(g, r) /\ victim' = [victim EXCEPT ![g] = r]
    OBVIOUS
  <2>4. current # None => current.rev # r
    BY <1>0, <2>3 DEF LinkInv, LinkedBy, Link
  <2>5. GcInv'
    BY <2>3, <2>4 DEF GcInv
  <2>. QED BY <2>1, <2>2, <2>5
<1>8. CASE GcRemoveFile(g)
  <2>. USE <1>8 DEF GcRemoveFile, FullInv, TypeInv, TypeOK, CacheInv
  <2>1. \A q \in Syncs : pc[q] \notin Writing
    BY <1>0 DEF Critical, Writing
  <2>2. victim[g] \in Revs /\ snaps[victim[g]] \in Snapshot
    OBVIOUS
  <2>3. PICK f \in {"manifest", "db", "tmp"} :
          snaps' = [snaps EXCEPT ![victim[g]] = [@ EXCEPT ![f] = None]]
    OBVIOUS
  <2>. DEFINE less == [snaps[victim[g]] EXCEPT ![f] = None]
  <2>4. less \in Snapshot /\ (less.db # None => less.db = snaps[victim[g]].db)
    BY <2>2, <2>3 DEF Snapshot
  <2>5. snaps' = [snaps EXCEPT ![victim[g]] = less]
    BY <2>3
  <2>. HIDE DEF less
  <2>6. DirInv' /\ GcInv' /\ ReaderSound'
    BY DEF DirInv, GcInv, ReaderSound
  <2>7. WriteInv'
    BY <2>1 DEF WriteInv, Writing
  <2>8. DbInv'
    BY <2>2, <2>4, <2>5, NoneAssumption DEF DbInv
  <2>9. LinkInv'
    BY <2>2, <2>5 DEF LinkInv, GcInv, Link
  <2>. QED BY <2>6, <2>7, <2>8, <2>9
<1>9. CASE GcRemoveDir(g)
  <2>. USE <1>9 DEF GcRemoveDir, FullInv, TypeInv, TypeOK, CacheInv, GoTo
  <2>1. \A q \in Syncs : pc[q] \notin Writing
    BY <1>0 DEF Critical, Writing
  <2>2. DirInv'
    BY DEF DirInv, Critical, Writing
  <2>3. WriteInv'
    BY <2>1 DEF WriteInv, Writing
  <2>4. DbInv'
    BY DEF DbInv
  <2>5. LinkInv'
    BY DEF LinkInv, GcInv, Link
  <2>6. GcInv' /\ ReaderSound'
    BY DEF GcInv, ReaderSound
  <2>. QED BY <2>2, <2>3, <2>4, <2>5, <2>6
<1>. QED BY <1>1, <1>3, <1>4, <1>5, <1>6, <1>7, <1>8, <1>9 DEF GcStep

\* While the link exists, what it leads to is there and holds a database.
LEMMA LinkResolves ==
  ASSUME FullInv
  PROVE  /\ CurrentRev = IF current = None THEN None ELSE current.rev
         /\ CurrentRev # None =>
              /\ CurrentRev \in Revs
              /\ VisibleDb = snaps[CurrentRev].db /\ VisibleDb # None
              /\ VisibleDb \in ingested /\ rev[VisibleDb] = CurrentRev
BY DataAssumption
   DEF FullInv, TypeInv, TypeOK, CacheInv, LinkInv, DbInv, CurrentRev, VisibleDb, Link

LEMMA CacheReader ==
  ASSUME FullInv, NEW p \in Readers, ReaderStep(p)
  PROVE  CacheInv'
<1>. USE ProcsAssumption DEF FullInv, TypeInv, TypeOK, CacheInv
<1>0. snaps' = snaps
  BY LinkResolves
     DEF ReaderStep, ReadCurrent, ReadDbExists, ReadDb, ReadDbFails
<1>1. /\ UNCHANGED <<locking, dir, dirs, current, syncVars, gcVars>>
      /\ \A q \in Lockers : pc'[q] = pc[q]
  BY ReaderFrame
<1>2. DirInv' /\ DbInv' /\ LinkInv' /\ GcInv'
  BY <1>0, <1>1 DEF DirInv, DbInv, LinkInv, GcInv
<1>3. WriteInv'
  BY <1>0, <1>1 DEF WriteInv
<1>4. ReaderSound'
  <2>1. CASE ReadDb(p)
    <3>1. VisibleDb \in ingested /\ seen' = [seen EXCEPT ![p] = VisibleDb]
      BY <2>1, LinkResolves DEF ReadDb, VisibleDb
    <3>2. pc' = [pc EXCEPT ![p] = "OK"]
      BY <2>1, <3>1 DEF ReadDb, GoTo
    <3>. QED BY <1>1, <3>1, <3>2 DEF ReaderSound
  <2>2. CASE ReadCurrent(p) \/ ReadDbExists(p) \/ ReadDbFails(p)
    BY <1>1, <2>2
       DEF ReaderSound, ReadCurrent, ReadDbExists, ReadDbFails, GoTo
  <2>. QED BY <2>1, <2>2 DEF ReaderStep
<1>. QED BY <1>2, <1>3, <1>4

LEMMA CacheInvariant ==
  ASSUME Undisturbed PROVE Spec => []FullInv
<1>1. Init => CacheInv
  BY ProcsAssumption
     DEF Init, CacheInv, DirInv, WriteInv, DbInv, LinkInv, GcInv, ReaderSound,
         Final, Critical, Writing
<1>2. TypeInv /\ LockInv /\ CacheInv /\ [Next]_vars => CacheInv'
  <2>1. CacheInv /\ UNCHANGED vars => CacheInv'
    BY DEF vars, CacheInv, DirInv, WriteInv, DbInv, LinkInv, GcInv, ReaderSound
  <2>2. ASSUME FullInv, NEW p \in Lockers, Crash(p) PROVE CacheInv'
    BY <2>2, CacheReleased DEF Crash, Final
  <2>3. Prunes = {}
    BY DEF Undisturbed
  <2>. QED BY <2>1, <2>2, <2>3, CacheSync, CacheGc, CacheReader
           DEF FullInv, Next, AllDone
<1>. QED BY <1>1, <1>2, TypeInvariant, LockInvariant, PTL DEF Spec, FullInv

\* Without prune, syncs and gcs of one URL serialise.
THEOREM Serialised ==
  ASSUME Undisturbed PROVE Spec => []SingleWriter
<1>1. FullInv => SingleWriter
  BY Alone DEF SingleWriter
<1>. QED BY <1>1, CacheInvariant, PTL

\* Without prune, `current` leads to a complete database of its revision in
\* every state, between any two system calls and after any death.
THEOREM CurrentIsComplete ==
  ASSUME Undisturbed PROVE Spec => []CurrentComplete
<1>1. FullInv => CurrentComplete
  BY DEF FullInv, TypeInv, TypeOK, CacheInv, LinkInv, DbInv, Link, CurrentComplete
<1>. QED BY <1>1, CacheInvariant, PTL

\* Without prune, what an unlocked reader reports as usable is complete.
THEOREM ReadersAreSound ==
  ASSUME Undisturbed PROVE Spec => []ReaderSound
<1>1. FullInv => ReaderSound
  BY DEF FullInv, CacheInv
<1>. QED BY <1>1, CacheInvariant, PTL

\* A sync that reports success has made its own index the visible one.
THEOREM SyncPublishes ==
  ASSUME Undisturbed PROVE Spec => SyncPublishesOwnIndex
<1>. DEFINE Publishes == \A p \in Syncs : pc[p] # "ok" /\ pc'[p] = "ok" =>
                           CurrentRev' = rev[p] /\ VisibleDb' = p
<1>1. FullInv /\ [Next]_vars => Publishes
  <2>. SUFFICES ASSUME FullInv, Next, NEW p \in Syncs, pc[p] # "ok", pc'[p] = "ok"
                PROVE  CurrentRev' = rev[p] /\ VisibleDb' = p
    BY DEF vars
  <2>. USE ProcsAssumption, DataAssumption DEF FullInv, TypeInv, TypeOK, GoTo
  <2>1. \A q \in Gcs : ~(GcStep(q) \/ GcConfirm(q))
    BY DEF GcStep, GcConfirm, GcSkips, GcStarts, GcPreview, Acquire, Mkdir, Open,
           OpenFails, Flock, GcList, GcListFails, GcSkipCurrent, GcPick,
           GcRemoveFile, GcRemoveDir, GcRemoveFails, GcEnds, Abort
  <2>2. \A q \in Readers : ~ReaderStep(q)
    BY ReaderFrame
  <2>3. \A q \in Lockers : ~Crash(q)
    BY DEF Crash
  <2>4. PICK q \in Syncs : SyncStep(q)
    BY <2>1, <2>2, <2>3 DEF Next, AllDone, vars, Undisturbed
  <2>5. ~Acquire(q) /\ ~SyncFails(q)
    BY DEF Acquire, Mkdir, Open, OpenFails, Flock, Abort, SyncFails
  <2>6. ~SyncFetch(q) /\ ~SyncFetchFails(q) /\ ~SyncMkSnap(q) /\ ~SyncIngest(q)
        /\ ~SyncUnlink(q)
    BY DEF SyncFetch, SyncFetchFails, SyncMkSnap, SyncIngest, SyncUnlink
  <2>7. ~SyncManifest(q) /\ ~SyncClearTmp(q) /\ ~SyncCreateTmp(q) /\ ~SyncRename(q)
    BY DEF SyncManifest, SyncClearTmp, SyncCreateTmp, SyncRename, SyncWrites
  <2>8. SyncLink(q)
    BY <2>4, <2>5, <2>6, <2>7 DEF SyncStep
  <2>9. p = q /\ SyncLink(q)
    BY <2>8 DEF SyncLink
  <2>10. rev[p] \in Revs /\ snaps[rev[p]] # None /\ snaps[rev[p]].db = p
    BY <2>9 DEF SyncLink, CacheInv, WriteInv, Writing
  <2>11. current' = [root |-> "canonical", rev |-> rev[p]] /\ snaps' = snaps
    BY <2>9 DEF SyncLink, Undisturbed
  <2>12. current' \in Link
    BY <2>10, <2>11 DEF Link, Spellings
  <2>13. current' # None /\ current'.root # "relative" /\ current'.rev = rev[p]
    BY <2>11, <2>12, NoneAssumption
  <2>14. CurrentRev' = rev[p]
    BY <2>10, <2>11, <2>13 DEF CurrentRev
  <2>15. rev[p] # None
    BY <2>10
  <2>. QED BY <2>10, <2>11, <2>14, <2>15 DEF VisibleDb
<1>2. Spec => [][Publishes]_vars
  BY <1>1, CacheInvariant, PTL DEF Spec
<1>. QED BY <1>2 DEF SyncPublishesOwnIndex

-----------------------------------------------------------------------------
(* How many snapshots a gc leaves.                                         *)

\* A nonempty set of naturals has a least element.
LEMMA NatLeast ==
  ASSUME NEW T, T \subseteq Nat, T # {}
  PROVE  \E x \in T : \A y \in T : x <= y
<1>1. IsWellFoundedOn(OpToRel(<, Nat), Nat)
  BY NatLessThanWellFounded
<1>2. PICK x \in T : \A y \in T : ~(<<y, x>> \in OpToRel(<, Nat))
  BY <1>1, WFMin
<1>3. \A y \in T : ~(y < x)
  BY <1>2 DEF OpToRel
<1>. QED BY <1>3

\* The revisions touched after r.
Younger(r) == {s \in Revs : age[s] < age[r]}

\* A revision never touched has the age N; the age of any other is its rank
\* among the revisions by their last touch, and no two have the same.
AgeInv ==
  LET N == Cardinality(Revs) IN
  /\ \A r \in Revs : age[r] <= N
  /\ \A r \in Revs : age[r] < N => Cardinality(Younger(r)) = age[r]
  /\ \A r, s \in Revs : age[r] = age[s] /\ age[r] < N => r = s

\* What a snapshot has been through, its revision was touched by.
PresentAged == \A r \in Present : age[r] < Cardinality(Revs)

LEMMA RevsSubset ==
  ASSUME NEW S, S \subseteq Revs
  PROVE  IsFiniteSet(S) /\ Cardinality(S) \in Nat /\ Cardinality(S) <= Cardinality(Revs)
BY DataAssumption, FS_Subset, FS_CardinalityType

\* A touched revision moves to the front, those that were before it move back
\* by one, and the others stay: ages are still ranks.
LEMMA TouchKeepsRanks ==
  ASSUME TypeOK, AgeInv, NEW r \in Revs, Touch(r)
  PROVE  /\ AgeInv'
         /\ age'[r] < Cardinality(Revs)
         /\ \A s \in Revs : age[s] < Cardinality(Revs) => age'[s] < Cardinality(Revs)
<1>. DEFINE N == Cardinality(Revs)
<1>1. /\ N \in Nat /\ N > 0
      /\ age \in [Revs -> Nat]
      /\ \A s \in Revs : age[s] <= N
      /\ \A s \in Revs : age[s] < N => Cardinality(Younger(s)) = age[s]
      /\ \A s, t \in Revs : age[s] = age[t] /\ age[s] < N => s = t
  BY DataAssumption, FS_CardinalityType, FS_EmptySet DEF TypeOK, AgeInv
<1>. HIDE DEF N
<1>2. /\ age' \in [Revs -> Nat]
      /\ age'[r] = 0
      /\ \A s \in Revs \ {r} : age'[s] = IF age[s] < age[r] THEN age[s] + 1 ELSE age[s]
  BY <1>1 DEF Touch
\* Room is left below N for a revision that moves back.
<1>3. ASSUME NEW s \in Revs, age[s] < age[r] PROVE age[s] + 1 < N
  <2>1. r \notin Younger(s) \cup {s} /\ s \notin Younger(s)
    BY <1>1, <1>3 DEF Younger
  <2>2. IsFiniteSet(Younger(s)) /\ Cardinality(Younger(s)) = age[s]
    BY <1>1, <1>3, RevsSubset DEF Younger
  <2>3. Cardinality(Younger(s) \cup {s} \cup {r}) = age[s] + 2
    <3>1. IsFiniteSet(Younger(s) \cup {s}) /\ Cardinality(Younger(s) \cup {s}) = age[s] + 1
      BY <2>1, <2>2, FS_AddElement
    <3>2. Cardinality((Younger(s) \cup {s}) \cup {r}) = Cardinality(Younger(s) \cup {s}) + 1
      BY <2>1, <3>1, FS_AddElement
    <3>. QED BY <1>1, <3>1, <3>2
  <2>4. Cardinality(Younger(s) \cup {s} \cup {r}) <= N
    <3>1. Younger(s) \cup {s} \cup {r} \subseteq Revs
      BY DEF Younger
    <3>. QED BY <3>1, RevsSubset DEF N
  <2>. QED BY <1>1, <2>3, <2>4
<1>4. \A s \in Revs : age'[s] <= N
  BY <1>1, <1>2, <1>3
<1>5. \A s \in Revs : age[s] < N => age'[s] < N
  BY <1>1, <1>2, <1>3
<1>6. \A s, t \in Revs : age'[s] = age'[t] /\ age'[s] < N => s = t
  BY <1>1, <1>2
<1>7. ASSUME NEW s \in Revs, age'[s] < N PROVE Cardinality(Younger(s)') = age'[s]
  <2>0. Younger(s)' = {t \in Revs : age'[t] < age'[s]}
    BY DEF Younger
  <2>1. CASE s = r
    <3>1. Younger(s)' = {}
      BY <1>2, <2>0, <2>1
    <3>. QED BY <1>2, <2>1, <3>1, FS_EmptySet
  <2>2. CASE s # r /\ age[s] < age[r]
    <3>1. Younger(s)' = Younger(s) \cup {r}
      BY <1>1, <1>2, <2>0, <2>2 DEF Younger
    <3>2. r \notin Younger(s) /\ age[s] < N
      BY <1>1, <2>2 DEF Younger
    <3>3. IsFiniteSet(Younger(s)) /\ Cardinality(Younger(s)) = age[s]
      BY <1>1, <3>2, RevsSubset DEF Younger
    <3>. QED BY <1>2, <2>2, <3>1, <3>2, <3>3, FS_AddElement
  <2>3. CASE s # r /\ ~(age[s] < age[r])
    <3>1. age[s] < N /\ age'[s] = age[s] /\ age[r] < age[s]
      BY <1>1, <1>2, <1>7, <2>3
    <3>2. Younger(s)' = Younger(s)
      BY <1>1, <1>2, <2>0, <3>1 DEF Younger
    <3>. QED BY <1>1, <3>1, <3>2
  <2>. QED BY <2>1, <2>2, <2>3
<1>8. AgeInv'
  BY <1>4, <1>6, <1>7 DEF AgeInv, N
<1>. QED BY <1>1, <1>2, <1>5, <1>8 DEF N

\* The snapshots that stay when a gc lists what is beyond Keep: never more than
\* Keep, and Keep of them if anything is beyond.
LEMMA KeepSplit ==
  ASSUME TypeOK, AgeInv, PresentAged
  PROVE  LET stay == Present \ BeyondKeep IN
         /\ Cardinality(stay) <= Keep
         /\ BeyondKeep # {} => Cardinality(stay) >= Keep
<1>. DEFINE N == Cardinality(Revs)
            stay == Present \ BeyondKeep
            Ahead(r) == {s \in Present : age[s] < age[r]}
<1>1. /\ Keep \in Nat /\ N \in Nat
      /\ age \in [Revs -> Nat]
      /\ \A r \in Present : age[r] <= N
      /\ \A r, s \in Present : age[r] = age[s] => r = s
  BY DataAssumption, FS_CardinalityType DEF TypeOK, AgeInv, PresentAged, Present
<1>2. /\ Present \subseteq Revs /\ stay \subseteq Present /\ BeyondKeep \subseteq Present
      /\ \A r : Ahead(r) \subseteq Revs
  BY DEF Present, BeyondKeep
<1>3. \A r \in Present : r \in BeyondKeep <=> Cardinality(Ahead(r)) >= Keep
  BY DEF BeyondKeep
<1>4. /\ IsFiniteSet(stay) /\ Cardinality(stay) \in Nat
      /\ \A r : IsFiniteSet(Ahead(r)) /\ Cardinality(Ahead(r)) \in Nat
  BY <1>2, RevsSubset
<1>5. \A r : \A s : s \in Ahead(r) <=> s \in Present /\ age[s] < age[r]
  OBVIOUS
<1>6. \A r \in stay : r \in Present /\ r \notin BeyondKeep
  OBVIOUS
<1>7. \A r \in Present : r \in stay \/ r \in BeyondKeep
  OBVIOUS
<1>. HIDE DEF N, stay, Ahead
\* The oldest of those that stay has all the others ahead of it.
<1>8. Cardinality(stay) <= Keep
  <2>1. CASE stay = {}
    BY <1>1, <2>1, FS_EmptySet
  <2>2. CASE stay # {}
    <3>. DEFINE T == {N - age[r] : r \in stay}
    <3>1. T \subseteq Nat
      BY <1>1, <1>2
    <3>2. T # {}
      BY <2>2
    <3>3. PICK x \in T : \A y \in T : x <= y
      BY <3>1, <3>2, NatLeast
    <3>4. PICK m \in stay : x = N - age[m]
      BY <3>3
    <3>5. \A r \in stay : age[r] <= age[m]
      <4>1. \A r \in stay : N - age[m] <= N - age[r]
        BY <3>3, <3>4
      <4>2. \A r \in stay : age[r] \in Nat
        BY <1>1, <1>2
      <4>. QED BY <1>1, <3>4, <4>1, <4>2
    <3>6. stay \ {m} \subseteq Ahead(m)
      <4>. SUFFICES ASSUME NEW r \in stay, r # m PROVE r \in Ahead(m)
        OBVIOUS
      <4>1. /\ r \in Present /\ m \in Present
            /\ age[r] \in Nat /\ age[m] \in Nat /\ age[r] # age[m] /\ age[r] <= age[m]
        BY <1>1, <1>2, <3>5
      <4>. QED BY <1>5, <4>1
    <3>7. Cardinality(stay \ {m}) = Cardinality(stay) - 1
      BY <1>4, FS_RemoveElement
    <3>8. Cardinality(stay \ {m}) <= Cardinality(Ahead(m))
      BY <1>4, <3>6, FS_Subset
    <3>9. ~(Cardinality(Ahead(m)) >= Keep)
      BY <1>3, <1>6
    <3>10. Cardinality(stay) \in Nat /\ Cardinality(Ahead(m)) \in Nat
      BY <1>4
    <3>. QED BY <1>1, <3>7, <3>8, <3>9, <3>10
  <2>. QED BY <2>1, <2>2
\* All that is ahead of the youngest listed stays.
<1>9. ASSUME BeyondKeep # {} PROVE Cardinality(stay) >= Keep
  <2>. DEFINE T == {age[r] : r \in BeyondKeep}
  <2>1. T \subseteq Nat /\ T # {}
    BY <1>1, <1>2, <1>9
  <2>2. PICK x \in T : \A y \in T : x <= y
    BY <2>1, NatLeast
  <2>3. PICK b \in BeyondKeep : x = age[b]
    BY <2>2
  <2>4. \A r \in BeyondKeep : age[b] <= age[r]
    BY <2>2, <2>3
  <2>5. Ahead(b) \subseteq stay
    <3>. SUFFICES ASSUME NEW r \in Present, age[r] < age[b] PROVE r \notin BeyondKeep
      BY <1>5, <1>7
    <3>1. age[r] \in Nat /\ age[b] \in Nat
      BY <1>1, <1>2
    <3>. QED BY <2>4, <3>1
  <2>6. Cardinality(Ahead(b)) <= Cardinality(stay)
    BY <1>4, <2>5, FS_Subset
  <2>7. Cardinality(Ahead(b)) >= Keep
    BY <1>2, <1>3
  <2>8. Cardinality(stay) \in Nat /\ Cardinality(Ahead(b)) \in Nat
    BY <1>4
  <2>. QED BY <1>1, <2>6, <2>7, <2>8
<1>. QED BY <1>8, <1>9 DEF stay

\* The snapshots that are neither listed for removal nor being removed.
Kept(g) == Present \ (todo[g] \cup {victim[g]})

\* While a gc sweeps, what it keeps is Keep snapshots and perhaps the current
\* one; and if there was anything to remove, at least Keep of them.
Sweep(g) ==
  /\ pc[g] \in {"look", "prompt", "mkdir", "open", "flock", "locked", "sweep"} =>
       victim[g] = None
  /\ pc[g] \in {"sweep", "remove"} =>
       /\ todo[g] \subseteq Present /\ victim[g] \notin todo[g]
       /\ Cardinality(Kept(g)) <= Keep + 1
       /\ (current # None /\ current.rev \in Kept(g)) \/ Cardinality(Kept(g)) <= Keep
       /\ todo[g] # {} \/ pc[g] = "remove" => Cardinality(Kept(g)) >= Keep
  /\ pc[g] = "remove" => victim[g] \in Present

SweepInv == \A g \in Gcs : Sweep(g)

BoundInv == AgeInv /\ PresentAged /\ SweepInv

\* One more than Keep is not too many where the current one is among them.
LEMMA SpareOfKept ==
  ASSUME Cardinality(Present) <= Keep + 1,
         (current # None /\ current.rev \in Present) \/ Cardinality(Present) <= Keep
  PROVE  Cardinality(Spare) <= Keep
<1>1. /\ IsFiniteSet(Present) /\ Cardinality(Present) \in Nat
      /\ IsFiniteSet(Spare) /\ Cardinality(Spare) \in Nat /\ Keep \in Nat
  BY RevsSubset, DataAssumption DEF Present, Spare
<1>2. CASE current # None /\ current.rev \in Present
  <2>1. Spare = Present \ {current.rev}
    BY <1>2 DEF Spare
  <2>2. Cardinality(Spare) = Cardinality(Present) - 1
    BY <1>1, <1>2, <2>1, FS_RemoveElement
  <2>. QED BY <1>1, <2>2
<1>3. CASE Cardinality(Present) <= Keep
  <2>1. Spare \subseteq Present
    BY DEF Spare
  <2>2. Cardinality(Spare) <= Cardinality(Present)
    BY <1>1, <2>1, FS_Subset
  <2>. QED BY <1>1, <1>3, <2>2
<1>. QED BY <1>2, <1>3

\* A sync changes nothing that belongs to another process, and nothing on the
\* disk outside its critical part.
LEMMA SyncFrame ==
  ASSUME TypeOK, NEW p \in Syncs, SyncStep(p)
  PROVE  /\ \A q \in Procs : q # p => pc'[q] = pc[q]
         /\ UNCHANGED gcVars
         /\ pc[p] \in Critical \/ UNCHANGED <<snaps, current>>
<1>1. CASE Acquire(p)
  BY <1>1 DEF Acquire, Mkdir, Open, OpenFails, Flock, Abort, GoTo, TypeOK
<1>2. CASE SyncFetch(p) \/ SyncFetchFails(p) \/ SyncMkSnap(p) \/ SyncIngest(p)
  BY <1>2 DEF SyncFetch, SyncFetchFails, SyncMkSnap, SyncIngest, GoTo, TypeOK, Critical, Writing
<1>3. CASE SyncManifest(p) \/ SyncClearTmp(p) \/ SyncCreateTmp(p) \/ SyncRename(p)
  <2>1. ASSUME NEW from \in Writing, NEW snap, NEW to, SyncWrites(p, from, snap, to)
        PROVE  /\ \A q \in Procs : q # p => pc'[q] = pc[q]
               /\ UNCHANGED gcVars
               /\ pc[p] \in Critical
    BY <2>1 DEF SyncWrites, GoTo, TypeOK, Critical
  <2>. QED BY <1>3, <2>1 DEF SyncManifest, SyncClearTmp, SyncCreateTmp, SyncRename, Writing
<1>4. CASE SyncUnlink(p) \/ SyncLink(p) \/ SyncFails(p)
  BY <1>4 DEF SyncUnlink, SyncLink, SyncFails, Abort, GoTo, TypeOK, Critical, Writing
<1>. QED BY <1>1, <1>2, <1>3, <1>4 DEF SyncStep

\* Nor does a gc.
LEMMA GcFrame ==
  ASSUME TypeOK, NEW h \in Gcs, GcStep(h) \/ GcConfirm(h)
  PROVE  /\ \A q \in Procs : q # h => pc'[q] = pc[q]
         /\ \A g \in Gcs : g # h => todo'[g] = todo[g] /\ victim'[g] = victim[g]
         /\ pc[h] \in Critical \/ UNCHANGED <<snaps, current>>
<1>1. CASE Acquire(h)
  BY <1>1 DEF Acquire, Mkdir, Open, OpenFails, Flock, Abort, GoTo, TypeOK
<1>2. CASE GcSkips(h) \/ GcStarts(h) \/ GcPreview(h) \/ GcConfirm(h) \/ GcList(h)
  BY <1>2 DEF GcSkips, GcStarts, GcPreview, GcConfirm, GcList, GoTo, TypeOK
<1>3. CASE GcListFails(h) \/ GcRemoveFails(h) \/ GcEnds(h)
  BY <1>3 DEF GcListFails, GcRemoveFails, GcEnds, Abort, GoTo, TypeOK
<1>4. CASE GcSkipCurrent(h) \/ GcPick(h)
  BY <1>4 DEF GcSkipCurrent, GcPick, GoTo, TypeOK
<1>5. CASE GcRemoveFile(h) \/ GcRemoveDir(h)
  BY <1>5 DEF GcRemoveFile, GcRemoveDir, GoTo, TypeOK, Critical
<1>. QED BY <1>1, <1>2, <1>3, <1>4, <1>5 DEF GcStep

\* A gc that does not move, on a disk that changes neither a snapshot's being
\* there nor the link.
LEMMA SweepFrame ==
  ASSUME NEW g \in Gcs, Sweep(g), pc'[g] = pc[g], todo'[g] = todo[g],
         victim'[g] = victim[g], Present' = Present, UNCHANGED current
  PROVE  Sweep(g)'
BY DEF Sweep, Kept

\* A gc outside its critical part, while others work on the disk.
LEMMA SweepOutside ==
  ASSUME NEW g \in Gcs, Sweep(g), pc'[g] = pc[g], pc[g] \notin Critical,
         victim'[g] = victim[g]
  PROVE  Sweep(g)'
BY DEF Sweep, Critical

LEMMA SweepSync ==
  ASSUME FullInv, SweepInv, NEW p \in Syncs, SyncStep(p)
  PROVE  SweepInv'
<1>. SUFFICES ASSUME NEW g \in Gcs PROVE Sweep(g)'
  BY DEF SweepInv
<1>1. /\ Sweep(g) /\ g # p /\ g \in Lockers /\ p \in Lockers
      /\ pc'[g] = pc[g] /\ UNCHANGED gcVars
      /\ pc[p] \in Critical \/ UNCHANGED <<snaps, current>>
  BY ProcsAssumption, SyncFrame DEF FullInv, TypeInv, SweepInv
<1>2. CASE pc[p] \in Critical
  BY <1>1, <1>2, Alone, SweepOutside
<1>3. CASE UNCHANGED <<snaps, current>>
  BY <1>1, <1>3, SweepFrame DEF Present
<1>. QED BY <1>1, <1>2, <1>3

LEMMA SweepGc ==
  ASSUME FullInv, BoundInv, NEW h \in Gcs, GcStep(h) \/ GcConfirm(h)
  PROVE  SweepInv'
<1>. USE ProcsAssumption, DataAssumption DEF FullInv, TypeInv, BoundInv
<1>. SUFFICES ASSUME NEW g \in Gcs PROVE Sweep(g)'
  BY DEF SweepInv
<1>1. /\ Sweep(g) /\ g \in Lockers /\ h \in Lockers
      /\ pc \in [Procs -> Final \cup Critical \cup
                    {"look", "prompt", "mkdir", "open", "flock", "checkDb", "openDb"}]
      /\ todo \in [Gcs -> SUBSET Revs] /\ victim \in [Gcs -> Revs \cup {None}]
      /\ Keep \in Nat /\ None \notin Revs
      /\ Present = {r \in Revs : snaps[r] # None}
      /\ IsFiniteSet(Kept(g)) /\ Cardinality(Kept(g)) \in Nat
  BY RevsSubset DEF SweepInv, TypeOK, Present, Kept
<1>2. CASE g # h
  <2>1. /\ pc'[g] = pc[g] /\ todo'[g] = todo[g] /\ victim'[g] = victim[g]
        /\ pc[h] \in Critical \/ UNCHANGED <<snaps, current>>
    BY <1>2, GcFrame
  <2>2. CASE pc[h] \in Critical
    BY <1>1, <1>2, <2>1, <2>2, Alone, SweepOutside
  <2>3. CASE UNCHANGED <<snaps, current>>
    BY <1>1, <2>1, <2>3, SweepFrame DEF Present
  <2>. QED BY <2>1, <2>2, <2>3
<1>3. CASE g = h
  <2>. USE <1>3
\* Up to the lock, no victim is chosen; an end keeps no promise.
  <2>1. ASSUME NEW to \in {"mkdir", "open", "flock", "locked", "prompt"} \cup Final, GoTo(g, to),
               to \notin Final => victim[g] = None, UNCHANGED victim
        PROVE  Sweep(g)'
    BY <1>1, <2>1 DEF Sweep, GoTo, Final
  <2>2. pc[g] \in {"look", "prompt", "mkdir", "open", "flock", "locked", "sweep"} =>
          victim[g] = None
    BY <1>1 DEF Sweep
  <2>3. CASE GcSkips(h) \/ GcStarts(h) \/ GcPreview(h) \/ GcConfirm(h)
    BY <2>1, <2>2, <2>3 DEF GcSkips, GcStarts, GcPreview, GcConfirm, Final
  <2>4. CASE Acquire(h)
    BY <2>1, <2>2, <2>4 DEF Acquire, Mkdir, Open, OpenFails, Flock, Abort, Final
  <2>5. CASE GcListFails(h) \/ GcRemoveFails(h) \/ GcEnds(h)
    BY <2>1, <2>5 DEF GcListFails, GcRemoveFails, GcEnds, Abort, Final
  <2>6. CASE GcList(h)
    <3>1. /\ pc'[g] = "sweep" /\ todo'[g] = BeyondKeep /\ victim'[g] = None
          /\ Present' = Present
      BY <1>1, <2>2, <2>6 DEF GcList, GoTo, Present
    <3>2. BeyondKeep \subseteq Present /\ None \notin Present
      BY <1>1 DEF BeyondKeep
    <3>3. Kept(g)' = Present \ BeyondKeep
      BY <3>1, <3>2 DEF Kept
    <3>4. /\ Cardinality(Kept(g)') <= Keep
          /\ BeyondKeep # {} => Cardinality(Kept(g)') >= Keep
      BY <3>3, KeepSplit
    <3>5. Cardinality(Kept(g)') \in Nat
      BY <3>3, RevsSubset DEF Present
    <3>6. Cardinality(Kept(g)') <= Keep + 1
      BY <1>1, <3>4, <3>5
    <3>. QED BY <3>1, <3>2, <3>4, <3>6 DEF Sweep
  <2>7. CASE GcSkipCurrent(h)
    <3>1. PICK r \in todo[g] : LinkedBy(g, r) /\ todo' = [todo EXCEPT ![g] = @ \ {r}]
      BY <2>7 DEF GcSkipCurrent
    <3>2. /\ pc[g] = "sweep" /\ pc'[g] = "sweep" /\ victim[g] = None /\ victim'[g] = None
          /\ todo'[g] = todo[g] \ {r} /\ Present' = Present /\ UNCHANGED current
      BY <1>1, <2>2, <2>7, <3>1 DEF GcSkipCurrent, Present
    <3>3. /\ todo[g] \subseteq Present /\ Cardinality(Kept(g)) >= Keep
          /\ (current # None /\ current.rev \in Kept(g)) \/ Cardinality(Kept(g)) <= Keep
      BY <1>1, <3>2 DEF Sweep
    <3>4. current # None /\ current.rev = r
      BY <3>1 DEF LinkedBy
    <3>5. Kept(g)' = Kept(g) \cup {r} /\ r \notin Kept(g)
      BY <1>1, <3>2, <3>3 DEF Kept
    <3>6. Cardinality(Kept(g)') = Cardinality(Kept(g)) + 1
      BY <1>1, <3>5, FS_AddElement
    <3>7. Cardinality(Kept(g)') <= Keep + 1 /\ Cardinality(Kept(g)') >= Keep
      BY <1>1, <3>3, <3>4, <3>5, <3>6
    <3>. QED BY <1>1, <3>2, <3>3, <3>4, <3>5, <3>7 DEF Sweep
  <2>8. CASE GcPick(h)
    <3>1. PICK r \in todo[g] : /\ todo' = [todo EXCEPT ![g] = @ \ {r}]
                              /\ victim' = [victim EXCEPT ![g] = r]
      BY <2>8 DEF GcPick
    <3>2. /\ pc[g] = "sweep" /\ pc'[g] = "remove" /\ victim[g] = None /\ victim'[g] = r
          /\ todo'[g] = todo[g] \ {r} /\ Present' = Present /\ UNCHANGED current
      BY <1>1, <2>2, <2>8, <3>1 DEF GcPick, GoTo, Present
    <3>3. /\ todo[g] \subseteq Present
          /\ Cardinality(Kept(g)) <= Keep + 1
          /\ (current # None /\ current.rev \in Kept(g)) \/ Cardinality(Kept(g)) <= Keep
          /\ Cardinality(Kept(g)) >= Keep
      BY <1>1, <3>2 DEF Sweep
    <3>4. Kept(g)' = Kept(g)
      BY <1>1, <3>2, <3>3 DEF Kept
    <3>. QED BY <3>2, <3>3, <3>4 DEF Sweep
  <2>9. CASE GcRemoveFile(h)
    <3>1. Present' = Present
      BY <2>9, NoneAssumption, GcType DEF GcRemoveFile, Present, TypeOK, Snapshot
    <3>. QED BY <1>1, <2>9, <3>1, SweepFrame DEF GcRemoveFile
  <2>10. CASE GcRemoveDir(h)
    <3>1. /\ pc[g] = "remove" /\ pc'[g] = "sweep" /\ victim'[g] = None
          /\ UNCHANGED <<todo, current>>
          /\ Present' = Present \ {victim[g]}
      BY <1>1, <2>10 DEF GcRemoveDir, GoTo, Present, TypeOK
    <3>2. /\ todo[g] \subseteq Present /\ victim[g] \notin todo[g]
          /\ Cardinality(Kept(g)) <= Keep + 1
          /\ (current # None /\ current.rev \in Kept(g)) \/ Cardinality(Kept(g)) <= Keep
          /\ Cardinality(Kept(g)) >= Keep
      BY <1>1, <3>1 DEF Sweep
    <3>3. Kept(g)' = Kept(g)
      BY <1>1, <3>1, <3>2 DEF Kept
    <3>4. todo[g] \subseteq Present' /\ None \notin todo[g]
      BY <1>1, <3>1, <3>2
    <3>. QED BY <3>1, <3>2, <3>3, <3>4 DEF Sweep
  <2>. QED BY <2>3, <2>4, <2>5, <2>6, <2>7, <2>8, <2>9, <2>10 DEF GcStep
<1>. QED BY <1>2, <1>3

\* A step touches no revision and adds no snapshot, or adds at most the snapshot
\* of the revision it touches.
AgeStep ==
  \/ UNCHANGED age /\ Present' \subseteq Present
  \/ \E r \in Revs : Touch(r) /\ Present' \subseteq Present \cup {r}

LEMMA StepAges == FullInv /\ Next => AgeStep
<1>. USE ProcsAssumption, DataAssumption DEF FullInv, TypeInv, TypeOK
<1>. SUFFICES ASSUME FullInv, Next PROVE AgeStep
  OBVIOUS
<1>1. ASSUME UNCHANGED <<age, snaps>> PROVE AgeStep
  BY <1>1 DEF AgeStep, Present
<1>2. ASSUME NEW p \in Lockers, Acquire(p) \/ Abort(p) \/ Crash(p) PROVE AgeStep
  BY <1>1, <1>2 DEF Acquire, Mkdir, Open, OpenFails, Flock, Abort, Crash
<1>3. ASSUME NEW p \in Syncs, SyncStep(p) PROVE AgeStep
  <2>1. CASE SyncMkSnap(p)
    <3>1. rev[p] \in Revs
      BY <2>1 DEF SyncMkSnap, Writing
    <3>. QED BY <1>1, <2>1, <3>1 DEF SyncMkSnap, AgeStep, Present
  <2>2. ASSUME NEW from \in Writing, NEW snap, NEW to, SyncWrites(p, from, snap, to)
        PROVE  AgeStep
    <3>1. rev[p] \in Revs
      BY <2>2 DEF SyncWrites
    <3>. QED BY <2>2, <3>1 DEF SyncWrites, AgeStep, Present
  <2>3. CASE SyncManifest(p) \/ SyncClearTmp(p) \/ SyncCreateTmp(p) \/ SyncRename(p)
    BY <2>2, <2>3 DEF SyncManifest, SyncClearTmp, SyncCreateTmp, SyncRename, Writing
  <2>4. CASE Acquire(p) \/ SyncFails(p)
    BY <1>2, <2>4 DEF SyncFails
  <2>5. CASE SyncFetch(p) \/ SyncFetchFails(p) \/ SyncIngest(p) \/ SyncUnlink(p) \/ SyncLink(p)
    BY <1>1, <2>5 DEF SyncFetch, SyncFetchFails, SyncIngest, SyncUnlink, SyncLink
  <2>. QED BY <1>3, <2>1, <2>3, <2>4, <2>5 DEF SyncStep
<1>4. ASSUME NEW g \in Gcs, GcStep(g) \/ GcConfirm(g) PROVE AgeStep
  <2>1. CASE GcRemoveFile(g)
    <3>1. victim[g] \in Revs /\ snaps[victim[g]] # None
      BY <2>1 DEF GcRemoveFile
    <3>. QED BY <2>1, <3>1 DEF GcRemoveFile, AgeStep, Present
  <2>2. CASE GcRemoveDir(g)
    BY <2>2 DEF GcRemoveDir, AgeStep, Present
  <2>3. CASE Acquire(g) \/ GcListFails(g) \/ GcRemoveFails(g)
    BY <1>2, <2>3 DEF GcListFails, GcRemoveFails
  <2>4. CASE \/ GcSkips(g) \/ GcStarts(g) \/ GcPreview(g) \/ GcConfirm(g) \/ GcList(g)
             \/ GcSkipCurrent(g) \/ GcPick(g) \/ GcEnds(g)
    BY <1>1, <2>4 DEF GcSkips, GcStarts, GcPreview, GcConfirm, GcList, GcSkipCurrent, GcPick, GcEnds
  <2>. QED BY <1>4, <2>1, <2>2, <2>3, <2>4 DEF GcStep
<1>5. ASSUME NEW p \in Prunes, PruneStep(p) PROVE AgeStep
  <2>1. CASE PruneRename(p)
    BY <2>1 DEF PruneRename, AgeStep, Present
  <2>2. CASE Acquire(p) \/ PruneRenameFails(p)
    BY <1>2, <2>2 DEF PruneRenameFails
  <2>3. CASE PruneLooks(p) \/ PruneEnds(p)
    BY <1>1, <2>3 DEF PruneLooks, PruneEnds
  <2>. QED BY <1>5, <2>1, <2>2, <2>3 DEF PruneStep
<1>6. ASSUME NEW p \in Readers, ReaderStep(p) PROVE AgeStep
  <2>1. CASE ReadDb(p)
    <3>1. CurrentRev # None
      BY <2>1 DEF ReadDb, VisibleDb
    <3>2. CurrentRev \in Revs
      BY <3>1, CurrentRevPresent
    <3>. QED BY <2>1, <3>2 DEF ReadDb, AgeStep, Present
  <2>2. CASE ReadDbFails(p)
    <3>1. CASE CurrentRev = None
      BY <1>1, <2>2, <3>1 DEF ReadDbFails
    <3>2. CASE CurrentRev # None
      <4>1. CurrentRev \in Revs /\ snaps[CurrentRev] \in Snapshot
        BY <3>2, CurrentRevPresent
      <4>. QED BY <2>2, <3>2, <4>1 DEF ReadDbFails, AgeStep, Present
    <3>. QED BY <3>1, <3>2
  <2>3. CASE ReadCurrent(p) \/ ReadDbExists(p)
    BY <1>1, <2>3 DEF ReadCurrent, ReadDbExists
  <2>. QED BY <1>6, <2>1, <2>2, <2>3 DEF ReaderStep
<1>7. CASE AllDone
  BY <1>1, <1>7 DEF AllDone, vars
<1>. QED BY <1>2, <1>3, <1>4, <1>5, <1>6, <1>7 DEF Next

LEMMA AgesKept ==
  ASSUME TypeOK, AgeInv, PresentAged, AgeStep
  PROVE  AgeInv' /\ PresentAged'
<1>1. CASE UNCHANGED age /\ Present' \subseteq Present
  BY <1>1 DEF AgeInv, PresentAged, Younger, Present
<1>2. ASSUME NEW r \in Revs, Touch(r), Present' \subseteq Present \cup {r}
      PROVE  AgeInv' /\ PresentAged'
  <2>1. /\ AgeInv'
        /\ age'[r] < Cardinality(Revs)
        /\ \A s \in Revs : age[s] < Cardinality(Revs) => age'[s] < Cardinality(Revs)
    BY <1>2, TouchKeepsRanks
  <2>2. Present \subseteq Revs
    BY DEF Present
  <2>. QED BY <1>2, <2>1, <2>2 DEF PresentAged
<1>. QED BY <1>1, <1>2 DEF AgeStep

\* Without prune, a gc that runs to its end leaves at most Keep snapshots besides
\* the current one, and no removal leaves fewer than Keep: however syncs, other
\* gcs, readers (whose opening a database moves its mtime) and deaths interleave.
THEOREM GcKeepsEnough ==
  ASSUME Undisturbed PROVE Spec => GcBound
<1>. DEFINE Bound ==
              \A g \in Gcs :
                /\ pc[g] = "sweep" /\ pc'[g] = "ok" => Cardinality(Spare') <= Keep
                /\ pc[g] = "remove" /\ pc'[g] = "sweep" => Cardinality(Present') >= Keep
<1>1. Init => BoundInv
  <2>. SUFFICES ASSUME Init PROVE BoundInv
    OBVIOUS
  <2>1. Cardinality(Revs) \in Nat
    BY DataAssumption, FS_CardinalityType
  <2>2. AgeInv /\ PresentAged
    BY <2>1 DEF Init, AgeInv, PresentAged, Present
  <2>3. SweepInv
    BY ProcsAssumption DEF Init, SweepInv, Sweep
  <2>. QED BY <2>2, <2>3 DEF BoundInv
<1>2. FullInv /\ BoundInv /\ [Next]_vars => BoundInv'
  <2>. SUFFICES ASSUME FullInv, BoundInv, [Next]_vars PROVE BoundInv'
    OBVIOUS
  <2>1. CASE UNCHANGED vars
    BY <2>1 DEF vars, BoundInv, AgeInv, Younger, PresentAged, Present, SweepInv, Sweep, Kept
  <2>2. CASE Next
    <3>1. AgeInv' /\ PresentAged'
      BY <2>2, StepAges, AgesKept DEF FullInv, TypeInv, BoundInv
    <3>2. ASSUME NEW p \in Readers, ReaderStep(p) PROVE SweepInv'
      <4>1. snaps' = snaps
        BY <3>2, LinkResolves DEF ReaderStep, ReadCurrent, ReadDbExists, ReadDb, ReadDbFails, FullInv
      <4>2. UNCHANGED <<current, gcVars>> /\ \A q \in Lockers : pc'[q] = pc[q]
        BY <3>2, ReaderFrame DEF FullInv, TypeInv
      <4>. QED BY <4>1, <4>2, SweepFrame DEF BoundInv, SweepInv, Present
    <3>3. ASSUME NEW p \in Lockers, Crash(p) PROVE SweepInv'
      <4>. SUFFICES ASSUME NEW g \in Gcs PROVE Sweep(g)'
        BY DEF SweepInv
      <4>1. CASE g = p
        BY <3>3, <4>1 DEF Crash, GoTo, FullInv, TypeInv, TypeOK, Sweep
      <4>2. CASE g # p
        BY <3>3, <4>2, SweepFrame
           DEF Crash, GoTo, FullInv, TypeInv, TypeOK, BoundInv, SweepInv, Present
      <4>. QED BY <4>1, <4>2
    <3>4. CASE AllDone
      BY <2>1, <3>4 DEF AllDone, BoundInv
    <3>5. SweepInv'
      BY <2>2, <3>2, <3>3, <3>4, SweepSync, SweepGc DEF Next, Undisturbed, BoundInv
    <3>. QED BY <3>1, <3>5 DEF BoundInv
  <2>. QED BY <2>1, <2>2
<1>3. FullInv /\ BoundInv /\ [Next]_vars => Bound
  <2>. SUFFICES ASSUME FullInv, BoundInv, Next, NEW g \in Gcs, pc'[g] # pc[g],
                       pc[g] \in {"sweep", "remove"}, pc'[g] \in {"ok", "sweep"}
                PROVE  /\ pc'[g] = "ok" => Cardinality(Spare') <= Keep
                       /\ pc[g] = "remove" => Cardinality(Present') >= Keep
    BY DEF vars
  <2>1. /\ TypeOK /\ g \in Procs /\ Sweep(g)
        /\ Keep \in Nat
    BY DataAssumption DEF FullInv, TypeInv, BoundInv, SweepInv
  <2>2. GcStep(g) \/ GcConfirm(g)
    <3>1. \A p \in Syncs : ~SyncStep(p)
      BY <2>1, SyncFrame, ProcsAssumption
    <3>2. \A p \in Readers : ~ReaderStep(p)
      BY <2>1, ReaderFrame
    <3>3. \A p \in Lockers : ~Crash(p)
      BY <2>1 DEF Crash, GoTo, TypeOK
    <3>4. \A h \in Gcs : GcStep(h) \/ GcConfirm(h) => h = g
      BY <2>1, GcFrame
    <3>. QED BY <3>1, <3>2, <3>3, <3>4 DEF Next, AllDone, vars, Undisturbed
  <2>3. CASE GcRemoveDir(g)
    <3>1. Kept(g) \subseteq Present' /\ pc[g] = "remove" /\ pc'[g] = "sweep"
      BY <2>1, <2>3 DEF GcRemoveDir, Kept, Present, TypeOK, GoTo
    <3>2. Cardinality(Kept(g)) >= Keep
      BY <2>1, <3>1 DEF Sweep
    <3>3. /\ Cardinality(Kept(g)) <= Cardinality(Present')
          /\ Cardinality(Kept(g)) \in Nat /\ Cardinality(Present') \in Nat
      <4>1. Present' \subseteq Revs
        BY DEF Present
      <4>2. IsFiniteSet(Present')
        BY <4>1, RevsSubset
      <4>. QED BY <3>1, <4>2, FS_Subset, FS_CardinalityType
    <3>. QED BY <2>1, <3>1, <3>2, <3>3
  <2>4. CASE GcEnds(g)
    <3>1. pc[g] = "sweep" /\ pc'[g] # "sweep" /\ todo[g] = {} /\ Spare' = Spare
      BY <2>1, <2>4 DEF GcEnds, GoTo, Present, Spare, TypeOK
    <3>2. Kept(g) = Present
      BY <2>1, <3>1, DataAssumption DEF Sweep, Kept, Present
    <3>3. Cardinality(Spare) <= Keep
      BY <2>1, <3>1, <3>2, SpareOfKept DEF Sweep
    <3>. QED BY <3>1, <3>3
  <2>5. \/ GcRemoveDir(g) \/ GcEnds(g)
    BY <2>1, <2>2
       DEF GcStep, GcConfirm, GcSkips, GcStarts, GcPreview, Acquire, Mkdir, Open,
           OpenFails, Flock, GcList, GcListFails, GcSkipCurrent, GcPick,
           GcRemoveFile, GcRemoveFails, Abort, GoTo, TypeOK
  <2>. QED BY <2>3, <2>4, <2>5
<1>4. Spec => [][Bound]_vars
  BY <1>1, <1>2, <1>3, CacheInvariant, PTL DEF Spec
<1>. QED BY <1>4 DEF GcBound

-----------------------------------------------------------------------------
(* The cache implements the abstract store.                                *)

LEMMA StoreUnchanged ==
  ASSUME UNCHANGED <<ingested, newest>>, VisibleDb' = VisibleDb
  PROVE  [Store!Next]_(Store!vars)
BY DEF Store!vars

\* A snapshot that changes without its database being seen to change.
LEMMA SameVisible ==
  ASSUME FullInv, FullInv', UNCHANGED current,
         current # None => snaps'[current.rev].db = snaps[current.rev].db
  PROVE  VisibleDb' = VisibleDb
<1>1. FullInv => (VisibleDb = IF current = None THEN None ELSE snaps[current.rev].db)
  BY DataAssumption
     DEF FullInv, TypeInv, TypeOK, CacheInv, LinkInv, CurrentRev, VisibleDb, Link
<1>2. FullInv' => (VisibleDb' = IF current' = None THEN None ELSE snaps'[current'.rev].db)
  BY DataAssumption
     DEF FullInv, TypeInv, TypeOK, CacheInv, LinkInv, CurrentRev, VisibleDb, Link
<1>. QED BY <1>1, <1>2

LEMMA StoreSync ==
  ASSUME Undisturbed, FullInv, FullInv', NEW p \in Syncs, SyncStep(p)
  PROVE  [Store!Next]_(Store!vars)
<1>. USE ProcsAssumption, DataAssumption DEF FullInv, TypeInv, TypeOK
<1>0. current # None => current.rev \in Revs /\ snaps[current.rev] # None
  BY DEF CacheInv, LinkInv, Link
<1>1. CASE Acquire(p)
  BY <1>1, SameVisible, StoreUnchanged
     DEF Acquire, Mkdir, Open, OpenFails, Flock, Abort
<1>2. CASE SyncFetch(p) \/ SyncFetchFails(p) \/ SyncFails(p)
  BY <1>2, SameVisible, StoreUnchanged DEF SyncFetch, SyncFetchFails, SyncFails, Abort
<1>3. CASE SyncMkSnap(p)
  BY <1>0, <1>3, SameVisible, StoreUnchanged DEF SyncMkSnap
<1>4. ASSUME NEW from \in Writing, NEW snap, NEW to,
             SyncWrites(p, from, snap, to), UNCHANGED syncVars,
             snap.db = snaps[rev[p]].db
      PROVE  [Store!Next]_(Store!vars)
  <2>1. \A r \in Revs : snaps'[r].db = snaps[r].db
    BY <1>4 DEF SyncWrites
  <2>. QED BY <1>0, <1>4, <2>1, SameVisible, StoreUnchanged DEF SyncWrites
<1>5. pc[p] \in Writing /\ snaps[rev[p]] # None => snaps[rev[p]] \in Snapshot
  OBVIOUS
<1>6. CASE SyncManifest(p)
  <2>. DEFINE snap == [snaps[rev[p]] EXCEPT !.manifest = p]
  <2>1. snap.db = snaps[rev[p]].db
    BY <1>5, <1>6 DEF SyncManifest, SyncWrites, Writing, Snapshot
  <2>. HIDE DEF snap
  <2>2. SyncWrites(p, "manifest", snap, "clearTmp") /\ UNCHANGED syncVars
    BY <1>6 DEF SyncManifest, snap
  <2>. QED BY <1>4, <2>1, <2>2 DEF Writing
<1>7. CASE SyncClearTmp(p)
  <2>. DEFINE snap == [snaps[rev[p]] EXCEPT !.tmp = None]
  <2>1. snap.db = snaps[rev[p]].db
    BY <1>5, <1>7 DEF SyncClearTmp, SyncWrites, Writing, Snapshot
  <2>. HIDE DEF snap
  <2>2. SyncWrites(p, "clearTmp", snap, "createTmp") /\ UNCHANGED syncVars
    BY <1>7 DEF SyncClearTmp, snap
  <2>. QED BY <1>4, <2>1, <2>2 DEF Writing
<1>8. CASE SyncCreateTmp(p)
  <2>. DEFINE snap == [snaps[rev[p]] EXCEPT !.tmp = p]
  <2>1. snap.db = snaps[rev[p]].db
    BY <1>5, <1>8 DEF SyncCreateTmp, SyncWrites, Writing, Snapshot
  <2>. HIDE DEF snap
  <2>2. SyncWrites(p, "createTmp", snap, "ingest") /\ UNCHANGED syncVars
    BY <1>8 DEF SyncCreateTmp, snap
  <2>. QED BY <1>4, <2>1, <2>2 DEF Writing
<1>9. CASE SyncIngest(p)
  <2>1. p \notin ingested
    BY <1>9 DEF SyncIngest, CacheInv, WriteInv, Final
  <2>2. VisibleDb' = VisibleDb
    BY <1>9, SameVisible DEF SyncIngest
  <2>3. Store!Commit(p)
    BY <1>9, <2>1, <2>2 DEF SyncIngest, Store!Commit
  <2>. QED BY <2>3 DEF Store!Next
<1>10. CASE SyncRename(p)
  <2>1. newest = p /\ snaps[rev[p]].tmp = p
    BY <1>10 DEF SyncRename, SyncWrites, CacheInv, WriteInv
  <2>2. \A r \in Revs : r # rev[p] => snaps'[r] = snaps[r]
    BY <1>10 DEF SyncRename, SyncWrites
  <2>3. UNCHANGED <<current, ingested, newest>>
    BY <1>10 DEF SyncRename, SyncWrites
  <2>4. CASE current # None /\ current.rev = rev[p]
    <3>1. CurrentRev' = rev[p]
      BY <2>3, <2>4, <1>0 DEF CurrentRev, CacheInv, LinkInv
    <3>2. rev[p] \in Revs /\ snaps[rev[p]] \in Snapshot
      BY <1>0, <2>4
    <3>3. snaps'[rev[p]].db = p
      BY <1>10, <2>1, <3>2 DEF SyncRename, SyncWrites, Snapshot
    <3>4. VisibleDb' = newest
      BY <2>1, <3>1, <3>2, <3>3 DEF VisibleDb
    <3>. QED BY <2>1, <2>3, <3>4 DEF Store!Show, Store!Next
  <2>5. CASE current = None \/ current.rev # rev[p]
    BY <1>0, <2>2, <2>3, <2>5, SameVisible, StoreUnchanged
  <2>. QED BY <2>4, <2>5
<1>11. CASE SyncUnlink(p)
  <2>1. VisibleDb' = None
    BY <1>11 DEF SyncUnlink, VisibleDb, CurrentRev
  <2>. QED BY <1>11, <2>1 DEF SyncUnlink, Store!Withdraw, Store!Next
<1>12. CASE SyncLink(p)
  <2>1. newest = p /\ snaps[rev[p]].db = p
    BY <1>12 DEF SyncLink, CacheInv, WriteInv
  <2>2. pc'[p] = "ok" /\ pc[p] # "ok"
    BY <1>12 DEF SyncLink, GoTo
  <2>3. rev[p] \in Revs /\ current' # None /\ current'.rev = rev[p] /\ snaps' = snaps
    BY <1>12, NoneAssumption DEF SyncLink, Writing, Link
  <2>4. VisibleDb' = snaps[rev[p]].db
    BY <2>3 DEF VisibleDb, CurrentRev, CacheInv, LinkInv
  <2>5. VisibleDb' = newest
    BY <2>1, <2>4
  <2>. QED BY <1>12, <2>1, <2>5 DEF SyncLink, Store!Show, Store!Next
<1>. QED BY <1>1, <1>2, <1>3, <1>6, <1>7, <1>8, <1>9, <1>10, <1>11, <1>12 DEF SyncStep

LEMMA StoreGc ==
  ASSUME FullInv, FullInv', NEW g \in Gcs, GcStep(g) \/ GcConfirm(g)
  PROVE  [Store!Next]_(Store!vars)
<1>0. UNCHANGED <<current, ingested, newest>>
  BY DEF GcStep, GcConfirm, GcSkips, GcStarts, GcPreview, Acquire, Mkdir, Open,
         OpenFails, Flock, GcList, GcListFails, GcSkipCurrent, GcPick,
         GcRemoveFile, GcRemoveDir, GcRemoveFails, GcEnds, Abort,
         locking, disk, syncVars, gcVars
<1>1. current # None => snaps'[current.rev] = snaps[current.rev]
  <2>1. CASE GcRemoveFile(g) \/ GcRemoveDir(g)
    <3>1. current # None => current.rev # victim[g] /\ current.rev \in Revs
      BY <2>1 DEF GcRemoveFile, GcRemoveDir, FullInv, TypeInv, TypeOK, CacheInv,
                  GcInv, Link
    <3>. QED BY <2>1, <3>1 DEF GcRemoveFile, GcRemoveDir, FullInv, TypeInv, TypeOK
  <2>2. CASE ~(GcRemoveFile(g) \/ GcRemoveDir(g))
    BY <2>2 DEF GcStep, GcConfirm, GcSkips, GcStarts, GcPreview, Acquire, Mkdir, Open,
         OpenFails, Flock, GcList, GcListFails, GcSkipCurrent, GcPick,
         GcRemoveFails, GcEnds, Abort, locking, disk, syncVars, gcVars
  <2>. QED BY <2>1, <2>2
<1>. QED BY <1>0, <1>1, SameVisible, StoreUnchanged

\* Without prune, readers of the cache see the abstract store: a whole index,
\* the newest one at the moment it appears, never altered in place.
THEOREM Refinement ==
  ASSUME Undisturbed PROVE Spec => StoreSpec
<1>1. Init => Store!Init
  BY DEF Init, Store!Init, VisibleDb, CurrentRev
<1>2. FullInv /\ FullInv' /\ [Next]_vars => [Store!Next]_(Store!vars)
  <2>. SUFFICES ASSUME FullInv, FullInv', [Next]_vars
                PROVE  [Store!Next]_(Store!vars)
    OBVIOUS
  <2>1. CASE UNCHANGED vars
    BY <2>1, StoreUnchanged DEF vars, VisibleDb, CurrentRev
  <2>2. ASSUME NEW p \in Readers, ReaderStep(p) PROVE [Store!Next]_(Store!vars)
    <3>1. UNCHANGED <<current, ingested, newest>>
      BY <2>2, ReaderFrame DEF FullInv, TypeInv
    <3>2. snaps' = snaps
      BY <2>2, LinkResolves
         DEF ReaderStep, ReadCurrent, ReadDbExists, ReadDb, ReadDbFails
    <3>. QED BY <3>1, <3>2, SameVisible, StoreUnchanged
  <2>3. ASSUME NEW p \in Lockers, Crash(p) PROVE [Store!Next]_(Store!vars)
    BY <2>3, SameVisible, StoreUnchanged DEF Crash
  <2>. QED BY <2>1, <2>2, <2>3, StoreSync, StoreGc DEF Next, AllDone, Undisturbed
<1>3. Spec => Store!Spec
  BY <1>1, <1>2, CacheInvariant, PTL DEF Spec, Store!Spec
<1>. QED BY <1>3 DEF StoreSpec
=============================================================================
