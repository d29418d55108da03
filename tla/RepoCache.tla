------------------------------ MODULE RepoCache ------------------------------
(***************************************************************************)
(* The on-disk snapshot cache of one repository URL, as the processes that *)
(* touch it do: `repo sync`, `repo cache gc`, `repo cache prune` and the   *)
(* unlocked readers (`repo status`, `repo show`, the universe loader).     *)
(*                                                                         *)
(* Every process runs one command once.  An action is one system call, or  *)
(* a run of calls that no other process can tell apart.  Paths are         *)
(* resolved at every call: `dir` is the directory found at repos/<sha>     *)
(* now, and a writer whose directory was renamed away writes into whatever *)
(* is there.  A file is named by the process that wrote it.                *)
(***************************************************************************)
EXTENDS Naturals, FiniteSets

CONSTANTS
  Syncs, Gcs, Prunes, Readers,  \* processes, by the command they run
  Confirming,                   \* the gcs run without --yes, which prompt first
  Revs,                         \* revisions the mirror may serve
  Keep,                         \* gc --keep
  Root,                         \* how each process spells the cache root
  MaxCrashes,                   \* bound on processes killed half-way
  None

Lockers == Syncs \cup Gcs \cup Prunes
Procs == Lockers \cup Readers

\* "relative" is a spelling that does not resolve from inside the cache.
Spellings == {"canonical", "alias", "relative"}

ASSUME ProcsAssumption ==
  /\ Syncs \cap Gcs = {} /\ Syncs \cap Prunes = {} /\ Gcs \cap Prunes = {}
  /\ Lockers \cap Readers = {}
  /\ Confirming \subseteq Gcs
  /\ None \notin Procs
ASSUME DataAssumption ==
  /\ IsFiniteSet(Revs) /\ None \notin Revs
  /\ Keep \in Nat /\ MaxCrashes \in Nat
  /\ Root \in [Procs -> Spellings]

VARIABLES
  pc,        \* where each process is
  fd,        \* the directory whose .lock file a process has open, 0 if none
  holds,     \* the processes whose flock was granted
  dir,       \* the directory at repos/<sha>, 0 if there is none
  dirs,      \* how many directories were ever created there
  snaps,     \* snapshots/<rev>: its manifest.json, repo.db and repo.db.tmp
  current,   \* the `current` symlink: the path it spells
  age,       \* how many revisions were touched since this one (mtime order)
  rev,       \* the revision a sync fetched
  ingested,  \* the syncs whose database file is committed and closed
  newest,    \* the last of them
  listed,    \* the snapshots a prompting gc showed to the user
  todo,      \* the snapshots a gc has still to look at
  victim,    \* the snapshot a gc is removing
  seen,      \* the database file a reader opened
  crashes

locking == <<fd, holds>>
disk == <<dir, dirs, snaps, current, age>>
syncVars == <<rev, ingested, newest>>
gcVars == <<listed, todo, victim>>
vars == <<pc, locking, disk, syncVars, gcVars, seen, crashes>>

Snapshot == [manifest : Syncs \cup {None},
             db : Procs \cup {None},
             tmp : Syncs \cup {None}]
EmptySnapshot == [manifest |-> None, db |-> None, tmp |-> None]
Link == [root : Spellings, rev : Revs]

ASSUME NoneAssumption == None \notin Snapshot /\ None \notin Link

Final == {"ok", "fetch_failed", "aborted", "declined", "crashed",
          "MISSING", "NO_DB", "ERROR", "OK"}
Writing == {"mkSnap", "manifest", "clearTmp", "createTmp", "ingest",
            "rename", "unlink", "link"}
Critical == Writing \cup {"locked", "sweep", "remove", "drop"}

Init ==
  /\ pc = [p \in Procs |-> IF p \in Syncs THEN "mkdir" ELSE "look"]
  /\ fd = [p \in Lockers |-> 0] /\ holds = {}
  /\ dir = 0 /\ dirs = 0
  /\ snaps = [r \in Revs |-> None]
  /\ current = None
  /\ age = [r \in Revs |-> Cardinality(Revs)]
  /\ rev = [p \in Syncs |-> None] /\ ingested = {} /\ newest = None
  /\ listed = [g \in Gcs |-> {}] /\ todo = [g \in Gcs |-> {}]
  /\ victim = [g \in Gcs |-> None]
  /\ seen = [p \in Readers |-> None]
  /\ crashes = 0

-----------------------------------------------------------------------------
(* The file system.                                                        *)

Present == {r \in Revs : snaps[r] # None}

\* What `current` resolves to: a dangling link resolves to nothing.
CurrentRev ==
  IF current # None /\ current.root # "relative" /\ snaps[current.rev] # None
    THEN current.rev ELSE None

\* The database a reader reaches through current/repo.db.
VisibleDb == IF CurrentRev = None THEN None ELSE snaps[CurrentRev].db

\* An entry of snapshots/<r> was created, renamed or removed: its mtime moves.
Touch(r) ==
  age' = [s \in Revs |-> IF s = r THEN 0
                         ELSE IF age[s] < age[r] THEN age[s] + 1 ELSE age[s]]

\* Mutant: a recreated directory is taken for the one that was there.
MakeDirUncounted ==
  IF dir = 0 THEN dir' = dirs + 1 /\ UNCHANGED dirs
             ELSE UNCHANGED <<dir, dirs>>

\* create_dir_all(repos/<sha>)
MakeDir ==
  IF dir = 0 THEN dir' = dirs + 1 /\ dirs' = dirs + 1
             ELSE UNCHANGED <<dir, dirs>>

GoTo(p, label) == pc' = [pc EXCEPT ![p] = label]

\* The lock guard is dropped: the descriptor is closed and the flock with it.
Release(p) == fd' = [fd EXCEPT ![p] = 0] /\ holds' = holds \ {p}

\* An error propagated with `?`: the guard drops, the command ends.
Abort(p) ==
  GoTo(p, "aborted") /\ Release(p)
  /\ UNCHANGED <<disk, syncVars, gcVars, seen, crashes>>

-----------------------------------------------------------------------------
(* locks::acquire                                                          *)

Mkdir(p) ==
  /\ pc[p] = "mkdir"
  /\ MakeDir
  /\ GoTo(p, "open")
  /\ UNCHANGED <<locking, snaps, current, age, syncVars, gcVars, seen, crashes>>

Open(p) ==
  /\ pc[p] = "open" /\ dir # 0
  /\ fd' = [fd EXCEPT ![p] = dir]
  /\ GoTo(p, "flock")
  /\ UNCHANGED <<holds, disk, syncVars, gcVars, seen, crashes>>

\* The directory was renamed away between create_dir_all and open.
OpenFails(p) == pc[p] = "open" /\ dir = 0 /\ Abort(p)

\* Mutant: a shared flock.
LockShared(p) == p \notin holds

LockFree(p) == \A q \in holds : fd[q] # fd[p]

Flock(p) ==
  /\ pc[p] = "flock" /\ LockFree(p)
  /\ holds' = holds \cup {p}
  /\ GoTo(p, "locked")
  /\ UNCHANGED <<fd, disk, syncVars, gcVars, seen, crashes>>

Acquire(p) == Mkdir(p) \/ Open(p) \/ OpenFails(p) \/ Flock(p)

-----------------------------------------------------------------------------
(* repo sync, one repository                                               *)

SyncFetch(p) ==
  /\ pc[p] = "locked"
  /\ \E r \in Revs : rev' = [rev EXCEPT ![p] = r]
  /\ GoTo(p, "mkSnap")
  /\ UNCHANGED <<locking, disk, ingested, newest, gcVars, seen, crashes>>

\* Mutant: the guard lives on after a failed fetch.
SyncFetchFailsHolding(p) ==
  /\ pc[p] = "locked"
  /\ GoTo(p, "fetch_failed")
  /\ UNCHANGED <<locking, disk, syncVars, gcVars, seen, crashes>>

\* A failed fetch is reported and the loop goes on: the guard drops.
SyncFetchFails(p) ==
  /\ pc[p] = "locked"
  /\ GoTo(p, "fetch_failed") /\ Release(p)
  /\ UNCHANGED <<disk, syncVars, gcVars, seen, crashes>>

SyncMkSnap(p) ==
  /\ pc[p] = "mkSnap"
  /\ MakeDir
  /\ IF snaps[rev[p]] = None
       THEN snaps' = [snaps EXCEPT ![rev[p]] = EmptySnapshot] /\ Touch(rev[p])
       ELSE UNCHANGED <<snaps, age>>
  /\ GoTo(p, "manifest")
  /\ UNCHANGED <<locking, current, syncVars, gcVars, seen, crashes>>

\* A step of write_snapshot that leaves `snap` in snapshots/<rev> ...
SyncWrites(p, from, snap, to) ==
  /\ pc[p] = from /\ snaps[rev[p]] # None
  /\ snaps' = [snaps EXCEPT ![rev[p]] = snap]
  /\ Touch(rev[p])
  /\ GoTo(p, to)
  /\ UNCHANGED <<locking, dir, dirs, current, gcVars, seen, crashes>>

SyncManifest(p) ==
  /\ SyncWrites(p, "manifest", [snaps[rev[p]] EXCEPT !.manifest = p], "clearTmp")
  /\ UNCHANGED syncVars

SyncClearTmp(p) ==
  /\ SyncWrites(p, "clearTmp", [snaps[rev[p]] EXCEPT !.tmp = None], "createTmp")
  /\ UNCHANGED syncVars

\* Mutant: the database is built under its final name.
SyncCreateInPlace(p) ==
  /\ SyncWrites(p, "createTmp",
                [snaps[rev[p]] EXCEPT !.tmp = p, !.db = p], "ingest")
  /\ UNCHANGED syncVars

SyncCreateTmp(p) ==
  /\ SyncWrites(p, "createTmp", [snaps[rev[p]] EXCEPT !.tmp = p], "ingest")
  /\ UNCHANGED syncVars

\* Mutant: the file is renamed without waiting for the commit.
SyncRenamesUncommitted(p) ==
  /\ pc[p] = "ingest"
  /\ GoTo(p, "rename")
  /\ UNCHANGED <<locking, disk, syncVars, gcVars, seen, crashes>>

\* The transaction commits and the connection closes, wherever the file is.
SyncIngest(p) ==
  /\ pc[p] = "ingest"
  /\ ingested' = ingested \cup {p} /\ newest' = p
  /\ GoTo(p, "rename")
  /\ UNCHANGED <<locking, disk, rev, gcVars, seen, crashes>>

\* Mutant: a database already there is kept as a cache hit.
SyncRenameKeepsOld(p) ==
  /\ SyncWrites(p, "rename",
                [snaps[rev[p]] EXCEPT !.db = IF @ = None THEN snaps[rev[p]].tmp ELSE @,
                                      !.tmp = None],
                "unlink")
  /\ snaps[rev[p]].tmp # None
  /\ UNCHANGED syncVars

\* rename(2) takes the file found under the temporary name.
SyncRename(p) ==
  /\ SyncWrites(p, "rename",
                [snaps[rev[p]] EXCEPT !.db = snaps[rev[p]].tmp, !.tmp = None],
                "unlink")
  /\ snaps[rev[p]].tmp # None
  /\ UNCHANGED syncVars

SyncUnlink(p) ==
  /\ pc[p] = "unlink"
  /\ current' = None
  /\ GoTo(p, "link")
  /\ UNCHANGED <<locking, dir, dirs, snaps, age, syncVars, gcVars, seen, crashes>>

SyncLink(p) ==
  /\ pc[p] = "link" /\ dir # 0 /\ current = None
  /\ current' = [root |-> Root[p], rev |-> rev[p]]
  /\ GoTo(p, "ok") /\ Release(p)
  /\ UNCHANGED <<dir, dirs, snaps, age, syncVars, gcVars, seen, crashes>>

\* ... and any of them may fail: no such directory or file, a link already
\* there, a full disk.
SyncFails(p) == pc[p] \in Writing /\ Abort(p)

SyncStep(p) ==
  \/ Acquire(p)
  \/ SyncFetch(p) \/ SyncFetchFails(p) \/ SyncMkSnap(p) \/ SyncManifest(p)
  \/ SyncClearTmp(p) \/ SyncCreateTmp(p) \/ SyncIngest(p) \/ SyncRename(p)
  \/ SyncUnlink(p) \/ SyncLink(p) \/ SyncFails(p)

-----------------------------------------------------------------------------
(* repo cache gc, the iteration for this repository                        *)

\* Mutant: the snapshot at the boundary goes too.
BeyondKeepOffByOne ==
  {r \in Present : Cardinality({s \in Present : age[s] < age[r]}) + 1 >= Keep}

\* Mutant: one snapshot more is spared.
BeyondKeepOneMore ==
  {r \in Present : Cardinality({s \in Present : age[s] < age[r]}) > Keep}

\* All but the Keep snapshots with the latest mtime.
BeyondKeep ==
  {r \in Present : Cardinality({s \in Present : age[s] < age[r]}) >= Keep}

\* Mutant: the link target is compared with the name of the snapshot.
LinkedByName(p, r) == current = r

LinkedBy(p, r) == current # None /\ current = [root |-> Root[p], rev |-> r]

\* Nothing cached: the repository is skipped without taking the lock.
GcSkips(g) ==
  /\ pc[g] = "look" /\ Present = {}
  /\ GoTo(g, "ok")
  /\ UNCHANGED <<locking, disk, syncVars, gcVars, seen, crashes>>

GcStarts(g) ==
  /\ pc[g] = "look" /\ Present # {} /\ g \notin Confirming
  /\ GoTo(g, "mkdir")
  /\ UNCHANGED <<locking, disk, syncVars, gcVars, seen, crashes>>

\* gc_candidates, computed and shown without the lock.
GcPreview(g) ==
  /\ pc[g] = "look" /\ Present # {} /\ g \in Confirming
  /\ LET candidates == {r \in BeyondKeep : ~LinkedBy(g, r)} IN
       /\ listed' = [listed EXCEPT ![g] = candidates]
       /\ GoTo(g, IF candidates = {} THEN "ok" ELSE "prompt")
  /\ UNCHANGED <<locking, disk, syncVars, todo, victim, seen, crashes>>

\* The user answers, or stdin is not a terminal and the command refuses.
GcConfirm(g) ==
  /\ pc[g] = "prompt"
  /\ \E answer \in {"mkdir", "declined"} : GoTo(g, answer)
  /\ UNCHANGED <<locking, disk, syncVars, gcVars, seen, crashes>>

GcList(g) ==
  /\ pc[g] = "locked"
  /\ todo' = [todo EXCEPT ![g] = BeyondKeep]
  /\ GoTo(g, "sweep")
  /\ UNCHANGED <<locking, disk, syncVars, listed, victim, seen, crashes>>

\* read_dir(snapshots) fails: acquire has just created the directory anew.
GcListFails(g) == pc[g] = "locked" /\ Present = {} /\ Abort(g)

NextVictim(g, r) == r \in todo[g] /\ \A s \in todo[g] : age[r] <= age[s]

GcSkipCurrent(g) ==
  /\ pc[g] = "sweep"
  /\ \E r \in todo[g] :
       /\ NextVictim(g, r) /\ LinkedBy(g, r)
       /\ todo' = [todo EXCEPT ![g] = @ \ {r}]
  /\ UNCHANGED <<pc, locking, disk, syncVars, listed, victim, seen, crashes>>

GcPick(g) ==
  /\ pc[g] = "sweep"
  /\ \E r \in todo[g] :
       /\ NextVictim(g, r) /\ ~LinkedBy(g, r)
       /\ todo' = [todo EXCEPT ![g] = @ \ {r}]
       /\ victim' = [victim EXCEPT ![g] = r]
  /\ GoTo(g, "remove")
  /\ UNCHANGED <<locking, disk, syncVars, listed, seen, crashes>>

\* remove_dir_all: one file at a time, then the directory.
GcRemoveFile(g) ==
  /\ pc[g] = "remove" /\ snaps[victim[g]] # None
  /\ \E f \in {"manifest", "db", "tmp"} :
       /\ snaps[victim[g]][f] # None
       /\ snaps' = [snaps EXCEPT ![victim[g]] = [@ EXCEPT ![f] = None]]
  /\ Touch(victim[g])
  /\ UNCHANGED <<pc, locking, dir, dirs, current, syncVars, gcVars, seen, crashes>>

GcRemoveDir(g) ==
  /\ pc[g] = "remove" /\ snaps[victim[g]] = EmptySnapshot
  /\ snaps' = [snaps EXCEPT ![victim[g]] = None]
  /\ victim' = [victim EXCEPT ![g] = None]
  /\ GoTo(g, "sweep")
  /\ UNCHANGED <<locking, dir, dirs, current, age, syncVars, listed, todo, seen, crashes>>

GcRemoveFails(g) == pc[g] = "remove" /\ snaps[victim[g]] = None /\ Abort(g)

GcEnds(g) ==
  /\ pc[g] = "sweep" /\ todo[g] = {}
  /\ GoTo(g, "ok") /\ Release(g)
  /\ UNCHANGED <<disk, syncVars, gcVars, seen, crashes>>

GcStep(g) ==
  \/ GcSkips(g) \/ GcStarts(g) \/ GcPreview(g)
  \/ Acquire(g)
  \/ GcList(g) \/ GcListFails(g) \/ GcSkipCurrent(g) \/ GcPick(g)
  \/ GcRemoveFile(g) \/ GcRemoveDir(g) \/ GcRemoveFails(g) \/ GcEnds(g)

-----------------------------------------------------------------------------
(* repo cache prune, rename_then_remove of this repository                 *)

PruneLooks(p) ==
  /\ pc[p] = "look"
  /\ GoTo(p, IF dir = 0 THEN "ok" ELSE "mkdir")
  /\ UNCHANGED <<locking, disk, syncVars, gcVars, seen, crashes>>

\* Whatever is at the path moves aside, with everything in it.
PruneRename(p) ==
  /\ pc[p] = "locked" /\ dir # 0
  /\ dir' = 0 /\ snaps' = [r \in Revs |-> None] /\ current' = None
  /\ GoTo(p, "drop")
  /\ UNCHANGED <<locking, dirs, age, syncVars, gcVars, seen, crashes>>

PruneRenameFails(p) == pc[p] = "locked" /\ dir = 0 /\ Abort(p)

\* The guard drops; what is left is remove_dir_all of the renamed directory,
\* which no path of the cache leads to any more.
PruneEnds(p) ==
  /\ pc[p] = "drop"
  /\ GoTo(p, "ok") /\ Release(p)
  /\ UNCHANGED <<disk, syncVars, gcVars, seen, crashes>>

PruneStep(p) ==
  \/ PruneLooks(p) \/ Acquire(p)
  \/ PruneRename(p) \/ PruneRenameFails(p) \/ PruneEnds(p)

-----------------------------------------------------------------------------
(* repo status, one row: current.exists(), db_path.exists(), RepoDb::open, *)
(* each of which follows the symlink again                                 *)

ReadCurrent(p) ==
  /\ pc[p] = "look"
  /\ GoTo(p, IF CurrentRev = None THEN "MISSING" ELSE "checkDb")
  /\ UNCHANGED <<locking, disk, syncVars, gcVars, seen, crashes>>

ReadDbExists(p) ==
  /\ pc[p] = "checkDb"
  /\ GoTo(p, IF VisibleDb = None THEN "NO_DB" ELSE "openDb")
  /\ UNCHANGED <<locking, disk, syncVars, gcVars, seen, crashes>>

\* Opening switches the file to WAL, which adds files beside it.  A
\* half-written file reads as whatever it holds so far.
ReadDb(p) ==
  /\ pc[p] = "openDb" /\ VisibleDb # None
  /\ seen' = [seen EXCEPT ![p] = VisibleDb]
  /\ Touch(CurrentRev)
  /\ \E status \in IF VisibleDb \in ingested THEN {"OK"} ELSE {"OK", "ERROR"} :
       GoTo(p, status)
  /\ UNCHANGED <<locking, dir, dirs, snaps, current, syncVars, gcVars, crashes>>

\* SQLite creates a missing file in a directory that exists.
ReadDbFails(p) ==
  /\ pc[p] = "openDb" /\ VisibleDb = None
  /\ IF CurrentRev = None
       THEN UNCHANGED <<snaps, age>>
       ELSE snaps' = [snaps EXCEPT ![CurrentRev].db = p] /\ Touch(CurrentRev)
  /\ GoTo(p, "ERROR")
  /\ UNCHANGED <<locking, dir, dirs, current, syncVars, gcVars, seen, crashes>>

ReaderStep(p) ==
  ReadCurrent(p) \/ ReadDbExists(p) \/ ReadDb(p) \/ ReadDbFails(p)

-----------------------------------------------------------------------------
(* The process dies; the kernel closes its descriptors.                    *)
Crash(p) ==
  /\ pc[p] \notin Final /\ crashes < MaxCrashes
  /\ crashes' = crashes + 1
  /\ GoTo(p, "crashed") /\ Release(p)
  /\ UNCHANGED <<disk, syncVars, gcVars, seen>>

AllDone == (\A p \in Procs : pc[p] \in Final) /\ UNCHANGED vars

Next ==
  \/ \E p \in Syncs : SyncStep(p)
  \/ \E g \in Gcs : GcStep(g) \/ GcConfirm(g)
  \/ \E p \in Prunes : PruneStep(p)
  \/ \E p \in Readers : ReaderStep(p)
  \/ \E p \in Lockers : Crash(p)
  \/ AllDone

Spec == Init /\ [][Next]_vars

\* A running process keeps running; the user need not answer a prompt.
Fairness ==
  /\ \A p \in Syncs : WF_vars(SyncStep(p))
  /\ \A g \in Gcs : WF_vars(GcStep(g))
  /\ \A p \in Prunes : WF_vars(PruneStep(p))
  /\ \A p \in Readers : WF_vars(ReaderStep(p))

FairSpec == Spec /\ Fairness
-----------------------------------------------------------------------------
(* Properties.                                                             *)

\* Every variable has its type, and a directory found at the path was created.
TypeOK ==
  /\ pc \in [Procs -> Final \cup Critical \cup
                {"look", "prompt", "mkdir", "open", "flock", "checkDb", "openDb"}]
  /\ dirs \in Nat /\ dir \in 0..dirs
  /\ fd \in [Lockers -> 0..dirs] /\ holds \in SUBSET Lockers
  /\ snaps \in [Revs -> Snapshot \cup {None}]
  /\ current \in Link \cup {None}
  /\ age \in [Revs -> Nat]
  /\ rev \in [Syncs -> Revs \cup {None}]
  /\ ingested \in SUBSET Syncs /\ newest \in Syncs \cup {None}
  /\ listed \in [Gcs -> SUBSET Revs] /\ todo \in [Gcs -> SUBSET Revs]
  /\ victim \in [Gcs -> Revs \cup {None}]
  /\ seen \in [Readers -> Procs \cup {None}]
  /\ crashes \in 0..MaxCrashes

\* At most one process works inside repos/<sha>, whichever lock file it locked
\* to get there: "two parallel syncs of the same URL must serialise".
SingleWriter ==
  \A p, q \in Lockers : pc[p] \in Critical /\ pc[q] \in Critical => p = q

\* Two processes never hold the lock of one directory, even when prune renames
\* directories away under waiting processes and processes die holding it.
LockExclusive ==
  \A p, q \in Lockers :
     pc[p] \in Critical /\ pc[q] \in Critical /\ fd[p] = fd[q] => p = q

\* `current`, whenever it exists, leads to a database that a sync of exactly
\* that revision ingested to the end: write_snapshot publishes by rename, then
\* by repointing the link, and gc spares what the link spells.
CurrentComplete ==
  current # None =>
    /\ snaps[current.rev] # None
    /\ snaps[current.rev].db \in ingested
    /\ rev[snaps[current.rev].db] = current.rev

\* A reader that reports a usable database opened a complete one, although it
\* takes no lock and follows the link three times.
ReaderSound == \A p \in Readers : pc[p] = "OK" => seen[p] \in ingested

\* When a sync reports success, what a reader reaches is its own index.
SyncPublishesOwnIndex ==
  [][\A p \in Syncs : pc[p] # "ok" /\ pc'[p] = "ok" =>
        CurrentRev' = rev[p] /\ VisibleDb' = p]_vars

\* The snapshots `current` does not name.
Spare == {r \in Present : current = None \/ current.rev # r}

\* A gc that runs to its end leaves at most Keep snapshots besides the current
\* one, wherever that one stands among them, and no removal takes the number of
\* snapshots below Keep.
GcBound ==
  [][\A g \in Gcs :
       /\ pc[g] = "sweep" /\ pc'[g] = "ok" => Cardinality(Spare') <= Keep
       /\ pc[g] = "remove" /\ pc'[g] = "sweep" => Cardinality(Present') >= Keep]_vars

\* Readers see the cache as an abstract store of whole, ever newer indexes.
Store == INSTANCE SnapshotStore
           WITH Writers <- Syncs, committed <- ingested, visible <- VisibleDb
StoreSpec == Store!Spec

\* Whoever waits for the lock gets it or fails: no holder keeps it for ever,
\* nobody prompts the user while holding it, and a death releases it.
LockWaitEnds == \A p \in Lockers : pc[p] = "flock" ~> pc[p] # "flock"
=============================================================================
