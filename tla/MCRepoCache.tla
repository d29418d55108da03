----------------------------- MODULE MCRepoCache -----------------------------
(***************************************************************************)
(* Instances of RepoCache for TLC.  The cfgs choose the processes; every   *)
(* process spells the cache root the same way.                             *)
(***************************************************************************)
EXTENDS RepoCache, TLC

AllCanonical == [p \in Procs |-> "canonical"]

RevSymmetry == Permutations(Revs)
SyncRevSymmetry == Permutations(Revs) \cup Permutations(Syncs)
=============================================================================
