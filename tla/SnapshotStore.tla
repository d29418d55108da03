---------------------------- MODULE SnapshotStore ----------------------------
(***************************************************************************)
(* What the snapshot cache promises to the commands that only read it: the *)
(* index they reach is one that some sync committed whole, it is the       *)
(* newest committed one at the moment it appears, and it may be withdrawn  *)
(* (between two snapshots there can be none) but never altered in place.   *)
(***************************************************************************)
CONSTANTS Writers, None

VARIABLES
  committed,  \* the writers whose index is complete
  newest,     \* the last of them to complete it
  visible     \* the index a reader reaches, None if there is none

vars == <<committed, newest, visible>>

Init == committed = {} /\ newest = None /\ visible = None

Commit(w) ==
  /\ w \in Writers \ committed
  /\ committed' = committed \cup {w}
  /\ newest' = w
  /\ UNCHANGED visible

Show ==
  /\ newest # None
  /\ visible' = newest
  /\ UNCHANGED <<committed, newest>>

Withdraw == visible' = None /\ UNCHANGED <<committed, newest>>

Next == (\E w \in Writers : Commit(w)) \/ Show \/ Withdraw

Spec == Init /\ [][Next]_vars
=============================================================================
