----------------------------- MODULE MCShellcheck -----------------------------
(* Small instances of Shellcheck: two sections, pipes smaller than what goes *)
(* through them.                                                             *)
EXTENDS Shellcheck
=============================================================================
