----------------------------- MODULE MCLspServer -----------------------------
(* Small instances of LspServer: documents, texts and the configs that load  *)
(* differ in nothing but their names.                                        *)
EXTENDS LspServer, TLC

NameSymmetry == Permutations(Docs) \cup Permutations(Texts) \cup Permutations(Configs)
=============================================================================
