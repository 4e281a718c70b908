---------------------------- MODULE MCWikiIngest ----------------------------
(* WikiIngest for TLC. *)
EXTENDS WikiIngest, TLC

Symmetry == Permutations(Docs) \cup Permutations(Workers)
=============================================================================
