---------------------------- MODULE MCWikiPages ----------------------------
EXTENDS WikiPages, TLC
CONSTANTS a, b

\* Page a links to page b.
MCLinks == [p \in Pages |-> IF p = a THEN {b} ELSE {}]

Symmetry == Permutations(Writers) \cup Permutations(Docs)
=============================================================================
