--------------------------- MODULE MCWikiFinalize ---------------------------
(* WikiFinalize with two documents; the first may have two operations at a   *)
(* time, one of them of a batch whose row was deleted.                       *)
EXTENDS WikiFinalize

CONSTANTS d1, d2, a1, a2, b

MCDocs == {d1, d2}
MCJobs == {a1, a2, b}
MCOf == [j \in MCJobs |-> IF j = b THEN d2 ELSE d1]

=============================================================================
