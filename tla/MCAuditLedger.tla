--------------------------- MODULE MCAuditLedger ----------------------------
(***************************************************************************)
(* Instances of AuditLedger for TLC: runs of two projects, and other       *)
(* clients asking for one of them and for the project "all".               *)
(***************************************************************************)
EXTENDS AuditLedger

CONSTANTS p1, p2, d1, d2

TwoRuns == {d1, d2}
OneBefore == <<d1>>
OneEach == (d1 :> p1) @@ (d2 :> p2)
TwoProjects == {p1, p2}
SomeQueries == {p1, "all"}
=============================================================================
