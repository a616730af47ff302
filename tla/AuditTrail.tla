----------------------------- MODULE AuditTrail -----------------------------
(***************************************************************************)
(* What the audit ledger promises: a run is recorded once with its         *)
(* verdict, an override marks it and leaves a record of who did it in one  *)
(* step, and neither a run nor a record is ever changed or taken away      *)
(* otherwise.                                                              *)
(***************************************************************************)
EXTENDS Naturals, Sequences

CONSTANTS
    Runs,       \* diff runs
    Projects,   \* projects they belong to
    Sessions,   \* override requests, each by somebody
    NoRow       \* no Row: stands for a run that was not recorded

Verdict == {"PASSED", "FAILED"}

Row == [project : Projects, verdict : Verdict, status : Verdict \cup {"OVERRIDDEN"}]

VARIABLES
    rows,       \* rows[r]: the row of run r in diff_runs
    trail       \* rows of audit_overrides, oldest first

vars == <<rows, trail>>

Init ==
    /\ rows = [r \in Runs |-> NoRow]
    /\ trail = <<>>

Record(r) ==
    /\ rows[r] = NoRow
    /\ \E p \in Projects, v \in Verdict :
          rows' = [rows EXCEPT ![r] = [project |-> p, verdict |-> v, status |-> v]]
    /\ UNCHANGED trail

Override(s, r) ==
    /\ rows[r] # NoRow
    /\ \A k \in DOMAIN trail : trail[k].session # s
    /\ rows' = [rows EXCEPT ![r].status = "OVERRIDDEN"]
    /\ trail' = Append(trail, [session |-> s, run |-> r])

Next == \E r \in Runs : Record(r) \/ \E s \in Sessions : Override(s, r)

Spec == Init /\ [][Next]_vars

\* A run shows as overridden exactly when the ledger has a record of it.
OverriddenIffAudited ==
    \A r \in Runs :
        (rows[r] # NoRow /\ rows[r].status = "OVERRIDDEN")
            <=> \E k \in DOMAIN trail : trail[k].run = r
=============================================================================
