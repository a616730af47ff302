---------------------------- MODULE AuditLedger -----------------------------
(***************************************************************************)
(* The audit panel (viewer/src/components/AuditLedger.tsx) on top of       *)
(* GET /api/diffs: it asks for all runs when it is mounted and when the    *)
(* operator refreshes it, and shows the last list that came.  Its state    *)
(* goes with it; the answer to a panel that is gone is dropped.            *)
(*                                                                         *)
(* main.tsx renders in StrictMode and deploy/Dockerfile.viewer serves the  *)
(* development build, where an effect on mount runs twice.                 *)
(***************************************************************************)
EXTENDS ListCache, FiniteSets

CONSTANTS
    Clients,    \* readers that also carry requests of other clients
    MountRuns   \* how often the effect on mount runs: 2 in StrictMode, else 1

ASSUME PanelAssumption ==
    /\ Clients \subseteq Readers
    /\ MountRuns \in {1, 2} /\ MountRuns <= Cardinality(Readers)

VARIABLES
    open,       \* the panel is mounted
    blank,      \* its first render is on show, made before the effect on mount
    runs,       \* runs
    loading,    \* loading
    selected,   \* a run is inspected (selectedRun)
    asked,      \* fetches under way
    mine        \* those that the panel on show made

panel   == <<open, blank, runs, loading, selected, asked, mine>>
allVars == <<vars, panel>>

PanelInit ==
    /\ Init
    /\ open = FALSE /\ blank = FALSE
    /\ runs = <<>> /\ loading = FALSE /\ selected = FALSE
    /\ asked = {} /\ mine = {}

-----------------------------------------------------------------------------
(* fetchRuns.                                                              *)

\* setLoading(true) and fetches by the readers ds, who are not at it.
fetchRuns(ds) ==
    /\ ds \cap asked = {} /\ \A d \in ds : rpc[d] \in Ended
    /\ asked' = asked \cup ds /\ mine' = mine \cup ds
    /\ loading' = TRUE
    /\ rpc' = [d \in Readers |-> IF d \in ds THEN "idle" ELSE rpc[d]]
    /\ list' = [d \in Readers |-> IF d \in ds THEN <<>> ELSE list[d]]
    /\ query' = [d \in Readers |-> IF d \in ds THEN NoProject ELSE query[d]]
    /\ UNCHANGED <<past, cache, faults>>

\* The request reaches the server.
Arrive(d) ==
    /\ d \in asked /\ rpc[d] = "idle"
    /\ Lookup(d, NoProject)
    /\ UNCHANGED panel

\* Mutant: the rows of the answer are added to those on show.
setRunsAdding(rows) == runs' = runs \o rows

setRuns(rows) == runs' = rows

\* Mutant: the flag is reset with the rows only.
DoneOk(ok) == loading' = (loading /\ ~ok)

\* finally { setLoading(false) }
Done(ok) == loading' = FALSE

Settled(d, ok) ==
    /\ asked' = asked \ {d} /\ mine' = mine \ {d}
    /\ IF d \in mine
       THEN /\ Done(ok)
            /\ blank' = FALSE
            /\ IF ok THEN setRuns(list[d]) ELSE UNCHANGED runs
       ELSE UNCHANGED <<loading, runs, blank>>
    /\ UNCHANGED <<open, selected>>

Over(d) == Goto(d, "idle") /\ list' = [list EXCEPT ![d] = <<>>]

\* The answer: res.ok is the list, anything else leaves the rows.
Answer(d) ==
    /\ d \in asked /\ rpc[d] \in {"done", "failed"}
    /\ Settled(d, rpc[d] = "done")
    /\ Over(d)
    /\ UNCHANGED <<past, cache, query, faults>>

\* The request or its answer is lost: fetch or res.json() throws.
Lose(d) ==
    /\ d \in asked /\ rpc[d] \in {"idle", "done"}
    /\ Fault
    /\ Settled(d, FALSE)
    /\ Over(d)
    /\ UNCHANGED <<past, cache, query>>

-----------------------------------------------------------------------------
(* The operator.                                                           *)

(***************************************************************************)
(* The first render has neither rows nor the flag.  The effect raises the  *)
(* flag, but a browser may paint before that is rendered (Rerender).       *)
(***************************************************************************)
Mount ==
    /\ ~open /\ open' = TRUE /\ blank' = TRUE
    /\ \E ds \in SUBSET Readers : Cardinality(ds) = MountRuns /\ fetchRuns(ds)
    /\ UNCHANGED <<runs, selected>>

Rerender ==
    /\ blank /\ blank' = FALSE
    /\ UNCHANGED <<vars, open, runs, loading, selected, asked, mine>>

Unmount ==
    /\ open /\ open' = FALSE /\ blank' = FALSE
    /\ runs' = <<>> /\ loading' = FALSE /\ selected' = FALSE /\ mine' = {}
    /\ UNCHANGED <<vars, asked>>

\* The button is disabled once loading is rendered; the inspected run covers it.
Refresh ==
    /\ open /\ (loading => blank) /\ ~selected
    /\ blank' = FALSE
    /\ \E d \in Readers : fetchRuns({d})
    /\ UNCHANGED <<open, runs, selected>>

\* A row of the table (the filter only hides some) is opened, or closed again.
Inspect ==
    /\ open
    /\ selected' \in (IF runs = <<>> THEN {FALSE} ELSE BOOLEAN) \ {selected}
    /\ UNCHANGED <<vars, open, blank, runs, loading, asked, mine>>

\* The handlers, and other clients, who ask for whatever they like.
Others == Run \/ \E d \in Clients \ asked, q \in Queries : Lookup(d, q)

PanelNext ==
    \/ Others /\ UNCHANGED panel
    \/ \E d \in Readers : Arrive(d) \/ Answer(d) \/ Lose(d)
    \/ Mount \/ Rerender \/ Unmount \/ Refresh \/ Inspect

PanelSpec == PanelInit /\ [][PanelNext]_allVars

\* Handlers and callbacks run, requests arrive, and entries expire.
PanelFairness ==
    /\ \A d \in Readers : WF_allVars(Handle(d) /\ UNCHANGED panel)
    /\ \A k \in Keys : WF_allVars(Expire(k) /\ UNCHANGED panel)
    /\ \A d \in Readers : WF_allVars(Arrive(d)) /\ WF_allVars(Answer(d))

FairPanelSpec == PanelSpec /\ PanelFairness

-----------------------------------------------------------------------------
(* Properties.                                                             *)

(***************************************************************************)
(* The table has rows, or says that there are none, and not that it is     *)
(* querying.  The first render says so too, before anything was asked, and *)
(* is left out.                                                            *)
(***************************************************************************)
TableSpeaks == open /\ ~blank /\ (runs # <<>> \/ ~loading)

(***************************************************************************)
(* From the second render on, what the table says is the list the ledger   *)
(* had at some moment, whole unless a call failed, and then its newest     *)
(* rows: neither entries of the cache, nor the two requests of a mount,    *)
(* nor the late answers to a panel that is gone ever mix two lists on the  *)
(* screen, or show none.                                                   *)
(***************************************************************************)
ScreenIsASnapshot ==
    TableSpeaks =>
        \E h \in DOMAIN past :
            LET whole == ListOf(past[h], NoProject)
            IN  IF faults = 0 THEN runs = whole ELSE IsPrefix(runs, whole)

\* The mark "Querying audit ledger..." ends, whatever fails.
LoadingEnds == loading ~> ~loading
=============================================================================
