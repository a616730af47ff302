----------------------------- MODULE ListCache ------------------------------
(***************************************************************************)
(* GET /api/diffs: handleListDiffs (internal/api/handlers.go) answers from *)
(* a Redis entry when there is one, and otherwise from ListDiffRuns        *)
(* (internal/db/db.go), leaving the answer in Redis for a minute.  Nothing *)
(* removes an entry when a run is recorded or overridden.                  *)
(*                                                                         *)
(* Redis and PostgreSQL may fail at any call; MaxFaults bounds how often.  *)
(***************************************************************************)
EXTENDS Naturals, Sequences, SequencesExt

CONSTANTS
    Runs,       \* diff runs that may be recorded
    Projects,   \* projects they belong to
    ProjectOf,  \* the project that each run is uploaded for
    Recorded,   \* the runs recorded so far, oldest first
    Readers,    \* clients, each sending one GET /api/diffs after another
    Queries,    \* the project ids they ask for
    NoProject,  \* the query without project_id
    NoEntry,    \* Redis has nothing under a key
    Limit,      \* rows of a list (50 in the code)
    MaxFaults   \* bound on the failures of a behaviour

ASSUME ConstantsAssumption ==
    /\ ProjectOf \in [Runs -> Projects]
    /\ Recorded \in Seq(Runs)
    /\ NoProject \notin Projects \cup {"all"}
    /\ "all" \notin Projects        \* projects.id is a UUID
    /\ Queries \subseteq Projects \cup {NoProject, "all"}
    /\ Limit \in Nat \ {0}
    /\ MaxFaults \in Nat

VARIABLES
    past,       \* the contents diff_runs has had, oldest first
    cache,      \* cache[k]: the Redis entry "diff_runs:" + k
    rpc,        \* rpc[d]: where the handler of the request of d is
    query,      \* query[d]: its project_id
    list,       \* list[d]: the list it has, its response at the end
    faults      \* failures so far

vars == <<past, cache, rpc, query, list, faults>>

Keys    == Projects \cup {"all"}

\* Mutant: the key without the project.
KeyOfAny(q) == "all"

\* "diff_runs:" + projectID, or "diff_runs:all" without one.
KeyOf(q) == IF q = NoProject THEN "all" ELSE q

Table == past[Len(past)]

\* The rows that the WHERE of a query takes, newest first.
RowsFor(table, q) ==
    LET rows[n \in 0 .. Len(table)] ==
            IF n = 0 THEN <<>>
            ELSE IF q \in {NoProject, table[n].project} THEN <<table[n]>> \o rows[n - 1]
            ELSE rows[n - 1]
    IN  rows[Len(table)]

\* ORDER BY created_at DESC LIMIT: the newest of them.
ListOf(table, q) ==
    LET mine == RowsFor(table, q)
    IN  SubSeq(mine, 1, IF Len(mine) < Limit THEN Len(mine) ELSE Limit)

Fault == faults < MaxFaults /\ faults' = faults + 1
FaultUnless(cond) == IF cond THEN UNCHANGED faults ELSE Fault

RowOf(r) == [run |-> r, project |-> ProjectOf[r], overridden |-> FALSE]

Init ==
    /\ past = << [i \in DOMAIN Recorded |-> RowOf(Recorded[i])] >>
    /\ cache = [k \in Keys |-> NoEntry]
    /\ rpc = [d \in Readers |-> "idle"]
    /\ query = [d \in Readers |-> NoProject]
    /\ list = [d \in Readers |-> <<>>]
    /\ faults = 0

-----------------------------------------------------------------------------
(* What changes diff_runs.                                                 *)

InsertDiffRun(r) ==
    /\ \A i \in DOMAIN Table : Table[i].run # r
    /\ past' = Append(past, Append(Table, RowOf(r)))
    /\ UNCHANGED <<cache, rpc, query, list, faults>>

OverrideDiffRun(i) ==
    /\ i \in DOMAIN Table /\ ~Table[i].overridden
    /\ past' = Append(past, [Table EXCEPT ![i].overridden = TRUE])
    /\ UNCHANGED <<cache, rpc, query, list, faults>>

-----------------------------------------------------------------------------
(* handleListDiffs.                                                        *)

Goto(d, label) == rpc' = [rpc EXCEPT ![d] = label]

Ended == {"idle", "done", "failed"}

\* RedisClient.Get: a hit is the response; a miss and an error are the same.
Lookup(d, q) ==
    /\ rpc[d] \in Ended
    /\ query' = [query EXCEPT ![d] = q]
    /\ LET entry == cache[KeyOf(q)]
       IN  \/ /\ entry # NoEntry
              /\ list' = [list EXCEPT ![d] = entry]
              /\ Goto(d, "done")
              /\ UNCHANGED faults
           \/ /\ FaultUnless(entry = NoEntry)
              /\ list' = [list EXCEPT ![d] = <<>>]
              /\ Goto(d, "missed")
    /\ UNCHANGED <<past, cache>>

(***************************************************************************)
(* ListDiffRuns.  "all" is no UUID, so the query for it fails.  When the   *)
(* connection fails between two rows, rows.Next ends the loop, rows.Err is *)
(* never asked, and the rows read so far are the list.                     *)
(***************************************************************************)
Select(d) ==
    /\ rpc[d] = "missed" /\ query[d] # "all"
    /\ LET whole == ListOf(Table, query[d])
       IN  \E n \in 0 .. Len(whole) :
             /\ FaultUnless(n = Len(whole))
             /\ list' = [list EXCEPT ![d] = SubSeq(whole, 1, n)]
    /\ Goto(d, "selected")
    /\ UNCHANGED <<past, cache, query>>

SelectFails(d) ==
    /\ rpc[d] = "missed"
    /\ FaultUnless(query[d] = "all")
    /\ Goto(d, "failed")
    /\ UNCHANGED <<past, cache, query, list>>

\* RedisClient.Set for a minute, its error dropped, then the response.
Store(d) ==
    /\ rpc[d] = "selected"
    /\ \/ /\ cache' = [cache EXCEPT ![KeyOf(query[d])] = list[d]]
          /\ UNCHANGED faults
       \/ UNCHANGED cache /\ Fault
    /\ Goto(d, "done")
    /\ UNCHANGED <<past, query, list>>

\* Mutant: Set without an expiration.
ExpireNever(k) == FALSE /\ UNCHANGED vars

\* The minute is over, or Redis evicts the entry earlier.
Expire(k) ==
    /\ cache[k] # NoEntry
    /\ cache' = [cache EXCEPT ![k] = NoEntry]
    /\ UNCHANGED <<past, rpc, query, list, faults>>

Handle(d) == Select(d) \/ SelectFails(d) \/ Store(d)

\* The steps that need no new request.
Run ==
    \/ \E r \in Runs : InsertDiffRun(r)
    \/ \E i \in DOMAIN Table : OverrideDiffRun(i)
    \/ \E d \in Readers : Handle(d)
    \/ \E k \in Keys : Expire(k)

Next == Run \/ \E d \in Readers, q \in Queries : Lookup(d, q)

Spec == Init /\ [][Next]_vars

\* Handlers run, and Redis keeps no entry for longer than its minute.
Fairness == /\ \A d \in Readers : WF_vars(Handle(d))
            /\ \A k \in Keys : WF_vars(Expire(k))

FairSpec == Spec /\ Fairness

-----------------------------------------------------------------------------
(* Properties.                                                             *)

(***************************************************************************)
(* A response is the list that the ledger had at some moment, whole unless *)
(* a call failed, and then its newest rows: concurrent requests, commits   *)
(* and entries of other requests never make a list that never was, nor     *)
(* show a project the runs of another.                                     *)
(***************************************************************************)
ResponsesAreSnapshots ==
    \A d \in Readers : rpc[d] = "done" =>
        \E h \in DOMAIN past :
            LET whole == ListOf(past[h], IF query[d] = "all" THEN NoProject ELSE query[d])
            IN  IF faults = 0 THEN list[d] = whole ELSE IsPrefix(list[d], whole)

(***************************************************************************)
(* Once the ledger and the failures rest, the requests that go on for ever *)
(* find an entry that is right: a list that a slow request stores late, or *)
(* that was cut short, does not stay.                                      *)
(***************************************************************************)
CacheCatchesUp ==
    <>[](\A k \in Keys : \/ cache[k] = NoEntry
                         \/ cache[k] = ListOf(Table, IF k = "all" THEN NoProject ELSE k))
=============================================================================
