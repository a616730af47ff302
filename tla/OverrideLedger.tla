--------------------------- MODULE OverrideLedger ---------------------------
(***************************************************************************)
(* Human overrides of diff runs: handleOverrideDiff and its webhook,       *)
(* handleGetDiff (internal/api/handlers.go), and the transaction they rest *)
(* on, PostgresStore.OverrideDiffRun (internal/db/db.go).                  *)
(*                                                                         *)
(* Each override request is a session.  Its transaction's writes are       *)
(* private until the commit, so they are not stored: pc tells them.  The   *)
(* UPDATE locks the row until the transaction ends; the foreign-key check  *)
(* of the INSERT takes a lock that is compatible with it.  A statement, a  *)
(* commit, its acknowledgement, a read or the server itself may fail;      *)
(* MaxFaults bounds how often.                                             *)
(***************************************************************************)
EXTENDS Naturals, Sequences

CONSTANTS
    Runs, Projects, Sessions, NoRow,    \* as in AuditTrail
    Readers,        \* requests GET /api/diffs/{id}
    DefaultProject, \* the literal "default"
    NoRun,          \* the target of a request not yet sent
    NoSession,      \* nobody: holder of a free lock, author of no record
    MaxFaults       \* bound on the failures of a behaviour

Verdict == {"PASSED", "FAILED"}

Row == [project : Projects, verdict : Verdict, status : Verdict \cup {"OVERRIDDEN"}]

ASSUME ConstantsAssumption ==
    /\ NoRow \notin Row
    /\ DefaultProject \notin Projects       \* projects.id is a UUID
    /\ NoRun \notin Runs
    /\ NoSession \notin Sessions
    /\ MaxFaults \in Nat

VARIABLES
    rows,       \* diff_runs, committed
    trail,      \* audit_overrides, committed, oldest first
    lock,       \* lock[r]: the session whose UPDATE locked the row of r
    began,      \* sessions in the order their transactions began: created_at
    target,     \* target[s]: the run that session s overrides
    pc,         \* pc[s]: where the handler of session s is
    address,    \* address[s]: the project its event will go to
    events,     \* diff_overridden events put on Broker.Notifier
    webhook,    \* webhook[s]: the goroutine of dispatchWebhook
    reading,    \* reading[d]: the run that reader d asked for
    rpc,        \* rpc[d]: where its handler is
    seen,       \* seen[d]: what it has read so far, its response at the end
    faults      \* failures so far

vars == <<rows, trail, lock, began, target, pc, address, events, webhook, reading,
          rpc, seen, faults>>

dbVars     == <<rows, trail, lock, began>>
outVars    == <<address, events, webhook>>
readerVars == <<reading, rpc, seen>>

CanFault == faults < MaxFaults
Fault    == CanFault /\ faults' = faults + 1
FaultUnless(cond) == IF cond THEN UNCHANGED faults ELSE Fault

Goto(s, label) == pc' = [pc EXCEPT ![s] = label]

\* What the commit of session s makes visible.
Record(s) == [session |-> s, run |-> target[s]]
Recorded(s) == \E k \in DOMAIN trail : trail[k].session = s

Present(r)    == rows[r] # NoRow
Overridden(r) == Present(r) /\ rows[r].status = "OVERRIDDEN"

NothingSeen == [status |-> "none", author |-> NoSession, failed |-> FALSE]

Init ==
    /\ rows = [r \in Runs |-> NoRow]
    /\ trail = <<>>
    /\ lock = [r \in Runs |-> NoSession]
    /\ began = <<>>
    /\ target = [s \in Sessions |-> NoRun]
    /\ pc = [s \in Sessions |-> "idle"]
    /\ address = [s \in Sessions |-> DefaultProject]
    /\ events = <<>>
    /\ webhook = [s \in Sessions |-> "none"]
    /\ reading = [d \in Readers |-> NoRun]
    /\ rpc = [d \in Readers |-> "idle"]
    /\ seen = [d \in Readers |-> NothingSeen]
    /\ faults = 0

-----------------------------------------------------------------------------
\* A worker records a run (Insert of DiffPipeline).
InsertDiffRun(r) ==
    /\ ~Present(r)
    /\ \E p \in Projects, v \in Verdict :
          rows' = [rows EXCEPT ![r] = [project |-> p, verdict |-> v, status |-> v]]
    /\ UNCHANGED <<trail, lock, began, target, pc, outVars, readerVars, faults>>

-----------------------------------------------------------------------------
(* handleOverrideDiff, with OverrideDiffRun inside.                        *)

\* No valid JWT, or a body that is no JSON.
Refuse(s) ==
    /\ pc[s] = "idle"
    /\ Goto(s, "refused")
    /\ UNCHANGED <<dbVars, target, outVars, readerVars, faults>>

\* The request is decoded and its transaction begun.
Begin(s, r) ==
    /\ pc[s] = "idle"
    /\ target' = [target EXCEPT ![s] = r]
    /\ began' = Append(began, s)
    /\ Goto(s, "begun")
    /\ UNCHANGED <<rows, trail, lock, outVars, readerVars, faults>>

\* Mutant: the INSERT runs on the connection pool, outside the transaction.
InsertAuditAutocommitted(s) ==
    /\ pc[s] = "begun" /\ Present(target[s])
    /\ trail' = Append(trail, Record(s))
    /\ Goto(s, "inserted")
    /\ UNCHANGED <<rows, lock, began, target, outVars, readerVars, faults>>

\* INSERT INTO audit_overrides
InsertAudit(s) ==
    /\ pc[s] = "begun" /\ Present(target[s])
    /\ Goto(s, "inserted")
    /\ UNCHANGED <<dbVars, target, outVars, readerVars, faults>>

\* Mutant: the UPDATE runs on the connection pool, outside the transaction.
UpdateStatusAutocommitted(s) ==
    /\ pc[s] = "inserted" /\ lock[target[s]] = NoSession
    /\ rows' = [rows EXCEPT ![target[s]].status = "OVERRIDDEN"]
    /\ Goto(s, "updated")
    /\ UNCHANGED <<trail, lock, began, target, outVars, readerVars, faults>>

\* UPDATE diff_runs SET status = 'OVERRIDDEN': any row that exists will do.
UpdateStatus(s) ==
    /\ pc[s] = "inserted" /\ lock[target[s]] = NoSession
    /\ lock' = [lock EXCEPT ![target[s]] = s]
    /\ Goto(s, "updated")
    /\ UNCHANGED <<rows, trail, began, target, outVars, readerVars, faults>>

Release(s) == lock' = [r \in Runs |-> IF lock[r] = s THEN NoSession ELSE lock[r]]

\* Mutant: one record per run, INSERT ... ON CONFLICT (diff_run_id) DO UPDATE.
ApplyReplacing(s) ==
    /\ rows' = [rows EXCEPT ![target[s]].status = "OVERRIDDEN"]
    /\ trail' = Append(SelectSeq(trail, LAMBDA record : record.run # target[s]), Record(s))
    /\ Release(s)

Apply(s) ==
    /\ rows' = [rows EXCEPT ![target[s]].status = "OVERRIDDEN"]
    /\ trail' = Append(trail, Record(s))
    /\ Release(s)

\* tx.Commit returns nil.
Commit(s) ==
    /\ pc[s] = "updated"
    /\ Apply(s)
    /\ Goto(s, "committed")
    /\ UNCHANGED <<began, target, outVars, readerVars, faults>>

\* The commit took place, its acknowledgement was lost: the client gets a 500.
CommitUnacknowledged(s) ==
    /\ pc[s] = "updated" /\ Fault
    /\ Apply(s)
    /\ Goto(s, "failed")
    /\ UNCHANGED <<began, target, outVars, readerVars>>

\* Mutant: the error of the transaction is not looked at.
TransactionFailsUnseen(s) ==
    /\ pc[s] \in {"begun", "inserted", "updated"}
    /\ FaultUnless(pc[s] = "begun" /\ ~Present(target[s]))
    /\ Release(s)
    /\ Goto(s, "located")
    /\ UNCHANGED <<rows, trail, began, target, outVars, readerVars>>

\* Mutant: without the deferred Rollback the transaction stays open.
TransactionLeftOpen(s) ==
    /\ pc[s] \in {"begun", "inserted", "updated"}
    /\ FaultUnless(pc[s] = "begun" /\ ~Present(target[s]))
    /\ Goto(s, "failed")
    /\ UNCHANGED <<dbVars, target, outVars, readerVars>>

(***************************************************************************)
(* Begin, a statement or the commit fails - the foreign key has no row for *)
(* an unknown run - and the deferred Rollback undoes the transaction.      *)
(***************************************************************************)
TransactionFails(s) ==
    /\ pc[s] \in {"begun", "inserted", "updated"}
    /\ FaultUnless(pc[s] = "begun" /\ ~Present(target[s]))
    /\ Release(s)
    /\ Goto(s, "failed")
    /\ UNCHANGED <<rows, trail, began, target, outVars, readerVars>>

\* GetDiffRun names the project; if it fails the event goes to "default".
Locate(s) ==
    /\ pc[s] = "committed"
    /\ \/ address' = [address EXCEPT ![s] = rows[target[s]].project] /\ UNCHANGED faults
       \/ address' = [address EXCEPT ![s] = DefaultProject] /\ Fault
    /\ Goto(s, "located")
    /\ UNCHANGED <<dbVars, target, events, webhook, readerVars>>

\* Notifier <- diff_overridden (room for it: EventsAreTaken of SseBroker).
Announce(s) ==
    /\ pc[s] = "located"
    /\ events' = Append(events, [session |-> s, project |-> address[s]])
    /\ Goto(s, "announced")
    /\ UNCHANGED <<dbVars, target, address, webhook, readerVars, faults>>

\* go dispatchWebhook(event), then 200 {"status": "success"}.
Respond(s) ==
    /\ pc[s] = "announced"
    /\ webhook' = [webhook EXCEPT ![s] = "pending"]
    /\ Goto(s, "done")
    /\ UNCHANGED <<dbVars, target, address, events, readerVars, faults>>

\* client.Do: the answer, an error or the five-second timeout end it; no retry.
DispatchWebhook(s) ==
    /\ webhook[s] = "pending"
    /\ \/ webhook' = [webhook EXCEPT ![s] = "delivered"] /\ UNCHANGED faults
       \/ webhook' = [webhook EXCEPT ![s] = "lost"] /\ Fault
    /\ UNCHANGED <<dbVars, target, pc, address, events, readerVars>>

Handle(s) ==
    \/ InsertAudit(s) \/ UpdateStatus(s)
    \/ Commit(s) \/ CommitUnacknowledged(s) \/ TransactionFails(s)
    \/ Locate(s) \/ Announce(s) \/ Respond(s)

-----------------------------------------------------------------------------
(* handleGetDiff: two reads, each of the database as it is at that moment. *)

\* Who overrode run r?
Authors(r) == {s \in Sessions : target[s] = r /\ Recorded(s)}

(***************************************************************************)
(* ORDER BY created_at DESC LIMIT 1.  created_at is NOW(), the time the    *)
(* transaction began, which need not be the order of the commits.          *)
(***************************************************************************)
LatestAuthor(r) ==
    IF Authors(r) = {} THEN NoSession
    ELSE LET last == CHOOSE k \in DOMAIN began :
                        /\ began[k] \in Authors(r)
                        /\ \A l \in DOMAIN began : began[l] \in Authors(r) => l <= k
         IN  began[last]

ReadRun(d, r) ==
    /\ rpc[d] = "idle"
    /\ reading' = [reading EXCEPT ![d] = r]
    /\ \/ /\ Present(r)
          /\ seen' = [seen EXCEPT ![d].status = rows[r].status]
          /\ rpc' = [rpc EXCEPT ![d] = "looked"]
          /\ UNCHANGED faults
       \/ /\ rpc' = [rpc EXCEPT ![d] = "not found"]
          /\ FaultUnless(~Present(r))
          /\ UNCHANGED seen
    /\ UNCHANGED <<dbVars, target, pc, outVars>>

\* override, _ := GetAuditOverride(id): an error is shown as no override.
ReadOverride(d) ==
    /\ rpc[d] = "looked"
    /\ rpc' = [rpc EXCEPT ![d] = "done"]
    /\ \/ /\ seen' = [seen EXCEPT ![d].author = LatestAuthor(reading[d])]
          /\ UNCHANGED faults
       \/ /\ seen' = [seen EXCEPT ![d].failed = TRUE]
          /\ Fault
    /\ UNCHANGED <<dbVars, target, pc, outVars, reading>>

-----------------------------------------------------------------------------
(***************************************************************************)
(* The server process dies: its handlers and webhook goroutines are gone,  *)
(* and PostgreSQL rolls the open transactions back.                        *)
(***************************************************************************)
Crash ==
    /\ Fault
    /\ lock' = [r \in Runs |-> NoSession]
    /\ pc' = [s \in Sessions |-> IF pc[s] \in {"idle", "refused", "done", "failed"}
                                 THEN pc[s] ELSE "crashed"]
    /\ webhook' = [s \in Sessions |-> IF webhook[s] = "pending" THEN "lost" ELSE webhook[s]]
    /\ rpc' = [d \in Readers |-> IF rpc[d] = "looked" THEN "crashed" ELSE rpc[d]]
    /\ UNCHANGED <<rows, trail, began, target, address, events, reading, seen>>

Next ==
    \/ \E r \in Runs : InsertDiffRun(r)
    \/ \E s \in Sessions : \/ Refuse(s)
                           \/ \E r \in Runs : Begin(s, r)
                           \/ Handle(s) \/ DispatchWebhook(s)
    \/ \E d \in Readers : ReadOverride(d) \/ \E r \in Runs : ReadRun(d, r)
    \/ Crash

Spec == Init /\ [][Next]_vars

(***************************************************************************)
(* Handlers that can run do run; PostgreSQL grants the row lock to a       *)
(* waiting UPDATE in turn, hence strong fairness for it.                   *)
(***************************************************************************)
Fairness == \A s \in Sessions : SF_vars(UpdateStatus(s)) /\ WF_vars(Handle(s))

FairSpec == Spec /\ Fairness

-----------------------------------------------------------------------------
(* Properties.                                                             *)

Labels == {"idle", "refused", "begun", "inserted", "updated", "committed",
           "located", "announced", "done", "failed", "crashed"}

\* Types.
TypeOK ==
    /\ rows \in [Runs -> Row \cup {NoRow}]
    /\ trail \in Seq([session : Sessions, run : Runs])
    /\ lock \in [Runs -> Sessions \cup {NoSession}]
    /\ began \in Seq(Sessions)
    /\ target \in [Sessions -> Runs \cup {NoRun}]
    /\ pc \in [Sessions -> Labels]
    /\ address \in [Sessions -> Projects \cup {DefaultProject}]
    /\ events \in Seq([session : Sessions, project : Projects \cup {DefaultProject}])
    /\ webhook \in [Sessions -> {"none", "pending", "delivered", "lost"}]
    /\ reading \in [Readers -> Runs \cup {NoRun}]
    /\ rpc \in [Readers -> {"idle", "looked", "not found", "done", "crashed"}]
    /\ seen \in [Readers -> [status : Verdict \cup {"OVERRIDDEN", "none"},
                             author : Sessions \cup {NoSession},
                             failed : BOOLEAN]]
    /\ faults \in 0 .. MaxFaults

(***************************************************************************)
(* The transaction gives what the ledger promises: OverrideDiffRun is one  *)
(* step of AuditTrail, whatever is lost or fails around it.                *)
(***************************************************************************)
Trail == INSTANCE AuditTrail

\* Records are added, never replaced: the handler and the transaction refine AuditTrail.
ImplementsAuditTrail == Trail!Spec

(***************************************************************************)
(* At every moment a run shows as OVERRIDDEN exactly when audit_overrides  *)
(* has a record of it: an override is never half visible.                  *)
(***************************************************************************)
OverriddenIffAudited == Trail!OverriddenIffAudited

(***************************************************************************)
(* How far a session is tells whether its record is in the ledger, except  *)
(* that one answered with an error, or cut off by a crash, may or may not  *)
(* have committed; its record is of the run it was asked for, which exists.*)
(***************************************************************************)
SessionsConsistent ==
    /\ \A s \in Sessions :
        /\ pc[s] \notin {"idle", "refused"} => target[s] \in Runs
        /\ pc[s] \in {"inserted", "updated"} => Present(target[s]) /\ ~Recorded(s)
        /\ pc[s] \in {"committed", "located", "announced", "done"} => Recorded(s)
        /\ Recorded(s) => pc[s] \notin {"idle", "refused", "begun"}
    /\ \A k \in DOMAIN trail :
        trail[k].run = target[trail[k].session] /\ Present(trail[k].run)

(***************************************************************************)
(* Whoever learns of an override - the client by its 200, the viewers by   *)
(* the event, the CI system by the webhook - learns of a committed one.    *)
(***************************************************************************)
AnnouncedIsRecorded ==
    /\ \A s \in Sessions : pc[s] = "done" \/ webhook[s] # "none" => Recorded(s)
    /\ \A k \in DOMAIN events : Recorded(events[k].session)

(***************************************************************************)
(* handleGetDiff reads the run before the override, so a response that     *)
(* shows OVERRIDDEN also shows by whom, unless the second read failed and  *)
(* its error was dropped.                                                  *)
(***************************************************************************)
ShownOverrideIsExplained ==
    \A d \in Readers :
        rpc[d] = "done" /\ seen[d].status = "OVERRIDDEN" /\ ~seen[d].failed
            => seen[d].author # NoSession

\* Every override request ends, although others lock its row and may fail.
SessionsEnd ==
    \A s \in Sessions :
        pc[s] = "begun" ~> pc[s] \in {"done", "failed", "crashed"}

=============================================================================
