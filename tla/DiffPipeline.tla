---------------------------- MODULE DiffPipeline ----------------------------
(***************************************************************************)
(* The asynchronous diff pipeline of the Go server: the two ingress        *)
(* handlers that save an upload to temporary files and put a DiffJob on    *)
(* the buffered channel JobQueue (internal/api/handlers.go), and the       *)
(* worker pool that analyses a job, records the run and announces it on    *)
(* the broker's Notifier channel (internal/api/worker.go).                 *)
(*                                                                         *)
(* A job is identified with the HTTP request that made it.  What a worker  *)
(* reaches outside the process - the analysis engine, the fallback binary, *)
(* the database, the disk - may fail at any call; the number of such       *)
(* failures in a behaviour is bounded by MaxFaults.                        *)
(***************************************************************************)
EXTENDS Naturals, Sequences

CONSTANTS
    Requests,     \* upload requests the clients may send
    Inputs,       \* what an upload may be: a subset of Input
    Workers,      \* goroutines started by StartWorkerPool
    Projects,     \* ids that have a row in the table projects
    CodeProject,  \* the literal "code-diff" that handleCodeDiff uses as id
    NoJob,        \* what an idle worker holds
    NoInput,      \* the input of a request that was not sent yet
    QueueCap,     \* capacity of JobQueue (100 in the code)
    NotifierCap,  \* capacity of Broker.Notifier (100 in the code)
    Deployments,  \* how the server may be deployed: a subset of Deployment
    MaxFaults     \* bound on the failures of the environment

(***************************************************************************)
(* Project "unknown" stands for every run the schema refuses: no such      *)
(* project, an id that is no UUID, a commit_sha of more than 40 characters.*)
(* "rejected" is an upload the engine answers with an error: documents     *)
(* that are no OpenAPI, or code sent with a mode that is none of the two   *)
(* migration modes, which is then compared as a document with itself.      *)
(***************************************************************************)
Verdicts == {"clean", "breaking", "rejected"}

Input ==
    [kind : {"spec"}, project : Projects \cup {"unknown"}, verdict : Verdicts]
      \cup
    [kind : {"code"}, project : {CodeProject}, verdict : Verdicts]

(***************************************************************************)
(* cli is what ./break-detector-engine is: not there, a one-shot program   *)
(* that prints its result, or the server that engine/src/main.rs builds;   *)
(* sameHost that ANALYZER_URL is the default localhost:50051.              *)
(***************************************************************************)
Deployment == [cli : {"absent", "batch", "server"}, sameHost : BOOLEAN]

ASSUME ConstantsAssumption ==
    /\ Inputs \subseteq Input
    /\ CodeProject \notin Projects      \* projects.id is a UUID
    /\ "unknown" \notin Projects
    /\ NoJob \notin Requests
    /\ NoInput \notin Inputs
    /\ QueueCap \in Nat \ {0}
    /\ NotifierCap \in Nat \ {0}
    /\ Deployments \subseteq Deployment
    /\ MaxFaults \in Nat

VARIABLES
    stage,      \* stage[r]: how far the handler of request r has come; "lost"
                \* is an accepted job that died with the server process
    input,      \* input[r]: what request r uploaded
    disk,       \* disk[f]: state of temporary file f
    queue,      \* the channel JobQueue
    job,        \* job[w]: the job worker w is processing
    pc,         \* pc[w]: where worker w is in processJob
    answer,     \* answer[w]: the verdict worker w got from an analysis
    ledger,     \* rows of diff_runs written by workers, oldest first
    notifier,   \* the channel Broker.Notifier
    announced,  \* jobs whose diff_completed event was put on notifier
    deployment, \* which one this is
    engineUp,   \* the gRPC engine serves its port
    childUp,    \* a fallback process serves port 50051 of the server's host
    faults      \* environment failures so far

vars == <<stage, input, disk, queue, job, pc, answer, ledger, notifier,
          announced, deployment, engineUp, childUp, faults>>

handlerVars == <<stage, input>>
workerVars  == <<job, pc, answer>>
outVars     == <<ledger, notifier, announced>>
hostVars    == <<deployment, engineUp, childUp>>

-----------------------------------------------------------------------------
(* Jobs, their files and what an analysis of them may answer.              *)

File == Requests \X {"base", "target"}

\* handleCodeDiff writes one file and names it as both base and target.
FilesOf(r) ==
    IF input[r].kind = "code" THEN {<<r, "target">>}
                              ELSE {<<r, "base">>, <<r, "target">>}

\* Mutant: a document that does not parse is answered as having no break.
AnswersUnparsed(r) ==
    CASE \E f \in FilesOf(r) : disk[f] = "absent" -> {}
      [] \A f \in FilesOf(r) : disk[f] = "whole"  -> {input[r].verdict} \ {"rejected"}
      [] OTHER -> {"clean"}

(***************************************************************************)
(* The verdicts an analysis of job r can produce.  The errors of io.Copy   *)
(* and WriteString are ignored, so a file may be cut short: a truncated    *)
(* specification is no longer JSON and nothing answers for it, while       *)
(* truncated code is analysed as if it were complete.                      *)
(***************************************************************************)
Answers(r) ==
    CASE \E f \in FilesOf(r) : disk[f] = "absent" -> {}
      [] \A f \in FilesOf(r) : disk[f] = "whole"  -> {input[r].verdict} \ {"rejected"}
      [] OTHER -> IF input[r].kind = "code" /\ input[r].verdict # "rejected"
                  THEN {"clean", "breaking"} ELSE {}

StatusOf(verdict) == IF verdict = "breaking" THEN "FAILED" ELSE "PASSED"

Row(r, verdict) ==
    [job |-> r, project |-> input[r].project, status |-> StatusOf(verdict)]

\* diff_runs.project_id is a UUID that references projects(id).
Insertable(r) == input[r].project \in Projects

\* Does a process listen where the workers dial?  On the port a child binds?
Reachable == engineUp \/ (deployment.sameHost /\ childUp)
PortBusy  == childUp \/ (deployment.sameHost /\ engineUp)

CanFault == faults < MaxFaults
Fault    == CanFault /\ faults' = faults + 1
\* A step that is a failure of the environment unless cond explains it.
FaultUnless(cond) == IF cond THEN UNCHANGED faults ELSE Fault

Queued(r)     == \E i \in DOMAIN queue : queue[i] = r
InWorker(r)   == \E w \in Workers : job[w] = r
InFlight(r)   == Queued(r) \/ InWorker(r)
Recorded(r)   == \E k \in DOMAIN ledger : ledger[k].job = r
\* Mutant: one job too many.
QueueOverfull == Len(queue) <= QueueCap

QueueHasRoom  == Len(queue) < QueueCap

-----------------------------------------------------------------------------
Init ==
    /\ stage = [r \in Requests |-> "idle"]
    /\ input = [r \in Requests |-> NoInput]
    /\ disk = [f \in File |-> "absent"]
    /\ queue = <<>>
    /\ job = [w \in Workers |-> NoJob]
    /\ pc = [w \in Workers |-> "idle"]
    /\ answer = [w \in Workers |-> "none"]
    /\ ledger = <<>>
    /\ notifier = <<>>
    /\ announced = {}
    /\ deployment \in Deployments
    /\ engineUp \in BOOLEAN
    /\ childUp = FALSE
    /\ faults = 0

-----------------------------------------------------------------------------
(* Ingress handlers.                                                       *)

\* An early return: bad credentials, a malformed form or body, a missing field.
Refuse(r) ==
    /\ stage[r] = "idle"
    /\ stage' = [stage EXCEPT ![r] = "refused"]
    /\ UNCHANGED <<input, disk, queue, workerVars, outVars, hostVars, faults>>

(***************************************************************************)
(* The files in made are created, those in cut are written short.          *)
(***************************************************************************)
Save(made, cut) ==
    disk' = [f \in File |-> IF f \in cut THEN "short"
                            ELSE IF f \in made THEN "whole" ELSE disk[f]]

(***************************************************************************)
(* handleRunDiff up to the send.  The errors of os.CreateTemp are dropped: *)
(* with a file missing, building the DiffJob calls Name() on a nil *os.File*)
(* and the handler panics, leaving the other file behind.                  *)
(***************************************************************************)
handleRunDiff(r, i) ==
    /\ stage[r] = "idle" /\ i.kind = "spec"
    /\ input' = [input EXCEPT ![r] = i]
    /\ LET files == {<<r, "base">>, <<r, "target">>}
       IN  \E made \in SUBSET files : \E cut \in SUBSET made :
             /\ Save(made, cut)
             /\ stage' = [stage EXCEPT ![r] = IF made = files THEN "sending"
                                                              ELSE "panicked"]
             /\ FaultUnless(made = files /\ cut = {})
    /\ UNCHANGED <<queue, workerVars, outVars, hostVars>>

\* handleCodeDiff up to the send; a failed CreateTemp is answered with a 500.
handleCodeDiff(r, i) ==
    /\ stage[r] = "idle" /\ i.kind = "code"
    /\ input' = [input EXCEPT ![r] = i]
    /\ LET files == {<<r, "target">>}
       IN  \E made \in SUBSET files : \E cut \in SUBSET made :
             /\ Save(made, cut)
             /\ stage' = [stage EXCEPT ![r] = IF made = files THEN "sending"
                                                              ELSE "refused"]
             /\ FaultUnless(made = files /\ cut = {})
    /\ UNCHANGED <<queue, workerVars, outVars, hostVars>>

\* Mutant: the handler removes the files it saved when it returns.
EnqueueAndRemove(r) ==
    /\ stage[r] = "sending"
    /\ QueueHasRoom
    /\ queue' = Append(queue, r)
    /\ stage' = [stage EXCEPT ![r] = "accepted"]
    /\ disk' = [f \in File |-> IF f \in FilesOf(r) THEN "absent" ELSE disk[f]]
    /\ UNCHANGED <<input, workerVars, outVars, hostVars, faults>>

\* Mutant: select with a default case, the job is dropped when there is no room.
EnqueueOrDrop(r) ==
    /\ stage[r] = "sending"
    /\ queue' = IF QueueHasRoom THEN Append(queue, r) ELSE queue
    /\ stage' = [stage EXCEPT ![r] = "accepted"]
    /\ UNCHANGED <<input, disk, workerVars, outVars, hostVars, faults>>

\* JobQueue <- job, then 202 {"status": "queued"}: the send waits for room.
Enqueue(r) ==
    /\ stage[r] = "sending"
    /\ QueueHasRoom
    /\ queue' = Append(queue, r)
    /\ stage' = [stage EXCEPT ![r] = "accepted"]
    /\ UNCHANGED <<input, disk, workerVars, outVars, hostVars, faults>>

-----------------------------------------------------------------------------
(* Worker pool.                                                            *)

Goto(w, label) == pc' = [pc EXCEPT ![w] = label]

\* Mutant: a worker looks at the head of the queue and leaves it there.
TakeAndLeave(w) ==
    /\ pc[w] = "idle" /\ queue # <<>>
    /\ job' = [job EXCEPT ![w] = Head(queue)]
    /\ Goto(w, "rpc")
    /\ UNCHANGED <<handlerVars, disk, queue, answer, outVars, hostVars, faults>>

\* for job := range JobQueue
Take(w) ==
    /\ pc[w] = "idle" /\ queue # <<>>
    /\ job' = [job EXCEPT ![w] = Head(queue)]
    /\ queue' = Tail(queue)
    /\ Goto(w, "rpc")
    /\ UNCHANGED <<handlerVars, disk, answer, outVars, hostVars, faults>>

Answered(w, v) ==
    /\ answer' = [answer EXCEPT ![w] = v]
    /\ Goto(w, "insert")

\* runAnalysisJob: the gRPC call returns a result within its five seconds.
EngineAnswers(w) ==
    /\ pc[w] = "rpc" /\ Reachable
    /\ \E v \in Answers(job[w]) : Answered(w, v)
    /\ UNCHANGED <<handlerVars, disk, queue, job, outVars, hostVars, faults>>

\* Mutant: no deadline and no fallback for a request that cannot be answered.
EngineFailsOffline(w) ==
    /\ pc[w] = "rpc" /\ ~Reachable
    /\ Goto(w, "cli")
    /\ UNCHANGED <<handlerVars, disk, queue, job, answer, outVars, hostVars, faults>>

(***************************************************************************)
(* runAnalysisJob falls through to the local binary: nobody listens, a     *)
(* file is unreadable or not JSON, the engine answers with an error, or    *)
(* the deadline passes.                                                    *)
(***************************************************************************)
EngineFails(w) ==
    /\ pc[w] = "rpc"
    /\ FaultUnless(~Reachable \/ Answers(job[w]) = {})
    /\ Goto(w, "cli")
    /\ UNCHANGED <<handlerVars, disk, queue, job, answer, outVars, hostVars>>

\* runAnalysisViaCLI with the one-shot binary that prints the result.
CliAnswers(w) ==
    /\ pc[w] = "cli" /\ deployment.cli = "batch"
    /\ \E v \in Answers(job[w]) : Answered(w, v)
    /\ UNCHANGED <<handlerVars, disk, queue, job, outVars, hostVars, faults>>

CliCannotRun(r) ==
    \/ deployment.cli = "absent"
    \/ deployment.cli = "batch" /\ Answers(r) = {}
    \/ deployment.cli = "server" /\ PortBusy

\* cmd.Run returns an error: the job is logged and dropped.
CliFails(w) ==
    /\ pc[w] = "cli"
    /\ FaultUnless(CliCannotRun(job[w]))
    /\ Goto(w, "return")
    /\ UNCHANGED <<handlerVars, disk, queue, job, answer, outVars, hostVars>>

(***************************************************************************)
(* The binary built from engine/src/main.rs ignores its arguments, binds   *)
(* port 50051 and serves for ever: cmd.Run does not return.                *)
(***************************************************************************)
CliServes(w) ==
    /\ pc[w] = "cli" /\ deployment.cli = "server" /\ ~PortBusy
    /\ childUp' = TRUE
    /\ Goto(w, "serving")
    /\ UNCHANGED <<handlerVars, disk, queue, job, answer, outVars, deployment, engineUp, faults>>

\* Somebody kills the serving child, and cmd.Run returns its exit status.
ChildDies ==
    /\ childUp /\ Fault
    /\ childUp' = FALSE
    /\ pc' = [w \in Workers |-> IF pc[w] = "serving" THEN "return" ELSE pc[w]]
    /\ UNCHANGED <<handlerVars, disk, queue, job, answer, outVars, deployment, engineUp>>

\* store.InsertDiffRun succeeds.
Insert(w) ==
    /\ pc[w] = "insert" /\ Insertable(job[w])
    /\ ledger' = Append(ledger, Row(job[w], answer[w]))
    /\ Goto(w, "notify")
    /\ UNCHANGED <<handlerVars, disk, queue, job, answer, notifier, announced,
                   hostVars, faults>>

\* Mutant: the event is sent although the insert failed.
InsertFailsSilently(w) ==
    /\ pc[w] = "insert"
    /\ FaultUnless(~Insertable(job[w]))
    /\ Goto(w, "notify")
    /\ UNCHANGED <<handlerVars, disk, queue, job, answer, outVars, hostVars>>

\* InsertDiffRun returns an error and nothing was written.
InsertFails(w) ==
    /\ pc[w] = "insert"
    /\ FaultUnless(~Insertable(job[w]))
    /\ Goto(w, "return")
    /\ UNCHANGED <<handlerVars, disk, queue, job, answer, outVars, hostVars>>

\* Mutant: an insert that was not acknowledged is tried again.
InsertRetried(w) ==
    /\ pc[w] = "insert" /\ Insertable(job[w])
    /\ Fault
    /\ ledger' = Append(ledger, Row(job[w], answer[w]))
    /\ UNCHANGED <<handlerVars, disk, queue, workerVars, notifier, announced, hostVars>>

\* The row is written but the connection breaks before RETURNING is read.
InsertUnacknowledged(w) ==
    /\ pc[w] = "insert" /\ Insertable(job[w])
    /\ Fault
    /\ ledger' = Append(ledger, Row(job[w], answer[w]))
    /\ Goto(w, "return")
    /\ UNCHANGED <<handlerVars, disk, queue, job, answer, notifier, announced,
                   hostVars>>

\* broker.Notifier <- diff_completed: the send waits for room.
Notify(w) ==
    /\ pc[w] = "notify"
    /\ Len(notifier) < NotifierCap
    /\ notifier' = Append(notifier, job[w])
    /\ announced' = announced \cup {job[w]}
    /\ Goto(w, "return")
    /\ UNCHANGED <<handlerVars, disk, queue, job, answer, ledger, hostVars, faults>>

\* Mutant: only one of the two deferred removals is there.
ReturnKeepingBase(w) ==
    /\ pc[w] = "return"
    /\ disk' = [disk EXCEPT ![<<job[w], "target">>] = "absent"]
    /\ job' = [job EXCEPT ![w] = NoJob]
    /\ answer' = [answer EXCEPT ![w] = "none"]
    /\ Goto(w, "idle")
    /\ UNCHANGED <<handlerVars, queue, outVars, hostVars, faults>>

\* processJob returns: its deferred calls remove both files.
Return(w) ==
    /\ pc[w] = "return"
    /\ disk' = [f \in File |-> IF f \in FilesOf(job[w]) THEN "absent" ELSE disk[f]]
    /\ job' = [job EXCEPT ![w] = NoJob]
    /\ answer' = [answer EXCEPT ![w] = "none"]
    /\ Goto(w, "idle")
    /\ UNCHANGED <<handlerVars, queue, outVars, hostVars, faults>>

-----------------------------------------------------------------------------
(* The other processes.                                                    *)

\* The broker's listener receives from Notifier (see SseBroker).
Drain ==
    /\ notifier # <<>>
    /\ notifier' = Tail(notifier)
    /\ UNCHANGED <<handlerVars, disk, queue, workerVars, ledger, announced,
                   hostVars, faults>>

EngineStops ==
    /\ engineUp /\ Fault
    /\ engineUp' = FALSE
    /\ UNCHANGED <<handlerVars, disk, queue, workerVars, outVars, deployment, childUp>>

\* On the server's own host the engine needs the port a child may hold.
EngineStarts ==
    /\ ~engineUp /\ ~(deployment.sameHost /\ childUp)
    /\ engineUp' = TRUE
    /\ UNCHANGED <<handlerVars, disk, queue, workerVars, outVars, deployment, childUp, faults>>

(***************************************************************************)
(* The server process dies and is restarted: channels and goroutines are   *)
(* gone, the database and the temporary directory stay, a child it had     *)
(* started may outlive it.                                                 *)
(***************************************************************************)
Crash ==
    /\ Fault
    /\ stage' = [r \in Requests |-> CASE stage[r] = "sending" -> "aborted"
                                      [] InFlight(r)          -> "lost"
                                      [] OTHER                -> stage[r]]
    /\ queue' = <<>>
    /\ job' = [w \in Workers |-> NoJob]
    /\ pc' = [w \in Workers |-> "idle"]
    /\ answer' = [w \in Workers |-> "none"]
    /\ notifier' = <<>>
    /\ childUp' \in {childUp, FALSE}
    /\ UNCHANGED <<input, disk, ledger, announced, deployment, engineUp>>

-----------------------------------------------------------------------------
Handler(r) ==
    \/ Refuse(r)
    \/ \E i \in Inputs : handleRunDiff(r, i) \/ handleCodeDiff(r, i)
    \/ Enqueue(r)

Process(w) ==
    \/ Take(w)
    \/ EngineAnswers(w) \/ EngineFails(w)
    \/ CliAnswers(w) \/ CliFails(w) \/ CliServes(w)
    \/ Insert(w) \/ InsertFails(w) \/ InsertUnacknowledged(w)
    \/ Notify(w) \/ Return(w)

Environment == Drain \/ ChildDies \/ EngineStops \/ EngineStarts \/ Crash

Next ==
    \/ \E r \in Requests : Handler(r)
    \/ \E w \in Workers : Process(w)
    \/ Environment

Spec == Init /\ [][Next]_vars

(***************************************************************************)
(* Goroutines that can run do run: a sender that finds room sends, a       *)
(* worker makes progress on the job it holds and takes the next one, the   *)
(* listener drains Notifier.  Nothing obliges clients, the engine or the   *)
(* operator to act, and a process that serves for ever never returns.      *)
(***************************************************************************)
Fairness ==
    /\ \A r \in Requests : WF_vars(Enqueue(r))
    /\ \A w \in Workers : WF_vars(Process(w))
    /\ WF_vars(Drain)

FairSpec == Spec /\ Fairness
-----------------------------------------------------------------------------
(* Properties.                                                             *)

Stages == {"idle", "sending", "accepted", "refused", "panicked", "aborted", "lost"}
Labels == {"idle", "rpc", "cli", "serving", "insert", "notify", "return"}

(***************************************************************************)
(* Types; neither channel ever holds more than its capacity.               *)
(***************************************************************************)
TypeOK ==
    /\ stage \in [Requests -> Stages]
    /\ input \in [Requests -> Inputs \cup {NoInput}]
    /\ disk \in [File -> {"absent", "whole", "short"}]
    /\ queue \in Seq(Requests) /\ Len(queue) <= QueueCap
    /\ job \in [Workers -> Requests \cup {NoJob}]
    /\ pc \in [Workers -> Labels]
    /\ answer \in [Workers -> {"none", "clean", "breaking"}]
    /\ ledger \in Seq([job : Requests,
                        project : Projects \cup {"unknown", CodeProject},
                        status : {"PASSED", "FAILED"}])
    /\ notifier \in Seq(Requests) /\ Len(notifier) <= NotifierCap
    /\ announced \subseteq Requests
    /\ deployment \in Deployments
    /\ engineUp \in BOOLEAN /\ childUp \in BOOLEAN
    /\ faults \in 0 .. MaxFaults

(***************************************************************************)
(* Every job has one owner: the channel holds it once or one worker does,  *)
(* its upload was accepted, and a job that has its row is past its insert  *)
(* and will not be inserted again.                                         *)
(***************************************************************************)
InputKnown ==
    \A r \in Requests : stage[r] \in Stages \ {"idle", "refused"} => input[r] \in Inputs

BusyHasJob == \A w \in Workers : pc[w] = "idle" <=> job[w] = NoJob

QueuedOnce == \A i, j \in DOMAIN queue : queue[i] = queue[j] => i = j

WorkedOnOnce == \A v, w \in Workers : job[v] = job[w] /\ job[v] # NoJob => v = w

QueuedOrTaken == \A w \in Workers : ~Queued(job[w])

InFlightAccepted == \A r \in Requests : InFlight(r) => stage[r] = "accepted"

RecordedNotAgain ==
    \A r \in Requests : Recorded(r) =>
        /\ stage[r] \in {"accepted", "lost"}
        /\ ~Queued(r)
        /\ \A w \in Workers : job[w] = r => pc[w] \in {"notify", "return"}

NotifyingRecorded == \A w \in Workers : pc[w] = "notify" => Recorded(job[w])

OneOwner ==
    /\ InputKnown /\ BusyHasJob
    /\ QueuedOnce /\ WorkedOnOnce /\ QueuedOrTaken
    /\ InFlightAccepted /\ RecordedNotAgain /\ NotifyingRecorded

(***************************************************************************)
(* The files of a job exist from the moment the job can be seen on the     *)
(* channel until its analysis is over: the handler hands them over instead *)
(* of removing them, and no other worker removes them.                     *)
(***************************************************************************)
JobsHaveTheirFiles ==
    \A r \in Requests :
        Queued(r) \/ (\E w \in Workers : job[w] = r /\ pc[w] \in {"rpc", "cli", "serving"})
            => \A f \in FilesOf(r) : disk[f] # "absent"

(***************************************************************************)
(* Every temporary file has an owner that will remove it, or leaked in one *)
(* of the three known ways: the handler panicked on a nil file, or the     *)
(* process died while the handler or the job still held it.                *)
(***************************************************************************)
TempFilesOwned ==
    \A f \in File : disk[f] # "absent" =>
        InFlight(f[1]) \/ stage[f[1]] \in {"sending", "panicked", "aborted", "lost"}

(***************************************************************************)
(* A job leaves at most one row, although an insert may fail after it was  *)
(* carried out and a job may be taken after others failed.                 *)
(***************************************************************************)
RecordedAtMostOnce ==
    \A k, l \in DOMAIN ledger : ledger[k].job = ledger[l].job => k = l

(***************************************************************************)
(* diff_completed is only put on Notifier for a run that has its row, so   *)
(* a viewer that reacts by fetching the run finds it.                      *)
(***************************************************************************)
EventsAfterRecord ==
    \A r \in Requests :
        r \in announced \/ (\E i \in DOMAIN notifier : notifier[i] = r) => Recorded(r)

(***************************************************************************)
(* The verdict of a row is the verdict on what was uploaded, although the  *)
(* handlers ignore failed writes of the temporary files.                   *)
(***************************************************************************)
LedgerHonest ==
    \A k \in DOMAIN ledger :
        ledger[k].status = StatusOf(input[ledger[k].job].verdict)

(***************************************************************************)
(* With a one-shot fallback and no failure at all, a sound upload to a     *)
(* known project that got its 202 is in flight or recorded and announced.  *)
(***************************************************************************)
NoSilentLoss ==
    \A r \in Requests :
        /\ deployment.cli = "batch" /\ faults = 0
        /\ stage[r] = "accepted"
        /\ Insertable(r) /\ input[r].verdict # "rejected"
        => InFlight(r) \/ (Recorded(r) /\ r \in announced)

(***************************************************************************)
(* With a fallback that does not serve, no job stays in the pipeline for   *)
(* ever, whatever fails outside.                                           *)
(***************************************************************************)
JobsEnd == \A r \in Requests : deployment.cli # "server" /\ InFlight(r) ~> ~InFlight(r)

\* A client whose upload is saved gets its answer or sees the server die.
SendersProceed == \A r \in Requests : stage[r] = "sending" ~> stage[r] # "sending"

-----------------------------------------------------------------------------
(* What the documentation promises and the code does not keep.             *)

(***************************************************************************)
(* README: "Every diff run is permanently persisted".  The project id of   *)
(* a code diff can never be stored.                                        *)
(***************************************************************************)
AnalysedRunsAreStored ==
    faults = 0 => \A w \in Workers :
        pc[w] = "return" /\ answer[w] # "none" => Recorded(job[w])
=============================================================================
