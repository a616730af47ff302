-------------------------- MODULE DiffPipelineProofs ------------------------
(***************************************************************************)
(* Proofs about DiffPipeline, for every number of requests and workers,    *)
(* every capacity and every bound on the failures.                         *)
(***************************************************************************)
EXTENDS DiffPipeline, TLAPS

(***************************************************************************)
(* The inductive invariant.                                                *)
(***************************************************************************)
IInv == TypeOK /\ OneOwner /\ RecordedAtMostOnce /\ EventsAfterRecord

-----------------------------------------------------------------------------
(* Facts about sequences used as channels.                                 *)

\* What is in a channel after a send.
LEMMA AppendFacts ==
    ASSUME NEW S, NEW s \in Seq(S), NEW e \in S
    PROVE  /\ Append(s, e) \in Seq(S)
           /\ Len(s) \in Nat
           /\ Len(Append(s, e)) = Len(s) + 1
           /\ DOMAIN s = 1 .. Len(s)
           /\ DOMAIN Append(s, e) = 1 .. (Len(s) + 1)
           /\ \A i \in 1 .. Len(s) : Append(s, e)[i] = s[i]
           /\ Append(s, e)[Len(s) + 1] = e
  OBVIOUS

\* What is in a channel after a receive.
LEMMA TailFacts ==
    ASSUME NEW S, NEW s \in Seq(S), s # <<>>
    PROVE  /\ Tail(s) \in Seq(S)
           /\ Head(s) \in S /\ Head(s) = s[1]
           /\ Len(s) \in Nat \ {0}
           /\ Len(Tail(s)) = Len(s) - 1
           /\ DOMAIN s = 1 .. Len(s)
           /\ DOMAIN Tail(s) = 1 .. (Len(s) - 1)
           /\ \A i \in 1 .. (Len(s) - 1) : Tail(s)[i] = s[i + 1]
  OBVIOUS

\* A channel or a table at the start.
LEMMA EmptyFacts ==
    ASSUME NEW S
    PROVE  <<>> \in Seq(S) /\ Len(<<>>) = 0 /\ DOMAIN <<>> = {}
  OBVIOUS

-----------------------------------------------------------------------------
(* Facts that follow from the invariant in one state.                      *)

\* A worker that is not idle holds an accepted job with a known input.
LEMMA BusyWorker ==
    ASSUME IInv, NEW w \in Workers, pc[w] # "idle"
    PROVE  /\ job[w] \in Requests
           /\ stage[job[w]] = "accepted"
           /\ input[job[w]] \in Inputs
           /\ input[job[w]] \in Input
  BY ConstantsAssumption
     DEF IInv, TypeOK, OneOwner, BusyHasJob, InFlightAccepted, InputKnown,
         InFlight, InWorker, Stages

\* A verdict that comes out of an analysis is one of two.
LEMMA AnswersType ==
    ASSUME NEW r \in Requests, input[r] \in Input
    PROVE  Answers(r) \subseteq {"clean", "breaking"}
  BY DEF Answers, Input, Verdicts

\* The row of a busy worker's job has the type of a row.
LEMMA RowType ==
    ASSUME IInv, NEW w \in Workers, pc[w] # "idle"
    PROVE  Row(job[w], answer[w]) \in
              [job : Requests, project : Projects \cup {"unknown", CodeProject},
               status : {"PASSED", "FAILED"}]
  BY BusyWorker DEF Row, StatusOf, Input

\* The initial states.
LEMMA InitInv == Init => IInv
<1> SUFFICES ASSUME Init PROVE IInv
  OBVIOUS
<1>0. /\ queue = <<>> /\ ledger = <<>> /\ notifier = <<>>
      /\ DOMAIN queue = {} /\ DOMAIN ledger = {} /\ DOMAIN notifier = {}
  BY EmptyFacts DEF Init
<1>1. TypeOK
  <2>1. /\ queue \in Seq(Requests) /\ Len(queue) <= QueueCap
        /\ notifier \in Seq(Requests) /\ Len(notifier) <= NotifierCap
    BY <1>0, EmptyFacts, ConstantsAssumption
  <2>2. ledger \in Seq([job : Requests,
                       project : Projects \cup {"unknown", CodeProject},
                       status : {"PASSED", "FAILED"}])
    BY <1>0, EmptyFacts
  <2>3. /\ stage \in [Requests -> Stages]
        /\ input \in [Requests -> Inputs \cup {NoInput}]
        /\ disk \in [File -> {"absent", "whole", "short"}]
    BY DEF Init, Stages
  <2>4. /\ job \in [Workers -> Requests \cup {NoJob}]
        /\ pc \in [Workers -> Labels]
        /\ answer \in [Workers -> {"none", "clean", "breaking"}]
    BY DEF Init, Labels
  <2>5. announced \subseteq Requests /\ faults \in 0 .. MaxFaults
    BY ConstantsAssumption DEF Init
  <2>6. deployment \in Deployments /\ engineUp \in BOOLEAN /\ childUp \in BOOLEAN
    BY Zenon DEF Init
  <2> QED
    BY <2>1, <2>2, <2>3, <2>4, <2>5, <2>6, Zenon DEF TypeOK
<1>2. \A r \in Requests : ~Queued(r) /\ ~InWorker(r) /\ ~Recorded(r)
  BY <1>0, ConstantsAssumption DEF Init, Queued, InWorker, Recorded
<1>3. OneOwner
  <2>1. InputKnown /\ InFlightAccepted /\ RecordedNotAgain
    BY <1>2 DEF Init, InputKnown, InFlightAccepted, RecordedNotAgain, InFlight, Stages
  <2>2. BusyHasJob /\ WorkedOnOnce /\ NotifyingRecorded
    BY DEF Init, BusyHasJob, WorkedOnOnce, NotifyingRecorded
  <2>3. QueuedOnce /\ QueuedOrTaken
    BY DEF Init, QueuedOnce, QueuedOrTaken, Queued
  <2> QED
    BY <2>1, <2>2, <2>3 DEF OneOwner
<1>4. RecordedAtMostOnce /\ EventsAfterRecord
  BY DEF Init, RecordedAtMostOnce, EventsAfterRecord
<1> QED
  BY <1>1, <1>3, <1>4 DEF IInv

-----------------------------------------------------------------------------
(* Types.                                                                  *)

HostType == deployment \in Deployments /\ engineUp \in BOOLEAN /\ childUp \in BOOLEAN

\* Every step keeps the deployment, and the two flags Boolean.
LEMMA HostStep == TypeOK /\ [Next]_vars => HostType'
  BY Zenon DEF TypeOK, HostType, Next, vars, Handler, Process, Environment, Refuse,
     handleRunDiff, handleCodeDiff, Enqueue, Take, EngineAnswers, EngineFails,
     CliAnswers, CliFails, CliServes, Insert, InsertFails, InsertUnacknowledged,
     Notify, Return, Drain, ChildDies, EngineStops, EngineStarts, Crash, hostVars

\* The faults are counted up to their bound.
LEMMA FaultsType ==
    ASSUME TypeOK, faults' = faults \/ Fault
    PROVE  faults' \in 0 .. MaxFaults
  BY ConstantsAssumption DEF TypeOK, Fault, CanFault

(***************************************************************************)
(* The parts of TypeOK that the handlers, the workers and what they leave  *)
(* behind change.                                                          *)
(***************************************************************************)
HandlerType ==
    /\ stage \in [Requests -> Stages]
    /\ input \in [Requests -> Inputs \cup {NoInput}]
    /\ disk \in [File -> {"absent", "whole", "short"}]

QueueType == queue \in Seq(Requests) /\ Len(queue) <= QueueCap

WorkerType ==
    /\ job \in [Workers -> Requests \cup {NoJob}]
    /\ pc \in [Workers -> Labels]
    /\ answer \in [Workers -> {"none", "clean", "breaking"}]

OutType ==
    /\ ledger \in Seq([job : Requests,
                        project : Projects \cup {"unknown", CodeProject},
                        status : {"PASSED", "FAILED"}])
    /\ notifier \in Seq(Requests) /\ Len(notifier) <= NotifierCap
    /\ announced \subseteq Requests

\* TypeOK is the conjunction of its parts.
LEMMA TypeParts ==
    TypeOK <=> /\ HandlerType /\ QueueType /\ WorkerType /\ OutType /\ HostType
               /\ faults \in 0 .. MaxFaults
  BY Zenon DEF TypeOK, HandlerType, QueueType, WorkerType, OutType, HostType

\* Saving files changes the disk only within its type.
LEMMA SaveType ==
    ASSUME HandlerType, NEW made, NEW cut, Save(made, cut)
    PROVE  disk' \in [File -> {"absent", "whole", "short"}]
  BY DEF HandlerType, Save

\* A step of a handler keeps the types.
LEMMA HandlerStep ==
    ASSUME IInv, NEW r \in Requests, Handler(r)
    PROVE  HandlerType' /\ QueueType' /\ WorkerType' /\ OutType'
<1> USE TypeParts DEF IInv
<1>1. CASE Refuse(r)
  BY <1>1 DEF Refuse, HandlerType, QueueType, WorkerType, OutType, workerVars, outVars, Stages
<1>2. ASSUME NEW i \in Inputs, handleRunDiff(r, i) PROVE HandlerType'
  BY <1>2, SaveType DEF handleRunDiff, HandlerType, Stages
<1>3. ASSUME NEW i \in Inputs, handleCodeDiff(r, i) PROVE HandlerType'
  BY <1>3, SaveType DEF handleCodeDiff, HandlerType, Stages
<1>4. ASSUME NEW i \in Inputs, handleRunDiff(r, i) \/ handleCodeDiff(r, i)
      PROVE  QueueType' /\ WorkerType' /\ OutType'
  BY <1>4 DEF handleRunDiff, handleCodeDiff, QueueType, WorkerType, OutType,
              workerVars, outVars
<1>5. CASE Enqueue(r)
  <2>1. QueueType'
    BY <1>5, AppendFacts, ConstantsAssumption DEF Enqueue, QueueType, QueueHasRoom
  <2> QED
    BY <1>5, <2>1 DEF Enqueue, HandlerType, WorkerType, OutType, workerVars, outVars, Stages
<1> QED
  BY <1>1, <1>2, <1>3, <1>4, <1>5 DEF Handler

\* A step of a worker keeps the types.
LEMMA ProcessStep ==
    ASSUME IInv, NEW w \in Workers, Process(w)
    PROVE  HandlerType' /\ QueueType' /\ WorkerType' /\ OutType'
<1> USE TypeParts DEF IInv
<1>1. CASE Take(w)
  <2>1. Tail(queue) \in Seq(Requests) /\ Head(queue) \in Requests
        /\ Len(Tail(queue)) <= QueueCap
    BY <1>1, TailFacts, ConstantsAssumption DEF Take, QueueType
  <2> QED
    BY <1>1, <2>1 DEF Take, Goto, HandlerType, QueueType, WorkerType, OutType,
       handlerVars, outVars, Labels
<1>2. CASE EngineAnswers(w) \/ CliAnswers(w)
  <2>1. Answers(job[w]) \subseteq {"clean", "breaking"}
    BY <1>2, BusyWorker, AnswersType DEF EngineAnswers, CliAnswers
  <2>2. \E v \in {"clean", "breaking"} : Answered(w, v)
    BY <1>2, <2>1 DEF EngineAnswers, CliAnswers
  <2>3. WorkerType'
    BY <1>2, <2>2 DEF EngineAnswers, CliAnswers, Answered, Goto, WorkerType, Labels
  <2> QED
    BY <1>2, <2>3 DEF EngineAnswers, CliAnswers, HandlerType, QueueType, OutType,
       handlerVars, outVars
<1>3. CASE EngineFails(w) \/ CliFails(w) \/ CliServes(w) \/ InsertFails(w)
  BY <1>3 DEF EngineFails, CliFails, CliServes, InsertFails, Goto, HandlerType,
     QueueType, WorkerType, OutType, handlerVars, outVars, Labels
<1>4. CASE Insert(w) \/ InsertUnacknowledged(w)
  <2>1. /\ Row(job[w], answer[w]) \in
               [job : Requests, project : Projects \cup {"unknown", CodeProject},
                status : {"PASSED", "FAILED"}]
        /\ ledger' = Append(ledger, Row(job[w], answer[w]))
    BY <1>4, RowType DEF Insert, InsertUnacknowledged
  <2>2. OutType'
    BY <1>4, <2>1, AppendFacts DEF Insert, InsertUnacknowledged, OutType
  <2> QED
    BY <1>4, <2>2 DEF Insert, InsertUnacknowledged, Goto, HandlerType, QueueType,
       WorkerType, handlerVars, Labels
<1>5. CASE Notify(w)
  <2>1. job[w] \in Requests
    BY <1>5, BusyWorker DEF Notify
  <2>2. OutType'
    BY <1>5, <2>1, AppendFacts, ConstantsAssumption DEF Notify, OutType
  <2> QED
    BY <1>5, <2>2 DEF Notify, Goto, HandlerType, QueueType, WorkerType, handlerVars, Labels
<1>6. CASE Return(w)
  BY <1>6 DEF Return, Goto, HandlerType, QueueType, WorkerType, OutType, handlerVars,
     outVars, Labels
<1> QED
  BY <1>1, <1>2, <1>3, <1>4, <1>5, <1>6 DEF Process

\* A step of another process keeps the types.
LEMMA EnvironmentStep ==
    ASSUME IInv, Environment
    PROVE  HandlerType' /\ QueueType' /\ WorkerType' /\ OutType'
<1> USE TypeParts DEF IInv
<1>1. CASE Drain
  <2>1. OutType'
    BY <1>1, TailFacts, ConstantsAssumption DEF Drain, OutType
  <2> QED
    BY <1>1, <2>1 DEF Drain, HandlerType, QueueType, WorkerType, handlerVars, workerVars
<1>2. CASE ChildDies
  BY <1>2 DEF ChildDies, HandlerType, QueueType, WorkerType, OutType, handlerVars,
     outVars, Labels
<1>3. CASE EngineStops \/ EngineStarts
  BY <1>3 DEF EngineStops, EngineStarts, HandlerType, QueueType, WorkerType, OutType,
     handlerVars, workerVars, outVars
<1>4. CASE Crash
  <2>1. QueueType' /\ OutType'
    BY <1>4, EmptyFacts, ConstantsAssumption DEF Crash, QueueType, OutType
  <2>2. HandlerType'
    BY <1>4 DEF Crash, HandlerType, Stages
  <2>3. WorkerType'
    BY <1>4 DEF Crash, WorkerType, Labels
  <2> QED
    BY <2>1, <2>2, <2>3
<1> QED
  BY <1>1, <1>2, <1>3, <1>4 DEF Environment

\* A step that is no step of Next, or that only counts a fault, keeps them all.
LEMMA TypeStep == IInv /\ [Next]_vars => TypeOK'
<1> SUFFICES ASSUME IInv, [Next]_vars PROVE TypeOK'
  OBVIOUS
<1>1. HostType'
  BY HostStep DEF IInv
<1>2. faults' \in 0 .. MaxFaults
  <2>1. faults' = faults \/ Fault
    BY Zenon DEF Next, vars, Handler, Process, Environment, Refuse, FaultUnless,
       handleRunDiff, handleCodeDiff, Enqueue, Take, EngineAnswers, EngineFails,
       CliAnswers, CliFails, CliServes, Insert, InsertFails, InsertUnacknowledged,
       Notify, Return, Drain, ChildDies, EngineStops, EngineStarts, Crash
  <2> QED
    BY <2>1, FaultsType DEF IInv
<1>3. HandlerType' /\ QueueType' /\ WorkerType' /\ OutType'
  <2>1. CASE UNCHANGED vars
    BY <2>1, TypeParts DEF IInv, vars, HandlerType, QueueType, WorkerType, OutType
  <2> QED
    BY <2>1, HandlerStep, ProcessStep, EnvironmentStep DEF Next
<1> QED
  BY <1>1, <1>2, <1>3, Zenon
     DEF TypeOK, HandlerType, QueueType, WorkerType, OutType, HostType

-----------------------------------------------------------------------------
(* One owner for every job, one row for every job, no event without a row. *)

Owned == OneOwner /\ RecordedAtMostOnce /\ EventsAfterRecord

coreVars == <<stage, input, queue, job, pc, ledger, notifier, announced>>

\* Owned says nothing of the other variables.
LEMMA OwnedFrame == Owned /\ UNCHANGED coreVars => Owned'
  BY DEF Owned, coreVars, OneOwner, InputKnown, BusyHasJob, QueuedOnce, WorkedOnOnce,
     QueuedOrTaken, InFlightAccepted, RecordedNotAgain, NotifyingRecorded,
     RecordedAtMostOnce, EventsAfterRecord, InFlight, Queued, InWorker, Recorded

\* A worker that moves on between the receive and the insert disturbs nothing.
LEMMA OwnedMove ==
    ASSUME IInv, NEW w \in Workers, pc[w] \notin {"idle", "notify", "return"},
           NEW l \in {"cli", "serving", "insert", "return"}, Goto(w, l),
           UNCHANGED <<stage, input, queue, job, ledger, notifier, announced>>
    PROVE  Owned'
<1>1. UNCHANGED <<InputKnown, QueuedOnce, WorkedOnOnce, QueuedOrTaken,
                  InFlightAccepted, RecordedAtMostOnce, EventsAfterRecord>>
  BY DEF InputKnown, QueuedOnce, WorkedOnOnce, QueuedOrTaken, InFlightAccepted,
         RecordedAtMostOnce, EventsAfterRecord, InFlight, Queued, InWorker, Recorded
<1>2. pc \in [Workers -> Labels]
  BY DEF IInv, TypeOK
<1>3. BusyHasJob'
  BY <1>2 DEF IInv, OneOwner, BusyHasJob, Goto
<1>4. RecordedNotAgain'
  BY <1>2 DEF IInv, OneOwner, RecordedNotAgain, Goto, Recorded, Queued
<1>5. NotifyingRecorded'
  BY <1>2 DEF IInv, OneOwner, NotifyingRecorded, Goto, Recorded
<1> QED
  BY <1>1, <1>3, <1>4, <1>5 DEF IInv, OneOwner, Owned

\* Handlers give jobs away: only to the channel, and only once.
LEMMA OwnedHandler ==
    ASSUME IInv, NEW r \in Requests, Handler(r)
    PROVE  Owned'
<1> USE DEF IInv, OneOwner
<1>1. ASSUME stage[r] = "idle", stage' = [stage EXCEPT ![r] = "refused"],
             input' = input \/ \E i \in Inputs : input' = [input EXCEPT ![r] = i],
             UNCHANGED <<queue, job, pc, ledger, notifier, announced>>
      PROVE  Owned'
  <2>1. UNCHANGED <<BusyHasJob, QueuedOnce, WorkedOnOnce, QueuedOrTaken,
                    NotifyingRecorded, RecordedAtMostOnce, EventsAfterRecord>>
    BY <1>1 DEF BusyHasJob, QueuedOnce, WorkedOnOnce, QueuedOrTaken, NotifyingRecorded,
       RecordedAtMostOnce, EventsAfterRecord, Queued, Recorded
  <2>2. stage \in [Requests -> Stages] /\ input \in [Requests -> Inputs \cup {NoInput}]
    BY DEF TypeOK
  <2>3. \A q \in Requests \ {r} : stage'[q] = stage[q] /\ input'[q] = input[q]
    BY <1>1, <2>2
  <2>4. stage'[r] = "refused"
    BY <1>1, <2>2
  <2>5. InputKnown'
    BY <2>3, <2>4 DEF InputKnown
  <2>6. ~InFlight(r) /\ ~Recorded(r)
    BY <1>1 DEF InFlightAccepted, RecordedNotAgain
  <2>7. \A q : (InFlight(q)' <=> InFlight(q)) /\ (Recorded(q)' <=> Recorded(q))
    BY <1>1 DEF InFlight, Queued, InWorker, Recorded
  <2>8. InFlightAccepted' /\ RecordedNotAgain'
    BY <1>1, <2>3, <2>6, <2>7 DEF InFlightAccepted, RecordedNotAgain, Queued
  <2> QED
    BY <2>1, <2>5, <2>8 DEF Owned
<1>2. ASSUME NEW i \in Inputs, NEW l \in {"sending", "panicked"},
             stage[r] = "idle", stage' = [stage EXCEPT ![r] = l],
             input' = [input EXCEPT ![r] = i],
             UNCHANGED <<queue, job, pc, ledger, notifier, announced>>
      PROVE  Owned'
  <2>1. UNCHANGED <<BusyHasJob, QueuedOnce, WorkedOnOnce, QueuedOrTaken,
                    NotifyingRecorded, RecordedAtMostOnce, EventsAfterRecord>>
    BY <1>2 DEF BusyHasJob, QueuedOnce, WorkedOnOnce, QueuedOrTaken, NotifyingRecorded,
       RecordedAtMostOnce, EventsAfterRecord, Queued, Recorded
  <2>2. InputKnown' /\ InFlightAccepted' /\ RecordedNotAgain'
    BY <1>2 DEF TypeOK, InputKnown, InFlightAccepted, RecordedNotAgain, InFlight,
       Queued, InWorker, Recorded, Stages
  <2> QED
    BY <2>1, <2>2 DEF Owned
<1>3. CASE Refuse(r)
  BY <1>1, <1>3 DEF Refuse, workerVars, outVars
<1>4. ASSUME NEW i \in Inputs, handleRunDiff(r, i) \/ handleCodeDiff(r, i)
      PROVE  Owned'
  BY <1>1, <1>2, <1>4 DEF handleRunDiff, handleCodeDiff, workerVars, outVars
<1>5. CASE Enqueue(r)
  <2>1. /\ DOMAIN queue' = 1 .. (Len(queue) + 1) /\ DOMAIN queue = 1 .. Len(queue)
        /\ Len(queue) \in Nat
        /\ \A i \in DOMAIN queue : queue'[i] = queue[i]
        /\ queue'[Len(queue) + 1] = r
    BY <1>5, AppendFacts DEF TypeOK, Enqueue
  <2>2. \A q : Queued(q)' <=> Queued(q) \/ q = r
    BY <2>1 DEF Queued
  <2>3. ~InFlight(r) /\ ~Recorded(r)
    BY <1>5 DEF Enqueue, InFlightAccepted, RecordedNotAgain
  <2>4. /\ stage' = [stage EXCEPT ![r] = "accepted"] /\ stage[r] = "sending"
        /\ UNCHANGED <<input, job, pc, ledger, notifier, announced>>
    BY <1>5 DEF Enqueue, workerVars, outVars
  <2>5. UNCHANGED <<BusyHasJob, WorkedOnOnce, NotifyingRecorded, RecordedAtMostOnce,
                    EventsAfterRecord>>
    BY <2>4 DEF BusyHasJob, WorkedOnOnce, NotifyingRecorded, RecordedAtMostOnce,
       EventsAfterRecord, Recorded
  <2>6. QueuedOnce'
    BY <2>1, <2>3 DEF QueuedOnce, InFlight, Queued
  <2>7. QueuedOrTaken'
    BY <2>2, <2>3, <2>4 DEF QueuedOrTaken, InFlight, InWorker
  <2>8. InputKnown' /\ InFlightAccepted' /\ RecordedNotAgain'
    BY <2>2, <2>3, <2>4 DEF TypeOK, InputKnown, InFlightAccepted, RecordedNotAgain,
       InFlight, InWorker, Recorded, Stages
  <2> QED
    BY <2>5, <2>6, <2>7, <2>8 DEF Owned
<1> QED
  BY <1>3, <1>4, <1>5 DEF Handler

\* A received job has left the channel and no other worker has it.
LEMMA OwnedTake ==
    ASSUME IInv, NEW w \in Workers, Take(w)
    PROVE  Owned'
<1> USE DEF IInv, OneOwner
<1> DEFINE r == Head(queue)
<1>1. /\ r \in Requests /\ r = queue[1] /\ Len(queue) \in Nat \ {0}
      /\ DOMAIN queue = 1 .. Len(queue)
      /\ DOMAIN queue' = 1 .. (Len(queue) - 1)
      /\ \A i \in DOMAIN queue' : queue'[i] = queue[i + 1]
  BY TailFacts DEF Take, TypeOK
<1>2. /\ job' = [job EXCEPT ![w] = r] /\ pc' = [pc EXCEPT ![w] = "rpc"]
      /\ pc[w] = "idle"
      /\ UNCHANGED <<stage, input, ledger, notifier, announced>>
  BY DEF Take, Goto, handlerVars, outVars
<1>3. job \in [Workers -> Requests \cup {NoJob}] /\ pc \in [Workers -> Labels]
  BY DEF TypeOK
<1>4. Queued(r)
  BY <1>1 DEF Queued
<1>5. \A q : Queued(q)' <=> Queued(q) /\ q # r
  <2>1. \A q : Queued(q)' => Queued(q) /\ q # r
    BY <1>1 DEF Queued, QueuedOnce
  <2>2. ASSUME NEW q, Queued(q), q # r PROVE Queued(q)'
    <3>1. PICK i \in DOMAIN queue : queue[i] = q
      BY <2>2 DEF Queued
    <3>2. i - 1 \in DOMAIN queue' /\ queue'[i - 1] = q
      BY <1>1, <2>2, <3>1
    <3> QED
      BY <3>2 DEF Queued
  <2> QED
    BY <2>1, <2>2
<1>6. UNCHANGED <<InputKnown, RecordedAtMostOnce, EventsAfterRecord>>
  BY <1>2 DEF InputKnown, RecordedAtMostOnce, EventsAfterRecord, Recorded
<1>7. BusyHasJob'
  BY <1>1, <1>2, <1>3, ConstantsAssumption DEF BusyHasJob
<1>8. QueuedOnce'
  BY <1>1 DEF QueuedOnce
<1>9. WorkedOnOnce'
  BY <1>2, <1>3, <1>4 DEF WorkedOnOnce, QueuedOrTaken
<1>10. QueuedOrTaken'
  BY <1>2, <1>3, <1>5 DEF QueuedOrTaken
<1>11. InFlightAccepted'
  <2>1. \A q \in Requests : InFlight(q)' => InFlight(q)
    BY <1>2, <1>3, <1>4, <1>5 DEF InFlight, InWorker
  <2> QED
    BY <1>2, <2>1 DEF InFlightAccepted
<1>12. RecordedNotAgain'
  BY <1>2, <1>3, <1>4, <1>5 DEF RecordedNotAgain, Recorded
<1>13. NotifyingRecorded'
  BY <1>2, <1>3 DEF NotifyingRecorded, Recorded
<1> QED
  BY <1>6, <1>7, <1>8, <1>9, <1>10, <1>11, <1>12, <1>13 DEF Owned

\* A row is the first of its job, whether or not the insert is acknowledged.
LEMMA OwnedInsert ==
    ASSUME IInv, NEW w \in Workers, Insert(w) \/ InsertUnacknowledged(w)
    PROVE  Owned'
<1> USE DEF IInv, OneOwner
<1> DEFINE r == job[w]
<1>1. r \in Requests /\ stage[r] = "accepted" /\ pc[w] = "insert"
  BY BusyWorker DEF Insert, InsertUnacknowledged
<1>2. /\ ledger' = Append(ledger, Row(r, answer[w]))
      /\ pc' = [pc EXCEPT ![w] = "notify"] \/ pc' = [pc EXCEPT ![w] = "return"]
      /\ UNCHANGED <<stage, input, queue, job, notifier, announced>>
  BY DEF Insert, InsertUnacknowledged, Goto, handlerVars
<1>3. /\ DOMAIN ledger = 1 .. Len(ledger) /\ Len(ledger) \in Nat
      /\ DOMAIN ledger' = 1 .. (Len(ledger) + 1)
      /\ \A k \in DOMAIN ledger : ledger'[k] = ledger[k]
      /\ ledger'[Len(ledger) + 1].job = r
  BY <1>1, <1>2, RowType, AppendFacts DEF TypeOK, Row
<1>4. \A q : Recorded(q)' <=> Recorded(q) \/ q = r
  BY <1>3 DEF Recorded
<1>5. ~Recorded(r)
  BY <1>1 DEF RecordedNotAgain
<1>6. pc \in [Workers -> Labels]
  BY DEF TypeOK
<1>7. UNCHANGED <<InputKnown, QueuedOnce, WorkedOnOnce, QueuedOrTaken, InFlightAccepted>>
  BY <1>2 DEF InputKnown, QueuedOnce, WorkedOnOnce, QueuedOrTaken, InFlightAccepted,
     InFlight, Queued, InWorker
<1>8. BusyHasJob'
  BY <1>1, <1>2, <1>6 DEF BusyHasJob
<1>9. RecordedAtMostOnce'
  BY <1>3, <1>5 DEF RecordedAtMostOnce, Recorded
<1>10. EventsAfterRecord'
  BY <1>2, <1>4 DEF EventsAfterRecord
<1>11. RecordedNotAgain'
  <2>1. ~Queued(r) /\ \A v \in Workers : job[v] = r => v = w
    BY <1>1, ConstantsAssumption DEF QueuedOrTaken, WorkedOnOnce
  <2> QED
    BY <1>1, <1>2, <1>4, <1>6, <2>1 DEF RecordedNotAgain, Queued
<1>12. NotifyingRecorded'
  BY <1>2, <1>4, <1>6 DEF NotifyingRecorded
<1> QED
  BY <1>7, <1>8, <1>9, <1>10, <1>11, <1>12 DEF Owned

\* The event of a run is sent by the worker that recorded it.
LEMMA OwnedNotify ==
    ASSUME IInv, NEW w \in Workers, Notify(w)
    PROVE  Owned'
<1> USE DEF IInv, OneOwner
<1>1. /\ pc[w] = "notify" /\ pc' = [pc EXCEPT ![w] = "return"]
      /\ notifier' = Append(notifier, job[w])
      /\ announced' = announced \cup {job[w]}
      /\ UNCHANGED <<stage, input, queue, job, ledger>>
  BY DEF Notify, Goto, handlerVars
<1>2. pc \in [Workers -> Labels] /\ job[w] \in Requests
  BY <1>1, BusyWorker DEF TypeOK
<1>3. /\ DOMAIN notifier = 1 .. Len(notifier) /\ Len(notifier) \in Nat
      /\ DOMAIN notifier' = 1 .. (Len(notifier) + 1)
      /\ \A i \in DOMAIN notifier : notifier'[i] = notifier[i]
      /\ notifier'[Len(notifier) + 1] = job[w]
  BY <1>1, <1>2, AppendFacts DEF TypeOK
<1>4. UNCHANGED <<InputKnown, QueuedOnce, WorkedOnOnce, QueuedOrTaken,
                  InFlightAccepted, RecordedAtMostOnce>>
  BY <1>1 DEF InputKnown, QueuedOnce, WorkedOnOnce, QueuedOrTaken, InFlightAccepted,
     RecordedAtMostOnce, InFlight, Queued, InWorker
<1>5. BusyHasJob' /\ RecordedNotAgain' /\ NotifyingRecorded'
  BY <1>1, <1>2 DEF BusyHasJob, RecordedNotAgain, NotifyingRecorded, Recorded, Queued
<1>6. EventsAfterRecord'
  <2>1. Recorded(job[w])
    BY <1>1 DEF NotifyingRecorded
  <2> QED
    BY <1>1, <1>3, <2>1 DEF EventsAfterRecord, Recorded
<1> QED
  BY <1>4, <1>5, <1>6 DEF Owned

\* A worker that returns lets its job go.
LEMMA OwnedReturn ==
    ASSUME IInv, NEW w \in Workers, Return(w)
    PROVE  Owned'
<1> USE DEF IInv, OneOwner
<1>1. /\ pc[w] = "return" /\ pc' = [pc EXCEPT ![w] = "idle"]
      /\ job' = [job EXCEPT ![w] = NoJob]
      /\ UNCHANGED <<stage, input, queue, ledger, notifier, announced>>
  BY DEF Return, Goto, handlerVars, outVars
<1>2. pc \in [Workers -> Labels] /\ job \in [Workers -> Requests \cup {NoJob}]
  BY DEF TypeOK
<1>3. ~Queued(NoJob)
  BY ConstantsAssumption, TailFacts DEF TypeOK, Queued
<1>4. UNCHANGED <<InputKnown, QueuedOnce, RecordedAtMostOnce, EventsAfterRecord>>
  BY <1>1 DEF InputKnown, QueuedOnce, RecordedAtMostOnce, EventsAfterRecord, Recorded
<1>5. BusyHasJob' /\ WorkedOnOnce'
  BY <1>1, <1>2 DEF BusyHasJob, WorkedOnOnce
<1>6. QueuedOrTaken'
  BY <1>1, <1>2, <1>3 DEF QueuedOrTaken, Queued
<1>7. InFlightAccepted'
  <2>1. \A q \in Requests : InFlight(q)' => InFlight(q)
    BY <1>1, <1>2, ConstantsAssumption DEF InFlight, Queued, InWorker
  <2> QED
    BY <1>1, <2>1 DEF InFlightAccepted
<1>8. RecordedNotAgain' /\ NotifyingRecorded'
  BY <1>1, <1>2, ConstantsAssumption
     DEF RecordedNotAgain, NotifyingRecorded, Recorded, Queued
<1> QED
  BY <1>4, <1>5, <1>6, <1>7, <1>8 DEF Owned

\* A step of a worker keeps one owner for every job.
LEMMA OwnedProcess ==
    ASSUME IInv, NEW w \in Workers, Process(w)
    PROVE  Owned'
<1>1. CASE EngineAnswers(w) \/ EngineFails(w) \/ CliAnswers(w) \/ CliFails(w)
             \/ CliServes(w) \/ InsertFails(w)
  <2>1. pc[w] \in {"rpc", "cli", "insert"}
    BY <1>1 DEF EngineAnswers, EngineFails, CliAnswers, CliFails, CliServes, InsertFails
  <2>2. \E l \in {"cli", "serving", "insert", "return"} : Goto(w, l)
    BY <1>1 DEF EngineAnswers, EngineFails, CliAnswers, CliFails, CliServes, InsertFails,
       Answered
  <2>3. UNCHANGED <<stage, input, queue, job, ledger, notifier, announced>>
    BY <1>1 DEF EngineAnswers, EngineFails, CliAnswers, CliFails, CliServes, InsertFails,
       handlerVars, outVars
  <2> QED
    BY <2>1, <2>2, <2>3, OwnedMove
<1> QED
  BY <1>1, OwnedTake, OwnedInsert, OwnedNotify, OwnedReturn DEF Process

\* The listener, the engine, a child and a crash keep one owner for every job.
LEMMA OwnedEnvironment ==
    ASSUME IInv, Environment
    PROVE  Owned'
<1> USE DEF IInv, OneOwner
<1>1. CASE Drain
  <2>1. UNCHANGED <<stage, input, queue, job, pc, ledger, announced>>
    BY <1>1 DEF Drain, handlerVars, workerVars
  <2>2. UNCHANGED <<InputKnown, BusyHasJob, QueuedOnce, WorkedOnOnce, QueuedOrTaken,
                    InFlightAccepted, RecordedNotAgain, NotifyingRecorded,
                    RecordedAtMostOnce>>
    BY <2>1 DEF InputKnown, BusyHasJob, QueuedOnce, WorkedOnOnce, QueuedOrTaken,
       InFlightAccepted, RecordedNotAgain, NotifyingRecorded, RecordedAtMostOnce,
       InFlight, Queued, InWorker, Recorded
  <2>3. /\ DOMAIN notifier = 1 .. Len(notifier) /\ Len(notifier) \in Nat
        /\ DOMAIN notifier' = 1 .. (Len(notifier) - 1)
        /\ \A i \in DOMAIN notifier' : notifier'[i] = notifier[i + 1]
    BY <1>1, TailFacts DEF Drain, TypeOK
  <2>4. EventsAfterRecord'
    BY <2>1, <2>3 DEF EventsAfterRecord, Recorded
  <2> QED
    BY <2>2, <2>4 DEF Owned
<1>2. CASE ChildDies
  <2>1. UNCHANGED <<stage, input, queue, job, ledger, notifier, announced>>
    BY <1>2 DEF ChildDies, handlerVars, outVars
  <2>2. /\ pc \in [Workers -> Labels]
        /\ pc' = [w \in Workers |-> IF pc[w] = "serving" THEN "return" ELSE pc[w]]
    BY <1>2 DEF ChildDies, TypeOK
  <2>3. UNCHANGED <<InputKnown, QueuedOnce, WorkedOnOnce, QueuedOrTaken,
                    InFlightAccepted, RecordedAtMostOnce, EventsAfterRecord>>
    BY <2>1 DEF InputKnown, QueuedOnce, WorkedOnOnce, QueuedOrTaken, InFlightAccepted,
       RecordedAtMostOnce, EventsAfterRecord, InFlight, Queued, InWorker, Recorded
  <2>4. BusyHasJob' /\ RecordedNotAgain' /\ NotifyingRecorded'
    BY <2>1, <2>2 DEF BusyHasJob, RecordedNotAgain, NotifyingRecorded, Recorded, Queued
  <2> QED
    BY <2>3, <2>4 DEF Owned
<1>3. CASE EngineStops \/ EngineStarts
  BY <1>3, OwnedFrame DEF EngineStops, EngineStarts, Owned, coreVars, handlerVars,
     workerVars, outVars
<1>4. CASE Crash
  <2>1. /\ queue' = <<>> /\ notifier' = <<>>
        /\ job' = [w \in Workers |-> NoJob] /\ pc' = [w \in Workers |-> "idle"]
        /\ UNCHANGED <<input, ledger, announced>>
    BY <1>4 DEF Crash
  <2>2. DOMAIN queue' = {} /\ DOMAIN notifier' = {}
    BY <2>1, EmptyFacts
  <2>3. /\ stage \in [Requests -> Stages]
        /\ \A q \in Requests : \/ stage'[q] = stage[q] /\ ~InFlight(q)
                               \/ stage[q] = "sending" /\ stage'[q] = "aborted"
                               \/ InFlight(q) /\ stage'[q] = "lost"
    BY <1>4 DEF Crash, TypeOK, InFlightAccepted
  <2>4. \A q \in Requests : ~Queued(q)' /\ ~InWorker(q)' /\ (Recorded(q)' <=> Recorded(q))
    BY <2>1, <2>2, ConstantsAssumption DEF Queued, InWorker, Recorded
  <2>5. InputKnown'
    BY <2>1, <2>3 DEF InputKnown, InFlightAccepted, Stages
  <2>6. InFlightAccepted' /\ RecordedNotAgain'
    BY <2>1, <2>3, <2>4, ConstantsAssumption
       DEF InFlightAccepted, RecordedNotAgain, InFlight
  <2>7. BusyHasJob' /\ WorkedOnOnce' /\ NotifyingRecorded' /\ QueuedOnce' /\ QueuedOrTaken'
    BY <2>1, <2>2 DEF BusyHasJob, WorkedOnOnce, NotifyingRecorded, QueuedOnce,
       QueuedOrTaken, Queued
  <2>8. RecordedAtMostOnce' /\ EventsAfterRecord'
    BY <2>1, <2>2, <2>4 DEF RecordedAtMostOnce, EventsAfterRecord
  <2> QED
    BY <2>5, <2>6, <2>7, <2>8 DEF Owned
<1> QED
  BY <1>1, <1>2, <1>3, <1>4 DEF Environment

\* The invariant is inductive.
LEMMA StepInv == IInv /\ [Next]_vars => IInv'
<1> SUFFICES ASSUME IInv, [Next]_vars PROVE IInv'
  OBVIOUS
<1>1. TypeOK'
  BY TypeStep
<1>2. Owned'
  <2>1. CASE UNCHANGED vars
    BY <2>1, OwnedFrame DEF IInv, Owned, vars, coreVars
  <2> QED
    BY <2>1, OwnedHandler, OwnedProcess, OwnedEnvironment DEF Next
<1> QED
  BY <1>1, <1>2 DEF IInv, Owned

\* The inductive invariant holds in every reachable state.
LEMMA Invariance == Spec => []IInv
  BY InitInv, StepInv, PTL DEF Spec

-----------------------------------------------------------------------------
(***************************************************************************)
(* The types of the pipeline; in particular neither JobQueue nor Notifier  *)
(* ever holds more than its capacity.                                      *)
(***************************************************************************)
THEOREM TypeCorrect == Spec => []TypeOK
<1>1. IInv => TypeOK
  BY DEF IInv
<1> QED
  BY <1>1, Invariance, PTL

(***************************************************************************)
(* A job is in the channel once or with one worker, and once it has its    *)
(* row it will not be inserted again, through every crash and failure.     *)
(***************************************************************************)
THEOREM OneOwnerCorrect == Spec => []OneOwner
<1>1. IInv => OneOwner
  BY DEF IInv
<1> QED
  BY <1>1, Invariance, PTL

(***************************************************************************)
(* processJob leaves at most one row of diff_runs for a job.               *)
(***************************************************************************)
THEOREM RecordedOnceCorrect == Spec => []RecordedAtMostOnce
<1>1. IInv => RecordedAtMostOnce
  BY DEF IInv
<1> QED
  BY <1>1, Invariance, PTL

(***************************************************************************)
(* A diff_completed event that was sent is of a run that has its row.      *)
(***************************************************************************)
THEOREM EventsAfterRecordCorrect == Spec => []EventsAfterRecord
<1>1. IInv => EventsAfterRecord
  BY DEF IInv
<1> QED
  BY <1>1, Invariance, PTL

-----------------------------------------------------------------------------
(* The files.                                                              *)

Analysing(r) == \E w \in Workers : job[w] = r /\ pc[w] \in {"rpc", "cli", "serving"}

\* Who still needs the files of r.
Needed(r) == stage[r] = "sending" \/ Queued(r) \/ Analysing(r)

\* Who will remove the files of r, or left them behind in a known way.
Owner(r) == InFlight(r) \/ stage[r] \in {"sending", "panicked", "aborted", "lost"}

FilesThere == \A r \in Requests : Needed(r) => \A f \in FilesOf(r) : disk[f] # "absent"

FilesKnown == \A f \in File : disk[f] # "absent" => Owner(f[1]) /\ f \in FilesOf(f[1])

FilesInv == FilesThere /\ FilesKnown

\* A step that keeps the files keeps their owners and hands out no new ones.
LEMMA FilesFrame ==
    ASSUME FilesInv, UNCHANGED <<disk, input>>,
           \A r \in Requests : (Needed(r)' => Needed(r)) /\ (Owner(r) => Owner(r)')
    PROVE  FilesInv'
<1>1. FilesThere'
  BY DEF FilesInv, FilesThere, FilesOf
<1>2. FilesKnown'
  BY DEF FilesInv, FilesKnown, FilesOf, File
<1> QED
  BY <1>1, <1>2 DEF FilesInv

UploadFiles(r, i) ==
    IF i.kind = "code" THEN {<<r, "target">>} ELSE {<<r, "base">>, <<r, "target">>}

\* A handler saves the upload i of r and ends, or waits to send.
Saved(r, i, made, cut, end) ==
    /\ stage[r] = "idle"
    /\ made \subseteq UploadFiles(r, i) /\ cut \subseteq made
    /\ Save(made, cut)
    /\ \/ end = "sending" /\ made = UploadFiles(r, i)
       \/ end = "panicked"
       \/ end = "refused" /\ made = {}
    /\ stage' = [stage EXCEPT ![r] = end]
    /\ input' = [input EXCEPT ![r] = i]
    /\ UNCHANGED <<queue, job, pc>>

\* It touches the files of no other request.
LEMMA FilesSave ==
    ASSUME IInv, FilesInv, NEW r \in Requests, NEW i \in Inputs, NEW made, NEW cut, NEW end,
           Saved(r, i, made, cut, end)
    PROVE  FilesInv'
<1> USE DEF Saved
<1> DEFINE files == UploadFiles(r, i)
<1>1. /\ stage \in [Requests -> Stages] /\ input \in [Requests -> Inputs \cup {NoInput}]
      /\ disk \in [File -> {"absent", "whole", "short"}]
  BY DEF IInv, TypeOK
<1>2. \A q \in Requests \ {r} : stage'[q] = stage[q] /\ input'[q] = input[q]
  BY <1>1
<1>3. stage'[r] = end
  BY <1>1
<1>4. FilesOf(r)' = files
  BY <1>1 DEF FilesOf, UploadFiles
<1>5. ~InFlight(r) /\ \A q \in Requests : /\ InFlight(q)' <=> InFlight(q)
                                          /\ Queued(q)' <=> Queued(q)
                                          /\ Analysing(q)' <=> Analysing(q)
  BY DEF IInv, OneOwner, InFlightAccepted, InFlight, Queued, InWorker, Analysing
<1>6. \A f \in File : f[1] = r => disk[f] = "absent"
  BY <1>5 DEF FilesInv, FilesKnown, Owner
<1>7. files \subseteq File /\ (\A f \in files : f[1] = r) /\ made \subseteq files /\ cut \subseteq files
  BY DEF File, UploadFiles
<1> HIDE DEF files
<1>8. \A f \in File : disk'[f] = IF f \in cut THEN "short"
                                 ELSE IF f \in made THEN "whole" ELSE disk[f]
  BY DEF Save
<1>9. FilesThere'
  <2>1. ASSUME NEW q \in Requests, Needed(q)', NEW f \in FilesOf(q)'
        PROVE  disk'[f] # "absent"
    <3>1. CASE q = r
      <4>1. made = files
        BY <1>3, <1>5, <2>1, <3>1 DEF Needed, Analysing, InFlight, InWorker, files
      <4> QED
        BY <1>4, <1>7, <1>8, <2>1, <3>1, <4>1
    <3>2. CASE q # r
      <4>1. Needed(q) /\ f \in FilesOf(q) /\ f \in File /\ f[1] = q
        BY <1>2, <1>5, <2>1, <3>2 DEF Needed, FilesOf, File
      <4>2. disk'[f] = disk[f]
        BY <1>7, <1>8, <3>2, <4>1
      <4> QED
        BY <4>1, <4>2 DEF FilesInv, FilesThere
    <3> QED
      BY <3>1, <3>2
  <2> QED
    BY <2>1 DEF FilesThere
<1>10. FilesKnown'
  <2>1. ASSUME NEW f \in File, disk'[f] # "absent"
        PROVE  Owner(f[1])' /\ f \in FilesOf(f[1])'
    <3>1. CASE f \in made
      <4>1. f[1] = r /\ f \in FilesOf(r)' /\ stage'[r] \in {"sending", "panicked"}
        BY <1>3, <1>4, <1>7, <3>1 DEF files
      <4> QED
        BY <4>1 DEF Owner
    <3>2. CASE f \notin made
      <4>1. disk[f] # "absent"
        BY <1>8, <2>1, <3>2
      <4>2. f[1] \in Requests \ {r} /\ Owner(f[1]) /\ f \in FilesOf(f[1])
        BY <1>6, <4>1 DEF FilesInv, FilesKnown, File
      <4> QED
        BY <1>2, <1>5, <4>2 DEF Owner, FilesOf
    <3> QED
      BY <3>1, <3>2
  <2> QED
    BY <2>1 DEF FilesKnown
<1> QED
  BY <1>9, <1>10 DEF FilesInv

LEMMA FilesHandler ==
    ASSUME IInv, FilesInv, NEW r \in Requests, Handler(r)
    PROVE  FilesInv'
<1>1. ASSUME NEW i \in Inputs, handleRunDiff(r, i)
      PROVE  FilesInv'
  <2>1. PICK made \in SUBSET UploadFiles(r, i) : \E cut \in SUBSET made :
            /\ Save(made, cut)
            /\ stage' = [stage EXCEPT ![r] = IF made = UploadFiles(r, i)
                                             THEN "sending" ELSE "panicked"]
    BY <1>1 DEF handleRunDiff, UploadFiles
  <2>2. PICK cut \in SUBSET made : Save(made, cut)
    BY <2>1
  <2>3. \/ made = UploadFiles(r, i) /\ stage' = [stage EXCEPT ![r] = "sending"]
        \/ stage' = [stage EXCEPT ![r] = "panicked"]
    BY <2>1
  <2>4. /\ stage[r] = "idle" /\ input' = [input EXCEPT ![r] = i]
        /\ UNCHANGED <<queue, job, pc>>
    BY <1>1 DEF handleRunDiff, workerVars
  <2>5. CASE made = UploadFiles(r, i) /\ stage' = [stage EXCEPT ![r] = "sending"]
    <3>1. Saved(r, i, made, cut, "sending")
      BY <2>2, <2>4, <2>5 DEF Saved
    <3> QED
      BY <3>1, FilesSave
  <2>6. CASE stage' = [stage EXCEPT ![r] = "panicked"]
    <3>1. Saved(r, i, made, cut, "panicked")
      BY <2>2, <2>4, <2>6 DEF Saved
    <3> QED
      BY <3>1, FilesSave
  <2> QED
    BY <2>3, <2>5, <2>6
<1>2. ASSUME NEW i \in Inputs, handleCodeDiff(r, i)
      PROVE  FilesInv'
  <2>1. PICK made \in SUBSET UploadFiles(r, i) : \E cut \in SUBSET made :
            /\ Save(made, cut)
            /\ stage' = [stage EXCEPT ![r] = IF made = UploadFiles(r, i)
                                             THEN "sending" ELSE "refused"]
    BY <1>2 DEF handleCodeDiff, UploadFiles
  <2>2. PICK cut \in SUBSET made : Save(made, cut)
    BY <2>1
  <2>3. made = UploadFiles(r, i) \/ made = {}
    BY <1>2 DEF handleCodeDiff, UploadFiles
  <2>4. \/ made = UploadFiles(r, i) /\ stage' = [stage EXCEPT ![r] = "sending"]
        \/ made = {} /\ stage' = [stage EXCEPT ![r] = "refused"]
    BY <2>1, <2>3
  <2>5. /\ stage[r] = "idle" /\ input' = [input EXCEPT ![r] = i]
        /\ UNCHANGED <<queue, job, pc>>
    BY <1>2 DEF handleCodeDiff, workerVars
  <2>6. CASE made = UploadFiles(r, i) /\ stage' = [stage EXCEPT ![r] = "sending"]
    <3>1. Saved(r, i, made, cut, "sending")
      BY <2>2, <2>5, <2>6 DEF Saved
    <3> QED
      BY <3>1, FilesSave
  <2>7. CASE made = {} /\ stage' = [stage EXCEPT ![r] = "refused"]
    <3>1. Saved(r, i, made, cut, "refused")
      BY <2>2, <2>5, <2>7 DEF Saved
    <3> QED
      BY <3>1, FilesSave
  <2> QED
    BY <2>4, <2>6, <2>7
<1>3. CASE Refuse(r) \/ Enqueue(r)
  <2>1. stage \in [Requests -> Stages] /\ queue \in Seq(Requests)
    BY DEF IInv, TypeOK
  <2>2. CASE Refuse(r)
    <3>1. \A q \in Requests : (Needed(q)' => Needed(q)) /\ (Owner(q) => Owner(q)')
      BY <2>1, <2>2 DEF Refuse, handlerVars, workerVars, Needed, Owner, InFlight, InWorker,
                        Queued, Analysing
    <3> QED
      BY <2>2, <3>1, FilesFrame DEF Refuse
  <2>3. CASE Enqueue(r)
    <3>1. \A q \in Requests : Queued(q)' <=> (Queued(q) \/ q = r)
      BY <2>1, <2>3, AppendFacts DEF Enqueue, Queued
    <3>2. \A q \in Requests : (Needed(q)' => Needed(q)) /\ (Owner(q) => Owner(q)')
      BY <2>1, <2>3, <3>1 DEF Enqueue, workerVars, Needed, Owner, InFlight, InWorker, Analysing
    <3> QED
      BY <2>3, <3>2, FilesFrame DEF Enqueue
  <2> QED
    BY <1>3, <2>2, <2>3
<1> QED
  BY <1>1, <1>2, <1>3 DEF Handler

\* A worker that moves on keeps the files until it returns.
LEMMA FilesMove ==
    ASSUME IInv, FilesInv, NEW w \in Workers, NEW l, Goto(w, l),
           l \in {"rpc", "cli", "serving"} => pc[w] \in {"rpc", "cli", "serving"},
           UNCHANGED <<disk, input, stage, queue, job>>
    PROVE  FilesInv'
<1>1. pc \in [Workers -> Labels]
  BY DEF IInv, TypeOK
<1>2. \A v \in Workers : pc'[v] = IF v = w THEN l ELSE pc[v]
  BY <1>1 DEF Goto
<1>3. \A r \in Requests : (Needed(r)' => Needed(r)) /\ (Owner(r) => Owner(r)')
  BY <1>2 DEF Needed, Owner, InFlight, InWorker, Queued, Analysing
<1> QED
  BY <1>3, FilesFrame

LEMMA FilesTake ==
    ASSUME IInv, FilesInv, NEW w \in Workers, Take(w)
    PROVE  FilesInv'
<1>1. /\ pc \in [Workers -> Labels] /\ job \in [Workers -> Requests \cup {NoJob}]
      /\ queue \in Seq(Requests) /\ queue # <<>> /\ job[w] = NoJob
  BY DEF IInv, TypeOK, Take, OneOwner, BusyHasJob
<1> DEFINE h == Head(queue)
<1>2. Queued(h) /\ h \in Requests /\ \A q \in Requests : Queued(q) <=> (Queued(q)' \/ q = h)
  <2>1. /\ queue' = Tail(queue) /\ h = queue[1] /\ h \in Requests
        /\ Len(queue) \in Nat \ {0} /\ DOMAIN queue = 1 .. Len(queue)
        /\ DOMAIN queue' = 1 .. (Len(queue) - 1)
        /\ \A i \in 1 .. (Len(queue) - 1) : queue'[i] = queue[i + 1]
    BY <1>1, TailFacts DEF Take
  <2>2. \A i \in DOMAIN queue : i = 1 \/ (i - 1 \in DOMAIN queue' /\ queue'[i - 1] = queue[i])
    BY <2>1
  <2>3. \A i \in DOMAIN queue' : i + 1 \in DOMAIN queue /\ queue[i + 1] = queue'[i]
    BY <2>1
  <2>4. 1 \in DOMAIN queue
    BY <2>1
  <2> QED
    BY <2>1, <2>2, <2>3, <2>4 DEF Queued
<1> HIDE DEF h
<1>3. \A v \in Workers : /\ pc'[v] = IF v = w THEN "rpc" ELSE pc[v]
                         /\ job'[v] = IF v = w THEN h ELSE job[v]
  BY <1>1 DEF Take, Goto, h
<1>4. \A r \in Requests : (Needed(r)' => Needed(r)) /\ (Owner(r) => Owner(r)')
  BY <1>1, <1>2, <1>3, ConstantsAssumption
     DEF Take, handlerVars, Needed, Owner, InFlight, InWorker, Analysing
<1> QED
  BY <1>4, FilesFrame DEF Take, handlerVars

\* The deferred removals of a worker hit the files of its job and no others.
LEMMA FilesReturn ==
    ASSUME IInv, FilesInv, NEW w \in Workers, Return(w)
    PROVE  FilesInv'
<1>1. /\ pc \in [Workers -> Labels] /\ job \in [Workers -> Requests \cup {NoJob}]
  BY DEF IInv, TypeOK
<1>2. PICK r \in Requests : r = job[w] /\ stage[r] = "accepted"
  BY BusyWorker DEF Return
<1>3. \A v \in Workers : /\ pc'[v] = IF v = w THEN "idle" ELSE pc[v]
                         /\ job'[v] = IF v = w THEN NoJob ELSE job[v]
  BY <1>1 DEF Return, Goto
<1>4. ~Needed(r)'
  BY <1>2, <1>3, ConstantsAssumption DEF Return, handlerVars, Needed, Analysing, Queued,
     IInv, OneOwner, QueuedOrTaken, WorkedOnOnce
<1>5. \A q \in Requests \ {r} : (Needed(q)' => Needed(q)) /\ (Owner(q) => Owner(q)')
  BY <1>1, <1>2, <1>3, ConstantsAssumption
     DEF Return, handlerVars, Needed, Owner, InFlight, InWorker, Analysing, Queued
<1>6. \A f \in File : disk'[f] = IF f \in FilesOf(r) THEN "absent" ELSE disk[f]
  BY <1>2 DEF Return
<1>7. input' = input
  BY DEF Return, handlerVars
<1>8. FilesThere'
  <2>1. ASSUME NEW q \in Requests, Needed(q)', NEW f \in FilesOf(q)'
        PROVE  disk'[f] # "absent"
    <3>1. q # r /\ Needed(q) /\ f \in FilesOf(q)
      BY <1>4, <1>5, <1>7, <2>1 DEF FilesOf
    <3>2. f \in File /\ f \notin FilesOf(r)
      BY <3>1 DEF FilesOf, File
    <3> QED
      BY <1>6, <3>1, <3>2 DEF FilesInv, FilesThere
  <2> QED
    BY <2>1 DEF FilesThere
<1>9. FilesKnown'
  <2>1. ASSUME NEW f \in File, disk'[f] # "absent"
        PROVE  Owner(f[1])' /\ f \in FilesOf(f[1])'
    <3>1. f \notin FilesOf(r) /\ Owner(f[1]) /\ f \in FilesOf(f[1]) /\ f[1] \in Requests
      BY <1>6, <2>1 DEF FilesInv, FilesKnown, File
    <3>2. f[1] # r
      BY <3>1
    <3> QED
      BY <1>5, <1>7, <3>1, <3>2 DEF FilesOf
  <2> QED
    BY <2>1 DEF FilesKnown
<1> QED
  BY <1>8, <1>9 DEF FilesInv

LEMMA FilesProcess ==
    ASSUME IInv, FilesInv, NEW w \in Workers, Process(w)
    PROVE  FilesInv'
<1>1. CASE EngineAnswers(w) \/ EngineFails(w) \/ CliAnswers(w) \/ CliFails(w) \/ CliServes(w)
  <2>1. pc[w] \in {"rpc", "cli"} /\ \E l : Goto(w, l)
    BY <1>1 DEF EngineAnswers, EngineFails, CliAnswers, CliFails, CliServes, Answered
  <2>2. UNCHANGED <<disk, input, stage, queue, job>>
    BY <1>1 DEF EngineAnswers, EngineFails, CliAnswers, CliFails, CliServes, handlerVars
  <2> QED
    BY <2>1, <2>2, FilesMove
<1>2. CASE Insert(w) \/ InsertFails(w) \/ InsertUnacknowledged(w) \/ Notify(w)
  <2>1. \E l \in {"notify", "return"} : Goto(w, l)
    BY <1>2 DEF Insert, InsertFails, InsertUnacknowledged, Notify
  <2>2. UNCHANGED <<disk, input, stage, queue, job>>
    BY <1>2 DEF Insert, InsertFails, InsertUnacknowledged, Notify, handlerVars
  <2> QED
    BY <2>1, <2>2, FilesMove
<1> QED
  BY <1>1, <1>2, FilesTake, FilesReturn DEF Process

LEMMA FilesEnvironment ==
    ASSUME IInv, FilesInv, Environment
    PROVE  FilesInv'
<1> USE DEF Needed, Owner, InFlight, InWorker, Queued, Analysing
<1>1. CASE Drain \/ EngineStops \/ EngineStarts
  <2>1. UNCHANGED <<disk, input, stage, queue, job, pc>>
    BY <1>1 DEF Drain, EngineStops, EngineStarts, handlerVars, workerVars
  <2> QED
    BY <2>1, FilesFrame
<1>2. CASE ChildDies
  <2>1. UNCHANGED <<disk, input, stage, queue, job>>
    BY <1>2 DEF ChildDies, handlerVars
  <2>2. \A v \in Workers : pc'[v] = IF pc[v] = "serving" THEN "return" ELSE pc[v]
    BY <1>2 DEF ChildDies
  <2>3. \A r \in Requests : (Needed(r)' => Needed(r)) /\ (Owner(r) => Owner(r)')
    BY <2>1, <2>2
  <2> QED
    BY <2>1, <2>3, FilesFrame
<1>3. CASE Crash
  <2>1. /\ queue' = <<>> /\ DOMAIN queue' = {}
        /\ \A v \in Workers : job'[v] = NoJob
        /\ UNCHANGED <<input, disk>>
    BY <1>3, EmptyFacts DEF Crash
  <2>2. \A r \in Requests : stage'[r] = CASE stage[r] = "sending" -> "aborted"
                                          [] InFlight(r)          -> "lost"
                                          [] OTHER                -> stage[r]
    BY <1>3 DEF Crash
  <2>3. \A r \in Requests : InFlight(r) => stage[r] = "accepted"
    BY DEF IInv, OneOwner, InFlightAccepted
  <2>4. \A r \in Requests : ~Needed(r)'
    BY <2>1, <2>2, ConstantsAssumption
  <2>5. \A r \in Requests : Owner(r) => Owner(r)'
    BY <2>2, <2>3
  <2> QED
    BY <2>1, <2>4, <2>5, FilesFrame
<1> QED
  BY <1>1, <1>2, <1>3 DEF Environment

LEMMA FilesStep == IInv /\ FilesInv /\ [Next]_vars => FilesInv'
<1> SUFFICES ASSUME IInv, FilesInv, [Next]_vars PROVE FilesInv'
  OBVIOUS
<1>1. CASE UNCHANGED vars
  BY <1>1, FilesFrame DEF vars, Needed, Owner, InFlight, InWorker, Queued, Analysing
<1> QED
  BY <1>1, FilesHandler, FilesProcess, FilesEnvironment DEF Next

LEMMA FilesInit == Init => FilesInv
<1> SUFFICES ASSUME Init PROVE FilesInv
  OBVIOUS
<1>1. DOMAIN queue = {} /\ \A r \in Requests : stage[r] = "idle"
  BY EmptyFacts DEF Init
<1>2. \A r \in Requests : ~Needed(r)
  BY <1>1, ConstantsAssumption DEF Init, Needed, Queued, Analysing
<1>3. \A f \in File : disk[f] = "absent"
  BY DEF Init
<1> QED
  BY <1>2, <1>3 DEF FilesInv, FilesThere, FilesKnown

-----------------------------------------------------------------------------

(***************************************************************************)
(* A worker that opens the files of its job finds them (the handlers hand  *)
(* them over, and only the deferred os.Remove of that worker removes them).*)
(***************************************************************************)
THEOREM JobsFindTheirFiles == Spec => []JobsHaveTheirFiles
<1>1. FilesInv => JobsHaveTheirFiles
  BY DEF FilesInv, FilesThere, Needed, Analysing, JobsHaveTheirFiles
<1> QED
  BY FilesInit, FilesStep, Invariance, <1>1, PTL DEF Spec

(***************************************************************************)
(* No temporary file is left behind but by a panic of handleRunDiff or a   *)
(* crash of the process.                                                   *)
(***************************************************************************)
THEOREM FilesAreOwned == Spec => []TempFilesOwned
<1>1. FilesInv => TempFilesOwned
  BY DEF FilesInv, FilesKnown, Owner, TempFilesOwned
<1> QED
  BY FilesInit, FilesStep, Invariance, <1>1, PTL DEF Spec

-----------------------------------------------------------------------------
(* The verdicts.                                                           *)

\* What a worker is about to insert for a specification is its verdict.
AnswersHonest ==
    \A w \in Workers :
        pc[w] = "insert" /\ input[job[w]].kind = "spec" => answer[w] = input[job[w]].verdict

HonestInv == LedgerHonest /\ AnswersHonest

\* A specification that is cut short is answered by nobody.
LEMMA SpecAnswers ==
    ASSUME NEW r, input[r].kind = "spec", NEW v \in Answers(r)
    PROVE  v = input[r].verdict
<1>1. CASE \E f \in FilesOf(r) : disk[f] = "absent"
  BY <1>1 DEF Answers
<1>2. CASE ~(\E f \in FilesOf(r) : disk[f] = "absent") /\ (\A f \in FilesOf(r) : disk[f] = "whole")
  <2>1. Answers(r) = {input[r].verdict} \ {"rejected"}
    BY <1>2 DEF Answers
  <2> QED
    BY <2>1
<1>3. CASE ~(\E f \in FilesOf(r) : disk[f] = "absent") /\ ~(\A f \in FilesOf(r) : disk[f] = "whole")
  <2>1. Answers(r) = {}
    BY <1>3 DEF Answers
  <2> QED
    BY <2>1
<1> QED
  BY <1>1, <1>2, <1>3

\* Only specifications can be stored: code diffs have no project of the table.
LEMMA InsertableIsSpec ==
    ASSUME NEW r, input[r] \in Input, Insertable(r)
    PROVE  input[r].kind = "spec"
  BY ConstantsAssumption DEF Input, Insertable

\* What an upload was does not change once its job is known.
LEMMA HonestFrame ==
    ASSUME IInv, HonestInv, UNCHANGED ledger,
           \A r \in Requests : stage[r] \in {"accepted", "lost"} => input'[r] = input[r],
           \A w \in Workers : pc'[w] = "insert" =>
               pc[w] = "insert" /\ job'[w] = job[w] /\ answer'[w] = answer[w]
    PROVE  HonestInv'
<1>1. LedgerHonest'
  <2>1. ASSUME NEW k \in DOMAIN ledger
        PROVE  input'[ledger[k].job] = input[ledger[k].job]
    <3>1. ledger[k].job \in Requests
      <4> DEFINE Rows == [job : Requests, project : Projects \cup {"unknown", CodeProject},
                          status : {"PASSED", "FAILED"}]
      <4>1. ledger \in Seq(Rows)
        BY DEF IInv, TypeOK
      <4>2. ledger[k] \in Rows
        <5> HIDE DEF Rows
        <5> QED
          BY <4>1
      <4> QED
        BY <4>2
    <3>2. Recorded(ledger[k].job)
      BY DEF Recorded
    <3> QED
      BY <3>1, <3>2 DEF IInv, OneOwner, RecordedNotAgain
  <2> QED
    BY <2>1 DEF HonestInv, LedgerHonest, StatusOf
<1>2. AnswersHonest'
  <2>1. ASSUME NEW w \in Workers, pc[w] = "insert"
        PROVE  input'[job[w]] = input[job[w]]
    BY <2>1, BusyWorker
  <2> QED
    BY <2>1 DEF HonestInv, AnswersHonest
<1> QED
  BY <1>1, <1>2 DEF HonestInv

LEMMA HonestHandler ==
    ASSUME IInv, HonestInv, NEW r \in Requests, Handler(r)
    PROVE  HonestInv'
<1>1. input' = input \/ (stage[r] = "idle" /\ \E i : input' = [input EXCEPT ![r] = i])
  BY DEF Handler, Refuse, handleRunDiff, handleCodeDiff, Enqueue, handlerVars
<1>2. UNCHANGED <<ledger, job, pc, answer>>
  BY DEF Handler, Refuse, handleRunDiff, handleCodeDiff, Enqueue, workerVars, outVars
<1>3. input \in [Requests -> Inputs \cup {NoInput}]
  BY DEF IInv, TypeOK
<1>4. \A q \in Requests : stage[q] \in {"accepted", "lost"} => input'[q] = input[q]
  BY <1>1, <1>3
<1> QED
  BY <1>2, <1>4, HonestFrame

LEMMA HonestAnswered ==
    ASSUME IInv, HonestInv, NEW w \in Workers, NEW v \in Answers(job[w]), Answered(w, v),
           UNCHANGED <<input, job, ledger>>
    PROVE  HonestInv'
<1>1. /\ pc \in [Workers -> Labels]
      /\ answer \in [Workers -> {"none", "clean", "breaking"}]
  BY DEF IInv, TypeOK
<1>2. \A u \in Workers : /\ answer'[u] = IF u = w THEN v ELSE answer[u]
                         /\ u # w => pc'[u] = pc[u]
  BY <1>1 DEF Answered, Goto
<1>3. AnswersHonest'
  BY <1>2, SpecAnswers DEF HonestInv, AnswersHonest
<1>4. LedgerHonest'
  BY DEF HonestInv, LedgerHonest, StatusOf
<1> QED
  BY <1>3, <1>4 DEF HonestInv

LEMMA HonestInsert ==
    ASSUME IInv, HonestInv, NEW w \in Workers, pc[w] = "insert", Insertable(job[w]),
           ledger' = Append(ledger, Row(job[w], answer[w])),
           NEW l \in {"notify", "return"}, Goto(w, l), UNCHANGED <<input, job, answer>>
    PROVE  HonestInv'
<1>1. pc \in [Workers -> Labels]
  BY DEF IInv, TypeOK
<1>2. AnswersHonest'
  BY <1>1 DEF Goto, HonestInv, AnswersHonest
<1>3. /\ job[w] \in Requests
      /\ input[job[w]] \in Input
      /\ input[job[w]].kind = "spec"
      /\ answer[w] = input[job[w]].verdict
  BY BusyWorker, InsertableIsSpec DEF HonestInv, AnswersHonest
<1> DEFINE new == Row(job[w], answer[w])
<1>4. new.job = job[w] /\ new.status = StatusOf(answer[w])
  BY DEF Row
<1> HIDE DEF new
<1>5. \A k \in DOMAIN ledger' : ledger'[k] = new \/ (k \in DOMAIN ledger /\ ledger'[k] = ledger[k])
  BY DEF IInv, TypeOK, new
<1>6. LedgerHonest'
  <2>1. ASSUME NEW k \in DOMAIN ledger', NEW row, row = ledger'[k]
        PROVE  row.status = StatusOf(input[row.job].verdict)
    <3>1. CASE row = new
      BY <1>3, <1>4, <3>1
    <3>2. CASE k \in DOMAIN ledger /\ row = ledger[k]
      BY <3>2 DEF HonestInv, LedgerHonest
    <3> QED
      BY <1>5, <2>1, <3>1, <3>2
  <2> QED
    BY <2>1 DEF LedgerHonest, StatusOf
<1> QED
  BY <1>2, <1>6 DEF HonestInv

LEMMA HonestProcess ==
    ASSUME IInv, HonestInv, NEW w \in Workers, Process(w)
    PROVE  HonestInv'
<1>1. CASE EngineAnswers(w) \/ CliAnswers(w)
  BY <1>1, HonestAnswered DEF EngineAnswers, CliAnswers, handlerVars, outVars
<1>2. CASE Insert(w) \/ InsertUnacknowledged(w)
  <2>1. /\ pc[w] = "insert" /\ Insertable(job[w])
        /\ ledger' = Append(ledger, Row(job[w], answer[w]))
        /\ UNCHANGED <<input, job, answer>>
    BY <1>2 DEF Insert, InsertUnacknowledged, handlerVars
  <2>2. Goto(w, "notify") \/ Goto(w, "return")
    BY <1>2 DEF Insert, InsertUnacknowledged
  <2> QED
    BY <2>1, <2>2, HonestInsert
<1>3. CASE Take(w) \/ EngineFails(w) \/ CliFails(w) \/ CliServes(w) \/ InsertFails(w)
             \/ Notify(w) \/ Return(w)
  <2>1. UNCHANGED <<input, ledger>>
    BY <1>3 DEF Take, EngineFails, CliFails, CliServes, InsertFails, Notify, Return,
       handlerVars, outVars
  <2>2. /\ pc \in [Workers -> Labels] /\ job \in [Workers -> Requests \cup {NoJob}]
        /\ answer \in [Workers -> {"none", "clean", "breaking"}]
    BY DEF IInv, TypeOK
  <2>3. \E l \in {"rpc", "cli", "return", "serving", "idle"} : Goto(w, l)
    BY <1>3 DEF Take, EngineFails, CliFails, CliServes, InsertFails, Notify, Return
  <2>4. \A u \in Workers \ {w} : job'[u] = job[u] /\ answer'[u] = answer[u]
    BY <1>3, <2>2 DEF Take, EngineFails, CliFails, CliServes, InsertFails, Notify, Return
  <2>5. \A u \in Workers : pc'[u] = "insert" =>
            pc[u] = "insert" /\ job'[u] = job[u] /\ answer'[u] = answer[u]
    BY <2>2, <2>3, <2>4 DEF Goto
  <2> QED
    BY <2>1, <2>5, HonestFrame
<1> QED
  BY <1>1, <1>2, <1>3 DEF Process

LEMMA HonestStep == IInv /\ HonestInv /\ [Next]_vars => HonestInv'
<1> SUFFICES ASSUME IInv, HonestInv, [Next]_vars PROVE HonestInv'
  OBVIOUS
<1>1. CASE UNCHANGED vars \/ Drain \/ EngineStops \/ EngineStarts
  <2>1. UNCHANGED <<input, ledger, job, pc, answer>>
    BY <1>1 DEF vars, Drain, EngineStops, EngineStarts, handlerVars, workerVars, outVars
  <2> QED
    BY <2>1, HonestFrame
<1>2. CASE ChildDies \/ Crash
  <2>1. UNCHANGED <<input, ledger>>
    BY <1>2 DEF ChildDies, Crash, handlerVars, outVars
  <2>2. \A u \in Workers : pc'[u] = "insert" =>
            pc[u] = "insert" /\ job'[u] = job[u] /\ answer'[u] = answer[u]
    BY <1>2 DEF ChildDies, Crash
  <2> QED
    BY <2>1, <2>2, HonestFrame
<1> QED
  BY <1>1, <1>2, HonestHandler, HonestProcess DEF Next, Environment

LEMMA HonestInit == Init => HonestInv
<1> SUFFICES ASSUME Init PROVE HonestInv
  OBVIOUS
<1>1. DOMAIN ledger = {}
  BY EmptyFacts DEF Init
<1> QED
  BY <1>1 DEF Init, HonestInv, LedgerHonest, AnswersHonest

(***************************************************************************)
(* PASSED and FAILED in diff_runs are the verdicts on what was uploaded,   *)
(* although the handlers drop the errors of io.Copy and WriteString.       *)
(***************************************************************************)
THEOREM LedgerIsHonest == Spec => []LedgerHonest
<1>1. HonestInv => LedgerHonest
  BY DEF HonestInv
<1> QED
  BY HonestInit, HonestStep, Invariance, <1>1, PTL DEF Spec

-----------------------------------------------------------------------------
(* When nothing fails.                                                     *)

Announced(r) == Recorded(r) /\ r \in announced

\* Nothing failed, and nothing but a failure keeps the job of r from its row.
Sound(r) ==
    /\ deployment.cli = "batch" /\ faults = 0
    /\ Insertable(r) /\ input[r].verdict # "rejected"

NotCut == faults = 0 => \A f \in File : disk[f] # "short"

ReturnedAnnounced ==
    \A w \in Workers : pc[w] = "return" /\ Sound(job[w]) => Announced(job[w])

NotLost ==
    \A r \in Requests : stage[r] = "accepted" /\ Sound(r) => InFlight(r) \/ Announced(r)

LossInv == NotCut /\ ReturnedAnnounced /\ NotLost

\* After a failure there is nothing to show.
LEMMA LossFault ==
    ASSUME IInv, Fault
    PROVE  LossInv'
<1>1. faults' # 0
  BY DEF IInv, TypeOK, Fault
<1> QED
  BY <1>1 DEF LossInv, NotCut, ReturnedAnnounced, NotLost, Sound

\* The job that a worker analyses would be answered if it were asked.
LEMMA SoundAnswered ==
    ASSUME IInv, FilesInv, LossInv, NEW w \in Workers, pc[w] \in {"rpc", "cli"}, Sound(job[w])
    PROVE  Answers(job[w]) # {}
<1>1. job[w] \in Requests
  BY BusyWorker
<1>2. \A f \in FilesOf(job[w]) : f \in File /\ disk[f] # "absent"
  BY <1>1 DEF FilesInv, FilesThere, Needed, Analysing, FilesOf, File
<1>3. \A f \in FilesOf(job[w]) : disk[f] = "whole"
  BY <1>2 DEF IInv, TypeOK, LossInv, NotCut, Sound
<1>4. Answers(job[w]) = {input[job[w]].verdict} \ {"rejected"}
  BY <1>3 DEF Answers
<1> QED
  BY <1>4 DEF Sound

LEMMA LossHandler ==
    ASSUME IInv, LossInv, NEW r \in Requests, Handler(r)
    PROVE  LossInv'
<1> USE DEF Sound, Insertable, Announced, Recorded
<1>1. /\ stage \in [Requests -> Stages] /\ input \in [Requests -> Inputs \cup {NoInput}]
      /\ faults \in Nat /\ queue \in Seq(Requests)
  BY ConstantsAssumption DEF IInv, TypeOK
<1>2. UNCHANGED <<job, pc, ledger, announced, deployment>>
  BY DEF Handler, Refuse, handleRunDiff, handleCodeDiff, Enqueue, workerVars, outVars, hostVars
<1>3. \A w \in Workers : pc[w] = "return" => job[w] \in Requests /\ stage[job[w]] = "accepted"
  BY BusyWorker
<1>4. CASE Refuse(r)
  BY <1>1, <1>2, <1>4 DEF Refuse, LossInv, NotCut, ReturnedAnnounced, NotLost, InFlight, Queued,
     InWorker
<1>5. CASE \E i \in Inputs : handleRunDiff(r, i) \/ handleCodeDiff(r, i)
  <2>1. /\ stage[r] = "idle" /\ queue' = queue
        /\ \E i, end : /\ end # "accepted" /\ stage' = [stage EXCEPT ![r] = end]
                       /\ input' = [input EXCEPT ![r] = i]
    BY <1>5 DEF handleRunDiff, handleCodeDiff
  <2>2. \A q \in Requests \ {r} : stage'[q] = stage[q] /\ input'[q] = input[q]
    BY <1>1, <2>1
  <2>3. stage'[r] # "accepted"
    BY <1>1, <2>1
  <2>4. /\ faults' = 0 => faults = 0
        /\ faults' = 0 => \E made : Save(made, {})
    <3>1. PICK made, cut : Save(made, cut) /\ (FaultUnless(cut = {}) \/ Fault)
      BY <1>5 DEF handleRunDiff, handleCodeDiff, FaultUnless
    <3>2. faults' = 0 => faults = 0 /\ cut = {}
      BY <1>1, <3>1 DEF FaultUnless, Fault
    <3>3. cut = {} => Save(made, {})
      BY <3>1
    <3> QED
      BY <3>2, <3>3
  <2>5. NotCut'
    BY <2>4 DEF LossInv, NotCut, Save
  <2>6. ReturnedAnnounced'
    BY <1>2, <1>3, <2>1, <2>2, <2>4 DEF LossInv, ReturnedAnnounced
  <2>7. NotLost'
    BY <1>2, <2>1, <2>2, <2>3, <2>4 DEF LossInv, NotLost, InFlight, Queued, InWorker
  <2> QED
    BY <2>5, <2>6, <2>7 DEF LossInv
<1>6. CASE Enqueue(r)
  <2>1. \A q \in Requests : Queued(q)' <=> (Queued(q) \/ q = r)
    BY <1>1, <1>6, AppendFacts DEF Enqueue, Queued
  <2>2. UNCHANGED <<input, disk, faults>> /\ stage' = [stage EXCEPT ![r] = "accepted"]
    BY <1>6 DEF Enqueue
  <2>3. NotCut' /\ ReturnedAnnounced'
    BY <1>2, <2>2 DEF LossInv, NotCut, ReturnedAnnounced
  <2>4. NotLost'
    BY <1>1, <1>2, <2>1, <2>2 DEF LossInv, NotLost, InFlight, InWorker
  <2> QED
    BY <2>3, <2>4 DEF LossInv
<1> QED
  BY <1>4, <1>5, <1>6 DEF Handler

(***************************************************************************)
(* A worker that keeps its job and comes to a return only with the event   *)
(* sent; rows and events do not go away.                                   *)
(***************************************************************************)
LEMMA LossMove ==
    ASSUME IInv, LossInv, NEW w \in Workers, NEW l, Goto(w, l), faults' = 0 => faults = 0,
           l = "return" /\ Sound(job[w])' => Announced(job[w])',
           UNCHANGED <<disk, input, stage, queue, job, deployment>>,
           \A r \in Requests : Announced(r) => Announced(r)'
    PROVE  LossInv'
<1> USE DEF Sound, Insertable
<1>1. pc \in [Workers -> Labels]
  BY DEF IInv, TypeOK
<1>2. \A v \in Workers : pc'[v] = IF v = w THEN l ELSE pc[v]
  BY <1>1 DEF Goto
<1>3. \A v \in Workers : pc[v] = "return" => job[v] \in Requests
  BY BusyWorker
<1>4. NotCut'
  BY DEF LossInv, NotCut
<1>5. ReturnedAnnounced'
  BY <1>2, <1>3 DEF LossInv, ReturnedAnnounced
<1>6. NotLost'
  BY DEF LossInv, NotLost, InFlight, Queued, InWorker
<1> QED
  BY <1>4, <1>5, <1>6 DEF LossInv

LEMMA LossProcess ==
    ASSUME IInv, FilesInv, LossInv, NEW w \in Workers, Process(w)
    PROVE  LossInv'
<1>1. UNCHANGED announced => (UNCHANGED ledger => \A r \in Requests : Announced(r) => Announced(r)')
  BY DEF Announced, Recorded
<1>2. CASE EngineAnswers(w) \/ CliAnswers(w) \/ CliServes(w)
  <2>1. \E l \in {"insert", "serving"} : Goto(w, l)
    BY <1>2 DEF EngineAnswers, CliAnswers, CliServes, Answered
  <2>2. UNCHANGED <<disk, input, stage, queue, job, deployment, faults, ledger, announced>>
    BY <1>2 DEF EngineAnswers, CliAnswers, CliServes, handlerVars, outVars, hostVars
  <2> QED
    BY <1>1, <2>1, <2>2, LossMove
<1>3. CASE EngineFails(w)
  <2>1. CASE Fault
    BY <2>1, LossFault
  <2>2. CASE UNCHANGED faults
    <3>1. UNCHANGED <<disk, input, stage, queue, job, deployment, ledger, announced>> /\ Goto(w, "cli")
      BY <1>3 DEF EngineFails, handlerVars, outVars, hostVars
    <3> QED
      BY <1>1, <2>2, <3>1, LossMove
  <2> QED
    BY <1>3, <2>1, <2>2 DEF EngineFails, FaultUnless
<1>4. CASE CliFails(w) \/ InsertFails(w)
  <2>1. CASE Fault
    BY <2>1, LossFault
  <2>2. CASE UNCHANGED faults
    <3>1. /\ UNCHANGED <<disk, input, stage, queue, job, deployment, ledger, announced>>
          /\ Goto(w, "return")
      BY <1>4 DEF CliFails, InsertFails, handlerVars, outVars, hostVars
    <3>2. ~Sound(job[w])
      <4>1. CASE CliFails(w) /\ CliCannotRun(job[w])
        BY <4>1, SoundAnswered DEF CliFails, CliCannotRun, Sound
      <4>2. CASE InsertFails(w) /\ ~Insertable(job[w])
        BY <4>2 DEF Sound
      <4>3. CASE Fault
        BY <2>2, <4>3 DEF Fault, IInv, TypeOK
      <4> QED
        BY <1>4, <4>1, <4>2, <4>3 DEF CliFails, InsertFails, FaultUnless
    <3>3. ~Sound(job[w])'
      BY <2>2, <3>1, <3>2 DEF Sound, Insertable
    <3> QED
      BY <1>1, <2>2, <3>1, <3>3, LossMove
  <2> QED
    BY <1>4, <2>1, <2>2 DEF CliFails, InsertFails, FaultUnless
<1>5. CASE InsertUnacknowledged(w)
  BY <1>5, LossFault DEF InsertUnacknowledged
<1>6. CASE Insert(w)
  <2>1. /\ UNCHANGED <<disk, input, stage, queue, job, deployment, announced, faults>>
        /\ Goto(w, "notify") /\ ledger' = Append(ledger, Row(job[w], answer[w]))
    BY <1>6 DEF Insert, handlerVars, hostVars
  <2>2. \A k \in DOMAIN ledger : k \in DOMAIN ledger' /\ ledger'[k] = ledger[k]
    BY <2>1 DEF IInv, TypeOK
  <2>3. \A r \in Requests : Announced(r) => Announced(r)'
    BY <2>1, <2>2 DEF Announced, Recorded
  <2> QED
    BY <2>1, <2>3, LossMove
<1>7. CASE Notify(w)
  <2>1. /\ UNCHANGED <<disk, input, stage, queue, job, deployment, ledger, faults>>
        /\ Goto(w, "return") /\ announced' = announced \cup {job[w]}
    BY <1>7 DEF Notify, handlerVars, hostVars
  <2>2. Recorded(job[w])
    BY <1>7 DEF Notify, IInv, OneOwner, NotifyingRecorded
  <2>3. Announced(job[w])' /\ \A r \in Requests : Announced(r) => Announced(r)'
    BY <2>1, <2>2 DEF Announced, Recorded
  <2> QED
    BY <2>1, <2>3, LossMove
<1>8. CASE Take(w)
  <2>1. /\ queue \in Seq(Requests) /\ pc \in [Workers -> Labels]
        /\ job \in [Workers -> Requests \cup {NoJob}]
        /\ pc[w] = "idle" /\ job[w] = NoJob
    BY <1>8 DEF IInv, TypeOK, Take, OneOwner, BusyHasJob
  <2>2. UNCHANGED <<disk, input, stage, deployment, ledger, announced, faults>>
    BY <1>8 DEF Take, handlerVars, outVars, hostVars
  <2>3. \A v \in Workers : /\ pc'[v] = IF v = w THEN "rpc" ELSE pc[v]
                           /\ job'[v] = IF v = w THEN Head(queue) ELSE job[v]
    BY <1>8, <2>1 DEF Take, Goto
  <2>4. \A q \in Requests : Queued(q) => Queued(q)' \/ q = Head(queue)
    <3>1. /\ queue' = Tail(queue) /\ Head(queue) = queue[1]
          /\ \A i \in DOMAIN queue : i = 1 \/ (i - 1 \in DOMAIN queue' /\ queue'[i - 1] = queue[i])
      BY <1>8, <2>1, TailFacts DEF Take
    <3> QED
      BY <3>1 DEF Queued
  <2>5. \A q \in Requests : InFlight(q) => InFlight(q)'
    BY <2>1, <2>3, <2>4, ConstantsAssumption DEF InFlight, InWorker
  <2>6. NotCut' /\ ReturnedAnnounced'
    BY <2>2, <2>3 DEF LossInv, NotCut, ReturnedAnnounced, Sound, Insertable, Announced, Recorded
  <2>7. NotLost'
    BY <2>2, <2>5 DEF LossInv, NotLost, Sound, Insertable, Announced, Recorded
  <2> QED
    BY <2>6, <2>7 DEF LossInv
<1>9. CASE Return(w)
  <2>1. pc \in [Workers -> Labels] /\ job \in [Workers -> Requests \cup {NoJob}]
    BY DEF IInv, TypeOK
  <2>2. /\ pc[w] = "return"
        /\ UNCHANGED <<input, stage, queue, deployment, ledger, announced, faults>>
    BY <1>9 DEF Return, handlerVars, outVars, hostVars
  <2>3. \A v \in Workers : /\ pc'[v] = IF v = w THEN "idle" ELSE pc[v]
                           /\ job'[v] = IF v = w THEN NoJob ELSE job[v]
    BY <1>9, <2>1 DEF Return, Goto
  <2>4. NotCut'
    BY <1>9, <2>2 DEF Return, LossInv, NotCut
  <2>5. ReturnedAnnounced'
    BY <2>2, <2>3 DEF LossInv, ReturnedAnnounced, Sound, Insertable, Announced, Recorded
  <2>6. \A q \in Requests : InFlight(q) => InFlight(q)' \/ q = job[w]
    BY <2>2, <2>3 DEF InFlight, InWorker, Queued
  <2>7. NotLost'
    BY <2>2, <2>6 DEF LossInv, NotLost, ReturnedAnnounced, Sound, Insertable, Announced, Recorded
  <2> QED
    BY <2>4, <2>5, <2>7 DEF LossInv
<1> QED
  BY <1>2, <1>3, <1>4, <1>5, <1>6, <1>7, <1>8, <1>9 DEF Process

LEMMA LossStep == IInv /\ FilesInv /\ LossInv /\ [Next]_vars => LossInv'
<1> SUFFICES ASSUME IInv, FilesInv, LossInv, [Next]_vars PROVE LossInv'
  OBVIOUS
<1>1. CASE UNCHANGED vars \/ Drain \/ EngineStarts
  <2>1. UNCHANGED <<disk, input, stage, queue, job, pc, deployment, ledger, announced, faults>>
    BY <1>1 DEF vars, Drain, EngineStarts, handlerVars, workerVars, outVars, hostVars
  <2> QED
    BY <2>1 DEF LossInv, NotCut, ReturnedAnnounced, NotLost, Sound, Insertable, Announced,
       Recorded, InFlight, Queued, InWorker
<1>2. CASE ChildDies \/ EngineStops \/ Crash
  BY <1>2, LossFault DEF ChildDies, EngineStops, Crash
<1> QED
  BY <1>1, <1>2, LossHandler, LossProcess DEF Next, Environment

LEMMA LossInit == Init => LossInv
  BY DEF Init, LossInv, NotCut, ReturnedAnnounced, NotLost, File

(***************************************************************************)
(* With a one-shot fallback and no failure, the 202 of a sound upload is   *)
(* kept: it is in flight, or it has its row and its event was sent.        *)
(***************************************************************************)
THEOREM NothingIsLost == Spec => []NoSilentLoss
<1>1. LossInv => NoSilentLoss
  BY DEF LossInv, NotLost, Sound, Announced, NoSilentLoss
<1> QED
  BY FilesInit, FilesStep, LossInit, LossStep, Invariance, <1>1, PTL DEF Spec
=============================================================================
