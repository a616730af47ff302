---------------------------- MODULE SandboxProofs -----------------------------
(***************************************************************************)
(* Proofs about the page (Viewer), for any runs, views and number of       *)
(* submissions, and about the sandbox on it (Sandbox), for any texts, code *)
(* modes and number of fills.  The page under the panel is Viewer's, and   *)
(* so is its invariant.                                                    *)
(***************************************************************************)
EXTENDS Sandbox, FiniteSetTheorems, TLAPS

Ops == {"override", "project", "diff", "code", "timer"}

FlightType == [op : Ops, run : Runs \cup {None}, stage : {"sent", "ok", "failed"}]

EventType == [project : Projects,
              type    : {"diff_completed", "diff_overridden", "project_created"},
              id      : Runs \cup {None},
              status  : {"PASSED", "FAILED", "OVERRIDDEN", None}]

Types ==
    /\ submitting \in BOOLEAN /\ created \in BOOLEAN
    /\ diffId \in Runs \cup {None}
    /\ feed \in Seq(EventType)
    /\ ledger = [d \in Runs |-> ledger[d]]

\* The buttons are locked exactly while there is a flight, and there is one.
OneFlight ==
    /\ flights \subseteq FlightType
    /\ submitting <=> flights # {}
    /\ \A f, g \in flights : f = g
    /\ \A f \in flights : f.op = "override" => f.run \in Runs
    /\ \A f \in flights : f.op = "diff" => f.run \in SandboxRuns

\* A run that is shown as failed has its changes listed in every view.
Panels == PanelsAgree /\ (diffStatus = "FAILED" => changes # None)

(***************************************************************************)
(* Nothing runs in a project that is not there.  The project is created    *)
(* once, so the upload that follows its creation is the first of the       *)
(* sandbox's runs and puts no recorded run back to the queue.              *)
(***************************************************************************)
Fresh ==
    /\ ~created => /\ feed = <<>> /\ diffId = None
                   /\ \A d \in Runs : ledger[d] = "none"
                   /\ \A f \in flights : f.op \notin {"override", "diff"} /\ f.stage # "ok"
    /\ \A f \in flights :
          (f.op = "project" /\ f.stage = "ok") \/ (f.op = "diff" /\ f.stage = "sent")
              => \A d \in SandboxRuns : ledger[d] = "none"

Passed(d) == d \in Runs /\ ledger[d] \in {"PASSED", "OVERRIDDEN"}

\* Events under way, and the run on show, say PASSED of runs that did pass.
EventsHonest ==
    \A i \in DOMAIN feed : feed[i].type = "diff_completed" =>
        /\ feed[i].id \in Runs
        /\ feed[i].status = "PASSED" => Passed(feed[i].id)

ShownHonest == diffStatus = "PASSED" => Passed(diffId)

Honest == EventsHonest /\ ShownHonest

IInv == Types /\ OneFlight /\ Panels /\ Fresh /\ Honest

-----------------------------------------------------------------------------
(* What the invariant gives.                                               *)

LEMMA InvOneSubmission == IInv => OneSubmission
<1> SUFFICES ASSUME IInv PROVE OneSubmission
  OBVIOUS
<1>1. flights = {} \/ \E f : flights = {f}
  BY DEF IInv, OneFlight
<1>2. Cardinality(flights) <= 1
  <2>1. CASE flights = {}
    BY <2>1, FS_EmptySet
  <2>2. ASSUME NEW f, flights = {f}
        PROVE  Cardinality(flights) <= 1
    <3>1. Cardinality({f}) = 1
      BY FS_Singleton
    <3> QED
      BY <2>2, <3>1
  <2> QED
    BY <1>1, <2>1, <2>2
<1> QED
  BY <1>2 DEF IInv, OneFlight, Types, OneSubmission

LEMMA InvGreen == IInv => GreenIsHonest
  BY DEF IInv, Honest, ShownHonest, Passed, GreenIsHonest

LEMMA InitInv == Init => IInv
<1> SUFFICES ASSUME Init PROVE IInv
  OBVIOUS
<1> USE DEF Init
<1>1. Types
  <2>1. ledger = [d \in Runs |-> ledger[d]]
    OBVIOUS
  <2>2. feed \in Seq(EventType)
    OBVIOUS
  <2>3. submitting \in BOOLEAN /\ created \in BOOLEAN /\ diffId \in Runs \cup {None}
    OBVIOUS
  <2> QED
    BY <2>1, <2>2, <2>3 DEF Types
<1>2. OneFlight
  BY DEF OneFlight
<1>3. Panels
  BY ConstantsAssumption DEF Panels, PanelsAgree, Blocked
<1>4. Fresh
  BY DEF Fresh
<1>5. Honest
  BY ConstantsAssumption DEF Honest, EventsHonest, ShownHonest
<1> QED
  BY <1>1, <1>2, <1>3, <1>4, <1>5 DEF IInv

-----------------------------------------------------------------------------
(* The flights.                                                            *)

LEMMA FlightFields ==
    ASSUME NEW op, NEW d, NEW st
    PROVE  LET f == Flight(op, d, st) IN f.op = op /\ f.run = d /\ f.stage = st
  BY DEF Flight

LEMMA FlightTyped ==
    ASSUME NEW op \in Ops, NEW d \in Runs \cup {None}, NEW st \in {"sent", "ok", "failed"}
    PROVE  Flight(op, d, st) \in FlightType
  BY DEF Flight, FlightType

LEMMA Submitted ==
    ASSUME IInv, NEW f \in FlightType, Submit(f), ~submitting,
           f.op = "override" => f.run \in Runs, f.op # "diff"
    PROVE  OneFlight' /\ submitting' \in BOOLEAN /\ flights' = {f}
<1>1. flights' = {f}
  BY DEF Submit, IInv, OneFlight
<1> QED
  BY <1>1 DEF Submit, OneFlight

LEMMA Landed ==
    ASSUME IInv, NEW f \in flights, NEW g \in FlightType, Land(f, g), UNCHANGED submitting,
           g.op = "override" => g.run \in Runs, g.op = "diff" => g.run \in SandboxRuns
    PROVE  OneFlight' /\ flights' = {g}
<1>1. flights' = {g}
  BY DEF Land, IInv, OneFlight
<1> QED
  BY <1>1 DEF IInv, OneFlight

\* A request that comes to another stage stays the request it was.
LEMMA Staged ==
    ASSUME IInv, NEW f \in flights, NEW st \in {"sent", "ok", "failed"},
           Land(f, [f EXCEPT !.stage = st]), UNCHANGED submitting
    PROVE  /\ OneFlight'
           /\ \A g \in flights' : g.op = f.op /\ g.run = f.run /\ g.stage = st
<1> DEFINE g == [f EXCEPT !.stage = st]
<1>1. g \in FlightType /\ g.op = f.op /\ g.run = f.run /\ g.stage = st
  BY DEF IInv, OneFlight, FlightType
<1> HIDE DEF g
<1>2. Land(f, g)
  BY DEF g
<1>3. OneFlight' /\ flights' = {g}
  BY <1>1, <1>2, Landed DEF IInv, OneFlight
<1> QED
  BY <1>1, <1>3

LEMMA Finished ==
    ASSUME IInv, NEW f \in flights, Finish(f)
    PROVE  OneFlight' /\ flights' = {} /\ submitting' \in BOOLEAN
<1>1. flights' = {}
  BY DEF Finish, IInv, OneFlight
<1> QED
  BY <1>1 DEF Finish, OneFlight

-----------------------------------------------------------------------------
(* Steps that leave what the others hold.                                  *)

LEMMA SameServer ==
    ASSUME IInv, UNCHANGED <<server, diffId, diffStatus>>
    PROVE  Honest'
  BY DEF IInv, server, Honest, EventsHonest, ShownHonest, Passed

LEMMA SameShown ==
    ASSUME IInv, UNCHANGED shown
    PROVE  Panels' /\ diffId' = diffId /\ diffStatus' = diffStatus
  BY DEF IInv, shown, Panels, PanelsAgree, Blocked

LEMMA Overridden ==
    ASSUME IInv, ShowOverridden
    PROVE  Panels' /\ ShownHonest' /\ diffId' = diffId
<1>1. ~Blocked'
  BY DEF ShowOverridden, Blocked
<1> QED
  BY <1>1 DEF IInv, Panels, PanelsAgree, ShowOverridden, ShownHonest

\* A run is recorded or overridden, which keeps what passed, and announced.
LEMMA Announced ==
    ASSUME IInv, NEW e \in EventType, Put(e), UNCHANGED <<diffId, diffStatus>>,
           \A d \in Runs : Passed(d) => Passed(d)',
           e.type = "diff_completed" =>
               e.id \in Runs /\ (e.status = "PASSED" => Passed(e.id)')
    PROVE  feed' \in Seq(EventType) /\ Honest'
<1>1. feed' \in Seq(EventType)
  BY DEF IInv, Types, Put
<1>2. \A i \in DOMAIN feed' : feed'[i] = e \/ (i \in DOMAIN feed /\ feed'[i] = feed[i])
  BY DEF IInv, Types, Put
<1>3. EventsHonest'
  <2>1. ASSUME NEW i \in DOMAIN feed', NEW g, g = feed'[i], g.type = "diff_completed"
        PROVE  g.id \in Runs /\ (g.status = "PASSED" => Passed(g.id)')
    <3>1. CASE g = e
      BY <2>1, <3>1
    <3>2. CASE i \in DOMAIN feed /\ g = feed[i]
      BY <2>1, <3>2 DEF IInv, Honest, EventsHonest
    <3> QED
      BY <1>2, <2>1, <3>1, <3>2
  <2> QED
    BY <2>1 DEF EventsHonest, Passed
<1>4. ShownHonest'
  BY DEF IInv, Honest, ShownHonest, Passed
<1> QED
  BY <1>1, <1>3, <1>4 DEF Honest

LEMMA OverrideKeeps ==
    ASSUME IInv, NEW d \in Runs, Override(d), UNCHANGED <<diffId, diffStatus>>
    PROVE  Honest' /\ feed' \in Seq(EventType) /\ ledger' = [r \in Runs |-> ledger'[r]]
<1>1. PICK p \in Projects : Put(Event(p, "diff_overridden", d, "OVERRIDDEN"))
  BY DEF Override
<1> DEFINE e == Event(p, "diff_overridden", d, "OVERRIDDEN")
<1>2. e \in EventType /\ e.type = "diff_overridden"
  BY DEF Event, EventType
<1>3. \A r \in Runs : Passed(r) => Passed(r)'
  BY DEF IInv, Types, Override, Passed
<1> HIDE DEF e
<1>4. Put(e)
  BY <1>1 DEF e
<1>5. Honest' /\ feed' \in Seq(EventType)
  BY <1>2, <1>3, <1>4, Announced
<1>6. ledger' = [r \in Runs |-> ledger'[r]]
  BY DEF IInv, Types, Override
<1> QED
  BY <1>5, <1>6

-----------------------------------------------------------------------------
(* The server.                                                             *)

LEMMA CompleteInv ==
    ASSUME IInv, NEW d \in Runs, Complete(d)
    PROVE  IInv'
<1> USE DEF Complete, page
<1>1. PICK s \in {"PASSED", "FAILED"} :
          /\ ledger' = [ledger EXCEPT ![d] = s]
          /\ Put(Event(SandboxProject, "diff_completed", d, s))
  BY DEF Complete
<1> DEFINE e == Event(SandboxProject, "diff_completed", d, s)
<1>2. e \in EventType /\ e.id = d /\ e.status = s
  BY DEF Event, EventType, Projects
<1>3. \A r \in Runs : Passed(r) => Passed(r)'
  <2>1. ~Passed(d)
    BY DEF Passed
  <2> QED
    BY <1>1, <2>1 DEF IInv, Types, Passed
<1>4. s = "PASSED" => Passed(d)'
  BY <1>1 DEF IInv, Types, Passed
<1> HIDE DEF e
<1>5. Put(e)
  BY <1>1 DEF e
<1>6. Honest' /\ feed' \in Seq(EventType)
  BY <1>2, <1>3, <1>4, <1>5, Announced DEF shown
<1>7. Types'
  BY <1>1, <1>6 DEF IInv, Types, shown
<1>8. OneFlight'
  BY DEF IInv, OneFlight
<1>9. Panels'
  BY SameShown
<1>10. Fresh'
  <2>1. d \in SandboxRuns => ledger[d] = "queued"
    BY ConstantsAssumption DEF Runs
  <2> QED
    BY <1>1, <2>1 DEF IInv, Types, Fresh, Runs
<1> QED
  BY <1>6, <1>7, <1>8, <1>9, <1>10 DEF IInv

LEMMA OverrideElsewhereInv ==
    ASSUME IInv, NEW d \in Runs, OverrideElsewhere(d)
    PROVE  IInv'
<1> USE DEF OverrideElsewhere, page
<1>1. Honest' /\ feed' \in Seq(EventType) /\ ledger' = [r \in Runs |-> ledger'[r]]
  BY OverrideKeeps DEF shown
<1>2. Types'
  BY <1>1 DEF IInv, Types, Override, shown
<1>3. OneFlight'
  BY DEF IInv, OneFlight
<1>4. Panels'
  BY SameShown
<1>5. Fresh'
  BY DEF IInv, Types, Fresh, Override, Runs
<1> QED
  BY <1>1, <1>2, <1>3, <1>4, <1>5 DEF IInv

LEMMA ServeOverrideInv ==
    ASSUME IInv, NEW f \in flights, ServeOverride(f)
    PROVE  IInv'
<1> USE DEF ServeOverride, page
<1>1. f.run \in Runs
  BY DEF IInv, OneFlight
<1>2. Honest' /\ feed' \in Seq(EventType) /\ ledger' = [r \in Runs |-> ledger'[r]]
  BY <1>1, OverrideKeeps DEF shown
<1>3. OneFlight' /\ \A g \in flights' : g.op = "override"
  BY Staged
<1>4. Types'
  BY <1>2 DEF IInv, Types, Override, shown
<1>5. Panels'
  BY SameShown
<1>6. Fresh'
  <2>1. created /\ created'
    BY DEF IInv, Fresh, Override
  <2> QED
    BY <1>3, <2>1 DEF Fresh
<1> QED
  BY <1>2, <1>3, <1>4, <1>5, <1>6 DEF IInv

LEMMA ServeProjectInv ==
    ASSUME IInv, NEW f \in flights, ServeProject(f)
    PROVE  IInv'
<1> USE DEF ServeProject, page
<1> DEFINE e == Event(SandboxProject, "project_created", None, None)
<1>1. e \in EventType /\ e.type = "project_created"
  BY DEF Event, EventType, Projects
<1> HIDE DEF e
<1>2. Put(e)
  BY DEF e
<1>3. \A r \in Runs : Passed(r) => Passed(r)'
  BY DEF Passed
<1>4. Honest' /\ feed' \in Seq(EventType)
  BY <1>1, <1>2, <1>3, Announced DEF shown
<1>5. OneFlight' /\ \A g \in flights' : g.op = "project"
  BY Staged
<1>6. Types'
  BY <1>4 DEF IInv, Types, shown
<1>7. Panels'
  BY SameShown
<1>8. Fresh'
  BY <1>5 DEF IInv, Fresh, Runs
<1> QED
  BY <1>4, <1>5, <1>6, <1>7, <1>8 DEF IInv

LEMMA ServeUploadInv ==
    ASSUME IInv, NEW f \in flights, ServeUpload(f)
    PROVE  IInv'
<1> USE DEF ServeUpload, page
<1>1. f.run \in SandboxRuns /\ ledger[f.run] = "none"
  BY DEF IInv, OneFlight, Fresh
<1>2. \A r \in Runs : Passed(r) => Passed(r)'
  <2>1. ~Passed(f.run)
    BY <1>1 DEF Passed
  <2> QED
    BY <2>1 DEF IInv, Types, Passed
<1>3. Honest'
  BY <1>2 DEF IInv, Honest, EventsHonest, ShownHonest, Passed, shown
<1>4. OneFlight' /\ \A g \in flights' : g.op = "diff" /\ g.stage = "ok"
  BY Staged
<1>5. Types'
  BY DEF IInv, Types, shown
<1>6. Panels'
  BY SameShown
<1>7. created
  BY DEF IInv, Fresh
<1>8. Fresh'
  BY <1>4, <1>7 DEF Fresh
<1> QED
  BY <1>3, <1>4, <1>5, <1>6, <1>8 DEF IInv

LEMMA FailInv ==
    ASSUME IInv, NEW f \in flights, Fail(f)
    PROVE  IInv'
<1> USE DEF Fail, page, server
<1>1. OneFlight' /\ \A g \in flights' : g.op = f.op /\ g.stage = "failed"
  BY Staged
<1>2. Types'
  BY DEF IInv, Types, shown
<1>3. Panels'
  BY SameShown
<1>4. Fresh'
  BY <1>1 DEF IInv, Fresh, shown
<1>5. Honest'
  BY SameServer DEF shown
<1> QED
  BY <1>1, <1>2, <1>3, <1>4, <1>5 DEF IInv

-----------------------------------------------------------------------------
(* The page.                                                               *)

\* Steps that touch neither what is shown of a run nor what is under way.
LEMMA QuietInv ==
    ASSUME IInv, UNCHANGED <<shown, submitting, flights, server>>
    PROVE  IInv'
<1> USE DEF server
<1>1. Types'
  BY DEF IInv, Types, shown
<1>2. OneFlight'
  BY DEF IInv, OneFlight
<1>3. Panels'
  BY SameShown
<1>4. Fresh'
  BY DEF IInv, Fresh, shown
<1>5. Honest'
  BY SameServer DEF shown
<1> QED
  BY <1>1, <1>2, <1>3, <1>4, <1>5 DEF IInv

\* A click starts a request; it is no upload, and an override is of a run on show.
LEMMA SubmitInv ==
    ASSUME IInv, NEW op \in {"override", "project", "code"}, NEW d \in Runs \cup {None},
           Submit(Flight(op, d, "sent")), ~submitting, UNCHANGED <<shown, server>>,
           op = "override" => d \in Runs /\ created
    PROVE  IInv'
<1> USE DEF server
<1> DEFINE f == Flight(op, d, "sent")
<1>1. f \in FlightType /\ f.op = op /\ f.run = d /\ f.stage = "sent"
  BY FlightTyped, FlightFields DEF Ops
<1> HIDE DEF f
<1>2. OneFlight' /\ submitting' \in BOOLEAN /\ flights' = {f}
  <2>1. Submit(f)
    BY DEF f
  <2> QED
    BY <1>1, <2>1, Submitted
<1>3. Types'
  BY <1>2 DEF IInv, Types, shown
<1>4. Panels'
  BY SameShown
<1>5. Fresh'
  BY <1>1, <1>2 DEF IInv, Fresh, shown
<1>6. Honest'
  BY SameServer DEF shown
<1> QED
  BY <1>2, <1>3, <1>4, <1>5, <1>6 DEF IInv

\* A submission that ends and leaves the runs on show as they are.
LEMMA FinishInv ==
    ASSUME IInv, NEW f \in flights, Finish(f), UNCHANGED <<shown, server>>
    PROVE  IInv'
<1> USE DEF server
<1>1. OneFlight' /\ flights' = {} /\ submitting' \in BOOLEAN
  BY Finished
<1>2. Types'
  BY <1>1 DEF IInv, Types, shown
<1>3. Panels'
  BY SameShown
<1>4. Fresh'
  BY <1>1 DEF IInv, Fresh, shown
<1>5. Honest'
  BY SameServer DEF shown
<1> QED
  BY <1>1, <1>2, <1>3, <1>4, <1>5 DEF IInv

LEMMA OnMessageInv ==
    ASSUME IInv, OnMessage
    PROVE  IInv'
<1> USE DEF OnMessage
<1> DEFINE e == Head(feed)
<1>1. /\ feed' \in Seq(EventType) /\ e \in EventType
      /\ \A i \in DOMAIN feed' : i + 1 \in DOMAIN feed /\ feed'[i] = feed[i + 1]
      /\ 1 \in DOMAIN feed /\ e = feed[1]
  BY DEF IInv, Types
<1>2. created
  BY DEF IInv, Fresh
<1>3. e.type = "diff_completed" => e.id \in Runs /\ (e.status = "PASSED" => Passed(e.id))
  BY <1>1 DEF IInv, Honest, EventsHonest
<1> HIDE DEF e
<1>4. EventsHonest'
  <2>1. ASSUME NEW i \in DOMAIN feed', NEW g, g = feed'[i], g.type = "diff_completed"
        PROVE  g.id \in Runs /\ (g.status = "PASSED" => Passed(g.id)')
    <3>1. g.id \in Runs /\ (g.status = "PASSED" => Passed(g.id))
      BY <1>1, <2>1 DEF IInv, Honest, EventsHonest
    <3> QED
      BY <3>1 DEF Passed
  <2> QED
    BY <2>1 DEF EventsHonest, Passed
<1>5. Panels' /\ ShownHonest' /\ diffId' \in Runs \cup {None}
  <2>1. CASE UNCHANGED shown
    BY <2>1, SameShown DEF IInv, Types, Honest, ShownHonest, Passed
  <2>2. CASE ShowOverridden
    BY <2>2, Overridden DEF IInv, Types
  <2>3. CASE ShowCreated
    BY <2>3 DEF ShowCreated, IInv, Types, Panels, PanelsAgree, Blocked, Honest, ShownHonest, Passed
  <2>4. CASE e.type = "diff_completed" /\ ShowCompleted(e)
    <3>1. /\ diffId' = e.id /\ changes' = e.id /\ e.id \in Runs /\ e.id # None
          /\ diffStatus' = e.status
      BY <1>3, <2>4, ConstantsAssumption DEF ShowCompleted, Runs
    <3>2. Panels'
      BY <2>4, <3>1 DEF ShowCompleted, Panels, PanelsAgree, Blocked
    <3>3. ShownHonest'
      BY <1>3, <2>4, <3>1 DEF ShownHonest, Passed
    <3> QED
      BY <3>1, <3>2, <3>3
  <2> QED
    BY <2>1, <2>2, <2>3, <2>4 DEF e
<1>6. Types'
  BY <1>1, <1>5 DEF IInv, Types
<1>7. OneFlight'
  BY DEF IInv, OneFlight
<1>8. Fresh'
  BY <1>2 DEF IInv, Fresh
<1> QED
  BY <1>4, <1>5, <1>6, <1>7, <1>8 DEF IInv, Honest

LEMMA OverrideAnsweredInv ==
    ASSUME IInv, NEW f \in flights, OverrideAnswered(f)
    PROVE  IInv'
<1> USE DEF OverrideAnswered, server
<1>1. CASE f.stage # "ok"
  BY <1>1, FinishInv
<1>2. CASE f.stage = "ok"
  <2>1. OneFlight' /\ flights' = {} /\ submitting' \in BOOLEAN
    BY Finished
  <2>2. Panels' /\ ShownHonest' /\ diffId' = diffId
    BY <1>2, Overridden
  <2>3. Types'
    BY <2>1, <2>2 DEF IInv, Types
  <2>4. Fresh'
    BY <2>1, <2>2 DEF IInv, Fresh
  <2>5. EventsHonest'
    BY DEF IInv, Honest, EventsHonest, Passed
  <2> QED
    BY <2>1, <2>2, <2>3, <2>4, <2>5 DEF IInv, Honest
<1> QED
  BY <1>1, <1>2

\* The upload that follows the project is the sandbox's first.
LEMMA ProjectAnsweredInv ==
    ASSUME IInv, NEW f \in flights, ProjectAnswered(f)
    PROVE  IInv'
<1> USE DEF ProjectAnswered, Answered, server
<1>1. CASE f.stage # "ok"
  BY <1>1, FinishInv
<1>2. CASE f.stage = "ok"
  <2>1. PICK d \in SandboxRuns : Land(f, Flight("diff", d, "sent"))
    BY <1>2
  <2> DEFINE g == Flight("diff", d, "sent")
  <2>2. g \in FlightType /\ g.op = "diff" /\ g.run = d
    BY FlightTyped, FlightFields DEF Ops, Runs
  <2> HIDE DEF g
  <2>3. Land(f, g)
    BY <2>1 DEF g
  <2>4. OneFlight' /\ flights' = {g}
    BY <1>2, <2>2, <2>3, Landed
  <2>5. created /\ \A r \in SandboxRuns : ledger[r] = "none"
    BY <1>2 DEF IInv, Fresh
  <2>6. Fresh'
    BY <2>4, <2>5 DEF Fresh
  <2>7. Types'
    BY <1>2 DEF IInv, Types, shown
  <2>8. Panels'
    BY SameShown
  <2>9. Honest'
    BY SameServer DEF shown
  <2> QED
    BY <2>4, <2>6, <2>7, <2>8, <2>9 DEF IInv
<1> QED
  BY <1>1, <1>2

LEMMA CodeAnsweredInv ==
    ASSUME IInv, NEW f \in flights, CodeAnswered(f)
    PROVE  IInv'
<1> USE DEF CodeAnswered, page, server
<1> DEFINE g == Flight("timer", None, "sent")
<1>1. g \in FlightType /\ g.op = "timer"
  BY FlightTyped, FlightFields DEF Ops
<1> HIDE DEF g
<1>2. Land(f, g)
  BY DEF g
<1>3. OneFlight' /\ flights' = {g}
  BY <1>1, <1>2, Landed
<1>4. Types'
  BY DEF IInv, Types, shown
<1>5. Panels'
  BY SameShown
<1>6. Fresh'
  <2>1. g.stage # "ok"
    BY FlightFields DEF g
  <2> QED
    BY <1>1, <1>3, <2>1 DEF IInv, Fresh, shown
<1>7. Honest'
  BY SameServer DEF shown
<1> QED
  BY <1>3, <1>4, <1>5, <1>6, <1>7 DEF IInv

\* The sample is shown as failed, and is listed as the changes.
LEMMA TimerFiresInv ==
    ASSUME IInv, NEW f \in flights, TimerFires(f)
    PROVE  IInv'
<1> USE DEF TimerFires, server
<1>1. OneFlight' /\ flights' = {} /\ submitting' \in BOOLEAN
  BY Finished
<1>2. Types'
  BY <1>1 DEF IInv, Types
<1>3. Panels'
  BY ConstantsAssumption DEF Panels, PanelsAgree, Blocked
<1>4. Fresh'
  BY <1>1 DEF IInv, Fresh
<1>5. EventsHonest'
  BY DEF IInv, Honest, EventsHonest, Passed
<1>6. ShownHonest'
  BY DEF ShownHonest
<1> QED
  BY <1>1, <1>2, <1>3, <1>4, <1>5, <1>6 DEF IInv, Honest

-----------------------------------------------------------------------------

LEMMA SettleInv ==
    ASSUME IInv, NEW f \in flights, Settle(f)
    PROVE  IInv'
<1>1. CASE Serve(f)
  BY <1>1, ServeOverrideInv, ServeProjectInv, ServeUploadInv, FailInv DEF Serve
<1>2. CASE UploadAnswered(f)
  BY <1>2, FinishInv DEF UploadAnswered, server
<1> QED
  BY <1>1, <1>2, OverrideAnsweredInv, CodeAnsweredInv DEF Settle

LEMMA TextlessInv ==
    ASSUME IInv, Textless
    PROVE  IInv'
<1>1. ASSUME NEW d \in Runs, Complete(d) \/ OverrideElsewhere(d)
      PROVE  IInv'
  BY <1>1, CompleteInv, OverrideElsewhereInv
<1>2. CASE Reconnect \/ OpenModal \/ CloseModal \/ FillIn
  BY <1>2, QuietInv DEF Reconnect, OpenModal, CloseModal, FillIn, shown, server
<1>3. ASSUME NEW v \in Views, SetView(v)
      PROVE  IInv'
  BY <1>3, QuietInv DEF SetView
<1>4. CASE handleOverride
  <2>1. diffId \in Runs /\ created
    BY <1>4 DEF handleOverride, IInv, Types, Fresh
  <2> QED
    BY <1>4, <2>1, SubmitInv DEF handleOverride, canSubmit
<1>5. ASSUME NEW f \in flights, Settle(f)
      PROVE  IInv'
  BY <1>5, SettleInv
<1> QED
  BY <1>1, <1>2, <1>3, <1>4, <1>5, OnMessageInv DEF Textless

LEMMA NextInv == IInv /\ [Next]_vars => IInv'
<1> SUFFICES ASSUME IInv, [Next]_vars PROVE IInv'
  OBVIOUS
<1>1. ASSUME NEW op \in {"project", "code"}, executeSandboxDiff(op)
      PROVE  IInv'
  BY <1>1, SubmitInv DEF executeSandboxDiff
<1>2. ASSUME NEW f \in flights, ProjectAnswered(f) \/ TimerFires(f)
      PROVE  IInv'
  BY <1>2, ProjectAnsweredInv, TimerFiresInv
<1>3. CASE UNCHANGED vars
  BY <1>3, QuietInv DEF vars, page
<1> QED
  BY <1>1, <1>2, <1>3, TextlessInv DEF Next

-----------------------------------------------------------------------------

(***************************************************************************)
(* One submission at a time (isSubmitting of App.tsx), through the two     *)
(* requests of the sandbox and through its timer.                          *)
(***************************************************************************)
THEOREM SubmissionsAreOne == Spec => []OneSubmission
  BY InitInv, NextInv, InvOneSubmission, PTL DEF Spec

(***************************************************************************)
(* The light, the status and the changes on show agree (onmessage,         *)
(* handleOverride and the timer of executeSandboxDiff).                    *)
(***************************************************************************)
THEOREM PanelsInAgreement == Spec => []PanelsAgree
<1>1. IInv => PanelsAgree
  BY DEF IInv, Panels
<1> QED
  BY InitInv, NextInv, <1>1, PTL DEF Spec

(***************************************************************************)
(* A run shown as PASSED passed: the page hears of it only in an event,    *)
(* late or in place of a missed one, and a recorded run stays recorded.    *)
(***************************************************************************)
THEOREM GreenHonest == Spec => []GreenIsHonest
  BY InitInv, NextInv, InvGreen, PTL DEF Spec

-----------------------------------------------------------------------------
(* The sandbox.                                                            *)

\* A code audit is under way: its request or its timer.
Auditing == \E f \in flights : f.op \in {"code", "timer"}

Creating == \E f \in flights : f.op = "project"

(***************************************************************************)
(* What the handler of the last click holds is what the editors held, and  *)
(* it is of the kind of the flight: so an upload makes the last request    *)
(* one of specs, and a timer reports the code that was sent.               *)
(***************************************************************************)
TakenAtClick == taken = atClick

TakenMatches ==
    /\ Auditing => sent = taken
    /\ Creating => taken.mode = "OPENAPI"

FindingMatches ==
    changes = "sample" /\ ~Auditing /\ sent.mode # "OPENAPI" => listed = sent.text["code"]

SInv == IInv /\ TakenAtClick /\ TakenMatches /\ FindingMatches

-----------------------------------------------------------------------------

LEMMA SandboxInitInv == SandboxInit => SInv
<1> SUFFICES ASSUME SandboxInit PROVE SInv
  OBVIOUS
<1>1. IInv
  BY InitInv DEF SandboxInit
<1>2. flights = {} /\ changes # "sample" /\ taken = atClick
  BY ConstantsAssumption DEF SandboxInit, Init
<1> QED
  BY <1>1, <1>2 DEF SInv, TakenAtClick, TakenMatches, FindingMatches, Auditing, Creating

\* Whatever the panel does is a step of the page, or none.
LEMMA SandboxStepIsPageStep == [SandboxNext]_allVars => [Next]_vars
<1> SUFFICES ASSUME [SandboxNext]_allVars PROVE [Next]_vars
  OBVIOUS
<1>1. ASSUME NEW m \in Modes, setSandboxMode(m) \/ loadSample(m)
      PROVE  UNCHANGED vars
  BY <1>1 DEF setSandboxMode, loadSample
<1>2. ASSUME NEW e \in Editors, Type(e) \/ ChooseFile(e)
      PROVE  UNCHANGED vars
  BY <1>2 DEF Type, ChooseFile
<1>3. Clear \/ (\E r \in reads : FileRead(r)) \/ UNCHANGED allVars => UNCHANGED vars
  BY DEF Clear, FileRead, allVars
<1>4. Run => Next
  BY DEF Run, Next
<1>5. ASSUME NEW f \in flights, Upload(f) \/ Report(f)
      PROVE  Next
  BY <1>5 DEF Upload, Report, Next
<1> QED
  BY <1>1, <1>2, <1>3, <1>4, <1>5 DEF SandboxNext, Next

-----------------------------------------------------------------------------
(* The steps of the page that carry no text.                               *)

\* Only the timer lists the sample, and a request under way stays what it is.
LEMMA SettleAudit ==
    ASSUME IInv, NEW f \in flights, Settle(f)
    PROVE  /\ changes' = changes
           /\ Auditing' <=> Auditing
           /\ Creating' => Creating
<1>1. flights = {f} /\ f \in FlightType
  BY DEF IInv, OneFlight
<1>2. ASSUME NEW st, Land(f, [f EXCEPT !.stage = st])
      PROVE  (Auditing' <=> Auditing) /\ (Creating' => Creating)
  <2> DEFINE g == [f EXCEPT !.stage = st]
  <2>1. g.op = f.op
    BY <1>1 DEF FlightType
  <2> HIDE DEF g
  <2>2. flights' = {g}
    BY <1>1, <1>2 DEF Land, g
  <2> QED
    BY <1>1, <2>1, <2>2 DEF Auditing, Creating
<1>3. CASE Serve(f)
  <2>1. UNCHANGED page /\ \E st : Land(f, [f EXCEPT !.stage = st])
    BY <1>3 DEF Serve, ServeOverride, ServeProject, ServeUpload, Fail
  <2> QED
    BY <1>2, <2>1 DEF page, shown
<1>4. CASE OverrideAnswered(f) \/ UploadAnswered(f)
  <2>1. flights' = {} /\ changes' = changes /\ f.op \in {"override", "diff"}
    BY <1>1, <1>4 DEF OverrideAnswered, UploadAnswered, Answered, Finish, ShowOverridden, shown
  <2> QED
    BY <1>1, <2>1 DEF Auditing, Creating
<1>5. CASE CodeAnswered(f)
  <2>1. flights' = {Flight("timer", None, "sent")} /\ f.op = "code" /\ changes' = changes
    BY <1>1, <1>5 DEF CodeAnswered, Land, page, shown
  <2> QED
    BY <1>1, <2>1, FlightFields DEF Auditing, Creating
<1> QED
  BY <1>3, <1>4, <1>5 DEF Settle

LEMMA TextlessAudit ==
    ASSUME IInv, Textless
    PROVE  /\ changes' = "sample" => changes = "sample"
           /\ Auditing' <=> Auditing
           /\ Creating' => Creating
<1> USE DEF Auditing, Creating
<1>1. ASSUME NEW d \in Runs, Complete(d) \/ OverrideElsewhere(d)
      PROVE  UNCHANGED <<changes, flights>>
  BY <1>1 DEF Complete, OverrideElsewhere, page, shown
<1>2. CASE Reconnect \/ OpenModal \/ CloseModal \/ FillIn \/ \E v \in Views : SetView(v)
  BY <1>2 DEF Reconnect, OpenModal, CloseModal, FillIn, SetView, shown
<1>3. CASE OnMessage
  <2>1. flights' = flights
    BY <1>3 DEF OnMessage
  <2>2. changes' = changes \/ changes' \in Runs
    <3>1. feed[1] = Head(feed) /\ 1 \in DOMAIN feed
      BY <1>3 DEF OnMessage, IInv, Types
    <3>2. Head(feed).type = "diff_completed" => Head(feed).id \in Runs
      BY <3>1 DEF IInv, Honest, EventsHonest
    <3> QED
      BY <1>3, <3>2 DEF OnMessage, ShowCompleted, ShowOverridden, ShowCreated, shown
  <2> QED
    BY <2>1, <2>2, ConstantsAssumption DEF Runs
<1>4. CASE handleOverride
  <2>1. flights' = {Flight("override", diffId, "sent")} /\ flights = {} /\ changes' = changes
    BY <1>4 DEF handleOverride, canSubmit, Submit, IInv, OneFlight, shown
  <2> QED
    BY <2>1, FlightFields
<1>5. ASSUME NEW f \in flights, Settle(f)
      PROVE  /\ changes' = changes
             /\ Auditing' <=> Auditing
             /\ Creating' => Creating
  BY <1>5, SettleAudit
<1> QED
  BY <1>1, <1>2, <1>3, <1>4, <1>5 DEF Textless

-----------------------------------------------------------------------------
(* The steps of the sandbox.                                               *)

\* The editors fill up, and what was taken from them stays.
LEMMA EditInv ==
    ASSUME SInv, IInv', UNCHANGED <<vars, taken, sent, listed, atClick>>
    PROVE  SInv'
  BY DEF SInv, vars, page, shown, TakenAtClick, TakenMatches, FindingMatches, Auditing, Creating

LEMMA TextlessStepInv ==
    ASSUME SInv, IInv', Textless, UNCHANGED panel
    PROVE  SInv'
<1>1. /\ changes' = "sample" => changes = "sample"
      /\ Auditing' <=> Auditing
      /\ Creating' => Creating
  BY TextlessAudit DEF SInv
<1> QED
  BY <1>1 DEF SInv, panel, TakenAtClick, TakenMatches, FindingMatches

LEMMA RunInv ==
    ASSUME SInv, IInv', Run
    PROVE  SInv'
<1> DEFINE op == IF mode = "OPENAPI" THEN "project" ELSE "code"
<1>1. flights' = {Flight(op, None, "sent")} /\ flights = {} /\ changes' = changes
  BY DEF Run, executeSandboxDiff, Submit, SInv, IInv, OneFlight, shown
<1>2. Flight(op, None, "sent").op = op
  BY FlightFields
<1>3. taken' = Editing /\ atClick' = Editing /\ Editing.mode = mode /\ listed' = listed
  BY DEF Run, Editing
<1>4. CASE mode = "OPENAPI"
  <2>1. sent' = sent /\ ~Auditing /\ ~Auditing'
    BY <1>1, <1>2, <1>4 DEF Run, Auditing
  <2> QED
    BY <1>1, <1>3, <1>4, <2>1 DEF SInv, TakenAtClick, TakenMatches, FindingMatches
<1>5. CASE mode # "OPENAPI"
  <2>1. sent' = Editing /\ Auditing' /\ ~Creating'
    BY <1>1, <1>2, <1>5 DEF Run, Auditing, Creating
  <2> QED
    BY <1>3, <2>1 DEF SInv, TakenAtClick, TakenMatches, FindingMatches
<1> QED
  BY <1>4, <1>5

LEMMA UploadInv ==
    ASSUME SInv, IInv', NEW f \in flights, Upload(f)
    PROVE  SInv'
<1>1. flights = {f} /\ f.op = "project" /\ taken.mode = "OPENAPI"
  BY DEF Upload, ProjectAnswered, Answered, SInv, IInv, OneFlight, TakenMatches, Creating
<1>2. changes' = changes /\ taken' = taken /\ atClick' = atClick /\ listed' = listed
  BY DEF Upload, ProjectAnswered, shown
<1>3. ~Auditing /\ ~Auditing' /\ ~Creating'
  <2>1. CASE f.stage = "ok"
    <3>1. PICK d : flights' = {Flight("diff", d, "sent")}
      BY <1>1, <2>1 DEF Upload, ProjectAnswered, Land
    <3> QED
      BY <1>1, <3>1, FlightFields DEF Auditing, Creating
  <2>2. CASE f.stage # "ok"
    BY <1>1, <2>2 DEF Upload, ProjectAnswered, Finish, Auditing, Creating
  <2> QED
    BY <2>1, <2>2
<1>4. sent' = sent \/ sent'.mode = "OPENAPI"
  BY <1>1 DEF Upload, Uploaded
<1> QED
  BY <1>2, <1>3, <1>4 DEF SInv, TakenAtClick, TakenMatches, FindingMatches

LEMMA ReportInv ==
    ASSUME SInv, IInv', NEW f \in flights, Report(f)
    PROVE  SInv'
<1>1. flights = {f} /\ flights' = {} /\ sent = taken
  BY DEF Report, TimerFires, Finish, SInv, IInv, OneFlight, TakenMatches, Auditing
<1>2. listed' = sent'.text["code"] /\ sent' = sent /\ taken' = taken /\ atClick' = atClick
  BY <1>1 DEF Report, Reported
<1> QED
  BY <1>1, <1>2 DEF SInv, TakenAtClick, TakenMatches, FindingMatches, Auditing, Creating

LEMMA SandboxNextInv == SInv /\ [SandboxNext]_allVars => SInv'
<1> SUFFICES ASSUME SInv, [SandboxNext]_allVars PROVE SInv'
  OBVIOUS
<1>1. IInv'
  BY SandboxStepIsPageStep, NextInv DEF SInv
<1>2. ASSUME NEW m \in Modes, setSandboxMode(m) \/ loadSample(m)
      PROVE  SInv'
  BY <1>1, <1>2, EditInv DEF setSandboxMode, loadSample
<1>3. ASSUME NEW e \in Editors, Type(e) \/ ChooseFile(e)
      PROVE  SInv'
  BY <1>1, <1>3, EditInv DEF Type, ChooseFile
<1>4. CASE Clear \/ (\E r \in reads : FileRead(r)) \/ UNCHANGED allVars
  BY <1>1, <1>4, EditInv DEF Clear, FileRead, allVars, panel
<1>5. ASSUME NEW f \in flights, Upload(f) \/ Report(f)
      PROVE  SInv'
  BY <1>1, <1>5, UploadInv, ReportInv
<1> QED
  BY <1>1, <1>2, <1>3, <1>4, <1>5, TextlessStepInv, RunInv DEF SandboxNext

-----------------------------------------------------------------------------

(***************************************************************************)
(* The code on the left of a finding is the code that was audited (the     *)
(* closure of executeSandboxDiff holds it through the fetch and the timer).*)
(***************************************************************************)
THEOREM FindingsQuoteTheAudit == SandboxSpec => []FindingQuotesTheAudit
<1>1. SInv => FindingQuotesTheAudit
  <2> SUFFICES ASSUME SInv, activeDiff, ~submitting PROVE ~Auditing /\ changes = "sample"
    BY DEF SInv, FindingMatches, FindingQuotesTheAudit
  <2> QED
    BY DEF SInv, IInv, OneFlight, Auditing, activeDiff
<1> QED
  BY SandboxInitInv, SandboxNextInv, <1>1, PTL DEF SandboxSpec

(***************************************************************************)
(* A request carries the texts of its click, also the upload that is made  *)
(* after the project was (executeSandboxDiff).                             *)
(***************************************************************************)
THEOREM AuditsClicked == SandboxSpec => AuditsAreAsClicked
<1>1. ASSUME SInv, [SandboxNext]_allVars
      PROVE  [sent' # sent => sent' = atClick']_allVars
  <2>1. ASSUME NEW m \in Modes, setSandboxMode(m) \/ loadSample(m)
        PROVE  sent' = sent
    BY <2>1 DEF setSandboxMode, loadSample
  <2>2. ASSUME NEW e \in Editors, Type(e) \/ ChooseFile(e)
        PROVE  sent' = sent
    BY <2>2 DEF Type, ChooseFile
  <2>3. CASE Clear \/ (\E r \in reads : FileRead(r)) \/ UNCHANGED panel
    BY <2>3 DEF Clear, FileRead, panel
  <2>4. CASE Run
    BY <2>4 DEF Run
  <2>5. ASSUME NEW f \in flights, Upload(f) \/ Report(f)
        PROVE  sent' # sent => sent' = atClick'
    BY <1>1, <2>5 DEF Upload, Uploaded, Report, SInv, TakenAtClick
  <2> QED
    BY <1>1, <2>1, <2>2, <2>3, <2>4, <2>5 DEF SandboxNext
<1> QED
  BY SandboxInitInv, SandboxNextInv, <1>1, PTL DEF SandboxSpec, AuditsAreAsClicked
=============================================================================
