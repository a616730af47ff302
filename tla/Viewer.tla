------------------------------- MODULE Viewer -------------------------------
(***************************************************************************)
(* The dashboard (viewer/src/App.tsx with CIMonitor and OverrideModal):    *)
(* one browser page whose React state is written by the events of its      *)
(* EventSource, by the answers to its requests, by a timer and by the      *)
(* operator, in whatever order they come.                                  *)
(*                                                                         *)
(* The server is what the page can tell of it: a ledger of the runs of the *)
(* sandbox's project, and the events of that project and of "default" on   *)
(* their way to the page, in order, any of which it may miss (EventFeed).  *)
(***************************************************************************)
EXTENDS Naturals, Sequences, FiniteSets

CONSTANTS
    CiRuns,         \* runs that pipelines start in the sandbox's project
    SandboxRuns,    \* runs that the sandbox starts
    SandboxProject,
    Views,          \* views that the header offers in the instance
    MaxClicks,      \* bound on the submissions of the operator
    None            \* no run

ASSUME ConstantsAssumption ==
    /\ CiRuns \cap SandboxRuns = {} /\ {None, "sample"} \cap (CiRuns \cup SandboxRuns) = {}
    /\ None \notin {"sample", "PASSED", "FAILED"}
    /\ SandboxProject # "default"
    /\ {"MONITOR", "SANDBOX"} \subseteq Views
    /\ Views \subseteq {"MONITOR", "SANDBOX", "PROMPT", "AUDIT", "WEBHOOK"}
    /\ MaxClicks \in Nat

VARIABLES
    project,    \* currentProjectId
    source,     \* the project and view the open EventSource was made in
    view,       \* viewMode
    status,     \* the light of the header
    diffId, diffStatus,
    changes,    \* the run whose changes are listed
    modal,      \* showModal
    note,       \* overrideNote is not blank
    acks,       \* both boxes of the modal are ticked
    submitting, \* isSubmitting
    feed,       \* events put on the broker's channel that no page has handled
    flights,    \* requests and timers under way
    clicks,     \* submissions so far
    ledger,     \* ledger[d]: the status of run d in diff_runs
    created     \* the sandbox's project is there

shown  == <<status, diffId, diffStatus, changes>>
form   == <<modal, note, acks>>
page   == <<project, source, view, shown, form, submitting>>
server == <<feed, ledger, created>>
vars   == <<page, flights, clicks, server>>

Runs     == CiRuns \cup SandboxRuns
Projects == {"default", SandboxProject}

Event(p, type, d, s) == [project |-> p, type |-> type, id |-> d, status |-> s]

Flight(op, d, stage) == [op |-> op, run |-> d, stage |-> stage]

\* The page as it loads; an earlier page may have created the project.
Init ==
    /\ project = "default" /\ view = "MONITOR"
    /\ source = [project |-> "default", view |-> "MONITOR"]
    /\ status = "SAFE" /\ diffId = None /\ diffStatus = None /\ changes = None
    /\ modal = FALSE /\ note = FALSE /\ acks = FALSE /\ submitting = FALSE
    /\ flights = {} /\ clicks = 0
    /\ feed = <<>> /\ ledger = [d \in Runs |-> "none"] /\ created \in BOOLEAN

-----------------------------------------------------------------------------
(* The server.                                                             *)

Put(event) == feed' = Append(feed, event)

\* A worker records a run, of a pipeline or of the sandbox, and announces it.
Complete(d) ==
    /\ created /\ ledger[d] = IF d \in CiRuns THEN "none" ELSE "queued"
    /\ \E s \in {"PASSED", "FAILED"} :
          /\ ledger' = [ledger EXCEPT ![d] = s]
          /\ Put(Event(SandboxProject, "diff_completed", d, s))
    /\ UNCHANGED <<page, flights, clicks, created>>

\* The event goes to "default" when the run is not read back.
Override(d) ==
    /\ ledger' = [ledger EXCEPT ![d] = "OVERRIDDEN"]
    /\ \E p \in Projects : Put(Event(p, "diff_overridden", d, "OVERRIDDEN"))
    /\ UNCHANGED created

OverrideElsewhere(d) ==
    /\ ledger[d] \in {"PASSED", "FAILED"}
    /\ Override(d)
    /\ UNCHANGED <<page, flights, clicks>>

Land(f, g) == flights' = (flights \ {f}) \cup {g}

ServeOverride(f) ==
    /\ f.op = "override" /\ f.stage = "sent"
    /\ Override(f.run)
    /\ Land(f, [f EXCEPT !.stage = "ok"])
    /\ UNCHANGED <<page, clicks>>

\* projects.name is UNIQUE: the sandbox's project is created once.
ServeProject(f) ==
    /\ f.op = "project" /\ f.stage = "sent"
    /\ ~created /\ created' = TRUE
    /\ Put(Event(SandboxProject, "project_created", None, None))
    /\ Land(f, [f EXCEPT !.stage = "ok"])
    /\ UNCHANGED <<page, clicks, ledger>>

ServeUpload(f) ==
    /\ f.op = "diff" /\ f.stage = "sent"
    /\ ledger' = [ledger EXCEPT ![f.run] = "queued"]
    /\ Land(f, [f EXCEPT !.stage = "ok"])
    /\ UNCHANGED <<page, clicks, feed, created>>

\* A request is refused, or its answer is lost.
Fail(f) ==
    /\ f.op # "timer" /\ f.stage # "failed"
    /\ Land(f, [f EXCEPT !.stage = "failed"])
    /\ UNCHANGED <<page, clicks, server>>

-----------------------------------------------------------------------------
(* The EventSource.                                                        *)

\* useEffect on [viewMode, currentProjectId]: close the source and open another.
Reconnect ==
    /\ source # [project |-> project, view |-> view]
    /\ source' = [project |-> project, view |-> view]
    /\ UNCHANGED <<project, view, shown, form, submitting, flights, clicks, server>>

\* Mutant: the completed run is shown without the light of the header.
ShowCompletedUnlit(e) ==
    /\ diffId' = e.id /\ diffStatus' = e.status /\ changes' = e.id
    /\ UNCHANGED status
    /\ view' = IF source.view = "SANDBOX" THEN "MONITOR" ELSE view

\* Mutant: the run of an open modal keeps its id when another completes.
ShowCompletedKeepingId(e) ==
    /\ diffId' = IF modal THEN diffId ELSE e.id
    /\ diffStatus' = e.status /\ changes' = e.id
    /\ status' = IF e.status = "FAILED" THEN "BREAKING" ELSE "SAFE"
    /\ view' = IF source.view = "SANDBOX" THEN "MONITOR" ELSE view

\* diff_completed; viewMode is what it was when the source was opened.
ShowCompleted(e) ==
    /\ diffId' = e.id /\ diffStatus' = e.status /\ changes' = e.id
    /\ status' = IF e.status = "FAILED" THEN "BREAKING" ELSE "SAFE"
    /\ view' = IF source.view = "SANDBOX" THEN "MONITOR" ELSE view

\* diff_overridden, and the answer of handleOverride.
ShowOverridden ==
    /\ status' = "WARNING" /\ diffStatus' = "OVERRIDDEN"
    /\ UNCHANGED <<diffId, changes>>

\* project_created.
ShowCreated == status' = "SAFE" /\ UNCHANGED <<diffId, diffStatus, changes>>

\* The next event reaches the source open for its project, or is missed.
OnMessage ==
    /\ feed # <<>> /\ feed' = Tail(feed)
    /\ LET e == Head(feed)
       IN  \/ /\ e.project = source.project
              /\ \/ e.type = "diff_completed"  /\ ShowCompleted(e)
                 \/ e.type = "diff_overridden" /\ ShowOverridden /\ UNCHANGED view
                 \/ e.type = "project_created" /\ ShowCreated /\ UNCHANGED view
           \/ UNCHANGED <<shown, view>>
    /\ UNCHANGED <<project, source, form, submitting, flights, clicks, ledger, created>>

-----------------------------------------------------------------------------
(* The operator.                                                           *)

\* The modal covers the page, so the views change only without it.
SetView(v) ==
    /\ ~modal /\ view # v
    /\ view' = v
    /\ UNCHANGED <<project, source, shown, form, submitting, flights, clicks, server>>

\* The panel "Pipeline Blocked" and its button are there for a failed run.
Blocked == view = "MONITOR" /\ diffStatus = "FAILED"

OpenModal ==
    /\ ~modal /\ Blocked
    /\ modal' = TRUE
    /\ UNCHANGED <<project, source, view, shown, note, acks, submitting, flights, clicks, server>>

\* The boxes are state of the modal and go with it; the note stays.
CloseModal ==
    /\ modal
    /\ modal' = FALSE /\ acks' = FALSE
    /\ UNCHANGED <<project, source, view, shown, note, submitting, flights, clicks, server>>

FillIn ==
    /\ modal
    /\ \/ note' = ~note /\ UNCHANGED acks
       \/ acks' = ~acks /\ UNCHANGED note
    /\ UNCHANGED <<project, source, view, shown, modal, submitting, flights, clicks, server>>

\* Mutant: canSubmit without isSubmitting.
canSubmitTwice == note /\ acks

canSubmit == note /\ acks /\ ~submitting

Submit(f) ==
    /\ clicks < MaxClicks
    /\ clicks' = clicks + 1
    /\ submitting' = TRUE
    /\ flights' = flights \cup {f}

\* handleOverride, up to its fetch: it names the run on show now.
handleOverride ==
    /\ modal /\ canSubmit /\ diffId # None
    /\ Submit(Flight("override", diffId, "sent"))
    /\ UNCHANGED <<project, source, view, shown, form, server>>

\* executeSandboxDiff, up to its first fetch: of a project, or of the code.
executeSandboxDiff(op) ==
    /\ view = "SANDBOX" /\ ~modal /\ ~submitting
    /\ Submit(Flight(op, None, "sent"))
    /\ UNCHANGED <<project, source, view, shown, form, server>>

-----------------------------------------------------------------------------
(* The answers.                                                            *)

Answered(f, op) == f.op = op /\ f.stage # "sent"

\* Mutant: the flag is reset on success only.
FinishOk(f) == flights' = flights \ {f} /\ submitting' = (f.stage = "failed")

\* finally { setIsSubmitting(false) }
Finish(f) == flights' = flights \ {f} /\ submitting' = FALSE

OverrideAnswered(f) ==
    /\ Answered(f, "override")
    /\ Finish(f)
    /\ IF f.stage = "ok"
       THEN modal' = FALSE /\ acks' = FALSE /\ note' = FALSE /\ ShowOverridden
       ELSE UNCHANGED <<form, shown>>
    /\ UNCHANGED <<project, source, view, clicks, server>>

\* The project of the answer becomes the current one, and the upload follows.
ProjectAnswered(f) ==
    /\ Answered(f, "project")
    /\ IF f.stage = "ok"
       THEN /\ project' = SandboxProject
            /\ \E d \in SandboxRuns : Land(f, Flight("diff", d, "sent"))
            /\ UNCHANGED submitting
       ELSE Finish(f) /\ UNCHANGED project
    /\ UNCHANGED <<source, view, shown, form, clicks, server>>

UploadAnswered(f) ==
    /\ Answered(f, "diff")
    /\ Finish(f)
    /\ UNCHANGED <<project, source, view, shown, form, clicks, server>>

\* Mutant: a request that fails starts no timer.
CodeAnsweredOk(f) ==
    /\ f.op = "code" /\ f.stage \in {"sent", "failed"}
    /\ IF f.stage = "sent" THEN Land(f, Flight("timer", None, "sent")) /\ UNCHANGED submitting
                           ELSE Finish(f)
    /\ UNCHANGED <<project, source, view, shown, form, clicks, server>>

\* The code modes start a timer of 600 ms, whatever the answer was.
CodeAnswered(f) ==
    /\ f.op = "code" /\ f.stage \in {"sent", "failed"}
    /\ Land(f, Flight("timer", None, "sent"))
    /\ UNCHANGED <<page, clicks, server>>

\* Its callback shows the sample as FAILED; diffId stays what it was.
TimerFires(f) ==
    /\ f.op = "timer"
    /\ diffStatus' = "FAILED" /\ status' = "BREAKING" /\ changes' = "sample"
    /\ Finish(f)
    /\ UNCHANGED <<project, source, view, diffId, form, clicks, server>>

Serve(f) == ServeOverride(f) \/ ServeProject(f) \/ ServeUpload(f) \/ Fail(f)

\* The steps of a request that carry no text of the sandbox's editors.
Settle(f) == Serve(f) \/ OverrideAnswered(f) \/ UploadAnswered(f) \/ CodeAnswered(f)

Textless ==
    \/ \E d \in Runs : Complete(d) \/ OverrideElsewhere(d)
    \/ Reconnect \/ OnMessage
    \/ \E v \in Views : SetView(v)
    \/ OpenModal \/ CloseModal \/ FillIn \/ handleOverride
    \/ \E f \in flights : Settle(f)

Next ==
    \/ Textless
    \/ \E op \in {"project", "code"} : executeSandboxDiff(op)
    \/ \E f \in flights : ProjectAnswered(f) \/ TimerFires(f)

Spec == Init /\ [][Next]_vars

\* React runs effects, the browser its callbacks, and every fetch ends one day.
Flights == {Flight(op, d, st) : op \in {"override", "project", "diff", "code", "timer"},
                                d \in Runs \cup {None}, st \in {"sent", "ok", "failed"}}

Fairness ==
    /\ WF_vars(Reconnect) /\ WF_vars(OnMessage)
    /\ \A f \in Flights : WF_vars(f \in flights /\ (Settle(f) \/ ProjectAnswered(f) \/ TimerFires(f)))

FairSpec == Spec /\ Fairness

-----------------------------------------------------------------------------
(* Properties.                                                             *)

(***************************************************************************)
(* The one flag that the override and the sandbox share is up exactly      *)
(* while one of them is under way, through every request and the timer of  *)
(* it: no operator signs twice, and none is locked out.                    *)
(***************************************************************************)
OneSubmission == submitting = (flights # {}) /\ Cardinality(flights) <= 1

(***************************************************************************)
(* The light of the header, the panel of the run and the listed changes,   *)
(* each written by events, answers and the timer, never contradict: a lit  *)
(* light is that of the run's status (the news of a project turns it off), *)
(* and the changes are the run's own, or the sample of the sandbox, so     *)
(* that a blocked run always comes with its reasons.                       *)
(***************************************************************************)
PanelsAgree ==
    /\ status = "BREAKING" => diffStatus = "FAILED"
    /\ status = "WARNING"  => diffStatus = "OVERRIDDEN"
    /\ changes \in {diffId, "sample"}
    /\ Blocked => changes # None

\* A run on show as PASSED never is one that the ledger has as failed.
GreenIsHonest == diffStatus = "PASSED" => ledger[diffId] \in {"PASSED", "OVERRIDDEN"}

\* Every submission ends, whatever fails, and gives the buttons back.
SubmissionsEnd == submitting ~> ~submitting
=============================================================================
