------------------------------ MODULE Sandbox -------------------------------
(***************************************************************************)
(* The sandbox (viewer/src/components/InteractiveSandbox.tsx with          *)
(* executeSandboxDiff and loadSample of App.tsx): three editors that the   *)
(* operator, a sample, or a file read in the background fills while a      *)
(* submission of Viewer is under way, and the pane that shows a finding.   *)
(*                                                                         *)
(* The state of the editors is App's, so it outlives the panel, and the    *)
(* handler of a click works on the texts of the render it was made in.     *)
(***************************************************************************)
EXTENDS Viewer

CONSTANTS
    CodeModes,  \* sandbox modes that audit code: PYTHON, GO, TYPESCRIPT
    Texts,      \* what an operator types or a file holds
    MaxFills    \* bound on how often an editor is filled

Blank  == "blank"
Sample == "sample of the menu"

ASSUME TextsAssumption ==
    /\ "OPENAPI" \notin CodeModes
    /\ {Blank, Sample} \cap Texts = {}
    /\ MaxFills \in Nat

VARIABLES
    mode,       \* sandboxMode
    text,       \* sandboxBase, sandboxTarget and sourceCode
    reads,      \* files that a FileReader is reading, with the editor each is for
    taken,      \* the mode and texts the handler of the last click works on
    sent,       \* the last request that carried texts: its mode and texts
    listed,     \* the code that the sample finding quotes (oldCode)
    atClick,    \* the editors at the last click, kept for the properties only
    fills       \* fills so far

panel == <<mode, text, reads, taken, sent, listed, atClick, fills>>
allVars == <<vars, panel>>

Editors  == {"base", "target", "code"}
Modes    == {"OPENAPI"} \cup CodeModes
Contents == Texts \cup {Blank, Sample}

SandboxInit ==
    /\ Init
    /\ mode = "OPENAPI"
    /\ text = [e \in Editors |-> Sample]
    /\ reads = {} /\ fills = 0
    /\ taken = [mode |-> mode, text |-> text] /\ sent = taken /\ atClick = taken
    /\ listed = Blank

-----------------------------------------------------------------------------
(* The panel.                                                              *)

\* activeDiff: in a code mode, a listed change that has the old and the new code.
activeDiff == mode # "OPENAPI" /\ changes = "sample" /\ listed # Blank

OnShow == view = "SANDBOX" /\ ~modal

Fill(filled) ==
    /\ fills < MaxFills /\ fills' = fills + 1
    /\ text' = filled

setSandboxMode(m) ==
    /\ OnShow /\ mode # m
    /\ mode' = m
    /\ UNCHANGED <<vars, text, reads, taken, sent, listed, atClick, fills>>

\* A sample brings its mode; the editors of the other modes keep their texts.
loadSample(m) ==
    /\ OnShow
    /\ mode' = m
    /\ Fill([e \in Editors |-> IF (e = "code") = (m # "OPENAPI") THEN Sample ELSE text[e]])
    /\ UNCHANGED <<vars, reads, taken, sent, listed, atClick>>

\* Clear leaves the mode and the findings.
Clear ==
    /\ OnShow
    /\ Fill([e \in Editors |-> Blank])
    /\ UNCHANGED <<vars, mode, reads, taken, sent, listed, atClick>>

\* The editors of the mode; the code has one, though the pane may show a diff.
Pane == IF mode = "OPENAPI" THEN {"base", "target"} ELSE {"code"}

\* While activeDiff is there, a read-only diff is in the place of the textarea.
Type(e) ==
    /\ OnShow /\ e \in Pane /\ ~activeDiff
    /\ \E t \in Texts : Fill([text EXCEPT ![e] = t])
    /\ UNCHANGED <<vars, mode, reads, taken, sent, listed, atClick>>

\* handleFileUpload and handleDrop: the reader ends later, wherever the page is.
ChooseFile(e) ==
    /\ OnShow /\ e \in Pane /\ reads = {}
    /\ \E t \in Texts : reads' = {[editor |-> e, text |-> t]}
    /\ UNCHANGED <<vars, mode, text, taken, sent, listed, atClick, fills>>

FileRead(r) ==
    /\ Fill([text EXCEPT ![r.editor] = r.text])
    /\ reads' = reads \ {r}
    /\ UNCHANGED <<vars, mode, taken, sent, listed, atClick>>

-----------------------------------------------------------------------------
(* executeSandboxDiff, with the texts it carries.                          *)

Editing == [mode |-> mode, text |-> text]

\* The code is sent at once.
Run ==
    /\ executeSandboxDiff(IF mode = "OPENAPI" THEN "project" ELSE "code")
    /\ taken' = Editing /\ atClick' = Editing
    /\ sent' = IF mode = "OPENAPI" THEN sent ELSE Editing
    /\ UNCHANGED <<mode, text, reads, listed, fills>>

\* Mutant: the handler reads the editors after the await.
UploadedNow == Editing

\* The texts of the render that the click was made in.
Uploaded == taken

\* The form data of the upload are made after the project is there.
Upload(f) ==
    /\ ProjectAnswered(f)
    /\ sent' = IF f.stage = "ok" THEN Uploaded ELSE sent
    /\ UNCHANGED <<mode, text, reads, taken, listed, atClick, fills>>

\* Mutant: the timer reads the editor when it fires.
ReportedNow == text["code"]

Reported == taken.text["code"]

Report(f) ==
    /\ TimerFires(f)
    /\ listed' = Reported
    /\ UNCHANGED <<mode, text, reads, taken, sent, atClick, fills>>

SandboxNext ==
    \/ Textless /\ UNCHANGED panel
    \/ \E m \in Modes : setSandboxMode(m) \/ loadSample(m)
    \/ Clear
    \/ \E e \in Editors : Type(e) \/ ChooseFile(e)
    \/ \E r \in reads : FileRead(r)
    \/ Run
    \/ \E f \in flights : Upload(f) \/ Report(f)

SandboxSpec == SandboxInit /\ [][SandboxNext]_allVars

\* As in Viewer: the browser runs its callbacks, and every fetch ends one day.
SandboxFairness ==
    /\ WF_allVars(Reconnect /\ UNCHANGED panel) /\ WF_allVars(OnMessage /\ UNCHANGED panel)
    /\ \A f \in Flights :
          WF_allVars(/\ f \in flights
                     /\ \/ Upload(f) \/ Report(f)
                        \/ Settle(f) /\ UNCHANGED panel)

FairSandboxSpec == SandboxSpec /\ SandboxFairness

-----------------------------------------------------------------------------
(* Properties.                                                             *)

(***************************************************************************)
(* What a click audits is what the editors held at that click, together:   *)
(* two specs that are uploaded after the project was made, while samples,  *)
(* files and the operator went on filling the editors, belong together.    *)
(***************************************************************************)
AuditsAreAsClicked == [][sent' # sent => sent' = atClick']_allVars

(***************************************************************************)
(* A diff in the place of the code editor has on its left the code that    *)
(* the last audit sent to the server, whatever was filled in meanwhile and *)
(* however the answer and the timer came.                                  *)
(***************************************************************************)
FindingQuotesTheAudit ==
    activeDiff /\ ~submitting /\ sent.mode # "OPENAPI" => listed = sent.text["code"]

(***************************************************************************)
(* A code audit that was clicked ends in a finding, also when the request  *)
(* fails, when the operator leaves the sandbox, or when an event takes the *)
(* page to the monitor before the timer.                                   *)
(***************************************************************************)
AuditsReport == (\E f \in flights : f.op = "code") ~> changes = "sample"
=============================================================================
