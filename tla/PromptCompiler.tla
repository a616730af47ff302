--------------------------- MODULE PromptCompiler ---------------------------
(***************************************************************************)
(* Prompt synthesis: the panel (viewer/src/components/PromptCompiler.tsx   *)
(* with executePrompt and copyToClipboard of App.tsx) over POST            *)
(* /api/prompt, whose handler (internal/api/handlers.go) asks the engine   *)
(* through AnalyzeCode (internal/analyzer/ast.go).                         *)
(*                                                                         *)
(* An order is all that the panel holds: the code, the language and the    *)
(* four boxes.  The state is App's, so it outlives the panel; it is lost   *)
(* when rendering the panel throws, for nothing catches that.              *)
(***************************************************************************)
EXTENDS Naturals, FiniteSets

CONSTANTS
    Orders,     \* what an operator may have in the panel
    Blank,      \* an order without code
    Known,      \* orders whose code the fallback of AnalyzeCode recognises
    None,       \* no output, no facts
    MaxClicks,  \* bound on the clicks on "Synthesize Prompt"
    MaxCopies   \* bound on the timers of "Copy" under way

ASSUME ConstantsAssumption ==
    /\ {Blank, None} \cap Orders = {} /\ Known \subseteq Orders
    /\ MaxClicks \in Nat /\ MaxCopies \in Nat

VARIABLES
    order,      \* promptCode, promptLang and the targets
    onShow,     \* viewMode is PROMPT
    prompting,  \* isPrompting
    result,     \* promptResult: the order it is of, and who wrote it
    analysis,   \* astAnalysis: the order it is of, and what it holds
    copied,     \* copySuccess
    timers,     \* timers under way that take copySuccess back
    lost,       \* a render threw and the page is blank
    requests,   \* requests under way
    clicks,     \* clicks so far, the numbers of the requests
    asked       \* the order at the last click, kept for the properties only

page == <<order, onShow, prompting, result, analysis, copied, timers, lost>>
vars == <<page, requests, clicks, asked>>

Output(o, writer)  == [of |-> o, by |-> writer]
Analysis(o, facts) == [of |-> o, facts |-> facts]

Facts == {"found", "sample", "missing"}

ASSUME NoneAssumption == \A o \in Orders, facts \in Facts : Analysis(o, facts) # None

\* state: "sent", "refused", "lost", or the facts of the answer.
Request(n, o, state) == [number |-> n, of |-> o, state |-> state]

\* The page as it loads has a sample in the panel and opens on another view.
Init ==
    /\ order \in Orders /\ onShow = FALSE /\ prompting = FALSE
    /\ result = None /\ analysis = None /\ copied = FALSE /\ timers = 0 /\ lost = FALSE
    /\ requests = {} /\ clicks = 0 /\ asked = Blank

-----------------------------------------------------------------------------
(* The server.                                                             *)

(***************************************************************************)
(* AnalyzeCode: the engine's facts, or without an answer of the engine     *)
(* those of the fallback, or a CodeAnalysis{} whose lists are null in      *)
(* JSON, also when the engine's answer does not parse.                     *)
(***************************************************************************)
AnalyzeCode(o) == {"found", "missing"} \cup IF o \in Known THEN {"sample"} ELSE {}

Settle(q, state) ==
    /\ requests' = (requests \ {q}) \cup {[q EXCEPT !.state = state]}
    /\ UNCHANGED <<page, clicks, asked>>

handleGeneratePrompt(q) ==
    /\ q.state = "sent"
    /\ \E facts \in AnalyzeCode(q.of) : Settle(q, facts)

\* The request is refused, or it or its answer is lost.
Fail(q) ==
    \/ q.state = "sent" /\ Settle(q, "refused")
    \/ q.state # "lost" /\ Settle(q, "lost")

-----------------------------------------------------------------------------
(* The operator.                                                           *)

\* Facts whose lists are null make astAnalysis.dependencies.length throw.
Throws(show, facts) == show /\ facts # None /\ facts.facts = "missing"

SetView ==
    /\ ~lost
    /\ onShow' = ~onShow
    /\ lost' = Throws(onShow', analysis)
    /\ UNCHANGED <<order, prompting, result, analysis, copied, timers, requests, clicks, asked>>

Edit(o) ==
    /\ onShow /\ ~lost /\ o # order
    /\ order' = o
    /\ UNCHANGED <<onShow, prompting, result, analysis, copied, timers, lost, requests, clicks, asked>>

\* Mutant: the button without isPrompting.
canSynthesizeAgain == order # Blank

canSynthesize == ~prompting /\ order # Blank

\* executePrompt, up to its fetch.
executePrompt ==
    /\ onShow /\ ~lost /\ canSynthesize
    /\ clicks < MaxClicks
    /\ clicks' = clicks + 1
    /\ prompting' = TRUE
    /\ asked' = order
    /\ requests' = requests \cup {Request(clicks', order, "sent")}
    /\ UNCHANGED <<order, onShow, result, analysis, copied, timers, lost>>

\* The output has the button; the mark says nothing of the clipboard.
copyToClipboard ==
    /\ onShow /\ ~lost /\ result # None
    /\ timers < MaxCopies
    /\ copied' = TRUE /\ timers' = timers + 1
    /\ UNCHANGED <<order, onShow, prompting, result, analysis, lost, requests, clicks, asked>>

TakeBack ==
    /\ ~lost /\ timers > 0
    /\ copied' = FALSE /\ timers' = timers - 1
    /\ UNCHANGED <<order, onShow, prompting, result, analysis, lost, requests, clicks, asked>>

-----------------------------------------------------------------------------
(* executePrompt, from the answer on.                                      *)

\* setAstAnalysis(data.analysis)
FactsOf(q) == Analysis(q.of, q.state)

\* Mutant: the timers of the mark are cleared with the output they were for.
KeepTimersNot == timers' = 0

KeepTimers == UNCHANGED timers

\* finally { setIsPrompting(false) }
Finish(q) == prompting' = FALSE

Done(q) ==
    /\ ~lost
    /\ requests' = requests \ {q}
    /\ Finish(q)
    /\ KeepTimers
    /\ UNCHANGED <<order, onShow, clicks, asked>>

\* res.ok: the output and the facts come together.
Answered(q) ==
    /\ q.state \in Facts
    /\ Done(q)
    /\ result' = Output(q.of, "server") /\ analysis' = FactsOf(q)
    /\ copied' = FALSE
    /\ lost' = Throws(onShow, analysis')

\* Not ok: the page writes the output itself; the facts stay as they were.
Refused(q) ==
    /\ q.state = "refused"
    /\ Done(q)
    /\ result' = Output(q.of, "fallback")
    /\ copied' = FALSE
    /\ UNCHANGED <<analysis, lost>>

\* catch: a shorter output, and the mark stays.
Lost(q) ==
    /\ q.state = "lost"
    /\ Done(q)
    /\ result' = Output(q.of, "shorter")
    /\ UNCHANGED <<analysis, copied, lost>>

Answer(q) == Answered(q) \/ Refused(q) \/ Lost(q)

Next ==
    \/ SetView \/ executePrompt \/ copyToClipboard \/ TakeBack
    \/ \E o \in Orders \cup {Blank} : Edit(o)
    \/ \E q \in requests : handleGeneratePrompt(q) \/ Fail(q) \/ Answer(q)

Spec == Init /\ [][Next]_vars

\* Every fetch ends one day, and the browser runs its callbacks and timers.
Fairness ==
    /\ WF_vars(TakeBack)
    /\ WF_vars(\E q \in requests : handleGeneratePrompt(q) \/ Fail(q) \/ Answer(q))

FairSpec == Spec /\ Fairness

-----------------------------------------------------------------------------
(* Properties.                                                             *)

(***************************************************************************)
(* When nothing is under way, the output on show is of the order of the    *)
(* last click, however long its answer took, whatever was typed meanwhile, *)
(* and also when the page had to write it itself; and an output of the     *)
(* server stands beside the facts it was made from, though the other two   *)
(* branches leave the facts of an earlier order on show.                   *)
(***************************************************************************)
OutputIsTheLastClicks ==
    ~prompting /\ result # None =>
        /\ result.of = asked
        /\ result.by = "server" => analysis # None /\ analysis.of = asked

(***************************************************************************)
(* Unless the page is gone, its two marks end: "Synthesizing..." whatever  *)
(* fails, and that of a copy also when a request that was lost left it by  *)
(* an output that nobody copied.                                           *)
(***************************************************************************)
MarksEnd == /\ prompting ~> (~prompting \/ lost)
            /\ copied ~> (~copied \/ lost)
=============================================================================
