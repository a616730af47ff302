------------------------ MODULE PromptCompilerProofs ------------------------
(***************************************************************************)
(* Proofs about PromptCompiler, for any orders and any number of clicks.   *)
(***************************************************************************)
EXTENDS PromptCompiler, TLAPS

States == {"sent", "refused", "lost"} \cup Facts

RequestType == [number : Nat, of : Orders, state : States]

(***************************************************************************)
(* One request at most is under way, it is of the order of the last click, *)
(* and the flag is up as long as it is: so its answer is the last to be    *)
(* written before the flag is down.                                        *)
(***************************************************************************)
OneRequest ==
    /\ requests \subseteq RequestType
    /\ clicks \in Nat /\ order \in Orders \cup {Blank}
    /\ \A q \in requests : prompting /\ q.of = asked
    /\ \A q, r \in requests : q = r

IInv == OneRequest /\ OutputIsTheLastClicks

-----------------------------------------------------------------------------

LEMMA InitInv == Init => IInv
<1> SUFFICES ASSUME Init PROVE IInv
  OBVIOUS
<1> USE DEF Init
<1>1. OneRequest
  BY DEF OneRequest
<1>2. OutputIsTheLastClicks
  BY DEF OutputIsTheLastClicks
<1> QED
  BY <1>1, <1>2 DEF IInv

\* A request that the server or the network settles stays the request it was.
LEMMA SettleKeeps ==
    ASSUME IInv, NEW q \in requests, NEW s \in States, Settle(q, s)
    PROVE  IInv'
<1> USE DEF Settle, page
<1> DEFINE r == [q EXCEPT !.state = s]
<1>1. r \in RequestType /\ r.of = q.of
  BY DEF IInv, OneRequest, RequestType
<1>2. requests' = {r}
  BY DEF IInv, OneRequest
<1>3. OneRequest'
  BY <1>1, <1>2 DEF IInv, OneRequest
<1>4. OutputIsTheLastClicks'
  BY DEF IInv, OutputIsTheLastClicks
<1> QED
  BY <1>3, <1>4 DEF IInv

LEMMA OutputFields ==
    ASSUME NEW o, NEW w
    PROVE  Output(o, w).of = o /\ Output(o, w).by = w
  BY DEF Output

\* The answer is of the last click, and nothing is under way after it.
LEMMA AnswerKeeps ==
    ASSUME IInv, NEW q \in requests, Answer(q)
    PROVE  IInv'
<1> USE DEF IInv, Done, Finish, KeepTimers
<1>1. requests' = {} /\ q.of = asked /\ clicks' = clicks /\ order' = order
  BY DEF OneRequest, Answer, Answered, Refused, Lost
<1>2. OneRequest'
  BY <1>1 DEF OneRequest
<1>3. PICK w : result' = Output(q.of, w)
  BY DEF Answer, Answered, Refused, Lost
<1>4. asked' = asked
  BY DEF Answer, Answered, Refused, Lost
<1>5. result'.of = asked' /\ result'.by = w
  BY <1>1, <1>3, <1>4, OutputFields
<1>6. ASSUME result'.by = "server"
      PROVE  analysis' # None /\ analysis'.of = asked'
  <2>1. Answered(q)
    <3>1. CASE Refused(q)
      BY <1>6, <3>1, OutputFields DEF Refused
    <3>2. CASE Lost(q)
      BY <1>6, <3>2, OutputFields DEF Lost
    <3> QED
      BY <3>1, <3>2 DEF Answer
  <2>2. analysis' = Analysis(q.of, q.state) /\ q.state \in Facts
    BY <2>1 DEF Answered, FactsOf
  <2>3. q.of \in Orders
    BY DEF OneRequest, RequestType
  <2>4. analysis' # None
    BY <2>2, <2>3, NoneAssumption
  <2>5. Analysis(q.of, q.state).of = q.of
    BY DEF Analysis
  <2> QED
    BY <1>1, <1>4, <2>2, <2>4, <2>5
<1>7. OutputIsTheLastClicks'
  BY <1>5, <1>6 DEF OutputIsTheLastClicks
<1> QED
  BY <1>2, <1>7

LEMMA NextInv == IInv /\ [Next]_vars => IInv'
<1> SUFFICES ASSUME IInv, [Next]_vars PROVE IInv'
  OBVIOUS
<1> USE DEF IInv
<1>1. CASE SetView
  BY <1>1 DEF SetView, OneRequest, OutputIsTheLastClicks
<1>2. CASE executePrompt
  <2> USE <1>2 DEF executePrompt
  <2>1. requests = {}
    BY DEF canSynthesize, OneRequest
  <2>2. order \in Orders
    BY DEF canSynthesize, OneRequest
  <2>3. Request(clicks', order, "sent") \in RequestType
    BY <2>2 DEF Request, RequestType, States, OneRequest
  <2>4. OneRequest'
    BY <2>1, <2>2, <2>3 DEF OneRequest, Request
  <2>5. OutputIsTheLastClicks'
    BY DEF OutputIsTheLastClicks
  <2> QED
    BY <2>4, <2>5
<1>3. CASE copyToClipboard
  BY <1>3 DEF copyToClipboard, OneRequest, OutputIsTheLastClicks
<1>4. CASE TakeBack
  BY <1>4 DEF TakeBack, OneRequest, OutputIsTheLastClicks
<1>5. ASSUME NEW o \in Orders \cup {Blank}, Edit(o)
      PROVE  IInv'
  BY <1>5 DEF Edit, OneRequest, OutputIsTheLastClicks
<1>6. ASSUME NEW q \in requests, handleGeneratePrompt(q)
      PROVE  IInv'
  <2>1. PICK s \in States : Settle(q, s)
    BY <1>6 DEF handleGeneratePrompt, AnalyzeCode, States, Facts
  <2> QED
    BY <2>1, SettleKeeps
<1>7. ASSUME NEW q \in requests, Fail(q)
      PROVE  IInv'
  <2>1. PICK s \in States : Settle(q, s)
    BY <1>7 DEF Fail, States
  <2> QED
    BY <2>1, SettleKeeps
<1>8. ASSUME NEW q \in requests, Answer(q)
      PROVE  IInv'
  BY <1>8, AnswerKeeps
<1>9. CASE UNCHANGED vars
  BY <1>9 DEF vars, page, OneRequest, OutputIsTheLastClicks
<1> QED
  BY <1>1, <1>2, <1>3, <1>4, <1>5, <1>6, <1>7, <1>8, <1>9 DEF Next

(***************************************************************************)
(* Whatever the answers, and in whatever order the operator types, leaves  *)
(* and comes back (executePrompt): the output on show is of the last click.*)
(***************************************************************************)
THEOREM OutputCorrect == Spec => []OutputIsTheLastClicks
<1>1. IInv => OutputIsTheLastClicks
  BY DEF IInv
<1> QED
  BY InitInv, NextInv, <1>1, PTL DEF Spec
=============================================================================
