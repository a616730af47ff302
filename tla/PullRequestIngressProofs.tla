----------------------- MODULE PullRequestIngressProofs -----------------------
(***************************************************************************)
(* Proofs about PullRequestIngress, for any number of deliveries and heads. *)
(***************************************************************************)
EXTENDS PullRequestIngress, TLAPS

(***************************************************************************)
(* The parts of the inductive invariant.  A file of a head is of the head  *)
(* its delivery names, from the fetch on; a comment is of a delivery that  *)
(* is past its post, and says what was fetched for that delivery: so the   *)
(* handler that is about to post has left no comment yet.                  *)
(***************************************************************************)
FunctionsOverDeliveries ==
    /\ pc = [d \in Deliveries |-> pc[d]]
    /\ payload = [d \in Deliveries |-> payload[d]]
    /\ file = [d \in Deliveries |-> file[d]]

FilesMatch ==
    \A d \in Deliveries :
        pc[d] \in {"analyzing", "analyzed", "posting"} /\ file[d] # Sample =>
            file[d].sha = payload[d].sha

CommentsAreLast ==
    \A c \in comments : c.delivery \in Deliveries /\ pc[c.delivery] \in {"processed", "failed"}

IInv ==
    /\ FunctionsOverDeliveries /\ FilesMatch /\ CommentsAreLast
    /\ CommentsMatchTheirDelivery /\ OneCommentPerDelivery

-----------------------------------------------------------------------------

LEMMA InitInv == Init => IInv
  BY DEF Init, IInv, FunctionsOverDeliveries, FilesMatch, CommentsAreLast,
         CommentsMatchTheirDelivery, OneCommentPerDelivery

(***************************************************************************)
(* A step of delivery d that takes it on without a comment, up to the post *)
(* or to an end, and leaves it a file that matches.                        *)
(***************************************************************************)
LEMMA StepKeeps ==
    ASSUME IInv, NEW d \in Deliveries, NEW label,
           Goto(d, label), UNCHANGED <<payload, comments>>,
           pc[d] \notin {"processed", "failed"},
           file' = [file EXCEPT ![d] = file'[d]],
           label \in {"analyzing", "analyzed", "posting"} =>
               (file'[d] # Sample => file'[d].sha = payload[d].sha)
    PROVE  IInv'
<1> USE DEF IInv, Goto
<1>1. FunctionsOverDeliveries'
  BY DEF FunctionsOverDeliveries
<1>2. \A e \in Deliveries : pc'[e] = IF e = d THEN label ELSE pc[e]
  BY DEF FunctionsOverDeliveries
<1>3. \A e \in Deliveries : e # d => file'[e] = file[e]
  BY DEF FunctionsOverDeliveries
<1>4. FilesMatch'
  BY <1>2, <1>3 DEF FilesMatch
<1>5. CommentsAreLast'
  BY <1>2 DEF CommentsAreLast
<1>6. CommentsMatchTheirDelivery' /\ OneCommentPerDelivery'
  BY DEF CommentsMatchTheirDelivery, OneCommentPerDelivery
<1> QED
  BY <1>1, <1>4, <1>5, <1>6

\* A post that the provider takes, whether or not the handler learns of it.
LEMMA CommentKeeps ==
    ASSUME IInv, NEW d \in Deliveries, NEW label \in {"processed", "failed"},
           pc[d] = "posting", Goto(d, label), Commented(d), UNCHANGED <<payload, file>>
    PROVE  IInv'
<1> USE DEF IInv, Goto
<1>1. PICK n : comments' = comments \cup
          {[delivery |-> d, file |-> file[d], analysis |-> analysis[d], nth |-> n]}
  BY DEF Commented
<1> DEFINE new == [delivery |-> d, file |-> file[d], analysis |-> analysis[d], nth |-> n]
<1>2. new.delivery = d /\ new.file = file[d]
  OBVIOUS
<1>3. \A e \in Deliveries : pc'[e] = IF e = d THEN label ELSE pc[e]
  BY DEF FunctionsOverDeliveries
<1>4. \A c \in comments : c.delivery # d
  BY DEF CommentsAreLast
<1> HIDE DEF new
<1>5. comments' = comments \cup {new}
  BY <1>1 DEF new
<1>6. FunctionsOverDeliveries'
  BY DEF FunctionsOverDeliveries
<1>7. FilesMatch'
  BY <1>3 DEF FilesMatch
<1>8. CommentsAreLast'
  BY <1>2, <1>3, <1>4, <1>5 DEF CommentsAreLast
<1>9. CommentsMatchTheirDelivery'
  BY <1>2, <1>5 DEF CommentsMatchTheirDelivery, FilesMatch
<1>10. OneCommentPerDelivery'
  BY <1>2, <1>4, <1>5 DEF OneCommentPerDelivery
<1> QED
  BY <1>6, <1>7, <1>8, <1>9, <1>10

\* A delivery that arrives has neither a file nor a comment.
LEMMA DeliverKeeps ==
    ASSUME IInv, NEW d \in Deliveries, Deliver(d)
    PROVE  IInv'
<1> USE DEF IInv, Deliver
<1>1. FunctionsOverDeliveries'
  BY DEF FunctionsOverDeliveries
<1>2. \A e \in Deliveries : /\ pc'[e] = IF e = d THEN "received" ELSE pc[e]
                            /\ e # d => payload'[e] = payload[e]
  BY DEF FunctionsOverDeliveries
<1>3. \A c \in comments : c.delivery \in Deliveries /\ c.delivery # d
  BY DEF CommentsAreLast
<1>4. FilesMatch'
  BY <1>2 DEF FilesMatch
<1>5. CommentsAreLast'
  BY <1>2, <1>3 DEF CommentsAreLast
<1>6. CommentsMatchTheirDelivery'
  BY <1>2, <1>3 DEF CommentsMatchTheirDelivery
<1>7. OneCommentPerDelivery'
  BY DEF OneCommentPerDelivery
<1> QED
  BY <1>1, <1>4, <1>5, <1>6, <1>7

LEMMA FetchedKeeps ==
    ASSUME IInv, NEW d \in Deliveries, NEW content, Fetched(d, content),
           pc[d] \in {"received", "fetching"},
           content # Sample => content.sha = payload[d].sha
    PROVE  IInv'
<1>1. file'[d] = content
  BY DEF Fetched, IInv, FunctionsOverDeliveries
<1> QED
  BY <1>1, StepKeeps DEF Fetched

LEMMA AnalyzedKeeps ==
    ASSUME IInv, NEW d \in Deliveries, NEW result, Analyzed(d, result)
    PROVE  IInv'
<1>1. file' = [file EXCEPT ![d] = file'[d]]
  BY DEF Analyzed, IInv, FunctionsOverDeliveries
<1>2. file[d] # Sample => file[d].sha = payload[d].sha
  BY DEF Analyzed, IInv, FilesMatch
<1> QED
  BY <1>1, <1>2, StepKeeps DEF Analyzed

LEMMA NextInv == IInv /\ [Next]_vars => IInv'
<1> SUFFICES ASSUME IInv, [Next]_vars PROVE IInv'
  OBVIOUS
<1>1. CASE Push \/ UNCHANGED vars
  BY <1>1 DEF Push, vars, IInv, FunctionsOverDeliveries, FilesMatch, CommentsAreLast,
              CommentsMatchTheirDelivery, OneCommentPerDelivery
<1>2. ASSUME NEW d \in Deliveries
      PROVE  UNCHANGED file => file' = [file EXCEPT ![d] = file'[d]]
  BY DEF IInv, FunctionsOverDeliveries
<1>3. ASSUME NEW d \in Deliveries, Deliver(d)
      PROVE  IInv'
  BY <1>3, DeliverKeeps
<1>4. ASSUME NEW d \in Deliveries, Refuse(d)
      PROVE  IInv'
  BY <1>2, <1>4, StepKeeps DEF Refuse
<1>5. ASSUME NEW d \in Deliveries, Begin(d)
      PROVE  IInv'
  <2>1. CASE payload[d].provider \in token
    BY <1>2, <1>5, <2>1, StepKeeps DEF Begin
  <2>2. CASE payload[d].provider \notin token
    BY <1>5, <2>2, FetchedKeeps DEF Begin
  <2> QED
    BY <2>1, <2>2
<1>6. ASSUME NEW d \in Deliveries, Fetch(d)
      PROVE  IInv'
  <2> DEFINE content == IF payload[d].provider = "GitHub"
                        THEN OfHead(payload[d].sha) ELSE OfForeign(payload[d].sha)
  <2>1. content.sha = payload[d].sha
    BY DEF OfHead, OfForeign
  <2> QED
    BY <1>6, <2>1, FetchedKeeps DEF Fetch
<1>7. ASSUME NEW d \in Deliveries, FetchFails(d)
      PROVE  IInv'
  BY <1>7, FetchedKeeps DEF FetchFails
<1>8. ASSUME NEW d \in Deliveries, Analyze(d) \/ AnalyzeFails(d)
      PROVE  IInv'
  BY <1>8, AnalyzedKeeps DEF Analyze, AnalyzeFails
<1>9. ASSUME NEW d \in Deliveries, BeginPost(d)
      PROVE  IInv'
  <2>1. file[d] # Sample => file[d].sha = payload[d].sha
    BY <1>9 DEF BeginPost, IInv, FilesMatch
  <2> QED
    BY <1>2, <1>9, <2>1, StepKeeps DEF BeginPost
<1>10. ASSUME NEW d \in Deliveries, Post(d)
       PROVE  IInv'
  BY <1>10, CommentKeeps DEF Post
<1>11. ASSUME NEW d \in Deliveries, PostRefused(d)
       PROVE  IInv'
  BY <1>2, <1>11, StepKeeps DEF PostRefused
<1>12. ASSUME NEW d \in Deliveries, PostFails(d)
       PROVE  IInv'
  <2>1. CASE Commented(d)
    BY <1>12, <2>1, CommentKeeps DEF PostFails
  <2>2. CASE UNCHANGED comments
    BY <1>2, <1>12, <2>2, StepKeeps DEF PostFails
  <2> QED
    BY <1>12, <2>1, <2>2 DEF PostFails
<1> QED
  BY <1>1, <1>3, <1>4, <1>5, <1>6, <1>7, <1>8, <1>9, <1>10, <1>11, <1>12
     DEF Next, Handle, Answer

(***************************************************************************)
(* A comment about a fetched file is about the head its delivery names     *)
(* (fetchPRFile asks for payload.PullRequest.Head.SHA), however many       *)
(* deliveries of however many heads are handled at a time.                 *)
(***************************************************************************)
THEOREM CommentsAreOfTheirHead == Spec => []CommentsMatchTheirDelivery
<1>1. IInv => CommentsMatchTheirDelivery
  BY DEF IInv
<1> QED
  BY InitInv, NextInv, <1>1, PTL DEF Spec

\* No delivery is commented twice (postPRComment is called once and never retried).
THEOREM CommentedOnce == Spec => []OneCommentPerDelivery
<1>1. IInv => OneCommentPerDelivery
  BY DEF IInv
<1> QED
  BY InitInv, NextInv, <1>1, PTL DEF Spec
=============================================================================
