------------------------- MODULE PullRequestIngress -------------------------
(***************************************************************************)
(* The pull request webhooks (internal/api/webhooks.go) and the analysis   *)
(* they call (internal/analyzer/ast.go): every delivery of GitHub or       *)
(* Forgejo is handled by a goroutine of its own, which fetches a file of   *)
(* the head the delivery names, has it analysed and posts a comment, while *)
(* the author pushes on.  The three calls it makes may be answered,        *)
(* refused, or never answered until their timeout of ten seconds.          *)
(***************************************************************************)
EXTENDS Naturals, FiniteSets

CONSTANTS
    Deliveries,
    MaxPushes,      \* bound on the heads of the pull request
    None            \* no file yet, no delivery yet

ASSUME ConstantsAssumption == MaxPushes \in Nat \ {0}

VARIABLES
    head,       \* heads so far; the newest is the head of the pull request
    token,      \* the providers whose API the server has a token for
    payload,    \* payload[d]: what delivery d says
    pc,         \* pc[d]: where its handler is
    file,       \* file[d]: what fetchPRFile returned
    analysis,   \* analysis[d]: what AnalyzeCode returned
    comments    \* the comments on the pull request

vars == <<head, token, payload, pc, file, analysis, comments>>

Providers == {"GitHub", "Forgejo"}
Heads     == 1 .. MaxPushes
Ended     == {"refused", "ignored", "processed", "failed"}

\* A file of the pull request, of a repository of the same name elsewhere, or
\* the sample, which is of no head.
OfHead(h)    == [of |-> "pull request", sha |-> h]
OfForeign(h) == [of |-> "foreign", sha |-> h]
Sample       == [of |-> "sample", sha |-> 0]

Init ==
    /\ head = 1
    \* FORGEJO_TOKEN falls back on GITHUB_TOKEN, so GitHub's token serves both.
    /\ token \in {{}, {"Forgejo"}, Providers}
    /\ payload = [d \in Deliveries |-> None]
    /\ pc = [d \in Deliveries |-> "idle"]
    /\ file = [d \in Deliveries |-> None]
    /\ analysis = [d \in Deliveries |-> None]
    /\ comments = {}

-----------------------------------------------------------------------------
(* The author and the provider.                                            *)

Push ==
    /\ head < MaxPushes
    /\ head' = head + 1
    /\ UNCHANGED <<token, payload, pc, file, analysis, comments>>

\* A delivery is of the newest head, or a late or repeated one of an older.
Deliver(d) ==
    /\ pc[d] = "idle"
    /\ \E p \in Providers, a \in {"opened", "synchronize", "closed", "malformed"}, h \in 1 .. head :
          payload' = [payload EXCEPT ![d] = [provider |-> p, action |-> a, sha |-> h]]
    /\ pc' = [pc EXCEPT ![d] = "received"]
    /\ UNCHANGED <<head, token, file, analysis, comments>>

-----------------------------------------------------------------------------
(* processPullRequestWebhook.                                              *)

Goto(d, label) == pc' = [pc EXCEPT ![d] = label]

Refuse(d) ==
    /\ pc[d] = "received"
    /\ \/ payload[d].action = "malformed" /\ Goto(d, "refused")
       \/ payload[d].action = "closed" /\ Goto(d, "ignored")
    /\ UNCHANGED <<head, token, payload, file, analysis, comments>>

Fetched(d, content) ==
    /\ file' = [file EXCEPT ![d] = content]
    /\ Goto(d, "analyzing")
    /\ UNCHANGED <<head, token, payload, analysis, comments>>

\* fetchPRFile: without a token the sample is the file.
Begin(d) ==
    /\ pc[d] = "received" /\ payload[d].action \in {"opened", "synchronize"}
    /\ IF payload[d].provider \in token
       THEN Goto(d, "fetching") /\ UNCHANGED <<head, token, payload, file, analysis, comments>>
       ELSE Fetched(d, Sample)

\* Mutant: the file is fetched without ?ref=.
FetchNewest(d) ==
    /\ pc[d] = "fetching"
    /\ payload[d].provider = "GitHub" /\ Fetched(d, OfHead(head))

\* The URL is api.github.com's for either provider.
Fetch(d) ==
    /\ pc[d] = "fetching"
    /\ Fetched(d, IF payload[d].provider = "GitHub"
                  THEN OfHead(payload[d].sha) ELSE OfForeign(payload[d].sha))

\* Mutant: an HTTP client without a timeout.
FetchFailsIfAnswered(d) == FALSE /\ UNCHANGED vars

\* Any status but 200, any error, and the timeout: the sample.
FetchFails(d) ==
    /\ pc[d] = "fetching"
    /\ Fetched(d, Sample)

Analyzed(d, result) ==
    /\ pc[d] = "analyzing"
    /\ analysis' = [analysis EXCEPT ![d] = result]
    /\ Goto(d, "analyzed")
    /\ UNCHANGED <<head, token, payload, file, comments>>

\* AnalyzeCode: an answer that does not parse is an empty analysis.
Analyze(d) == Analyzed(d, "real") \/ Analyzed(d, "empty")

\* No engine, an error or the deadline: mockAnalyzeCode.
AnalyzeFails(d) == Analyzed(d, "mock")

\* postPRComment: without a token the comment is only logged.
BeginPost(d) ==
    /\ pc[d] = "analyzed"
    /\ Goto(d, IF payload[d].provider \in token THEN "posting" ELSE "processed")
    /\ UNCHANGED <<head, token, payload, file, analysis, comments>>

Commented(d) ==
    comments' = comments \cup
        {[delivery |-> d, file |-> file[d], analysis |-> analysis[d],
          nth |-> Cardinality({c \in comments : c.delivery = d})]}

Post(d) ==
    /\ pc[d] = "posting"
    /\ Commented(d)
    /\ Goto(d, "processed")
    /\ UNCHANGED <<head, token, payload, file, analysis>>

\* A status outside 2xx is logged, and the delivery answered as processed.
PostRefused(d) ==
    /\ pc[d] = "posting"
    /\ Goto(d, "processed")
    /\ UNCHANGED <<head, token, payload, file, analysis, comments>>

\* Mutant: a post that was not answered is sent again.
PostRetried(d) ==
    /\ pc[d] = "posting"
    /\ Cardinality({c \in comments : c.delivery = d}) < 2
    /\ Commented(d) \/ UNCHANGED comments
    /\ UNCHANGED <<head, token, payload, pc, file, analysis>>

\* An error or the timeout; the provider may have taken the comment.
PostFails(d) ==
    /\ pc[d] = "posting"
    /\ Commented(d) \/ UNCHANGED comments
    /\ Goto(d, "failed")
    /\ UNCHANGED <<head, token, payload, file, analysis>>

\* What the handler does without waiting for an answer of anyone.
Handle(d) == \/ Refuse(d) \/ Begin(d) \/ BeginPost(d)
             \/ FetchFails(d) \/ AnalyzeFails(d) \/ PostFails(d)

Answer(d) == Fetch(d) \/ Analyze(d) \/ Post(d) \/ PostRefused(d)

Next == \/ Push
        \/ \E d \in Deliveries : Deliver(d) \/ Handle(d) \/ Answer(d)

Spec == Init /\ [][Next]_vars

\* Handlers run and timeouts fire; nobody else is promised to answer.
FairSpec == Spec /\ \A d \in Deliveries : WF_vars(Handle(d))

-----------------------------------------------------------------------------
(* Properties.                                                             *)

(***************************************************************************)
(* However far the author pushed on, and whatever other deliveries are     *)
(* handled, a comment about a file that was fetched is about the head its  *)
(* delivery names.                                                         *)
(***************************************************************************)
CommentsMatchTheirDelivery ==
    \A c \in comments : c.file # Sample => c.file.sha = payload[c.delivery].sha

\* No delivery leaves two comments, the posts that got no answer included.
OneCommentPerDelivery ==
    \A c1, c2 \in comments : c1.delivery = c2.delivery => c1 = c2

\* Every delivery is answered, whoever does not answer the server.
DeliveriesEnd == \A d \in Deliveries : pc[d] = "received" ~> pc[d] \in Ended
=============================================================================
