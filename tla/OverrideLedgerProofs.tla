------------------------ MODULE OverrideLedgerProofs ------------------------
(***************************************************************************)
(* Proofs about OverrideLedger, for every number of runs, sessions and     *)
(* readers and every bound on the failures.                                *)
(***************************************************************************)
EXTENDS OverrideLedger, Integers, WellFoundedInduction, TLAPS

(***************************************************************************)
(* The inductive invariant adds two facts to the properties: a session     *)
(* past its start has its place in the order of the transactions, and a    *)
(* run that a reader saw overridden still is.                              *)
(***************************************************************************)
HasBegun ==
    \A s \in Sessions :
        pc[s] \notin {"idle", "refused"} => \E k \in DOMAIN began : began[k] = s

SeenOverridden ==
    \A d \in Readers :
        rpc[d] = "looked" /\ seen[d].status = "OVERRIDDEN" =>
            reading[d] \in Runs /\ Overridden(reading[d])

IInv ==
    /\ TypeOK
    /\ SessionsConsistent
    /\ OverriddenIffAudited
    /\ AnnouncedIsRecorded
    /\ HasBegun
    /\ SeenOverridden
    /\ ShownOverrideIsExplained

\* What a table holds after an insert.
LEMMA AppendFacts ==
    ASSUME NEW S, NEW t \in Seq(S), NEW e \in S
    PROVE  /\ Append(t, e) \in Seq(S)
           /\ Len(t) \in Nat
           /\ DOMAIN t = 1 .. Len(t)
           /\ DOMAIN Append(t, e) = 1 .. (Len(t) + 1)
           /\ \A i \in 1 .. Len(t) : Append(t, e)[i] = t[i]
           /\ Append(t, e)[Len(t) + 1] = e
  OBVIOUS

\* A table at the start.
LEMMA EmptyFacts ==
    ASSUME NEW S
    PROVE  <<>> \in Seq(S) /\ DOMAIN <<>> = {}
  OBVIOUS

\* Every row of a table has its type.
LEMMA ElementFacts ==
    ASSUME NEW S, NEW t \in Seq(S), NEW i \in DOMAIN t
    PROVE  t[i] \in S
  OBVIOUS

\* Among the transactions there is one that began last.
LEMMA LargestIndex ==
    ASSUME NEW n \in Nat, NEW T \in SUBSET (1 .. n), T # {}
    PROVE  \E k \in T : \A l \in T : l <= k
<1> DEFINE R == {ss \in Nat \X Nat : ss[1] < ss[2]}
           D == {n - k : k \in T}
<1>0. \A k \in T : k \in Nat /\ k <= n
  OBVIOUS
<1>1. IsWellFoundedOn(R, Nat)
  BY NatLessThanWellFounded DEF OpToRel
<1>2. D \subseteq Nat /\ D # {}
  <2>1. \A k \in T : n - k \in Nat
    BY <1>0
  <2> QED
    BY <2>1
<1>3. PICK x \in D : \A y \in D : <<y, x>> \notin R
  <2> HIDE DEF R, D
  <2> QED
    BY <1>1, <1>2, WFMin
<1>4. PICK k \in T : x = n - k
  BY <1>3
<1>5. ASSUME NEW l \in T PROVE l <= k
  <2>1. n - l \in D /\ n - l \in Nat /\ n - k \in Nat
    BY <1>0, <1>2
  <2>2. ~(n - l < n - k)
    BY <2>1, <1>3, <1>4
  <2> QED
    BY <2>2, <1>0
<1> QED
  BY <1>4, <1>5

-----------------------------------------------------------------------------
(***************************************************************************)
(* The types of the database, of the sessions and of the readers.          *)
(***************************************************************************)
DbType ==
    /\ rows \in [Runs -> Row \cup {NoRow}]
    /\ trail \in Seq([session : Sessions, run : Runs])
    /\ lock \in [Runs -> Sessions \cup {NoSession}]
    /\ began \in Seq(Sessions)

SessionType ==
    /\ target \in [Sessions -> Runs \cup {NoRun}]
    /\ pc \in [Sessions -> Labels]
    /\ address \in [Sessions -> Projects \cup {DefaultProject}]
    /\ events \in Seq([session : Sessions, project : Projects \cup {DefaultProject}])
    /\ webhook \in [Sessions -> {"none", "pending", "delivered", "lost"}]

ReaderType ==
    /\ reading \in [Readers -> Runs \cup {NoRun}]
    /\ rpc \in [Readers -> {"idle", "looked", "not found", "done", "crashed"}]
    /\ seen \in [Readers -> [status : Verdict \cup {"OVERRIDDEN", "none"},
                           author : Sessions \cup {NoSession},
                           failed : BOOLEAN]]

\* TypeOK is the conjunction of its parts.
LEMMA TypeParts ==
    TypeOK <=> DbType /\ SessionType /\ ReaderType /\ faults \in 0 .. MaxFaults
  BY Zenon DEF TypeOK, DbType, SessionType, ReaderType

\* The faults are counted up to their bound.
LEMMA FaultsType ==
    ASSUME faults \in 0 .. MaxFaults, UNCHANGED faults \/ Fault
    PROVE  faults' \in 0 .. MaxFaults
<1>1. CASE UNCHANGED faults
  BY <1>1
<1>2. CASE Fault
  BY <1>2, ConstantsAssumption DEF Fault, CanFault
<1> QED
  BY <1>1, <1>2

\* The initial states.
LEMMA InitInv == Init => IInv
<1> SUFFICES ASSUME Init PROVE IInv
  OBVIOUS
<1>0. DOMAIN trail = {} /\ DOMAIN events = {}
  BY EmptyFacts DEF Init
<1>1. DbType
  BY EmptyFacts DEF Init, DbType
<1>2. SessionType
  BY EmptyFacts DEF Init, SessionType, Labels
<1>3. ReaderType
  <2>1. NothingSeen \in [status : Verdict \cup {"OVERRIDDEN", "none"},
                         author : Sessions \cup {NoSession}, failed : BOOLEAN]
    BY DEF NothingSeen
  <2> QED
    BY <2>1 DEF Init, ReaderType
<1>4. TypeOK
  BY <1>1, <1>2, <1>3, TypeParts, ConstantsAssumption DEF Init
<1>5. SessionsConsistent /\ AnnouncedIsRecorded
  BY <1>0 DEF Init, SessionsConsistent, AnnouncedIsRecorded, Recorded
<1>6. OverriddenIffAudited
  BY <1>0 DEF Init, OverriddenIffAudited, Trail!OverriddenIffAudited
<1>7. HasBegun /\ SeenOverridden /\ ShownOverrideIsExplained
  BY DEF Init, HasBegun, SeenOverridden, ShownOverrideIsExplained
<1> QED
  BY <1>4, <1>5, <1>6, <1>7 DEF IInv

-----------------------------------------------------------------------------
(***************************************************************************)
(* What a commit does to the ledger: one record is added, of its session,  *)
(* and the run of that session is marked.                                  *)
(***************************************************************************)
LEMMA ApplyFacts ==
    ASSUME TypeOK, NEW s \in Sessions, target[s] \in Runs, Present(target[s]),
           Apply(s), UNCHANGED target
    PROVE  /\ rows' \in [Runs -> Row \cup {NoRow}]
           /\ trail' \in Seq([session : Sessions, run : Runs])
           /\ lock' \in [Runs -> Sessions \cup {NoSession}]
           /\ DOMAIN trail' = 1 .. (Len(trail) + 1)
           /\ \A k \in DOMAIN trail : k \in DOMAIN trail' /\ trail'[k] = trail[k]
           /\ Len(trail) + 1 \in DOMAIN trail'
           /\ \A k \in DOMAIN trail' : k \in DOMAIN trail \/ k = Len(trail) + 1
           /\ trail'[Len(trail) + 1] = [session |-> s, run |-> target[s]]
           /\ \A r \in Runs : Present(r)' <=> Present(r)
           /\ \A r \in Runs : Overridden(r)' <=> (Overridden(r) \/ r = target[s])
<1> DEFINE t == target[s]
<1>1. rows[t] \in Row /\ rows[t] # NoRow
  BY DEF TypeOK, Present
<1>2. [rows[t] EXCEPT !.status = "OVERRIDDEN"] \in Row
  BY <1>1 DEF Row
<1>3. /\ rows' = [rows EXCEPT ![t] = [rows[t] EXCEPT !.status = "OVERRIDDEN"]]
      /\ trail' = Append(trail, Record(s))
      /\ lock' = [r \in Runs |-> IF lock[r] = s THEN NoSession ELSE lock[r]]
  BY DEF Apply, Release
<1>4. Record(s) \in [session : Sessions, run : Runs]
  BY DEF Record
<1>5. trail \in Seq([session : Sessions, run : Runs])
  BY DEF TypeOK
<1>6. /\ trail' \in Seq([session : Sessions, run : Runs])
      /\ DOMAIN trail' = 1 .. (Len(trail) + 1)
      /\ \A k \in DOMAIN trail : k \in DOMAIN trail' /\ trail'[k] = trail[k]
      /\ Len(trail) + 1 \in DOMAIN trail'
      /\ \A k \in DOMAIN trail' : k \in DOMAIN trail \/ k = Len(trail) + 1
      /\ trail'[Len(trail) + 1] = Record(s)
  BY <1>3, <1>4, <1>5, AppendFacts
<1>7. rows' \in [Runs -> Row \cup {NoRow}]
  BY <1>2, <1>3 DEF TypeOK
<1>8. lock' \in [Runs -> Sessions \cup {NoSession}]
  BY <1>3 DEF TypeOK
<1>9. /\ \A r \in Runs : r # t => rows'[r] = rows[r]
      /\ rows'[t] \in Row /\ rows'[t].status = "OVERRIDDEN"
  BY <1>1, <1>2, <1>3 DEF TypeOK, Row
<1>10. NoRow \notin Row
  BY ConstantsAssumption
<1>11. \A r \in Runs : Present(r)' <=> Present(r)
  BY <1>9, <1>10 DEF Present
<1>12. \A r \in Runs : Overridden(r)' <=> (Overridden(r) \/ r = t)
  BY <1>9, <1>10 DEF Present, Overridden
<1> QED
  BY <1>6, <1>7, <1>8, <1>11, <1>12 DEF Record

\* After a commit exactly one session more is recorded.
LEMMA ApplyRecords ==
    ASSUME TypeOK, NEW s \in Sessions, target[s] \in Runs, Present(target[s]),
           Apply(s), UNCHANGED target
    PROVE  \A x \in Sessions : Recorded(x)' <=> (Recorded(x) \/ x = s)
<1> TAKE x \in Sessions
<1>1. ASSUME Recorded(x) PROVE Recorded(x)'
  BY <1>1, ApplyFacts, Zenon DEF Recorded
<1>2. Recorded(s)'
  <2>1. Len(trail) + 1 \in DOMAIN trail' /\ trail'[Len(trail) + 1].session = s
    <3>1. /\ Len(trail) + 1 \in DOMAIN trail'
          /\ trail'[Len(trail) + 1] = [session |-> s, run |-> target[s]]
      BY ApplyFacts, Zenon
    <3> QED
      BY <3>1
  <2> QED
    BY <2>1, Zenon DEF Recorded
<1>3. ASSUME Recorded(x)' PROVE Recorded(x) \/ x = s
  <2>1. PICK k \in DOMAIN trail' : trail'[k].session = x
    BY <1>3, Zenon DEF Recorded
  <2>2. CASE k \in DOMAIN trail
    BY <2>1, <2>2, ApplyFacts, Zenon DEF Recorded
  <2>3. CASE k = Len(trail) + 1
    <3>1. trail'[k] = [session |-> s, run |-> target[s]]
      BY <2>3, ApplyFacts, Zenon
    <3> QED
      BY <2>1, <3>1
  <2>4. k \in DOMAIN trail \/ k = Len(trail) + 1
    BY ApplyFacts, Zenon
  <2> QED
    BY <2>2, <2>3, <2>4, Zenon
<1> QED
  BY <1>1, <1>2, <1>3, Zenon

-----------------------------------------------------------------------------
(***************************************************************************)
(* GetAuditOverride: of a run that is recorded in the ledger the reader is *)
(* shown an author of one of its records; otherwise nobody.                *)
(***************************************************************************)
LEMMA LatestAuthorFacts ==
    ASSUME TypeOK, SessionsConsistent, HasBegun, NEW r
    PROVE  LatestAuthor(r) \in (IF Authors(r) = {} THEN {NoSession} ELSE Authors(r))
<1>1. CASE Authors(r) = {}
  BY <1>1, Zenon DEF LatestAuthor
<1>2. CASE Authors(r) # {}
  <2> DEFINE T == {k \in DOMAIN began : began[k] \in Authors(r)}
  <2>1. began \in Seq(Sessions) /\ Len(began) \in Nat /\ DOMAIN began = 1 .. Len(began)
    <3>1. began \in Seq(Sessions)
      BY Zenon DEF TypeOK
    <3> QED
      BY <3>1
  <2>2. PICK s \in Sessions : s \in Authors(r) /\ Recorded(s)
    BY <1>2, Zenon DEF Authors
  <2>3. pc[s] \notin {"idle", "refused"}
    BY <2>2 DEF SessionsConsistent
  <2>4. PICK b \in DOMAIN began : began[b] = s
    BY <2>3, Zenon DEF HasBegun
  <2>5. T # {} /\ T \in SUBSET (1 .. Len(began))
    BY <2>1, <2>2, <2>4
  <2>6. \E k \in T : \A l \in T : l <= k
    <3> HIDE DEF T
    <3> QED
      BY <2>1, <2>5, LargestIndex
  <2>7. \E k \in DOMAIN began : /\ began[k] \in Authors(r)
                               /\ \A l \in DOMAIN began : began[l] \in Authors(r) => l <= k
    BY <2>6, Zenon
  <2> DEFINE last == CHOOSE k \in DOMAIN began :
                        /\ began[k] \in Authors(r)
                        /\ \A l \in DOMAIN began : began[l] \in Authors(r) => l <= k
  <2>8. began[last] \in Authors(r)
    BY <2>7, Zenon
  <2>9. LatestAuthor(r) = began[last]
    BY <1>2, Zenon DEF LatestAuthor
  <2> QED
    BY <1>2, <2>8, <2>9, Zenon
<1> QED
  BY <1>1, <1>2, Zenon

-----------------------------------------------------------------------------
(***************************************************************************)
(* Every step keeps the types.                                             *)
(***************************************************************************)
LEMMA TypeStep == TypeOK /\ SessionsConsistent /\ HasBegun /\ [Next]_vars => TypeOK'
<1> SUFFICES ASSUME TypeOK, SessionsConsistent, HasBegun, [Next]_vars PROVE TypeOK'
  OBVIOUS
<1>0. DbType /\ SessionType /\ ReaderType /\ faults \in 0 .. MaxFaults
  BY TypeParts, Zenon
<1> USE <1>0
<1>a. ASSUME UNCHANGED dbVars PROVE DbType'
  BY <1>a DEF dbVars, DbType
<1>b. ASSUME UNCHANGED readerVars PROVE ReaderType'
  BY <1>b DEF readerVars, ReaderType
<1>c. ASSUME NEW s \in Sessions, NEW label \in Labels, Goto(s, label)
      PROVE  pc' \in [Sessions -> Labels]
  BY <1>c DEF Goto, SessionType
<1>d. ASSUME NEW s \in Sessions, NEW label \in Labels, Goto(s, label),
             UNCHANGED <<target, outVars>>
      PROVE  SessionType'
  BY <1>c, <1>d DEF outVars, SessionType
<1>e. ASSUME DbType', SessionType', ReaderType', UNCHANGED faults \/ Fault
      PROVE  TypeOK'
  <2>1. faults' \in 0 .. MaxFaults
    BY <1>e, FaultsType, Zenon
  <2> QED
    BY <1>e, <2>1, Zenon DEF TypeOK, DbType, SessionType, ReaderType
<1>f. \A cond : FaultUnless(cond) => UNCHANGED faults \/ Fault
  BY Zenon DEF FaultUnless
<1>1. ASSUME NEW r \in Runs, InsertDiffRun(r) PROVE TypeOK'
  <2>1. PICK p \in Projects, v \in Verdict :
           rows' = [rows EXCEPT ![r] = [project |-> p, verdict |-> v, status |-> v]]
    BY <1>1 DEF InsertDiffRun
  <2>2. [project |-> p, verdict |-> v, status |-> v] \in Row
    BY DEF Row
  <2>3. UNCHANGED <<trail, lock, began, target, pc, outVars, readerVars, faults>>
    BY <1>1 DEF InsertDiffRun
  <2>4. DbType'
    BY <2>1, <2>2, <2>3 DEF DbType
  <2>5. SessionType'
    BY <2>3 DEF SessionType, outVars
  <2> QED
    BY <2>3, <2>4, <2>5, <1>b, <1>e, Zenon
<1>2. ASSUME NEW s \in Sessions, Refuse(s) PROVE TypeOK'
  <2>1. "refused" \in Labels
    BY DEF Labels
  <2> QED
    BY <1>2, <2>1, <1>a, <1>b, <1>d, <1>e, Zenon DEF Refuse
<1>3. ASSUME NEW s \in Sessions, NEW r \in Runs, Begin(s, r) PROVE TypeOK'
  <2>1. DbType'
    BY <1>3, AppendFacts DEF Begin, DbType
  <2>2. SessionType'
    BY <1>3 DEF Begin, Goto, SessionType, Labels, outVars
  <2> QED
    BY <1>3, <2>1, <2>2, <1>b, <1>e, Zenon DEF Begin
<1>4. ASSUME NEW s \in Sessions, InsertAudit(s) PROVE TypeOK'
  <2>1. "inserted" \in Labels
    BY DEF Labels
  <2> QED
    BY <1>4, <2>1, <1>a, <1>b, <1>d, <1>e, Zenon DEF InsertAudit
<1>5. ASSUME NEW s \in Sessions, UpdateStatus(s) PROVE TypeOK'
  <2>1. "updated" \in Labels
    BY DEF Labels
  <2>2. DbType'
    BY <1>5 DEF UpdateStatus, DbType
  <2> QED
    BY <1>5, <2>1, <2>2, <1>b, <1>d, <1>e, Zenon DEF UpdateStatus
<1>6. ASSUME NEW s \in Sessions, pc[s] = "updated", Apply(s),
             UNCHANGED <<began, target>>
      PROVE  DbType'
  <2>1. target[s] \in Runs /\ Present(target[s])
    BY <1>6 DEF SessionsConsistent
  <2> QED
    BY <1>6, <2>1, ApplyFacts DEF DbType
<1>7. ASSUME NEW s \in Sessions, Commit(s) PROVE TypeOK'
  <2>1. "committed" \in Labels
    BY DEF Labels
  <2> QED
    BY <1>7, <2>1, <1>6, <1>b, <1>d, <1>e, Zenon DEF Commit
<1>8. ASSUME NEW s \in Sessions, CommitUnacknowledged(s) PROVE TypeOK'
  <2>1. "failed" \in Labels
    BY DEF Labels
  <2> QED
    BY <1>8, <2>1, <1>6, <1>b, <1>d, <1>e, Zenon DEF CommitUnacknowledged
<1>9. ASSUME NEW s \in Sessions, TransactionFails(s) PROVE TypeOK'
  <2>1. "failed" \in Labels
    BY DEF Labels
  <2>2. DbType'
    BY <1>9 DEF TransactionFails, Release, DbType
  <2> QED
    BY <1>9, <2>1, <2>2, <1>b, <1>d, <1>e, <1>f, Zenon DEF TransactionFails
<1>10. ASSUME NEW s \in Sessions, Locate(s) PROVE TypeOK'
  <2>1. rows[target[s]].project \in Projects
    <3>1. target[s] \in Runs /\ rows[target[s]] # NoRow
      <4>1. pc[s] = "committed" /\ target[s] \in Runs /\ Recorded(s)
        BY <1>10 DEF Locate, SessionsConsistent
      <4>2. PICK k \in DOMAIN trail : trail[k].session = s
        BY <4>1, Zenon DEF Recorded
      <4> QED
        BY <4>1, <4>2, Zenon DEF SessionsConsistent, Present
    <3>2. rows[target[s]] \in Row
      BY <3>1, Zenon DEF DbType
    <3> QED
      BY <3>2, Zenon DEF Row
  <2>2. address' \in [Sessions -> Projects \cup {DefaultProject}]
    BY <1>10, <2>1 DEF Locate, SessionType
  <2>3. SessionType'
    BY <1>10, <2>2 DEF Locate, Goto, SessionType, Labels
  <2> QED
    BY <1>10, <2>3, <1>a, <1>b, <1>e, Zenon DEF Locate
<1>11. ASSUME NEW s \in Sessions, Announce(s) PROVE TypeOK'
  <2>1. [session |-> s, project |-> address[s]]
            \in [session : Sessions, project : Projects \cup {DefaultProject}]
    BY DEF SessionType
  <2>2. events' \in Seq([session : Sessions, project : Projects \cup {DefaultProject}])
    BY <1>11, <2>1, AppendFacts DEF Announce, SessionType
  <2>3. SessionType'
    BY <1>11, <2>2 DEF Announce, Goto, SessionType, Labels
  <2> QED
    BY <1>11, <2>3, <1>a, <1>b, <1>e, Zenon DEF Announce
<1>12. ASSUME NEW s \in Sessions, Respond(s) PROVE TypeOK'
  <2>1. SessionType'
    BY <1>12 DEF Respond, Goto, SessionType, Labels
  <2> QED
    BY <1>12, <2>1, <1>a, <1>b, <1>e, Zenon DEF Respond
<1>13. ASSUME NEW s \in Sessions, DispatchWebhook(s) PROVE TypeOK'
  <2>1. SessionType'
    BY <1>13 DEF DispatchWebhook, SessionType
  <2> QED
    BY <1>13, <2>1, <1>a, <1>b, <1>e, Zenon DEF DispatchWebhook
<1>14. ASSUME NEW d \in Readers, ReadOverride(d) PROVE TypeOK'
  <2>1. LatestAuthor(reading[d]) \in Sessions \cup {NoSession}
    BY LatestAuthorFacts, Zenon DEF Authors
  <2>2. ReaderType'
    <3>1. /\ reading' \in [Readers -> Runs \cup {NoRun}]
          /\ rpc' \in [Readers -> {"idle", "looked", "not found", "done", "crashed"}]
      BY <1>14 DEF ReadOverride, ReaderType
    <3>2. CASE seen' = [seen EXCEPT ![d].author = LatestAuthor(reading[d])]
      BY <2>1, <3>1, <3>2 DEF ReaderType
    <3>3. CASE seen' = [seen EXCEPT ![d].failed = TRUE]
      BY <3>1, <3>3 DEF ReaderType
    <3> QED
      BY <1>14, <3>2, <3>3, Zenon DEF ReadOverride
  <2>3. SessionType'
    BY <1>14 DEF ReadOverride, SessionType, outVars
  <2> QED
    BY <1>14, <2>2, <2>3, <1>a, <1>e, Zenon DEF ReadOverride
<1>15. ASSUME NEW d \in Readers, NEW r \in Runs, ReadRun(d, r) PROVE TypeOK'
  <2>1. Present(r) => rows[r].status \in Verdict \cup {"OVERRIDDEN", "none"}
    BY DEF Present, DbType, Row
  <2>2. ReaderType'
    <3>1. reading' \in [Readers -> Runs \cup {NoRun}]
      BY <1>15 DEF ReadRun, ReaderType
    <3>2. CASE rpc' = [rpc EXCEPT ![d] = "not found"] /\ UNCHANGED seen
      BY <3>1, <3>2 DEF ReaderType
    <3>3. CASE /\ Present(r) /\ rpc' = [rpc EXCEPT ![d] = "looked"]
               /\ seen' = [seen EXCEPT ![d].status = rows[r].status]
      <4>1. rows[r].status \in Verdict \cup {"OVERRIDDEN", "none"}
        BY <2>1, <3>3
      <4>2. rpc' \in [Readers -> {"idle", "looked", "not found", "done", "crashed"}]
        BY <3>3 DEF ReaderType
      <4>3. seen' \in [Readers -> [status : Verdict \cup {"OVERRIDDEN", "none"},
                                   author : Sessions \cup {NoSession}, failed : BOOLEAN]]
        BY <3>3, <4>1 DEF ReaderType
      <4> QED
        BY <3>1, <4>2, <4>3 DEF ReaderType
    <3> QED
      BY <1>15, <3>2, <3>3, Zenon DEF ReadRun
  <2>3. SessionType'
    BY <1>15 DEF ReadRun, SessionType, outVars
  <2> QED
    BY <1>15, <2>2, <2>3, <1>a, <1>e, <1>f, Zenon DEF ReadRun
<1>16. ASSUME Crash PROVE TypeOK'
  <2>1. DbType'
    BY <1>16 DEF Crash, DbType
  <2>2. SessionType'
    BY <1>16 DEF Crash, SessionType, Labels
  <2>3. ReaderType'
    BY <1>16 DEF Crash, ReaderType
  <2> QED
    BY <1>16, <2>1, <2>2, <2>3, <1>e, Zenon DEF Crash
<1>17. ASSUME UNCHANGED vars PROVE TypeOK'
  <2>1. UNCHANGED <<dbVars, target, pc, outVars, readerVars, faults>>
    BY <1>17 DEF vars, dbVars, outVars, readerVars
  <2>2. SessionType'
    BY <2>1 DEF SessionType, outVars
  <2> QED
    BY <2>1, <2>2, <1>a, <1>b, <1>e, Zenon
<1> QED
  BY <1>1, <1>2, <1>3, <1>4, <1>5, <1>7, <1>8, <1>9, <1>10, <1>11, <1>12, <1>13,
     <1>14, <1>15, <1>16, <1>17, Zenon DEF Next, Handle

-----------------------------------------------------------------------------
(***************************************************************************)
(* Only a worker's insert and a commit change the ledger.                  *)
(***************************************************************************)
Commits(s) == Commit(s) \/ CommitUnacknowledged(s)

LEMMA StepKinds ==
    [Next]_vars => \/ UNCHANGED <<rows, trail>>
                   \/ \E r \in Runs : InsertDiffRun(r)
                   \/ \E s \in Sessions : Commits(s)
<1> SUFFICES ASSUME [Next]_vars, \A r \in Runs : ~InsertDiffRun(r),
                    \A s \in Sessions : ~Commits(s)
             PROVE  UNCHANGED <<rows, trail>>
  BY Zenon
<1>1. CASE UNCHANGED vars
  BY <1>1 DEF vars
<1>2. CASE \E s \in Sessions : \/ Refuse(s) \/ (\E r \in Runs : Begin(s, r))
                               \/ Handle(s) \/ DispatchWebhook(s)
  BY <1>2 DEF Commits, Handle, dbVars, Refuse, Begin, InsertAudit, UpdateStatus,
     TransactionFails, Locate, Announce, Respond, DispatchWebhook
<1>3. CASE \E d \in Readers : ReadOverride(d) \/ \E r \in Runs : ReadRun(d, r)
  BY <1>3 DEF dbVars, ReadOverride, ReadRun
<1>4. CASE Crash
  BY <1>4 DEF Crash
<1> QED
  BY <1>1, <1>2, <1>3, <1>4, Zenon DEF Next

\* A commit finds its run and no record of its session.
LEMMA CommitFacts ==
    ASSUME SessionsConsistent, NEW s \in Sessions, Commits(s)
    PROVE  /\ pc[s] = "updated" /\ Apply(s) /\ UNCHANGED <<began, target>>
           /\ target[s] \in Runs /\ Present(target[s]) /\ ~Recorded(s)
           /\ UNCHANGED <<outVars, readerVars>>
<1>1. pc[s] = "updated" /\ Apply(s) /\ UNCHANGED <<began, target>>
      /\ UNCHANGED <<outVars, readerVars>>
  BY DEF Commits, Commit, CommitUnacknowledged
<1> QED
  BY <1>1 DEF SessionsConsistent

\* What the predicates over the ledger say when the ledger does not change.
LEMMA QuietFacts ==
    ASSUME UNCHANGED <<rows, trail>>
    PROVE  /\ \A s : Recorded(s)' <=> Recorded(s)
           /\ \A r : Present(r)' <=> Present(r)
           /\ \A r : Overridden(r)' <=> Overridden(r)
  BY Zenon DEF Recorded, Present, Overridden

\* A new row is not overridden, and no row goes away.
LEMMA InsertFacts ==
    ASSUME TypeOK, NEW q \in Runs, InsertDiffRun(q)
    PROVE  /\ UNCHANGED <<trail, began, target, pc, outVars, readerVars>>
           /\ \A s : Recorded(s)' <=> Recorded(s)
           /\ \A r \in Runs : Present(r) => Present(r)'
           /\ \A r \in Runs : Overridden(r)' <=> Overridden(r)
<1>1. /\ ~Present(q)
      /\ UNCHANGED <<trail, began, target, pc, outVars, readerVars>>
  BY DEF InsertDiffRun
<1>2. PICK p \in Projects, v \in Verdict :
         rows' = [rows EXCEPT ![q] = [project |-> p, verdict |-> v, status |-> v]]
  BY DEF InsertDiffRun
<1>3. rows \in [Runs -> Row \cup {NoRow}]
  BY Zenon DEF TypeOK
<1>4. rows'[q].status # "OVERRIDDEN" /\ \A r \in Runs : r # q => rows'[r] = rows[r]
  BY <1>2, <1>3 DEF Verdict
<1>5. \A s : Recorded(s)' <=> Recorded(s)
  BY <1>1, Zenon DEF Recorded
<1>6. \A r \in Runs : Present(r) => Present(r)'
  BY <1>1, <1>4, Zenon DEF Present
<1>7. \A r \in Runs : Overridden(r)' <=> Overridden(r)
  BY <1>1, <1>4, Zenon DEF Overridden, Present
<1> QED
  BY <1>1, <1>5, <1>6, <1>7, Zenon

\* An overridden run stays overridden and a record stays in the ledger.
LEMMA LedgerGrows ==
    ASSUME TypeOK, SessionsConsistent, [Next]_vars
    PROVE  /\ \A s \in Sessions : Recorded(s) => Recorded(s)'
           /\ \A r \in Runs : Present(r) => Present(r)'
           /\ \A r \in Runs : Overridden(r) => Overridden(r)'
<1>1. CASE UNCHANGED <<rows, trail>>
  BY <1>1, QuietFacts, Zenon
<1>2. ASSUME NEW r \in Runs, InsertDiffRun(r) 
      PROVE  /\ \A s \in Sessions : Recorded(s) => Recorded(s)'
             /\ \A q \in Runs : Present(q) => Present(q)'
             /\ \A q \in Runs : Overridden(q) => Overridden(q)'
  BY <1>2, InsertFacts, Zenon
<1>3. ASSUME NEW s \in Sessions, Commits(s)
      PROVE  /\ \A x \in Sessions : Recorded(x) => Recorded(x)'
             /\ \A q \in Runs : Present(q) => Present(q)'
             /\ \A q \in Runs : Overridden(q) => Overridden(q)'
  <2>1. /\ Apply(s) /\ UNCHANGED target
        /\ target[s] \in Runs /\ Present(target[s])
    BY <1>3, CommitFacts
  <2> QED
    BY <2>1, ApplyFacts, ApplyRecords, Zenon
<1> QED
  BY <1>1, <1>2, <1>3, StepKinds, Zenon

\* A request names its run once, when its transaction begins.
LEMMA TargetChanges ==
    ASSUME [Next]_vars
    PROVE  UNCHANGED target \/ \E s \in Sessions, r \in Runs : Begin(s, r)
<1>1. CASE UNCHANGED vars
  BY <1>1 DEF vars
<1>2. CASE \E r \in Runs : InsertDiffRun(r)
  BY <1>2 DEF InsertDiffRun
<1>3. CASE \E s \in Sessions : Refuse(s) \/ Handle(s) \/ DispatchWebhook(s)
  BY <1>3 DEF Handle, Refuse, InsertAudit, UpdateStatus, Commit, CommitUnacknowledged,
     TransactionFails, Locate, Announce, Respond, DispatchWebhook
<1>4. CASE \E d \in Readers : ReadOverride(d) \/ \E r \in Runs : ReadRun(d, r)
  BY <1>4 DEF ReadOverride, ReadRun
<1>5. CASE Crash
  BY <1>5 DEF Crash
<1> QED
  BY <1>1, <1>2, <1>3, <1>4, <1>5, Zenon DEF Next

-----------------------------------------------------------------------------
(***************************************************************************)
(* Every step keeps the ledger and its audit records together.             *)
(***************************************************************************)
LEMMA AuditStep ==
    TypeOK /\ SessionsConsistent /\ OverriddenIffAudited /\ [Next]_vars
        => OverriddenIffAudited'
<1> SUFFICES ASSUME TypeOK, SessionsConsistent, OverriddenIffAudited, [Next]_vars
             PROVE  OverriddenIffAudited'
  OBVIOUS
<1> DEFINE Audited(r) == \E k \in DOMAIN trail : trail[k].run = r
<1>0. OverriddenIffAudited <=> \A r \in Runs : Overridden(r) <=> Audited(r)
  BY Zenon DEF OverriddenIffAudited, Trail!OverriddenIffAudited, Overridden, Present
<1>1. CASE UNCHANGED <<rows, trail>>
  BY <1>1, Zenon DEF OverriddenIffAudited, Trail!OverriddenIffAudited
<1>2. ASSUME NEW q \in Runs, InsertDiffRun(q) PROVE OverriddenIffAudited'
  <2>1. UNCHANGED trail /\ \A r \in Runs : Overridden(r)' <=> Overridden(r)
    BY <1>2, InsertFacts
  <2>2. \A r \in Runs : Overridden(r)' <=> Audited(r)'
    BY <1>0, <2>1, Zenon
  <2> QED
    BY <2>2, Zenon DEF OverriddenIffAudited, Trail!OverriddenIffAudited, Overridden, Present
<1>3. ASSUME NEW s \in Sessions, Commits(s) PROVE OverriddenIffAudited'
  <2>1. /\ Apply(s) /\ UNCHANGED target
        /\ target[s] \in Runs /\ Present(target[s])
    BY <1>3, CommitFacts
  <2>2. ASSUME NEW r \in Runs PROVE Audited(r)' <=> (Audited(r) \/ r = target[s])
    <3>1. /\ \A k \in DOMAIN trail : k \in DOMAIN trail' /\ trail'[k] = trail[k]
          /\ Len(trail) + 1 \in DOMAIN trail'
          /\ \A k \in DOMAIN trail' : k \in DOMAIN trail \/ k = Len(trail) + 1
          /\ trail'[Len(trail) + 1] = [session |-> s, run |-> target[s]]
      BY <2>1, ApplyFacts, Zenon
    <3>2. trail'[Len(trail) + 1].run = target[s]
      BY <3>1
    <3> QED
      BY <3>1, <3>2, Zenon
  <2>3. \A r \in Runs : Overridden(r)' <=> (Overridden(r) \/ r = target[s])
    BY <2>1, ApplyFacts, Zenon
  <2>4. \A r \in Runs : Overridden(r)' <=> Audited(r)'
    BY <1>0, <2>2, <2>3, Zenon
  <2> QED
    BY <2>4, Zenon DEF OverriddenIffAudited, Trail!OverriddenIffAudited, Overridden, Present
<1> QED
  BY <1>1, <1>2, <1>3, StepKinds, Zenon

-----------------------------------------------------------------------------
(***************************************************************************)
(* Every step keeps the sessions consistent with the ledger.  The first    *)
(* lemma says it of the records, the second of the sessions.               *)
(***************************************************************************)
SessionConsistent(s) ==
    /\ pc[s] \notin {"idle", "refused"} => target[s] \in Runs
    /\ pc[s] \in {"inserted", "updated"} => Present(target[s]) /\ ~Recorded(s)
    /\ pc[s] \in {"committed", "located", "announced", "done"} => Recorded(s)
    /\ Recorded(s) => pc[s] \notin {"idle", "refused", "begun"}

RecordsConsistent ==
    \A k \in DOMAIN trail :
        trail[k].run = target[trail[k].session] /\ Present(trail[k].run)

\* SessionsConsistent, in its two parts.
LEMMA SessionsParts ==
    SessionsConsistent <=> (\A s \in Sessions : SessionConsistent(s)) /\ RecordsConsistent
  BY Zenon DEF SessionsConsistent, SessionConsistent, RecordsConsistent

\* A record stays of the run its session was asked for.
LEMMA RecordsStep ==
    ASSUME TypeOK, SessionsConsistent, [Next]_vars
    PROVE  RecordsConsistent'
<1>0. RecordsConsistent /\ \A s \in Sessions : SessionConsistent(s)
  BY SessionsParts, Zenon
<1>r. ASSUME NEW k \in DOMAIN trail
      PROVE  /\ trail[k].session \in Sessions /\ trail[k].run \in Runs
             /\ Recorded(trail[k].session)
  <2>1. trail \in Seq([session : Sessions, run : Runs])
    BY Zenon DEF TypeOK
  <2>2. trail[k] \in [session : Sessions, run : Runs]
    BY <2>1, ElementFacts
  <2>3. Recorded(trail[k].session)
    BY Zenon DEF Recorded
  <2> QED
    BY <2>2, <2>3
<1>1. CASE \E s \in Sessions : Commits(s)
  <2>1. PICK s \in Sessions : Commits(s)
    BY <1>1, Zenon
  <2>2. Apply(s) /\ UNCHANGED target /\ target[s] \in Runs /\ Present(target[s])
    BY <2>1, CommitFacts
  <2>3. /\ \A k \in DOMAIN trail : trail'[k] = trail[k]
        /\ \A k \in DOMAIN trail' : k \in DOMAIN trail \/ k = Len(trail) + 1
        /\ trail'[Len(trail) + 1] = [session |-> s, run |-> target[s]]
        /\ \A r \in Runs : rows'[r] # NoRow <=> rows[r] # NoRow
    BY <2>2, ApplyFacts, Zenon DEF Present
  <2>4. ASSUME NEW k \in DOMAIN trail
        PROVE  trail'[k].run = target'[trail'[k].session] /\ rows'[trail'[k].run] # NoRow
    <3>1. trail'[k] = trail[k] /\ trail[k].run \in Runs
      BY <2>3, <1>r, Zenon
    <3> QED
      BY <1>0, <2>2, <2>3, <3>1, Zenon DEF RecordsConsistent, Present
  <2>5. ASSUME NEW k, k = Len(trail) + 1
        PROVE  trail'[k].run = target'[trail'[k].session] /\ rows'[trail'[k].run] # NoRow
    <3>1. trail'[k].run = target[s] /\ trail'[k].session = s
      BY <2>3, <2>5
    <3> QED
      BY <2>2, <2>3, <3>1, Zenon DEF Present
  <2> QED
    BY <2>3, <2>4, <2>5, Zenon DEF RecordsConsistent, Present
<1>2. CASE ~\E s \in Sessions : Commits(s)
  <2>1. UNCHANGED trail
    <3>1. ASSUME NEW r \in Runs, InsertDiffRun(r) PROVE UNCHANGED trail
      BY <3>1, InsertFacts
    <3> QED
      BY <1>2, <3>1, StepKinds, Zenon
  <2>2. ASSUME NEW k \in DOMAIN trail
        PROVE  target'[trail[k].session] = target[trail[k].session]
    <3> DEFINE x == trail[k].session
    <3>1. x \in Sessions /\ Recorded(x)
      BY <1>r
    <3>2. pc[x] # "idle"
      BY <1>0, <3>1 DEF SessionConsistent
    <3>3. ASSUME NEW s \in Sessions, NEW r \in Runs, Begin(s, r) PROVE target'[x] = target[x]
      BY <3>1, <3>2, <3>3 DEF Begin, TypeOK
    <3>4. CASE UNCHANGED target
      BY <3>4
    <3>5. UNCHANGED target \/ \E s \in Sessions, r \in Runs : Begin(s, r)
      BY TargetChanges, Zenon
    <3> QED
      BY <3>3, <3>4, <3>5, Zenon
  <2>3. \A r \in Runs : Present(r) => Present(r)'
    BY LedgerGrows, Zenon
  <2> QED
    BY <1>0, <1>r, <2>1, <2>2, <2>3, Zenon DEF RecordsConsistent
<1> QED
  BY <1>1, <1>2, Zenon

\* A session stays consistent when it does not move and no other one records it.
LEMMA SessionQuiet ==
    ASSUME TypeOK, NEW s \in Sessions, SessionConsistent(s),
           pc'[s] = pc[s], target'[s] = target[s], Recorded(s)' <=> Recorded(s),
           \A r \in Runs : Present(r) => Present(r)'
    PROVE  SessionConsistent(s)'
<1>1. pc[s] \in {"inserted", "updated"} => target[s] \in Runs
  BY DEF SessionConsistent
<1> QED
  BY <1>1 DEF SessionConsistent

\* The session part: whichever step is taken, by that session or by another one.
LEMMA SessionStep ==
    ASSUME TypeOK, SessionsConsistent, [Next]_vars, NEW s \in Sessions
    PROVE  SessionConsistent(s)'
<1>0. SessionConsistent(s) /\ \A r \in Runs : Present(r) => Present(r)'
  BY SessionsParts, LedgerGrows, Zenon
<1>t. pc \in [Sessions -> Labels] /\ target \in [Sessions -> Runs \cup {NoRun}]
  BY Zenon DEF TypeOK
<1>g. ASSUME NEW x \in Sessions, NEW label, Goto(x, label)
      PROVE  /\ x # s => pc'[s] = pc[s]
             /\ x = s => pc'[s] = label
  BY <1>g, <1>t DEF Goto
<1>o. ASSUME NEW x \in Sessions, NEW label, x # s, Goto(x, label),
             UNCHANGED <<rows, trail, target>>
      PROVE  SessionConsistent(s)'
  BY <1>0, <1>o, <1>g, SessionQuiet, QuietFacts, Zenon
<1>u. CASE UNCHANGED <<rows, trail, target, pc>>
  BY <1>u, <1>0, SessionQuiet, QuietFacts, Zenon
<1>1. ASSUME NEW r \in Runs, InsertDiffRun(r) PROVE SessionConsistent(s)'
  <2>1. UNCHANGED <<target, pc>> /\ (Recorded(s)' <=> Recorded(s))
    BY <1>1, InsertFacts, Zenon
  <2> QED
    BY <2>1, <1>0, SessionQuiet, Zenon
<1>2. ASSUME NEW x \in Sessions, Refuse(x) PROVE SessionConsistent(s)'
  <2>1. pc[x] = "idle" /\ Goto(x, "refused") /\ UNCHANGED <<rows, trail, target>>
    BY <1>2 DEF Refuse, dbVars
  <2>2. CASE x = s
    BY <2>1, <2>2, <1>0, <1>g, QuietFacts DEF SessionConsistent
  <2> QED
    BY <2>1, <2>2, <1>o, Zenon
<1>3. ASSUME NEW x \in Sessions, NEW r \in Runs, Begin(x, r) PROVE SessionConsistent(s)'
  <2>1. /\ pc[x] = "idle" /\ Goto(x, "begun") /\ UNCHANGED <<rows, trail>>
        /\ target' = [target EXCEPT ![x] = r]
    BY <1>3 DEF Begin
  <2>2. CASE x = s
    <3>1. target'[s] \in Runs /\ pc'[s] = "begun" /\ ~Recorded(s)'
      BY <2>1, <2>2, <1>0, <1>t, <1>g, QuietFacts DEF SessionConsistent
    <3> QED
      BY <3>1 DEF SessionConsistent
  <2>3. CASE x # s
    <3>1. target'[s] = target[s] /\ pc'[s] = pc[s]
      BY <2>1, <2>3, <1>t, <1>g
    <3> QED
      BY <2>1, <3>1, <1>0, SessionQuiet, QuietFacts, Zenon
  <2> QED
    BY <2>2, <2>3
<1>4. ASSUME NEW x \in Sessions, InsertAudit(x) PROVE SessionConsistent(s)'
  <2>1. /\ pc[x] = "begun" /\ Present(target[x])
        /\ Goto(x, "inserted") /\ UNCHANGED <<rows, trail, target>>
    BY <1>4 DEF InsertAudit, dbVars
  <2>2. CASE x = s
    BY <2>1, <2>2, <1>0, <1>g, QuietFacts DEF SessionConsistent, Present
  <2> QED
    BY <2>1, <2>2, <1>o, Zenon
<1>5. ASSUME NEW x \in Sessions, UpdateStatus(x) PROVE SessionConsistent(s)'
  <2>1. pc[x] = "inserted" /\ Goto(x, "updated") /\ UNCHANGED <<rows, trail, target>>
    BY <1>5 DEF UpdateStatus
  <2>2. CASE x = s
    BY <2>1, <2>2, <1>0, <1>g, QuietFacts DEF SessionConsistent, Present
  <2> QED
    BY <2>1, <2>2, <1>o, Zenon
<1>6. ASSUME NEW x \in Sessions, Commits(x) PROVE SessionConsistent(s)'
  <2>1. /\ pc[x] = "updated" /\ Apply(x) /\ UNCHANGED target
        /\ target[x] \in Runs /\ Present(target[x])
    BY <1>6, CommitFacts
  <2>2. Recorded(s)' <=> (Recorded(s) \/ s = x)
    BY <2>1, ApplyRecords, Zenon
  <2>3. \E label \in {"committed", "failed"} : Goto(x, label)
    BY <1>6 DEF Commits, Commit, CommitUnacknowledged
  <2>4. CASE x = s
    <3>1. pc'[s] \in {"committed", "failed"} /\ Recorded(s)' /\ target'[s] \in Runs
      BY <2>1, <2>2, <2>3, <2>4, <1>g
    <3> QED
      BY <3>1 DEF SessionConsistent
  <2>5. CASE x # s
    BY <2>1, <2>2, <2>3, <2>5, <1>0, <1>g, SessionQuiet, Zenon
  <2> QED
    BY <2>4, <2>5
<1>7. ASSUME NEW x \in Sessions, TransactionFails(x) PROVE SessionConsistent(s)'
  <2>1. /\ pc[x] \in {"begun", "inserted", "updated"} /\ Goto(x, "failed")
        /\ UNCHANGED <<rows, trail, target>>
    BY <1>7 DEF TransactionFails
  <2>2. CASE x = s
    BY <2>1, <2>2, <1>0, <1>g, QuietFacts DEF SessionConsistent
  <2> QED
    BY <2>1, <2>2, <1>o, Zenon
<1>8. ASSUME NEW x \in Sessions, Locate(x) \/ Announce(x) \/ Respond(x)
      PROVE  SessionConsistent(s)'
  <2>1. /\ pc[x] \in {"committed", "located", "announced"}
        /\ \E label \in {"located", "announced", "done"} : Goto(x, label)
        /\ UNCHANGED <<rows, trail, target>>
    BY <1>8 DEF Locate, Announce, Respond, dbVars
  <2>2. CASE x = s
    BY <2>1, <2>2, <1>0, <1>g, QuietFacts DEF SessionConsistent
  <2> QED
    BY <2>1, <2>2, <1>o, Zenon
<1>9. ASSUME NEW x \in Sessions, DispatchWebhook(x) PROVE SessionConsistent(s)'
  BY <1>9, <1>u, Zenon DEF DispatchWebhook, dbVars
<1>10. ASSUME NEW d \in Readers, ReadOverride(d) \/ \E r \in Runs : ReadRun(d, r)
       PROVE  SessionConsistent(s)'
  BY <1>10, <1>u, Zenon DEF ReadOverride, ReadRun, dbVars
<1>11. ASSUME Crash PROVE SessionConsistent(s)'
  <2>1. UNCHANGED <<rows, trail, target>>
    BY <1>11 DEF Crash
  <2>2. CASE pc'[s] = pc[s]
    BY <2>1, <2>2, <1>0, SessionQuiet, QuietFacts, Zenon
  <2>3. CASE pc'[s] # pc[s]
    <3>1. pc[s] \notin {"idle", "refused"} /\ pc'[s] = "crashed"
      BY <1>11, <2>3, <1>t DEF Crash
    <3> QED
      BY <2>1, <3>1, <1>0, QuietFacts DEF SessionConsistent
  <2> QED
    BY <2>2, <2>3
<1>12. CASE UNCHANGED vars
  BY <1>12, <1>u DEF vars
<1> QED
  BY <1>1, <1>2, <1>3, <1>4, <1>5, <1>6, <1>7, <1>8, <1>9, <1>10, <1>11, <1>12,
     Zenon DEF Next, Handle, Commits

\* Every step keeps the sessions consistent with the ledger.
LEMMA SessionsStep == TypeOK /\ SessionsConsistent /\ [Next]_vars => SessionsConsistent'
<1> SUFFICES ASSUME TypeOK, SessionsConsistent, [Next]_vars PROVE SessionsConsistent'
  OBVIOUS
<1>1. RecordsConsistent' /\ \A s \in Sessions : SessionConsistent(s)'
  BY RecordsStep, SessionStep, Zenon
<1> QED
  BY <1>1, Zenon DEF SessionsConsistent, SessionConsistent, RecordsConsistent

-----------------------------------------------------------------------------
\* Only Announce sends an event, only Respond answers and starts a webhook.
LEMMA AnnouncementKinds ==
    ASSUME TypeOK, [Next]_vars
    PROVE  /\ UNCHANGED events \/ \E s \in Sessions : Announce(s)
           /\ \A s \in Sessions :
                (pc'[s] = "done" \/ webhook'[s] # "none")
                    => (pc[s] = "done" \/ webhook[s] # "none" \/ pc[s] = "announced")
<1> DEFINE Goal == /\ UNCHANGED events \/ \E s \in Sessions : Announce(s)
                   /\ \A s \in Sessions :
                        (pc'[s] = "done" \/ webhook'[s] # "none")
                            => (pc[s] = "done" \/ webhook[s] # "none" \/ pc[s] = "announced")
<1>t. /\ pc \in [Sessions -> Labels]
      /\ webhook \in [Sessions -> {"none", "pending", "delivered", "lost"}]
  BY Zenon DEF TypeOK
<1>1. CASE UNCHANGED vars
  BY <1>1 DEF vars
<1>2. ASSUME NEW r \in Runs, InsertDiffRun(r) PROVE Goal
  BY <1>2 DEF InsertDiffRun, outVars
<1>3. ASSUME NEW s \in Sessions, Refuse(s) \/ \E r \in Runs : Begin(s, r) PROVE Goal
  BY <1>3, <1>t DEF Refuse, Begin, Goto, outVars
<1>4. ASSUME NEW s \in Sessions, InsertAudit(s) \/ UpdateStatus(s) PROVE Goal
  BY <1>4, <1>t DEF InsertAudit, UpdateStatus, Goto, outVars
<1>5. ASSUME NEW s \in Sessions,
             Commit(s) \/ CommitUnacknowledged(s) \/ TransactionFails(s)
      PROVE  Goal
  BY <1>5, <1>t DEF Commit, CommitUnacknowledged, TransactionFails, Goto, outVars
<1>6. ASSUME NEW s \in Sessions, Locate(s) PROVE Goal
  BY <1>6, <1>t DEF Locate, Goto
<1>7. ASSUME NEW s \in Sessions, Announce(s) PROVE Goal
  BY <1>7, <1>t DEF Announce, Goto
<1>8. ASSUME NEW s \in Sessions, Respond(s) PROVE Goal
  BY <1>8, <1>t DEF Respond, Goto
<1>9. ASSUME NEW s \in Sessions, DispatchWebhook(s) PROVE Goal
  BY <1>9, <1>t DEF DispatchWebhook
<1>10. ASSUME NEW d \in Readers, ReadOverride(d) \/ \E r \in Runs : ReadRun(d, r)
       PROVE  Goal
  BY <1>10 DEF ReadOverride, ReadRun, outVars
<1>11. ASSUME Crash PROVE Goal
  BY <1>11, <1>t DEF Crash
<1> QED
  BY <1>1, <1>2, <1>3, <1>4, <1>5, <1>6, <1>7, <1>8, <1>9, <1>10, <1>11, Zenon
     DEF Next, Handle

\* Every step announces only what the ledger records.
LEMMA AnnouncedStep ==
    TypeOK /\ SessionsConsistent /\ AnnouncedIsRecorded /\ [Next]_vars => AnnouncedIsRecorded'
<1> SUFFICES ASSUME TypeOK, SessionsConsistent, AnnouncedIsRecorded, [Next]_vars
             PROVE  AnnouncedIsRecorded'
  OBVIOUS
<1>1. \A s \in Sessions : Recorded(s) => Recorded(s)'
  BY LedgerGrows, Zenon
<1>2. \A s \in Sessions : pc[s] \in {"located", "announced"} => Recorded(s)
  BY DEF SessionsConsistent
<1>3. ASSUME NEW s \in Sessions, pc'[s] = "done" \/ webhook'[s] # "none"
      PROVE  Recorded(s)'
  <2>1. pc[s] = "done" \/ webhook[s] # "none" \/ pc[s] = "announced"
    BY <1>3, AnnouncementKinds, Zenon
  <2> QED
    BY <2>1, <1>1, <1>2 DEF AnnouncedIsRecorded
<1>e. events \in Seq([session : Sessions, project : Projects \cup {DefaultProject}])
  BY Zenon DEF TypeOK
<1>4. ASSUME NEW k \in DOMAIN events
      PROVE  events[k].session \in Sessions /\ Recorded(events[k].session)
  <2>1. events[k] \in [session : Sessions, project : Projects \cup {DefaultProject}]
    BY <1>e, ElementFacts
  <2> QED
    BY <2>1 DEF AnnouncedIsRecorded
<1>5. CASE UNCHANGED events
  BY <1>1, <1>3, <1>4, <1>5, Zenon DEF AnnouncedIsRecorded, Recorded
<1>6. ASSUME NEW s \in Sessions, Announce(s) PROVE AnnouncedIsRecorded'
  <2> DEFINE e == [session |-> s, project |-> address[s]]
  <2>1. events' = Append(events, e) /\ pc[s] = "located" /\ UNCHANGED trail
    BY <1>6 DEF Announce, dbVars
  <2>2. e \in [session : Sessions, project : Projects \cup {DefaultProject}]
    BY DEF TypeOK
  <2>3. /\ \A k \in DOMAIN events' : k \in DOMAIN events \/ k = Len(events) + 1
        /\ \A k \in DOMAIN events : events'[k] = events[k]
        /\ events'[Len(events) + 1] = e
    BY <2>1, <2>2, <1>e, AppendFacts
  <2>4. \A k \in DOMAIN events' : events'[k].session \in Sessions
                                   /\ Recorded(events'[k].session)
    <3>1. e.session = s /\ Recorded(s)
      BY <2>1, <1>2
    <3> QED
      BY <2>3, <3>1, <1>4, Zenon
  <2>5. ASSUME NEW k \in DOMAIN events' PROVE Recorded(events[k].session)'
    BY <2>1, <2>4, Zenon DEF Recorded
  <2>6. \A x \in Sessions : pc'[x] = "done" \/ webhook'[x] # "none" => Recorded(x)'
    BY <1>3, Zenon
  <2> QED
    BY <2>5, <2>6, Zenon DEF AnnouncedIsRecorded
<1> QED
  BY <1>5, <1>6, AnnouncementKinds, Zenon

-----------------------------------------------------------------------------
\* Every step keeps the order in which the transactions began.
LEMMA BegunStep == TypeOK /\ HasBegun /\ [Next]_vars => HasBegun'
<1> SUFFICES ASSUME TypeOK, HasBegun, [Next]_vars PROVE HasBegun'
  OBVIOUS
<1>t. pc \in [Sessions -> Labels] /\ began \in Seq(Sessions)
  BY Zenon DEF TypeOK
<1> DEFINE Quiet == /\ UNCHANGED began
                    /\ \A s \in Sessions : pc'[s] \notin {"idle", "refused"}
                                              => pc[s] \notin {"idle", "refused"}
<1>q. CASE Quiet
  BY <1>q, Zenon DEF HasBegun
<1>1. CASE UNCHANGED vars
  BY <1>1 DEF vars, HasBegun
<1>2. ASSUME NEW r \in Runs, InsertDiffRun(r) PROVE Quiet
  BY <1>2 DEF InsertDiffRun
<1>3. ASSUME NEW s \in Sessions, Refuse(s) PROVE Quiet
  BY <1>3, <1>t DEF Refuse, Goto, dbVars
<1>4. ASSUME NEW s \in Sessions, NEW r \in Runs, Begin(s, r) PROVE HasBegun'
  <2>1. /\ \A k \in DOMAIN began : k \in DOMAIN began' /\ began'[k] = began[k]
        /\ Len(began) + 1 \in DOMAIN began' /\ began'[Len(began) + 1] = s
    BY <1>4, <1>t, AppendFacts DEF Begin
  <2>2. \A x \in Sessions : x # s => pc'[x] = pc[x]
    BY <1>4, <1>t DEF Begin, Goto
  <2> QED
    BY <2>1, <2>2, Zenon DEF HasBegun
<1>5. ASSUME NEW s \in Sessions, Handle(s) PROVE Quiet
  <2>1. CASE InsertAudit(s) \/ UpdateStatus(s)
    BY <2>1, <1>t DEF InsertAudit, UpdateStatus, Goto, dbVars
  <2>2. CASE Commit(s) \/ CommitUnacknowledged(s) \/ TransactionFails(s)
    BY <2>2, <1>t DEF Commit, CommitUnacknowledged, TransactionFails, Goto
  <2>3. CASE Locate(s) \/ Announce(s) \/ Respond(s)
    BY <2>3, <1>t DEF Locate, Announce, Respond, Goto, dbVars
  <2> QED
    BY <1>5, <2>1, <2>2, <2>3 DEF Handle
<1>6. ASSUME NEW s \in Sessions, DispatchWebhook(s) PROVE Quiet
  BY <1>6 DEF DispatchWebhook, dbVars
<1>7. ASSUME NEW d \in Readers, ReadOverride(d) \/ \E r \in Runs : ReadRun(d, r)
      PROVE  Quiet
  BY <1>7 DEF ReadOverride, ReadRun, dbVars
<1>8. ASSUME Crash PROVE Quiet
  BY <1>8, <1>t DEF Crash
<1> QED
  BY <1>q, <1>1, <1>2, <1>3, <1>4, <1>5, <1>6, <1>7, <1>8, Zenon DEF Next

-----------------------------------------------------------------------------
\* Apart from the readers' own steps and a crash, what they have read stays.
LEMMA ReaderQuiet ==
    ASSUME [Next]_vars
    PROVE  \/ UNCHANGED readerVars
           \/ \E d \in Readers : ReadOverride(d)
           \/ \E d \in Readers, r \in Runs : ReadRun(d, r)
           \/ Crash
<1>1. CASE UNCHANGED vars
  BY <1>1 DEF vars, readerVars
<1>2. CASE \E r \in Runs : InsertDiffRun(r)
  BY <1>2 DEF InsertDiffRun
<1>3. CASE \E s \in Sessions : \/ Refuse(s) \/ (\E r \in Runs : Begin(s, r))
                               \/ Handle(s) \/ DispatchWebhook(s)
  BY <1>3 DEF Handle, Refuse, Begin, InsertAudit, UpdateStatus, Commit,
     CommitUnacknowledged, TransactionFails, Locate, Announce, Respond, DispatchWebhook
<1> QED
  BY <1>1, <1>2, <1>3, Zenon DEF Next

(***************************************************************************)
(* Every step keeps the readers informed: between its two reads, a run     *)
(* that a reader saw overridden keeps its record, so the second read finds *)
(* an author.                                                              *)
(***************************************************************************)
LEMMA ReadersStep ==
    ASSUME IInv, [Next]_vars
    PROVE  SeenOverridden' /\ ShownOverrideIsExplained'
<1>i. TypeOK /\ SessionsConsistent /\ OverriddenIffAudited /\ HasBegun
      /\ SeenOverridden /\ ShownOverrideIsExplained
  BY Zenon DEF IInv
<1>t. /\ rpc \in [Readers -> {"idle", "looked", "not found", "done", "crashed"}]
      /\ reading \in [Readers -> Runs \cup {NoRun}]
      /\ seen \in [Readers -> [status : Verdict \cup {"OVERRIDDEN", "none"},
                             author : Sessions \cup {NoSession}, failed : BOOLEAN]]
  BY <1>i, Zenon DEF TypeOK
<1>g. \A r \in Runs : Overridden(r) => Overridden(r)'
  BY <1>i, LedgerGrows, Zenon
<1>n. NoRun \notin Runs /\ NoSession \notin Sessions
  BY ConstantsAssumption
<1>1. CASE UNCHANGED readerVars
  <2>1. UNCHANGED <<reading, rpc, seen>>
    BY <1>1 DEF readerVars
  <2> QED
    BY <2>1, <1>i, <1>g, Zenon DEF SeenOverridden, ShownOverrideIsExplained, Overridden, Present
<1>2. ASSUME NEW d \in Readers, NEW r \in Runs, ReadRun(d, r)
      PROVE  SeenOverridden' /\ ShownOverrideIsExplained'
  <2>1. /\ rpc[d] = "idle"
        /\ reading' = [reading EXCEPT ![d] = r]
        /\ UNCHANGED rows
        /\ \/ /\ Present(r)
              /\ seen' = [seen EXCEPT ![d].status = rows[r].status]
              /\ rpc' = [rpc EXCEPT ![d] = "looked"]
           \/ rpc' = [rpc EXCEPT ![d] = "not found"] /\ UNCHANGED seen
    BY <1>2 DEF ReadRun, dbVars
  <2>2. ASSUME NEW x \in Readers, x # d
        PROVE  rpc'[x] = rpc[x] /\ reading'[x] = reading[x] /\ seen'[x] = seen[x]
    BY <2>1, <2>2, <1>t
  <2>3. /\ reading'[d] = r
        /\ rpc'[d] # "done"
        /\ rpc'[d] = "looked" => Present(r) /\ seen'[d].status = rows[r].status
    BY <2>1, <1>t
  <2>4. ASSUME NEW x \in Readers, rpc'[x] = "looked", seen'[x].status = "OVERRIDDEN"
        PROVE  reading'[x] \in Runs /\ Overridden(reading'[x])
    <3>1. CASE x = d
      BY <2>3, <2>4, <3>1 DEF Overridden
    <3>2. CASE x # d
      BY <2>2, <2>4, <3>2, <1>i, Zenon DEF SeenOverridden
    <3> QED
      BY <3>1, <3>2
  <2>5. SeenOverridden'
    BY <2>1, <2>4, Zenon DEF SeenOverridden, Overridden, Present
  <2>6. ShownOverrideIsExplained'
    BY <2>2, <2>3, <1>i, Zenon DEF ShownOverrideIsExplained
  <2> QED
    BY <2>5, <2>6, Zenon
<1>3. ASSUME NEW d \in Readers, ReadOverride(d)
      PROVE  SeenOverridden' /\ ShownOverrideIsExplained'
  <2>1. /\ rpc[d] = "looked"
        /\ rpc' = [rpc EXCEPT ![d] = "done"]
        /\ UNCHANGED <<rows, reading>>
        /\ \/ seen' = [seen EXCEPT ![d].author = LatestAuthor(reading[d])]
           \/ seen' = [seen EXCEPT ![d].failed = TRUE]
    BY <1>3 DEF ReadOverride, dbVars
  <2>2. ASSUME NEW x \in Readers, x # d
        PROVE  rpc'[x] = rpc[x] /\ seen'[x] = seen[x]
    BY <2>1, <2>2, <1>t
  <2>3. rpc'[d] = "done"
    BY <2>1, <1>t
  <2>4. SeenOverridden'
    BY <2>1, <2>2, <2>3, <1>i DEF SeenOverridden, Overridden, Present
  <2>5. CASE seen' = [seen EXCEPT ![d].failed = TRUE]
    <3>1. seen'[d].failed
      BY <2>5, <1>t
    <3> QED
      BY <2>2, <2>4, <3>1, <1>i, Zenon DEF ShownOverrideIsExplained
  <2>6. CASE seen' = [seen EXCEPT ![d].author = LatestAuthor(reading[d])]
    <3>1. /\ seen'[d].status = seen[d].status
          /\ seen'[d].author = LatestAuthor(reading[d])
      BY <2>6, <1>t
    <3>2. ASSUME seen[d].status = "OVERRIDDEN" PROVE seen'[d].author # NoSession
      <4> DEFINE r == reading[d]
      <4>1. r \in Runs /\ Overridden(r)
        BY <2>1, <3>2, <1>i, Zenon DEF SeenOverridden
      <4>2. PICK k \in DOMAIN trail : trail[k].run = r
        BY <4>1, <1>i, Zenon
           DEF OverriddenIffAudited, Trail!OverriddenIffAudited, Overridden, Present
      <4>3. trail[k] \in [session : Sessions, run : Runs]
        <5>1. trail \in Seq([session : Sessions, run : Runs])
          BY <1>i, Zenon DEF TypeOK
        <5> QED
          BY <5>1, ElementFacts
      <4>4. trail[k].session \in Sessions /\ target[trail[k].session] = r
        BY <4>2, <4>3, <1>i DEF SessionsConsistent
      <4>5. trail[k].session \in Authors(r)
        BY <4>4, Zenon DEF Authors, Recorded
      <4>6. LatestAuthor(r) \in Authors(r)
        <5> HIDE DEF r
        <5> QED
          BY <4>5, <1>i, LatestAuthorFacts, Zenon
      <4>7. LatestAuthor(r) \in Sessions
        BY <4>6, Zenon DEF Authors
      <4> QED
        BY <4>7, <3>1, <1>n
    <3> QED
      BY <2>2, <2>4, <3>1, <3>2, <1>i, Zenon DEF ShownOverrideIsExplained
  <2> QED
    BY <2>1, <2>5, <2>6, <2>4, Zenon
<1>4. ASSUME Crash PROVE SeenOverridden' /\ ShownOverrideIsExplained'
  <2>1. /\ UNCHANGED <<rows, reading, seen>>
        /\ \A x \in Readers : rpc'[x] \in {rpc[x], "crashed"}
    BY <1>4, <1>t DEF Crash
  <2>2. \A x \in Readers : /\ rpc'[x] = "looked" => rpc[x] = "looked"
                           /\ rpc'[x] = "done" => rpc[x] = "done"
    BY <2>1
  <2> QED
    BY <2>1, <2>2, <1>i, Zenon DEF SeenOverridden, ShownOverrideIsExplained, Overridden, Present
<1> QED
  BY <1>1, <1>2, <1>3, <1>4, ReaderQuiet, Zenon

-----------------------------------------------------------------------------
(***************************************************************************)
(* The invariant is inductive.                                             *)
(***************************************************************************)
LEMMA Inductive == IInv /\ [Next]_vars => IInv'
<1> SUFFICES ASSUME IInv, [Next]_vars PROVE IInv'
  OBVIOUS
<1>1. TypeOK /\ SessionsConsistent /\ OverriddenIffAudited /\ AnnouncedIsRecorded /\ HasBegun
  BY Zenon DEF IInv
<1>2. TypeOK' /\ SessionsConsistent'
  BY <1>1, TypeStep, SessionsStep, Zenon
<1>3. OverriddenIffAudited' /\ AnnouncedIsRecorded' /\ HasBegun'
  BY <1>1, AuditStep, AnnouncedStep, BegunStep, Zenon
<1>4. SeenOverridden' /\ ShownOverrideIsExplained'
  BY ReadersStep, Zenon
<1> QED
  BY <1>2, <1>3, <1>4, Zenon DEF IInv

\* IInv holds in every reachable state.
THEOREM Invariance == Spec => []IInv
<1>1. Init => IInv
  BY InitInv
<1>2. IInv /\ [Next]_vars => IInv'
  BY Inductive
<1> QED
  BY <1>1, <1>2, PTL DEF Spec

\* The handlers and the transaction keep every variable in its type.
THEOREM TypeCorrect == Spec => []TypeOK
<1>1. IInv => TypeOK
  BY Zenon DEF IInv
<1> QED
  BY <1>1, Invariance, PTL

(***************************************************************************)
(* However sessions interleave, fail or are cut off, how far each is tells *)
(* whether its record is in audit_overrides.                               *)
(***************************************************************************)
THEOREM SessionsCorrect == Spec => []SessionsConsistent
<1>1. IInv => SessionsConsistent
  BY Zenon DEF IInv
<1> QED
  BY <1>1, Invariance, PTL

(***************************************************************************)
(* OverrideDiffRun is atomic: at no moment is a run OVERRIDDEN without a   *)
(* record of who did it, or recorded without showing it.                   *)
(***************************************************************************)
THEOREM OverriddenIffAuditedCorrect == Spec => []OverriddenIffAudited
<1>1. IInv => OverriddenIffAudited
  BY Zenon DEF IInv
<1> QED
  BY <1>1, Invariance, PTL

(***************************************************************************)
(* The 200, the event and the webhook of handleOverrideDiff only tell of   *)
(* overrides that were committed.                                          *)
(***************************************************************************)
THEOREM AnnouncedIsRecordedCorrect == Spec => []AnnouncedIsRecorded
<1>1. IInv => AnnouncedIsRecorded
  BY Zenon DEF IInv
<1> QED
  BY <1>1, Invariance, PTL

(***************************************************************************)
(* handleGetDiff never shows an OVERRIDDEN run without its author, though  *)
(* it reads the two tables at different moments, unless the second read    *)
(* fails.                                                                  *)
(***************************************************************************)
THEOREM ShownOverrideIsExplainedCorrect == Spec => []ShownOverrideIsExplained
<1>1. IInv => ShownOverrideIsExplained
  BY Zenon DEF IInv
<1> QED
  BY <1>1, Invariance, PTL

-----------------------------------------------------------------------------
\* A commit is an Override of AuditTrail, an insert a Record, other steps stutter.
LEMMA TrailStep ==
    ASSUME TypeOK, SessionsConsistent, [Next]_vars
    PROVE  [Trail!Next]_(Trail!vars)
<1>1. CASE UNCHANGED <<rows, trail>>
  BY <1>1 DEF Trail!vars
<1>2. ASSUME NEW r \in Runs, InsertDiffRun(r) PROVE Trail!Next
  <2>1. Trail!Record(r)
    BY <1>2 DEF InsertDiffRun, Present, Trail!Record, Verdict, Trail!Verdict
  <2> QED
    BY <2>1, Zenon DEF Trail!Next
<1>3. ASSUME NEW s \in Sessions, Commits(s) PROVE Trail!Next
  <2>1. /\ Apply(s) /\ target[s] \in Runs /\ Present(target[s]) /\ ~Recorded(s)
    BY <1>3, CommitFacts
  <2>2. Trail!Override(s, target[s])
    BY <2>1, Zenon DEF Trail!Override, Apply, Record, Present, Recorded
  <2> QED
    BY <2>1, <2>2, Zenon DEF Trail!Next
<1> QED
  BY <1>1, <1>2, <1>3, StepKinds, Zenon

(***************************************************************************)
(* The override handlers and the transaction implement AuditTrail: an      *)
(* override is one step, and no run and no record is ever lost or changed. *)
(***************************************************************************)
THEOREM AuditTrailCorrect == Spec => ImplementsAuditTrail
<1>1. Init => Trail!Init
  BY DEF Init, Trail!Init
<1>2. IInv /\ [Next]_vars => [Trail!Next]_(Trail!vars)
  BY TrailStep, Zenon DEF IInv
<1> QED
  BY <1>1, <1>2, Invariance, PTL DEF Spec, ImplementsAuditTrail, Trail!Spec

=============================================================================
