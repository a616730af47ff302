-------------------------- MODULE AuditLedgerProofs --------------------------
(***************************************************************************)
(* Proofs about the list of runs, for any ledger, any clients and any      *)
(* number of failures: what GET /api/diffs answers, from the ledger or     *)
(* from a Redis entry, and what the audit panel shows of it, is a list the *)
(* ledger had, or its newest rows when a call failed.                      *)
(*                                                                         *)
(* The invariant says it of every place a list is kept: the entries of     *)
(* Redis, the handlers between the query and the response, the answers     *)
(* under way and the screen.                                               *)
(***************************************************************************)
EXTENDS AuditLedger, SequenceTheorems, FiniteSetTheorems, WellFoundedInduction, TLAPS

Row == [run : Runs, project : Projects, overridden : BOOLEAN]

-----------------------------------------------------------------------------
(* The rows of a query.                                                    *)

LEMMA LeastNumber ==
    ASSUME NEW T \in SUBSET Nat, T # {}
    PROVE  \E x \in T : \A y \in T : x <= y
<1> DEFINE R == OpToRel(<, Nat)
<1>1. IsWellFoundedOn(R, Nat)
  BY NatLessThanWellFounded
<1>2. R = {ss \in Nat \X Nat : ss[1] < ss[2]}
  BY DEF OpToRel
<1>3. \A x, y \in Nat : <<x, y>> \in R <=> x < y
  BY <1>2
<1> HIDE DEF R
<1>4. \E x \in T : \A y \in T : ~ (<<y, x>> \in R)
  BY <1>1, WFMin, Zenon
<1>5. PICK x \in T : \A y \in T : ~ (<<y, x>> \in R)
  BY <1>4
<1>6. \A y \in T : ~(y < x)
  BY <1>3, <1>5
<1> QED
  BY <1>6

\* The recursion of RowsFor has a solution: were it to have none, there would
\* be a shortest table for which it has none, and the row before has one.
LEMMA RowsForRecursion ==
    ASSUME NEW table \in Seq(Row), NEW q
    PROVE  \E rows :
              /\ RowsFor(table, q) = rows[Len(table)]
              /\ rows[0] = <<>>
              /\ \A n \in 1 .. Len(table) :
                    rows[n] = IF q \in {NoProject, table[n].project}
                              THEN <<table[n]>> \o rows[n - 1] ELSE rows[n - 1]
<1> DEFINE N == Len(table)
           Solves(k, g) ==
              g = [n \in 0 .. k |->
                      IF n = 0 THEN <<>>
                      ELSE IF q \in {NoProject, table[n].project} THEN <<table[n]>> \o g[n - 1]
                      ELSE g[n - 1]]
           bad == {k \in 0 .. N : ~ \E g : Solves(k, g)}
<1>1. N \in Nat
  OBVIOUS
<1>2. bad = {}
  <2>1. SUFFICES ASSUME bad # {} PROVE FALSE
    OBVIOUS
  <2>2. bad \in SUBSET Nat
    BY <1>1
  <2> HIDE DEF bad
  <2>3. PICK k \in bad : \A y \in bad : k <= y
    BY <2>1, <2>2, LeastNumber
  <2>4. k \in 0 .. N /\ ~ \E g : Solves(k, g)
    BY DEF bad
  <2>5. k # 0
    <3> DEFINE g0 == [n \in 0 .. 0 |-> <<>>]
    <3>1. Solves(0, g0)
      OBVIOUS
    <3> HIDE DEF Solves, g0
    <3> QED
      BY <2>4, <3>1
  <2>6. k - 1 \in 0 .. N /\ ~(k <= k - 1)
    BY <1>1, <2>4, <2>5
  <2>7. k - 1 \notin bad
    BY <2>3, <2>6
  <2>8. PICK g : Solves(k - 1, g)
    BY <2>6, <2>7 DEF bad
  <2> DEFINE step(m, p) == IF q \in {NoProject, table[m].project} THEN <<table[m]>> \o p ELSE p
             h == [n \in 0 .. k |-> IF n < k THEN g[n] ELSE step(k, g[k - 1])]
  <2>9. \A n \in 0 .. k - 1 : g[n] = IF n = 0 THEN <<>> ELSE step(n, g[n - 1])
    BY <1>1, <2>4, <2>5, <2>8
  <2>10. \A n \in 0 .. k : h[n] = IF n = 0 THEN <<>> ELSE step(n, h[n - 1])
    <3> HIDE DEF step
    <3> QED
      BY <1>1, <2>4, <2>5, <2>9
  <2>11. h = [n \in 0 .. k |-> h[n]]
    OBVIOUS
  <2> HIDE DEF h
  <2>12. Solves(k, h)
    BY <2>10, <2>11
  <2> HIDE DEF Solves
  <2> QED
    BY <2>4, <2>12
<1>3. \E g : Solves(N, g)
  <2>1. N \in 0 .. N
    BY <1>1
  <2> HIDE DEF Solves, N
  <2> QED
    BY <1>2, <2>1
<1> DEFINE rows == CHOOSE g : Solves(N, g)
<1>4. Solves(N, rows)
  <2> HIDE DEF Solves
  <2> QED
    BY <1>3
<1>5. RowsFor(table, q) = rows[N]
  BY DEF RowsFor
<1> HIDE DEF rows
<1>6. /\ rows[0] = <<>>
      /\ \A n \in 1 .. N :
            rows[n] = IF q \in {NoProject, table[n].project}
                      THEN <<table[n]>> \o rows[n - 1] ELSE rows[n - 1]
  <2>1. rows[0] = <<>>
    BY <1>1, <1>4
  <2>2. ASSUME NEW n \in 1 .. N
        PROVE  rows[n] = IF q \in {NoProject, table[n].project}
                         THEN <<table[n]>> \o rows[n - 1] ELSE rows[n - 1]
    <3>1. n \in 0 .. N /\ n # 0
      BY <1>1
    <3> QED
      BY <1>4, <3>1
  <2> QED
    BY <2>1, <2>2
<1> QED
  BY <1>5, <1>6

\* Rows of a query: rows of the table, all of the project asked for.
IsAnswer(rows, q) ==
    /\ rows \in Seq(Row)
    /\ \A i \in 1 .. Len(rows) : q \in {NoProject, rows[i].project}

LEMMA RowsForAnswers ==
    ASSUME NEW table \in Seq(Row), NEW q
    PROVE  IsAnswer(RowsFor(table, q), q)
<1> DEFINE N == Len(table)
<1>1. N \in Nat /\ \A n \in 1 .. N : table[n] \in Row
  OBVIOUS
<1>2. PICK rows :
          /\ RowsFor(table, q) = rows[N]
          /\ rows[0] = <<>>
          /\ \A n \in 1 .. N :
                rows[n] = IF q \in {NoProject, table[n].project}
                          THEN <<table[n]>> \o rows[n - 1] ELSE rows[n - 1]
  BY RowsForRecursion
<1> DEFINE bad == {k \in 0 .. N : ~IsAnswer(rows[k], q)}
<1>3. bad = {}
  <2>1. SUFFICES ASSUME bad # {} PROVE FALSE
    OBVIOUS
  <2>2. bad \in SUBSET Nat
    BY <1>1
  <2> HIDE DEF bad
  <2>3. PICK k \in bad : \A y \in bad : k <= y
    BY <2>1, <2>2, LeastNumber
  <2>4. k \in 0 .. N /\ ~IsAnswer(rows[k], q)
    BY DEF bad
  <2>5. k # 0
    <3>1. IsAnswer(<<>>, q)
      BY DEF IsAnswer
    <3> QED
      BY <1>2, <2>4, <3>1
  <2>6. k \in 1 .. N /\ k - 1 \in 0 .. N /\ ~(k <= k - 1)
    BY <1>1, <2>4, <2>5
  <2>7. IsAnswer(rows[k - 1], q)
    BY <2>3, <2>6 DEF bad
  <2> DEFINE x == table[k]
             p == rows[k - 1]
  <2>8. /\ x \in Row
        /\ rows[k] = IF q \in {NoProject, x.project} THEN <<x>> \o p ELSE p
    BY <1>1, <1>2, <2>6
  <2> HIDE DEF x, p
  <2>9. CASE q \in {NoProject, x.project}
    <3>1. p \in Seq(Row) /\ <<x>> \in Seq(Row) /\ Len(<<x>>) = 1 /\ <<x>>[1] = x
      BY <2>7, <2>8 DEF IsAnswer, p
    <3>2. /\ <<x>> \o p \in Seq(Row) /\ Len(<<x>> \o p) = 1 + Len(p)
          /\ \A i \in 1 .. 1 + Len(p) : (<<x>> \o p)[i] = IF i <= 1 THEN <<x>>[i] ELSE p[i - 1]
      BY <3>1, ConcatProperties
    <3> DEFINE r == <<x>> \o p
    <3> HIDE DEF r
    <3>3. r \in Seq(Row) /\ Len(r) = 1 + Len(p) /\ Len(p) \in Nat
      BY <3>1, <3>2 DEF r
    <3>4. \A i \in 1 .. 1 + Len(p) : r[i] = IF i = 1 THEN x ELSE p[i - 1]
      BY <3>1, <3>2, <3>3 DEF r
    <3>5. \A i \in 1 .. Len(p) : q \in {NoProject, p[i].project}
      BY <2>7 DEF IsAnswer, p
    <3>6. \A i \in 1 .. 1 + Len(p) : q \in {NoProject, r[i].project}
      BY <2>9, <3>3, <3>4, <3>5
    <3> QED
      BY <2>4, <2>8, <2>9, <3>3, <3>6 DEF IsAnswer, r
  <2>10. CASE q \notin {NoProject, x.project}
    BY <2>4, <2>7, <2>8, <2>10 DEF p
  <2> QED
    BY <2>9, <2>10
<1>4. N \in 0 .. N
  BY <1>1
<1> QED
  BY <1>2, <1>3, <1>4

\* A list cut off after some rows.
LEMMA CutOff ==
    ASSUME NEW q, NEW s, IsAnswer(s, q), NEW n \in 0 .. Len(s)
    PROVE  /\ IsAnswer(SubSeq(s, 1, n), q) /\ IsPrefix(SubSeq(s, 1, n), s)
           /\ SubSeq(s, 1, Len(s)) = s /\ IsPrefix(s, s) /\ IsPrefix(<<>>, s)
<1>1. s \in Seq(Row) /\ Len(s) \in Nat /\ n \in Nat /\ n <= Len(s)
  BY DEF IsAnswer
<1> DEFINE r == SubSeq(s, 1, n)
<1>2. r \in Seq(Row) /\ Len(r) = n /\ \A i \in 1 .. n : r[i] = s[i]
  BY <1>1
<1>3. SubSeq(s, 1, Len(s)) = s
  BY <1>1
<1> HIDE DEF r
<1>4. IsAnswer(r, q)
  BY <1>1, <1>2 DEF IsAnswer
<1>5. IsPrefix(r, s)
  BY <1>1, <1>2 DEF IsPrefix
<1>6. IsPrefix(s, s) /\ IsPrefix(<<>>, s)
  BY <1>1 DEF IsPrefix
<1> QED
  BY <1>3, <1>4, <1>5, <1>6 DEF r

LEMMA ListOfAnswers ==
    ASSUME NEW table \in Seq(Row), NEW q
    PROVE  IsAnswer(ListOf(table, q), q)
<1> DEFINE s == RowsFor(table, q)
           n == IF Len(s) < Limit THEN Len(s) ELSE Limit
<1>1. IsAnswer(s, q)
  BY RowsForAnswers
<1>2. ListOf(table, q) = SubSeq(s, 1, n)
  BY DEF ListOf
<1> HIDE DEF s
<1>3. n \in 0 .. Len(s)
  BY <1>1, ConstantsAssumption DEF IsAnswer
<1> HIDE DEF n
<1> QED
  BY <1>1, <1>2, <1>3, CutOff

-----------------------------------------------------------------------------
(* The cache and its readers.                                              *)

\* The query whose list is kept under a key, or asked for by a project id.
Asked(q) == IF q = "all" THEN NoProject ELSE q

\* rows is the answer that a ledger of table gives to q, cut off when cut.
Snapshot(rows, q, table, cut) ==
    LET whole == ListOf(table, Asked(q))
    IN  IF cut THEN IsPrefix(rows, whole) ELSE rows = whole

\* It was, among the contents p of the ledger, after f failures.
WasTheList(rows, q, p, f) ==
    /\ IsAnswer(rows, Asked(q))
    /\ \E h \in DOMAIN p : Snapshot(rows, q, p[h], f # 0)

CacheTypeInv ==
    /\ past \in Seq(Seq(Row)) /\ past # <<>>
    /\ cache \in [Keys -> Seq(Row) \cup {NoEntry}]
    /\ rpc \in [Readers -> Ended \cup {"missed", "selected"}]
    /\ query \in [Readers -> Projects \cup {NoProject, "all"}]
    /\ list \in [Readers -> Seq(Row)]
    /\ faults \in Nat

CacheInv ==
    /\ CacheTypeInv
    /\ \A k \in Keys : cache[k] # NoEntry => WasTheList(cache[k], k, past, faults)
    /\ \A d \in Readers :
          rpc[d] \in {"selected", "done"} => WasTheList(list[d], query[d], past, faults)
    /\ \A d \in Readers : rpc[d] = "selected" => query[d] # "all"

\* The key of a query keeps its list.
LEMMA KeysAsk ==
    ASSUME NEW q \in Projects \cup {NoProject, "all"}
    PROVE  KeyOf(q) \in Keys /\ Asked(KeyOf(q)) = Asked(q)
  BY ConstantsAssumption DEF KeyOf, Keys, Asked

LEMMA TableIsRows ==
    ASSUME CacheTypeInv
    PROVE  /\ Table \in Seq(Row) /\ Len(past) \in DOMAIN past /\ Table = past[Len(past)]
           /\ \A h \in DOMAIN past : past[h] \in Seq(Row)
<1>1. past \in Seq(Seq(Row)) /\ past # <<>>
  BY DEF CacheTypeInv
<1> QED
  BY <1>1 DEF Table

\* Neither a commit nor a failure undoes that a list once was the ledger's.
LEMMA ListsStay ==
    ASSUME CacheTypeInv, NEW rows, NEW q, WasTheList(rows, q, past, faults),
           past' = past \/ \E t \in Seq(Row) : past' = Append(past, t),
           faults' \in Nat, faults' >= faults
    PROVE  WasTheList(rows, q, past', faults')
<1>1. PICK h \in DOMAIN past : Snapshot(rows, q, past[h], faults # 0)
  BY DEF WasTheList
<1>2. h \in DOMAIN past' /\ past'[h] = past[h]
  <2>1. past \in Seq(Seq(Row))
    BY DEF CacheTypeInv
  <2>2. CASE past' = past
    BY <2>2
  <2>3. ASSUME NEW t \in Seq(Row), past' = Append(past, t)
        PROVE  h \in DOMAIN past' /\ past'[h] = past[h]
    BY <2>1, <2>3
  <2> QED
    BY <2>2, <2>3
<1>3. Snapshot(rows, q, past[h], faults' # 0)
  <2>1. faults # 0 => faults' # 0
    BY DEF CacheTypeInv
  <2>2. IsAnswer(ListOf(past[h], Asked(q)), Asked(q))
    BY TableIsRows, ListOfAnswers
  <2>3. 0 \in 0 .. Len(ListOf(past[h], Asked(q)))
    BY <2>2 DEF IsAnswer
  <2>4. IsPrefix(ListOf(past[h], Asked(q)), ListOf(past[h], Asked(q)))
    BY <2>2, <2>3, CutOff
  <2> QED
    BY <1>1, <2>1, <2>4 DEF Snapshot
<1>4. IsAnswer(rows, Asked(q))
  BY DEF WasTheList
<1> QED
  BY <1>2, <1>3, <1>4 DEF WasTheList

LEMMA FaultsGrow ==
    ASSUME CacheTypeInv, NEW c, FaultUnless(c) \/ Fault \/ UNCHANGED faults
    PROVE  faults' \in Nat /\ faults' >= faults
  BY DEF CacheTypeInv, FaultUnless, Fault

\* A step keeps the invariant if what it changes is withdrawn or is right.
LEMMA CacheStep ==
    ASSUME CacheInv, CacheTypeInv',
           past' = past \/ \E t \in Seq(Row) : past' = Append(past, t),
           faults' >= faults,
           \A k \in Keys : \/ cache'[k] \in {NoEntry, cache[k]}
                          \/ WasTheList(cache'[k], k, past', faults'),
           \A d \in Readers :
              \/ rpc'[d] = rpc[d] /\ list'[d] = list[d] /\ query'[d] = query[d]
              \/ rpc'[d] \notin {"selected", "done"}
              \/ /\ WasTheList(list'[d], query'[d], past', faults')
                 /\ rpc'[d] = "selected" => query'[d] # "all"
    PROVE  CacheInv'
<1>1. CacheTypeInv /\ faults' \in Nat
  BY DEF CacheInv, CacheTypeInv
<1>2. \A rows, q : WasTheList(rows, q, past, faults) => WasTheList(rows, q, past', faults')
  BY <1>1, ListsStay
<1>3. ASSUME NEW k \in Keys, cache'[k] # NoEntry
      PROVE  WasTheList(cache'[k], k, past', faults')
  BY <1>2, <1>3 DEF CacheInv
<1>4. ASSUME NEW d \in Readers, rpc'[d] \in {"selected", "done"}
      PROVE  WasTheList(list'[d], query'[d], past', faults')
  BY <1>2, <1>4 DEF CacheInv
<1>5. ASSUME NEW d \in Readers, rpc'[d] = "selected"
      PROVE  query'[d] # "all"
  BY <1>5 DEF CacheInv
<1> QED
  BY <1>3, <1>4, <1>5 DEF CacheInv

LEMMA InitCache == Init => CacheInv
<1> SUFFICES ASSUME Init PROVE CacheInv
  OBVIOUS
<1>1. \A r \in Runs : RowOf(r) \in Row
  BY ConstantsAssumption DEF RowOf, Row
<1> DEFINE t == [i \in DOMAIN Recorded |-> RowOf(Recorded[i])]
<1>2. t \in Seq(Row)
  <2>1. Recorded \in Seq(Runs) /\ DOMAIN Recorded = 1 .. Len(Recorded) /\ Len(Recorded) \in Nat
    BY ConstantsAssumption
  <2>2. \A i \in 1 .. Len(Recorded) : t[i] \in Row
    BY <1>1, <2>1
  <2>3. t \in [1 .. Len(Recorded) -> Row]
    BY <2>1, <2>2
  <2> HIDE DEF t
  <2> QED
    BY <2>1, <2>3
<1>3. past = <<t>>
  BY DEF Init
<1> HIDE DEF t
<1>4. past \in Seq(Seq(Row)) /\ past # <<>>
  BY <1>2, <1>3
<1>5. CacheTypeInv
  BY <1>4 DEF Init, CacheTypeInv, Ended
<1> QED
  BY <1>5 DEF Init, CacheInv

-----------------------------------------------------------------------------
(* The steps of the cache.                                                 *)

LEMMA CommitsKeepCache ==
    ASSUME CacheInv, NEW t \in Seq(Row), past' = Append(past, t),
           UNCHANGED <<cache, rpc, query, list, faults>>
    PROVE  CacheInv'
<1>1. past' \in Seq(Seq(Row)) /\ past' # <<>>
  <2>1. past \in Seq(Seq(Row))
    BY DEF CacheInv, CacheTypeInv
  <2> DEFINE S == Seq(Row)
  <2> HIDE DEF S
  <2>2. past \in Seq(S) /\ t \in S
    BY <2>1 DEF S
  <2>3. Append(past, t) \in Seq(S) /\ Len(Append(past, t)) = Len(past) + 1 /\ Len(past) \in Nat
    BY <2>2
  <2>4. Append(past, t) # <<>>
    BY <2>3
  <2> QED
    BY <2>3, <2>4 DEF S
<1>2. CacheTypeInv' /\ faults' >= faults
  BY <1>1 DEF CacheInv, CacheTypeInv
<1> QED
  BY <1>2, CacheStep

LEMMA LookupKeepsCache ==
    ASSUME CacheInv, NEW d \in Readers, NEW q \in Projects \cup {NoProject, "all"}, Lookup(d, q)
    PROVE  CacheInv'
<1> DEFINE k == KeyOf(q)
<1>1. CacheTypeInv /\ k \in Keys /\ Asked(k) = Asked(q)
  BY KeysAsk DEF CacheInv
<1>2. query' = [query EXCEPT ![d] = q] /\ past' = past /\ cache' = cache
  BY DEF Lookup
<1>3. CASE cache[k] # NoEntry /\ list' = [list EXCEPT ![d] = cache[k]] /\ Goto(d, "done")
           /\ UNCHANGED faults
  <2>1. WasTheList(cache[k], k, past, faults)
    BY <1>1, <1>3 DEF CacheInv
  <2>2. WasTheList(cache[k], q, past, faults)
    BY <1>1, <2>1 DEF WasTheList, Snapshot
  <2> HIDE DEF k
  <2>3. CacheTypeInv'
    BY <1>1, <1>2, <1>3 DEF CacheTypeInv, Goto, Ended
  <2>4. list'[d] = cache[k] /\ query'[d] = q /\ rpc'[d] = "done" /\ faults' = faults
    BY <1>1, <1>2, <1>3 DEF CacheTypeInv, Goto
  <2>5. \A e \in Readers \ {d} : rpc'[e] = rpc[e] /\ list'[e] = list[e] /\ query'[e] = query[e]
    BY <1>1, <1>2, <1>3 DEF CacheTypeInv, Goto
  <2>6. faults' >= faults
    BY <1>1, <2>4 DEF CacheTypeInv
  <2> QED
    BY <1>2, <2>2, <2>3, <2>4, <2>5, <2>6, CacheStep
<1>4. CASE FaultUnless(cache[k] = NoEntry) /\ list' = [list EXCEPT ![d] = <<>>]
           /\ Goto(d, "missed")
  <2>1. faults' \in Nat /\ faults' >= faults
    BY <1>1, <1>4, FaultsGrow
  <2> HIDE DEF k
  <2>2. CacheTypeInv'
    BY <1>1, <1>2, <1>4, <2>1 DEF CacheTypeInv, Goto
  <2>3. rpc'[d] = "missed"
    BY <1>1, <1>4 DEF CacheTypeInv, Goto
  <2>4. \A e \in Readers \ {d} : rpc'[e] = rpc[e] /\ list'[e] = list[e] /\ query'[e] = query[e]
    BY <1>1, <1>2, <1>4 DEF CacheTypeInv, Goto
  <2> QED
    BY <1>2, <2>1, <2>2, <2>3, <2>4, CacheStep
<1> QED
  BY <1>3, <1>4 DEF Lookup

LEMMA SelectKeepsCache ==
    ASSUME CacheInv, NEW d \in Readers, Select(d)
    PROVE  CacheInv'
<1> DEFINE q == query[d]
           whole == ListOf(Table, q)
<1>1. CacheTypeInv /\ q # "all" /\ Asked(q) = q
  BY DEF CacheInv, Select, Asked
<1>2. PICK n \in 0 .. Len(whole) :
         FaultUnless(n = Len(whole)) /\ list' = [list EXCEPT ![d] = SubSeq(whole, 1, n)]
  BY DEF Select
<1>3. Goto(d, "selected") /\ past' = past /\ cache' = cache /\ query' = query
  BY DEF Select
<1>4. IsAnswer(whole, q)
  BY <1>1, TableIsRows, ListOfAnswers
<1>5. faults' \in Nat /\ faults' >= faults
  BY <1>1, <1>2, FaultsGrow
<1>6. faults' = 0 => n = Len(whole)
  BY <1>1, <1>2 DEF FaultUnless, Fault, CacheTypeInv
<1> DEFINE r == SubSeq(whole, 1, n)
<1>7. whole = ListOf(past[Len(past)], Asked(q)) /\ Len(past) \in DOMAIN past
  BY <1>1, TableIsRows
<1> HIDE DEF q, whole
<1>8. IsAnswer(r, q) /\ IsPrefix(r, whole) /\ SubSeq(whole, 1, Len(whole)) = whole
  BY <1>2, <1>4, CutOff
<1> HIDE DEF r
<1>9. WasTheList(r, q, past, faults')
  <2>1. Snapshot(r, q, past[Len(past)], faults' # 0)
    BY <1>6, <1>7, <1>8 DEF Snapshot, r
  <2> QED
    BY <1>1, <1>7, <1>8, <2>1 DEF WasTheList
<1>10. CacheTypeInv'
  <2>1. r \in Seq(Row)
    BY <1>8 DEF IsAnswer
  <2>2. list' = [list EXCEPT ![d] = r]
    BY <1>2 DEF r
  <2> QED
    BY <1>1, <1>3, <1>5, <2>1, <2>2 DEF CacheTypeInv, Goto
<1>11. list'[d] = r /\ query'[d] = q /\ rpc'[d] = "selected"
  BY <1>1, <1>2, <1>3 DEF CacheTypeInv, Goto, q, r
<1>12. \A e \in Readers \ {d} : rpc'[e] = rpc[e] /\ list'[e] = list[e] /\ query'[e] = query[e]
  BY <1>1, <1>2, <1>3 DEF CacheTypeInv, Goto
<1> QED
  BY <1>1, <1>3, <1>5, <1>9, <1>10, <1>11, <1>12, CacheStep

LEMMA SelectFailsKeepsCache ==
    ASSUME CacheInv, NEW d \in Readers, SelectFails(d)
    PROVE  CacheInv'
<1>1. CacheTypeInv
  BY DEF CacheInv
<1>2. /\ FaultUnless(query[d] = "all") /\ Goto(d, "failed")
      /\ past' = past /\ cache' = cache /\ query' = query /\ list' = list
  BY DEF SelectFails
<1>3. faults' \in Nat /\ faults' >= faults
  BY <1>1, <1>2, FaultsGrow
<1>4. CacheTypeInv'
  BY <1>1, <1>2, <1>3 DEF CacheTypeInv, Goto, Ended
<1>5. rpc'[d] = "failed" /\ \A e \in Readers \ {d} : rpc'[e] = rpc[e]
  BY <1>1, <1>2 DEF CacheTypeInv, Goto
<1> QED
  BY <1>2, <1>3, <1>4, <1>5, CacheStep

LEMMA StoreKeepsCache ==
    ASSUME CacheInv, NEW d \in Readers, Store(d)
    PROVE  CacheInv'
<1> DEFINE q == query[d]
           k == KeyOf(q)
<1>1. CacheTypeInv
  BY DEF CacheInv
<1>2. q \in Projects \cup {NoProject, "all"} /\ rpc[d] = "selected"
  BY <1>1 DEF CacheTypeInv, Store
<1>3. k \in Keys /\ Asked(k) = Asked(q)
  BY <1>2, KeysAsk
<1>4. WasTheList(list[d], q, past, faults)
  BY <1>2 DEF CacheInv
<1>5. WasTheList(list[d], k, past, faults)
  BY <1>3, <1>4 DEF WasTheList, Snapshot
<1> HIDE DEF k
<1>6. /\ \/ cache' = [cache EXCEPT ![k] = list[d]] /\ UNCHANGED faults
         \/ UNCHANGED cache /\ Fault
      /\ Goto(d, "done") /\ past' = past /\ query' = query /\ list' = list
  BY DEF Store, k
<1> HIDE DEF q
<1>7. faults' \in Nat /\ faults' >= faults
  BY <1>1, <1>6, FaultsGrow
<1>8. CacheTypeInv'
  BY <1>1, <1>3, <1>6, <1>7 DEF CacheTypeInv, Goto, Ended
<1>9. WasTheList(list[d], k, past', faults') /\ WasTheList(list[d], q, past', faults')
  BY <1>1, <1>4, <1>5, <1>6, <1>7, ListsStay
<1>10. rpc'[d] = "done" /\ \A e \in Readers \ {d} : rpc'[e] = rpc[e]
  BY <1>1, <1>6 DEF CacheTypeInv, Goto
<1>11. \A j \in Keys : cache'[j] = cache[j] \/ (j = k /\ cache'[j] = list[d])
  BY <1>1, <1>6 DEF CacheTypeInv
<1>12. query'[d] = q /\ list'[d] = list[d]
  BY <1>6 DEF q
<1> QED
  BY <1>6, <1>7, <1>8, <1>9, <1>10, <1>11, <1>12, CacheStep

LEMMA ExpireKeepsCache ==
    ASSUME CacheInv, NEW k \in Keys, Expire(k)
    PROVE  CacheInv'
<1>1. CacheTypeInv
  BY DEF CacheInv
<1>2. cache' = [cache EXCEPT ![k] = NoEntry] /\ UNCHANGED <<past, rpc, query, list, faults>>
  BY DEF Expire
<1>3. CacheTypeInv' /\ faults' >= faults
  BY <1>1, <1>2 DEF CacheTypeInv
<1>4. \A j \in Keys : cache'[j] \in {NoEntry, cache[j]}
  BY <1>1, <1>2 DEF CacheTypeInv
<1> QED
  BY <1>2, <1>3, <1>4, CacheStep

LEMMA OverriddenRows ==
    ASSUME NEW T \in Seq(Row), NEW i \in DOMAIN T
    PROVE  [T EXCEPT ![i].overridden = TRUE] \in Seq(Row)
<1> DEFINE x == [T[i] EXCEPT !.overridden = TRUE]
<1>1. T[i] \in Row
  OBVIOUS
<1>2. x \in Row
  BY <1>1 DEF Row
<1>3. [T EXCEPT ![i].overridden = TRUE] = [T EXCEPT ![i] = x]
  OBVIOUS
<1> HIDE DEF x
<1>4. T \in [1 .. Len(T) -> Row] /\ Len(T) \in Nat /\ i \in 1 .. Len(T)
  OBVIOUS
<1>5. [T EXCEPT ![i] = x] \in [1 .. Len(T) -> Row]
  BY <1>2, <1>4
<1>6. [T EXCEPT ![i] = x] \in Seq(Row)
  BY <1>4, <1>5
<1> QED
  BY <1>3, <1>6

LEMMA RunKeepsCache ==
    ASSUME CacheInv, Run
    PROVE  CacheInv'
<1>1. CacheTypeInv
  BY DEF CacheInv
<1>2. ASSUME NEW r \in Runs, InsertDiffRun(r) PROVE CacheInv'
  <2>1. RowOf(r) \in Row
    BY ConstantsAssumption DEF RowOf, Row
  <2>2. Append(Table, RowOf(r)) \in Seq(Row)
    BY <1>1, <2>1, TableIsRows
  <2> QED
    BY <1>2, <2>2, CommitsKeepCache DEF InsertDiffRun
<1>3. ASSUME NEW i \in DOMAIN Table, OverrideDiffRun(i) PROVE CacheInv'
  <2>1. [Table EXCEPT ![i].overridden = TRUE] \in Seq(Row)
    BY <1>1, TableIsRows, OverriddenRows
  <2> QED
    BY <1>3, <2>1, CommitsKeepCache DEF OverrideDiffRun
<1>4. ASSUME NEW d \in Readers, Handle(d) PROVE CacheInv'
  BY <1>4, SelectKeepsCache, SelectFailsKeepsCache, StoreKeepsCache DEF Handle
<1>5. ASSUME NEW k \in Keys, Expire(k) PROVE CacheInv'
  BY <1>5, ExpireKeepsCache
<1> QED
  BY <1>2, <1>3, <1>4, <1>5 DEF Run

LEMMA StutterKeepsCache == CacheInv /\ UNCHANGED vars => CacheInv'
  BY DEF CacheInv, CacheTypeInv, vars

LEMMA CacheHolds == Spec => []CacheInv
<1>1. CacheInv /\ [Next]_vars => CacheInv'
  <2> SUFFICES ASSUME CacheInv, [Next]_vars PROVE CacheInv'
    OBVIOUS
  <2>1. Queries \subseteq Projects \cup {NoProject, "all"}
    BY ConstantsAssumption
  <2> QED
    BY <2>1, RunKeepsCache, LookupKeepsCache, StutterKeepsCache DEF Next
<1> QED
  BY <1>1, InitCache, PTL DEF Spec

(***************************************************************************)
(* A list in an answer is one the ledger had, whole unless a call failed   *)
(* (handleListDiffs): neither an entry another request stored nor a commit *)
(* in between makes a list that never was.                                 *)
(***************************************************************************)
THEOREM ResponsesAreLedgerLists == Spec => []ResponsesAreSnapshots
<1>1. CacheInv => ResponsesAreSnapshots
  BY DEF CacheInv, ResponsesAreSnapshots, WasTheList, Snapshot, Asked
<1> QED
  BY <1>1, CacheHolds, PTL

\* A reader who asks for a project reads no run of another.
ProjectsApart ==
    \A d \in Readers : rpc[d] = "done" /\ query[d] \in Projects =>
        \A i \in DOMAIN list[d] : list[d][i].project = query[d]

(***************************************************************************)
(* A response to a query for a project, also one out of Redis, holds runs  *)
(* of that project alone (handleListDiffs: the key of an entry, and the    *)
(* WHERE of ListDiffRuns).                                                 *)
(***************************************************************************)
THEOREM ProjectsAreApart == Spec => []ProjectsApart
<1>1. CacheInv => ProjectsApart
  <2> SUFFICES ASSUME CacheInv, NEW d \in Readers, rpc[d] = "done", query[d] \in Projects,
                      NEW i \in DOMAIN list[d]
               PROVE  list[d][i].project = query[d]
    BY DEF ProjectsApart
  <2>1. IsAnswer(list[d], query[d])
    BY ConstantsAssumption DEF CacheInv, WasTheList, Asked
  <2>2. i \in 1 .. Len(list[d])
    BY <2>1 DEF IsAnswer
  <2> QED
    BY <2>1, <2>2, ConstantsAssumption DEF IsAnswer
<1> QED
  BY <1>1, CacheHolds, PTL

-----------------------------------------------------------------------------
(* The panel.                                                              *)

\* The first render has neither rows nor, yet, the flag that the effect raised.
FirstRender == blank => runs = <<>> /\ loading

PanelInv ==
    /\ CacheInv
    /\ asked \subseteq Readers /\ mine \subseteq asked
    /\ open \in BOOLEAN /\ blank \in BOOLEAN /\ loading \in BOOLEAN
    /\ FirstRender
    /\ \A d \in asked : query[d] = NoProject
    /\ \A d \in asked : rpc[d] = "failed" => faults # 0
    /\ ~open => runs = <<>> /\ mine = {}
    /\ TableSpeaks => WasTheList(runs, NoProject, past, faults)

\* Rows are shown cut off, down to none, once a call has failed.
LEMMA NoneAfterAFault ==
    ASSUME CacheTypeInv, faults' \in Nat, faults' # 0, past' = past
    PROVE  WasTheList(<<>>, NoProject, past', faults')
<1> DEFINE h == Len(past)
           whole == ListOf(past[h], NoProject)
<1>1. h \in DOMAIN past /\ Asked(NoProject) = NoProject
  BY TableIsRows, ConstantsAssumption DEF Asked
<1>2. IsAnswer(whole, NoProject)
  BY <1>1, TableIsRows, ListOfAnswers
<1> HIDE DEF whole
<1>3. 0 \in 0 .. Len(whole)
  BY <1>2 DEF IsAnswer
<1>4. IsPrefix(<<>>, whole)
  BY <1>2, <1>3, CutOff
<1>5. IsAnswer(<<>>, NoProject)
  BY DEF IsAnswer
<1>6. Snapshot(<<>>, NoProject, past[h], TRUE)
  BY <1>1, <1>4 DEF Snapshot, whole
<1> HIDE DEF h
<1> QED
  BY <1>1, <1>5, <1>6 DEF WasTheList

\* What the steps of the server mean for a request of the panel.
LEMMA RunEffects ==
    ASSUME CacheTypeInv, Run
    PROVE  /\ past' = past \/ \E t \in Seq(Row) : past' = Append(past, t)
           /\ faults' \in Nat /\ faults' >= faults
           /\ query' = query
           /\ \A d \in Readers : rpc'[d] = "failed" =>
                 rpc[d] = "failed" \/ faults' # 0 \/ query[d] = "all"
<1> DEFINE Effects ==
              /\ past' = past \/ \E t \in Seq(Row) : past' = Append(past, t)
              /\ faults' \in Nat /\ faults' >= faults
              /\ query' = query
              /\ \A d \in Readers : rpc'[d] = "failed" =>
                    rpc[d] = "failed" \/ faults' # 0 \/ query[d] = "all"
<1>1. faults \in Nat
  BY DEF CacheTypeInv
<1>2. ASSUME NEW r \in Runs, InsertDiffRun(r) PROVE Effects
  <2>1. RowOf(r) \in Row
    BY ConstantsAssumption DEF RowOf, Row
  <2> DEFINE T == Append(Table, RowOf(r))
  <2>2. T \in Seq(Row)
    BY <2>1, TableIsRows
  <2>3. past' = Append(past, T) /\ UNCHANGED <<rpc, query, faults>>
    BY <1>2 DEF InsertDiffRun
  <2> HIDE DEF T
  <2> QED
    BY <1>1, <2>2, <2>3
<1>3. ASSUME NEW i \in DOMAIN Table, OverrideDiffRun(i) PROVE Effects
  <2> DEFINE T == [Table EXCEPT ![i].overridden = TRUE]
  <2>1. past' = Append(past, T) /\ UNCHANGED <<rpc, query, faults>>
    BY <1>3 DEF OverrideDiffRun
  <2>2. T \in Seq(Row)
    BY TableIsRows, OverriddenRows
  <2> HIDE DEF T
  <2> QED
    BY <1>1, <2>1, <2>2
<1>4. ASSUME NEW d \in Readers, Select(d) PROVE Effects
  <2>1. PICK c \in BOOLEAN : FaultUnless(c)
    BY <1>4 DEF Select
  <2>2. faults' \in Nat /\ faults' >= faults
    BY <2>1, FaultsGrow
  <2>3. past' = past /\ query' = query /\ rpc' = [rpc EXCEPT ![d] = "selected"]
    BY <1>4 DEF Select, Goto
  <2> QED
    BY <2>2, <2>3 DEF CacheTypeInv
<1>5. ASSUME NEW d \in Readers, SelectFails(d) PROVE Effects
  <2>1. FaultUnless(query[d] = "all")
    BY <1>5 DEF SelectFails
  <2>2. faults' \in Nat /\ faults' >= faults
    BY <2>1, FaultsGrow
  <2>3. past' = past /\ query' = query /\ rpc' = [rpc EXCEPT ![d] = "failed"]
    BY <1>5 DEF SelectFails, Goto
  <2>4. query[d] # "all" => faults' # 0
    BY <1>1, <2>1 DEF FaultUnless, Fault
  <2> QED
    BY <2>2, <2>3, <2>4 DEF CacheTypeInv
<1>6. ASSUME NEW d \in Readers, Store(d) PROVE Effects
  <2>1. UNCHANGED faults \/ Fault
    BY <1>6 DEF Store
  <2>2. faults' \in Nat /\ faults' >= faults
    BY <2>1, FaultsGrow
  <2>3. past' = past /\ query' = query /\ rpc' = [rpc EXCEPT ![d] = "done"]
    BY <1>6 DEF Store, Goto
  <2> QED
    BY <2>2, <2>3 DEF CacheTypeInv
<1>7. ASSUME NEW k \in Keys, Expire(k) PROVE Effects
  BY <1>1, <1>7 DEF Expire
<1> HIDE DEF Effects
<1>8. Effects
  BY <1>2, <1>3, <1>4, <1>5, <1>6, <1>7 DEF Run, Handle
<1> QED
  BY <1>8 DEF Effects

LEMMA LookupEffects ==
    ASSUME CacheTypeInv, NEW d \in Readers, NEW q \in Projects \cup {NoProject, "all"}, Lookup(d, q)
    PROVE  /\ past' = past /\ faults' \in Nat /\ faults' >= faults
           /\ query'[d] = q /\ rpc'[d] # "failed"
           /\ \A e \in Readers \ {d} : query'[e] = query[e] /\ rpc'[e] = rpc[e]
<1>1. UNCHANGED faults \/ \E c \in BOOLEAN : FaultUnless(c)
  BY DEF Lookup
<1>2. faults' \in Nat /\ faults' >= faults
  BY <1>1, FaultsGrow
<1>3. /\ past' = past /\ query' = [query EXCEPT ![d] = q]
      /\ rpc' = [rpc EXCEPT ![d] = "done"] \/ rpc' = [rpc EXCEPT ![d] = "missed"]
  BY DEF Lookup, Goto
<1> QED
  BY <1>2, <1>3 DEF CacheTypeInv

\* Requests of the panel are reset, and answers to it are taken.
LEMMA ResetKeepsCache ==
    ASSUME CacheInv, NEW ds \in SUBSET Readers,
           past' = past, cache' = cache, faults' \in Nat, faults' >= faults,
           rpc' \in [Readers -> Ended \cup {"missed", "selected"}],
           query' \in [Readers -> Projects \cup {NoProject, "all"}],
           list' \in [Readers -> Seq(Row)],
           \A d \in ds : rpc'[d] = "idle",
           \A d \in Readers \ ds : rpc'[d] = rpc[d] /\ query'[d] = query[d] /\ list'[d] = list[d]
    PROVE  CacheInv'
<1>1. CacheTypeInv'
  BY DEF CacheInv, CacheTypeInv
<1> QED
  BY <1>1, CacheStep

-----------------------------------------------------------------------------
(* The steps of the panel.                                                 *)

LEMMA InitPanel == PanelInit => PanelInv
<1> SUFFICES ASSUME PanelInit PROVE PanelInv
  OBVIOUS
<1>1. CacheInv
  BY InitCache DEF PanelInit
<1> QED
  BY <1>1 DEF PanelInit, PanelInv, TableSpeaks, FirstRender

LEMMA OthersKeepPanel ==
    ASSUME PanelInv, Others, UNCHANGED panel
    PROVE  PanelInv'
<1>1. CacheInv /\ CacheTypeInv /\ asked \subseteq Readers
  BY DEF PanelInv, CacheInv
<1>2. UNCHANGED <<open, blank, runs, loading, asked, mine>>
  BY DEF panel
<1>3. CASE Run
  <2>1. CacheInv'
    BY <1>1, <1>3, RunKeepsCache
  <2>2. /\ past' = past \/ \E t \in Seq(Row) : past' = Append(past, t)
        /\ faults' \in Nat /\ faults' >= faults /\ faults \in Nat
        /\ query' = query
        /\ \A d \in Readers : rpc'[d] = "failed" =>
              rpc[d] = "failed" \/ faults' # 0 \/ query[d] = "all"
    BY <1>1, <1>3, RunEffects DEF CacheTypeInv
  <2>3. \A d \in asked : rpc'[d] = "failed" => faults' # 0
    BY <1>1, <2>2, ConstantsAssumption DEF PanelInv
  <2>4. TableSpeaks => WasTheList(runs, NoProject, past', faults')
    BY <1>1, <2>2, ListsStay DEF PanelInv
  <2> QED
    BY <1>2, <2>1, <2>2, <2>3, <2>4 DEF PanelInv, TableSpeaks, FirstRender
<1>4. ASSUME NEW d \in Clients \ asked, NEW q \in Queries, Lookup(d, q)
      PROVE  PanelInv'
  <2>1. d \in Readers \ asked /\ q \in Projects \cup {NoProject, "all"}
    BY PanelAssumption, ConstantsAssumption
  <2>2. CacheInv'
    BY <1>1, <1>4, <2>1, LookupKeepsCache
  <2>3. /\ past' = past /\ faults' \in Nat /\ faults' >= faults /\ faults \in Nat
        /\ \A e \in Readers \ {d} : query'[e] = query[e] /\ rpc'[e] = rpc[e]
    BY <1>1, <1>4, <2>1, LookupEffects DEF CacheTypeInv
  <2>4. /\ \A e \in asked : query'[e] = NoProject
        /\ \A e \in asked : rpc'[e] = "failed" => faults' # 0
    BY <1>1, <2>1, <2>3 DEF PanelInv
  <2>5. TableSpeaks => WasTheList(runs, NoProject, past', faults')
    BY <1>1, <2>3, ListsStay DEF PanelInv
  <2> QED
    BY <1>2, <2>2, <2>4, <2>5 DEF PanelInv, TableSpeaks, FirstRender
<1> QED
  BY <1>3, <1>4 DEF Others

LEMMA ArriveKeepsPanel ==
    ASSUME PanelInv, NEW d \in Readers, Arrive(d)
    PROVE  PanelInv'
<1>1. CacheInv /\ CacheTypeInv /\ asked \subseteq Readers /\ Lookup(d, NoProject)
  BY DEF PanelInv, CacheInv, Arrive
<1>2. UNCHANGED <<open, blank, runs, loading, asked, mine>>
  BY DEF panel, Arrive
<1>3. CacheInv'
  BY <1>1, LookupKeepsCache
<1>4. /\ past' = past /\ faults' \in Nat /\ faults' >= faults /\ faults \in Nat
      /\ query'[d] = NoProject /\ rpc'[d] # "failed"
      /\ \A e \in Readers \ {d} : query'[e] = query[e] /\ rpc'[e] = rpc[e]
  BY <1>1, LookupEffects DEF CacheTypeInv
<1>5. /\ \A e \in asked : query'[e] = NoProject
      /\ \A e \in asked : rpc'[e] = "failed" => faults' # 0
  BY <1>1, <1>4 DEF PanelInv
<1>6. TableSpeaks => WasTheList(runs, NoProject, past', faults')
  BY <1>1, <1>4, ListsStay DEF PanelInv
<1> QED
  BY <1>2, <1>3, <1>5, <1>6 DEF PanelInv, TableSpeaks, FirstRender

\* An answer to the panel on show is its rows; a failure leaves them.
LEMMA SettledKeepsPanel ==
    ASSUME PanelInv, NEW d \in asked, NEW ok \in BOOLEAN, Settled(d, ok), Over(d),
           past' = past, cache' = cache, query' = query, faults' \in Nat, faults' >= faults,
           ok => rpc[d] = "done",
           ~ok => faults' # 0
    PROVE  PanelInv'
<1>1. CacheInv /\ CacheTypeInv /\ d \in Readers /\ faults \in Nat
  BY DEF PanelInv, CacheInv, CacheTypeInv
<1>2. /\ rpc' = [rpc EXCEPT ![d] = "idle"] /\ list' = [list EXCEPT ![d] = <<>>]
      /\ past' = past /\ cache' = cache /\ query' = query
  BY DEF Over, Goto
<1>3. CacheInv'
  <2>1. /\ rpc' \in [Readers -> Ended \cup {"missed", "selected"}]
        /\ query' \in [Readers -> Projects \cup {NoProject, "all"}]
        /\ list' \in [Readers -> Seq(Row)]
        /\ \A e \in {d} : rpc'[e] = "idle"
        /\ \A e \in Readers \ {d} : rpc'[e] = rpc[e] /\ query'[e] = query[e] /\ list'[e] = list[e]
    BY <1>1, <1>2 DEF CacheTypeInv, Ended
  <2> DEFINE ds == {d}
  <2>2. ds \in SUBSET Readers
    BY <1>1
  <2>3. /\ \A e \in ds : rpc'[e] = "idle"
        /\ \A e \in Readers \ ds : rpc'[e] = rpc[e] /\ query'[e] = query[e] /\ list'[e] = list[e]
    BY <2>1
  <2> HIDE DEF ds
  <2> QED
    BY <1>1, <1>2, <2>1, <2>2, <2>3, ResetKeepsCache
<1>4. /\ asked' = asked \ {d} /\ mine' = mine \ {d} /\ open' = open
      /\ d \in mine => /\ loading' = FALSE /\ blank' = FALSE
                      /\ runs' = IF ok THEN list[d] ELSE runs
      /\ d \notin mine => loading' = loading /\ runs' = runs /\ blank' = blank
  BY DEF Settled, Done, setRuns
<1>5. /\ \A e \in asked' : query'[e] = NoProject
      /\ \A e \in asked' : rpc'[e] = "failed" => faults' # 0
  <2>1. \A e \in asked' : e \in asked /\ e \in Readers /\ rpc'[e] = rpc[e] /\ query'[e] = query[e]
    BY <1>1, <1>2, <1>4 DEF PanelInv, CacheTypeInv
  <2> QED
    BY <1>1, <2>1 DEF PanelInv
<1>6. WasTheList(<<>>, NoProject, past', faults') \/ ok
  BY <1>1, <1>2, NoneAfterAFault
<1>7. ok => WasTheList(list[d], NoProject, past', faults')
  <2>1. ok => WasTheList(list[d], NoProject, past, faults)
    BY <1>1 DEF PanelInv, CacheInv
  <2> QED
    BY <1>1, <1>2, <2>1, ListsStay
<1>8. TableSpeaks => WasTheList(runs, NoProject, past', faults')
  BY <1>1, <1>2, ListsStay DEF PanelInv
<1>9. ~open => d \notin mine
  BY DEF PanelInv
<1>10. /\ ~open' => runs' = <<>> /\ mine' = {}
       /\ TableSpeaks' => WasTheList(runs', NoProject, past', faults')
  BY <1>4, <1>6, <1>7, <1>8, <1>9 DEF PanelInv, TableSpeaks, FirstRender
<1>11. FirstRender' /\ blank' \in BOOLEAN /\ loading' \in BOOLEAN
  <2>1. FirstRender /\ blank \in BOOLEAN /\ loading \in BOOLEAN
    BY DEF PanelInv
  <2>2. CASE d \in mine
    BY <1>4, <2>2 DEF FirstRender
  <2>3. CASE d \notin mine
    BY <1>4, <2>1, <2>3 DEF FirstRender
  <2> QED
    BY <2>2, <2>3
<1>12. asked' \subseteq Readers /\ mine' \subseteq asked' /\ open' \in BOOLEAN
  BY <1>1, <1>4 DEF PanelInv
<1> QED
  BY <1>3, <1>5, <1>10, <1>11, <1>12 DEF PanelInv

LEMMA FetchKeepsCache ==
    ASSUME PanelInv, NEW ds \in SUBSET Readers, fetchRuns(ds)
    PROVE  /\ CacheInv'
           /\ asked' \subseteq Readers /\ mine' \subseteq asked'
           /\ \A d \in asked' : query'[d] = NoProject
           /\ \A d \in asked' : rpc'[d] = "failed" => faults' # 0
           /\ past' = past /\ faults' = faults /\ loading' = TRUE
<1>1. CacheInv /\ CacheTypeInv /\ faults \in Nat /\ asked \subseteq Readers
  BY DEF PanelInv, CacheInv, CacheTypeInv
<1>2. /\ asked' = asked \cup ds /\ mine' = mine \cup ds /\ loading' = TRUE
      /\ rpc' = [d \in Readers |-> IF d \in ds THEN "idle" ELSE rpc[d]]
      /\ list' = [d \in Readers |-> IF d \in ds THEN <<>> ELSE list[d]]
      /\ query' = [d \in Readers |-> IF d \in ds THEN NoProject ELSE query[d]]
      /\ UNCHANGED <<past, cache, faults>>
  BY DEF fetchRuns
<1>3. /\ rpc' \in [Readers -> Ended \cup {"missed", "selected"}]
      /\ query' \in [Readers -> Projects \cup {NoProject, "all"}]
      /\ list' \in [Readers -> Seq(Row)]
  BY <1>1, <1>2 DEF CacheTypeInv, Ended
<1>4. /\ \A d \in ds : rpc'[d] = "idle" /\ query'[d] = NoProject
      /\ \A d \in Readers \ ds : rpc'[d] = rpc[d] /\ query'[d] = query[d] /\ list'[d] = list[d]
  BY <1>2
<1>5. CacheInv'
  <2>1. past' = past /\ cache' = cache /\ faults' \in Nat /\ faults' >= faults
    BY <1>1, <1>2
  <2> QED
    BY <1>1, <1>3, <1>4, <2>1, ResetKeepsCache
<1>6. \A d \in asked' : query'[d] = NoProject /\ (rpc'[d] = "failed" => faults' # 0)
  BY <1>1, <1>2, <1>4 DEF PanelInv
<1> QED
  BY <1>1, <1>2, <1>5, <1>6 DEF PanelInv

LEMMA StepPanel ==
    ASSUME PanelInv, [PanelNext]_allVars
    PROVE  PanelInv'
<1>1. faults \in Nat /\ CacheInv /\ asked \subseteq Readers /\ CacheTypeInv
  BY DEF PanelInv, CacheInv, CacheTypeInv
<1>2. ASSUME NEW d \in Readers, Answer(d) PROVE PanelInv'
  <2> DEFINE ok == rpc[d] = "done"
  <2>1. /\ d \in asked /\ Settled(d, ok) /\ Over(d)
        /\ past' = past /\ cache' = cache /\ query' = query /\ faults' = faults
        /\ ok \in BOOLEAN /\ (~ok => rpc[d] = "failed")
    BY <1>2 DEF Answer
  <2>2. ~ok => faults' # 0
    BY <2>1 DEF PanelInv
  <2>3. faults' \in Nat /\ faults' >= faults /\ (ok => rpc[d] = "done")
    BY <1>1, <2>1
  <2> HIDE DEF ok
  <2> QED
    BY <2>1, <2>2, <2>3, SettledKeepsPanel
<1>3. ASSUME NEW d \in Readers, Lose(d) PROVE PanelInv'
  <2>1. /\ d \in asked /\ Settled(d, FALSE) /\ Over(d)
        /\ past' = past /\ cache' = cache /\ query' = query /\ faults' = faults + 1
    BY <1>3 DEF Lose, Fault
  <2>2. faults' \in Nat /\ faults' >= faults /\ faults' # 0
    BY <1>1, <2>1
  <2> QED
    BY <2>1, <2>2, SettledKeepsPanel
<1>4. CASE Mount
  <2>1. PICK ds \in SUBSET Readers : fetchRuns(ds)
    BY <1>4 DEF Mount
  <2>2. ~open /\ open' = TRUE /\ blank' = TRUE /\ runs' = runs
    BY <1>4 DEF Mount
  <2> QED
    BY <2>1, <2>2, FetchKeepsCache DEF PanelInv, TableSpeaks, FirstRender
<1>5. CASE Refresh
  <2>1. PICK d \in Readers : fetchRuns({d})
    BY <1>5 DEF Refresh
  <2>2. /\ CacheInv' /\ asked' \subseteq Readers /\ mine' \subseteq asked'
        /\ \A e \in asked' : query'[e] = NoProject
        /\ \A e \in asked' : rpc'[e] = "failed" => faults' # 0
        /\ past' = past /\ faults' = faults /\ loading' = TRUE
    BY <2>1, FetchKeepsCache
  <2>3. open /\ open' = open /\ runs' = runs /\ blank' = FALSE /\ (loading => blank)
    BY <1>5 DEF Refresh
  <2> QED
    BY <2>2, <2>3 DEF PanelInv, TableSpeaks, FirstRender
<1>6. CASE Unmount
  <2>1. /\ open' = FALSE /\ blank' = FALSE /\ runs' = <<>> /\ loading' = FALSE /\ mine' = {} /\ asked' = asked
        /\ UNCHANGED vars
    BY <1>6 DEF Unmount
  <2>2. CacheInv' /\ query' = query /\ rpc' = rpc /\ faults' = faults
    BY <1>1, <2>1, StutterKeepsCache DEF vars
  <2> QED
    BY <2>1, <2>2 DEF PanelInv, TableSpeaks, FirstRender
<1>7. CASE Inspect \/ UNCHANGED allVars
  <2>1. UNCHANGED vars /\ UNCHANGED <<open, blank, runs, loading, asked, mine>>
    BY <1>7 DEF Inspect, allVars, panel
  <2>2. CacheInv' /\ query' = query /\ rpc' = rpc /\ faults' = faults /\ past' = past
    BY <1>1, <2>1, StutterKeepsCache DEF vars
  <2> QED
    BY <2>1, <2>2 DEF PanelInv, TableSpeaks, FirstRender
<1>8. CASE Rerender
  <2>1. UNCHANGED vars /\ UNCHANGED <<open, runs, loading, asked, mine>> /\ blank' = FALSE /\ blank
    BY <1>8 DEF Rerender
  <2>2. CacheInv' /\ query' = query /\ rpc' = rpc /\ faults' = faults /\ past' = past
    BY <1>1, <2>1, StutterKeepsCache DEF vars
  <2> QED
    BY <2>1, <2>2 DEF PanelInv, TableSpeaks, FirstRender
<1> QED
  BY <1>2, <1>3, <1>4, <1>5, <1>6, <1>7, <1>8, OthersKeepPanel, ArriveKeepsPanel DEF PanelNext

LEMMA PanelHolds == PanelSpec => []PanelInv
  BY InitPanel, StepPanel, PTL DEF PanelSpec

(***************************************************************************)
(* The answers to the panel are lists the ledger had too, among those to   *)
(* the other clients (handleListDiffs, fetchRuns).                         *)
(***************************************************************************)
THEOREM PanelResponsesAreLedgerLists == PanelSpec => []ResponsesAreSnapshots
<1>1. PanelInv => ResponsesAreSnapshots
  BY DEF PanelInv, CacheInv, ResponsesAreSnapshots, WasTheList, Snapshot, Asked
<1> QED
  BY <1>1, PanelHolds, PTL

(***************************************************************************)
(* From the second render on, what the audit panel says, also that there   *)
(* is nothing, is a list the ledger had, or its newest rows when a call    *)
(* failed: two requests of a mount, late answers to a panel that is gone   *)
(* and entries of Redis never mix two lists (fetchRuns).                   *)
(***************************************************************************)
THEOREM TheScreenIsALedgerList == PanelSpec => []ScreenIsASnapshot
<1>1. PanelInv => ScreenIsASnapshot
  <2>1. Asked(NoProject) = NoProject
    BY ConstantsAssumption DEF Asked
  <2> QED
    BY <2>1 DEF PanelInv, ScreenIsASnapshot, WasTheList, Snapshot
<1> QED
  BY <1>1, PanelHolds, PTL
=============================================================================
