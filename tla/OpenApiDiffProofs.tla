-------------------------- MODULE OpenApiDiffProofs ---------------------------
(***************************************************************************)
(* Proofs about the OpenAPI checker, for any sets of paths, methods,       *)
(* names, codes and locations and any first release: the counter of the    *)
(* summary is the size of the list, an addition is never refused, and what *)
(* the releases let through keeps the requests and the payloads of the     *)
(* first.                                                                  *)
(*                                                                         *)
(* The invariant is that the three specifications are well formed, which   *)
(* every edit has to keep, that a report is the one of the two it was      *)
(* asked about, and that a location kept is declared by every release.     *)
(***************************************************************************)
EXTENDS OpenApiDiff, FiniteSetTheorems, SequenceTheorems, WellFoundedInduction, TLAPS

\* Two sets that do not overlap.
LEMMA SizeOfDisjoint ==
    ASSUME NEW A, NEW B, IsFiniteSet(A), IsFiniteSet(B), A \cap B = {}
    PROVE  IsFiniteSet(A \cup B) /\ Cardinality(A \cup B) = Cardinality(A) + Cardinality(B)
<1>1. /\ IsFiniteSet(A \cup B)
      /\ Cardinality(A \cup B) = Cardinality(A) + Cardinality(B) - Cardinality(A \cap B)
  BY FS_Union
<1>2. Cardinality(A) \in Nat /\ Cardinality(B) \in Nat /\ Cardinality(A \cap B) = 0
  BY FS_EmptySet, FS_CardinalityType
<1> QED
  BY <1>1, <1>2

(***************************************************************************)
(* The union of finitely many finite sets is finite, and as large as their *)
(* sizes together when no two overlap: the counters of compare_specs.  The *)
(* sum is defined by recursion over subsets; its only solution is the size *)
(* of the union, since a smallest subset where another one differs would   *)
(* differ without its chosen element already.                              *)
(***************************************************************************)
LEMMA UnionsAreFinite ==
    ASSUME NEW S, IsFiniteSet(S), NEW D, \A x \in S : IsFiniteSet(D[x])
    PROVE  IsFiniteSet(UNION {D[x] : x \in S})
<1> DEFINE sets == {D[x] : x \in S}
<1>1. IsFiniteSet(sets)
  <2> DEFINE G == [x \in S |-> D[x]]
  <2>1. G \in [S -> sets] /\ sets = {G[x] : x \in S}
    OBVIOUS
  <2>2. G \in Surjection(S, sets)
    BY <2>1 DEF Surjection
  <2> HIDE DEF G, sets
  <2> QED
    BY <2>2, FS_Surjection
<1>2. \A e \in sets : IsFiniteSet(e)
  OBVIOUS
<1> HIDE DEF sets
<1>3. IsFiniteSet(UNION sets)
  BY <1>1, <1>2, FS_UNION
<1> QED
  BY <1>3 DEF sets

LEMMA SumOfSizes ==
    ASSUME NEW S, IsFiniteSet(S), NEW D, \A x \in S : IsFiniteSet(D[x]),
           \A x, y \in S : x # y => D[x] \cap D[y] = {}
    PROVE  SumFunction([x \in S |-> Cardinality(D[x])]) = Cardinality(UNION {D[x] : x \in S})
<1> DEFINE f == [x \in S |-> Cardinality(D[x])]
           pick(s) == CHOOSE x \in s : TRUE
           All(s) == UNION {D[x] : x \in s}
           Step(it) == [s \in SUBSET S |->
                           IF s = {} THEN 0 ELSE f[pick(s)] + it[s \ {pick(s)}]]
           size == [s \in SUBSET S |-> Cardinality(All(s))]
<1>1. ASSUME NEW s \in SUBSET S, s # {}
      PROVE  /\ pick(s) \in s /\ s \ {pick(s)} \in SUBSET S
             /\ size[s] = f[pick(s)] + size[s \ {pick(s)}]
  <2> DEFINE x == pick(s)
             r == s \ {x}
  <2>1. x \in s
    BY <1>1
  <2> HIDE DEF x
  <2>2. x \in S /\ IsFiniteSet(r) /\ r \in SUBSET S
    BY <2>1, FS_Subset
  <2>3. IsFiniteSet(All(r)) /\ IsFiniteSet(D[x])
    BY <2>2, UnionsAreFinite
  <2>4. All(s) = D[x] \cup All(r) /\ D[x] \cap All(r) = {}
    BY <2>1
  <2> HIDE DEF All, r
  <2>5. Cardinality(All(s)) = Cardinality(D[x]) + Cardinality(All(r))
    BY <2>3, <2>4, SizeOfDisjoint
  <2> QED
    BY <2>1, <2>2, <2>5 DEF x, r
<1>2. size[{}] = 0
  BY FS_EmptySet
<1>3. size = Step(size)
  <2> HIDE DEF pick, f
  <2>1. \A s \in SUBSET S : size[s] = Step(size)[s]
    <3> HIDE DEF size
    <3> QED
      BY <1>1, <1>2
  <2> QED
    BY <2>1, Zenon
<1>4. ASSUME NEW it, it = Step(it)
      PROVE  it = size
  <2> DEFINE bad == {s \in SUBSET S : it[s] # size[s]}
  <2>1. SUFFICES ASSUME bad # {} PROVE FALSE
    BY <1>4
  <2>2. IsWellFoundedOn(StrictSubsetOrdering(S), SUBSET S)
    BY FS_StrictSubsetOrderingWellFounded, FS_FiniteSubsetsOfFinite
  <2> HIDE DEF bad
  <2>3. PICK s \in bad : \A r \in bad : ~(<<r, s>> \in StrictSubsetOrdering(S))
    <3>1. bad \subseteq SUBSET S
      BY DEF bad
    <3> QED
      BY <2>1, <2>2, <3>1, WFMin, Zenon
  <2>4. s \in SUBSET S /\ it[s] # size[s]
    BY DEF bad
  <2>5. it[s] = IF s = {} THEN 0 ELSE f[pick(s)] + it[s \ {pick(s)}]
    BY <1>4, <2>4
  <2> HIDE DEF f, size, pick, Step
  <2>6. s # {}
    BY <1>2, <2>4, <2>5
  <2>7. s \ {pick(s)} \notin bad
    <3> DEFINE r == s \ {pick(s)}
    <3>1. pick(s) \in s /\ r \in SUBSET S
      BY <1>1, <2>4, <2>6
    <3>2. r \subseteq s /\ r # s
      BY <3>1
    <3> HIDE DEF r
    <3>3. <<r, s>> \in StrictSubsetOrdering(S)
      BY <2>4, <3>1, <3>2 DEF StrictSubsetOrdering
    <3>4. r \notin bad
      BY <2>3, <3>3
    <3> QED
      BY <3>4 DEF r
  <2>8. it[s \ {pick(s)}] = size[s \ {pick(s)}]
    BY <1>1, <2>4, <2>6, <2>7 DEF bad
  <2> QED
    BY <1>1, <2>4, <2>5, <2>6, <2>8
<1>5. SumFunction(f) = (CHOOSE it : it = Step(it))[S]
  <2>1. DOMAIN f = S
    OBVIOUS
  <2> HIDE DEF f
  <2> QED
    BY <2>1 DEF SumFunction, SumFunctionOnSet, FoldFunctionOnSet, MapThenFoldSet
<1>6. (CHOOSE it : it = Step(it)) = size
  <2> HIDE DEF Step, size
  <2> QED
    BY <1>3, <1>4, Zenon
<1>7. size[S] = Cardinality(All(S))
  OBVIOUS
<1> QED
  BY <1>5, <1>6, <1>7

LEMMA ImagesAreFinite ==
    ASSUME NEW S, IsFiniteSet(S), NEW g
    PROVE  IsFiniteSet({g[x] : x \in S})
<1> DEFINE G == [x \in S |-> g[x]]
           T == {g[x] : x \in S}
<1>1. G \in [S -> T] /\ T = {G[x] : x \in S}
  OBVIOUS
<1>2. G \in Surjection(S, T)
  BY <1>1 DEF Surjection
<1> HIDE DEF G, T
<1>3. IsFiniteSet(T)
  BY <1>2, FS_Surjection
<1> QED
  BY <1>3 DEF T

LEMMA PartsOfImagesAreFinite ==
    ASSUME NEW S, IsFiniteSet(S), NEW g, NEW C, C \subseteq {g[x] : x \in S}
    PROVE  IsFiniteSet(C)
<1>1. IsFiniteSet({g[x] : x \in S})
  BY ImagesAreFinite
<1> QED
  BY <1>1, FS_Subset

-----------------------------------------------------------------------------
(* The parts of a report.                                                  *)

LEMMA UnlessIsPart == ASSUME NEW r, NEW X PROVE Unless(r, X) \subseteq X
  BY DEF Unless

\* Operations and places as tuples.
LEMMA OpsArePairs ==
    ASSUME NEW o \in Ops
    PROVE  o[1] \in Paths /\ o[2] \in Methods /\ o = <<o[1], o[2]>> /\ Len(o) = 2
  BY DEF Ops

LEMMA PlacesAreTriples ==
    ASSUME NEW pl \in Places
    PROVE  /\ pl[1] \in Ops /\ pl[2] \in Slots /\ pl[3] \in Media
           /\ pl = <<pl[1], pl[2], pl[3]>>
  BY DEF Places

LEMMA OpsAreFinite == IsFiniteSet(Ops) /\ IsFiniteSet(Slots) /\ IsFiniteSet(Places)
<1>1. IsFiniteSet(Ops)
  BY FiniteAssumption, FS_Product DEF Ops
<1>2. IsFiniteSet({"requestBody"})
  BY FS_Singleton
<1>3. IsFiniteSet(Slots)
  BY <1>2, FiniteAssumption, FS_Union DEF Slots
<1> DEFINE D == (Ops \X Slots) \X Media
           g == [p \in D |-> <<p[1][1], p[1][2], p[2]>>]
<1>5. IsFiniteSet(Ops \X Slots)
  BY <1>1, <1>3, FS_Product
<1>6. IsFiniteSet(D)
  BY <1>5, FiniteAssumption, FS_Product
<1>7. Places \subseteq {g[p] : p \in D}
  <2> SUFFICES ASSUME NEW pl \in Places PROVE pl \in {g[p] : p \in D}
    OBVIOUS
  <2> DEFINE p == <<<<pl[1], pl[2]>>, pl[3]>>
  <2>1. p \in D
    BY PlacesAreTriples
  <2>2. g[p] = pl
    BY <2>1, PlacesAreTriples
  <2> QED
    BY <2>1, <2>2
<1> HIDE DEF D, g
<1>8. IsFiniteSet(Places)
  BY <1>6, <1>7, PartsOfImagesAreFinite
<1> QED
  BY <1>1, <1>3, <1>8

LEMMA RemovedEndpoints ==
    ASSUME NEW b, NEW t
    PROVE  /\ IsFiniteSet(removed_endpoints(b, t))
           /\ \A c \in removed_endpoints(b, t) : c.rule = "removed_endpoint"
<1> DEFINE g == [p \in Paths |-> Change("removed_endpoint", <<p>>, "")]
           C == removed_endpoints(b, t)
<1>1. C \subseteq {g[p] : p \in Paths}
  BY UnlessIsPart DEF removed_endpoints
<1>2. \A p \in Paths : g[p].rule = "removed_endpoint"
  BY DEF Change
<1> HIDE DEF g, C
<1>3. IsFiniteSet(C)
  BY <1>1, FiniteAssumption, PartsOfImagesAreFinite
<1> QED
  BY <1>1, <1>2, <1>3 DEF C

LEMMA RemovedMethods ==
    ASSUME NEW b, NEW t, b.ops \subseteq Ops
    PROVE  /\ IsFiniteSet(removed_methods(b, t))
           /\ \A c \in removed_methods(b, t) : c.rule = "removed_method"
<1> DEFINE g == [o \in Ops |-> Change("removed_method", o, "")]
           C == removed_methods(b, t)
<1>1. C \subseteq {g[o] : o \in Ops}
  BY UnlessIsPart DEF removed_methods
<1>2. \A o \in Ops : g[o].rule = "removed_method"
  BY DEF Change
<1> HIDE DEF g, C
<1>3. IsFiniteSet(C)
  BY <1>1, OpsAreFinite, PartsOfImagesAreFinite
<1> QED
  BY <1>1, <1>2, <1>3 DEF C

LEMMA SpecFields ==
    ASSUME NEW s \in Specs
    PROVE  /\ s.ops \subseteq Ops /\ s.responses \subseteq Ops \X Codes
           /\ s.paths \in [Paths -> {"absent", "item", "ref"}]
           /\ s.params \in [Ops -> Seq(Param)] /\ \A o \in Ops : s.params[o] \in Seq(Param)
           /\ s.nodes \in [Places \X Locations -> Node \cup {Absent}]
           /\ \A pl \in Places, l \in Locations : s.nodes[<<pl, l>>] \in Node \cup {Absent}
  BY DEF Specs

LEMMA ParamMapNames ==
    ASSUME NEW s \in Specs, NEW o \in Ops
    PROVE  /\ DOMAIN ParamMap(s.params[o]) = NamesOf(s.params[o])
           /\ NamesOf(s.params[o]) \subseteq Names
<1>1. s.params[o] \in Seq(Param)
  BY SpecFields
<1>2. \A i \in DOMAIN s.params[o] : s.params[o][i] \in Param
  BY <1>1
<1>3. \A x \in Param : x.name \in Names
  BY DEF Param
<1> QED
  BY <1>2, <1>3 DEF ParamMap, NamesOf, InlineOf

LEMMA ParameterChanges ==
    ASSUME NEW b \in Specs, NEW t \in Specs, NEW o \in Ops
    PROVE  /\ IsFiniteSet(diff_parameters(b, t, o))
           /\ \A c \in diff_parameters(b, t, o) :
                 c.rule \in {"removed_parameter", "new_required_field"} /\ c.path = o
<1> DEFINE gone == [n \in Names |-> Change("removed_parameter", o, n)]
           need == [n \in Names |-> Change("new_required_field", o, n)]
           C == diff_parameters(b, t, o)
           G == {c \in C : c \in {gone[n] : n \in Names}}
           N == {c \in C : c \in {need[n] : n \in Names}}
<1>1. C = G \cup N
  BY ParamMapNames, UnlessIsPart DEF diff_parameters
<1>2. \A n \in Names : /\ gone[n].rule = "removed_parameter" /\ gone[n].path = o
                       /\ need[n].rule = "new_required_field" /\ need[n].path = o
  BY DEF Change
<1> HIDE DEF gone, need, C
<1>3. G \subseteq {gone[n] : n \in Names} /\ N \subseteq {need[n] : n \in Names}
  OBVIOUS
<1> HIDE DEF G, N
<1>4. IsFiniteSet(G) /\ IsFiniteSet(N)
  BY <1>3, FiniteAssumption, PartsOfImagesAreFinite
<1>5. IsFiniteSet(C)
  BY <1>1, <1>4, FS_Union
<1> QED
  BY <1>1, <1>2, <1>3, <1>5 DEF C

LEMMA RemovedResponses ==
    ASSUME NEW b, NEW t, NEW o
    PROVE  /\ IsFiniteSet(removed_responses(b, t, o))
           /\ \A c \in removed_responses(b, t, o) : c.rule = "removed_response" /\ c.path = o
<1> DEFINE g == [c \in Codes |-> Change("removed_response", o, c)]
           C == removed_responses(b, t, o)
<1>1. C \subseteq {g[c] : c \in Codes}
  BY UnlessIsPart DEF removed_responses, CodesOf
<1>2. \A c \in Codes : g[c].rule = "removed_response" /\ g[c].path = o
  BY DEF Change
<1> HIDE DEF g, C
<1>3. IsFiniteSet(C)
  BY <1>1, FiniteAssumption, PartsOfImagesAreFinite
<1> QED
  BY <1>1, <1>2, <1>3 DEF C

LEMMA Concatenation ==
    ASSUME NEW A, NEW p \in Seq(A), NEW q \in Seq(A)
    PROVE  /\ p \o q \in Seq(A) /\ Len(p \o q) = Len(p) + Len(q)
           /\ \A i \in 1..Len(p) : (p \o q)[i] = p[i]
  BY ConcatProperties

\* What one call of diff_schemas says of the node at a location.
LEMMA NodeChanges ==
    ASSUME NEW b, NEW t, NEW w, b.enum \subseteq Values, t.required \subseteq Fields
    PROVE  /\ IsFiniteSet(diff_node(b, t, w))
           /\ \A c \in diff_node(b, t, w) :
                 /\ c.rule \in {"type_change", "enum_removal", "new_required_field"}
                 /\ c.path = w \/ \E f \in Fields : c.path = Append(w, f)
<1> DEFINE kind == [x \in {t.type} |-> Change("type_change", w, x)]
           gone == [v \in Values |-> Change("enum_removal", w, v)]
           need == [f \in Fields |-> Change("new_required_field", Append(w, f), f)]
           C == diff_node(b, t, w)
           K == {c \in C : c \in {kind[x] : x \in {t.type}}}
           G == {c \in C : c \in {gone[v] : v \in Values}}
           N == {c \in C : c \in {need[f] : f \in Fields}}
<1>1. C = K \cup G \cup N
  BY UnlessIsPart DEF diff_node, When
<1>2. /\ \A x \in {t.type} : kind[x].rule = "type_change" /\ kind[x].path = w
      /\ \A v \in Values : gone[v].rule = "enum_removal" /\ gone[v].path = w
      /\ \A f \in Fields : need[f].rule = "new_required_field" /\ need[f].path = Append(w, f)
  BY DEF Change
<1> HIDE DEF kind, gone, need, C
<1>3. /\ K \subseteq {kind[x] : x \in {t.type}}
      /\ G \subseteq {gone[v] : v \in Values} /\ N \subseteq {need[f] : f \in Fields}
  OBVIOUS
<1> HIDE DEF K, G, N
<1>4. IsFiniteSet({t.type})
  BY FS_Singleton
<1>5. IsFiniteSet(K) /\ IsFiniteSet(G) /\ IsFiniteSet(N)
  BY <1>3, <1>4, FiniteAssumption, PartsOfImagesAreFinite
<1>6. IsFiniteSet(K \cup G)
  BY <1>5, FS_Union
<1>7. IsFiniteSet(C)
  BY <1>1, <1>5, <1>6, FS_Union
<1> QED
  BY <1>1, <1>2, <1>3, <1>7 DEF C

LEMMA SchemaChanges ==
    ASSUME NEW b \in Specs, NEW t \in Specs, NEW pl \in Places
    PROVE  /\ IsFiniteSet(diff_schemas(b, t, pl))
           /\ \A c \in diff_schemas(b, t, pl) :
                 /\ c.rule \in {"type_change", "enum_removal", "new_required_field"}
                 /\ Len(c.path) \in Nat /\ Len(c.path) >= 3
                 /\ c.path[1] = pl[1] /\ c.path[2] = pl[2] /\ c.path[3] = pl[3]
<1> DEFINE R == Reached(b, t, pl)
           D == [l \in R |-> diff_node(b.nodes[<<pl, l>>], t.nodes[<<pl, l>>], pl \o l)]
<1>1. \A l \in R : /\ l \in Locations /\ l \in Seq(Fields)
                   /\ b.nodes[<<pl, l>>] \in Node /\ t.nodes[<<pl, l>>] \in Node
  <2> SUFFICES ASSUME NEW l \in R
               PROVE  /\ l \in Locations /\ l \in Seq(Fields)
                      /\ b.nodes[<<pl, l>>] \in Node /\ t.nodes[<<pl, l>>] \in Node
    OBVIOUS
  <2>1. l \in Locations /\ b.nodes[<<pl, l>>] # Absent /\ t.nodes[<<pl, l>>] # Absent
    BY DEF Reached, Inline
  <2> HIDE DEF R
  <2>2. b.nodes[<<pl, l>>] \in Node \cup {Absent} /\ t.nodes[<<pl, l>>] \in Node \cup {Absent}
    BY <2>1, SpecFields
  <2>3. l \in Seq(Fields)
    BY <2>1, LocationsAssumption
  <2> QED
    BY <2>1, <2>2, <2>3
<1>2. \A l \in R : /\ b.nodes[<<pl, l>>].enum \subseteq Values
                   /\ t.nodes[<<pl, l>>].required \subseteq Fields
  <2> HIDE DEF R
  <2>1. \A n \in Node : n.enum \subseteq Values /\ n.required \subseteq Fields
    BY DEF Node
  <2> QED
    BY <1>1, <2>1
<1>3. ASSUME NEW l \in R
      PROVE  /\ IsFiniteSet(D[l])
             /\ \A c \in D[l] :
                   /\ c.rule \in {"type_change", "enum_removal", "new_required_field"}
                   /\ c.path = pl \o l \/ \E f \in Fields : c.path = Append(pl \o l, f)
  <2> DEFINE x == b.nodes[<<pl, l>>]
             y == t.nodes[<<pl, l>>]
  <2>1. x.enum \subseteq Values /\ y.required \subseteq Fields
    BY <1>2
  <2> DEFINE w == pl \o l
             C == diff_node(x, y, w)
  <2>2. D[l] = C
    OBVIOUS
  <2> HIDE DEF x, y, w
  <2>3. /\ IsFiniteSet(C)
        /\ \A c \in C :
              /\ c.rule \in {"type_change", "enum_removal", "new_required_field"}
              /\ c.path = w \/ \E f \in Fields : c.path = Append(w, f)
    BY <2>1, NodeChanges
  <2> HIDE DEF C, D
  <2> QED
    BY <2>2, <2>3 DEF w
<1>4. diff_schemas(b, t, pl) = UNION {D[l] : l \in R}
  BY DEF diff_schemas
<1>5. ASSUME NEW l \in R
      PROVE  LET w == pl \o l
             IN  /\ Len(w) \in Nat /\ Len(w) >= 3
                 /\ w[1] = pl[1] /\ w[2] = pl[2] /\ w[3] = pl[3]
                 /\ \A f \in Fields : LET v == Append(w, f)
                                      IN  /\ Len(v) \in Nat /\ Len(v) >= 3
                                          /\ v[1] = pl[1] /\ v[2] = pl[2] /\ v[3] = pl[3]
  <2>1. l \in Seq(Fields)
    BY <1>1
  <2>2. pl = <<pl[1], pl[2], pl[3]>>
    BY PlacesAreTriples
  <2> DEFINE A == Fields \cup {pl[1], pl[2], pl[3]}
             w == pl \o l
  <2>3. pl \in Seq(A) /\ l \in Seq(A) /\ Len(pl) = 3
    <3> HIDE DEF A
    <3>1. pl[1] \in A /\ pl[2] \in A /\ pl[3] \in A /\ Fields \subseteq A
      BY DEF A
    <3>2. l \in Seq(A)
      BY <2>1, <3>1
    <3> DEFINE x == pl[1]
               y == pl[2]
               z == pl[3]
    <3>3. x \in A /\ y \in A /\ z \in A /\ pl = <<x, y, z>>
      BY <2>2, <3>1
    <3> HIDE DEF x, y, z
    <3> QED
      BY <3>2, <3>3
  <2> HIDE DEF A
  <2>4. w \in Seq(A) /\ Len(w) = 3 + Len(l) /\ Len(l) \in Nat
        /\ \A i \in 1..3 : w[i] = pl[i]
    <3> HIDE DEF R, D
    <3>1. /\ w \in Seq(A) /\ Len(w) = Len(pl) + Len(l)
          /\ \A i \in 1..Len(pl) : w[i] = pl[i]
      BY <2>3, Concatenation
    <3>2. Len(l) \in Nat
      BY <2>3
    <3> QED
      BY <2>3, <3>1, <3>2
  <2> HIDE DEF w, R, D
  <2>5. \A f : Len(Append(w, f)) = Len(w) + 1 /\ \A i \in 1..Len(w) : Append(w, f)[i] = w[i]
    BY <2>4
  <2> QED
    BY <2>4, <2>5 DEF w
<1>6. IsFiniteSet(R)
  <2>1. R \subseteq Locations
    BY <1>1
  <2> HIDE DEF R
  <2> QED
    BY <2>1, FiniteAssumption, FS_Subset
<1> HIDE DEF R, D
<1>7. IsFiniteSet(diff_schemas(b, t, pl))
  BY <1>3, <1>4, <1>6, UnionsAreFinite
<1>8. ASSUME NEW c \in diff_schemas(b, t, pl)
      PROVE  /\ c.rule \in {"type_change", "enum_removal", "new_required_field"}
             /\ Len(c.path) \in Nat /\ Len(c.path) >= 3
             /\ c.path[1] = pl[1] /\ c.path[2] = pl[2] /\ c.path[3] = pl[3]
  <2>1. PICK l \in R : c \in D[l]
    BY <1>4
  <2>2. c.rule \in {"type_change", "enum_removal", "new_required_field"}
    BY <1>3, <2>1
  <2>3. c.path = pl \o l \/ \E f \in Fields : c.path = Append(pl \o l, f)
    BY <1>3, <2>1
  <2> DEFINE w == pl \o l
  <2>4. /\ Len(w) \in Nat /\ Len(w) >= 3
        /\ w[1] = pl[1] /\ w[2] = pl[2] /\ w[3] = pl[3]
        /\ \A f \in Fields : LET v == Append(w, f)
                             IN  /\ Len(v) \in Nat /\ Len(v) >= 3
                                 /\ v[1] = pl[1] /\ v[2] = pl[2] /\ v[3] = pl[3]
    BY <1>5
  <2> HIDE DEF w
  <2> QED
    BY <2>2, <2>3, <2>4 DEF w
<1> QED
  BY <1>7, <1>8

(***************************************************************************)
(* The counter of the summary is the size of the list: the changes of one  *)
(* part differ from those of another by their rule or by the length of     *)
(* their path, and those of one part by the path they begin with.          *)
(***************************************************************************)
LEMMA ReportCounts ==
    ASSUME NEW b \in Specs, NEW t \in Specs
    PROVE  /\ IsFiniteSet(compare_specs(b, t).changes)
           /\ compare_specs(b, t).breaking = Cardinality(compare_specs(b, t).changes)
<1> DEFINE both   == b.ops \cap t.ops
           bodies == Bodies(b, t)
           DP == [o \in both |-> diff_parameters(b, t, o)]
           DR == [o \in both |-> removed_responses(b, t, o)]
           DS == [pl \in bodies |-> diff_schemas(b, t, pl)]
           E == removed_endpoints(b, t)
           M == removed_methods(b, t)
           P == UNION {DP[o] : o \in both}
           R == UNION {DR[o] : o \in both}
           S == UNION {DS[pl] : pl \in bodies}
<1>1. both \subseteq Ops /\ bodies \subseteq Places /\ b.ops \subseteq Ops
  BY SpecFields DEF Bodies
<1>2. IsFiniteSet(both) /\ IsFiniteSet(bodies)
  <2> HIDE DEF both, bodies
  <2> QED
    BY <1>1, OpsAreFinite, FS_Subset
<1>3. /\ compare_specs(b, t).changes = (((E \cup M) \cup P) \cup R) \cup S
      /\ compare_specs(b, t).breaking =
            Cardinality(E) + Cardinality(M)
            + SumFunction([o \in both |-> Cardinality(diff_parameters(b, t, o))])
            + SumFunction([o \in both |-> Cardinality(removed_responses(b, t, o))])
            + SumFunction([pl \in bodies |-> Cardinality(diff_schemas(b, t, pl))])
  <2> DEFINE U == UNION {diff_parameters(b, t, o) \cup removed_responses(b, t, o) : o \in both}
             V == UNION {diff_schemas(b, t, pl) : pl \in bodies}
  <2>1. U = P \cup R
    <3>1. \A c : c \in U <=>
             \E o \in both : c \in diff_parameters(b, t, o) \cup removed_responses(b, t, o)
      OBVIOUS
    <3>2. \A c : c \in P <=> \E o \in both : c \in diff_parameters(b, t, o)
      OBVIOUS
    <3>3. \A c : c \in R <=> \E o \in both : c \in removed_responses(b, t, o)
      OBVIOUS
    <3> HIDE DEF U, P, R, both
    <3> QED
      BY <3>1, <3>2, <3>3
  <2>4. V = S
    OBVIOUS
  <2>2. compare_specs(b, t).changes = ((E \cup M) \cup U) \cup V
    BY DEF compare_specs
  <2>3. compare_specs(b, t).breaking =
            Cardinality(E) + Cardinality(M)
            + SumFunction([o \in both |-> Cardinality(diff_parameters(b, t, o))])
            + SumFunction([o \in both |-> Cardinality(removed_responses(b, t, o))])
            + SumFunction([pl \in bodies |-> Cardinality(diff_schemas(b, t, pl))])
    BY DEF compare_specs
  <2> HIDE DEF U, V, E, M, P, R, S
  <2> QED
    BY <2>1, <2>2, <2>3, <2>4
<1>4. /\ [o \in both |-> Cardinality(diff_parameters(b, t, o))]
            = [o \in both |-> Cardinality(DP[o])]
      /\ [o \in both |-> Cardinality(removed_responses(b, t, o))]
            = [o \in both |-> Cardinality(DR[o])]
      /\ [pl \in bodies |-> Cardinality(diff_schemas(b, t, pl))]
            = [pl \in bodies |-> Cardinality(DS[pl])]
  OBVIOUS
<1>5. \A o \in both : /\ IsFiniteSet(DP[o])
                     /\ \A c \in DP[o] :
                           c.rule \in {"removed_parameter", "new_required_field"} /\ c.path = o
  BY <1>1, ParameterChanges
<1>6. \A o \in both : /\ IsFiniteSet(DR[o])
                     /\ \A c \in DR[o] : c.rule = "removed_response" /\ c.path = o
  BY RemovedResponses
<1>7. \A pl \in bodies :
        /\ IsFiniteSet(DS[pl])
        /\ \A c \in DS[pl] :
              /\ c.rule \in {"type_change", "enum_removal", "new_required_field"}
              /\ Len(c.path) \in Nat /\ Len(c.path) >= 3
              /\ c.path[1] = pl[1] /\ c.path[2] = pl[2] /\ c.path[3] = pl[3]
  BY <1>1, SchemaChanges
<1>8. /\ IsFiniteSet(E) /\ \A c \in E : c.rule = "removed_endpoint"
      /\ IsFiniteSet(M) /\ \A c \in M : c.rule = "removed_method"
  BY <1>1, RemovedEndpoints, RemovedMethods
<1> HIDE DEF both, bodies, DP, DR, DS, E, M
<1>9. /\ \A o, q \in both : o # q => DP[o] \cap DP[q] = {} /\ DR[o] \cap DR[q] = {}
      /\ \A pl, pm \in bodies : pl # pm => DS[pl] \cap DS[pm] = {}
  <2>1. \A o, q \in both : o # q => DP[o] \cap DP[q] = {} /\ DR[o] \cap DR[q] = {}
    BY <1>5, <1>6
  <2>2. ASSUME NEW pl \in bodies, NEW pm \in bodies, NEW c \in DS[pl], c \in DS[pm]
        PROVE  pl = pm
    <3>1. pl[1] = pm[1] /\ pl[2] = pm[2] /\ pl[3] = pm[3]
      BY <1>7, <2>2
    <3>2. pl = <<pl[1], pl[2], pl[3]>> /\ pm = <<pm[1], pm[2], pm[3]>>
      BY <1>1, PlacesAreTriples
    <3> QED
      BY <3>1, <3>2, Zenon
  <2> QED
    BY <2>1, <2>2
<1>10. /\ IsFiniteSet(P) /\ SumFunction([o \in both |-> Cardinality(DP[o])]) = Cardinality(P)
       /\ IsFiniteSet(R) /\ SumFunction([o \in both |-> Cardinality(DR[o])]) = Cardinality(R)
       /\ IsFiniteSet(S) /\ SumFunction([pl \in bodies |-> Cardinality(DS[pl])]) = Cardinality(S)
  <2>1. IsFiniteSet(P) /\ SumFunction([o \in both |-> Cardinality(DP[o])]) = Cardinality(P)
    BY <1>2, <1>5, <1>9, UnionsAreFinite, SumOfSizes
  <2>2. IsFiniteSet(R) /\ SumFunction([o \in both |-> Cardinality(DR[o])]) = Cardinality(R)
    BY <1>2, <1>6, <1>9, UnionsAreFinite, SumOfSizes
  <2>3. IsFiniteSet(S) /\ SumFunction([pl \in bodies |-> Cardinality(DS[pl])]) = Cardinality(S)
    BY <1>2, <1>7, <1>9, UnionsAreFinite, SumOfSizes
  <2> QED
    BY <2>1, <2>2, <2>3
<1>11. /\ \A c \in P : c.rule \in {"removed_parameter", "new_required_field"} /\ Len(c.path) = 2
       /\ \A c \in R : c.rule = "removed_response"
       /\ \A c \in S : /\ c.rule \in {"type_change", "enum_removal", "new_required_field"}
                       /\ Len(c.path) >= 3 /\ Len(c.path) # 2
  <2>1. \A o \in both : Len(o) = 2
    BY <1>1, OpsArePairs
  <2>2. \A c \in P : \E o \in both : c \in DP[o]
    OBVIOUS
  <2>3. \A c \in R : \E o \in both : c \in DR[o]
    OBVIOUS
  <2>4. \A c \in S : \E pl \in bodies : c \in DS[pl]
    OBVIOUS
  <2> HIDE DEF P, R, S
  <2>5. \A c \in P : c.rule \in {"removed_parameter", "new_required_field"} /\ Len(c.path) = 2
    BY <1>5, <2>1, <2>2
  <2>6. \A c \in R : c.rule = "removed_response"
    BY <1>6, <2>3
  <2>7. \A c \in S : /\ c.rule \in {"type_change", "enum_removal", "new_required_field"}
                    /\ Len(c.path) >= 3 /\ Len(c.path) # 2
    BY <1>7, <2>4
  <2> QED
    BY <2>5, <2>6, <2>7
<1> HIDE DEF P, R, S
<1>12. /\ E \cap M = {} /\ (E \cup M) \cap P = {} /\ ((E \cup M) \cup P) \cap R = {}
       /\ (((E \cup M) \cup P) \cup R) \cap S = {}
  BY <1>8, <1>11
<1>13. IsFiniteSet(E \cup M) /\ Cardinality(E \cup M) = Cardinality(E) + Cardinality(M)
  BY <1>8, <1>12, SizeOfDisjoint
<1>14. /\ IsFiniteSet((E \cup M) \cup P)
       /\ Cardinality((E \cup M) \cup P) = Cardinality(E \cup M) + Cardinality(P)
  BY <1>10, <1>12, <1>13, SizeOfDisjoint
<1>15. /\ IsFiniteSet(((E \cup M) \cup P) \cup R)
       /\ Cardinality(((E \cup M) \cup P) \cup R) = Cardinality((E \cup M) \cup P) + Cardinality(R)
  BY <1>10, <1>12, <1>14, SizeOfDisjoint
<1>16. /\ IsFiniteSet((((E \cup M) \cup P) \cup R) \cup S)
       /\ Cardinality((((E \cup M) \cup P) \cup R) \cup S)
             = Cardinality(((E \cup M) \cup P) \cup R) + Cardinality(S)
  BY <1>10, <1>12, <1>15, SizeOfDisjoint
<1> QED
  BY <1>3, <1>4, <1>10, <1>13, <1>14, <1>15, <1>16

-----------------------------------------------------------------------------
(* The edits keep a specification well formed.                             *)

LEMMA WithoutIsWellFormed ==
    ASSUME NEW s, WellFormed(s), NEW O
    PROVE  WellFormed(Without(s, O))
<1> DEFINE w == Without(s, O)
<1>1. s \in Specs
  BY DEF WellFormed
<1>2. /\ w.paths = s.paths /\ w.ops = s.ops \ O
      /\ w.params = [o \in Ops |-> IF o \in O THEN <<>> ELSE s.params[o]]
      /\ w.responses = {r \in s.responses : r[1] \notin O}
      /\ w.nodes = [k \in Places \X Locations |-> IF k[1][1] \in O THEN Absent ELSE s.nodes[k]]
  BY <1>1, SpecFields DEF Without
<1>3. w \in Specs
  <2>1. w.params \in [Ops -> Seq(Param)]
    <3>1. \A o \in Ops : (IF o \in O THEN <<>> ELSE s.params[o]) \in Seq(Param)
      BY <1>1, SpecFields
    <3> HIDE DEF w
    <3> QED
      BY <1>2, <3>1
  <2>2. w.nodes \in [Places \X Locations -> Node \cup {Absent}]
    <3>1. \A k \in Places \X Locations : s.nodes[k] \in Node \cup {Absent}
      BY <1>1, SpecFields
    <3> HIDE DEF w
    <3> QED
      BY <1>2, <3>1
  <2>3. w.paths \in [Paths -> {"absent", "item", "ref"}] /\ w.ops \in SUBSET Ops
        /\ w.responses \in SUBSET (Ops \X Codes)
    BY <1>1, <1>2, SpecFields
  <2>4. w = [paths |-> w.paths, ops |-> w.ops, params |-> w.params,
             responses |-> w.responses, nodes |-> w.nodes]
    BY DEF Without
  <2> HIDE DEF w
  <2> QED
    BY <2>1, <2>2, <2>3, <2>4 DEF Specs
<1> HIDE DEF w
<1>4. OpsOfItems(w)
  BY <1>2 DEF OpsOfItems, WellFormed
<1>5. PartsOfOps(w)
  <2>1. \A r \in w.responses : r[1] \in w.ops
    BY <1>2 DEF PartsOfOps, WellFormed
  <2>2. ASSUME NEW k \in Places \X Locations, w.nodes[k] # Absent
        PROVE  /\ k[1][1] \in w.ops
               /\ k[1][2] \in Codes => <<k[1][1], k[1][2]>> \in w.responses
    BY <1>2, <2>2 DEF PartsOfOps, WellFormed
  <2> QED
    BY <2>1, <2>2 DEF PartsOfOps
<1>6. NodesOfTypes(w)
  BY <1>2 DEF NodesOfTypes, WellFormed
<1>7. DistinctParameters(w)
  BY <1>2 DEF DistinctParameters, WellFormed
<1> QED
  BY <1>3, <1>4, <1>5, <1>6, <1>7 DEF WellFormed, w

LEMMA PathEdited ==
    ASSUME NEW s, WellFormed(s), NEW p \in Paths, NEW x \in {"absent", "item", "ref"}
    PROVE  WellFormed([Without(s, {p} \X Methods) EXCEPT !.paths[p] = x])
<1> DEFINE w == Without(s, {p} \X Methods)
           v == [w EXCEPT !.paths[p] = x]
<1>1. WellFormed(w)
  BY WithoutIsWellFormed
<1>2. \A o \in w.ops : o[1] # p
  <2>1. w.ops = s.ops \ ({p} \X Methods) /\ s.ops \subseteq Ops
    BY SpecFields DEF Without, WellFormed
  <2> HIDE DEF w
  <2> QED
    BY <2>1, OpsArePairs
<1> HIDE DEF w
<1>3. w \in Specs
  BY <1>1 DEF WellFormed
<1>4. /\ v.paths = [w.paths EXCEPT ![p] = x] /\ v.ops = w.ops /\ v.params = w.params
      /\ v.responses = w.responses /\ v.nodes = w.nodes
      /\ v \in Specs
  BY <1>3 DEF Specs
<1> HIDE DEF v
<1>5. OpsOfItems(v)
  <2> SUFFICES ASSUME NEW o \in v.ops PROVE v.paths[o[1]] = "item"
    BY DEF OpsOfItems
  <2>1. o \in w.ops /\ o \in Ops /\ o[1] # p
    BY <1>2, <1>3, <1>4, SpecFields
  <2>2. o[1] \in Paths /\ w.paths[o[1]] = "item"
    BY <1>1, <2>1, OpsArePairs DEF OpsOfItems, WellFormed
  <2>3. w.paths \in [Paths -> {"absent", "item", "ref"}]
    BY <1>3, SpecFields
  <2> QED
    BY <1>4, <2>1, <2>2, <2>3
<1>6. PartsOfOps(v) /\ NodesOfTypes(v) /\ DistinctParameters(v)
  BY <1>1, <1>4 DEF PartsOfOps, NodesOfTypes, DistinctParameters, WellFormed
<1> QED
  BY <1>4, <1>5, <1>6 DEF WellFormed, v, w

LEMMA OperationAdded ==
    ASSUME NEW s, WellFormed(s), NEW o \in Ops, s.paths[o[1]] = "item"
    PROVE  WellFormed([s EXCEPT !.ops = @ \cup {o}])
<1> DEFINE v == [s EXCEPT !.ops = @ \cup {o}]
<1>1. s \in Specs
  BY DEF WellFormed
<1>2. /\ v.paths = s.paths /\ v.ops = s.ops \cup {o} /\ v.params = s.params
      /\ v.responses = s.responses /\ v.nodes = s.nodes
      /\ v \in Specs
  BY <1>1 DEF Specs
<1> HIDE DEF v
<1>3. OpsOfItems(v)
  BY <1>2 DEF OpsOfItems, WellFormed
<1>4. PartsOfOps(v)
  BY <1>2 DEF PartsOfOps, WellFormed
<1>5. NodesOfTypes(v) /\ DistinctParameters(v)
  BY <1>2 DEF NodesOfTypes, DistinctParameters, WellFormed
<1> QED
  BY <1>2, <1>3, <1>4, <1>5 DEF WellFormed, v

\* Parameters no two of which share both name and location.
Distinct(q) ==
    \A i, j \in DOMAIN q : q[i].name = q[j].name /\ q[i].kind = q[j].kind => i = j

LEMMA ParametersEdited ==
    ASSUME NEW s, WellFormed(s), NEW o \in Ops, NEW q \in Seq(Param), Distinct(q)
    PROVE  WellFormed([s EXCEPT !.params[o] = q])
<1> DEFINE v == [s EXCEPT !.params[o] = q]
<1>1. s \in Specs
  BY DEF WellFormed
<1>2. /\ v.paths = s.paths /\ v.ops = s.ops /\ v.params = [s.params EXCEPT ![o] = q]
      /\ v.responses = s.responses /\ v.nodes = s.nodes
      /\ v \in Specs
  BY <1>1 DEF Specs
<1> HIDE DEF v
<1>3. OpsOfItems(v) /\ PartsOfOps(v) /\ NodesOfTypes(v)
  BY <1>2 DEF OpsOfItems, PartsOfOps, NodesOfTypes, WellFormed
<1>4. \A x \in Ops : v.params[x] = IF x = o THEN q ELSE s.params[x]
  BY <1>1, <1>2, SpecFields
<1>5. DistinctParameters(v)
  BY <1>4 DEF DistinctParameters, Distinct, WellFormed
<1> QED
  BY <1>2, <1>3, <1>5 DEF WellFormed, v

LEMMA ParameterAdded ==
    ASSUME NEW q \in Seq(Param), Distinct(q), NEW x \in Param,
           \A i \in DOMAIN q : <<q[i].name, q[i].kind>> # <<x.name, x.kind>>
    PROVE  Append(q, x) \in Seq(Param) /\ Distinct(Append(q, x))
<1> DEFINE r == Append(q, x)
<1>1. /\ r \in Seq(Param) /\ DOMAIN r = 1 .. Len(q) + 1 /\ DOMAIN q = 1 .. Len(q) /\ Len(q) \in Nat
      /\ \A i \in 1 .. Len(q) : r[i] = q[i]
      /\ r[Len(q) + 1] = x
  OBVIOUS
<1> HIDE DEF r
<1>2. \A i \in DOMAIN r : i \in DOMAIN q \/ i = Len(q) + 1
  BY <1>1
<1>3. \A i \in DOMAIN q : ~(q[i].name = x.name /\ q[i].kind = x.kind)
  OBVIOUS
<1>4. Distinct(r)
  BY <1>1, <1>2, <1>3 DEF Distinct
<1> QED
  BY <1>1, <1>4 DEF r

LEMMA ParameterRemoved ==
    ASSUME NEW q \in Seq(Param), Distinct(q), NEW i \in DOMAIN q
    PROVE  LET r == SubSeq(q, 1, i - 1) \o SubSeq(q, i + 1, Len(q))
           IN  r \in Seq(Param) /\ Distinct(r)
<1> DEFINE n == Len(q)
           a == SubSeq(q, 1, i - 1)
           z == SubSeq(q, i + 1, n)
           r == a \o z
<1>1. n \in Nat /\ i \in 1 .. n /\ DOMAIN q = 1 .. n
  OBVIOUS
<1>2. a \in Seq(Param) /\ Len(a) = i - 1 /\ \A j \in 1 .. i - 1 : a[j] = q[j]
  BY <1>1
<1>3. z \in Seq(Param) /\ Len(z) = n - i /\ \A j \in 1 .. n - i : z[j] = q[i + j]
  BY <1>1
<1> HIDE DEF a, z, n
<1>4. /\ r \in Seq(Param) /\ Len(r) = Len(a) + Len(z)
      /\ \A j \in 1 .. Len(a) + Len(z) : r[j] = IF j <= Len(a) THEN a[j] ELSE z[j - Len(a)]
  BY <1>2, <1>3, ConcatProperties
<1> HIDE DEF r
<1>5. /\ Len(r) = n - 1 /\ DOMAIN r = 1 .. n - 1
      /\ \A j \in 1 .. n - 1 : r[j] = q[IF j < i THEN j ELSE j + 1]
  <2>1. Len(a) + Len(z) = n - 1 /\ n - 1 \in Nat
    BY <1>1, <1>2, <1>3
  <2>2. DOMAIN r = 1 .. Len(r)
    BY <1>4
  <2>3. ASSUME NEW j \in 1 .. n - 1
        PROVE  r[j] = q[IF j < i THEN j ELSE j + 1]
    <3>1. r[j] = IF j <= Len(a) THEN a[j] ELSE z[j - Len(a)]
      BY <1>4, <2>1
    <3>2. CASE j < i
      BY <1>1, <1>2, <3>1, <3>2
    <3>3. CASE ~(j < i)
      <4>1. j - Len(a) \in 1 .. n - i /\ i + (j - Len(a)) = j + 1 /\ ~(j <= Len(a))
        BY <1>1, <1>2, <3>3
      <4> QED
        BY <1>3, <3>1, <3>3, <4>1
    <3> QED
      BY <3>2, <3>3
  <2> QED
    BY <1>4, <2>1, <2>2, <2>3
<1>6. \A j \in 1 .. n - 1 : (IF j < i THEN j ELSE j + 1) \in 1 .. n
  BY <1>1
<1>7. Distinct(r)
  <2> SUFFICES ASSUME NEW j \in 1 .. n - 1, NEW k \in 1 .. n - 1,
                      r[j].name = r[k].name, r[j].kind = r[k].kind
               PROVE  j = k
    BY <1>5 DEF Distinct
  <2> DEFINE J == IF j < i THEN j ELSE j + 1
             K == IF k < i THEN k ELSE k + 1
  <2>1. J \in 1 .. n /\ K \in 1 .. n /\ r[j] = q[J] /\ r[k] = q[K]
    BY <1>5, <1>6
  <2>2. J = K
    <3> HIDE DEF J, K
    <3> QED
      BY <1>1, <2>1 DEF Distinct
  <2> QED
    BY <1>1, <2>2
<1> QED
  BY <1>4, <1>7 DEF r, a, z, n

LEMMA ParameterChanged ==
    ASSUME NEW q \in Seq(Param), Distinct(q), NEW i \in DOMAIN q, NEW x \in Param,
           x.name = q[i].name, x.kind = q[i].kind
    PROVE  [q EXCEPT ![i] = x] \in Seq(Param) /\ Distinct([q EXCEPT ![i] = x])
<1> DEFINE r == [q EXCEPT ![i] = x]
<1>1. /\ r \in Seq(Param) /\ DOMAIN r = DOMAIN q
      /\ \A j \in DOMAIN q : r[j] = IF j = i THEN x ELSE q[j]
  OBVIOUS
<1> HIDE DEF r
<1>2. Distinct(r)
  BY <1>1 DEF Distinct
<1> QED
  BY <1>1, <1>2 DEF r

LEMMA ResponseAdded ==
    ASSUME NEW s, WellFormed(s), NEW o \in s.ops, NEW c \in Codes
    PROVE  WellFormed([s EXCEPT !.responses = @ \cup {<<o, c>>}])
<1> DEFINE v == [s EXCEPT !.responses = @ \cup {<<o, c>>}]
<1>1. s \in Specs /\ o \in Ops
  BY SpecFields DEF WellFormed
<1>2. /\ v.paths = s.paths /\ v.ops = s.ops /\ v.params = s.params
      /\ v.responses = s.responses \cup {<<o, c>>} /\ v.nodes = s.nodes
      /\ v \in Specs
  BY <1>1 DEF Specs
<1> HIDE DEF v
<1>3. OpsOfItems(v) /\ NodesOfTypes(v) /\ DistinctParameters(v)
  BY <1>2 DEF OpsOfItems, NodesOfTypes, DistinctParameters, WellFormed
<1>4. PartsOfOps(v)
  BY <1>2 DEF PartsOfOps, WellFormed
<1> QED
  BY <1>2, <1>3, <1>4 DEF WellFormed, v

LEMMA ResponseRemoved ==
    ASSUME NEW s, WellFormed(s), NEW o, NEW c, NEW N, DOMAIN N = DOMAIN s.nodes,
           N = [k \in DOMAIN N |-> N[k]],
           \A k \in DOMAIN s.nodes :
              N[k] = IF <<o, c>> = <<k[1][1], k[1][2]>> THEN Absent ELSE s.nodes[k]
    PROVE  WellFormed([s EXCEPT !.responses = @ \ {<<o, c>>}, !.nodes = N])
<1> DEFINE v == [s EXCEPT !.responses = @ \ {<<o, c>>}, !.nodes = N]
<1>1. s \in Specs
  BY DEF WellFormed
<1>2. N \in [Places \X Locations -> Node \cup {Absent}]
  <2>1. DOMAIN s.nodes = Places \X Locations
        /\ \A k \in Places \X Locations : s.nodes[k] \in Node \cup {Absent}
    BY <1>1, SpecFields
  <2> QED
    BY <2>1
<1>3. \A k \in Places \X Locations : N[k] # Absent => /\ N[k] = s.nodes[k]
                                                      /\ <<k[1][1], k[1][2]>> # <<o, c>>
  BY <1>1, SpecFields
<1>4. /\ v.paths = s.paths /\ v.ops = s.ops /\ v.params = s.params
      /\ v.responses = s.responses \ {<<o, c>>} /\ v.nodes = N
      /\ v \in Specs
  BY <1>1, <1>2 DEF Specs
<1> HIDE DEF v
<1>5. OpsOfItems(v) /\ DistinctParameters(v)
  BY <1>4 DEF OpsOfItems, DistinctParameters, WellFormed
<1>6. NodesOfTypes(v)
  BY <1>3, <1>4 DEF NodesOfTypes, WellFormed
<1>7. PartsOfOps(v)
  BY <1>3, <1>4 DEF PartsOfOps, WellFormed
<1> QED
  BY <1>4, <1>5, <1>6, <1>7 DEF WellFormed, v

LEMMA SchemaEdited ==
    ASSUME NEW s, WellFormed(s), NEW pl \in Places, NEW l \in Locations,
           pl[1] \in s.ops, pl[2] \in Codes => <<pl[1], pl[2]>> \in s.responses,
           NEW n \in SomeNodes \cup {Absent}
    PROVE  WellFormed([s EXCEPT !.nodes[<<pl, l>>] = n])
<1> DEFINE N == [s.nodes EXCEPT ![<<pl, l>>] = n]
           v == [s EXCEPT !.nodes[<<pl, l>>] = n]
<1>1. s \in Specs
  BY DEF WellFormed
<1>2. /\ n \in Node \cup {Absent}
      /\ n # Absent => /\ n.enum # {} => n.type = "string"
                       /\ n.required # {} => n.type = "object"
  BY DEF SomeNodes, Node, Types, Opaque
<1>3. /\ N \in [Places \X Locations -> Node \cup {Absent}]
      /\ \A k \in Places \X Locations : N[k] = IF k = <<pl, l>> THEN n ELSE s.nodes[k]
  BY <1>1, <1>2, SpecFields
<1>4. v = [s EXCEPT !.nodes = N]
  OBVIOUS
<1> HIDE DEF v, N
<1>5. /\ v.paths = s.paths /\ v.ops = s.ops /\ v.params = s.params
      /\ v.responses = s.responses /\ v.nodes = N
      /\ v \in Specs
  BY <1>1, <1>3, <1>4 DEF Specs
<1>6. OpsOfItems(v) /\ DistinctParameters(v)
  BY <1>5 DEF OpsOfItems, DistinctParameters, WellFormed
<1>7. NodesOfTypes(v)
  BY <1>2, <1>3, <1>5 DEF NodesOfTypes, WellFormed
<1>8. PartsOfOps(v)
  <2>1. \A r \in v.responses : r[1] \in v.ops
    BY <1>5 DEF PartsOfOps, WellFormed
  <2>2. ASSUME NEW k \in Places \X Locations, v.nodes[k] # Absent
        PROVE  /\ k[1][1] \in v.ops
               /\ k[1][2] \in Codes => <<k[1][1], k[1][2]>> \in v.responses
    <3>1. CASE k = <<pl, l>>
      BY <1>5, <3>1
    <3>2. CASE k # <<pl, l>>
      BY <1>3, <1>5, <2>2, <3>2 DEF PartsOfOps, WellFormed
    <3> QED
      BY <3>1, <3>2
  <2> QED
    BY <2>1, <2>2 DEF PartsOfOps
<1> QED
  BY <1>5, <1>6, <1>7, <1>8 DEF WellFormed, v

-----------------------------------------------------------------------------
(* The invariant.                                                          *)

ReportOfBoth == report # NoReport => report = compare_specs(base, target)

KeptByAll ==
    /\ kept \subseteq Schemas(first) \cap Schemas(base)
    /\ kept \subseteq Places \X Locations

GateInv ==
    /\ WellFormed(first) /\ WellFormed(base) /\ WellFormed(target)
    /\ ReportOfBoth
    /\ KeptByAll

LEMMA InitGate == Init => GateInv
  BY StartedAssumption DEF Init, GateInv, ReportOfBoth, KeptByAll, Schemas

\* Nothing but the configuration and the two specifications goes into a report.
LEMMA SameReport ==
    ASSUME UNCHANGED <<config, base, target>>
    PROVE  compare_specs(base, target)' = compare_specs(base, target)
  BY DEF compare_specs, removed_endpoints, removed_methods, diff_parameters,
     removed_responses, diff_schemas, diff_node, Unless, Bodies, Reached, InBoth, CodesOf

\* An edit of the working specification withdraws the report.
LEMMA EditedKeepsGate ==
    ASSUME NEW s, WellFormed(s), GateInv, Edited(s)
    PROVE  GateInv'
<1>1. target' = s /\ report' = NoReport /\ UNCHANGED <<config, first, base, kept>>
  BY DEF Edited
<1> QED
  BY <1>1 DEF GateInv, ReportOfBoth, KeptByAll

\* The parameters that an edit of one of them leaves.
LEMMA EditParameterKeepsGate ==
    ASSUME GateInv, NEW o \in Ops, EditParameter(o)
    PROVE  GateInv'
<1> DEFINE q == target.params[o]
<1>1. WellFormed(target) /\ target \in Specs
  BY DEF GateInv, WellFormed
<1>2. q \in Seq(Param) /\ Distinct(q) /\ \A i \in DOMAIN q : q[i] \in Param
  <2>1. q \in Seq(Param)
    BY <1>1, SpecFields
  <2>2. Distinct(q)
    BY <1>1 DEF WellFormed, DistinctParameters, Distinct
  <2> HIDE DEF q
  <2> QED
    BY <2>1, <2>2
<1>3. ASSUME NEW r \in Seq(Param), Distinct(r), Edited([target EXCEPT !.params[o] = r])
      PROVE  GateInv'
  BY <1>1, <1>3, ParametersEdited, EditedKeepsGate
<1>4. ASSUME NEW i \in DOMAIN q, NEW x \in Param, x.name = q[i].name, x.kind = q[i].kind,
             Edited([target EXCEPT !.params[o] = [q EXCEPT ![i] = x]])
      PROVE  GateInv'
  <2> DEFINE r == [q EXCEPT ![i] = x]
  <2> HIDE DEF q
  <2>1. r \in Seq(Param) /\ Distinct(r)
    BY <1>2, <1>4, ParameterChanged
  <2>2. Edited([target EXCEPT !.params[o] = r])
    BY <1>4
  <2> HIDE DEF r
  <2> QED
    BY <1>3, <2>1, <2>2
<1>5. ASSUME NEW x \in Param,
             \A i \in DOMAIN q : <<q[i].name, q[i].kind>> # <<x.name, x.kind>>,
             Edited([target EXCEPT !.params[o] = Append(@, x)])
      PROVE  GateInv'
  <2> DEFINE r == Append(q, x)
  <2>1. Edited([target EXCEPT !.params[o] = r])
    BY <1>5
  <2> HIDE DEF q
  <2>2. r \in Seq(Param) /\ Distinct(r)
    BY <1>2, <1>5, ParameterAdded
  <2> HIDE DEF r
  <2> QED
    BY <1>3, <2>1, <2>2
<1>6. ASSUME NEW i \in DOMAIN q, Edited([target EXCEPT !.params[o][i].required = ~@])
      PROVE  GateInv'
  <2> DEFINE x == [q[i] EXCEPT !.required = ~@]
  <2>1. x \in Param /\ x.name = q[i].name /\ x.kind = q[i].kind
    <3>1. q[i] \in Param
      BY <1>2
    <3> HIDE DEF q
    <3> QED
      BY <3>1 DEF Param
  <2>2. [target EXCEPT !.params[o][i].required = ~@]
          = [target EXCEPT !.params[o] = [q EXCEPT ![i] = x]]
    BY <1>1 DEF Specs
  <2> HIDE DEF x, q
  <2> QED
    BY <1>4, <1>6, <2>1, <2>2
<1>7. ASSUME NEW i \in DOMAIN q, Edited([target EXCEPT !.params[o][i].inline = ~@])
      PROVE  GateInv'
  <2> DEFINE x == [q[i] EXCEPT !.inline = ~@]
  <2>1. x \in Param /\ x.name = q[i].name /\ x.kind = q[i].kind
    <3>1. q[i] \in Param
      BY <1>2
    <3> HIDE DEF q
    <3> QED
      BY <3>1 DEF Param
  <2>2. [target EXCEPT !.params[o][i].inline = ~@]
          = [target EXCEPT !.params[o] = [q EXCEPT ![i] = x]]
    BY <1>1 DEF Specs
  <2> HIDE DEF x, q
  <2> QED
    BY <1>4, <1>7, <2>1, <2>2
<1>8. ASSUME NEW i \in DOMAIN q,
             Edited([target EXCEPT !.params[o] =
                        SubSeq(@, 1, i - 1) \o SubSeq(@, i + 1, Len(@))])
      PROVE  GateInv'
  <2> DEFINE r == SubSeq(q, 1, i - 1) \o SubSeq(q, i + 1, Len(q))
  <2>1. Edited([target EXCEPT !.params[o] = r])
    BY <1>8
  <2> HIDE DEF q
  <2>2. r \in Seq(Param) /\ Distinct(r)
    BY <1>2, ParameterRemoved
  <2> HIDE DEF r
  <2> QED
    BY <1>3, <2>1, <2>2
<1> QED
  BY <1>5, <1>6, <1>7, <1>8 DEF EditParameter

LEMMA EditsEdit == ASSUME Edit PROVE \E s : Edited(s)
<1>1. ASSUME NEW p, EditPath(p) PROVE \E s : Edited(s)
  BY <1>1 DEF EditPath
<1>2. ASSUME NEW o, EditOperation(o) PROVE \E s : Edited(s)
  BY <1>2, Zenon DEF EditOperation
<1>3. ASSUME NEW o, EditParameter(o) PROVE \E s : Edited(s)
  BY <1>3, Zenon DEF EditParameter
<1>4. ASSUME NEW o, NEW c, EditResponse(o, c) PROVE \E s : Edited(s)
  BY <1>4, Zenon DEF EditResponse
<1>5. ASSUME NEW pl, NEW l, EditSchema(pl, l) PROVE \E s : Edited(s)
  BY <1>5 DEF EditSchema
<1> QED
  BY <1>1, <1>2, <1>3, <1>4, <1>5 DEF Edit

LEMMA OnlyReleases ==
    ASSUME [Next]_vars
    PROVE  Release \/ UNCHANGED <<config, first, base, kept, plain>>
<1>1. CASE Edit
  <2>1. PICK s : Edited(s)
    BY <1>1, EditsEdit
  <2> QED
    BY <2>1 DEF Edited
<1>2. CASE Compare
  BY <1>2 DEF Compare
<1>3. CASE UNCHANGED vars
  BY <1>3 DEF vars
<1> QED
  BY <1>1, <1>2, <1>3 DEF Next

LEMMA StepGate ==
    ASSUME GateInv, [Next]_vars
    PROVE  GateInv'
<1>1. ASSUME NEW p \in Paths, EditPath(p) PROVE GateInv'
  <2>1. PICK x \in {"absent", "item", "ref"} :
           Edited([Without(target, {p} \X Methods) EXCEPT !.paths[p] = x])
    BY <1>1 DEF EditPath
  <2>2. WellFormed([Without(target, {p} \X Methods) EXCEPT !.paths[p] = x])
    BY PathEdited DEF GateInv
  <2> QED
    BY <2>1, <2>2, EditedKeepsGate
<1>2. ASSUME NEW o \in Ops, EditOperation(o) PROVE GateInv'
  <2>1. CASE target.paths[o[1]] = "item" /\ Edited([target EXCEPT !.ops = @ \cup {o}])
    <3>1. WellFormed([target EXCEPT !.ops = @ \cup {o}])
      BY <2>1, OperationAdded DEF GateInv
    <3> QED
      BY <2>1, <3>1, EditedKeepsGate
  <2>2. CASE Edited(Without(target, {o}))
    <3>1. WellFormed(Without(target, {o}))
      BY WithoutIsWellFormed DEF GateInv
    <3> QED
      BY <2>2, <3>1, EditedKeepsGate
  <2> QED
    BY <1>2, <2>1, <2>2 DEF EditOperation
<1>3. ASSUME NEW o \in Ops, EditParameter(o) PROVE GateInv'
  BY <1>3, EditParameterKeepsGate
<1>4. ASSUME NEW o \in Ops, NEW c \in Codes, EditResponse(o, c) PROVE GateInv'
  <2> DEFINE v == [target EXCEPT !.responses = @ \cup {<<o, c>>}]
             w == [target EXCEPT !.responses = @ \ {<<o, c>>},
                                 !.nodes = [k \in DOMAIN @ |->
                                     IF <<o, c>> = <<k[1][1], k[1][2]>> THEN Absent
                                     ELSE target.nodes[k]]]
  <2>1. o \in target.ops /\ (Edited(v) \/ Edited(w))
    BY <1>4 DEF EditResponse
  <2>2. WellFormed(target)
    BY DEF GateInv
  <2>3. WellFormed(v)
    BY <2>1, <2>2, ResponseAdded
  <2>4. WellFormed(w)
    <3> DEFINE N == [k \in DOMAIN target.nodes |->
                        IF <<o, c>> = <<k[1][1], k[1][2]>> THEN Absent ELSE target.nodes[k]]
    <3>1. w = [target EXCEPT !.responses = @ \ {<<o, c>>}, !.nodes = N]
      OBVIOUS
    <3>2. /\ DOMAIN N = DOMAIN target.nodes /\ N = [k \in DOMAIN N |-> N[k]]
          /\ \A k \in DOMAIN target.nodes :
                N[k] = IF <<o, c>> = <<k[1][1], k[1][2]>> THEN Absent ELSE target.nodes[k]
      OBVIOUS
    <3> HIDE DEF w, N
    <3> QED
      BY <2>2, <3>1, <3>2, ResponseRemoved
  <2> HIDE DEF v, w
  <2> QED
    BY <2>1, <2>3, <2>4, EditedKeepsGate
<1>5. ASSUME NEW pl \in Places, NEW l \in Locations, EditSchema(pl, l) PROVE GateInv'
  <2>1. /\ pl[1] \in target.ops
        /\ pl[2] \in Codes => <<pl[1], pl[2]>> \in target.responses
    BY <1>5 DEF EditSchema
  <2>2. PICK n \in SomeNodes \cup {Absent} : Edited([target EXCEPT !.nodes[<<pl, l>>] = n])
    BY <1>5 DEF EditSchema
  <2>3. WellFormed([target EXCEPT !.nodes[<<pl, l>>] = n])
    BY <2>1, SchemaEdited DEF GateInv
  <2> QED
    BY <2>2, <2>3, EditedKeepsGate
<1>6. CASE Compare
  <2>1. report' = compare_specs(base, target) /\ UNCHANGED <<config, first, base, target, kept>>
    BY <1>6 DEF Compare
  <2>2. ReportOfBoth'
    BY <2>1, SameReport DEF ReportOfBoth
  <2> QED
    BY <2>1, <2>2 DEF GateInv, KeptByAll
<1>7. CASE Release
  <2>1. /\ base' = target /\ target' = target /\ first' = first /\ report' = NoReport
        /\ kept' = kept \cap Schemas(target)
    BY <1>7 DEF Release
  <2>2. KeptByAll'
    BY <2>1 DEF GateInv, KeptByAll
  <2>3. ReportOfBoth'
    BY <2>1 DEF ReportOfBoth
  <2> QED
    BY <2>1, <2>2, <2>3 DEF GateInv
<1>8. CASE UNCHANGED vars
  <2>1. UNCHANGED <<config, first, base, target, kept, report>>
    BY <1>8 DEF vars
  <2>2. ReportOfBoth'
    BY <2>1, SameReport DEF GateInv, ReportOfBoth
  <2> QED
    BY <2>1, <2>2 DEF GateInv, KeptByAll
<1> QED
  BY <1>1, <1>2, <1>3, <1>4, <1>5, <1>6, <1>7, <1>8 DEF Next, Edit

LEMMA GateHolds == Spec => []GateInv
  BY InitGate, StepGate, PTL DEF Spec

(***************************************************************************)
(* Whatever a document holds, the number the status of a run is taken from *)
(* (compare_specs) is the size of the list of reasons shown for it.        *)
(***************************************************************************)
THEOREM TheSummaryCountsTheReport == Spec => []SummaryCountsTheReport
<1>1. GateInv => SummaryCountsTheReport
  BY ReportCounts DEF GateInv, ReportOfBoth, WellFormed, SummaryCountsTheReport
<1> QED
  BY <1>1, GateHolds, PTL

-----------------------------------------------------------------------------
(* What a report says, change by change.                                   *)

LEMMA LeastNumber ==
    ASSUME NEW T \in SUBSET Nat, T # {}
    PROVE  \E x \in T : \A y \in T : x <= y
<1> DEFINE R == OpToRel(<, Nat)
<1>1. IsWellFoundedOn(R, Nat)
  BY NatLessThanWellFounded
<1>2. R = {ss \in Nat \X Nat : ss[1] < ss[2]}
  BY DEF OpToRel
<1>3. \A x, y \in Nat : <<x, y>> \in R <=> x < y
  BY <1>2
<1> HIDE DEF R
<1>4. \E x \in T : \A y \in T : ~ (<<y, x>> \in R)
  BY <1>1, WFMin, Zenon
<1>5. PICK x \in T : \A y \in T : ~ (<<y, x>> \in R)
  BY <1>4
<1>6. \A y \in T : ~(y < x)
  BY <1>3, <1>5
<1> QED
  BY <1>6

LEMMA LastIndex ==
    ASSUME NEW n \in Nat, NEW T \in SUBSET (1 .. n), T # {}
    PROVE  Max(T) \in T /\ \A y \in T : y <= Max(T)
<1> DEFINE D == {k \in Nat : n - k \in T}
<1>1. D # {}
  <2>1. PICK i \in T : TRUE
    OBVIOUS
  <2>2. n - i \in D
    BY <2>1
  <2> QED
    BY <2>2
<1>2. D \in SUBSET Nat
  OBVIOUS
<1> HIDE DEF D
<1>3. PICK k \in D : \A d \in D : k <= d
  BY <1>1, <1>2, LeastNumber
<1>4. n - k \in T /\ k \in Nat
  BY <1>3 DEF D
<1>5. \A y \in T : n - k >= y
  <2> SUFFICES ASSUME NEW y \in T PROVE n - k >= y
    OBVIOUS
  <2>1. y \in 1 .. n /\ n - y \in Nat /\ n - (n - y) = y
    OBVIOUS
  <2>2. n - y \in D
    BY <2>1 DEF D
  <2>3. k <= n - y
    BY <1>3, <2>2
  <2> QED
    BY <1>4, <2>1, <2>3
<1>6. \E x \in T : \A y \in T : x >= y
  BY <1>4, <1>5
<1> DEFINE m == CHOOSE x \in T : \A y \in T : x >= y
<1>7. m \in T /\ \A y \in T : m >= y
  BY <1>6
<1>8. Max(T) = m
  BY DEF Max
<1> HIDE DEF m
<1> QED
  BY <1>7, <1>8

\* The entry of the map is the last inline parameter of the name.
LEMMA LastOfName ==
    ASSUME NEW q \in Seq(Param), NEW n \in NamesOf(q)
    PROVE  \E m \in InlineOf(q) :
              /\ ParamMap(q)[n] = q[m] /\ q[m].name = n
              /\ \A i \in InlineOf(q) : q[i].name = n => i <= m
<1> DEFINE T == {i \in InlineOf(q) : q[i].name = n}
<1>1. T \in SUBSET (1 .. Len(q)) /\ T # {} /\ Len(q) \in Nat
  BY DEF NamesOf, InlineOf
<1>2. ParamMap(q)[n] = q[Max(T)]
  BY DEF ParamMap
<1> HIDE DEF T
<1>3. Max(T) \in T /\ \A y \in T : y <= Max(T)
  BY <1>1, LastIndex
<1> QED
  BY <1>2, <1>3 DEF T

LEMMA ChangesOfReport ==
    ASSUME NEW b, NEW t, NEW c
    PROVE  c \in compare_specs(b, t).changes <=>
              \/ c \in removed_endpoints(b, t)
              \/ c \in removed_methods(b, t)
              \/ \E o \in b.ops \cap t.ops : \/ c \in diff_parameters(b, t, o)
                                           \/ c \in removed_responses(b, t, o)
              \/ \E pl \in Bodies(b, t) : \E l \in Reached(b, t, pl) :
                    c \in diff_node(b.nodes[<<pl, l>>], t.nodes[<<pl, l>>], pl \o l)
<1> DEFINE U == UNION {diff_parameters(b, t, o) \cup removed_responses(b, t, o) :
                          o \in b.ops \cap t.ops}
           V == UNION {diff_schemas(b, t, pl) : pl \in Bodies(b, t)}
<1>1. compare_specs(b, t).changes
        = ((removed_endpoints(b, t) \cup removed_methods(b, t)) \cup U) \cup V
  BY DEF compare_specs
<1>2. c \in U <=> \E o \in b.ops \cap t.ops : \/ c \in diff_parameters(b, t, o)
                                              \/ c \in removed_responses(b, t, o)
  OBVIOUS
<1>3. c \in V <=> \E pl \in Bodies(b, t) : c \in diff_schemas(b, t, pl)
  OBVIOUS
<1>4. \A pl : c \in diff_schemas(b, t, pl) <=>
                \E l \in Reached(b, t, pl) :
                    c \in diff_node(b.nodes[<<pl, l>>], t.nodes[<<pl, l>>], pl \o l)
  BY DEF diff_schemas
<1> HIDE DEF U, V
<1> QED
  BY <1>1, <1>2, <1>3, <1>4

-----------------------------------------------------------------------------
(* Additions.                                                              *)

LEMMA ExtendedPaths ==
    ASSUME NEW b \in Specs, NEW s \in Specs, NEW t \in Specs, Extends(t, s, b)
    PROVE  /\ removed_endpoints(b, t) \subseteq removed_endpoints(b, s)
           /\ removed_methods(b, t) \subseteq removed_methods(b, s)
<1>1. \A p \in Paths : t.paths[p] = s.paths[p] \/ (s.paths[p] = "absent" /\ b.paths[p] = "absent")
  BY DEF Extends
<1>2. s.ops \subseteq t.ops
  BY DEF Extends
<1>3. removed_endpoints(b, t) \subseteq removed_endpoints(b, s)
  BY <1>1 DEF removed_endpoints, Unless
<1>4. InBoth(b, t) \subseteq InBoth(b, s)
  BY <1>1 DEF InBoth
<1>5. {x \in b.ops \ t.ops : x[1] \in InBoth(b, t)}
        \subseteq {x \in b.ops \ s.ops : x[1] \in InBoth(b, s)}
  BY <1>2, <1>4
<1>6. removed_methods(b, t) \subseteq removed_methods(b, s)
  BY <1>5 DEF removed_methods, Unless
<1> QED
  BY <1>3, <1>6

\* The last parameter of a name is still the last, or an optional one follows it.
LEMMA ExtendedParameters ==
    ASSUME NEW b \in Specs, NEW s \in Specs, NEW t \in Specs, Extends(t, s, b), NEW o \in Ops
    PROVE  diff_parameters(b, t, o) \subseteq diff_parameters(b, s, o)
<1> DEFINE p == s.params[o]
           q == t.params[o]
           bm == ParamMap(b.params[o])
<1>1. p \in Seq(Param) /\ q \in Seq(Param)
  BY SpecFields
<1>2. IsPrefix(p, q) /\ \A i \in DOMAIN q \ DOMAIN p : ~q[i].required
  BY DEF Extends
<1>3. diff_parameters(b, t, o) =
         Unless("removed_parameter",
            {Change("removed_parameter", o, n) : n \in DOMAIN bm \ DOMAIN ParamMap(q)})
         \cup
         Unless("new_required_field",
            {Change("new_required_field", o, n) :
                n \in {m \in DOMAIN ParamMap(q) :
                         ParamMap(q)[m].required /\ (m \in DOMAIN bm => ~bm[m].required)}})
  BY DEF diff_parameters
<1>4. diff_parameters(b, s, o) =
         Unless("removed_parameter",
            {Change("removed_parameter", o, n) : n \in DOMAIN bm \ DOMAIN ParamMap(p)})
         \cup
         Unless("new_required_field",
            {Change("new_required_field", o, n) :
                n \in {m \in DOMAIN ParamMap(p) :
                         ParamMap(p)[m].required /\ (m \in DOMAIN bm => ~bm[m].required)}})
  BY DEF diff_parameters
<1> HIDE DEF p, q, bm
<1>5. DOMAIN p \subseteq DOMAIN q /\ \A i \in DOMAIN p : q[i] = p[i]
  <2>1. Len(p) <= Len(q) /\ \A i \in 1 .. Len(p) : p[i] = q[i]
    BY <1>1, <1>2 DEF IsPrefix
  <2> QED
    BY <1>1, <2>1
<1>6. DOMAIN ParamMap(p) = NamesOf(p) /\ DOMAIN ParamMap(q) = NamesOf(q)
  BY DEF ParamMap
<1>7. NamesOf(p) \subseteq NamesOf(q)
  BY <1>5 DEF NamesOf, InlineOf
<1>8. ASSUME NEW n \in NamesOf(q), ParamMap(q)[n].required
      PROVE  n \in NamesOf(p) /\ ParamMap(p)[n] = ParamMap(q)[n]
  <2>1. PICK m \in InlineOf(q) : /\ ParamMap(q)[n] = q[m] /\ q[m].name = n
                               /\ \A i \in InlineOf(q) : q[i].name = n => i <= m
    BY <1>1, LastOfName
  <2>2. m \in InlineOf(p) /\ p[m] = q[m] /\ p[m].name = n
    BY <1>2, <1>5, <1>8, <2>1 DEF InlineOf
  <2>3. n \in NamesOf(p)
    BY <2>2 DEF NamesOf
  <2>4. PICK k \in InlineOf(p) : /\ ParamMap(p)[n] = p[k] /\ p[k].name = n
                               /\ \A i \in InlineOf(p) : p[i].name = n => i <= k
    BY <1>1, <2>3, LastOfName
  <2>5. k <= m /\ m <= k
    BY <1>5, <2>1, <2>2, <2>4 DEF InlineOf
  <2>6. k \in Nat /\ m \in Nat
    BY <1>1 DEF InlineOf
  <2>7. k = m
    BY <2>5, <2>6
  <2> QED
    BY <2>1, <2>2, <2>3, <2>4, <2>7
<1>9. DOMAIN bm \ DOMAIN ParamMap(q) \subseteq DOMAIN bm \ DOMAIN ParamMap(p)
  BY <1>6, <1>7
<1>10. {m \in DOMAIN ParamMap(q) : ParamMap(q)[m].required /\ (m \in DOMAIN bm => ~bm[m].required)}
       \subseteq
       {m \in DOMAIN ParamMap(p) : ParamMap(p)[m].required /\ (m \in DOMAIN bm => ~bm[m].required)}
  BY <1>6, <1>8
<1> QED
  BY <1>3, <1>4, <1>9, <1>10 DEF Unless

LEMMA ExtendedResponses ==
    ASSUME NEW b, NEW s, NEW t, Extends(t, s, b), NEW o
    PROVE  removed_responses(b, t, o) \subseteq removed_responses(b, s, o)
<1>1. CodesOf(s, o) \subseteq CodesOf(t, o)
  BY DEF Extends, CodesOf
<1> QED
  BY <1>1 DEF removed_responses, Unless

\* Of a schema that grew, one call of diff_schemas says nothing new.
LEMMA ExtendedNode ==
    ASSUME NEW b, NEW s, NEW t, NEW w,
           s # Absent, t # Absent, s.type = "string", t.type = "string", s.enum \subseteq t.enum
    PROVE  diff_node(b, t, w) \subseteq diff_node(b, s, w)
<1>1. Typed(s) /\ Typed(t) /\ ~IsObject(s) /\ ~IsObject(t)
  BY DEF Typed, IsObject, Types
<1>2. b.enum \ t.enum \subseteq b.enum \ s.enum
  OBVIOUS
<1> QED
  BY <1>1, <1>2 DEF diff_node, Unless, When

LEMMA ExtendedSchemas ==
    ASSUME NEW b \in Specs, NEW s, WellFormed(s), NEW t \in Specs, Extends(t, s, b),
           NEW pl \in Bodies(b, t), NEW l \in Reached(b, t, pl)
    PROVE  /\ pl \in Bodies(b, s) /\ l \in Reached(b, s, pl)
           /\ diff_node(b.nodes[<<pl, l>>], t.nodes[<<pl, l>>], pl \o l)
                 \subseteq diff_node(b.nodes[<<pl, l>>], s.nodes[<<pl, l>>], pl \o l)
<1> DEFINE k == <<pl, l>>
           up(n) == <<pl, SubSeq(l, 1, n)>>
<1>1. s \in Specs
  BY DEF WellFormed
<1>2. pl \in Places /\ l \in Locations /\ DOMAIN s.nodes = Places \X Locations
  BY <1>1, SpecFields DEF Bodies, Reached
<1>3. \A x \in Places \X Locations :
          \/ t.nodes[x] = s.nodes[x]
          \/ s.nodes[x] = Absent /\ b.nodes[x] = Absent
          \/ /\ Absent \notin {s.nodes[x], t.nodes[x]}
             /\ s.nodes[x].type = "string" /\ t.nodes[x].type = "string"
             /\ s.nodes[x].enum \subseteq t.nodes[x].enum
  BY <1>2 DEF Extends
<1>4. Inline(b.nodes[k]) /\ Inline(t.nodes[k]) /\ k \in Places \X Locations
  BY <1>2 DEF Reached
<1>5. \/ t.nodes[k] = s.nodes[k]
      \/ /\ s.nodes[k] # Absent /\ t.nodes[k] # Absent
         /\ s.nodes[k].type = "string" /\ t.nodes[k].type = "string"
         /\ s.nodes[k].enum \subseteq t.nodes[k].enum
  <2> HIDE DEF k
  <2> QED
    BY <1>3, <1>4 DEF Inline
<1>6. Inline(s.nodes[k])
  <2> HIDE DEF k
  <2> QED
    BY <1>4, <1>5 DEF Inline
<1>7. /\ pl[1] \in s.ops
      /\ pl[2] \in Codes => <<pl[1], pl[2]>> \in s.responses
  <2>1. PartsOfOps(s) /\ s.nodes[k] # Absent
    BY <1>6 DEF WellFormed, Inline
  <2>2. k[1] = pl
    OBVIOUS
  <2> HIDE DEF k
  <2> QED
    BY <1>4, <2>1, <2>2 DEF PartsOfOps
<1>8. pl \in Bodies(b, s)
  BY <1>7 DEF Bodies, CodesOf
<1>9. ASSUME NEW n \in 0 .. Len(l) - 1
      PROVE  IsObject(b.nodes[up(n)]) /\ IsObject(s.nodes[up(n)])
  <2>1. IsObject(b.nodes[up(n)]) /\ IsObject(t.nodes[up(n)])
    BY DEF Reached
  <2>2. n \in 0 .. Len(l)
    <3>1. l \in Seq(Fields)
      BY <1>2, LocationsAssumption
    <3>2. Len(l) \in Nat
      BY <3>1
    <3> QED
      BY <3>2
  <2>3. up(n) \in Places \X Locations
    BY <1>2, <2>2, LocationsAssumption
  <2> HIDE DEF up
  <2> QED
    BY <1>3, <2>1, <2>3 DEF IsObject
<1>10. l \in Reached(b, s, pl)
  BY <1>2, <1>4, <1>6, <1>9 DEF Reached
<1>11. diff_node(b.nodes[k], t.nodes[k], pl \o l)
         \subseteq diff_node(b.nodes[k], s.nodes[k], pl \o l)
  <2> DEFINE w == pl \o l
  <2> HIDE DEF k, w
  <2> QED
    BY <1>5, ExtendedNode
<1> QED
  BY <1>8, <1>10, <1>11

LEMMA ExtendedReport ==
    ASSUME NEW b \in Specs, NEW s, WellFormed(s), NEW t \in Specs, Extends(t, s, b)
    PROVE  compare_specs(b, t).changes \subseteq compare_specs(b, s).changes
<1> SUFFICES ASSUME NEW c \in compare_specs(b, t).changes
             PROVE  c \in compare_specs(b, s).changes
  OBVIOUS
<1>1. s \in Specs /\ b.ops \subseteq Ops
  BY SpecFields DEF WellFormed
<1>2. CASE c \in removed_endpoints(b, t) \/ c \in removed_methods(b, t)
  BY <1>1, <1>2, ExtendedPaths, ChangesOfReport
<1>3. CASE \E o \in b.ops \cap t.ops : \/ c \in diff_parameters(b, t, o)
                                     \/ c \in removed_responses(b, t, o)
  <2>1. PICK o \in b.ops \cap t.ops : \/ c \in diff_parameters(b, t, o)
                                  \/ c \in removed_responses(b, t, o)
    BY <1>3
  <2>2. o \in b.ops \cap s.ops /\ o \in Ops
    BY <1>1 DEF Extends
  <2>3. c \in diff_parameters(b, s, o) \/ c \in removed_responses(b, s, o)
    BY <1>1, <2>1, <2>2, ExtendedParameters, ExtendedResponses
  <2> QED
    BY <2>2, <2>3, ChangesOfReport
<1>4. CASE \E pl \in Bodies(b, t) : \E l \in Reached(b, t, pl) :
              c \in diff_node(b.nodes[<<pl, l>>], t.nodes[<<pl, l>>], pl \o l)
  BY <1>4, ExtendedSchemas, ChangesOfReport
<1> QED
  BY <1>2, <1>3, <1>4, ChangesOfReport

(***************************************************************************)
(* An edit that only adds adds no reason to refuse the release, whatever   *)
(* the configuration ignores (compare_specs).                              *)
(***************************************************************************)
THEOREM AdditionsAlwaysPass == Spec => AdditionsPass
<1> DEFINE A == UNCHANGED base /\ Extends(target', target, base)
                => compare_specs(base, target').changes
                      \subseteq compare_specs(base, target).changes
<1>1. GateInv /\ GateInv' => A
  BY ExtendedReport DEF GateInv, WellFormed
<1>2. GateInv /\ GateInv' => [A]_vars
  BY <1>1
<1> QED
  BY <1>2, GateHolds, PTL DEF AdditionsPass

-----------------------------------------------------------------------------
(* What a release lets through.                                            *)

LEMMA ReleasedIsQuiet ==
    ASSUME GateInv, Release
    PROVE  compare_specs(base, target).changes = {}
<1>1. report = compare_specs(base, target) /\ report.breaking = 0
  BY DEF Release, GateInv, ReportOfBoth
<1>2. base \in Specs /\ target \in Specs
  BY DEF GateInv, WellFormed
<1> DEFINE C == compare_specs(base, target).changes
<1>3. IsFiniteSet(C) /\ Cardinality(C) = 0
  BY <1>1, <1>2, ReportCounts
<1> HIDE DEF C
<1>4. C = {}
  BY <1>3, FS_EmptySet
<1> QED
  BY <1>4 DEF C

LEMMA QuietPaths ==
    ASSUME NEW b, WellFormed(b), NEW t, WellFormed(t), config = DefaultConfig,
           compare_specs(b, t).changes = {}
    PROVE  /\ \A p \in Paths : b.paths[p] # "absent" => t.paths[p] # "absent"
           /\ b.ops \subseteq t.ops
           /\ b.responses \subseteq t.responses
<1>1. config.ignore_rules = {}
  BY DEF DefaultConfig
<1>2. b \in Specs /\ t \in Specs
  BY DEF WellFormed
<1>3. /\ removed_endpoints(b, t) = {} /\ removed_methods(b, t) = {}
      /\ \A o \in b.ops \cap t.ops : removed_responses(b, t, o) = {}
  BY ChangesOfReport
<1>4. \A p \in Paths : b.paths[p] # "absent" => t.paths[p] # "absent"
  BY <1>1, <1>3 DEF removed_endpoints, Unless
<1>5. b.ops \subseteq t.ops
  <2> SUFFICES ASSUME NEW o \in b.ops, o \notin t.ops PROVE FALSE
    OBVIOUS
  <2>1. o[1] \in Paths /\ b.paths[o[1]] = "item"
    BY <1>2, SpecFields, OpsArePairs DEF WellFormed, OpsOfItems
  <2>2. o[1] \in InBoth(b, t)
    BY <1>4, <2>1 DEF InBoth
  <2>3. Change("removed_method", o, "") \in removed_methods(b, t)
    BY <1>1, <2>2 DEF removed_methods, Unless
  <2> QED
    BY <1>3, <2>3
<1>6. b.responses \subseteq t.responses
  <2> SUFFICES ASSUME NEW r \in b.responses, r \notin t.responses PROVE FALSE
    OBVIOUS
  <2> DEFINE o == r[1]
             c == r[2]
  <2>1. r = <<o, c>> /\ o \in b.ops \cap t.ops /\ c \in Codes
    BY <1>2, <1>5, SpecFields DEF WellFormed, PartsOfOps
  <2> HIDE DEF o, c
  <2>2. c \in CodesOf(b, o) \ CodesOf(t, o)
    BY <2>1 DEF CodesOf
  <2>3. Change("removed_response", o, c) \in removed_responses(b, t, o)
    BY <1>1, <2>2 DEF removed_responses, Unless
  <2> QED
    BY <1>3, <2>1, <2>3
<1> QED
  BY <1>4, <1>5, <1>6

LEMMA QuietParameters ==
    ASSUME NEW b, WellFormed(b), NEW t, WellFormed(t), config = DefaultConfig,
           compare_specs(b, t).changes = {}, NEW o \in b.ops \cap t.ops
    PROVE  /\ NamesOf(b.params[o]) \subseteq NamesOf(t.params[o])
           /\ \A n \in NamesOf(t.params[o]) : ParamMap(t.params[o])[n].required =>
                 n \in NamesOf(b.params[o]) /\ ParamMap(b.params[o])[n].required
<1> DEFINE bm == ParamMap(b.params[o])
           tm == ParamMap(t.params[o])
<1>1. config.ignore_rules = {}
  BY DEF DefaultConfig
<1>2. diff_parameters(b, t, o) = {}
  BY ChangesOfReport
<1>3. DOMAIN bm = NamesOf(b.params[o]) /\ DOMAIN tm = NamesOf(t.params[o])
  BY DEF ParamMap
<1>4. diff_parameters(b, t, o) =
         Unless("removed_parameter",
            {Change("removed_parameter", o, n) : n \in DOMAIN bm \ DOMAIN tm})
         \cup
         Unless("new_required_field",
            {Change("new_required_field", o, n) :
                n \in {m \in DOMAIN tm : tm[m].required /\ (m \in DOMAIN bm => ~bm[m].required)}})
  BY DEF diff_parameters
<1> HIDE DEF bm, tm
<1>5. DOMAIN bm \subseteq DOMAIN tm
  <2> SUFFICES ASSUME NEW n \in DOMAIN bm \ DOMAIN tm PROVE FALSE
    OBVIOUS
  <2>1. Change("removed_parameter", o, n) \in diff_parameters(b, t, o)
    BY <1>1, <1>4 DEF Unless
  <2> QED
    BY <1>2, <2>1
<1>6. ASSUME NEW n \in DOMAIN tm, tm[n].required
      PROVE  n \in DOMAIN bm /\ bm[n].required
  <2> SUFFICES ASSUME n \in DOMAIN bm => ~bm[n].required PROVE FALSE
    OBVIOUS
  <2>1. Change("new_required_field", o, n) \in diff_parameters(b, t, o)
    BY <1>1, <1>4, <1>6 DEF Unless
  <2> QED
    BY <1>2, <2>1
<1> QED
  BY <1>3, <1>5, <1>6 DEF bm, tm

\* Where the parameters are plain, the map holds every one of them.
LEMMA PlainMap ==
    ASSUME NEW s, WellFormed(s), NEW f, NEW o \in Plain(s, f), NEW x \in Range(s.params[o])
    PROVE  x.name \in NamesOf(s.params[o]) /\ ParamMap(s.params[o])[x.name] = x
<1> DEFINE q == s.params[o]
<1>1. q \in Seq(Param) /\ o \in Ops
  BY SpecFields DEF WellFormed, Plain
<1>2. PICK i \in DOMAIN q : x = q[i]
  BY DEF Range
<1>3. InlineOf(q) = DOMAIN q /\ \A j, k \in DOMAIN q : q[j].name = q[k].name => j = k
  BY DEF Plain
<1> HIDE DEF q
<1>4. x.name \in NamesOf(q)
  BY <1>2, <1>3 DEF NamesOf
<1>5. PICK m \in InlineOf(q) : ParamMap(q)[x.name] = q[m] /\ q[m].name = x.name
  BY <1>1, <1>4, LastOfName
<1>6. m = i
  BY <1>2, <1>3, <1>5
<1> QED
  BY <1>2, <1>4, <1>5, <1>6 DEF q

-----------------------------------------------------------------------------
(* Requests.                                                               *)

\* What holds of any parameters, those the maps do not hold included.
OldEndpointsStay ==
    config = DefaultConfig =>
        /\ \A p \in Paths : first.paths[p] # "absent" => base.paths[p] # "absent"
        /\ first.ops \subseteq base.ops
        /\ first.responses \subseteq base.responses
        /\ \A o \in first.ops : NamesOf(first.params[o]) \subseteq NamesOf(base.params[o])

LEMMA StepEndpoints ==
    ASSUME GateInv, OldEndpointsStay, [Next]_vars
    PROVE  OldEndpointsStay'
<1>1. CASE Release
  <2>1. base' = target /\ first' = first /\ config' = config
    BY <1>1 DEF Release
  <2> SUFFICES ASSUME config = DefaultConfig
               PROVE  /\ \A p \in Paths : first.paths[p] # "absent" => target.paths[p] # "absent"
                      /\ first.ops \subseteq target.ops
                      /\ first.responses \subseteq target.responses
                      /\ \A o \in first.ops :
                            NamesOf(first.params[o]) \subseteq NamesOf(target.params[o])
    BY <2>1 DEF OldEndpointsStay
  <2>2. compare_specs(base, target).changes = {} /\ WellFormed(base) /\ WellFormed(target)
    BY <1>1, ReleasedIsQuiet DEF GateInv
  <2>3. /\ \A p \in Paths : base.paths[p] # "absent" => target.paths[p] # "absent"
        /\ base.ops \subseteq target.ops /\ base.responses \subseteq target.responses
    BY <2>2, QuietPaths
  <2>4. \A o \in first.ops : NamesOf(base.params[o]) \subseteq NamesOf(target.params[o])
    BY <2>2, <2>3, QuietParameters DEF OldEndpointsStay
  <2> QED
    BY <2>3, <2>4 DEF OldEndpointsStay
<1>2. CASE UNCHANGED <<config, first, base>>
  BY <1>2 DEF OldEndpointsStay
<1>3. Release \/ UNCHANGED <<config, first, base>>
  BY OnlyReleases
<1> QED
  BY <1>1, <1>2, <1>3

LEMMA OldEndpointsAreThere == Spec => []OldEndpointsStay
<1>1. Init => OldEndpointsStay
  BY DEF Init, OldEndpointsStay
<1> QED
  BY <1>1, StepEndpoints, GateHolds, PTL DEF Spec

LEMMA StepRequests ==
    ASSUME GateInv, OldEndpointsStay, OldRequestsAccepted, [Next]_vars
    PROVE  OldRequestsAccepted'
<1>1. CASE Release
  <2>1. /\ base' = target /\ first' = first /\ config' = config
        /\ plain' = plain \cap Plain(target, first)
    BY <1>1 DEF Release
  <2>2. OldEndpointsStay'
    BY StepEndpoints
  <2> SUFFICES ASSUME config = DefaultConfig, NEW o \in first.ops, o \in plain,
                      o \in Plain(target, first),
                      NEW x \in Range(target.params[o]), x.required
               PROVE  \E y \in Range(first.params[o]) :
                         y.required /\ y.name = x.name /\ y.kind = x.kind
    BY <2>1, <2>2 DEF OldRequestsAccepted, OldEndpointsStay
  <2>3. compare_specs(base, target).changes = {} /\ WellFormed(base) /\ WellFormed(target)
    BY <1>1, ReleasedIsQuiet DEF GateInv
  <2>4. o \in base.ops \cap target.ops /\ o \in Ops
    BY <2>3, QuietPaths, SpecFields DEF OldEndpointsStay, GateInv, WellFormed
  <2>5. x.name \in NamesOf(target.params[o]) /\ ParamMap(target.params[o])[x.name] = x
    BY <2>3, PlainMap
  <2>6. /\ x.name \in NamesOf(base.params[o])
        /\ ParamMap(base.params[o])[x.name].required
    BY <2>3, <2>4, <2>5, QuietParameters
  <2>7. base.params[o] \in Seq(Param)
    BY <2>3, <2>4, SpecFields DEF WellFormed
  <2>8. PICK z \in Range(base.params[o]) : z.required /\ z.name = x.name
    <3>1. PICK m \in InlineOf(base.params[o]) :
             ParamMap(base.params[o])[x.name] = base.params[o][m] /\ base.params[o][m].name = x.name
      BY <2>6, <2>7, LastOfName
    <3> QED
      BY <2>6, <3>1 DEF Range, InlineOf
  <2>9. PICK y \in Range(first.params[o]) : y.required /\ y.name = z.name /\ y.kind = z.kind
    BY <2>8 DEF OldRequestsAccepted
  <2>10. y.kind = x.kind
    <3>1. PICK i \in DOMAIN target.params[o], j \in DOMAIN first.params[o] :
             x = target.params[o][i] /\ y = first.params[o][j]
      BY DEF Range
    <3> QED
      BY <2>8, <2>9, <3>1 DEF Plain
  <2> QED
    BY <2>8, <2>9, <2>10
<1>2. CASE UNCHANGED <<config, first, base, plain>>
  BY <1>2 DEF OldRequestsAccepted
<1>3. Release \/ UNCHANGED <<config, first, base, plain>>
  BY OnlyReleases
<1> QED
  BY <1>1, <1>2, <1>3

(***************************************************************************)
(* A client of the first release can still send its requests to any later  *)
(* one (compare_specs, diff_parameters, diff_responses, under the          *)
(* defaults).  Endpoints, operations, responses and the names of inline    *)
(* parameters stay whatever the parameters are; nothing new is required of *)
(* it where they stay plain.  Without each part of Plain a required        *)
(* parameter gets through (RequiredParametersReported fails).              *)
(***************************************************************************)
THEOREM OldRequestsStayAccepted == Spec => []OldRequestsAccepted
<1>1. Init => OldRequestsAccepted
  BY DEF Init, OldRequestsAccepted
<1>2. GateInv /\ OldEndpointsStay /\ OldRequestsAccepted /\ [Next]_vars => OldRequestsAccepted'
  BY StepRequests
<1> QED
  BY <1>1, <1>2, GateHolds, OldEndpointsAreThere, PTL DEF Spec

-----------------------------------------------------------------------------
(* Payloads.                                                               *)

\* A schema that two specifications declare inline is one diff_schemas reaches.
LEMMA SharedIsReached ==
    ASSUME NEW b, WellFormed(b), NEW t, WellFormed(t),
           NEW pl \in Places, NEW l \in Locations,
           <<pl, l>> \in Schemas(b), <<pl, l>> \in Schemas(t)
    PROVE  pl \in Bodies(b, t) /\ l \in Reached(b, t, pl)
<1> DEFINE k == <<pl, l>>
<1>1. Typed(b.nodes[k]) /\ Typed(t.nodes[k]) /\ k \in Places \X Locations
  BY DEF Schemas
<1>2. Inline(b.nodes[k]) /\ Inline(t.nodes[k])
  BY <1>1 DEF Typed, Inline, Types
<1>3. \A n \in 0 .. Len(l) - 1 :
         IsObject(b.nodes[<<pl, SubSeq(l, 1, n)>>]) /\ IsObject(t.nodes[<<pl, SubSeq(l, 1, n)>>])
  BY DEF Schemas
<1>4. l \in Reached(b, t, pl)
  BY <1>2, <1>3 DEF Reached
<1>5. \A s : WellFormed(s) /\ s.nodes[k] # Absent =>
               /\ pl[1] \in s.ops
               /\ pl[2] \in Codes => <<pl[1], pl[2]>> \in s.responses
  <2>1. k[1] = pl
    OBVIOUS
  <2> HIDE DEF k
  <2> QED
    BY <1>1, <2>1 DEF WellFormed, PartsOfOps
<1>6. b.nodes[k] # Absent /\ t.nodes[k] # Absent
  BY <1>1 DEF Typed
<1>7. pl[2] \in Codes \/ pl[2] = "requestBody"
  BY PlacesAreTriples DEF Slots
<1>8. pl \in Bodies(b, t)
  <2> HIDE DEF k
  <2> QED
    BY <1>5, <1>6, <1>7 DEF Bodies, CodesOf
<1> QED
  BY <1>4, <1>8

LEMMA QuietNode ==
    ASSUME NEW b, NEW t, NEW w, config = DefaultConfig, Typed(b), Typed(t),
           b.enum # {} => b.type = "string",
           t.required # {} => t.type = "object",
           diff_node(b, t, w) = {}
    PROVE  t.type = b.type /\ b.enum \subseteq t.enum /\ t.required \subseteq b.required
<1>1. config.ignore_rules = {} /\ ~config.allow_breaking_enums /\ ~config.allow_type_coercion
  BY DEF DefaultConfig
<1>2. t.type = b.type
  <2> SUFFICES ASSUME b.type # t.type PROVE FALSE
    OBVIOUS
  <2>1. Change("type_change", w, t.type) \in diff_node(b, t, w)
    BY <1>1 DEF diff_node, When, Unless
  <2> QED
    BY <2>1
<1>3. b.enum \subseteq t.enum
  <2> SUFFICES ASSUME NEW v \in b.enum \ t.enum PROVE FALSE
    OBVIOUS
  <2>1. Change("enum_removal", w, v) \in diff_node(b, t, w)
    BY <1>1, <1>2 DEF diff_node, When, Unless
  <2> QED
    BY <2>1
<1>4. t.required \subseteq b.required
  <2> SUFFICES ASSUME NEW f \in t.required \ b.required PROVE FALSE
    OBVIOUS
  <2>1. IsObject(b) /\ IsObject(t)
    BY <1>2 DEF IsObject, Typed
  <2>2. Change("new_required_field", Append(w, f), f) \in diff_node(b, t, w)
    BY <1>1, <2>1 DEF diff_node, When, Unless
  <2> QED
    BY <2>2
<1> QED
  BY <1>2, <1>3, <1>4

LEMMA StepPayloads ==
    ASSUME GateInv, OldPayloadsFit, [Next]_vars
    PROVE  OldPayloadsFit'
<1>1. CASE Release
  <2>1. /\ base' = target /\ first' = first /\ config' = config
        /\ kept' = kept \cap Schemas(target)
    BY <1>1 DEF Release
  <2> SUFFICES ASSUME config = DefaultConfig, NEW x \in kept, x \in Schemas(target)
               PROVE  /\ target.nodes[x].type = first.nodes[x].type
                      /\ first.nodes[x].enum \subseteq target.nodes[x].enum
                      /\ target.nodes[x].required \subseteq first.nodes[x].required
    BY <2>1 DEF OldPayloadsFit
  <2>2. compare_specs(base, target).changes = {} /\ WellFormed(base) /\ WellFormed(target)
    BY <1>1, ReleasedIsQuiet DEF GateInv
  <2>3. x \in Schemas(base) /\ x \in Places \X Locations
    BY DEF GateInv, KeptByAll
  <2>4. PICK pl \in Places, l \in Locations : x = <<pl, l>>
    BY <2>3
  <2>5. pl \in Bodies(base, target) /\ l \in Reached(base, target, pl)
    BY <2>2, <2>3, <2>4, SharedIsReached
  <2>6. diff_node(base.nodes[x], target.nodes[x], pl \o l) = {}
    BY <2>2, <2>4, <2>5, ChangesOfReport
  <2>7. Typed(base.nodes[x]) /\ Typed(target.nodes[x])
    BY <2>3 DEF Schemas
  <2>8. /\ base.nodes[x].enum # {} => base.nodes[x].type = "string"
        /\ target.nodes[x].required # {} => target.nodes[x].type = "object"
    BY <2>2, <2>3, <2>7 DEF WellFormed, NodesOfTypes, Typed
  <2>9. /\ target.nodes[x].type = base.nodes[x].type
        /\ base.nodes[x].enum \subseteq target.nodes[x].enum
        /\ target.nodes[x].required \subseteq base.nodes[x].required
    BY <2>6, <2>7, <2>8, QuietNode
  <2> QED
    BY <2>9 DEF OldPayloadsFit
<1>2. CASE UNCHANGED <<config, first, base, kept>>
  BY <1>2 DEF OldPayloadsFit
<1>3. Release \/ UNCHANGED <<config, first, base, kept, plain>>
  BY OnlyReleases
<1> QED
  BY <1>1, <1>2, <1>3

(***************************************************************************)
(* A schema that every release declared inline keeps its type and its enum *)
(* values, and never requires a property it did not require in the first   *)
(* (diff_schemas, under the defaults).                                     *)
(***************************************************************************)
THEOREM OldPayloadsStayFit == Spec => []OldPayloadsFit
<1>1. Init => OldPayloadsFit
  BY DEF Init, OldPayloadsFit
<1> QED
  BY <1>1, StepPayloads, GateHolds, PTL DEF Spec
=============================================================================
