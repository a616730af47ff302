---------------------------- MODULE OpenApiDiff -----------------------------
(***************************************************************************)
(* The OpenAPI checker of the engine (engine/src/diff.rs), as the gate of  *)
(* an API that evolves: authors edit the working specification one thing   *)
(* at a time, compare_specs compares it with the released one, and it is   *)
(* released when the report says nothing is breaking.                      *)
(*                                                                         *)
(* A specification keeps what the checker looks at.  Its parameters are a  *)
(* sequence, as two of them may share a name; one that is not inline is a  *)
(* $ref, here with what it stands for.  A schema is not a nested value but *)
(* the function from locations (sequences of property names) to nodes: the *)
(* recursion of diff_schemas is then the set of locations it reaches.      *)
(***************************************************************************)
EXTENDS Naturals, SequencesExt

CONSTANTS
    Paths, Methods, Names, Kinds, Codes, Media,
    Fields,     \* property names
    Values,     \* enum values
    Locations,  \* sequences of property names, down to some depth
    Started,    \* specifications that may be the first release
    Configs,    \* configurations the checker runs under
    MaxEdits,   \* bound on the edits of a behaviour
    Absent,     \* no schema at a location
    NoReport    \* the specification was edited since it was compared

ASSUME LocationsAssumption ==
    /\ Locations \subseteq Seq(Fields) /\ <<>> \in Locations
    /\ \A l \in Locations : \A n \in 0 .. Len(l) : SubSeq(l, 1, n) \in Locations

\* A document is a finite text.
ASSUME FiniteAssumption ==
    /\ IsFiniteSet(Paths) /\ IsFiniteSet(Methods) /\ IsFiniteSet(Names)
    /\ IsFiniteSet(Codes) /\ IsFiniteSet(Media)
    /\ IsFiniteSet(Fields) /\ IsFiniteSet(Values) /\ IsFiniteSet(Locations)

VARIABLES
    config,     \* TM3LConfig
    first,      \* the specification that was released first
    base,       \* the one released last
    target,     \* the working one
    kept,       \* <<place, location>> that every release had a schema at
    plain,      \* operations whose parameters were plain in every release
    report,     \* what compare_specs said of base and target
    edits       \* edits so far

vars == <<config, first, base, target, kept, plain, report, edits>>

Ops       == Paths \X Methods
Slots     == Codes \cup {"requestBody"}
Places    == Ops \X Slots \X Media

Types == {"string", "number", "integer", "object", "array", "boolean"}

\* A schema that is a $ref, and one of no single type (oneOf, allOf, anyOf, not).
Opaque == {"ref", "composed"}

Node == [type : Types \cup Opaque, enum : SUBSET Values, required : SUBSET Fields]

Param == [name : Names, kind : Kinds, required : BOOLEAN, inline : BOOLEAN]

Specs ==
    [paths : [Paths -> {"absent", "item", "ref"}],
     ops : SUBSET Ops,
     params : [Ops -> Seq(Param)],
     responses : SUBSET (Ops \X Codes),
     nodes : [Places \X Locations -> Node \cup {Absent}]]

(***************************************************************************)
(* What a parsed document is beside its shape: operations are those of an  *)
(* item, responses and schemas are of an operation that is there, only     *)
(* strings have enum values here and only objects required fields, and no  *)
(* two parameters share both name and location, which OpenAPI forbids.     *)
(***************************************************************************)
OpsOfItems(s) == \A o \in s.ops : s.paths[o[1]] = "item"

PartsOfOps(s) ==
    /\ \A r \in s.responses : r[1] \in s.ops
    /\ \A k \in Places \X Locations : s.nodes[k] # Absent =>
          /\ k[1][1] \in s.ops
          /\ k[1][2] \in Codes => <<k[1][1], k[1][2]>> \in s.responses

NodesOfTypes(s) ==
    \A k \in Places \X Locations : s.nodes[k] # Absent =>
        /\ s.nodes[k].enum # {} => s.nodes[k].type = "string"
        /\ s.nodes[k].required # {} => s.nodes[k].type = "object"

DistinctParameters(s) ==
    \A o \in Ops : \A i, j \in DOMAIN s.params[o] :
        /\ s.params[o][i].name = s.params[o][j].name
        /\ s.params[o][i].kind = s.params[o][j].kind
        => i = j

WellFormed(s) ==
    s \in Specs /\ OpsOfItems(s) /\ PartsOfOps(s) /\ NodesOfTypes(s) /\ DistinctParameters(s)

ASSUME StartedAssumption == \A s \in Started : WellFormed(s)

Rules == {"removed_endpoint", "removed_method", "removed_parameter",
          "new_required_field", "removed_response", "type_change", "enum_removal"}

DefaultConfig ==
    [ignore_rules |-> {}, allow_breaking_enums |-> FALSE, allow_type_coercion |-> FALSE]

Change(rule, where, what) ==
    [severity |-> "BREAKING", rule |-> rule, path |-> where, description |-> what]

\* The changes of a rule, which the configuration may ignore.
Unless(rule, changes) == IF rule \in config.ignore_rules THEN {} ELSE changes

-----------------------------------------------------------------------------
(* diff_schemas.                                                           *)

Typed(node)  == node # Absent /\ node.type \in Types
Inline(node) == node # Absent /\ node.type # "ref"
IsObject(node) == node # Absent /\ node.type = "object"

\* Mutant: the properties of an object are not compared.
RootReached(b, t, pl) ==
    {l \in {<<>>} : Inline(b.nodes[<<pl, l>>]) /\ Inline(t.nodes[<<pl, l>>])}

\* diff_schemas recurses into a property both objects declare inline.
Reached(b, t, pl) ==
    {l \in Locations :
        /\ Inline(b.nodes[<<pl, l>>]) /\ Inline(t.nodes[<<pl, l>>])
        /\ \A n \in 0 .. Len(l) - 1 :
              LET up == SubSeq(l, 1, n)
              IN  IsObject(b.nodes[<<pl, up>>]) /\ IsObject(t.nodes[<<pl, up>>])}

When(cond, changes) == IF cond THEN changes ELSE {}

\* One call of diff_schemas, without its recursion.
diff_node(b, t, where) ==
    When(Typed(b) /\ Typed(t),
        Unless("type_change",
            When(b.type # t.type /\ ~config.allow_type_coercion,
                 {Change("type_change", where, t.type)}))
        \cup
        Unless("enum_removal",
            When(b.type = "string" /\ t.type = "string" /\ ~config.allow_breaking_enums,
                 {Change("enum_removal", where, v) : v \in b.enum \ t.enum}))
        \cup
        Unless("new_required_field",
            When(IsObject(b) /\ IsObject(t),
                 {Change("new_required_field", Append(where, f), f) :
                     f \in t.required \ b.required})))

diff_schemas(b, t, pl) ==
    UNION {diff_node(b.nodes[<<pl, l>>], t.nodes[<<pl, l>>], pl \o l) : l \in Reached(b, t, pl)}

-----------------------------------------------------------------------------
(* diff_parameters, diff_responses, compare_specs.                         *)

\* extract_data passes over a parameter given by a reference.
InlineOf(params) == {i \in DOMAIN params : params[i].inline}

NamesOf(params) == {params[i].name : i \in InlineOf(params)}

\* The HashMap of an operation: the last parameter of a name, whatever its kind.
ParamMap(params) ==
    [n \in NamesOf(params) |-> params[Max({i \in InlineOf(params) : params[i].name = n})]]

\* Mutant: every new parameter is reported, the optional ones too.
diff_parameters_strict(b, t, o) ==
    LET bm == ParamMap(b.params[o])
        tm == ParamMap(t.params[o])
    IN  {Change("removed_parameter", o, n) : n \in DOMAIN bm \ DOMAIN tm}
        \cup {Change("new_required_field", o, n) : n \in DOMAIN tm \ DOMAIN bm}

\* Mutant: a parameter made required is not reported, only a new one is.
diff_parameters_new(b, t, o) ==
    LET bm == ParamMap(b.params[o])
        tm == ParamMap(t.params[o])
    IN  {Change("removed_parameter", o, n) : n \in DOMAIN bm \ DOMAIN tm}
        \cup {Change("new_required_field", o, n) :
                 n \in {m \in DOMAIN tm \ DOMAIN bm : tm[m].required}}

diff_parameters(b, t, o) ==
    LET bm == ParamMap(b.params[o])
        tm == ParamMap(t.params[o])
        demanded(n) == tm[n].required /\ (n \in DOMAIN bm => ~bm[n].required)
    IN  Unless("removed_parameter",
            {Change("removed_parameter", o, n) : n \in DOMAIN bm \ DOMAIN tm})
        \cup
        Unless("new_required_field",
            {Change("new_required_field", o, n) : n \in {m \in DOMAIN tm : demanded(m)}})

CodesOf(s, o) == {c \in Codes : <<o, c>> \in s.responses}

removed_responses(b, t, o) ==
    Unless("removed_response",
        {Change("removed_response", o, c) : c \in CodesOf(b, o) \ CodesOf(t, o)})

\* The bodies compared: of the requests, and of the responses in both.
Bodies(b, t) ==
    {pl \in Places :
        /\ pl[1] \in b.ops \cap t.ops
        /\ \/ pl[2] = "requestBody"
           \/ pl[2] \in CodesOf(b, pl[1]) \cap CodesOf(t, pl[1])}

InBoth(b, t) == {p \in Paths : b.paths[p] # "absent" /\ t.paths[p] # "absent"}

\* as_item().unwrap() on a path given by a reference.
Panics(b, t) == \E p \in InBoth(b, t) : "ref" \in {b.paths[p], t.paths[p]}

removed_endpoints(b, t) ==
    Unless("removed_endpoint",
        {Change("removed_endpoint", <<p>>, "") :
            p \in {q \in Paths : b.paths[q] # "absent" /\ t.paths[q] = "absent"}})

removed_methods(b, t) ==
    Unless("removed_method",
        {Change("removed_method", o, "") :
            o \in {x \in b.ops \ t.ops : x[1] \in InBoth(b, t)}})

\* Mutant: the changes of schemas are listed but not counted.
compare_specs_uncounted(b, t) ==
    LET both == b.ops \cap t.ops
    IN  [breaking |->
            Cardinality(removed_endpoints(b, t)) + Cardinality(removed_methods(b, t))
            + SumFunction([o \in both |-> Cardinality(diff_parameters(b, t, o))])
            + SumFunction([o \in both |-> Cardinality(removed_responses(b, t, o))]),
         changes |->
            removed_endpoints(b, t) \cup removed_methods(b, t)
            \cup (UNION {diff_parameters(b, t, o) \cup removed_responses(b, t, o) : o \in both})
            \cup (UNION {diff_schemas(b, t, pl) : pl \in Bodies(b, t)})]

\* Each part counts its own changes; no part ever says DANGEROUS or ADDITIVE.
compare_specs(b, t) ==
    LET both   == b.ops \cap t.ops
        bodies == Bodies(b, t)
    IN  [breaking |->
            Cardinality(removed_endpoints(b, t)) + Cardinality(removed_methods(b, t))
            + SumFunction([o \in both |-> Cardinality(diff_parameters(b, t, o))])
            + SumFunction([o \in both |-> Cardinality(removed_responses(b, t, o))])
            + SumFunction([pl \in bodies |-> Cardinality(diff_schemas(b, t, pl))]),
         changes |->
            removed_endpoints(b, t) \cup removed_methods(b, t)
            \cup (UNION {diff_parameters(b, t, o) \cup removed_responses(b, t, o) : o \in both})
            \cup (UNION {diff_schemas(b, t, pl) : pl \in bodies})]

-----------------------------------------------------------------------------
(* The authors, one edit at a time.                                        *)

Edited(s) ==
    /\ edits < MaxEdits
    /\ edits' = edits + 1
    /\ target' = s
    /\ s # target
    /\ report' = NoReport
    /\ UNCHANGED <<config, first, base, kept, plain>>

\* s without the operations O and all they contain.
Without(s, O) ==
    [paths |-> s.paths,
     ops |-> s.ops \ O,
     params |-> [o \in Ops |-> IF o \in O THEN <<>> ELSE s.params[o]],
     responses |-> {r \in s.responses : r[1] \notin O},
     nodes |-> [k \in DOMAIN s.nodes |-> IF k[1][1] \in O THEN Absent ELSE s.nodes[k]]]

EditPath(p) ==
    \E x \in {"absent", "item", "ref"} :
        Edited([Without(target, {p} \X Methods) EXCEPT !.paths[p] = x])

EditOperation(o) ==
    \/ /\ target.paths[o[1]] = "item"
       /\ Edited([target EXCEPT !.ops = @ \cup {o}])
    \/ Edited(Without(target, {o}))

\* OpenAPI: no two parameters share both name and location.
EditParameter(o) ==
    /\ o \in target.ops
    /\ \/ \E x \in Param :
             /\ \A i \in DOMAIN target.params[o] :
                   <<target.params[o][i].name, target.params[o][i].kind>> # <<x.name, x.kind>>
             /\ Edited([target EXCEPT !.params[o] = Append(@, x)])
       \/ \E i \in DOMAIN target.params[o] :
             \/ Edited([target EXCEPT !.params[o][i].required = ~@])
             \/ Edited([target EXCEPT !.params[o][i].inline = ~@])
             \/ Edited([target EXCEPT !.params[o] =
                           SubSeq(@, 1, i - 1) \o SubSeq(@, i + 1, Len(@))])

EditResponse(o, c) ==
    /\ o \in target.ops
    /\ \/ Edited([target EXCEPT !.responses = @ \cup {<<o, c>>}])
       \/ Edited([target EXCEPT !.responses = @ \ {<<o, c>>},
                                !.nodes = [k \in DOMAIN @ |->
                                    IF <<o, c>> = <<k[1][1], k[1][2]>> THEN Absent
                                    ELSE target.nodes[k]]])

\* Nodes an author may write.
SomeNodes ==
    {[type |-> x, enum |-> {}, required |-> {}] : x \in {"integer", "ref"}}
    \cup {[type |-> "string", enum |-> e, required |-> {}] : e \in SUBSET Values}
    \cup {[type |-> "object", enum |-> {}, required |-> q] : q \in SUBSET Fields}

EditSchema(pl, l) ==
    /\ pl[1] \in target.ops
    /\ pl[2] \in Codes => <<pl[1], pl[2]>> \in target.responses
    /\ \E n \in SomeNodes \cup {Absent} : Edited([target EXCEPT !.nodes[<<pl, l>>] = n])

-----------------------------------------------------------------------------
\* The schemas that s declares inline, with everything above them.
Schemas(s) ==
    {x \in Places \X Locations :
        /\ Typed(s.nodes[x])
        /\ \A n \in 0 .. Len(x[2]) - 1 : IsObject(s.nodes[<<x[1], SubSeq(x[2], 1, n)>>])}

\* The operations of s whose parameters are all inline, under names of their
\* own, and where f has a parameter of that name.
Plain(s, f) ==
    {o \in Ops :
        /\ InlineOf(s.params[o]) = DOMAIN s.params[o]
        /\ \A i, j \in DOMAIN s.params[o] :
              s.params[o][i].name = s.params[o][j].name => i = j
        /\ \A i \in DOMAIN s.params[o], j \in DOMAIN f.params[o] :
              s.params[o][i].name = f.params[o][j].name
              => s.params[o][i].kind = f.params[o][j].kind}

Init ==
    /\ config \in Configs
    /\ first \in Started
    /\ base = first /\ target = first
    /\ kept = Schemas(first) /\ plain = Plain(first, first)
    /\ report = NoReport
    /\ edits = 0

\* The engine compares; a panic ends the request without an answer.
Compare ==
    /\ report = NoReport
    /\ ~Panics(base, target)
    /\ report' = compare_specs(base, target)
    /\ UNCHANGED <<config, first, base, target, kept, plain, edits>>

\* A report without breaking changes lets the working specification through.
Release ==
    /\ report # NoReport /\ report.breaking = 0
    /\ base # target
    /\ base' = target
    /\ kept' = kept \cap Schemas(target) /\ plain' = plain \cap Plain(target, first)
    /\ report' = NoReport
    /\ UNCHANGED <<config, first, target, edits>>

Edit ==
    \/ \E p \in Paths : EditPath(p)
    \/ \E o \in Ops : EditOperation(o) \/ EditParameter(o) \/ \E c \in Codes : EditResponse(o, c)
    \/ \E pl \in Places, l \in Locations : EditSchema(pl, l)

Next == Edit \/ Compare \/ Release

Spec == Init /\ [][Next]_vars

-----------------------------------------------------------------------------
(* Properties.                                                             *)

(***************************************************************************)
(* The counter of the summary, kept beside the list in five places, counts *)
(* what the list holds: the status of a run is taken from the counter, and *)
(* the reasons shown for it from the list.                                 *)
(***************************************************************************)
SummaryCountsTheReport ==
    report # NoReport => report.breaking = Cardinality(report.changes)

(***************************************************************************)
(* However many reports let through in between, a client of the first      *)
(* release can still send its requests: no endpoint, operation, inline     *)
(* parameter or response code of it is gone, and no parameter is required  *)
(* that was optional, or not there, then.  The last holds of operations    *)
(* whose parameters stay plain: the maps of diff_parameters hold one       *)
(* parameter of a name, none given by a reference, and their locations are *)
(* not compared.                                                           *)
(***************************************************************************)
OldRequestsAccepted ==
    config = DefaultConfig =>
        /\ \A p \in Paths : first.paths[p] # "absent" => base.paths[p] # "absent"
        /\ first.ops \subseteq base.ops
        /\ first.responses \subseteq base.responses
        /\ \A o \in first.ops : NamesOf(first.params[o]) \subseteq NamesOf(base.params[o])
        /\ \A o \in first.ops \cap plain : \A x \in Range(base.params[o]) : x.required =>
              \E y \in Range(first.params[o]) :
                 y.required /\ y.name = x.name /\ y.kind = x.kind

(***************************************************************************)
(* A schema that every release declared inline, down from its root, keeps  *)
(* the type it had in the first and its enum values, and requires no       *)
(* property that was optional.                                             *)
(***************************************************************************)
OldPayloadsFit ==
    config = DefaultConfig =>
        \A x \in kept :
            LET old == first.nodes[x]
                new == base.nodes[x]
            IN  /\ new.type = old.type
                /\ old.enum \subseteq new.enum
                /\ new.required \subseteq old.required

\* t has all of s, and what it has besides is optional and unknown to b.
Extends(t, s, b) ==
    /\ \A p \in Paths : t.paths[p] = s.paths[p] \/ (s.paths[p] = "absent" /\ b.paths[p] = "absent")
    /\ s.ops \subseteq t.ops /\ (t.ops \ s.ops) \cap b.ops = {}
    /\ s.responses \subseteq t.responses
    /\ \A o \in Ops :
          /\ IsPrefix(s.params[o], t.params[o])
          /\ \A i \in DOMAIN t.params[o] \ DOMAIN s.params[o] : ~t.params[o][i].required
    /\ \A k \in DOMAIN s.nodes :
          \/ t.nodes[k] = s.nodes[k]
          \/ s.nodes[k] = Absent /\ b.nodes[k] = Absent
          \/ /\ Absent \notin {s.nodes[k], t.nodes[k]}
             /\ s.nodes[k].type = "string" /\ t.nodes[k].type = "string"
             /\ s.nodes[k].enum \subseteq t.nodes[k].enum

(***************************************************************************)
(* The gate raises no false alarm over an addition: an edit that only adds *)
(* adds no change to the report, under any configuration.                  *)
(***************************************************************************)
AdditionsPass ==
    [][UNCHANGED base /\ Extends(target', target, base)
          => compare_specs(base, target').changes \subseteq compare_specs(base, target).changes]_vars

-----------------------------------------------------------------------------
(***************************************************************************)
(* diff.rs: "Check for new required parameters or parameters made          *)
(* required".  Both maps are keyed by the name alone, so of two inline      *)
(* parameters that share one only the last is looked at.                   *)
(***************************************************************************)
RequiredParametersReported ==
    config = DefaultConfig /\ report # NoReport =>
        \A o \in base.ops \cap target.ops : \A x \in Range(target.params[o]) :
            /\ x.required /\ x.inline
            /\ \A y \in Range(base.params[o]) : y.name = x.name /\ y.kind = x.kind => ~y.required
            => Change("new_required_field", o, x.name) \in report.changes
=============================================================================
