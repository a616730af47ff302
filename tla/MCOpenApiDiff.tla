--------------------------- MODULE MCOpenApiDiff ----------------------------
(***************************************************************************)
(* Instances of OpenApiDiff for TLC: the first releases and the            *)
(* configurations.                                                         *)
(***************************************************************************)
EXTENDS OpenApiDiff

\* Every path and operation there, without parameters, responses or schemas.
Bare ==
    [paths |-> [p \in Paths |-> "item"], ops |-> Ops,
     params |-> [o \in Ops |-> <<>>], responses |-> {},
     nodes |-> [k \in Places \X Locations |-> Absent]]

\* Every operation takes every name once, inline in one location, and gives every code.
Taking(demanded) ==
    LET k == CHOOSE x \in Kinds : TRUE
        taken == {[name |-> n, kind |-> k, required |-> demanded, inline |-> TRUE] : n \in Names}
    IN  [Bare EXCEPT !.params = [o \in Ops |-> SetToSeq(taken)],
                     !.responses = Ops \X Codes]

Full      == Taking(FALSE)
Demanding == Taking(TRUE)

\* An object with a string property in every body.
Nested ==
    [Full EXCEPT !.nodes = [k \in Places \X Locations |->
        CASE k[2] = <<>> -> [type |-> "object", enum |-> {}, required |-> {}]
          [] Len(k[2]) = 1 -> [type |-> "string", enum |-> Values, required |-> {}]
          [] OTHER -> Absent]]

Root == {<<>>}
RootAndProperties == {<<>>} \cup {<<f>> : f \in Fields}

FirstReleases == {Bare, Nested, Demanding}
FirstSurfaces == {Bare, Full}

OnlyDefault == {DefaultConfig}

\* The default, each rule ignored, and both permissions given.
AllConfigs ==
    {DefaultConfig,
     [DefaultConfig EXCEPT !.allow_type_coercion = TRUE, !.allow_breaking_enums = TRUE]}
    \cup {[DefaultConfig EXCEPT !.ignore_rules = {r}] : r \in Rules}
=============================================================================
