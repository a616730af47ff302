--------------------------- MODULE MCDiffPipeline ---------------------------
(***************************************************************************)
(* Instances of DiffPipeline for TLC.                                      *)
(***************************************************************************)
EXTENDS DiffPipeline

CONSTANT p1   \* the one project of the instances

Spec1(project, verdict) == [kind |-> "spec", project |-> project, verdict |-> verdict]
Code1(verdict) == [kind |-> "code", project |-> CodeProject, verdict |-> verdict]

\* One of each: every branch of the handlers and of the workers.
MixedInputs ==
    {Spec1(p1, "breaking"), Spec1("unknown", "clean"), Spec1(p1, "rejected"),
     Code1("clean")}

OneProject == {p1}

\* The one-shot binary beside an engine of another host, and the binary of the
\* repository on the host of the engine, where both want one port.
TwoDeployments == {[cli |-> "batch", sameHost |-> FALSE], [cli |-> "server", sameHost |-> TRUE]}
=============================================================================
