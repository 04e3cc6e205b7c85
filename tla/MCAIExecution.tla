----------------------------- MODULE MCAIExecution -----------------------------
\* Instances of AIExecution for TLC.
EXTENDS AIExecution, TLC

CONSTANTS p1, p2, f1, a1, m1, m2, prompt, vendor, other, badId

AgentA  == [workflow |-> [agent |-> "A", model |-> "B"]]
ModelA  == [model |-> "A"]
BadlyId == [workflow |-> [agent |-> "A", model |-> "B", id |-> badId]]
Configs == {AgentA, ModelA, BadlyId}

\* Everything a feature needs.
Registries ==
    {p1 :> New(NoProduct, "A", "none") @@ p2 :> New(NoProduct, "B", "none")
        @@ f1 :> New(p1, "A", AgentA) @@ a1 :> New(p1, "A", prompt)
        @@ m1 :> New(p1, "B", vendor) @@ m2 :> NoRow}

\* The wiring in effect names another model than the workflow does, which comes first.
WiredBefore == [enabled : {TRUE}, content : {ModelA}]

EditorsAreAlike == Permutations(Editors)
================================================================================
