--------------------------- MODULE WorkflowExecution ---------------------------
(***************************************************************************)
(* One workflow definition from the moment it is proposed to the end of an  *)
(* execution: validate_graph and topological_order                         *)
(* (backend/app/modules/workflows/domain/validation.py) and the steps of    *)
(* WorkflowEngine.execute (application/engine.py).                          *)
(*                                                                         *)
(* The graph is checked twice by the same code: when the version is created *)
(* and again when it is executed.  Nothing fixes the order in which a        *)
(* definition lists its steps and dependencies, so the search visits them   *)
(* in any order.  Who may review and publish the version in between is      *)
(* WorkflowLifecycle's concern.                                             *)
(***************************************************************************)
EXTENDS Naturals, Sequences

CONSTANT Keys      \* step keys; their order as strings is the order of numbers

ASSUME KeysAssumption == Keys \subseteq Nat

VARIABLES
    graph,      \* the definition: its steps, what each depends on, and whether
                \* its keys are distinct strings and its types supported
    stage,      \* the operation that looks at it: create_version or execute
    pc,         \* where that operation is
    path,       \* the keys being visited, outermost first
    visited,    \* the keys whose visit has returned
    ordered,    \* topological_order's result so far
    round,      \* what is left to place of the current round of ready keys
    handled,    \* the keys whose step type has a handler in this engine
    records,    \* WorkflowExecutionStep rows, in the order they were added
    context,    \* the keys whose result the steps to come are given
    status      \* of the WorkflowExecution row

search == <<path, visited>>
order  == <<ordered, round>>
run    == <<handled, records, context, status>>
vars   == <<graph, stage, pc, search, order, run>>

Graphs == UNION {[keys : {K}, dependsOn : [K -> SUBSET Keys], wellFormed : BOOLEAN] :
                    K \in (SUBSET Keys) \ {{}}}

StepStatuses == {"running", "succeeded"}
Records == [key : graph.keys, status : StepStatuses, input : SUBSET graph.keys]

DependsOn(k) == graph.dependsOn[k]
InSequence(s) == {s[i] : i \in 1 .. Len(s)}
Remaining == graph.keys \ InSequence(ordered)
Top(s) == s[Len(s)]
Pop(s) == SubSeq(s, 1, Len(s) - 1)

Init ==
    /\ graph \in Graphs
    /\ stage = "create"
    /\ pc = "submitted"
    /\ path = <<>> /\ visited = {}
    /\ ordered = <<>> /\ round = {}
    /\ handled = {} /\ records = <<>> /\ context = {} /\ status = "none"

-------------------------------------------------------------------------------
(* validate_graph *)

\* Keys, types, unknown dependencies and steps that depend on themselves.
StepsAreLegal ==
    /\ graph.wellFormed
    /\ \A k \in graph.keys : DependsOn(k) \subseteq graph.keys \ {k}

CheckSteps ==
    /\ pc = "submitted"
    /\ pc' = IF StepsAreLegal THEN "visiting" ELSE "refused"
    /\ UNCHANGED <<graph, stage, search, order, run>>

\* The loop over all keys; one that is visited already returns at once.
VisitNext(k) ==
    /\ pc = "visiting" /\ path = <<>>
    /\ k \in graph.keys \ visited
    /\ path' = <<k>>
    /\ UNCHANGED <<graph, stage, pc, visited, order, run>>

\* The loop over the dependencies of the innermost key.
VisitDependency(d) ==
    /\ pc = "visiting" /\ path # <<>>
    /\ d \in DependsOn(Top(path)) \ visited
    /\ IF d \in InSequence(path)
       THEN pc' = "refused" /\ UNCHANGED path
       ELSE path' = Append(path, d) /\ UNCHANGED pc
    /\ UNCHANGED <<graph, stage, visited, order, run>>

\* Mutant: the visit returns from inside the loop over the dependencies.
ReturnEarly ==
    /\ pc = "visiting" /\ path # <<>>
    /\ visited' = visited \cup {Top(path)}
    /\ path' = Pop(path)
    /\ UNCHANGED <<graph, stage, pc, order, run>>

\* Mutant: the visit forgets to mark its key.
ReturnUnmarked ==
    /\ pc = "visiting" /\ path # <<>>
    /\ DependsOn(Top(path)) \subseteq visited
    /\ path' = Pop(path)
    /\ UNCHANGED <<graph, stage, pc, visited, order, run>>

\* All dependencies of the innermost key have been visited.
Return ==
    /\ pc = "visiting" /\ path # <<>>
    /\ DependsOn(Top(path)) \subseteq visited
    /\ visited' = visited \cup {Top(path)}
    /\ path' = Pop(path)
    /\ UNCHANGED <<graph, stage, pc, order, run>>

\* No cycle: create_version stores the version, execute goes on to order its steps.
Accept ==
    /\ pc = "visiting" /\ path = <<>>
    /\ visited = graph.keys
    /\ pc' = IF stage = "create" THEN "stored" ELSE "ordering"
    /\ UNCHANGED <<graph, stage, search, order, run>>

-------------------------------------------------------------------------------
(* topological_order *)

\* execute is called on the published version, by an engine with some handlers.
Execute(h) ==
    /\ pc = "stored"
    /\ stage' = "execute" /\ pc' = "submitted"
    /\ visited' = {}
    /\ handled' = h
    /\ UNCHANGED <<graph, path, order, records, context, status>>

\* The keys whose dependencies are all ordered; none means the graph has no order.
StartRound ==
    LET ready == {k \in Remaining : DependsOn(k) \subseteq InSequence(ordered)} IN
    /\ pc = "ordering" /\ round = {} /\ Remaining # {}
    /\ round' = ready
    /\ pc' = IF ready = {} THEN "refused" ELSE pc
    /\ UNCHANGED <<graph, stage, search, ordered, run>>

\* Mutant: for key in ready, without sorted.
PlaceUnsorted(k) ==
    /\ pc = "ordering" /\ k \in round
    /\ ordered' = Append(ordered, k)
    /\ round' = round \ {k}
    /\ UNCHANGED <<graph, stage, pc, search, run>>

\* The keys of a round are placed in their sorted order.
Place(k) ==
    /\ pc = "ordering" /\ k \in round
    /\ \A j \in round : k <= j
    /\ ordered' = Append(ordered, k)
    /\ round' = round \ {k}
    /\ UNCHANGED <<graph, stage, pc, search, run>>

\* Everything is ordered: the execution row is added.
StartRun ==
    /\ pc = "ordering" /\ round = {} /\ Remaining = {}
    /\ pc' = "running" /\ status' = "running"
    /\ UNCHANGED <<graph, stage, search, order, handled, records, context>>

-------------------------------------------------------------------------------
(* The steps of an execution *)

InStep == records # <<>> /\ Top(records).status = "running"
AtStep == pc = "running" /\ ~InStep /\ Len(records) < Len(ordered)
NextKey == ordered[Len(records) + 1]
Succeeded(r) == [r EXCEPT !.status = "succeeded"]

\* The record is flushed with a copy of the context, then the handler is awaited.
StartStep ==
    /\ AtStep /\ NextKey \in handled
    /\ records' = Append(records, [key |-> NextKey, status |-> "running", input |-> context])
    /\ UNCHANGED <<graph, stage, pc, search, order, handled, context, status>>

\* "No registered handler": the execution fails before the step has a record.
StepUnhandled ==
    /\ AtStep /\ NextKey \notin handled
    /\ pc' = "ended" /\ status' = "failed"
    /\ UNCHANGED <<graph, stage, search, order, handled, records, context>>

\* Mutant: the result is kept in the record but not in the context.
StepSucceedsUnseen ==
    /\ pc = "running" /\ InStep
    /\ records' = [records EXCEPT ![Len(records)] = Succeeded(@)]
    /\ UNCHANGED <<graph, stage, pc, search, order, handled, context, status>>

StepSucceeds ==
    /\ pc = "running" /\ InStep
    /\ context' = context \cup {Top(records).key}
    /\ records' = [records EXCEPT ![Len(records)] = Succeeded(@)]
    /\ UNCHANGED <<graph, stage, pc, search, order, handled, status>>

\* Mutant: SUCCEEDED is set on the way out, whatever happened.
StepRaisesUnnoticed ==
    /\ pc = "running" /\ InStep
    /\ pc' = "ended" /\ status' = "succeeded"
    /\ UNCHANGED <<graph, stage, search, order, handled, records, context>>

\* The handler raises: the execution fails, the record stays as it is.
StepRaises ==
    /\ pc = "running" /\ InStep
    /\ pc' = "ended" /\ status' = "failed"
    /\ UNCHANGED <<graph, stage, search, order, handled, records, context>>

FinishRun ==
    /\ pc = "running" /\ ~InStep /\ Len(records) = Len(ordered)
    /\ pc' = "ended" /\ status' = "succeeded"
    /\ UNCHANGED <<graph, stage, search, order, handled, records, context>>

\* The handler of POST /execute commits the execution with all its records.
Commit ==
    /\ pc = "ended"
    /\ pc' = "committed"
    /\ UNCHANGED <<graph, stage, search, order, run>>

\* The one transaction of the execution is lost with everything in it: the client
\* leaves, the process dies, the commit fails, or a statement fails within a step
\* (it is caught like a handler's exception, but the commit after it fails too).
Lose ==
    /\ pc \in {"running", "ended"}
    /\ pc' = "lost"
    /\ records' = <<>> /\ context' = {} /\ status' = "none"
    /\ UNCHANGED <<graph, stage, search, order, handled>>

Work ==
    \/ CheckSteps \/ Return \/ Accept
    \/ \E k \in Keys : VisitNext(k) \/ VisitDependency(k) \/ Place(k)
    \/ StartRound \/ StartRun
    \/ StartStep \/ StepUnhandled \/ StepSucceeds \/ StepRaises \/ FinishRun
    \/ Commit

Next ==
    \/ Work
    \/ \E h \in SUBSET graph.keys : Execute(h)
    \/ Lose

Spec == Init /\ [][Next]_vars

\* A request that has begun runs to its end; handlers of steps return.
FairSpec == Spec /\ WF_vars(Work)

-------------------------------------------------------------------------------
PCs == {"submitted", "visiting", "refused", "stored", "ordering", "running",
        "ended", "committed", "lost"}

\* Every variable holds a value of its type.
TypeOK ==
    /\ graph \in Graphs
    /\ stage \in {"create", "execute"}
    /\ pc \in PCs
    /\ path \in Seq(graph.keys) /\ visited \subseteq graph.keys
    /\ ordered \in Seq(graph.keys) /\ round \subseteq graph.keys
    /\ handled \subseteq graph.keys
    /\ records \in Seq(Records)
    /\ context \subseteq graph.keys
    /\ status \in {"none", "running", "succeeded", "failed"}

\* What validate_graph is for, said without a search: there is no set of steps each
\* of which waits for another one of the set.
Acyclic ==
    \A S \in SUBSET graph.keys :
        S # {} => \E k \in S : DependsOn(k) \cap S = {}

Valid == StepsAreLegal /\ Acyclic

\* validate_graph and topological_order (validation.py) accept exactly the graphs that
\* can be executed, in whatever order a definition lists its steps: what gets past the
\* search is valid, what is refused is not, and a version that was stored is never
\* refused when it is executed ("cannot be ordered" is unreachable).
VerdictIsRight ==
    /\ pc \in PCs \ {"submitted", "visiting", "refused"} => Valid
    /\ stage = "execute" => Valid
    /\ pc = "refused" => ~Valid

\* The number of steps on the longest chain of dependencies of each key.
Depth[k \in graph.keys] ==
    CHOOSE n \in {0} \cup {Depth[d] + 1 : d \in DependsOn(k)} :
        \A d \in DependsOn(k) : Depth[d] < n

\* The order in which execute runs the steps depends on the graph alone, so that results
\* are reproducible (ARCHITECTURE.md:251): every step once, by depth and then by key,
\* which puts each one after all of its dependencies.
OrderIsReproducible ==
    pc \in {"running", "ended", "committed"} =>
        /\ InSequence(ordered) = graph.keys
        /\ \A i, j \in 1 .. Len(ordered) : i < j =>
              \/ Depth[ordered[i]] < Depth[ordered[j]]
              \/ Depth[ordered[i]] = Depth[ordered[j]] /\ ordered[i] < ordered[j]

\* A step is given the results of all steps it depends on, and of no step but those
\* that have succeeded before it.
StepsSeeTheirInputs ==
    \A i \in 1 .. Len(records) :
        LET r == records[i] IN
        /\ DependsOn(r.key) \subseteq r.input
        /\ r.input = {records[j].key : j \in {n \in 1 .. i - 1 : records[n].status = "succeeded"}}

\* The committed execution tells what its steps did: it succeeded exactly if every step
\* has a record and every record succeeded, and nothing was started after a failure.
OutcomeIsExplained ==
    /\ Len(records) <= Len(ordered)
    /\ \A i \in 1 .. Len(records) :
          /\ records[i].key = ordered[i]
          /\ i < Len(records) => records[i].status = "succeeded"
    /\ pc = "committed" =>
          /\ status \in {"succeeded", "failed"}
          /\ status = "succeeded" <=> Len(records) = Len(ordered) /\ ~InStep

\* Every validation gives a verdict and every execution ends, or is lost.
EveryCallEnds ==
    pc = "submitted" ~> pc \in {"refused", "stored", "committed", "lost"}
===============================================================================
