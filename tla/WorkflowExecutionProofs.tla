------------------------ MODULE WorkflowExecutionProofs ------------------------
(***************************************************************************)
(* Proofs about WorkflowExecution, for every graph over any set of keys.    *)
(*                                                                         *)
(* The search is sound because the visited keys are closed under            *)
(* dependencies and hold no set of steps that wait for each other; it is     *)
(* complete because the path is a chain of dependencies, so meeting a key   *)
(* of the path closes a cycle.  The order is possible because the keys that *)
(* are never ready would be such a set.                                     *)
(* The order is by depth because the rounds rank the keys, and these ranks   *)
(* solve the equation that defines Depth, which has no other solution.      *)
(* A call is short because Left, the work that lies ahead, falls each step. *)
(***************************************************************************)
EXTENDS WorkflowExecution, FiniteSetTheorems, WellFoundedInduction, TLAPS

\* A set of steps each of which waits for another one of the set.
Trap(S) == S # {} /\ \A k \in S : DependsOn(k) \cap S # {}

\* What the visited keys and the path of validate_graph's search are.
SearchInv ==
    /\ \A k \in visited : DependsOn(k) \subseteq visited
    /\ \A S \in SUBSET visited : ~Trap(S)
    /\ \A i \in 1 .. Len(path) - 1 : path[i + 1] \in DependsOn(path[i])
    /\ pc \notin {"submitted", "refused"} => StepsAreLegal

\* What has been placed comes after its dependencies; what is ready may come next.
OrderInv ==
    /\ \A i \in 1 .. Len(ordered) :
          DependsOn(ordered[i]) \subseteq {ordered[j] : j \in 1 .. i - 1}
    /\ \A k \in round : DependsOn(k) \subseteq InSequence(ordered)

\* The records follow the order, and all but the last one have succeeded.
RunInv ==
    /\ Len(records) <= Len(ordered)
    /\ \A i \in 1 .. Len(records) :
          /\ records[i].key = ordered[i]
          /\ i < Len(records) => records[i].status = "succeeded"
          /\ records[i].input = {ordered[j] : j \in 1 .. i - 1}
    /\ context = {ordered[j] : j \in {n \in 1 .. Len(records) : records[n].status = "succeeded"}}
    /\ pc \in {"ended", "committed"} =>
          /\ status \in {"succeeded", "failed"}
          /\ status = "succeeded" <=> Len(records) = Len(ordered) /\ ~InStep

\* f ranks the keys placed so far, which fill m levels: a key that depends on others is one
\* above the highest of them, the order goes by rank and key, the round at hand is the
\* last level, and a key that is left out had a dependency missing when it was opened.
Ranks(f, m) ==
    LET placed == InSequence(ordered) \cup round IN
    /\ \A k \in placed :
          /\ f[k] < m
          /\ \A d \in DependsOn(k) : f[d] < f[k]
          /\ f[k] # 0 => \E d \in DependsOn(k) : f[k] = f[d] + 1
    /\ \A i, j \in 1 .. Len(ordered) : i < j =>
          \/ f[ordered[i]] < f[ordered[j]]
          \/ f[ordered[i]] = f[ordered[j]] /\ ordered[i] < ordered[j]
    /\ \A k \in round :
          /\ f[k] + 1 = m
          /\ \A j \in InSequence(ordered) : f[j] + 1 = m => j < k
    /\ \A k \in Remaining \ round :
          m # 0 => \E d \in DependsOn(k) : d \notin InSequence(ordered) \/ f[d] + 1 = m

\* What has been placed has ranks, and an execution starts when all keys are placed.
RankInv ==
    /\ \E f \in [graph.keys -> Nat], m \in Nat : Ranks(f, m)
    /\ pc \in {"running", "ended", "committed"} => round = {} /\ Remaining = {}

IInv == TypeOK /\ SearchInv /\ VerdictIsRight /\ OrderInv /\ RankInv /\ RunInv

-------------------------------------------------------------------------------
\* The parts of a definition have their types.
LEMMA GraphParts ==
    ASSUME graph \in Graphs
    PROVE  /\ graph.keys \subseteq Keys
           /\ graph.dependsOn \in [graph.keys -> SUBSET Keys]
           /\ graph.wellFormed \in BOOLEAN
BY DEF Graphs

\* Dependencies of a legal definition are keys of it.
LEMMA LegalDependencies ==
    ASSUME StepsAreLegal, NEW k \in graph.keys
    PROVE  DependsOn(k) \subseteq graph.keys /\ k \notin DependsOn(k)
BY DEF StepsAreLegal

\* The last element of a sequence, and the rest.
LEMMA LastAndRest ==
    ASSUME NEW S, NEW s \in Seq(S), s # <<>>
    PROVE  /\ Len(s) \in Nat \ {0}
           /\ Top(s) \in S
           /\ Pop(s) \in Seq(S)
           /\ Len(Pop(s)) = Len(s) - 1
           /\ \A i \in 1 .. Len(s) - 1 : Pop(s)[i] = s[i]
<1>1. Len(s) \in Nat \ {0} /\ Top(s) \in S
  BY DEF Top
<1>2. Pop(s) = [i \in 1 .. Len(s) - 1 |-> s[i]]
  BY <1>1 DEF Pop
<1>3. Pop(s) \in Seq(S) /\ Len(Pop(s)) = Len(s) - 1
  BY <1>1, <1>2
<1>. QED BY <1>1, <1>2, <1>3

\* A sequence of one element, and one that is made longer.
LEMMA Longer ==
    ASSUME NEW S, NEW s \in Seq(S), NEW e \in S
    PROVE  /\ <<e>> \in Seq(S) /\ Len(<<e>>) = 1 /\ <<e>>[1] = e
           /\ Append(s, e) \in Seq(S)
           /\ Len(Append(s, e)) = Len(s) + 1
           /\ Append(s, e)[Len(s) + 1] = e
           /\ \A i \in 1 .. Len(s) : Append(s, e)[i] = s[i]
OBVIOUS

\* Acyclic says that the keys of the graph contain no trap.
LEMMA AcyclicMeansNoTrap ==
    Acyclic <=> \A S \in SUBSET graph.keys : ~Trap(S)
BY DEF Acyclic, Trap

\* A record that is marked succeeded changes in nothing else.
LEMMA MarkedRecord ==
    ASSUME NEW r \in Records
    PROVE  /\ Succeeded(r) \in Records
           /\ Succeeded(r).key = r.key
           /\ Succeeded(r).input = r.input
           /\ Succeeded(r).status = "succeeded"
BY DEF Succeeded, Records, StepStatuses

\* What StepSucceeds makes of the records.
LEMMA RecordsAfterSuccess ==
    ASSUME records \in Seq(Records), StepSucceeds
    PROVE  /\ Len(records) \in Nat \ {0} /\ Len(records') = Len(records)
           /\ records' \in Seq(Records)
           /\ records[Len(records)] \in Records
           /\ \A i \in 1 .. Len(records) :
                 /\ records'[i].key = records[i].key
                 /\ records'[i].input = records[i].input
                 /\ i # Len(records) => records'[i].status = records[i].status
                 /\ i = Len(records) => records'[i].status = "succeeded"
<1> DEFINE r == records[Len(records)]
           m == Succeeded(r)
<1>1. Len(records) \in Nat \ {0} /\ r \in Records
  BY DEF StepSucceeds, InStep
<1>2. m \in Records /\ m.key = r.key /\ m.input = r.input /\ m.status = "succeeded"
  BY <1>1, MarkedRecord
<1>3. records' = [records EXCEPT ![Len(records)] = m]
  BY DEF StepSucceeds
<1>4. /\ Len(records') = Len(records)
      /\ records' \in Seq(Records)
      /\ \A i \in 1 .. Len(records) :
            records'[i] = IF i = Len(records) THEN m ELSE records[i]
  <2> HIDE DEF m
  <2>. QED BY <1>1, <1>2, <1>3
<1>. QED BY <1>1, <1>2, <1>4

-------------------------------------------------------------------------------
\* Every step keeps the types.
LEMMA TypeStep ==
    ASSUME TypeOK, SearchInv, [Next]_vars
    PROVE  TypeOK'
<1>. USE DEF TypeOK, search, order, run
<1>0. graph' = graph /\ Records' = Records
  <2>1. graph' = graph
    BY DEF Next, Work, vars, CheckSteps, VisitNext, VisitDependency, Return, Accept, Execute,
           StartRound, Place, StartRun, StartStep, StepUnhandled, StepSucceeds, StepRaises,
           FinishRun, Commit, Lose
  <2>. QED BY <2>1 DEF Records
<1>1. CASE CheckSteps
  BY <1>0, <1>1 DEF CheckSteps, PCs, StepsAreLegal
<1>2. CASE \E k \in Keys : VisitNext(k)
  <2>1. PICK k \in Keys : VisitNext(k)
    BY <1>2
  <2>2. path' \in Seq(graph.keys)
    <3>1. k \in graph.keys /\ path' = <<k>>
      BY <2>1 DEF VisitNext
    <3>. QED BY <3>1, Longer
  <2>. QED BY <1>0, <2>1, <2>2 DEF VisitNext
<1>3. CASE \E k \in Keys : VisitDependency(k)
  <2>1. PICK d \in Keys : VisitDependency(d)
    BY <1>3
  <2>2. pc' \in PCs
    BY <2>1 DEF VisitDependency, PCs
  <2>3. path' \in Seq(graph.keys)
    <3>1. Top(path) \in graph.keys
      BY <2>1, LastAndRest DEF VisitDependency
    <3>2. d \in graph.keys
      BY <2>1, <3>1, LegalDependencies DEF VisitDependency, SearchInv
    <3>3. path' \in {path, Append(path, d)}
      BY <2>1 DEF VisitDependency
    <3>4. Append(path, d) \in Seq(graph.keys)
      BY <3>2, Longer
    <3>. QED BY <3>3, <3>4
  <2>. QED BY <1>0, <2>1, <2>2, <2>3 DEF VisitDependency
<1>4. CASE Return
  BY <1>0, <1>4, LastAndRest DEF Return
<1>5. CASE Accept
  BY <1>0, <1>5 DEF Accept, PCs
<1>6. CASE \E h \in SUBSET graph.keys : Execute(h)
  BY <1>0, <1>6 DEF Execute, PCs
<1>7. CASE StartRound
  BY <1>0, <1>7 DEF StartRound, PCs, Remaining
<1>8. CASE \E k \in Keys : Place(k)
  BY <1>0, <1>8 DEF Place
<1>9. CASE StartRun
  BY <1>0, <1>9 DEF StartRun, PCs
<1>10. CASE StartStep
  <2>1. NextKey \in graph.keys
    BY <1>0, <1>10 DEF StartStep
  <2>2. [key |-> NextKey, status |-> "running", input |-> context] \in Records
    BY <2>1 DEF Records, StepStatuses
  <2>. QED BY <1>0, <1>10, <2>2 DEF StartStep
<1>11. CASE StepUnhandled
  BY <1>0, <1>11 DEF StepUnhandled, PCs
<1>12. CASE StepSucceeds
  <2>1. records' \in Seq(Records) /\ records[Len(records)] \in Records
    BY <1>0, <1>12, RecordsAfterSuccess
  <2>2. Top(records).key \in graph.keys
    BY <2>1 DEF Records, Top
  <2>. QED BY <1>0, <1>12, <2>1, <2>2 DEF StepSucceeds, Records
<1>13. CASE StepRaises
  BY <1>0, <1>13 DEF StepRaises, PCs
<1>14. CASE FinishRun
  BY <1>0, <1>14 DEF FinishRun, PCs
<1>15. CASE Commit
  BY <1>0, <1>15 DEF Commit, PCs
<1>16. CASE Lose
  BY <1>0, <1>16 DEF Lose, PCs
<1>17. CASE UNCHANGED vars
  BY <1>0, <1>17 DEF vars
<1>. QED BY <1>1, <1>2, <1>3, <1>4, <1>5, <1>6, <1>7, <1>8, <1>9, <1>10, <1>11, <1>12,
            <1>13, <1>14, <1>15, <1>16, <1>17 DEF Next, Work

-------------------------------------------------------------------------------
\* A key of the path that its innermost key depends on closes a cycle.
LEMMA MeetingThePath ==
    ASSUME TypeOK, SearchInv, path # <<>>,
           NEW d \in DependsOn(Top(path)), d \in InSequence(path)
    PROVE  ~Acyclic
<1>1. Len(path) \in Nat \ {0} /\ path \in Seq(graph.keys)
  BY LastAndRest DEF TypeOK
<1>2. PICK j \in 1 .. Len(path) : path[j] = d
  BY DEF InSequence
<1> DEFINE S == {path[i] : i \in j .. Len(path)}
<1>3. S \in SUBSET graph.keys /\ d \in S
  BY <1>1, <1>2
<1>4. ASSUME NEW k \in S
      PROVE  DependsOn(k) \cap S # {}
  <2>1. PICK i \in j .. Len(path) : path[i] = k
    OBVIOUS
  <2>2. CASE i = Len(path)
    BY <1>3, <2>1, <2>2 DEF Top
  <2>3. CASE i # Len(path)
    <3>1. i \in 1 .. Len(path) - 1 /\ i + 1 \in j .. Len(path)
      BY <1>1, <1>2, <2>3
    <3>2. path[i + 1] \in DependsOn(k)
      BY <2>1, <3>1 DEF SearchInv
    <3>. QED BY <3>1, <3>2
  <2>. QED BY <2>2, <2>3
<1>. QED BY <1>3, <1>4, AcyclicMeansNoTrap DEF Trap

\* A key whose dependencies have been visited adds no trap.
LEMMA ReturningAddsNoTrap ==
    ASSUME SearchInv, StepsAreLegal, NEW k \in graph.keys, DependsOn(k) \subseteq visited,
           NEW S \in SUBSET (visited \cup {k})
    PROVE  ~Trap(S)
<1>1. CASE S \subseteq visited
  BY <1>1 DEF SearchInv
<1>2. ASSUME ~(S \subseteq visited), Trap(S)
      PROVE  FALSE
  <2> DEFINE T == S \ {k}
  <2>1. k \in S /\ k \notin visited
    BY <1>2
  <2>2. T \in SUBSET visited
    OBVIOUS
  <2>3. T # {}
    BY <1>2, <2>1, LegalDependencies DEF Trap
  <2>4. ASSUME NEW j \in T
        PROVE  DependsOn(j) \cap T # {}
    <3>1. DependsOn(j) \subseteq visited
      BY <2>2 DEF SearchInv
    <3>2. DependsOn(j) \cap S # {}
      BY <1>2 DEF Trap
    <3>. QED BY <2>1, <3>1, <3>2
  <2>. QED BY <2>2, <2>3, <2>4 DEF SearchInv, Trap
<1>. QED BY <1>1, <1>2

\* Keys of a legal graph that are never ready wait for each other.
LEMMA NothingReady ==
    ASSUME StepsAreLegal, Remaining # {},
           \A k \in Remaining : ~(DependsOn(k) \subseteq InSequence(ordered))
    PROVE  ~Acyclic
<1>1. Remaining \in SUBSET graph.keys
  BY DEF Remaining
<1>2. ASSUME NEW k \in Remaining
      PROVE  DependsOn(k) \cap Remaining # {}
  BY <1>2, LegalDependencies DEF Remaining
<1>. QED BY <1>1, <1>2, AcyclicMeansNoTrap DEF Trap

\* Every step keeps what the search knows.
LEMMA SearchStep ==
    ASSUME TypeOK, SearchInv, VerdictIsRight, [Next]_vars
    PROVE  SearchInv'
<1> USE DEF search, order, run
<1>0. graph' = graph
  BY DEF Next, Work, vars, CheckSteps, VisitNext, VisitDependency, Return, Accept, Execute,
         StartRound, Place, StartRun, StartStep, StepUnhandled, StepSucceeds, StepRaises,
         FinishRun, Commit, Lose
<1>a. /\ \A k : DependsOn(k)' = DependsOn(k)
      /\ \A S : Trap(S)' <=> Trap(S)
      /\ StepsAreLegal' <=> StepsAreLegal
  BY <1>0 DEF DependsOn, Trap, StepsAreLegal
<1>1. CASE CheckSteps
  BY <1>1, <1>a DEF SearchInv, CheckSteps
<1>2. CASE \E k \in Keys : VisitNext(k)
  <2>1. PICK k \in Keys : VisitNext(k)
    BY <1>2
  <2>2. Len(path') = 1
    BY <2>1 DEF VisitNext
  <2>. QED BY <1>a, <2>1, <2>2 DEF SearchInv, VisitNext
<1>3. CASE \E k \in Keys : VisitDependency(k)
  <2>1. PICK d \in Keys : VisitDependency(d)
    BY <1>3
  <2>2. visited' = visited /\ StepsAreLegal
    BY <2>1 DEF VisitDependency, SearchInv
  <2>3. ASSUME NEW i \in 1 .. Len(path') - 1
        PROVE  path'[i + 1] \in DependsOn(path'[i])
    <3>1. path' \in {path, Append(path, d)} /\ d \in DependsOn(Top(path)) /\ path # <<>>
      BY <2>1 DEF VisitDependency
    <3>2. Top(path) \in graph.keys /\ Len(path) \in Nat \ {0}
      BY <3>1, LastAndRest DEF TypeOK
    <3>3. d \in graph.keys
      BY <2>2, <3>1, <3>2, LegalDependencies
    <3>4. CASE path' = path
      BY <3>4 DEF SearchInv
    <3>5. CASE path' = Append(path, d)
      <4>1. /\ Len(path') = Len(path) + 1
            /\ path'[Len(path) + 1] = d
            /\ \A n \in 1 .. Len(path) : path'[n] = path[n]
        BY <3>3, <3>5, Longer DEF TypeOK
      <4>2. i \in 1 .. Len(path) /\ path'[i] = path[i]
        BY <3>2, <4>1
      <4>3. CASE i = Len(path)
        BY <3>1, <4>1, <4>2, <4>3 DEF Top
      <4>4. CASE i # Len(path)
        <5>1. i \in 1 .. Len(path) - 1 /\ i + 1 \in 1 .. Len(path)
          BY <3>2, <4>2, <4>4
        <5>. QED BY <4>1, <4>2, <5>1 DEF SearchInv
      <4>. QED BY <4>3, <4>4
    <3>. QED BY <3>1, <3>4, <3>5
  <2>. QED BY <1>a, <2>2, <2>3 DEF SearchInv
<1>4. CASE Return
  <2>1. /\ path # <<>> /\ path' = Pop(path) /\ visited' = visited \cup {Top(path)}
        /\ DependsOn(Top(path)) \subseteq visited
        /\ StepsAreLegal
    BY <1>4 DEF Return, SearchInv
  <2>2. /\ Top(path) \in graph.keys
        /\ Len(path) \in Nat \ {0} /\ Len(path') = Len(path) - 1
        /\ \A i \in 1 .. Len(path) - 1 : path'[i] = path[i]
    BY <2>1, LastAndRest DEF TypeOK
  <2>3. \A k \in visited' : DependsOn(k) \subseteq visited'
    BY <2>1 DEF SearchInv
  <2>4. \A S \in SUBSET visited' : ~Trap(S)
    BY <2>1, <2>2, ReturningAddsNoTrap
  <2>5. ASSUME NEW i \in 1 .. Len(path') - 1
        PROVE  path'[i + 1] \in DependsOn(path'[i])
    <3>1. i \in 1 .. Len(path) - 1 /\ i + 1 \in 1 .. Len(path) - 1
      BY <2>2
    <3>. QED BY <2>2, <3>1 DEF SearchInv
  <2>. QED BY <1>a, <2>1, <2>3, <2>4, <2>5 DEF SearchInv
<1>5. CASE \E h \in SUBSET graph.keys : Execute(h)
  <2>1. visited' = {} /\ path' = path /\ pc' = "submitted"
    BY <1>5 DEF Execute
  <2>2. \A S \in SUBSET visited' : ~Trap(S)
    BY <2>1 DEF Trap
  <2>. QED BY <1>a, <2>1, <2>2 DEF SearchInv
<1>6. CASE \/ Accept \/ StartRound \/ (\E k \in Keys : Place(k)) \/ StartRun
           \/ StartStep \/ StepUnhandled \/ StepSucceeds \/ StepRaises \/ FinishRun
           \/ Commit \/ Lose \/ UNCHANGED vars
  <2>1. /\ path' = path /\ visited' = visited
        /\ pc' \notin {"submitted", "refused"} => pc \notin {"submitted", "refused"}
    <3>1. CASE Accept \/ StartRound
      BY <3>1 DEF Accept, StartRound
    <3>2. CASE (\E k \in Keys : Place(k)) \/ StartRun \/ UNCHANGED vars
      BY <3>2 DEF Place, StartRun, vars
    <3>3. CASE StartStep \/ StepUnhandled \/ StepSucceeds \/ StepRaises
      BY <3>3 DEF StartStep, StepUnhandled, StepSucceeds, StepRaises, AtStep
    <3>4. CASE FinishRun \/ Commit \/ Lose
      BY <3>4 DEF FinishRun, Commit, Lose
    <3>. QED BY <1>6, <3>1, <3>2, <3>3, <3>4
  <2>. QED BY <1>a, <2>1 DEF SearchInv
<1>. QED BY <1>1, <1>2, <1>3, <1>4, <1>5, <1>6 DEF Next, Work

\* Every verdict is right, and stays so.
LEMMA VerdictStep ==
    ASSUME TypeOK, SearchInv, VerdictIsRight, [Next]_vars
    PROVE  VerdictIsRight'
<1> USE DEF search, order, run
<1>0. graph' = graph
  BY DEF Next, Work, vars, CheckSteps, VisitNext, VisitDependency, Return, Accept, Execute,
         StartRound, Place, StartRun, StartStep, StepUnhandled, StepSucceeds, StepRaises,
         FinishRun, Commit, Lose
<1>a. Valid' <=> Valid
  BY <1>0 DEF Valid, Acyclic, StepsAreLegal, DependsOn
<1>1. CASE CheckSteps
  <2>1. StepsAreLegal \/ ~Valid
    BY DEF Valid
  <2>. QED BY <1>1, <1>a, <2>1 DEF VerdictIsRight, CheckSteps, PCs
<1>2. CASE \E k \in Keys : VisitDependency(k)
  <2>1. PICK d \in Keys : VisitDependency(d)
    BY <1>2
  <2>2. pc = "visiting" /\ stage' = stage /\ pc' \in {"visiting", "refused"}
    BY <2>1 DEF VisitDependency
  <2>3. pc' = "refused" => ~Valid
    BY <2>1, MeetingThePath DEF VisitDependency, Valid
  <2>. QED BY <1>a, <2>2, <2>3 DEF VerdictIsRight
<1>3. CASE Accept
  <2>1. visited = graph.keys /\ StepsAreLegal
    BY <1>3 DEF Accept, SearchInv
  <2>2. Valid
    BY <2>1, AcyclicMeansNoTrap DEF Valid, SearchInv
  <2>3. pc' # "refused"
    BY <1>3 DEF Accept
  <2>. QED BY <1>a, <2>2, <2>3 DEF VerdictIsRight
<1>4. CASE StartRound
  <2>1. pc = "ordering" /\ stage' = stage
    BY <1>4 DEF StartRound
  <2>2. Valid /\ StepsAreLegal /\ Acyclic
    BY <2>1 DEF VerdictIsRight, Valid, PCs
  <2>3. pc' = pc
    BY <1>4, <2>2, NothingReady DEF StartRound
  <2>. QED BY <1>a, <2>1, <2>2, <2>3 DEF VerdictIsRight
<1>5. CASE \E h \in SUBSET graph.keys : Execute(h)
  BY <1>5, <1>a DEF VerdictIsRight, Execute, PCs
<1>6. CASE \/ Return \/ (\E k \in Keys : VisitNext(k)) \/ (\E k \in Keys : Place(k))
           \/ StartRun \/ StartStep \/ StepUnhandled \/ StepSucceeds \/ StepRaises
           \/ FinishRun \/ Commit \/ Lose \/ UNCHANGED vars
  <2>1. /\ stage' = stage
        /\ \/ pc' = pc
           \/ /\ pc \in {"ordering", "running", "ended"}
              /\ pc' \in {"running", "ended", "committed", "lost"}
    <3>1. CASE Return \/ \E k \in Keys : VisitNext(k)
      BY <3>1 DEF Return, VisitNext
    <3>2. CASE (\E k \in Keys : Place(k)) \/ StartRun \/ UNCHANGED vars
      BY <3>2 DEF Place, StartRun, vars
    <3>3. CASE StartStep \/ StepUnhandled \/ StepSucceeds \/ StepRaises
      BY <3>3 DEF StartStep, StepUnhandled, StepSucceeds, StepRaises, AtStep
    <3>4. CASE FinishRun \/ Commit \/ Lose
      BY <3>4 DEF FinishRun, Commit, Lose
    <3>. QED BY <1>6, <3>1, <3>2, <3>3, <3>4
  <2>. QED BY <1>a, <2>1 DEF VerdictIsRight, PCs
<1>. QED BY <1>1, <1>2, <1>3, <1>4, <1>5, <1>6 DEF Next, Work

-------------------------------------------------------------------------------
\* A placed key comes after its dependencies, because its round was ready.
LEMMA OrderStep ==
    ASSUME TypeOK, OrderInv, [Next]_vars
    PROVE  OrderInv'
<1> USE DEF search, order, run
<1>0. graph' = graph
  BY DEF Next, Work, vars, CheckSteps, VisitNext, VisitDependency, Return, Accept, Execute,
         StartRound, Place, StartRun, StartStep, StepUnhandled, StepSucceeds, StepRaises,
         FinishRun, Commit, Lose
<1>a. \A k : DependsOn(k)' = DependsOn(k)
  BY <1>0 DEF DependsOn
<1>1. CASE StartRound
  <2>1. /\ ordered' = ordered
        /\ round' = {k \in Remaining : DependsOn(k) \subseteq InSequence(ordered)}
    BY <1>1 DEF StartRound
  <2>2. InSequence(ordered)' = InSequence(ordered)
    BY <2>1 DEF InSequence
  <2>. QED BY <1>a, <2>1, <2>2 DEF OrderInv
<1>2. CASE \E k \in Keys : Place(k)
  <2>1. PICK k \in Keys : Place(k)
    BY <1>2
  <2>2. k \in round /\ k \in graph.keys /\ ordered' = Append(ordered, k) /\ round' = round \ {k}
    BY <2>1 DEF Place, TypeOK
  <2>3. /\ Len(ordered) \in Nat /\ Len(ordered') = Len(ordered) + 1
        /\ ordered'[Len(ordered) + 1] = k
        /\ \A i \in 1 .. Len(ordered) : ordered'[i] = ordered[i]
    BY <2>2, Longer DEF TypeOK
  <2>4. \A i \in 1 .. Len(ordered) + 1 :
            {ordered'[j] : j \in 1 .. i - 1} = {ordered[j] : j \in 1 .. i - 1}
    BY <2>3
  <2>5. InSequence(ordered) \subseteq InSequence(ordered')
    BY <2>3 DEF InSequence
  <2>6. ASSUME NEW i \in 1 .. Len(ordered')
        PROVE  DependsOn(ordered'[i]) \subseteq {ordered'[j] : j \in 1 .. i - 1}
    <3>1. CASE i = Len(ordered) + 1
      <4>1. DependsOn(k) \subseteq {ordered[j] : j \in 1 .. Len(ordered)}
        BY <2>2 DEF OrderInv, InSequence
      <4>2. i - 1 = Len(ordered) /\ ordered'[i] = k
        BY <2>3, <3>1
      <4>. QED BY <2>3, <2>4, <4>1, <4>2
    <3>2. CASE i \in 1 .. Len(ordered)
      BY <2>3, <2>4, <3>2 DEF OrderInv
    <3>. QED BY <2>3, <3>1, <3>2
  <2>7. \A j \in round' : DependsOn(j) \subseteq InSequence(ordered')
    BY <2>2, <2>5 DEF OrderInv
  <2>8. InSequence(ordered)' = InSequence(ordered')
    BY DEF InSequence
  <2>. QED BY <1>a, <2>6, <2>7, <2>8 DEF OrderInv
<1>3. CASE UNCHANGED order
  BY <1>3, <1>a DEF OrderInv, InSequence
<1>4. StartRound \/ (\E k \in Keys : Place(k)) \/ UNCHANGED order
  BY DEF Next, Work, vars, CheckSteps, VisitNext, VisitDependency, Return, Accept, Execute,
         StartRun, StartStep, StepUnhandled, StepSucceeds, StepRaises, FinishRun, Commit, Lose
<1>. QED BY <1>1, <1>2, <1>3, <1>4

-------------------------------------------------------------------------------
\* What has been placed is closed under dependencies.
LEMMA PlacedIsClosed ==
    ASSUME TypeOK, OrderInv
    PROVE  /\ InSequence(ordered) \subseteq graph.keys
           /\ \A k \in InSequence(ordered) : DependsOn(k) \subseteq InSequence(ordered)
<1>1. ordered \in Seq(graph.keys) /\ Len(ordered) \in Nat
  BY DEF TypeOK
<1>2. \A i \in 1 .. Len(ordered) : ordered[i] \in graph.keys
  BY <1>1
<1>3. ASSUME NEW i \in 1 .. Len(ordered)
      PROVE  DependsOn(ordered[i]) \subseteq InSequence(ordered)
  <2>1. {ordered[j] : j \in 1 .. i - 1} \subseteq InSequence(ordered)
    BY <1>1 DEF InSequence
  <2>. QED BY <2>1 DEF OrderInv
<1>. QED BY <1>2, <1>3 DEF InSequence

\* Opening a round gives the ready keys the next rank.
LEMMA RankRound ==
    ASSUME TypeOK, OrderInv, RankInv, StartRound
    PROVE  RankInv'
<1> USE DEF order
<1> DEFINE ready == {k \in Remaining : DependsOn(k) \subseteq InSequence(ordered)}
<1>1. PICK f \in [graph.keys -> Nat], m \in Nat : Ranks(f, m)
  BY DEF RankInv
<1>2. /\ ordered' = ordered /\ graph' = graph /\ pc' \in {"ordering", "refused"}
      /\ round = {} /\ round' = ready
  BY DEF StartRound
<1>3. /\ InSequence(ordered)' = InSequence(ordered) /\ Remaining' = Remaining
      /\ \A k : DependsOn(k)' = DependsOn(k)
  BY <1>2 DEF InSequence, Remaining, DependsOn
<1>4. ready \subseteq graph.keys /\ ready \cap InSequence(ordered) = {}
  BY DEF Remaining
<1>5. InSequence(ordered) \subseteq graph.keys
  BY DEF InSequence, TypeOK
<1>6. PICK g \in [graph.keys -> Nat] :
          /\ \A k \in ready : g[k] = m
          /\ \A k \in InSequence(ordered) : g[k] = f[k]
  <2> DEFINE h == [k \in graph.keys |-> IF k \in ready THEN m ELSE f[k]]
  <2>1. h \in [graph.keys -> Nat]
    OBVIOUS
  <2>2. (\A k \in ready : h[k] = m) /\ \A k \in InSequence(ordered) : h[k] = f[k]
    BY <1>4, <1>5
  <2>. QED BY <2>1, <2>2
<1>7. \A k \in InSequence(ordered) : DependsOn(k) \subseteq InSequence(ordered)
  BY PlacedIsClosed
<1>8. \A k \in ready : DependsOn(k) \subseteq InSequence(ordered) /\ k \in Remaining
  OBVIOUS
<1>9. \A k \in InSequence(ordered) :
          /\ f[k] \in Nat /\ f[k] < m
          /\ \A d \in DependsOn(k) : f[d] < f[k]
          /\ f[k] # 0 => \E d \in DependsOn(k) : f[k] = f[d] + 1
  BY <1>1, <1>2, <1>5 DEF Ranks
<1>10. \A k \in ready : m # 0 => \E d \in DependsOn(k) : f[d] + 1 = m
  BY <1>1, <1>2, <1>8 DEF Ranks
<1> HIDE DEF ready
<1>11. ASSUME NEW k \in InSequence(ordered) \cup ready
       PROVE  /\ g[k] < m + 1
              /\ \A d \in DependsOn(k) : g[d] < g[k]
              /\ g[k] # 0 => \E d \in DependsOn(k) : g[k] = g[d] + 1
  <2>1. CASE k \in ready
    <3>1. g[k] = m /\ \A d \in DependsOn(k) : g[d] = f[d] /\ f[d] < m
      BY <1>6, <1>8, <1>9, <2>1
    <3>2. g[k] # 0 => \E d \in DependsOn(k) : g[k] = g[d] + 1
      BY <1>10, <2>1, <3>1
    <3>. QED BY <3>1, <3>2
  <2>2. CASE k \in InSequence(ordered)
    <3>1. g[k] = f[k] /\ \A d \in DependsOn(k) : g[d] = f[d]
      BY <1>6, <1>7, <2>2
    <3>. QED BY <1>9, <2>2, <3>1
  <2>. QED BY <2>1, <2>2
<1>12. ASSUME NEW i \in 1 .. Len(ordered), NEW j \in 1 .. Len(ordered), i < j
       PROVE  \/ g[ordered[i]] < g[ordered[j]]
              \/ g[ordered[i]] = g[ordered[j]] /\ ordered[i] < ordered[j]
  <2>1. g[ordered[i]] = f[ordered[i]] /\ g[ordered[j]] = f[ordered[j]]
    BY <1>6 DEF InSequence
  <2>. QED BY <1>1, <1>12, <2>1 DEF Ranks
<1>13. ASSUME NEW k \in ready
       PROVE  /\ g[k] + 1 = m + 1
              /\ \A j \in InSequence(ordered) : g[j] + 1 = m + 1 => j < k
  BY <1>6, <1>9
<1>14. ASSUME NEW k \in Remaining \ ready
       PROVE  \E d \in DependsOn(k) : d \notin InSequence(ordered)
  BY DEF ready
<1>15. Ranks(g, m + 1)'
  BY <1>2, <1>3, <1>11, <1>12, <1>13, <1>14 DEF Ranks
<1>. QED BY <1>2, <1>15 DEF RankInv

\* Placing the least key of a round keeps the order by rank and key.
LEMMA RankPlace ==
    ASSUME TypeOK, OrderInv, RankInv, NEW k \in Keys, Place(k)
    PROVE  RankInv'
<1> USE DEF order
<1>1. PICK f \in [graph.keys -> Nat], m \in Nat : Ranks(f, m)
  BY DEF RankInv
<1>2. /\ graph' = graph /\ pc' = "ordering"
      /\ k \in round /\ k \in graph.keys /\ ordered' = Append(ordered, k) /\ round' = round \ {k}
      /\ \A j \in round : k <= j
  BY DEF Place, TypeOK
<1>3. /\ Len(ordered) \in Nat /\ Len(ordered') = Len(ordered) + 1
      /\ ordered'[Len(ordered) + 1] = k
      /\ \A i \in 1 .. Len(ordered) : ordered'[i] = ordered[i]
  BY <1>2, Longer DEF TypeOK
<1>4. InSequence(ordered)' = InSequence(ordered) \cup {k}
  BY <1>3 DEF InSequence
<1>5. /\ Remaining' = Remaining \ {k}
      /\ \A j : DependsOn(j)' = DependsOn(j)
  BY <1>2, <1>4 DEF Remaining, DependsOn
<1>6. InSequence(ordered) \cup round \subseteq graph.keys /\ graph.keys \subseteq Nat
  <2>1. round \subseteq graph.keys /\ graph.keys \subseteq Nat
    BY GraphParts, KeysAssumption DEF TypeOK
  <2>. QED BY <2>1, PlacedIsClosed
<1>7. /\ f[k] + 1 = m
      /\ \A j \in InSequence(ordered) :
            f[j] \in Nat /\ f[j] < m /\ (f[j] + 1 = m => j < k)
  BY <1>1, <1>2, <1>6 DEF Ranks
<1>8. \A j \in InSequence(ordered) \cup round :
          /\ f[j] < m
          /\ \A d \in DependsOn(j) : f[d] < f[j]
          /\ f[j] # 0 => \E d \in DependsOn(j) : f[j] = f[d] + 1
  BY <1>1 DEF Ranks
<1>9. (InSequence(ordered) \cup round)' = InSequence(ordered) \cup round
  BY <1>2, <1>4
<1>10. ASSUME NEW i \in 1 .. Len(ordered'), NEW j \in 1 .. Len(ordered'), i < j
       PROVE  \/ f[ordered'[i]] < f[ordered'[j]]
              \/ f[ordered'[i]] = f[ordered'[j]] /\ ordered'[i] < ordered'[j]
  <2>1. i \in 1 .. Len(ordered) /\ ordered'[i] = ordered[i]
    BY <1>3, <1>10
  <2>2. CASE j = Len(ordered) + 1
    <3>1. ordered[i] \in InSequence(ordered) /\ ordered'[j] = k
      BY <1>3, <2>1, <2>2 DEF InSequence
    <3>2. f[k] \in Nat
      BY <1>2
    <3>. QED BY <1>7, <2>1, <3>1, <3>2
  <2>3. CASE j \in 1 .. Len(ordered)
    BY <1>1, <1>3, <1>10, <2>1, <2>3 DEF Ranks
  <2>. QED BY <1>3, <2>2, <2>3
<1>11. ASSUME NEW j \in round'
       PROVE  /\ f[j] + 1 = m
              /\ \A i \in InSequence(ordered)' : f[i] + 1 = m => i < j
  <2>1. j \in round /\ j # k /\ k <= j /\ j \in Nat /\ k \in Nat
    BY <1>2, <1>6
  <2>2. f[j] + 1 = m /\ \A i \in InSequence(ordered) : f[i] + 1 = m => i < j
    BY <1>1, <2>1 DEF Ranks
  <2>. QED BY <1>4, <2>1, <2>2
<1>12. ASSUME NEW j \in Remaining' \ round', m # 0
       PROVE  \E d \in DependsOn(j) : d \notin InSequence(ordered)' \/ f[d] + 1 = m
  <2>1. j \in Remaining \ round
    BY <1>2, <1>5
  <2>2. PICK d \in DependsOn(j) : d \notin InSequence(ordered) \/ f[d] + 1 = m
    BY <1>1, <1>12, <2>1 DEF Ranks
  <2>. QED BY <1>4, <1>7, <2>2
<1>13. Ranks(f, m)'
  BY <1>5, <1>8, <1>9, <1>10, <1>11, <1>12 DEF Ranks
<1>. QED BY <1>2, <1>13 DEF RankInv

\* Every step keeps the ranks.
LEMMA RankStep ==
    ASSUME TypeOK, OrderInv, RankInv, [Next]_vars
    PROVE  RankInv'
<1> USE DEF search, order, run
<1> DEFINE Complete == {"running", "ended", "committed"}
<1>1. CASE StartRound
  BY <1>1, RankRound
<1>2. CASE \E k \in Keys : Place(k)
  BY <1>2, RankPlace
<1>3. CASE /\ UNCHANGED <<graph, order>>
           /\ pc' \in Complete => pc \in Complete \/ (round = {} /\ Remaining = {})
  <2>1. /\ InSequence(ordered)' = InSequence(ordered) /\ Remaining' = Remaining
        /\ \A k : DependsOn(k)' = DependsOn(k)
    BY <1>3 DEF InSequence, Remaining, DependsOn
  <2>2. \A f, m : Ranks(f, m)' <=> Ranks(f, m)
    BY <1>3, <2>1 DEF Ranks
  <2>. QED BY <1>3, <2>1, <2>2 DEF RankInv
<1>4. \/ StartRound \/ (\E k \in Keys : Place(k))
      \/ /\ UNCHANGED <<graph, order>>
         /\ pc' \in Complete => pc \in Complete \/ (round = {} /\ Remaining = {})
  <2>1. CASE CheckSteps \/ Accept \/ StartRun
    BY <2>1 DEF CheckSteps, Accept, StartRun
  <2>2. CASE Return \/ Commit \/ Lose \/ UNCHANGED vars
    BY <2>2 DEF Return, Commit, Lose, vars
  <2>3. CASE \E k \in Keys : VisitNext(k) \/ VisitDependency(k)
    BY <2>3 DEF VisitNext, VisitDependency
  <2>4. CASE \E h \in SUBSET graph.keys : Execute(h)
    BY <2>4 DEF Execute
  <2>5. CASE StartStep \/ StepUnhandled \/ StepSucceeds \/ StepRaises \/ FinishRun
    BY <2>5 DEF StartStep, StepUnhandled, StepSucceeds, StepRaises, FinishRun, AtStep
  <2>. QED BY <2>1, <2>2, <2>3, <2>4, <2>5 DEF Next, Work
<1>. QED BY <1>1, <1>2, <1>3, <1>4

-------------------------------------------------------------------------------
\* A non-empty set of natural numbers has a least element.
LEMMA LeastNumber ==
    ASSUME NEW T \in SUBSET Nat, T # {}
    PROVE  \E n \in T : \A m \in T : n <= m
<1> DEFINE R == OpToRel(<, Nat)
<1>1. IsWellFoundedOn(R, Nat)
  BY NatLessThanWellFounded
<1>2. \A x, y \in Nat : <<y, x>> \in R <=> y < x
  BY DEF OpToRel
<1> HIDE DEF R
<1>3. PICK x \in T : \A y \in T : <<y, x>> \notin R
  BY <1>1, WFMin
<1>4. \A m \in T : ~(m < x)
  BY <1>2, <1>3
<1>. QED BY <1>4

\* The value the definition of Depth gives a key, when its dependencies have those of f.
Above(f, k) ==
    CHOOSE n \in {0} \cup {f[d] + 1 : d \in DependsOn(k)} :
        \A d \in DependsOn(k) : f[d] < n

\* The ranks of a complete order solve the equation that defines Depth ...
LEMMA RanksSolve ==
    ASSUME TypeOK, OrderInv, Remaining = {},
           NEW f \in [graph.keys -> Nat], NEW m \in Nat, Ranks(f, m)
    PROVE  /\ \A k \in graph.keys : DependsOn(k) \subseteq graph.keys
           /\ \A k \in graph.keys : \A d \in DependsOn(k) : f[d] < f[k]
           /\ f = [k \in graph.keys |-> Above(f, k)]
<1>1. graph.keys = InSequence(ordered)
  BY PlacedIsClosed DEF Remaining
<1>2. \A k \in graph.keys : DependsOn(k) \subseteq graph.keys
  BY <1>1, PlacedIsClosed
<1>3. \A k \in graph.keys :
          /\ \A d \in DependsOn(k) : f[d] < f[k]
          /\ f[k] # 0 => \E d \in DependsOn(k) : f[k] = f[d] + 1
  BY <1>1 DEF Ranks
<1>4. ASSUME NEW k \in graph.keys
      PROVE  f[k] = Above(f, k)
  <2> DEFINE S == {0} \cup {f[d] + 1 : d \in DependsOn(k)}
             P(n) == \A d \in DependsOn(k) : f[d] < n
  <2>1. f[k] \in S /\ P(f[k])
    BY <1>3
  <2>2. ASSUME NEW n \in S, P(n)
        PROVE  n = f[k]
    <3>1. \A d \in DependsOn(k) : f[d] \in Nat
      BY <1>2
    <3>2. CASE n = 0
      <4>1. DependsOn(k) = {}
        BY <2>2, <3>1, <3>2
      <4>. QED BY <1>3, <3>2, <4>1
    <3>3. CASE n # 0
      <4>1. PICK d \in DependsOn(k) : n = f[d] + 1
        BY <3>3
      <4>2. f[k] \in Nat /\ f[d] < f[k]
        BY <1>3
      <4>3. PICK e \in DependsOn(k) : f[k] = f[e] + 1
        BY <1>3, <3>1, <4>2
      <4>. QED BY <2>2, <3>1, <4>1, <4>2, <4>3
    <3>. QED BY <3>2, <3>3
  <2> HIDE DEF S, P
  <2>3. (CHOOSE n \in S : P(n)) = f[k]
    BY <2>1, <2>2
  <2>. QED BY <2>3 DEF S, P, Above
<1>5. f = [k \in graph.keys |-> f[k]]
  OBVIOUS
<1>. QED BY <1>2, <1>3, <1>4, <1>5

\* ... which has no other solution.
LEMMA RanksAreDepths ==
    ASSUME TypeOK, OrderInv, Remaining = {},
           NEW f \in [graph.keys -> Nat], NEW m \in Nat, Ranks(f, m),
           NEW k \in graph.keys
    PROVE  Depth[k] = f[k]
<1> DEFINE Solves(g) == g = [j \in graph.keys |-> Above(g, j)]
<1>1. Solves(f)
  BY RanksSolve
<1>2. Depth = CHOOSE g : Solves(g)
  BY DEF Depth, Above
<1>3. Solves(Depth)
  <2> HIDE DEF Solves
  <2>. QED BY <1>1, <1>2
<1>4. \A j \in graph.keys : Depth[j] = Above(Depth, j) /\ f[j] = Above(f, j)
  BY <1>1, <1>3
<1> HIDE DEF Solves
<1> DEFINE T == {f[j] : j \in {i \in graph.keys : Depth[i] # f[i]}}
<1>5. SUFFICES ASSUME T # {} PROVE FALSE
  OBVIOUS
<1>6. PICK n \in T : \A q \in T : n <= q
  <2>1. T \in SUBSET Nat
    OBVIOUS
  <2> HIDE DEF T
  <2>. QED BY <1>5, <2>1, LeastNumber
<1>7. PICK j \in graph.keys : Depth[j] # f[j] /\ n = f[j]
  OBVIOUS
<1>8. ASSUME NEW d \in DependsOn(j)
      PROVE  Depth[d] = f[d]
  <2>1. d \in graph.keys /\ f[d] < f[j]
    BY RanksSolve
  <2>2. f[d] \in Nat /\ f[j] \in Nat /\ f[d] \notin T
    <3>1. f[d] \in Nat /\ f[j] \in Nat
      BY <2>1
    <3> HIDE DEF T
    <3>. QED BY <1>6, <1>7, <2>1, <3>1
  <2>. QED BY <2>1, <2>2
<1>9. Above(Depth, j) = Above(f, j)
  <2>1. {Depth[d] + 1 : d \in DependsOn(j)} = {f[d] + 1 : d \in DependsOn(j)}
    BY <1>8
  <2>2. \A i : (\A d \in DependsOn(j) : Depth[d] < i) <=> (\A d \in DependsOn(j) : f[d] < i)
    BY <1>8
  <2>. QED BY <2>1, <2>2 DEF Above
<1>. QED BY <1>4, <1>7, <1>9

-------------------------------------------------------------------------------
\* Between two steps every record has succeeded.
LEMMA BetweenSteps ==
    ASSUME TypeOK, RunInv, ~InStep
    PROVE  /\ \A i \in 1 .. Len(records) : records[i].status = "succeeded"
           /\ context = {ordered[j] : j \in 1 .. Len(records)}
<1>1. ASSUME NEW i \in 1 .. Len(records)
      PROVE  records[i].status = "succeeded"
  <2>1. records[i].status \in StepStatuses /\ records # <<>>
    <3>1. records[i] \in Records /\ Len(records) \in Nat /\ records # <<>>
      BY DEF TypeOK
    <3>. QED BY <3>1 DEF Records
  <2>2. CASE i = Len(records)
    BY <2>1, <2>2 DEF InStep, Top, StepStatuses
  <2>3. CASE i # Len(records)
    BY <2>3 DEF RunInv, TypeOK
  <2>. QED BY <2>2, <2>3
<1>2. {n \in 1 .. Len(records) : records[n].status = "succeeded"} = 1 .. Len(records)
  BY <1>1
<1>. QED BY <1>1, <1>2 DEF RunInv

\* Every step keeps the records in order.
LEMMA RunStep ==
    ASSUME TypeOK, RunInv, [Next]_vars
    PROVE  RunInv'
<1> USE DEF search, order, run
<1> DEFINE Done == {n \in 1 .. Len(records) : records[n].status = "succeeded"}
<1>1. CASE /\ UNCHANGED <<ordered, records, context, status>>
           /\ pc' \in {"ended", "committed"} => pc \in {"ended", "committed"}
  BY <1>1 DEF RunInv, InStep, Top
<1>2. CASE \E k \in Keys : Place(k)
  <2>1. PICK k \in Keys : Place(k)
    BY <1>2
  <2>2. /\ k \in graph.keys /\ ordered' = Append(ordered, k)
        /\ UNCHANGED <<records, context, status>> /\ pc' = "ordering"
    BY <2>1 DEF Place, TypeOK
  <2>3. /\ Len(ordered) \in Nat /\ Len(records) \in Nat
        /\ Len(ordered') = Len(ordered) + 1
        /\ \A i \in 1 .. Len(ordered) : ordered'[i] = ordered[i]
    BY <2>2, Longer DEF TypeOK
  <2>4. Len(records) <= Len(ordered)
    BY DEF RunInv
  <2>5. \A i \in 1 .. Len(records) :
            {ordered'[j] : j \in 1 .. i - 1} = {ordered[j] : j \in 1 .. i - 1}
    BY <2>3, <2>4
  <2>6. {ordered'[j] : j \in Done} = {ordered[j] : j \in Done}
    BY <2>3, <2>4
  <2>. QED BY <2>2, <2>3, <2>4, <2>5, <2>6 DEF RunInv
<1>3. CASE StartRun
  BY <1>3 DEF RunInv, StartRun
<1>4. CASE StartStep
  <2> DEFINE r == [key |-> NextKey, status |-> "running", input |-> context]
  <2>1. /\ ~InStep /\ Len(records) < Len(ordered) /\ records' = Append(records, r)
        /\ UNCHANGED <<ordered, context, status>> /\ pc' = "running"
    BY <1>4 DEF StartStep, AtStep
  <2>2. NextKey \in graph.keys
    BY <1>4 DEF StartStep, TypeOK
  <2>3. r \in Records
    BY <2>2 DEF Records, StepStatuses, TypeOK
  <2>4. /\ Len(records) \in Nat /\ Len(ordered) \in Nat
        /\ Len(records') = Len(records) + 1
        /\ records'[Len(records) + 1] = r
        /\ \A i \in 1 .. Len(records) : records'[i] = records[i]
    <3> HIDE DEF r
    <3>. QED BY <2>1, <2>3, Longer DEF TypeOK
  <2>5. /\ \A i \in 1 .. Len(records) : records[i].status = "succeeded"
        /\ context = {ordered[j] : j \in 1 .. Len(records)}
    BY <2>1, BetweenSteps
  <2>6. ASSUME NEW i \in 1 .. Len(records')
        PROVE  /\ records'[i].key = ordered'[i]
               /\ i < Len(records') => records'[i].status = "succeeded"
               /\ records'[i].input = {ordered'[j] : j \in 1 .. i - 1}
    <3>1. CASE i = Len(records) + 1
      BY <2>1, <2>4, <2>5, <3>1 DEF NextKey
    <3>2. CASE i \in 1 .. Len(records)
      BY <2>1, <2>4, <2>5, <3>2 DEF RunInv
    <3>. QED BY <2>4, <3>1, <3>2
  <2>7. context' = {ordered'[j] : j \in {n \in 1 .. Len(records') : records'[n].status = "succeeded"}}
    <3>1. {n \in 1 .. Len(records') : records'[n].status = "succeeded"} = 1 .. Len(records)
      BY <2>4, <2>5
    <3>. QED BY <2>1, <2>5, <3>1
  <2>. QED BY <2>1, <2>4, <2>6, <2>7 DEF RunInv
<1>5. CASE StepUnhandled
  <2>1. Len(records) < Len(ordered) /\ Len(records) \in Nat /\ Len(ordered) \in Nat
    BY <1>5 DEF StepUnhandled, AtStep, TypeOK
  <2>. QED BY <1>5, <2>1 DEF RunInv, StepUnhandled, InStep, Top
<1>6. CASE StepSucceeds
  <2>1. /\ InStep /\ context' = context \cup {Top(records).key}
        /\ UNCHANGED <<ordered, status>> /\ pc' = "running"
    BY <1>6 DEF StepSucceeds
  <2>2. /\ Len(records) \in Nat \ {0} /\ Len(records') = Len(records)
        /\ \A i \in 1 .. Len(records) :
              /\ records'[i].key = records[i].key
              /\ records'[i].input = records[i].input
              /\ i # Len(records) => records'[i].status = records[i].status
              /\ i = Len(records) => records'[i].status = "succeeded"
    BY <1>6, RecordsAfterSuccess DEF TypeOK
  <2>3. {n \in 1 .. Len(records') : records'[n].status = "succeeded"} = Done \cup {Len(records)}
    BY <2>2
  <2>4. Top(records).key = ordered[Len(records)]
    BY <2>2 DEF RunInv, Top
  <2>5. context' = {ordered'[j] : j \in Done \cup {Len(records)}}
    BY <2>1, <2>4 DEF RunInv
  <2>6. ASSUME NEW i \in 1 .. Len(records')
        PROVE  /\ records'[i].key = ordered'[i]
               /\ i < Len(records') => records'[i].status = "succeeded"
               /\ records'[i].input = {ordered'[j] : j \in 1 .. i - 1}
    BY <2>1, <2>2 DEF RunInv
  <2>7. Len(records') <= Len(ordered')
    BY <2>1, <2>2 DEF RunInv
  <2>. QED BY <2>1, <2>3, <2>5, <2>6, <2>7 DEF RunInv
<1>7. CASE StepRaises
  BY <1>7 DEF RunInv, StepRaises, InStep, Top
<1>8. CASE FinishRun
  BY <1>8 DEF RunInv, FinishRun, InStep, Top
<1>9. CASE Lose
  BY <1>9 DEF RunInv, Lose, TypeOK
<1>10. \/ /\ UNCHANGED <<ordered, records, context, status>>
          /\ pc' \in {"ended", "committed"} => pc \in {"ended", "committed"}
       \/ (\E k \in Keys : Place(k)) \/ StartRun \/ StartStep \/ StepUnhandled
       \/ StepSucceeds \/ StepRaises \/ FinishRun \/ Lose
  <2>1. CASE CheckSteps \/ Accept \/ StartRound
    BY <2>1 DEF CheckSteps, Accept, StartRound
  <2>2. CASE Return \/ Commit \/ UNCHANGED vars
    BY <2>2 DEF Return, Commit, vars
  <2>3. CASE \E k \in Keys : VisitNext(k) \/ VisitDependency(k)
    BY <2>3 DEF VisitNext, VisitDependency
  <2>4. CASE \E h \in SUBSET graph.keys : Execute(h)
    BY <2>4 DEF Execute
  <2>. QED BY <2>1, <2>2, <2>3, <2>4 DEF Next, Work
<1>. QED BY <1>1, <1>2, <1>3, <1>4, <1>5, <1>6, <1>7, <1>8, <1>9, <1>10

-------------------------------------------------------------------------------
\* Records are of steps with a handler, and there are none before an execution starts.
Handled ==
    /\ pc \notin {"running", "ended", "committed"} => records = <<>> /\ status = "none"
    /\ \A i \in 1 .. Len(records) : records[i].key \in handled
    /\ status = "succeeded" => pc \in {"ended", "committed"}

\* Every step keeps that so.
LEMMA HandledStep ==
    ASSUME TypeOK, Handled, [Next]_vars
    PROVE  Handled'
<1> USE DEF search, order, run
<1>1. CASE /\ UNCHANGED <<handled, records, status>>
           /\ pc' \in {"running", "ended", "committed"} <=> pc \in {"running", "ended", "committed"}
           /\ pc \in {"ended", "committed"} => pc' \in {"ended", "committed"}
  BY <1>1 DEF Handled
<1>2. CASE \E h \in SUBSET graph.keys : Execute(h)
  BY <1>2 DEF Handled, Execute
<1>3. CASE StartRun
  BY <1>3 DEF Handled, StartRun
<1>4. CASE StartStep
  <2> DEFINE r == [key |-> NextKey, status |-> "running", input |-> context]
  <2>1. /\ records' = Append(records, r) /\ NextKey \in handled
        /\ UNCHANGED <<pc, handled, status>> /\ pc = "running"
    BY <1>4 DEF StartStep, AtStep
  <2>2. r \in Records
    BY <2>1 DEF Records, StepStatuses, TypeOK
  <2>3. /\ Len(records) \in Nat /\ Len(records') = Len(records) + 1
        /\ records'[Len(records) + 1] = r
        /\ \A i \in 1 .. Len(records) : records'[i] = records[i]
    <3> HIDE DEF r
    <3>. QED BY <2>1, <2>2, Longer DEF TypeOK
  <2>4. \A i \in 1 .. Len(records') : records'[i].key \in handled'
    BY <2>1, <2>3 DEF Handled
  <2>. QED BY <2>1, <2>4 DEF Handled
<1>5. CASE StepSucceeds
  <2>1. UNCHANGED <<pc, handled, status>> /\ pc = "running"
    BY <1>5 DEF StepSucceeds
  <2>2. Len(records') = Len(records) /\ \A i \in 1 .. Len(records) : records'[i].key = records[i].key
    BY <1>5, RecordsAfterSuccess DEF TypeOK
  <2>. QED BY <2>1, <2>2 DEF Handled
<1>6. CASE StepUnhandled \/ StepRaises \/ FinishRun
  BY <1>6 DEF Handled, StepUnhandled, StepRaises, FinishRun, AtStep
<1>7. CASE Lose
  BY <1>7 DEF Handled, Lose
<1>8. \/ /\ UNCHANGED <<handled, records, status>>
         /\ pc' \in {"running", "ended", "committed"} <=> pc \in {"running", "ended", "committed"}
         /\ pc \in {"ended", "committed"} => pc' \in {"ended", "committed"}
      \/ (\E h \in SUBSET graph.keys : Execute(h)) \/ StartRun \/ StartStep \/ StepSucceeds
      \/ StepUnhandled \/ StepRaises \/ FinishRun \/ Lose
  <2>1. CASE CheckSteps \/ Accept \/ StartRound
    BY <2>1 DEF CheckSteps, Accept, StartRound
  <2>2. CASE Return \/ Commit \/ UNCHANGED vars
    BY <2>2 DEF Return, Commit, vars
  <2>3. CASE \E k \in Keys : VisitNext(k) \/ VisitDependency(k) \/ Place(k)
    BY <2>3 DEF VisitNext, VisitDependency, Place
  <2>. QED BY <2>1, <2>2, <2>3 DEF Next, Work
<1>. QED BY <1>1, <1>2, <1>3, <1>4, <1>5, <1>6, <1>7, <1>8

-------------------------------------------------------------------------------
\* The keys that have a record, and those the search has not met.
Recorded == {records[i].key : i \in 1 .. Len(records)}
Unmet == graph.keys \ (visited \cup InSequence(path))

\* The steps a call has left at most, where a definition has finitely many: seven and a
\* few more for each of its steps.
Size == Cardinality(graph.keys)
Left ==
    CASE pc = "submitted" -> 7 * Size + 6
      [] pc = "visiting"  -> 5 * Size + 5 + Len(path) + 2 * Cardinality(Unmet)
      [] pc = "ordering"  -> 2 * Size + 4 + Cardinality(round) + 2 * Cardinality(Remaining \ round)
      [] pc = "running"   -> 2 + (IF InStep THEN 1 ELSE 0) + 2 * Cardinality(graph.keys \ Recorded)
      [] pc = "ended"     -> 1
      [] OTHER            -> 0

\* A search begins with an empty path.
Fresh == pc \in {"submitted", "stored"} => path = <<>>

\* Every step keeps that so.
LEMMA FreshStep ==
    ASSUME Fresh, [Next]_vars
    PROVE  Fresh'
<1> USE DEF search, order, run, Fresh
<1>1. CASE CheckSteps \/ Return \/ Accept \/ Commit \/ Lose \/ UNCHANGED vars
  BY <1>1 DEF CheckSteps, Return, Accept, Commit, Lose, vars
<1>2. CASE \E k \in Keys : VisitNext(k) \/ VisitDependency(k) \/ Place(k)
  BY <1>2 DEF VisitNext, VisitDependency, Place
<1>3. CASE StartRound \/ StartRun \/ StartStep \/ StepUnhandled
  BY <1>3 DEF StartRound, StartRun, StartStep, StepUnhandled, AtStep
<1>4. CASE StepSucceeds \/ StepRaises \/ FinishRun
  BY <1>4 DEF StepSucceeds, StepRaises, FinishRun
<1>5. CASE \E h \in SUBSET graph.keys : Execute(h)
  BY <1>5 DEF Execute
<1>. QED BY <1>1, <1>2, <1>3, <1>4, <1>5 DEF Next, Work

\* A part of a finite set is finite, and smaller if something is missing.
LEMMA PartOf ==
    ASSUME NEW S, IsFiniteSet(S), NEW T \in SUBSET S
    PROVE  /\ IsFiniteSet(T)
           /\ Cardinality(S) \in Nat /\ Cardinality(T) \in Nat
           /\ Cardinality(T) <= Cardinality(S)
           /\ T # S => Cardinality(T) < Cardinality(S)
<1>1. IsFiniteSet(T) /\ Cardinality(T) <= Cardinality(S) /\ (Cardinality(S) = Cardinality(T) => S = T)
  BY FS_Subset
<1>2. Cardinality(S) \in Nat /\ Cardinality(T) \in Nat
  BY <1>1, FS_CardinalityType
<1>. QED BY <1>1, <1>2

\* What Left is made of are numbers.
LEMMA LeftParts ==
    ASSUME TypeOK, IsFiniteSet(graph.keys)
    PROVE  /\ Size \in Nat /\ Len(path) \in Nat
           /\ Cardinality(Unmet) \in Nat /\ Cardinality(Unmet) <= Size
           /\ Cardinality(round) \in Nat /\ Cardinality(round) <= Size
           /\ Cardinality(Remaining \ round) \in Nat /\ Cardinality(Remaining \ round) <= Size
           /\ Cardinality(graph.keys \ Recorded) \in Nat
           /\ Cardinality(graph.keys \ Recorded) <= Size
           /\ Left \in Nat
<1>1. Size \in Nat /\ Len(path) \in Nat
  BY FS_CardinalityType DEF Size, TypeOK
<1>2. Cardinality(Unmet) \in Nat /\ Cardinality(Unmet) <= Size
  BY PartOf DEF Unmet, Size
<1>3. Cardinality(round) \in Nat /\ Cardinality(round) <= Size
  BY PartOf DEF TypeOK, Size
<1>4. Cardinality(Remaining \ round) \in Nat /\ Cardinality(Remaining \ round) <= Size
  BY PartOf DEF Remaining, Size
<1>5. Cardinality(graph.keys \ Recorded) \in Nat /\ Cardinality(graph.keys \ Recorded) <= Size
  BY PartOf DEF Size
<1>6. Left \in Nat
  <2>1. pc \in {"submitted", "visiting"} => Left \in Nat
    BY <1>1, <1>2 DEF Left
  <2>2. pc = "ordering" => Left \in Nat
    BY <1>1, <1>3, <1>4 DEF Left
  <2>3. pc \notin {"submitted", "visiting", "ordering"} => Left \in Nat
    BY <1>5 DEF Left
  <2>. QED BY <2>1, <2>2, <2>3
<1>. QED BY <1>1, <1>2, <1>3, <1>4, <1>5, <1>6

\* A step of the search meets a key or returns from one.
LEMMA SearchCounts ==
    ASSUME TypeOK, SearchInv, Fresh, IsFiniteSet(graph.keys), graph' = graph, Left' \in Nat,
           CheckSteps \/ Return \/ Accept \/ \E k \in Keys : VisitNext(k) \/ VisitDependency(k)
    PROVE  Left' < Left
<1> USE DEF search, order, run
<1>b. /\ Size \in Nat /\ Len(path) \in Nat
      /\ Cardinality(Unmet) \in Nat /\ Cardinality(Unmet) <= Size
      /\ Cardinality(round) \in Nat /\ Cardinality(round) <= Size
      /\ Cardinality(Remaining \ round) \in Nat /\ Cardinality(Remaining \ round) <= Size
      /\ Cardinality(graph.keys \ Recorded) \in Nat
      /\ Cardinality(graph.keys \ Recorded) <= Size
  BY LeftParts
<1>a. Size' = Size
  BY DEF Size
<1>1. CASE CheckSteps
  <2>1. pc = "submitted" /\ path = <<>> /\ UNCHANGED search
    BY <1>1 DEF CheckSteps, Fresh
  <2>2. Cardinality(Unmet)' = Cardinality(Unmet) /\ Len(path') = 0
    BY <2>1 DEF Unmet, InSequence
  <2>3. pc' \in {"visiting", "refused"}
    BY <1>1 DEF CheckSteps
  <2>. QED BY <1>b, <1>a, <2>1, <2>2, <2>3 DEF Left
<1>2. CASE Return
  <2>1. pc = "visiting" /\ pc' = "visiting" /\ path # <<>>
    BY <1>2 DEF Return
  <2>2. /\ Len(path) \in Nat \ {0} /\ Len(path') = Len(path) - 1
        /\ \A i \in 1 .. Len(path) - 1 : path'[i] = path[i]
    BY <1>2, <2>1, LastAndRest DEF TypeOK, Return
  <2>3. InSequence(path) = InSequence(path') \cup {Top(path)}
    BY <2>2 DEF InSequence, Top
  <2>4. Unmet' = Unmet
    <3>1. InSequence(path)' = InSequence(path') /\ visited' = visited \cup {Top(path)}
      BY <1>2 DEF InSequence, Return
    <3>. QED BY <2>3, <3>1 DEF Unmet
  <2>. QED BY <1>b, <1>a, <2>1, <2>2, <2>4 DEF Left
<1>3. CASE Accept
  <2>1. pc = "visiting" /\ pc' \in {"stored", "ordering"} /\ UNCHANGED <<search, order>>
    BY <1>3 DEF Accept
  <2>2. Cardinality(round)' = Cardinality(round) /\ Cardinality(Remaining \ round)' = Cardinality(Remaining \ round)
    BY <2>1 DEF Remaining, InSequence
  <2>3. Left \in Nat /\ Left >= 5 * Size + 5
    BY <1>b, <2>1 DEF Left
  <2>4. CASE pc' = "stored"
    <3>1. Left' = 0
      BY <2>4 DEF Left
    <3>. QED BY <1>b, <2>3, <3>1
  <2>5. CASE pc' = "ordering"
    <3>1. Left' = 2 * Size + 4 + Cardinality(round) + 2 * Cardinality(Remaining \ round)
      BY <1>a, <2>2, <2>5 DEF Left
    <3>. QED BY <1>b, <2>3, <3>1
  <2>. QED BY <2>1, <2>4, <2>5
<1>4. CASE \E k \in Keys : VisitNext(k) \/ VisitDependency(k)
  <2>1. PICK k \in Keys : VisitNext(k) \/ VisitDependency(k)
    BY <1>4
  <2>2. CASE pc' = "refused"
    BY <1>b, <2>1, <2>2 DEF Left, VisitNext, VisitDependency
  <2>3. CASE pc' # "refused"
    <3>1. /\ pc = "visiting" /\ pc' = "visiting" /\ visited' = visited
          /\ k \notin visited /\ k \notin InSequence(path) /\ path' = Append(path, k)
      <4>1. CASE VisitNext(k)
        <5>1. InSequence(path) = {} /\ Append(path, k) = <<k>>
          BY <4>1 DEF VisitNext, InSequence
        <5>. QED BY <4>1, <5>1 DEF VisitNext
      <4>2. CASE VisitDependency(k)
        BY <2>3, <4>2 DEF VisitDependency
      <4>. QED BY <2>1, <4>1, <4>2
    <3>2. k \in graph.keys
      <4>1. CASE path = <<>>
        BY <2>1, <4>1 DEF VisitNext, VisitDependency
      <4>2. CASE path # <<>>
        <5>1. Top(path) \in graph.keys /\ k \in DependsOn(Top(path)) /\ StepsAreLegal
          BY <2>1, <3>1, <4>2, LastAndRest DEF VisitNext, VisitDependency, TypeOK, SearchInv
        <5>. QED BY <5>1, LegalDependencies
      <4>. QED BY <4>1, <4>2
    <3>3. Len(path') = Len(path) + 1 /\ path'[Len(path) + 1] = k
      BY <3>1, <3>2, Longer DEF TypeOK
    <3>4. InSequence(path)' = InSequence(path) \cup {k}
      <4>1. \A i \in 1 .. Len(path) : path'[i] = path[i]
        BY <3>1, <3>2, Longer DEF TypeOK
      <4>. QED BY <3>3, <4>1 DEF InSequence
    <3>5. Unmet' = Unmet \ {k} /\ k \in Unmet
      BY <3>1, <3>2, <3>4 DEF Unmet
    <3>6. Cardinality(Unmet') = Cardinality(Unmet) - 1
      <4>1. IsFiniteSet(Unmet)
        BY PartOf DEF Unmet
      <4>. QED BY <3>5, <4>1, FS_RemoveElement
    <3>7. Cardinality(Unmet)' = Cardinality(Unmet')
      OBVIOUS
    <3>. QED BY <1>b, <1>a, <3>1, <3>3, <3>6, <3>7 DEF Left
  <2>. QED BY <2>2, <2>3
<1>. QED BY <1>1, <1>2, <1>3, <1>4

\* A step of the order opens a round that is not empty, or places a key.
LEMMA OrderCounts ==
    ASSUME TypeOK, IsFiniteSet(graph.keys), graph' = graph, Left' \in Nat,
           StartRound \/ StartRun \/ \E k \in Keys : Place(k)
    PROVE  Left' < Left
<1> USE DEF search, order, run
<1>b. /\ Size \in Nat /\ Len(path) \in Nat
      /\ Cardinality(Unmet) \in Nat /\ Cardinality(Unmet) <= Size
      /\ Cardinality(round) \in Nat /\ Cardinality(round) <= Size
      /\ Cardinality(Remaining \ round) \in Nat /\ Cardinality(Remaining \ round) <= Size
      /\ Cardinality(graph.keys \ Recorded) \in Nat
      /\ Cardinality(graph.keys \ Recorded) <= Size
  BY LeftParts
<1>a. Size' = Size
  BY DEF Size
<1>1. CASE StartRound
  <2>1. CASE pc' = "refused"
    BY <1>b, <1>1, <2>1 DEF Left, StartRound
  <2>2. CASE pc' # "refused"
    <3> DEFINE ready == {k \in Remaining : DependsOn(k) \subseteq InSequence(ordered)}
    <3>1. /\ pc = "ordering" /\ pc' = "ordering" /\ round = {} /\ round' = ready /\ ready # {}
          /\ ordered' = ordered
      BY <1>1, <2>2 DEF StartRound
    <3>2. Remaining' = Remaining /\ IsFiniteSet(Remaining) /\ ready \subseteq Remaining
      BY <3>1, PartOf DEF Remaining, InSequence
    <3>3. /\ IsFiniteSet(ready) /\ Cardinality(ready) \in Nat /\ Cardinality(ready) # 0
          /\ Cardinality(Remaining) \in Nat
      <4> HIDE DEF ready
      <4>. QED BY <3>1, <3>2, PartOf, FS_EmptySet
    <3>4. Cardinality(Remaining \ ready) = Cardinality(Remaining) - Cardinality(ready)
      <4>1. Remaining \cap ready = ready
        BY <3>2
      <4> HIDE DEF ready
      <4>2. Cardinality(Remaining \ ready) = Cardinality(Remaining) - Cardinality(Remaining \cap ready)
        BY <3>2, FS_Difference
      <4>. QED BY <4>1, <4>2
    <3>5. /\ Cardinality(round)' = Cardinality(ready)
          /\ Cardinality(Remaining \ round)' = Cardinality(Remaining \ ready)
          /\ Cardinality(round) = 0 /\ Cardinality(Remaining \ round) = Cardinality(Remaining)
      <4>1. Remaining \ {} = Remaining
        OBVIOUS
      <4>. QED BY <3>1, <3>2, <4>1, FS_EmptySet
    <3> HIDE DEF ready
    <3>. QED BY <1>b, <1>a, <3>1, <3>3, <3>4, <3>5 DEF Left
  <2>. QED BY <2>1, <2>2
<1>2. CASE \E k \in Keys : Place(k)
  <2>1. PICK k \in Keys : Place(k)
    BY <1>2
  <2>2. /\ pc = "ordering" /\ pc' = "ordering" /\ k \in round /\ k \in graph.keys
        /\ ordered' = Append(ordered, k) /\ round' = round \ {k}
    BY <2>1 DEF Place, TypeOK
  <2>3. InSequence(ordered)' = InSequence(ordered) \cup {k}
    <3>1. /\ Len(ordered) \in Nat /\ Len(ordered') = Len(ordered) + 1
          /\ ordered'[Len(ordered) + 1] = k
          /\ \A i \in 1 .. Len(ordered) : ordered'[i] = ordered[i]
      BY <2>2, Longer DEF TypeOK
    <3>. QED BY <3>1 DEF InSequence
  <2>4. (Remaining \ round)' = Remaining \ round
    BY <2>2, <2>3 DEF Remaining
  <2>5. Cardinality(round') = Cardinality(round) - 1
    BY <2>2, PartOf, FS_RemoveElement DEF TypeOK
  <2>6. /\ Cardinality(round)' = Cardinality(round')
        /\ Cardinality(Remaining \ round)' = Cardinality(Remaining \ round)
    BY <2>4
  <2>. QED BY <1>b, <1>a, <2>2, <2>5, <2>6 DEF Left
<1>3. CASE StartRun
  <2>1. pc = "ordering" /\ pc' = "running" /\ records' = records
    BY <1>3 DEF StartRun
  <2>2. Cardinality(graph.keys \ Recorded)' = Cardinality(graph.keys \ Recorded)
    BY <2>1 DEF Recorded
  <2>. QED BY <1>b, <1>a, <2>1, <2>2 DEF Left
<1>. QED BY <1>1, <1>2, <1>3

\* A step of the execution records a key that had no record, or ends one.
LEMMA RunCounts ==
    ASSUME TypeOK, RunInv, RankInv, IsFiniteSet(graph.keys), graph' = graph, Left' \in Nat,
           StartStep \/ StepUnhandled \/ StepSucceeds \/ StepRaises \/ FinishRun \/ Commit
    PROVE  Left' < Left
<1> USE DEF search, order, run
<1>b. /\ Size \in Nat /\ Len(path) \in Nat
      /\ Cardinality(Unmet) \in Nat /\ Cardinality(Unmet) <= Size
      /\ Cardinality(round) \in Nat /\ Cardinality(round) <= Size
      /\ Cardinality(Remaining \ round) \in Nat /\ Cardinality(Remaining \ round) <= Size
      /\ Cardinality(graph.keys \ Recorded) \in Nat
      /\ Cardinality(graph.keys \ Recorded) <= Size
  BY LeftParts
<1>1. CASE StepUnhandled \/ StepRaises \/ FinishRun
  BY <1>b, <1>1 DEF Left, StepUnhandled, StepRaises, FinishRun, AtStep
<1>2. CASE Commit
  BY <1>b, <1>2 DEF Left, Commit
<1>3. CASE StepSucceeds
  <2>1. pc = "running" /\ pc' = "running" /\ InStep
    BY <1>3 DEF StepSucceeds
  <2>2. /\ Len(records) \in Nat \ {0} /\ Len(records') = Len(records)
        /\ \A i \in 1 .. Len(records) :
              /\ records'[i].key = records[i].key
              /\ i = Len(records) => records'[i].status = "succeeded"
    BY <1>3, RecordsAfterSuccess DEF TypeOK
  <2>3. Recorded' = Recorded /\ ~InStep'
    BY <2>2 DEF Recorded, InStep, Top
  <2>4. Cardinality(graph.keys \ Recorded)' = Cardinality(graph.keys \ Recorded)
    BY <2>3
  <2>. QED BY <1>b, <2>1, <2>3, <2>4 DEF Left
<1>4. CASE StartStep
  <2> DEFINE r == [key |-> NextKey, status |-> "running", input |-> context]
  <2>1. /\ pc = "running" /\ pc' = "running" /\ ~InStep
        /\ Len(records) < Len(ordered) /\ records' = Append(records, r)
    BY <1>4 DEF StartStep, AtStep
  <2>2. NextKey \in graph.keys
    BY <1>4 DEF StartStep, TypeOK
  <2>3. r \in Records
    BY <2>2 DEF Records, StepStatuses, TypeOK
  <2>4. /\ Len(records) \in Nat /\ Len(ordered) \in Nat
        /\ Len(records') = Len(records) + 1
        /\ records'[Len(records) + 1] = r
        /\ \A i \in 1 .. Len(records) : records'[i] = records[i]
    <3> HIDE DEF r
    <3>. QED BY <2>1, <2>3, Longer DEF TypeOK
  <2>5. NextKey \notin Recorded
    <3>1. \A i \in 1 .. Len(records) : records[i].key = ordered[i] /\ i < Len(records) + 1
      BY <2>4 DEF RunInv
    <3>2. \A i, j \in 1 .. Len(ordered) : i < j => ordered[i] # ordered[j]
      <4>1. PICK f \in [graph.keys -> Nat], m \in Nat : Ranks(f, m)
        BY DEF RankInv
      <4>2. \A i \in 1 .. Len(ordered) : ordered[i] \in graph.keys /\ ordered[i] \in Nat
        <5>1. graph.keys \subseteq Nat
          BY KeysAssumption, GraphParts DEF TypeOK
        <5>. QED BY <5>1 DEF TypeOK
      <4>3. \A i, j \in 1 .. Len(ordered) : i < j =>
                f[ordered[i]] < f[ordered[j]] \/ ordered[i] < ordered[j]
        BY <4>1 DEF Ranks
      <4>4. \A n \in Nat : ~(n < n)
        OBVIOUS
      <4>5. \A i \in 1 .. Len(ordered) : f[ordered[i]] \in Nat
        BY <4>2
      <4>. QED BY <4>2, <4>3, <4>4, <4>5
    <3>. QED BY <2>1, <2>4, <3>1, <3>2 DEF Recorded, NextKey
  <2>6. Recorded' = Recorded \cup {NextKey}
    BY <2>4 DEF Recorded
  <2>7. (graph.keys \ Recorded)' = (graph.keys \ Recorded) \ {NextKey}
    BY <2>6
  <2>8. Cardinality((graph.keys \ Recorded) \ {NextKey}) = Cardinality(graph.keys \ Recorded) - 1
    BY <2>2, <2>5, PartOf, FS_RemoveElement
  <2>9. Cardinality(graph.keys \ Recorded)' = Cardinality(graph.keys \ Recorded) - 1
    BY <2>7, <2>8
  <2> HIDE DEF r
  <2>. QED BY <1>b, <2>1, <2>9 DEF Left
<1>. QED BY <1>1, <1>2, <1>3, <1>4

-------------------------------------------------------------------------------
\* IInv holds initially and is preserved: the inductive invariant of WorkflowExecution,
\* which ties the search, the order and the records of an execution together.
THEOREM Inductive == Spec => []IInv
<1>1. Init => IInv
  <2> SUFFICES ASSUME Init PROVE IInv
    OBVIOUS
  <2> USE DEF Init
  <2>1. TypeOK
    BY DEF TypeOK, PCs
  <2>2. SearchInv
    BY DEF SearchInv, Trap
  <2>3. VerdictIsRight
    BY DEF VerdictIsRight, PCs
  <2>4. OrderInv
    BY DEF OrderInv
  <2>5. RunInv
    BY DEF RunInv
  <2>6. RankInv
    <3>1. [k \in graph.keys |-> 0] \in [graph.keys -> Nat]
      OBVIOUS
    <3>2. Ranks([k \in graph.keys |-> 0], 0)
      BY DEF Ranks, InSequence
    <3>. QED BY <3>1, <3>2 DEF RankInv
  <2>. QED BY <2>1, <2>2, <2>3, <2>4, <2>5, <2>6 DEF IInv
<1>2. IInv /\ [Next]_vars => IInv'
  BY TypeStep, SearchStep, VerdictStep, OrderStep, RankStep, RunStep DEF IInv
<1>. QED BY <1>1, <1>2, PTL DEF Spec

\* Every variable keeps its type, whatever graph is proposed (models.py, validation.py).
THEOREM TypeCorrect == Spec => []TypeOK
<1>1. IInv => TypeOK
  BY DEF IInv
<1>. QED BY <1>1, Inductive, PTL

\* For every graph over any keys and every order of visiting it, validate_graph accepts
\* exactly the legal, acyclic ones, and topological_order never finds a graph it accepted
\* impossible to order.
THEOREM VerdictsRight == Spec => []VerdictIsRight
<1>1. IInv => VerdictIsRight
  BY DEF IInv
<1>. QED BY <1>1, Inductive, PTL

\* execute never refuses the definition of a version that create_version has stored.
THEOREM StoredNeverRefused == Spec => [](stage = "execute" => pc # "refused")
<1>1. IInv => (stage = "execute" => pc # "refused")
  BY DEF IInv, VerdictIsRight
<1>. QED BY <1>1, Inductive, PTL

\* topological_order places every step after all steps it depends on.
THEOREM Topological ==
    Spec => [](\A i \in 1 .. Len(ordered) :
                  DependsOn(ordered[i]) \subseteq {ordered[j] : j \in 1 .. i - 1})
<1>1. IInv => \A i \in 1 .. Len(ordered) :
                  DependsOn(ordered[i]) \subseteq {ordered[j] : j \in 1 .. i - 1}
  BY DEF IInv, OrderInv
<1>. QED BY <1>1, Inductive, PTL

\* The order in which execute runs the steps is a function of the graph: by depth and then
\* by key, whatever the order in which the definition was searched (validation.py).
THEOREM OrderReproducible == Spec => []OrderIsReproducible
<1>1. IInv => OrderIsReproducible
  <2> SUFFICES ASSUME IInv, pc \in {"running", "ended", "committed"}
               PROVE  /\ InSequence(ordered) = graph.keys
                      /\ \A i, j \in 1 .. Len(ordered) : i < j =>
                            \/ Depth[ordered[i]] < Depth[ordered[j]]
                            \/ /\ Depth[ordered[i]] = Depth[ordered[j]]
                               /\ ordered[i] < ordered[j]
    BY DEF OrderIsReproducible
  <2>1. PICK f \in [graph.keys -> Nat], m \in Nat : Ranks(f, m)
    BY DEF IInv, RankInv
  <2>2. TypeOK /\ OrderInv /\ Remaining = {}
    BY DEF IInv, RankInv
  <2>3. \A k \in graph.keys : Depth[k] = f[k]
    BY <2>1, <2>2, RanksAreDepths
  <2>4. \A i \in 1 .. Len(ordered) : ordered[i] \in graph.keys
    BY <2>2 DEF TypeOK
  <2>5. InSequence(ordered) = graph.keys
    BY <2>2, <2>4 DEF Remaining, InSequence
  <2>. QED BY <2>1, <2>3, <2>4, <2>5 DEF Ranks
<1>. QED BY <1>1, Inductive, PTL

\* The records of an execution follow the order, all before the last one succeeded, and
\* a committed execution succeeded exactly if all of its steps did.
THEOREM OutcomesExplained == Spec => []OutcomeIsExplained
<1>1. IInv => OutcomeIsExplained
  BY DEF IInv, RunInv, OutcomeIsExplained
<1>. QED BY <1>1, Inductive, PTL

\* Every step that starts is given the results of all steps it depends on.
THEOREM InputsSeen == Spec => []StepsSeeTheirInputs
<1>1. IInv => StepsSeeTheirInputs
  <2> SUFFICES ASSUME IInv, NEW i \in 1 .. Len(records)
               PROVE  /\ DependsOn(records[i].key) \subseteq records[i].input
                      /\ records[i].input =
                            {records[j].key :
                                j \in {n \in 1 .. i - 1 : records[n].status = "succeeded"}}
    BY DEF StepsSeeTheirInputs
  <2> USE DEF IInv, RunInv
  <2>1. /\ Len(records) \in Nat /\ Len(ordered) \in Nat /\ Len(records) <= Len(ordered)
        /\ i \in 1 .. Len(ordered)
    BY DEF TypeOK
  <2>2. records[i].key = ordered[i] /\ records[i].input = {ordered[j] : j \in 1 .. i - 1}
    OBVIOUS
  <2>3. \A j \in 1 .. i - 1 : records[j].key = ordered[j] /\ records[j].status = "succeeded"
    BY <2>1
  <2>4. {n \in 1 .. i - 1 : records[n].status = "succeeded"} = 1 .. i - 1
    BY <2>3
  <2>5. DependsOn(ordered[i]) \subseteq {ordered[j] : j \in 1 .. i - 1}
    BY <2>1 DEF OrderInv
  <2>6. {records[j].key : j \in 1 .. i - 1} = {ordered[j] : j \in 1 .. i - 1}
    BY <2>3
  <2>. QED BY <2>2, <2>4, <2>5, <2>6
<1>. QED BY <1>1, Inductive, PTL

\* Neither the search nor the rounds nor the loop over the steps can go round for ever: for
\* every finite definition of n steps, legal or not, a call that validates or executes it
\* begins with a Left of 7 n + 6, and each of its steps lowers this number.
THEOREM CallsAreShort ==
    Spec => [][IsFiniteSet(graph.keys) /\ Work =>
                  Left \in Nat /\ Left' \in Nat /\ Left' < Left]_vars
<1> DEFINE Shorter == IsFiniteSet(graph.keys) /\ Work =>
                          Left \in Nat /\ Left' \in Nat /\ Left' < Left
<1>1. Init => Fresh
  BY DEF Init, Fresh
<1>2. Fresh /\ [Next]_vars => Fresh'
  BY FreshStep
<1>3. TypeOK /\ IsFiniteSet(graph.keys) => Left \in Nat
  BY LeftParts
<1>4. (TypeOK /\ IsFiniteSet(graph.keys) => Left \in Nat)'
  BY <1>3, PTL
<1>5. IInv /\ IInv' /\ Fresh /\ [Next]_vars => [Shorter]_vars
  <2> SUFFICES ASSUME IInv, TypeOK', Fresh, [Next]_vars, IsFiniteSet(graph.keys), Work
               PROVE  Left \in Nat /\ Left' \in Nat /\ Left' < Left
    BY DEF IInv
  <2>1. graph' = graph
    BY DEF Work, CheckSteps, VisitNext, VisitDependency, Return, Accept, StartRound, Place,
           StartRun, StartStep, StepUnhandled, StepSucceeds, StepRaises, FinishRun, Commit
  <2>2. TypeOK /\ SearchInv /\ RankInv /\ RunInv
    BY DEF IInv
  <2>3. Left' \in Nat
    BY <1>4, <2>1
  <2>4. Left' < Left
    <3>1. CASE CheckSteps \/ Return \/ Accept \/ \E k \in Keys : VisitNext(k) \/ VisitDependency(k)
      BY <2>1, <2>2, <2>3, <3>1, SearchCounts
    <3>2. CASE StartRound \/ StartRun \/ \E k \in Keys : Place(k)
      BY <2>1, <2>2, <2>3, <3>2, OrderCounts
    <3>3. CASE StartStep \/ StepUnhandled \/ StepSucceeds \/ StepRaises \/ FinishRun \/ Commit
      BY <2>1, <2>2, <2>3, <3>3, RunCounts
    <3>. QED BY <3>1, <3>2, <3>3 DEF Work
  <2>. QED BY <2>2, <2>3, <2>4, LeftParts
<1>. QED BY <1>1, <1>2, <1>5, Inductive, PTL DEF Spec

\* An execution succeeds only in an engine that has a handler for every one of its steps.
\* The engine of workflows/api/routes.py:148 has none at all: of the executions it is asked
\* for none succeeds, and none leaves the record of a step.
THEOREM SuccessNeedsHandlers ==
    Spec => [](/\ status = "succeeded" => graph.keys \subseteq handled
               /\ handled = {} => records = <<>> /\ status # "succeeded")
<1>1. Init => Handled
  BY DEF Init, Handled
<1>2. TypeOK /\ Handled /\ [Next]_vars => Handled'
  BY HandledStep
<1>3. IInv /\ Handled => /\ status = "succeeded" => graph.keys \subseteq handled
                         /\ handled = {} => records = <<>> /\ status # "succeeded"
  <2> SUFFICES ASSUME IInv, Handled
               PROVE  /\ status = "succeeded" => graph.keys \subseteq handled
                      /\ handled = {} => records = <<>> /\ status # "succeeded"
    OBVIOUS
  <2>1. /\ ordered \in Seq(graph.keys) /\ records \in Seq(Records)
        /\ Len(ordered) \in Nat /\ Len(records) \in Nat
        /\ graph.keys # {}
    BY DEF IInv, TypeOK, Graphs
  <2>2. status = "succeeded" => graph.keys \subseteq handled
    <3>1. SUFFICES ASSUME status = "succeeded" PROVE graph.keys \subseteq handled
      OBVIOUS
    <3>2. pc \in {"ended", "committed"}
      BY <3>1 DEF Handled
    <3>3. Len(records) = Len(ordered) /\ graph.keys \subseteq InSequence(ordered)
      BY <3>1, <3>2 DEF IInv, RunInv, RankInv, Remaining
    <3>4. \A i \in 1 .. Len(ordered) : ordered[i] \in handled
      BY <3>3 DEF IInv, RunInv, Handled
    <3>. QED BY <3>3, <3>4 DEF InSequence
  <2>3. handled = {} => Len(records) = 0
    BY <2>1 DEF Handled
  <2>4. Len(records) = 0 => records = <<>>
    BY <2>1
  <2>. QED BY <2>1, <2>2, <2>3, <2>4
<1>4. IInv => TypeOK
  BY DEF IInv
<1>. QED BY <1>1, <1>2, <1>3, <1>4, Inductive, PTL DEF Spec
===============================================================================
