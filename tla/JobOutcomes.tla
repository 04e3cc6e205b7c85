----------------------------- MODULE JobOutcomes -----------------------------
(***************************************************************************)
(* What the studio promises its users, with no broker, worker, process or  *)
(* transaction in it.  A job is accepted, begins and ends; a design that    *)
(* completes becomes, in the same step, the next version of its project.    *)
(* A job may never end: the promise is about what is shown.                 *)
(*                                                                         *)
(* A job has one run, and one more for each time it is handed out again.    *)
(* Each run adds one version at most, and only a job that was handed out    *)
(* again changes after it has ended.                                       *)
(***************************************************************************)
EXTENDS Naturals, Sequences

CONSTANTS Jobs, Projects,
          MaxRepeats   \* bound: jobs that are handed out again

VARIABLES
    state,     \* what GET /jobs/{id} shows
    history,   \* the job and run behind each version of a project, oldest first
    extra,     \* the runs a job has beyond its first
    repeats    \* all of these so far

vars == <<state, history, extra, repeats>>

Init ==
    /\ state = [j \in Jobs |-> "ABSENT"]
    /\ history = [p \in Projects |-> <<>>]
    /\ extra = [j \in Jobs |-> 0]
    /\ repeats = 0

Ended(j) == state[j] \in {"COMPLETED", "FAILED"}
Underway(j) == state[j] = "PROCESSING" \/ (Ended(j) /\ extra[j] > 0)
Show(j, s) == state' = [state EXCEPT ![j] = s] /\ UNCHANGED <<extra, repeats>>

Accept(j) == state[j] = "ABSENT" /\ Show(j, "QUEUED") /\ UNCHANGED history
Begin(j)  == (state[j] = "QUEUED" \/ Underway(j)) /\ Show(j, "PROCESSING") /\ UNCHANGED history
Fail(j)   == Underway(j) /\ Show(j, "FAILED") /\ UNCHANGED history

\* An analysis completes with no version, run n of a design with the next one.
Analyse(j) == Underway(j) /\ Show(j, "COMPLETED") /\ UNCHANGED history
Design(j, n, p) ==
    /\ Underway(j) /\ Show(j, "COMPLETED")
    /\ n \in 1 .. 1 + extra[j]
    /\ \A q \in Projects : \A i \in DOMAIN history[q] : history[q][i] # [job |-> j, run |-> n]
    /\ history' = [history EXCEPT ![p] = Append(@, [job |-> j, run |-> n])]

Repeat(j) ==
    /\ repeats < MaxRepeats /\ state[j] # "ABSENT"
    /\ extra' = [extra EXCEPT ![j] = @ + 1] /\ repeats' = repeats + 1
    /\ UNCHANGED <<state, history>>

Next ==
    \E j \in Jobs :
        \/ Accept(j) \/ Begin(j) \/ Fail(j) \/ Analyse(j) \/ Repeat(j)
        \/ \E n \in 1 .. 1 + extra[j], p \in Projects : Design(j, n, p)

Spec == Init /\ [][Next]_vars
===============================================================================
