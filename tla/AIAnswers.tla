------------------------------ MODULE AIAnswers ------------------------------
(***************************************************************************)
(* What the execution endpoint promises its caller and the audit, with no   *)
(* catalogue, wiring, organisation or process in it.  A question is asked   *)
(* of a provider again only after a failure that may pass, and as often as  *)
(* that is allowed; then, in one step, there is an answer and a record that *)
(* says the same.  Without a record there may only be a question that was   *)
(* refused before the first call, one whose last call brought nothing, one  *)
(* that was lost, and one that does not fit a record; the last is told by   *)
(* the question, before the first call, and never by what a call brings.    *)
(***************************************************************************)
EXTENDS Naturals, Sequences

CONSTANTS Requests, Orgs, Features,
          MaxRetries   \* calls beyond the first

VARIABLES
    state,     \* what a request is: waiting, open, answered, refused,
               \* unfiled or lost
    records,   \* the audit's rows
    calls,     \* the outcomes of a request's calls of the provider
    work       \* whether the provider did the work

vars == <<state, records, calls, work>>

Init ==
    /\ state = [r \in Requests |-> [at |-> "waiting"]]
    /\ records = {}
    /\ calls = [r \in Requests |-> <<>>]
    /\ work = [r \in Requests |-> FALSE]

Last(r) == IF calls[r] = <<>> THEN "no call" ELSE calls[r][Len(calls[r])]

\* A failure that may pass, and a call left to find out.
Again(r) == Last(r) \in {"busy", "timeout"} /\ Len(calls[r]) <= MaxRetries

Open(r) == state[r].at = "open"
MayCall(r) == Open(r) /\ (Last(r) = "no call" \/ Again(r))

\* The answer that the last call stands for.
Told(r) ==
    CASE Last(r) = "content" -> "succeeded"
      [] Last(r) = "timeout" -> "timed_out"
      [] OTHER -> "failed"

Ask(r, org, feature) ==
    /\ state[r].at = "waiting"
    /\ state' = [state EXCEPT ![r] = [at |-> "open", org |-> org, feature |-> feature,
                                        fits |-> TRUE]]
    /\ UNCHANGED <<records, calls, work>>

\* It is found, before the first call, that no record will hold this question.
Misfit(r) ==
    /\ Open(r) /\ Last(r) = "no call"
    /\ state' = [state EXCEPT ![r].fits = FALSE]
    /\ UNCHANGED <<records, calls, work>>

\* A call, after which nothing is said unless it brought nothing.
Call(r, outcome, worked) ==
    /\ MayCall(r)
    /\ outcome \in {"content", "empty"} => worked
    /\ calls' = [calls EXCEPT ![r] = Append(@, outcome)]
    /\ work' = [work EXCEPT ![r] = @ \/ worked]
    /\ state' = IF outcome = "empty" THEN [state EXCEPT ![r] = [at |-> "refused"]] ELSE state
    /\ UNCHANGED records

Answer(r) ==
    /\ Open(r) /\ state[r].fits /\ ~Again(r)
    /\ state' = [state EXCEPT ![r] = [at |-> "answered", result |-> Told(r)]]
    /\ records' = records \cup {[request |-> r, org |-> state[r].org,
                                 feature |-> state[r].feature, result |-> Told(r)]}
    /\ UNCHANGED <<calls, work>>

\* The end of a question that no record holds: no answer, and no record.
Unfile(r) ==
    /\ Open(r) /\ ~state[r].fits /\ ~Again(r)
    /\ state' = [state EXCEPT ![r] = [at |-> "unfiled"]]
    /\ UNCHANGED <<records, calls, work>>

Refuse(r) ==
    /\ Open(r) /\ Last(r) = "no call"
    /\ state' = [state EXCEPT ![r] = [at |-> "refused"]]
    /\ UNCHANGED <<records, calls, work>>

\* The request is lost, and the call it was in may still be carried out.
Lose(r, worked) ==
    /\ Open(r) /\ (worked => MayCall(r))
    /\ state' = [state EXCEPT ![r] = [at |-> "lost"]]
    /\ work' = [work EXCEPT ![r] = @ \/ worked]
    /\ UNCHANGED <<records, calls>>

Next ==
    \E r \in Requests :
        \/ \E o \in Orgs, f \in Features : Ask(r, o, f)
        \/ \E outcome \in {"content", "busy", "timeout", "refused", "empty"}, worked \in BOOLEAN :
              Call(r, outcome, worked)
        \/ Misfit(r) \/ Answer(r) \/ Unfile(r) \/ Refuse(r)
        \/ \E worked \in BOOLEAN : Lose(r, worked)

Spec == Init /\ [][Next]_vars
===============================================================================
