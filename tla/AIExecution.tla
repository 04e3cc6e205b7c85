------------------------------ MODULE AIExecution ------------------------------
(***************************************************************************)
(* The execution of an AI feature for an organisation                       *)
(* (backend/app/modules/ai_orchestration and ai), on the registry of        *)
(* AIRegistry while admins go on changing registry, wirings and             *)
(* organisations.                                                          *)
(*                                                                         *)
(* A request reads what it needs row by row, each row once and in a query   *)
(* of its own; calls the provider, again after some failures; and commits   *)
(* one record of the outcome, which fails when the workflow is configured   *)
(* with an id that a record cannot hold.                                   *)
(***************************************************************************)
EXTENDS AIRegistry, Sequences, FiniteSets

CONSTANTS
    Orgs,          \* organisations
    Requests,      \* execution requests
    Providers,     \* providers that have credentials (build_ai_providers)
    Wired,         \* the wirings an instance starts from
    BadPrompt,     \* a prompt of an agent that cannot be filled in
    BadId,         \* an id of a workflow that is no UUID
    MaxRetries,    \* ai_max_retries
    MaxFaults      \* bound: requests that die

VARIABLES
    status,     \* organisations.status
    wiring,     \* feature_wirings: one row for an organisation and a feature
    exec,       \* where each request is, and what it has read
    records,    \* ai_executions rows
    attempts,   \* history: the outcomes of a request's calls of the provider
    served,     \* history: whether the provider carried one of them out
    closed,     \* history: what has been switched off ever since the request began
    faults      \* counted against the bound

environment == <<registry, status, wiring>>
execution   == <<exec, records, attempts, served>>
vars == <<environment, execution, closed, faults>>

OrgStatuses == {"active", "suspended", "archived"}

\* A configuration may name a model, and a workflow that may name an agent and a model.
Wirings == [enabled : BOOLEAN, content : Configurations]

ASSUME ConstantsType == MaxRetries \in Nat /\ Wired \subseteq Wirings
ASSUME ThingsDiffer ==
    Orgs \cap Items = {} /\ (Orgs \X Features) \cap (Orgs \cup Items) = {}

\* {**low, **high}
Merged(low, high) ==
    [k \in DOMAIN low \cup DOMAIN high |-> IF k \in DOMAIN high THEN high[k] ELSE low[k]]

\* The rows of a kind that a name in a configuration can mean.
Matching(kind, product, names) ==
    {i \in kind : /\ item[i] # NoRow
                  /\ item[i].product = product /\ item[i].status = "active"
                  /\ item[i].code \in names}

\* The name a configuration has under a key: a set of one, or of none.
Named(configuration, key) == {configuration[k] : k \in {key} \cap DOMAIN configuration}

-------------------------------------------------------------------------------
\* What one call of the provider can come to: content; an error that may pass (429, 5xx,
\* no connection); no answer in time; an answer that is refused (4xx) or has no choices or
\* data; or one without content, or that is not JSON.
Outcomes   == {"content", "busy", "timeout", "refused", "empty"}
Retried    == {"busy", "timeout"}
Unrecorded == {"empty"}
Results    == {"succeeded", "failed", "timed_out"}

\* Mutant: a call that timed out is a failure like any other.
ResultPlain(outcome) == IF outcome = "content" THEN "succeeded" ELSE "failed"

Result(outcome) ==
    CASE outcome = "content" -> "succeeded"
      [] outcome = "timeout" -> "timed_out"
      [] OTHER -> "failed"

\* Whether the provider may have done the work before the call came to that end.
Worked(outcome) == IF outcome \in {"content", "empty"} THEN {TRUE} ELSE BOOLEAN

Records == [request : Requests, org : Orgs, feature : Features, result : Results]

Waiting == [step |-> "waiting"]
Ended   == [step |-> "ended"]
Died    == [step |-> "died"]

Asked   == [org : Orgs, feature : Features]
Calling == [step : {"call", "store", "unfiled"}, asked : Asked, uses : SUBSET Items,
            bad : BOOLEAN, result : Results]

\* What a request knows, by its step.
Typed(q) ==
    \/ q \in {Waiting, Ended, Died}
    \/ q \in [step : {"answered"}, result : Results]
    \/ q \in Calling
    \/ /\ q.step \in {"organisation", "wiring", "feature", "product", "agent", "model"}
       /\ q.asked \in Asked
       /\ q.step = "wiring" => q.active \in BOOLEAN
       /\ q.step \in {"product", "agent", "model"} => q.product \in Products
       /\ q.step \in {"agent", "model"} => q.bad \in BOOLEAN
       /\ q.step = "model" => q.agent \in Agents

\* What a request depends on, and what of it cannot be used now.
Things == Orgs \cup (Orgs \X Features) \cup Items
Off == {o \in Orgs : status[o] # "active"}
           \cup {p \in Orgs \X Features : ~wiring[p].enabled}
           \cup {i \in Items : item[i] = NoRow \/ item[i].status # "active"}

Init ==
    /\ RegistryInit
    /\ status = [o \in Orgs |-> "active"]
    /\ wiring \in [Orgs \X Features -> Wired]
    /\ exec = [r \in Requests |-> Waiting]
    /\ records = {}
    /\ attempts = [r \in Requests |-> <<>>]
    /\ served = [r \in Requests |-> FALSE]
    /\ closed = [r \in Requests |-> Things]
    /\ faults = 0

-------------------------------------------------------------------------------
\* activate, suspend, archive: _set_status of the organisations' routes.
SetStatus(o, value) ==
    /\ Change
    /\ status' = [status EXCEPT ![o] = value]
    /\ UNCHANGED <<item, edit, wiring>>

\* A wiring is configured (FeatureWiring shows how), or switched in the table: the routes
\* that should switch it fail, as FeatureWiring!SwitchingWorks shows.
ChangeWiring(o, f, row) ==
    /\ Change
    /\ wiring' = [wiring EXCEPT ![<<o, f>>] = row]
    /\ UNCHANGED <<item, edit, status>>

Administer ==
    /\ \/ RegistryNext /\ UNCHANGED <<status, wiring>>
       \/ \E o \in Orgs, value \in OrgStatuses : SetStatus(o, value)
       \/ \E o \in Orgs, f \in Features, row \in Wirings : ChangeWiring(o, f, row)
    /\ closed' = [r \in Requests |-> closed[r] \cap Off']
    /\ UNCHANGED <<execution, faults>>

-------------------------------------------------------------------------------
At(r, step) == exec[r].step = step

\* Request r has read a row and goes on as next.
Go(r, next) ==
    /\ exec' = [exec EXCEPT ![r] = next]
    /\ UNCHANGED <<environment, records, attempts, served, closed, faults>>

\* A member of an organisation with ai.execute asks for a feature.
Start(r, org, feature) ==
    /\ At(r, "waiting")
    /\ exec' = [exec EXCEPT ![r] =
           [step |-> "organisation", asked |-> [org |-> org, feature |-> feature]]]
    /\ closed' = [closed EXCEPT ![r] = Off]
    /\ UNCHANGED <<environment, records, attempts, served, faults>>

\* Mutant: the organisation's status is not looked at.
ReadOrganisationUnchecked(r) ==
    /\ At(r, "organisation")
    /\ Go(r, [step |-> "wiring", asked |-> exec[r].asked, active |-> TRUE])

\* authorize reads two rows before it looks at either.
ReadOrganisation(r) ==
    /\ At(r, "organisation")
    /\ Go(r, [step |-> "wiring", asked |-> exec[r].asked,
              active |-> status[exec[r].asked.org] = "active"])

ReadWiring(r) ==
    LET q   == exec[r]
        row == wiring[<<q.asked.org, q.asked.feature>>] IN
    /\ At(r, "wiring")
    /\ Go(r, IF q.active /\ row.enabled
             THEN [step |-> "feature", asked |-> q.asked, wired |-> row.content]
             ELSE Ended)

\* _resolve_feature: the feature, then its product.
ReadFeature(r) ==
    LET q   == exec[r]
        row == item[q.asked.feature] IN
    /\ At(r, "feature")
    /\ Go(r, IF row # NoRow /\ row.status = "active"
             THEN [step |-> "product", asked |-> q.asked, product |-> row.product,
                   configuration |-> Merged(row.content, q.wired)]
             ELSE Ended)

\* A workflow must be configured, and name an agent; a model may be named by it or beside it.
\* What its id is, where it has one, shows when the record is made.
ReadProduct(r) ==
    LET q        == exec[r]
        workflow == q.configuration["workflow"] IN
    /\ At(r, "product")
    /\ Go(r, IF item[q.product].status = "active" /\ "workflow" \in DOMAIN q.configuration
             THEN [step |-> "agent", asked |-> q.asked, product |-> q.product,
                   agents |-> Named(workflow, "agent"),
                   models |-> Named(Merged(q.configuration, workflow), "model"),
                   bad |-> BadId \in Named(workflow, "id")]
             ELSE Ended)

\* The agent must be found, and its prompt fit for the request.
ReadAgent(r) ==
    LET q     == exec[r]
        found == {a \in Matching(Agents, q.product, q.agents) : item[a].content # BadPrompt} IN
    /\ At(r, "agent")
    /\ \/ found = {} /\ Go(r, Ended)
       \/ \E a \in found :
             Go(r, [step |-> "model", asked |-> q.asked, product |-> q.product, agent |-> a,
                    models |-> q.models, bad |-> q.bad])

\* The model must be found, and its provider configured.  A request for the analysis of an
\* image that does not come along fails here, before the provider is called.
ReadModel(r) ==
    LET q     == exec[r]
        found == {m \in Matching(Models, q.product, q.models) : item[m].content \in Providers} IN
    /\ At(r, "model")
    /\ \/ found = {} /\ Go(r, Ended)
       \/ \E m \in found, step \in {"call", "store"} :
             Go(r, [step |-> step, asked |-> q.asked,
                    uses |-> {q.product, q.agent, m}, bad |-> q.bad, result |-> "failed"])

\* Mutant: an error of the provider is not turned into an answer.
CallUncaught(r, outcome, worked) ==
    LET q == exec[r] IN
    /\ At(r, "call")
    /\ attempts' = [attempts EXCEPT ![r] = Append(@, outcome)]
    /\ served' = [served EXCEPT ![r] = @ \/ worked]
    /\ exec' = [exec EXCEPT ![r] =
           IF outcome \in Retried /\ Len(attempts[r]) < MaxRetries THEN q
           ELSE IF outcome # "content" THEN Ended
           ELSE [q EXCEPT !.step = "store", !.result = Result(outcome)]]
    /\ UNCHANGED <<environment, records, closed, faults>>

\* Mutant: a call that timed out is not repeated.
CallImpatient(r, outcome, worked) ==
    LET q == exec[r] IN
    /\ At(r, "call")
    /\ attempts' = [attempts EXCEPT ![r] = Append(@, outcome)]
    /\ served' = [served EXCEPT ![r] = @ \/ worked]
    /\ exec' = [exec EXCEPT ![r] =
           IF outcome = "busy" /\ Len(attempts[r]) < MaxRetries THEN q
           ELSE IF outcome \in Unrecorded THEN Ended
           ELSE [q EXCEPT !.step = "store", !.result = Result(outcome)]]
    /\ UNCHANGED <<environment, records, closed, faults>>

\* One call of the provider.  It is repeated after some failures, at once as far as the
\* other parts can see; what came back without content is an error and not recorded.
Call(r, outcome, worked) ==
    LET q == exec[r] IN
    /\ At(r, "call")
    /\ attempts' = [attempts EXCEPT ![r] = Append(@, outcome)]
    /\ served' = [served EXCEPT ![r] = @ \/ worked]
    /\ exec' = [exec EXCEPT ![r] =
           IF outcome \in Retried /\ Len(attempts[r]) < MaxRetries THEN q
           ELSE IF outcome \in Unrecorded THEN Ended
           ELSE [q EXCEPT !.step = "store", !.result = Result(outcome)]]
    /\ UNCHANGED <<environment, records, closed, faults>>

\* The record is committed and the answer sent.  An id of the workflow that is no UUID
\* ends the request in an error instead, with nothing written, whatever the provider did.
Store(r) ==
    LET q == exec[r] IN
    /\ At(r, "store")
    /\ \/ q.bad /\ Go(r, [q EXCEPT !.step = "unfiled"])
       \/ /\ ~q.bad
          /\ records' = records \cup {[request |-> r, org |-> q.asked.org,
                                       feature |-> q.asked.feature, result |-> q.result]}
          /\ exec' = [exec EXCEPT ![r] = [step |-> "answered", result |-> q.result]]
          /\ UNCHANGED <<environment, attempts, served, closed, faults>>

\* The process dies or a query fails; a call that was under way may still be carried out.
Die(r, worked) ==
    /\ exec[r].step \notin {"waiting", "ended", "unfiled", "died", "answered"}
    /\ faults < MaxFaults
    /\ faults' = faults + 1
    /\ worked => At(r, "call")
    /\ served' = [served EXCEPT ![r] = @ \/ worked]
    /\ exec' = [exec EXCEPT ![r] = Died]
    /\ UNCHANGED <<environment, records, attempts, closed>>

Serve(r) ==
    \/ ReadOrganisation(r) \/ ReadWiring(r) \/ ReadFeature(r) \/ ReadProduct(r)
    \/ ReadAgent(r) \/ ReadModel(r)
    \/ \E outcome \in Outcomes : \E worked \in Worked(outcome) : Call(r, outcome, worked)
    \/ Store(r)

Next ==
    \/ Administer
    \/ \E r \in Requests :
          \/ \E o \in Orgs, f \in Features : Start(r, o, f)
          \/ Serve(r)
          \/ \E worked \in BOOLEAN : Die(r, worked)

Spec == Init /\ [][Next]_vars

-------------------------------------------------------------------------------
\* Every variable holds a value of its type.
TypeOK ==
    /\ RegistryTypeOK
    /\ status \in [Orgs -> OrgStatuses]
    /\ wiring \in [Orgs \X Features -> Wirings]
    /\ DOMAIN exec = Requests /\ \A r \in Requests : Typed(exec[r])
    /\ records \subseteq Records
    /\ attempts \in [Requests -> Seq(Outcomes)]
    /\ served \in [Requests -> BOOLEAN]
    /\ DOMAIN closed = Requests

\* The audit record (ai/infrastructure/models.py:76) tells how the calls went: there is
\* one for an answered request, with the result the caller was told; it says succeeded or
\* timed out when the last call ended so, whatever the calls before it did; a call is only
\* repeated after a failure that may pass, and not too often.
RecordsTellOutcome ==
    /\ \A rec \in records :
          LET log  == attempts[rec.request]
              last == IF log = <<>> THEN "no call" ELSE log[Len(log)] IN
          /\ rec.result = "succeeded" <=> last = "content"
          /\ rec.result = "timed_out" <=> last = "timeout"
          /\ exec[rec.request] = [step |-> "answered", result |-> rec.result]
    /\ \A r \in Requests :
          /\ At(r, "answered") => Cardinality({rec \in records : rec.request = r}) = 1
          /\ Len(attempts[r]) <= MaxRetries + 1
          /\ \A n \in 1 .. Len(attempts[r]) - 1 : attempts[r][n] \in Retried

\* "every provider call records tokens/cost/latency" (ARCHITECTURE.md:228), as far as the
\* code goes: work that the provider did for a request that has not died is behind a record,
\* unless what came back last had no content (orchestrator.py:142) or the workflow has an id
\* that is no UUID (orchestrator.py:186), the two ways in which the code breaks the promise.
WorkIsRecorded ==
    \A r \in Requests :
        served[r] /\ exec[r].step \in {"answered", "ended", "unfiled"} =>
            \/ \E rec \in records : rec.request = r
            \/ At(r, "ended") /\ attempts[r][Len(attempts[r])] \in Unrecorded
            \/ At(r, "unfiled") /\ exec[r].bad

\* What was switched off before a request began and stayed off keeps it from the provider:
\* the organisation, the wiring, the feature, its product, the agent, the model.  (What is
\* switched off after it was read does not.)
ClosedStaysClosed ==
    \A r \in Requests :
        exec[r].step \in {"call", "store"} =>
            LET asked == exec[r].asked IN
            closed[r] \cap ({asked.org, <<asked.org, asked.feature>>, asked.feature}
                                \cup exec[r].uses) = {}

\* All of this looks to the caller and the audit like AIAnswers: a request has one answer
\* and one record, which tell how the calls went once all that are allowed were made, or
\* none of both, which is settled before the first call and by nothing a call brings.
Fits(q) == q.step \in {"organisation", "wiring", "feature", "product"} \/ ~q.bad
Shown == [r \in Requests |->
    LET q == exec[r] IN
    CASE q.step = "waiting"  -> [at |-> "waiting"]
      [] q.step = "answered" -> [at |-> "answered", result |-> q.result]
      [] q.step = "ended"    -> [at |-> "refused"]
      [] q.step = "unfiled"  -> [at |-> "unfiled"]
      [] q.step = "died"     -> [at |-> "lost"]
      [] OTHER -> [at |-> "open", org |-> q.asked.org, feature |-> q.asked.feature,
                   fits |-> Fits(q)]]
Answers == INSTANCE AIAnswers WITH state <- Shown, calls <- attempts, work <- served
ImplementsAnswers == Answers!Spec
===============================================================================
