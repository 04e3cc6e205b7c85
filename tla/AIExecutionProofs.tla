--------------------------- MODULE AIExecutionProofs ---------------------------
(***************************************************************************)
(* Proofs about AIRegistry and AIExecution, for any products, features,     *)
(* agents, models, organisations, requests, changes and retries.           *)
(***************************************************************************)
EXTENDS AIExecution, FiniteSetTheorems, TLAPS

\* The registry, with what its handlers are going to write.
RegistryOK ==
    /\ RegistryTypeOK
    /\ WellFormed(item)
    /\ \A e \in Editors : edit[e] # Idle =>
           item[edit[e].item] # NoRow /\ Placed(item, edit[e].item, edit[e].new)

-------------------------------------------------------------------------------
LEMMA TableShared ==
    ASSUME NEW i \in Items, NEW j \in Table(i)
    PROVE  /\ j \in Items
           /\ Table(j) = Table(i)
           /\ i \in Table(j)
<1>1. CASE i \in Products
    BY <1>1, TablesDiffer DEF Items, Table
<1>2. CASE i \in Features
    BY <1>2, TablesDiffer DEF Items, Table
<1>3. CASE i \in Agents
    BY <1>3, TablesDiffer DEF Items, Table
<1>4. CASE i \in Models
    BY <1>4, TablesDiffer DEF Items, Table
<1> QED
    BY <1>1, <1>2, <1>3, <1>4 DEF Items

LEMMA RowsAreNot == ASSUME NEW i, NEW row \in Rows(i) PROVE row # NoRow
BY DEF Rows, NoRow

LEMMA WrittenRow ==
    ASSUME NEW i \in Items, NEW q, q.seen \in Rows(i), q.new \in Rows(i), NEW stored \in Rows(i)
    PROVE  /\ Written(q, stored) \in Rows(i)
           /\ Written(q, stored).product \in {q.new.product, stored.product}
<1> DEFINE C == Contents(i)
<1> USE DEF Rows
<1>1. /\ q.new.product \in Products \cup {NoProduct} /\ stored.product \in Products \cup {NoProduct}
      /\ q.new.code \in Codes /\ stored.code \in Codes
      /\ q.new.content \in C /\ stored.content \in C
      /\ q.new.status \in Statuses /\ stored.status \in Statuses
      /\ q.new.version \in Nat \ {0} /\ stored.version \in Nat \ {0}
    OBVIOUS
<1> HIDE DEF C
<1>2. Rows(i) = [product : Products \cup {NoProduct}, code : Codes, content : C,
                 status : Statuses, version : Nat \ {0}]
    BY DEF C
<1> QED
    BY <1>1, <1>2 DEF Written, Column

\* A row put in its place keeps the registry in form, wherever it is still allowed.
LEMMA PutKeeps ==
    ASSUME WellFormed(item), NEW i \in Items, NEW row \in Rows(i),
           ~Clash(item, i, row), Placed(item, i, row),
           item' = [item EXCEPT ![i] = row]
    PROVE  /\ WellFormed(item)'
           /\ \A j \in Items : item[j] # NoRow => item'[j] # NoRow
<1>1. /\ DOMAIN item' = Items
      /\ item'[i] = row /\ row # NoRow
      /\ \A j \in Items \ {i} : item'[j] = item[j]
    BY RowsAreNot DEF WellFormed
<1>2. \A j \in Items : item[j] # NoRow => item'[j] # NoRow
    BY <1>1
<1>3. ASSUME NEW j \in Items, item'[j] # NoRow
      PROVE  item'[j] \in Rows(j) /\ ~Clash(item', j, item'[j]) /\ Placed(item', j, item'[j])
    <2>1. item'[j] \in Rows(j) /\ Placed(item, j, item'[j])
        BY <1>1, <1>3 DEF WellFormed
    <2>2. Placed(item', j, item'[j])
        BY <1>2, <2>1 DEF Placed, Items
    <2>3. ~Clash(item', j, item'[j])
        <3>1. CASE j = i
            BY <1>1, <3>1, TableShared DEF Clash
        <3>2. CASE j # i
            <4>1. ~Clash(item, j, item[j])
                BY <1>1, <1>3, <3>2 DEF WellFormed
            <4>2. ASSUME NEW k \in Table(j) \ {j}, item'[k] # NoRow,
                         item'[k].code = item[j].code, item'[k].product = item[j].product
                  PROVE  FALSE
                <5>1. k \in Items /\ j \in Table(k)
                    BY <4>2, TableShared
                <5>2. CASE k = i
                    BY <1>1, <1>3, <3>2, <4>2, <5>1, <5>2 DEF Clash
                <5>3. CASE k # i
                    BY <1>1, <4>1, <4>2, <5>1, <5>3 DEF Clash
                <5> QED
                    BY <5>2, <5>3
            <4> QED
                BY <1>1, <3>2, <4>2 DEF Clash
        <3> QED
            BY <3>1, <3>2
    <2> QED
        BY <2>1, <2>2, <2>3
<1>4. WellFormed(item')
    BY <1>1, <1>3 DEF WellFormed
<1> QED
    BY <1>2, <1>4

\* A handler that has read item i and is going to leave it as new, a row in its place.
LEMMA BeginKeeps ==
    ASSUME RegistryOK, NEW e \in Editors, NEW i \in Items, NEW new \in Rows(i),
           item[i] # NoRow, Placed(item, i, new), Begin(e, i, new)
    PROVE  RegistryOK'
<1> DEFINE q == [item |-> i, seen |-> item[i], new |-> new]
<1>1. item' = item /\ edit' = [edit EXCEPT ![e] = q] /\ changes' = changes + 1
    BY DEF Begin, Change
<1>2. item[i] \in Rows(i)
    BY DEF RegistryOK, WellFormed
<1>3. q.item = i /\ q.seen = item[i] /\ q.new = new
    OBVIOUS
<1> HIDE DEF q
<1>4. /\ DOMAIN edit' = Editors /\ edit'[e] = q
      /\ \A f \in Editors \ {e} : edit'[f] = edit[f]
    BY <1>1 DEF RegistryOK, RegistryTypeOK
<1>5. RegistryTypeOK'
    BY <1>1, <1>2, <1>3, <1>4 DEF RegistryOK, RegistryTypeOK
<1> QED
    BY <1>1, <1>3, <1>4, <1>5 DEF RegistryOK, WellFormed, Clash, Placed

LEMMA CommitKeeps ==
    ASSUME RegistryOK, NEW e \in Editors, Commit(e)
    PROVE  RegistryOK' /\ \A i \in Items : item[i] # NoRow => item'[i] # NoRow
<1> DEFINE q == edit[e]
           i == q.item
           row == Written(q, item[i])
<1>0. RegistryTypeOK /\ WellFormed(item)
    BY DEF RegistryOK
<1>1. q # Idle /\ i \in Items /\ q.seen \in Rows(i) /\ q.new \in Rows(i) /\ Placed(item, i, q.new)
         /\ item[i] # NoRow
    BY DEF Commit, RegistryOK, RegistryTypeOK
<1>2. /\ DOMAIN edit' = Editors /\ edit'[e] = Idle
      /\ \A f \in Editors \ {e} : edit'[f] = edit[f]
      /\ changes' = changes
    BY <1>0 DEF Commit, RegistryTypeOK
<1>3. \/ item' = item
      \/ ~Clash(item, i, row) /\ item' = [item EXCEPT ![i] = row]
    BY DEF Commit
<1>4. WellFormed(item)' /\ \A j \in Items : item[j] # NoRow => item'[j] # NoRow
    <2>1. CASE item' = item
        BY <1>0, <2>1 DEF WellFormed, Clash, Placed
    <2>2. CASE ~Clash(item, i, row) /\ item' = [item EXCEPT ![i] = row]
        <3>1. item[i] \in Rows(i) /\ Placed(item, i, item[i])
            BY <1>0, <1>1, <2>2 DEF WellFormed
        <3>2. row \in Rows(i) /\ row.product \in {q.new.product, item[i].product}
            BY <1>1, <3>1, WrittenRow
        <3> HIDE DEF row
        <3>3. Placed(item, i, row)
            BY <1>1, <3>1, <3>2 DEF Placed
        <3> QED
            BY <1>0, <1>1, <2>2, <3>2, <3>3, PutKeeps
    <2> QED
        BY <1>3, <2>1, <2>2
<1>5. RegistryTypeOK'
    BY <1>0, <1>2, <1>4 DEF RegistryTypeOK, WellFormed
<1>6. ASSUME NEW f \in Editors, edit'[f] # Idle
      PROVE  item'[edit'[f].item] # NoRow /\ Placed(item', edit'[f].item, edit'[f].new)
    <2>1. /\ edit'[f] = edit[f] /\ edit[f].item \in Items
          /\ item[edit[f].item] # NoRow /\ Placed(item, edit[f].item, edit[f].new)
        BY <1>2, <1>6 DEF RegistryOK, RegistryTypeOK
    <2> QED
        BY <1>4, <2>1 DEF Placed, Items
<1> QED
    BY <1>4, <1>5, <1>6 DEF RegistryOK

LEMMA CreateKeeps ==
    ASSUME RegistryOK, NEW i \in Items, NEW row \in Rows(i), Create(i, row)
    PROVE  RegistryOK' /\ \A j \in Items : item[j] # NoRow => item'[j] # NoRow
<1>1. WellFormed(item)' /\ \A j \in Items : item[j] # NoRow => item'[j] # NoRow
    BY PutKeeps DEF Create, RegistryOK
<1>2. RegistryTypeOK'
    BY <1>1 DEF Create, Change, RegistryOK, RegistryTypeOK, WellFormed
<1>3. ASSUME NEW f \in Editors, edit'[f] # Idle
      PROVE  item'[edit'[f].item] # NoRow /\ Placed(item', edit'[f].item, edit'[f].new)
    <2>1. /\ edit'[f] = edit[f] /\ edit[f].item \in Items
          /\ item[edit[f].item] # NoRow /\ Placed(item, edit[f].item, edit[f].new)
        BY <1>3 DEF Create, RegistryOK, RegistryTypeOK
    <2> QED
        BY <1>1, <2>1 DEF Placed, Items
<1> QED
    BY <1>1, <1>2, <1>3 DEF RegistryOK

LEMMA UpdatedRow ==
    ASSUME NEW i \in Items, NEW row \in Rows(i), NEW code \in Codes,
           NEW content \in Contents(i), NEW product \in Products
    PROVE  [row EXCEPT !.code = code, !.content = content,
                       !.product = IF i \in Products THEN @ ELSE product] \in Rows(i)
<1> DEFINE C == Contents(i)
<1>1. Rows(i) = [product : Products \cup {NoProduct}, code : Codes, content : C,
                 status : Statuses, version : Nat \ {0}]
    BY DEF Rows
<1>2. content \in C
    OBVIOUS
<1> DEFINE place == IF i \in Products THEN row.product ELSE product
<1>3. place \in Products \cup {NoProduct}
    BY <1>1
<1> HIDE DEF C, place
<1>4. [row EXCEPT !.code = code, !.content = content, !.product = place] \in Rows(i)
    <2> DEFINE R == [product : Products \cup {NoProduct}, code : Codes, content : C,
                     status : Statuses, version : Nat \ {0}]
               one == [row EXCEPT !.code = code]
               two == [one EXCEPT !.content = content]
    <2>1. one \in R
        BY <1>1
    <2> HIDE DEF one
    <2>2. two \in R
        BY <1>2, <2>1
    <2>3. two = [row EXCEPT !.code = code, !.content = content]
        BY DEF one
    <2> HIDE DEF two
    <2>4. [two EXCEPT !.product = place] \in R
        BY <1>3, <2>2
    <2> QED
        BY <1>1, <2>3, <2>4
<1>5. [row EXCEPT !.code = code, !.content = content, !.product = place]
          = [row EXCEPT !.code = code, !.content = content,
                        !.product = IF i \in Products THEN @ ELSE product]
    BY DEF place
<1> QED
    BY <1>4, <1>5

LEMMA RegistryKeeps ==
    ASSUME RegistryOK, RegistryNext
    PROVE  RegistryOK' /\ \A i \in Items : item[i] # NoRow => item'[i] # NoRow
<1>0. \A i \in Items : item[i] # NoRow => item[i] \in Rows(i) /\ Placed(item, i, item[i])
    BY DEF RegistryOK, WellFormed
<1>1. ASSUME NEW i \in Items, NEW product \in Products \cup {NoProduct}, NEW code \in Codes,
             NEW content \in Contents(i), Create(i, New(product, code, content))
      PROVE  RegistryOK' /\ \A j \in Items : item[j] # NoRow => item'[j] # NoRow
    <2>1. New(product, code, content) \in Rows(i)
        BY DEF New, Rows, Statuses
    <2> QED
        BY <1>1, <2>1, CreateKeeps
<1>2. ASSUME NEW e \in Editors, NEW i \in Items, NEW code \in Codes, NEW content \in Contents(i),
             NEW product \in Products, BeginUpdate(e, i, code, content, product)
      PROVE  RegistryOK' /\ item' = item
    <2> DEFINE new == [item[i] EXCEPT !.code = code, !.content = content,
                                      !.product = IF i \in Products THEN @ ELSE product]
    <2>1. item[i] # NoRow /\ Placed(item, i, new) /\ Begin(e, i, new)
        BY <1>2 DEF BeginUpdate
    <2>2. new \in Rows(i)
        BY <1>0, <2>1, UpdatedRow
    <2> HIDE DEF new
    <2> QED
        BY <2>1, <2>2, BeginKeeps DEF Begin
<1>3. ASSUME NEW e \in Editors, NEW i \in Items, NEW s \in Statuses, BeginSetStatus(e, i, s)
      PROVE  RegistryOK' /\ item' = item
    <2> DEFINE new == [item[i] EXCEPT !.status = s]
    <2>1. item[i] # NoRow /\ Begin(e, i, new)
        BY <1>3 DEF BeginSetStatus
    <2>2. new \in Rows(i) /\ Placed(item, i, new)
        <3>1. item[i] \in Rows(i) /\ Placed(item, i, item[i])
            BY <1>0, <2>1
        <3>2. new \in Rows(i) /\ new.product = item[i].product
            BY <3>1 DEF Rows
        <3> QED
            BY <3>1, <3>2 DEF Placed
    <2> HIDE DEF new
    <2> QED
        BY <2>1, <2>2, BeginKeeps DEF Begin
<1>4. ASSUME NEW e \in Editors, NEW i \in Items, BeginBump(e, i)
      PROVE  RegistryOK' /\ item' = item
    <2> DEFINE new == [item[i] EXCEPT !.version = @ + 1]
    <2>1. item[i] # NoRow /\ Begin(e, i, new)
        BY <1>4 DEF BeginBump
    <2>2. new \in Rows(i) /\ Placed(item, i, new)
        <3>1. item[i] \in Rows(i) /\ Placed(item, i, item[i])
            BY <1>0, <2>1
        <3>2. item[i].version + 1 \in Nat \ {0}
            BY <3>1 DEF Rows
        <3>3. new \in Rows(i) /\ new.product = item[i].product
            BY <3>1, <3>2 DEF Rows
        <3> QED
            BY <3>1, <3>3 DEF Placed
    <2> HIDE DEF new
    <2> QED
        BY <2>1, <2>2, BeginKeeps DEF Begin
<1> QED
    BY <1>1, <1>2, <1>3, <1>4, CommitKeeps DEF RegistryNext

LEMMA RegistryIdle == ASSUME RegistryOK, UNCHANGED registry PROVE RegistryOK'
BY DEF registry, RegistryOK, RegistryTypeOK, WellFormed, Clash, Placed

LEMMA RegistryStarts == ASSUME RegistryInit PROVE RegistryOK
BY SeedWellFormed DEF RegistryInit, RegistryOK, RegistryTypeOK, WellFormed, Idle

\* Who may have changed a column of item i.
LEMMA ColumnStep ==
    ASSUME RegistryOK, RegistryNext, NEW i \in Items, item[i] # NoRow,
           NEW column \in {"product", "code", "content", "status", "version"},
           item'[i][column] # item[i][column]
    PROVE  \E e \in Editors : /\ edit[e] # Idle /\ edit'[e] = Idle
                              /\ edit[e].item = i
                              /\ edit[e].new[column] # edit[e].seen[column]
<1>1. PICK e \in Editors : Commit(e)
    BY DEF RegistryNext, Create, BeginUpdate, BeginSetStatus, BeginBump, Begin, RegistryOK, WellFormed
<1> DEFINE q == edit[e]
           row == Written(q, item[q.item])
<1>2. q # Idle /\ edit'[e] = Idle
    BY <1>1 DEF Commit, RegistryOK, RegistryTypeOK
<1>3. q.item = i /\ item'[i] = row
    BY <1>1 DEF Commit, RegistryOK, WellFormed
<1>4. ASSUME q.new[column] = q.seen[column] PROVE row[column] = item[i][column]
    <2>1. CASE column = "product"
        BY <1>3, <1>4, <2>1 DEF Written, Column
    <2>2. CASE column = "code"
        BY <1>3, <1>4, <2>2 DEF Written, Column
    <2>3. CASE column = "content"
        BY <1>3, <1>4, <2>3 DEF Written, Column
    <2>4. CASE column = "status"
        BY <1>3, <1>4, <2>4 DEF Written, Column
    <2>5. CASE column = "version"
        BY <1>3, <1>4, <2>5 DEF Written, Column
    <2> QED
        BY <2>1, <2>2, <2>3, <2>4, <2>5
<1> QED
    BY <1>2, <1>3, <1>4

-------------------------------------------------------------------------------
\* What a request that has passed a step has found in use, and is not off since before it
\* began.
Checked(r) ==
    LET q    == exec[r]
        pair == <<q.asked.org, q.asked.feature>> IN
    /\ q.step # "waiting" => closed[r] \subseteq Off
    /\ q.step = "wiring" /\ q.active => q.asked.org \notin closed[r]
    /\ q.step \in {"feature", "product", "agent", "model", "call", "store"} =>
          q.asked.org \notin closed[r] /\ pair \notin closed[r]
    /\ q.step \in {"product", "agent", "model", "call", "store"} =>
          q.asked.feature \notin closed[r]
    /\ q.step = "product" => item[q.product] # NoRow
    /\ q.step \in {"agent", "model"} => q.product \notin closed[r]
    /\ q.step = "model" => q.agent \notin closed[r]
    /\ q.step \in {"call", "store"} => closed[r] \cap q.uses = {}

IInv ==
    /\ RegistryOK
    /\ TypeOK
    /\ \A r \in Requests : Checked(r)

LEMMA Distinct ==
    /\ \A o \in Orgs : o \in Off <=> status[o] # "active"
    /\ \A o \in Orgs, f \in Features : <<o, f>> \in Off <=> ~wiring[<<o, f>>].enabled
    /\ \A i \in Items : i \in Off <=> (item[i] = NoRow \/ item[i].status # "active")
BY ThingsDiffer DEF Off

LEMMA StepIsTyped ==
    ASSUME NEW q, Typed(q)
    PROVE  /\ q.step \in {"organisation", "wiring", "feature", "product", "agent", "model"} =>
                 q.asked \in Asked
           /\ q.step = "wiring" => q.active \in BOOLEAN
           /\ q.step \in {"product", "agent", "model"} => q.product \in Products
           /\ q.step \in {"agent", "model"} => q.bad \in BOOLEAN
           /\ q.step = "model" => q.agent \in Agents
           /\ q.step \in {"call", "store", "unfiled"} => q \in Calling
           /\ q.step = "answered" => q \in [step : {"answered"}, result : Results]
BY DEF Typed, Waiting, Ended, Died, Calling

\* A request that reads a row changes nothing else, and keeps what it has found.
LEMMA GoKeeps ==
    ASSUME IInv, NEW r \in Requests, NEW next, Go(r, next), Typed(next),
           exec[r].step # "waiting", next.step # "waiting",
           LET pair == <<next.asked.org, next.asked.feature>> IN
           /\ next.step = "wiring" /\ next.active => next.asked.org \notin closed[r]
           /\ next.step \in {"feature", "product", "agent", "model", "call", "store"} =>
                 next.asked.org \notin closed[r] /\ pair \notin closed[r]
           /\ next.step \in {"product", "agent", "model", "call", "store"} =>
                 next.asked.feature \notin closed[r]
           /\ next.step = "product" => item[next.product] # NoRow
           /\ next.step \in {"agent", "model"} => next.product \notin closed[r]
           /\ next.step = "model" => next.agent \notin closed[r]
           /\ next.step \in {"call", "store"} => closed[r] \cap next.uses = {}
    PROVE  IInv'
<1>1. UNCHANGED <<registry, status, wiring, records, attempts, served, closed, faults>>
    BY DEF Go, environment
<1>2. /\ DOMAIN exec' = Requests /\ exec'[r] = next
      /\ \A s \in Requests \ {r} : exec'[s] = exec[s]
    BY DEF Go, IInv, TypeOK
<1>3. UNCHANGED <<item, edit, changes>> /\ Off' = Off
    BY <1>1 DEF registry, Off
<1>4. RegistryOK'
    BY <1>1, RegistryIdle DEF IInv
<1>5. TypeOK'
    BY <1>1, <1>2, <1>4 DEF IInv, TypeOK, RegistryOK
<1>6. ASSUME NEW s \in Requests PROVE Checked(s)'
    <2>1. CASE s = r
        BY <1>1, <1>2, <1>3, <2>1 DEF IInv, Checked
    <2>2. CASE s # r
        BY <1>1, <1>2, <1>3, <2>2 DEF IInv, Checked
    <2> QED
        BY <2>1, <2>2
<1> QED
    BY <1>4, <1>5, <1>6 DEF IInv

LEMMA StopKeeps ==
    ASSUME IInv, NEW r \in Requests, Go(r, Ended), exec[r].step # "waiting"
    PROVE  IInv'
BY GoKeeps DEF Ended, Typed

\* The rows a name finds are in use now.
LEMMA MatchingInUse ==
    ASSUME RegistryOK, NEW kind, kind \subseteq Items, NEW product, NEW names,
           NEW i \in Matching(kind, product, names)
    PROVE  i \in kind /\ i \notin Off
BY Distinct DEF Matching

LEMMA ReadsKeep ==
    ASSUME IInv, NEW r \in Requests,
           \/ ReadOrganisation(r) \/ ReadWiring(r) \/ ReadFeature(r) \/ ReadProduct(r)
           \/ ReadAgent(r) \/ ReadModel(r)
    PROVE  IInv'
<1> DEFINE q == exec[r]
           org == q.asked.org
           feature == q.asked.feature
<1>0. /\ Typed(q) /\ Checked(r) /\ RegistryOK
      /\ \A i \in Items : item[i] # NoRow =>
             item[i] \in Rows(i) /\ Placed(item, i, item[i])
    BY DEF IInv, TypeOK, RegistryOK, WellFormed
<1>1. CASE ReadOrganisation(r)
    <2> DEFINE next == [step |-> "wiring", asked |-> q.asked, active |-> status[org] = "active"]
    <2>1. q.step = "organisation" /\ Go(r, next)
        BY <1>1 DEF ReadOrganisation, At
    <2>2. q.asked \in Asked /\ org \in Orgs
        BY <1>0, <2>1, StepIsTyped DEF Asked
    <2>3. next.active => org \notin closed[r]
        BY <1>0, <2>1, <2>2, Distinct DEF Checked
    <2>4. Typed(next)
        BY <2>2 DEF Typed
    <2> QED
        BY <2>1, <2>3, <2>4, GoKeeps
<1>2. CASE ReadWiring(r)
    <2>1. q.step = "wiring"
        BY <1>2 DEF ReadWiring, At
    <2>2. q.asked \in Asked /\ org \in Orgs /\ feature \in Features /\ q.active \in BOOLEAN
        BY <1>0, <2>1, StepIsTyped DEF Asked
    <2>3. CASE ~(q.active /\ wiring[<<org, feature>>].enabled)
        BY <1>2, <2>1, <2>3, StopKeeps DEF ReadWiring
    <2>4. CASE q.active /\ wiring[<<org, feature>>].enabled
        <3> DEFINE next == [step |-> "feature", asked |-> q.asked,
                            wired |-> wiring[<<org, feature>>].content]
        <3>1. Go(r, next)
            BY <1>2, <2>4 DEF ReadWiring
        <3>2. org \notin closed[r] /\ <<org, feature>> \notin closed[r]
            BY <1>0, <2>1, <2>2, <2>4, Distinct DEF Checked
        <3>3. Typed(next)
            BY <2>2 DEF Typed
        <3> QED
            BY <2>1, <3>1, <3>2, <3>3, GoKeeps
    <2> QED
        BY <2>3, <2>4
<1>3. CASE ReadFeature(r)
    <2>1. q.step = "feature"
        BY <1>3 DEF ReadFeature, At
    <2>2. q.asked \in Asked /\ feature \in Features /\ feature \in Items
        BY <1>0, <2>1, StepIsTyped DEF Asked, Items
    <2>3. CASE ~(item[feature] # NoRow /\ item[feature].status = "active")
        BY <1>3, <2>1, <2>3, StopKeeps DEF ReadFeature
    <2>4. CASE item[feature] # NoRow /\ item[feature].status = "active"
        <3> DEFINE next == [step |-> "product", asked |-> q.asked, product |-> item[feature].product,
                            configuration |-> Merged(item[feature].content, q.wired)]
        <3>1. Go(r, next)
            BY <1>3, <2>4 DEF ReadFeature
        <3>2. feature \notin closed[r]
            BY <1>0, <2>1, <2>2, <2>4, Distinct DEF Checked
        <3>3. item[feature].product \in Products /\ item[item[feature].product] # NoRow
            BY <1>0, <2>2, <2>4, TablesDiffer DEF Placed
        <3>4. Typed(next)
            BY <2>2, <3>3 DEF Typed
        <3> QED
            BY <1>0, <2>1, <3>1, <3>2, <3>3, <3>4, GoKeeps DEF Checked
    <2> QED
        BY <2>3, <2>4
<1>4. CASE ReadProduct(r)
    <2> DEFINE workflow == q.configuration["workflow"]
               agents == Named(workflow, "agent")
               models == Named(Merged(q.configuration, workflow), "model")
               bad == BadId \in Named(workflow, "id")
    <2>1. q.step = "product"
        BY <1>4 DEF ReadProduct, At
    <2>2. q.asked \in Asked /\ q.product \in Products /\ q.product \in Items
        BY <1>0, <2>1, StepIsTyped DEF Items
    <2>3. \/ Go(r, Ended)
          \/ /\ item[q.product].status = "active"
             /\ Go(r, [step |-> "agent", asked |-> q.asked, product |-> q.product,
                       agents |-> agents, models |-> models, bad |-> bad])
        BY <1>4 DEF ReadProduct
    <2>6. bad \in BOOLEAN
        OBVIOUS
    <2> HIDE DEF workflow, agents, models, bad
    <2>4. CASE Go(r, Ended)
        BY <2>1, <2>4, StopKeeps
    <2>5. CASE item[q.product].status = "active"
                  /\ Go(r, [step |-> "agent", asked |-> q.asked, product |-> q.product,
                            agents |-> agents, models |-> models, bad |-> bad])
        <3>1. q.product \notin closed[r]
            BY <1>0, <2>1, <2>2, <2>5, Distinct DEF Checked
        <3>2. Typed([step |-> "agent", asked |-> q.asked, product |-> q.product,
                     agents |-> agents, models |-> models, bad |-> bad])
            BY <2>2, <2>6 DEF Typed
        <3> QED
            BY <1>0, <2>1, <2>5, <3>1, <3>2, GoKeeps DEF Checked
    <2> QED
        BY <2>3, <2>4, <2>5
<1>5. CASE ReadAgent(r)
    <2>1. q.step = "agent"
        BY <1>5 DEF ReadAgent, At
    <2>2. q.asked \in Asked /\ q.product \in Products /\ q.bad \in BOOLEAN
        BY <1>0, <2>1, StepIsTyped
    <2>3. CASE Go(r, Ended)
        BY <2>1, <2>3, StopKeeps
    <2>4. ASSUME NEW a \in Matching(Agents, q.product, q.agents),
                 Go(r, [step |-> "model", asked |-> q.asked, product |-> q.product, agent |-> a,
                        models |-> q.models, bad |-> q.bad])
          PROVE  IInv'
        <3>1. a \in Agents /\ a \notin Off
            BY <1>0, MatchingInUse DEF Items
        <3>2. a \notin closed[r]
            BY <1>0, <2>1, <3>1 DEF Checked
        <3>3. Typed([step |-> "model", asked |-> q.asked, product |-> q.product, agent |-> a,
                     models |-> q.models, bad |-> q.bad])
            BY <2>2, <3>1 DEF Typed
        <3> QED
            BY <1>0, <2>1, <2>4, <3>2, <3>3, GoKeeps DEF Checked
    <2> QED
        BY <1>5, <2>3, <2>4 DEF ReadAgent
<1>6. CASE ReadModel(r)
    <2>1. q.step = "model"
        BY <1>6 DEF ReadModel, At
    <2>2. q.asked \in Asked /\ q.product \in Products /\ q.agent \in Agents
             /\ q.bad \in BOOLEAN
        BY <1>0, <2>1, StepIsTyped
    <2>3. CASE Go(r, Ended)
        BY <2>1, <2>3, StopKeeps
    <2>4. ASSUME NEW m \in Matching(Models, q.product, q.models), NEW step \in {"call", "store"},
                 Go(r, [step |-> step, asked |-> q.asked, uses |-> {q.product, q.agent, m},
                        bad |-> q.bad, result |-> "failed"])
          PROVE  IInv'
        <3>1. m \in Models /\ m \notin Off
            BY <1>0, MatchingInUse DEF Items
        <3>2. closed[r] \cap {q.product, q.agent, m} = {}
            BY <1>0, <2>1, <3>1 DEF Checked
        <3>3. Typed([step |-> step, asked |-> q.asked, uses |-> {q.product, q.agent, m},
                     bad |-> q.bad, result |-> "failed"])
            BY <2>2, <3>1 DEF Typed, Calling, Items, Results
        <3> QED
            BY <1>0, <2>1, <2>4, <3>2, <3>3, GoKeeps DEF Checked
    <2> QED
        BY <1>6, <2>3, <2>4 DEF ReadModel
<1> QED
    BY <1>1, <1>2, <1>3, <1>4, <1>5, <1>6

\* A step of request r that leaves registry, organisations and wirings alone, and leaves
\* the request where it was, calling as before, or at its end.
LEMMA MoveKeeps ==
    ASSUME IInv, NEW r \in Requests, NEW next, Typed(next),
           UNCHANGED <<environment, closed>>,
           exec' = [exec EXCEPT ![r] = next],
           exec[r].step # "waiting", next.step # "waiting",
           \/ next.step \in {"ended", "unfiled", "died", "answered"}
           \/ /\ next.step \in {"call", "store"} /\ exec[r].step \in {"call", "store"}
              /\ next.asked = exec[r].asked /\ next.uses = exec[r].uses,
           records' \subseteq Records,
           attempts' \in [Requests -> Seq(Outcomes)],
           served' \in [Requests -> BOOLEAN]
    PROVE  IInv'
<1>1. UNCHANGED <<registry, status, wiring, closed>>
    BY DEF environment
<1>2. /\ DOMAIN exec' = Requests /\ exec'[r] = next
      /\ \A s \in Requests \ {r} : exec'[s] = exec[s]
    BY DEF IInv, TypeOK
<1>3. UNCHANGED <<item, edit, changes>> /\ Off' = Off
    BY <1>1 DEF registry, Off
<1>4. RegistryOK'
    BY <1>1, RegistryIdle DEF IInv
<1>5. TypeOK'
    BY <1>1, <1>2, <1>4 DEF IInv, TypeOK, RegistryOK
<1>6. ASSUME NEW s \in Requests PROVE Checked(s)'
    <2>1. CASE s = r
        BY <1>1, <1>2, <1>3, <2>1 DEF IInv, Checked
    <2>2. CASE s # r
        BY <1>1, <1>2, <1>3, <2>2 DEF IInv, Checked
    <2> QED
        BY <2>1, <2>2
<1> QED
    BY <1>4, <1>5, <1>6 DEF IInv

\* A call that is over is a record of the same shape, with its result.
LEMMA CalledTyped ==
    ASSUME NEW q \in Calling, NEW outcome \in Outcomes
    PROVE  LET next == [q EXCEPT !.step = "store", !.result = Result(outcome)] IN
           /\ next \in Calling /\ next.step = "store"
           /\ next.asked = q.asked /\ next.uses = q.uses /\ next.bad = q.bad
           /\ next.result = Result(outcome)
<1>1. Result(outcome) \in Results
    BY DEF Result, Results, Outcomes
<1> QED
    BY <1>1 DEF Calling

LEMMA CallKeeps ==
    ASSUME IInv, NEW r \in Requests, NEW outcome \in Outcomes, NEW worked \in BOOLEAN,
           Call(r, outcome, worked)
    PROVE  IInv'
<1> DEFINE q == exec[r]
           next == [q EXCEPT !.step = "store", !.result = Result(outcome)]
<1>1. q \in Calling /\ q.step = "call"
    BY StepIsTyped DEF IInv, TypeOK, Call, At
<1>2. /\ next \in Calling /\ next.step = "store"
      /\ next.asked = q.asked /\ next.uses = q.uses
    BY <1>1, CalledTyped
<1>3. /\ attempts' \in [Requests -> Seq(Outcomes)]
      /\ served' \in [Requests -> BOOLEAN]
      /\ records' \subseteq Records
    BY DEF Call, IInv, TypeOK
<1>4. UNCHANGED <<environment, closed>>
    BY DEF Call
<1>5. \/ exec' = [exec EXCEPT ![r] = q]
      \/ exec' = [exec EXCEPT ![r] = Ended]
      \/ exec' = [exec EXCEPT ![r] = next]
    BY DEF Call
<1> HIDE DEF next
<1>6. /\ Typed(q) /\ Typed(Ended) /\ Typed(next)
      /\ Ended.step = "ended"
    BY <1>1, <1>2 DEF Typed, Ended
<1>7. exec[r].step # "waiting"
    BY <1>1
<1>8. CASE exec' = [exec EXCEPT ![r] = Ended]
    <2> DEFINE n == Ended
    <2>1. Typed(n) /\ n.step = "ended" /\ exec' = [exec EXCEPT ![r] = n]
        BY <1>6, <1>8
    <2> HIDE DEF n
    <2> QED
        BY <1>3, <1>4, <1>7, <2>1, MoveKeeps
<1>9. CASE exec' = [exec EXCEPT ![r] = next]
    BY <1>1, <1>2, <1>3, <1>4, <1>6, <1>7, <1>9, MoveKeeps
<1>10. CASE exec' = [exec EXCEPT ![r] = q]
    <2> DEFINE n == q
    <2>1. /\ Typed(n) /\ n.step = "call" /\ exec' = [exec EXCEPT ![r] = n]
          /\ n.asked = exec[r].asked /\ n.uses = exec[r].uses
          /\ exec[r].step = "call"
        BY <1>1, <1>6, <1>10
    <2> HIDE DEF n
    <2> QED
        BY <1>3, <1>4, <2>1, MoveKeeps
<1> QED
    BY <1>5, <1>8, <1>9, <1>10

\* The two ends of a record: it is written, or what it should hold cannot be written.
LEMMA StoreEnds ==
    ASSUME NEW r \in Requests, Store(r), exec[r] \in Calling
    PROVE  /\ exec[r].step = "store" /\ UNCHANGED <<environment, attempts, served, closed>>
           /\ \/ /\ ~exec[r].bad
                 /\ exec' = [exec EXCEPT ![r] = [step |-> "answered", result |-> exec[r].result]]
                 /\ records' = records \cup
                        {[request |-> r, org |-> exec[r].asked.org,
                          feature |-> exec[r].asked.feature, result |-> exec[r].result]}
              \/ /\ exec[r].bad /\ UNCHANGED records
                 /\ \E next \in Calling : /\ next.step = "unfiled" /\ next.bad
                                          /\ exec' = [exec EXCEPT ![r] = next]
<1> DEFINE q == exec[r]
           unfiled == [q EXCEPT !.step = "unfiled"]
<1>1. unfiled \in Calling /\ unfiled.step = "unfiled" /\ unfiled.bad = q.bad
    BY DEF Calling
<1>2. \/ q.bad /\ Go(r, unfiled)
      \/ /\ ~q.bad /\ UNCHANGED <<environment, attempts, served, closed>>
         /\ exec' = [exec EXCEPT ![r] = [step |-> "answered", result |-> q.result]]
         /\ records' = records \cup
                {[request |-> r, org |-> q.asked.org, feature |-> q.asked.feature,
                  result |-> q.result]}
    BY DEF Store
<1>3. q.step = "store"
    BY DEF Store, At
<1> HIDE DEF unfiled
<1> QED
    BY <1>1, <1>2, <1>3 DEF Go

LEMMA StoreKeeps == ASSUME IInv, NEW r \in Requests, Store(r) PROVE IInv'
<1> DEFINE q == exec[r]
           answer == [step |-> "answered", result |-> q.result]
<1>1. q \in Calling /\ q.step = "store"
    BY StepIsTyped DEF IInv, TypeOK, Store, At
<1>2. Typed(answer) /\ answer.step = "answered"
    BY <1>1 DEF Typed, Calling
<1>3. records' \subseteq Records
    BY <1>1, StoreEnds DEF IInv, TypeOK, Records, Calling, Asked
<1>4. /\ attempts' \in [Requests -> Seq(Outcomes)] /\ served' \in [Requests -> BOOLEAN]
      /\ UNCHANGED <<environment, closed>>
    BY <1>1, StoreEnds DEF IInv, TypeOK
<1> HIDE DEF answer
<1>5. CASE exec' = [exec EXCEPT ![r] = answer]
    BY <1>1, <1>2, <1>3, <1>4, <1>5, MoveKeeps
<1>6. ASSUME NEW next \in Calling, next.step = "unfiled", exec' = [exec EXCEPT ![r] = next]
      PROVE  IInv'
    <2>1. Typed(next)
        BY DEF Typed
    <2> QED
        BY <1>1, <1>3, <1>4, <1>6, <2>1, MoveKeeps
<1> QED
    BY <1>1, <1>5, <1>6, StoreEnds DEF answer

LEMMA DieKeeps ==
    ASSUME IInv, NEW r \in Requests, NEW worked \in BOOLEAN, Die(r, worked) PROVE IInv'
<1>1. /\ records' \subseteq Records
      /\ attempts' \in [Requests -> Seq(Outcomes)] /\ served' \in [Requests -> BOOLEAN]
      /\ UNCHANGED <<environment, closed>>
      /\ exec' = [exec EXCEPT ![r] = Died]
      /\ exec[r].step # "waiting"
    BY DEF Die, IInv, TypeOK
<1> DEFINE n == Died
<1>2. Typed(n) /\ n.step = "died" /\ exec' = [exec EXCEPT ![r] = n]
    BY <1>1 DEF Typed, Died
<1> HIDE DEF n
<1> QED
    BY <1>1, <1>2, MoveKeeps

LEMMA StartKeeps ==
    ASSUME IInv, NEW r \in Requests, NEW org \in Orgs, NEW feature \in Features,
           Start(r, org, feature)
    PROVE  IInv'
<1> DEFINE next == [step |-> "organisation", asked |-> [org |-> org, feature |-> feature]]
<1>1. UNCHANGED <<registry, status, wiring, records, attempts, served>>
    BY DEF Start, environment
<1>2. /\ DOMAIN exec' = Requests /\ exec'[r] = next
      /\ \A s \in Requests \ {r} : exec'[s] = exec[s]
      /\ DOMAIN closed' = Requests /\ closed'[r] = Off
      /\ \A s \in Requests \ {r} : closed'[s] = closed[s]
    BY DEF Start, IInv, TypeOK
<1>3. UNCHANGED <<item, edit, changes>> /\ Off' = Off
    BY <1>1 DEF registry, Off
<1>4. RegistryOK'
    BY <1>1, RegistryIdle DEF IInv
<1>5. Typed(next) /\ next.step = "organisation"
    BY DEF Typed, Asked
<1> HIDE DEF next
<1>6. TypeOK'
    BY <1>1, <1>2, <1>4, <1>5 DEF IInv, TypeOK, RegistryOK
<1>7. ASSUME NEW s \in Requests PROVE Checked(s)'
    <2>1. CASE s = r
        BY <1>2, <1>3, <1>5, <2>1 DEF Checked
    <2>2. CASE s # r
        BY <1>2, <1>3, <2>2 DEF IInv, Checked
    <2> QED
        BY <2>1, <2>2
<1> QED
    BY <1>4, <1>6, <1>7 DEF IInv

LEMMA AdministerKeeps == ASSUME IInv, Administer PROVE IInv'
<1>1. RegistryOK' /\ \A i \in Items : item[i] # NoRow => item'[i] # NoRow
    <2>1. CASE RegistryNext
        BY <2>1, RegistryKeeps DEF IInv
    <2>2. ASSUME NEW o \in Orgs, NEW value \in OrgStatuses, SetStatus(o, value)
          PROVE  item' = item /\ edit' = edit /\ changes' = changes + 1
        BY <2>2 DEF SetStatus, Change
    <2>3. ASSUME NEW o \in Orgs, NEW f \in Features, NEW row \in Wirings, ChangeWiring(o, f, row)
          PROVE  item' = item /\ edit' = edit /\ changes' = changes + 1
        BY <2>3 DEF ChangeWiring, Change
    <2>4. CASE item' = item /\ edit' = edit /\ changes' = changes + 1
        BY <2>4 DEF IInv, RegistryOK, RegistryTypeOK, WellFormed, Clash, Placed
    <2> QED
        BY <2>1, <2>2, <2>3, <2>4 DEF Administer
<1>2. status' \in [Orgs -> OrgStatuses] /\ wiring' \in [Orgs \X Features -> Wirings]
    <2>0. status \in [Orgs -> OrgStatuses] /\ wiring \in [Orgs \X Features -> Wirings]
        BY DEF IInv, TypeOK
    <2>1. CASE UNCHANGED <<status, wiring>>
        BY <2>0, <2>1
    <2>2. ASSUME NEW o \in Orgs, NEW value \in OrgStatuses, SetStatus(o, value)
          PROVE  status' \in [Orgs -> OrgStatuses] /\ wiring' = wiring
        BY <2>0, <2>2 DEF SetStatus
    <2>3. ASSUME NEW o \in Orgs, NEW f \in Features, NEW row \in Wirings, ChangeWiring(o, f, row)
          PROVE  status' = status /\ wiring' \in [Orgs \X Features -> Wirings]
        BY <2>0, <2>3 DEF ChangeWiring
    <2> QED
        BY <2>0, <2>1, <2>2, <2>3 DEF Administer
<1>3. /\ UNCHANGED <<exec, records, attempts, served>>
      /\ DOMAIN closed' = Requests
      /\ \A r \in Requests : closed'[r] = closed[r] \cap Off'
    BY DEF Administer, execution
<1>4. TypeOK'
    BY <1>1, <1>2, <1>3 DEF IInv, TypeOK, RegistryOK
<1>5. ASSUME NEW r \in Requests PROVE Checked(r)'
    <2>1. Typed(exec[r]) /\ Checked(r)
        BY DEF IInv, TypeOK
    <2>2. exec[r].step = "product" => exec[r].product \in Items
        BY <2>1, StepIsTyped DEF Items
    <2> QED
        BY <1>1, <1>3, <2>1, <2>2 DEF Checked
<1> QED
    BY <1>1, <1>4, <1>5 DEF IInv

LEMMA InitOK == ASSUME Init PROVE IInv
<1>1. RegistryOK
    BY RegistryStarts DEF Init
<1>2. TypeOK
    <2>1. status \in [Orgs -> OrgStatuses]
        BY DEF Init, OrgStatuses
    <2>2. wiring \in [Orgs \X Features -> Wirings]
        BY ConstantsType DEF Init
    <2>3. DOMAIN exec = Requests /\ \A r \in Requests : Typed(exec[r])
        BY DEF Init, Typed
    <2>4. attempts \in [Requests -> Seq(Outcomes)]
        BY DEF Init
    <2> QED
        BY <1>1, <2>1, <2>2, <2>3, <2>4 DEF Init, TypeOK, RegistryOK
<1>3. \A r \in Requests : Checked(r)
    BY DEF Init, Checked, Waiting
<1> QED
    BY <1>1, <1>2, <1>3 DEF IInv

LEMMA NextOK == ASSUME IInv, [Next]_vars PROVE IInv'
<1>1. CASE Next
    <2>1. ASSUME NEW r \in Requests, Serve(r) PROVE IInv'
        BY <2>1, ReadsKeep, CallKeeps, StoreKeeps DEF Serve, Worked
    <2> QED
        BY <1>1, <2>1, AdministerKeeps, StartKeeps, DieKeeps DEF Next
<1>2. CASE UNCHANGED vars
    <2>1. UNCHANGED <<registry, item, edit, changes, status, wiring, exec, records, attempts, served, closed>>
        BY <1>2 DEF vars, environment, execution, registry
    <2>2. RegistryOK' /\ Off' = Off
        BY <2>1, RegistryIdle DEF IInv, Off
    <2> QED
        BY <2>1, <2>2 DEF IInv, TypeOK, Checked, RegistryOK
<1> QED
    BY <1>1, <1>2

-------------------------------------------------------------------------------
\* Every variable holds a value of its type.
THEOREM TypeCorrect == Spec => []TypeOK
<1>1. Spec => []IInv
    BY InitOK, NextOK, PTL DEF Spec
<1> QED
    BY <1>1, PTL DEF IInv

\* However items are created, renamed and moved at the same time, a code names one item of
\* a product that exists (the unique constraints behind ai/api/routes.py:43).
THEOREM OneItemPerCode == Spec => []CodesNameOneItem
<1>1. Spec => []IInv
    BY InitOK, NextOK, PTL DEF Spec
<1>2. IInv => CodesNameOneItem
    BY DEF IInv, RegistryOK, CodesNameOneItem
<1> QED
    BY <1>1, <1>2, PTL

\* A request reaches the provider only with an organisation, a wiring, a feature, a
\* product, an agent and a model that have each been in use at some time since it began.
THEOREM NothingClosedIsUsed == Spec => []ClosedStaysClosed
<1>1. Spec => []IInv
    BY InitOK, NextOK, PTL DEF Spec
<1>2. IInv => ClosedStaysClosed
    BY DEF IInv, ClosedStaysClosed, Checked
<1> QED
    BY <1>1, <1>2, PTL

\* A column of a registry item changes only when somebody asked for that change, also
\* when handlers write over each other.
THEOREM EditsAreKept == Spec => EditsKeepOthers
<1>1. IInv /\ [Next]_vars =>
    [\A i \in Items : item[i] # NoRow =>
          /\ item'[i] # NoRow
          /\ \A column \in {"product", "code", "content", "status", "version"} :
                item'[i][column] # item[i][column] =>
                    \E e \in Editors : /\ edit[e] # Idle /\ edit'[e] = Idle
                                       /\ edit[e].item = i
                                       /\ edit[e].new[column] # edit[e].seen[column]]_item
    <2>1. ASSUME IInv, Next, item' # item PROVE RegistryNext
        BY <2>1 DEF Next, Administer, SetStatus, ChangeWiring, Start, Serve, ReadOrganisation,
                    ReadWiring, ReadFeature, ReadProduct, ReadAgent, ReadModel, Go, Call, Store,
                    Die, environment, registry
    <2>2. ASSUME UNCHANGED vars PROVE item' = item
        BY <2>2 DEF vars, environment, registry
    <2> QED
        BY <2>1, <2>2, RegistryKeeps, ColumnStep DEF IInv
<1> QED
    BY <1>1, InitOK, NextOK, PTL DEF Spec, EditsKeepOthers

-------------------------------------------------------------------------------
(***************************************************************************)
(* The records.  What a request's log, its record and the provider's work   *)
(* are is tied to the step it is at.                                       *)
(***************************************************************************)
Reading == {"organisation", "wiring", "feature", "product", "agent", "model"}
RecordsOf(r) == {rec \in records : rec.request = r}
Last(log) == IF log = <<>> THEN "no call" ELSE log[Len(log)]

LogOK(r) ==
    LET q   == exec[r]
        log == attempts[r] IN
    /\ q.step \in Reading \cup {"waiting"} => log = <<>> /\ ~served[r]
    /\ q.step = "call" => /\ Len(log) <= MaxRetries
                          /\ \A n \in 1 .. Len(log) : log[n] \in Retried
    /\ q.step \in {"store", "answered"} =>
           q.result = (IF log = <<>> THEN "failed" ELSE Result(Last(log)))
    /\ q.step = "store" => ~(Last(log) \in Retried /\ Len(log) <= MaxRetries)
    /\ q.step = "ended" /\ served[r] => log # <<>> /\ Last(log) \in Unrecorded
    /\ q.step = "unfiled" => q.bad
    /\ Len(log) <= MaxRetries + 1
    /\ \A n \in 1 .. Len(log) - 1 : log[n] \in Retried
    /\ q.step # "answered" => RecordsOf(r) = {}
    /\ q.step = "answered" => \E rec : RecordsOf(r) = {rec} /\ rec.result = q.result

Logs == IInv /\ \A r \in Requests : LogOK(r)

LEMMA LogFrame ==
    ASSUME NEW r \in Requests, LogOK(r),
           exec'[r] = exec[r], attempts'[r] = attempts[r], served'[r] = served[r],
           RecordsOf(r)' = RecordsOf(r)
    PROVE  LogOK(r)'
BY DEF LogOK

\* Only request r goes on, and adds no record.
LEMMA LogStep ==
    ASSUME Logs, NEW r \in Requests, LogOK(r)', UNCHANGED records,
           \A s \in Requests \ {r} : /\ exec'[s] = exec[s] /\ attempts'[s] = attempts[s]
                                     /\ served'[s] = served[s]
    PROVE  \A s \in Requests : LogOK(s)'
<1> SUFFICES ASSUME NEW s \in Requests, s # r PROVE LogOK(s)'
    OBVIOUS
<1>1. RecordsOf(s)' = RecordsOf(s)
    BY DEF RecordsOf
<1> QED
    BY <1>1, LogFrame DEF Logs

LEMMA LogGo ==
    ASSUME Logs, NEW r \in Requests, NEW next, Go(r, next), exec[r].step \in Reading,
           next.step \in Reading \cup {"ended", "call", "store"},
           next.step = "store" => next.result = "failed"
    PROVE  \A s \in Requests : LogOK(s)'
<1>1. /\ exec'[r] = next
      /\ \A s \in Requests \ {r} : exec'[s] = exec[s]
      /\ UNCHANGED <<attempts, served, records>>
    BY DEF Go, Logs, IInv, TypeOK
<1>2. LogOK(r) /\ attempts[r] = <<>> /\ ~served[r] /\ RecordsOf(r) = {}
    BY DEF Logs, LogOK, Reading
<1>3. RecordsOf(r)' = {} /\ Last(attempts'[r]) \notin Retried
    BY <1>1, <1>2 DEF RecordsOf, Last, Retried
<1>4. LogOK(r)'
    BY <1>1, <1>2, <1>3, ConstantsType DEF LogOK, Reading
<1> QED
    BY <1>1, <1>4, LogStep

LEMMA LogReads ==
    ASSUME Logs, NEW r \in Requests,
           \/ ReadOrganisation(r) \/ ReadWiring(r) \/ ReadFeature(r)
           \/ ReadProduct(r) \/ ReadAgent(r) \/ ReadModel(r)
    PROVE  \A s \in Requests : LogOK(s)'
<1> DEFINE Fit(next) == /\ next.step \in Reading \cup {"ended", "call", "store"}
                        /\ next.step = "store" => next.result = "failed"
<1>1. Fit(Ended)
    BY DEF Ended
<1>2. ASSUME ReadOrganisation(r) PROVE \E next : Fit(next) /\ Go(r, next) /\ exec[r].step \in Reading
    BY <1>2 DEF ReadOrganisation, At, Reading
<1>3. ASSUME ReadWiring(r) PROVE \E next : Fit(next) /\ Go(r, next) /\ exec[r].step \in Reading
    BY <1>1, <1>3 DEF ReadWiring, At, Reading
<1>4. ASSUME ReadFeature(r) PROVE \E next : Fit(next) /\ Go(r, next) /\ exec[r].step \in Reading
    BY <1>1, <1>4 DEF ReadFeature, At, Reading
<1>5. ASSUME ReadProduct(r) PROVE \E next : Fit(next) /\ Go(r, next) /\ exec[r].step \in Reading
    BY <1>1, <1>5 DEF ReadProduct, At, Reading
<1>6. ASSUME ReadAgent(r) PROVE \E next : Fit(next) /\ Go(r, next) /\ exec[r].step \in Reading
    BY <1>1, <1>6 DEF ReadAgent, At, Reading
<1>7. ASSUME ReadModel(r) PROVE \E next : Fit(next) /\ Go(r, next) /\ exec[r].step \in Reading
    BY <1>1, <1>7 DEF ReadModel, At, Reading
<1>8. PICK next : Fit(next) /\ Go(r, next) /\ exec[r].step \in Reading
    BY <1>2, <1>3, <1>4, <1>5, <1>6, <1>7
<1> QED
    BY <1>8, LogGo

LEMMA LogStart ==
    ASSUME Logs, NEW r \in Requests, NEW org, NEW feature, Start(r, org, feature)
    PROVE  \A s \in Requests : LogOK(s)'
<1> DEFINE next == [step |-> "organisation", asked |-> [org |-> org, feature |-> feature]]
<1>1. next.step \in Reading
    BY DEF Reading
<1>2. /\ exec'[r] = next /\ exec[r].step = "waiting"
      /\ \A s \in Requests \ {r} : exec'[s] = exec[s]
      /\ UNCHANGED <<attempts, served, records>>
    BY DEF Start, At, Logs, IInv, TypeOK
<1> HIDE DEF next
<1>3. attempts[r] = <<>> /\ ~served[r] /\ RecordsOf(r) = {}
    BY <1>2 DEF Logs, LogOK
<1>4. RecordsOf(r)' = {}
    BY <1>2, <1>3 DEF RecordsOf
<1>5. LogOK(r)'
    BY <1>1, <1>2, <1>3, <1>4, ConstantsType DEF LogOK, Reading
<1> QED
    BY <1>2, <1>5, LogStep

LEMMA LogCall ==
    ASSUME Logs, NEW r \in Requests, NEW outcome \in Outcomes, NEW worked \in Worked(outcome),
           Call(r, outcome, worked)
    PROVE  \A s \in Requests : LogOK(s)'
<1> DEFINE q    == exec[r]
           log  == attempts[r]
           next == [q EXCEPT !.step = "store", !.result = Result(outcome)]
<1>1. /\ q \in Calling /\ q.step = "call"
      /\ log \in Seq(Outcomes) /\ LogOK(r)
    BY StepIsTyped DEF Logs, IInv, TypeOK, Call, At
<1>2. /\ next.step = "store" /\ next.result = Result(outcome)
    BY <1>1, CalledTyped
<1>3. /\ Len(log) \in Nat /\ Len(log) <= MaxRetries /\ RecordsOf(r) = {}
      /\ \A n \in 1 .. Len(log) : log[n] \in Retried
    BY <1>1 DEF LogOK
<1>4. /\ attempts'[r] = Append(log, outcome)
      /\ UNCHANGED records
      /\ \A s \in Requests \ {r} : /\ exec'[s] = exec[s] /\ attempts'[s] = attempts[s]
                                   /\ served'[s] = served[s]
      /\ exec'[r] = IF outcome \in Retried /\ Len(log) < MaxRetries THEN q
                    ELSE IF outcome \in Unrecorded THEN Ended ELSE next
    BY DEF Call, Logs, IInv, TypeOK
<1> HIDE DEF next
<1>5. /\ attempts'[r] # <<>> /\ Len(attempts'[r]) = Len(log) + 1
      /\ attempts'[r][Len(attempts'[r])] = outcome
      /\ \A n \in 1 .. Len(log) : attempts'[r][n] = log[n]
    BY <1>1, <1>4
<1>6. /\ Len(attempts'[r]) <= MaxRetries + 1
      /\ \A n \in 1 .. Len(attempts'[r]) - 1 : attempts'[r][n] \in Retried
      /\ RecordsOf(r)' = {}
      /\ Last(attempts'[r]) = outcome
    <2>1. Len(attempts'[r]) <= MaxRetries + 1
        BY <1>3, <1>5, ConstantsType
    <2>2. Len(attempts'[r]) - 1 = Len(log)
        BY <1>3, <1>5
    <2>3. RecordsOf(r)' = {}
        BY <1>3, <1>4 DEF RecordsOf
    <2>4. Last(attempts'[r]) = outcome
        BY <1>5 DEF Last
    <2> QED
        BY <1>3, <1>5, <2>1, <2>2, <2>3, <2>4
<1>7. CASE outcome \in Retried /\ Len(log) < MaxRetries
    <2>1. exec'[r].step = "call"
        BY <1>1, <1>4, <1>7
    <2>2. Len(attempts'[r]) <= MaxRetries /\ \A n \in 1 .. Len(attempts'[r]) : attempts'[r][n] \in Retried
        BY <1>3, <1>5, <1>7, ConstantsType
    <2>3. LogOK(r)'
        BY <1>6, <2>1, <2>2 DEF LogOK, Reading
    <2> QED
        BY <1>4, <2>3, LogStep
<1>8. CASE ~(outcome \in Retried /\ Len(log) < MaxRetries) /\ outcome \in Unrecorded
    <2>1. exec'[r].step = "ended"
        BY <1>4, <1>8 DEF Ended
    <2>2. LogOK(r)'
        BY <1>5, <1>6, <1>8, <2>1 DEF LogOK, Reading
    <2> QED
        BY <1>4, <2>2, LogStep
<1>9. CASE ~(outcome \in Retried /\ Len(log) < MaxRetries) /\ outcome \notin Unrecorded
    <2>1. exec'[r] = next
        BY <1>4, <1>9
    <2>2. ~(Last(attempts'[r]) \in Retried /\ Len(attempts'[r]) <= MaxRetries)
        BY <1>3, <1>5, <1>6, <1>9, ConstantsType
    <2>3. LogOK(r)'
        BY <1>2, <1>5, <1>6, <2>1, <2>2 DEF LogOK, Reading
    <2> QED
        BY <1>4, <2>3, LogStep
<1> QED
    BY <1>7, <1>8, <1>9

LEMMA LogStore ==
    ASSUME Logs, NEW r \in Requests, Store(r) PROVE \A s \in Requests : LogOK(s)'
<1> DEFINE q   == exec[r]
           rec == [request |-> r, org |-> q.asked.org, feature |-> q.asked.feature,
                   result |-> q.result]
           answer == [step |-> "answered", result |-> q.result]
<1>1. /\ rec.request = r /\ rec.result = q.result
      /\ answer.step = "answered" /\ answer.result = q.result
    OBVIOUS
<1>2. /\ q.step = "store" /\ q \in Calling /\ LogOK(r) /\ DOMAIN exec = Requests
    BY StepIsTyped DEF Store, At, Logs, IInv, TypeOK
<1>3. UNCHANGED <<attempts, served>>
    BY <1>2, StoreEnds
<1>4. CASE exec' = [exec EXCEPT ![r] = answer] /\ records' = records \cup {rec}
    <2> HIDE DEF answer, rec
    <2>1. exec'[r] = answer /\ \A s \in Requests \ {r} : exec'[s] = exec[s]
        BY <1>2, <1>4
    <2>2. RecordsOf(r)' = {rec}
        <3>1. RecordsOf(r) = {}
            BY <1>2 DEF LogOK
        <3> QED
            BY <1>1, <1>4, <3>1 DEF RecordsOf
    <2>3. LogOK(r)'
        BY <1>1, <1>2, <1>3, <2>1, <2>2 DEF LogOK, Reading
    <2>4. ASSUME NEW s \in Requests, s # r PROVE LogOK(s)'
        <3>1. RecordsOf(s)' = RecordsOf(s)
            BY <1>1, <1>4, <2>4 DEF RecordsOf
        <3> QED
            BY <1>3, <2>1, <2>4, <3>1, LogFrame DEF Logs
    <2> QED
        BY <2>3, <2>4
<1>5. ASSUME NEW next \in Calling, next.step = "unfiled", next.bad, UNCHANGED records,
             exec' = [exec EXCEPT ![r] = next]
      PROVE  \A s \in Requests : LogOK(s)'
    <2>1. exec'[r] = next /\ \A s \in Requests \ {r} : exec'[s] = exec[s]
        BY <1>2, <1>5
    <2>2. RecordsOf(r)' = {}
        BY <1>2, <1>5 DEF LogOK, RecordsOf
    <2>3. LogOK(r)'
        BY <1>2, <1>3, <1>5, <2>1, <2>2 DEF LogOK, Reading
    <2> QED
        BY <1>3, <1>5, <2>1, <2>3, LogStep
<1> QED
    BY <1>2, <1>4, <1>5, StoreEnds

LEMMA LogDie ==
    ASSUME Logs, NEW r \in Requests, NEW worked \in BOOLEAN, Die(r, worked)
    PROVE  \A s \in Requests : LogOK(s)'
<1>1. /\ exec'[r].step = "died" /\ exec[r].step # "answered"
      /\ UNCHANGED <<attempts, records>>
      /\ \A s \in Requests \ {r} : exec'[s] = exec[s] /\ served'[s] = served[s]
    BY DEF Die, Died, Logs, IInv, TypeOK
<1>2. RecordsOf(r)' = {}
    BY <1>1 DEF RecordsOf, Logs, LogOK
<1>3. LogOK(r)'
    BY <1>1, <1>2 DEF Logs, LogOK, Reading
<1> QED
    BY <1>1, <1>3, LogStep

LEMMA LogsOK ==
    /\ Init => Logs
    /\ Logs /\ [Next]_vars => Logs'
<1>1. ASSUME Init PROVE Logs
    <2>1. ASSUME NEW r \in Requests PROVE LogOK(r)
        BY ConstantsType, <1>1 DEF Init, LogOK, Waiting, RecordsOf, Reading
    <2> QED
        BY <1>1, <2>1, InitOK DEF Logs
<1>2. ASSUME Logs, Next PROVE \A s \in Requests : LogOK(s)'
    <2>1. CASE UNCHANGED execution
        BY <1>2, <2>1, LogFrame DEF execution, Logs, RecordsOf
    <2>2. ASSUME NEW r \in Requests, Serve(r) PROVE \A s \in Requests : LogOK(s)'
        BY <1>2, <2>2, LogReads, LogCall, LogStore DEF Serve
    <2> QED
        BY <1>2, <2>1, <2>2, LogStart, LogDie DEF Next, Administer
<1>3. ASSUME Logs, UNCHANGED vars PROVE \A s \in Requests : LogOK(s)'
    BY <1>3, LogFrame DEF vars, execution, Logs, RecordsOf
<1> QED
    BY <1>1, <1>2, <1>3, NextOK DEF Logs

\* The record of a request tells how its calls of the provider went, and calls are repeated
\* only after failures that may pass (orchestrator.py:142, http.py:36).
THEOREM RecordsAreTrue == Spec => []RecordsTellOutcome
<1>1. Logs => RecordsTellOutcome
    <2> SUFFICES ASSUME Logs PROVE RecordsTellOutcome
        OBVIOUS
    <2>1. ASSUME NEW rec \in records
          PROVE  LET log  == attempts[rec.request]
                     last == IF log = <<>> THEN "no call" ELSE log[Len(log)] IN
                 /\ rec.result = "succeeded" <=> last = "content"
                 /\ rec.result = "timed_out" <=> last = "timeout"
                 /\ exec[rec.request] = [step |-> "answered", result |-> rec.result]
        <3> DEFINE r == rec.request
        <3>1. r \in Requests /\ rec \in RecordsOf(r)
            BY DEF Logs, IInv, TypeOK, Records, RecordsOf
        <3>2. LogOK(r) /\ exec[r].step = "answered" /\ rec.result = exec[r].result
            BY <3>1 DEF Logs, LogOK
        <3>3. exec[r] \in [step : {"answered"}, result : Results]
            BY <3>1, <3>2, StepIsTyped DEF Logs, IInv, TypeOK
        <3>4. exec[r] = [step |-> "answered", result |-> rec.result]
            BY <3>2, <3>3
        <3>5. rec.result = IF attempts[r] = <<>> THEN "failed" ELSE Result(Last(attempts[r]))
            BY <3>2 DEF LogOK
        <3> QED
            BY <3>4, <3>5 DEF Last, Result
    <2>2. ASSUME NEW r \in Requests
          PROVE  /\ At(r, "answered") => Cardinality({rec \in records : rec.request = r}) = 1
                 /\ Len(attempts[r]) <= MaxRetries + 1
                 /\ \A n \in 1 .. Len(attempts[r]) - 1 : attempts[r][n] \in Retried
        <3>1. LogOK(r)
            BY DEF Logs
        <3>2. ASSUME At(r, "answered")
              PROVE  Cardinality({rec \in records : rec.request = r}) = 1
            <4>1. PICK rec : RecordsOf(r) = {rec}
                BY <3>1, <3>2 DEF LogOK, At
            <4> QED
                BY <4>1, FS_Singleton DEF RecordsOf
        <3> QED
            BY <3>1, <3>2 DEF LogOK
    <2> QED
        BY <2>1, <2>2 DEF RecordsTellOutcome
<1> QED
    BY <1>1, LogsOK, PTL DEF Spec

\* Work the provider did is behind a record, unless the last answer had no content, the
\* workflow's id fits no record, or the request died (orchestrator.py:142 and :186).
THEOREM WorkLeavesRecord == Spec => []WorkIsRecorded
<1>1. Logs => WorkIsRecorded
    <2> SUFFICES ASSUME Logs, NEW r \in Requests, served[r],
                        exec[r].step \in {"answered", "ended", "unfiled"}
                 PROVE  \/ \E rec \in records : rec.request = r
                        \/ At(r, "ended") /\ attempts[r][Len(attempts[r])] \in Unrecorded
                        \/ At(r, "unfiled") /\ exec[r].bad
        BY DEF WorkIsRecorded
    <2>1. LogOK(r)
        BY DEF Logs
    <2>2. CASE exec[r].step = "answered"
        <3>1. PICK rec : RecordsOf(r) = {rec}
            BY <2>1, <2>2 DEF LogOK
        <3> QED
            BY <3>1 DEF RecordsOf
    <2>3. CASE exec[r].step = "ended"
        BY <2>1, <2>3 DEF LogOK, At, Last
    <2>4. CASE exec[r].step = "unfiled"
        BY <2>1, <2>4 DEF LogOK, At
    <2> QED
        BY <2>2, <2>3, <2>4
<1> QED
    BY <1>1, LogsOK, PTL DEF Spec

-------------------------------------------------------------------------------
(***************************************************************************)
(* What a request shows implements AIAnswers.                              *)
(***************************************************************************)
Facing(q) ==
    CASE q.step = "waiting"  -> [at |-> "waiting"]
      [] q.step = "answered" -> [at |-> "answered", result |-> q.result]
      [] q.step = "ended"    -> [at |-> "refused"]
      [] q.step = "unfiled"  -> [at |-> "unfiled"]
      [] q.step = "died"     -> [at |-> "lost"]
      [] OTHER -> [at |-> "open", org |-> q.asked.org, feature |-> q.asked.feature,
                   fits |-> Fits(q)]

Underway == Reading \cup {"call", "store"}

LEMMA OpenFacing ==
    ASSUME NEW q, q.step \in Underway
    PROVE  Facing(q) = [at |-> "open", org |-> q.asked.org, feature |-> q.asked.feature,
                        fits |-> Fits(q)]
BY DEF Facing, Underway, Reading

\* A step of one request shows in that request only.
LEMMA ShownStep ==
    ASSUME TypeOK, NEW r \in Requests, NEW next, exec' = [exec EXCEPT ![r] = next]
    PROVE  /\ Shown' = [Shown EXCEPT ![r] = Facing(next)]
           /\ Shown[r] = Facing(exec[r])
<1>1. Shown = [s \in Requests |-> Facing(exec[s])]
    BY DEF Shown, Facing
<1>2. Shown' = [s \in Requests |-> Facing(exec'[s])]
    BY DEF Shown, Facing
<1>3. \A s \in Requests : exec'[s] = IF s = r THEN next ELSE exec[s]
    BY DEF TypeOK
<1> HIDE DEF Facing
<1> QED
    BY <1>1, <1>2, <1>3

\* A request that is read for goes on with the same question, is found not to fit a record,
\* or ends, before any call.
LEMMA AnswerReads ==
    ASSUME Logs, NEW r \in Requests,
           \/ ReadOrganisation(r) \/ ReadWiring(r) \/ ReadFeature(r)
           \/ ReadProduct(r) \/ ReadAgent(r) \/ ReadModel(r)
    PROVE  Answers!Refuse(r) \/ Answers!Misfit(r) \/ UNCHANGED Answers!vars
<1> DEFINE Fit(next) == \/ next = Ended
                        \/ /\ next.step \in Underway /\ next.asked = exec[r].asked
                           /\ Fits(next) => Fits(exec[r])
<1>1. Fit(Ended)
    OBVIOUS
<1>2. ASSUME ReadOrganisation(r) PROVE \E next : Fit(next) /\ Go(r, next) /\ exec[r].step \in Reading
    BY <1>2 DEF ReadOrganisation, At, Reading, Underway, Fits
<1>3. ASSUME ReadWiring(r) PROVE \E next : Fit(next) /\ Go(r, next) /\ exec[r].step \in Reading
    BY <1>1, <1>3 DEF ReadWiring, At, Reading, Underway, Fits
<1>4. ASSUME ReadFeature(r) PROVE \E next : Fit(next) /\ Go(r, next) /\ exec[r].step \in Reading
    BY <1>1, <1>4 DEF ReadFeature, At, Reading, Underway, Fits
<1>5. ASSUME ReadProduct(r) PROVE \E next : Fit(next) /\ Go(r, next) /\ exec[r].step \in Reading
    BY <1>1, <1>5 DEF ReadProduct, At, Reading, Underway, Fits
<1>6. ASSUME ReadAgent(r) PROVE \E next : Fit(next) /\ Go(r, next) /\ exec[r].step \in Reading
    BY <1>1, <1>6 DEF ReadAgent, At, Reading, Underway, Fits
<1>7. ASSUME ReadModel(r) PROVE \E next : Fit(next) /\ Go(r, next) /\ exec[r].step \in Reading
    BY <1>1, <1>7 DEF ReadModel, At, Reading, Underway, Fits
<1>8. PICK next : Fit(next) /\ Go(r, next) /\ exec[r].step \in Reading
    BY <1>2, <1>3, <1>4, <1>5, <1>6, <1>7
<1>9. /\ Shown' = [Shown EXCEPT ![r] = Facing(next)] /\ Shown[r] = Facing(exec[r])
      /\ UNCHANGED <<records, attempts, served>>
    BY <1>8, ShownStep DEF Go, Logs, IInv
<1>10. exec[r].step \in Underway /\ attempts[r] = <<>>
    BY <1>8 DEF Underway, Logs, LogOK
<1>11. CASE next = Ended
    <2>1. Facing(next) = [at |-> "refused"] /\ Shown[r].at = "open"
        BY <1>9, <1>10, <1>11, OpenFacing DEF Facing, Ended
    <2> QED
        BY <1>9, <1>10, <2>1 DEF Answers!Refuse, Answers!Open, Answers!Last
<1>12. CASE /\ next.step \in Underway /\ next.asked = exec[r].asked
            /\ Fits(next) => Fits(exec[r])
    <2>1. /\ Facing(next) = [at |-> "open", org |-> exec[r].asked.org,
                             feature |-> exec[r].asked.feature, fits |-> Fits(next)]
          /\ Shown[r] = [at |-> "open", org |-> exec[r].asked.org,
                         feature |-> exec[r].asked.feature, fits |-> Fits(exec[r])]
        BY <1>9, <1>10, <1>12, OpenFacing
    <2>2. Fits(next) \in BOOLEAN /\ Fits(exec[r]) \in BOOLEAN
        BY DEF Fits
    <2>3. CASE Fits(next) = Fits(exec[r])
        <3>1. Shown' = Shown
            BY <1>9, <2>1, <2>3 DEF Shown
        <3> QED
            BY <1>9, <3>1 DEF Answers!vars
    <2>4. CASE Fits(next) = FALSE
        <3> DEFINE f == Fits(exec[r])
                   n == FALSE
                   was == [at |-> "open", org |-> exec[r].asked.org,
                           feature |-> exec[r].asked.feature, fits |-> f]
                   now == [at |-> "open", org |-> exec[r].asked.org,
                           feature |-> exec[r].asked.feature, fits |-> n]
        <3>1. Shown[r] = was /\ Facing(next) = now
            BY <2>1, <2>4
        <3> HIDE DEF f, n
        <3>2. was.at = "open" /\ now = [was EXCEPT !.fits = n]
            OBVIOUS
        <3> USE DEF n
        <3> HIDE DEF was, now
        <3>3. Shown' = [Shown EXCEPT ![r].fits = FALSE]
            BY <1>9, <3>1, <3>2
        <3>4. Shown[r].at = "open"
            BY <3>1, <3>2
        <3> QED
            BY <1>9, <1>10, <3>3, <3>4 DEF Answers!Misfit, Answers!Open, Answers!Last
    <2> QED
        BY <1>12, <2>2, <2>3, <2>4
<1> QED
    BY <1>8, <1>11, <1>12

\* A request that is in a call may call.
LEMMA CallsMay ==
    ASSUME Logs, NEW r \in Requests, exec[r].step = "call"
    PROVE  Answers!MayCall(r)
<1>1. Shown[r].at = "open"
    BY DEF Shown
<1>2. /\ attempts[r] \in Seq(Outcomes) /\ Len(attempts[r]) <= MaxRetries
      /\ \A n \in 1 .. Len(attempts[r]) : attempts[r][n] \in Retried
    BY DEF Logs, IInv, TypeOK, LogOK
<1>3. CASE attempts[r] = <<>>
    BY <1>1, <1>3 DEF Answers!MayCall, Answers!Open, Answers!Last
<1>4. CASE attempts[r] # <<>>
    <2>1. attempts[r][Len(attempts[r])] \in Retried
        BY <1>2, <1>4
    <2> QED
        BY <1>1, <1>2, <1>4, <2>1
        DEF Answers!MayCall, Answers!Open, Answers!Again, Answers!Last, Retried
<1> QED
    BY <1>3, <1>4

LEMMA AnswerCalls ==
    ASSUME Logs, NEW r \in Requests, NEW outcome \in Outcomes, NEW worked \in Worked(outcome),
           Call(r, outcome, worked)
    PROVE  Answers!Call(r, outcome, worked)
<1> DEFINE q == exec[r]
           stored == [q EXCEPT !.step = "store", !.result = Result(outcome)]
           next == IF outcome \in Retried /\ Len(attempts[r]) < MaxRetries THEN q
                   ELSE IF outcome \in Unrecorded THEN Ended ELSE stored
<1>1. /\ q \in Calling /\ q.step = "call"
      /\ exec' = [exec EXCEPT ![r] = next]
      /\ attempts' = [attempts EXCEPT ![r] = Append(@, outcome)]
      /\ served' = [served EXCEPT ![r] = @ \/ worked]
      /\ UNCHANGED records
    BY StepIsTyped DEF Logs, IInv, TypeOK, Call, At
<1>2. stored.step = "store" /\ stored.asked = q.asked /\ stored.bad = q.bad
    BY <1>1 DEF Calling
<1>3. Facing(next) = IF outcome = "empty" THEN [at |-> "refused"] ELSE Facing(q)
    <2>1. "call" \in Underway /\ "store" \in Underway
        BY DEF Underway
    <2>2. Facing(stored) = Facing(q)
        <3>1. Fits(stored) = Fits(q)
            BY <1>1, <1>2 DEF Fits
        <3> QED
            BY <1>1, <1>2, <2>1, <3>1, OpenFacing
    <2>3. Facing(Ended) = [at |-> "refused"]
        BY DEF Facing, Ended
    <2> HIDE DEF stored, q
    <2> QED
        BY <2>2, <2>3 DEF Unrecorded, Retried
<1> HIDE DEF next
<1>4. Shown' = [Shown EXCEPT ![r] = Facing(next)] /\ Shown[r] = Facing(q)
    BY <1>1, ShownStep DEF Logs, IInv
<1>5. Shown' = IF outcome = "empty" THEN [Shown EXCEPT ![r] = [at |-> "refused"]] ELSE Shown
    BY <1>3, <1>4 DEF Shown
<1>6. outcome \in {"content", "empty"} => worked
    BY DEF Worked
<1> QED
    BY <1>1, <1>5, <1>6, CallsMay DEF Answers!Call

LEMMA AnswerStores ==
    ASSUME Logs, NEW r \in Requests, Store(r) PROVE Answers!Answer(r) \/ Answers!Unfile(r)
<1> DEFINE q == exec[r]
           answer == [step |-> "answered", result |-> q.result]
           rec == [request |-> r, org |-> q.asked.org, feature |-> q.asked.feature,
                   result |-> q.result]
<1>1. q.step = "store" /\ LogOK(r) /\ q \in Calling
    BY StepIsTyped DEF Store, At, Logs, IInv, TypeOK
<1>2. UNCHANGED <<attempts, served>>
    BY <1>1, StoreEnds
<1>3. /\ Shown[r].at = "open" /\ (Shown[r].fits <=> ~q.bad)
      /\ Shown[r].org = q.asked.org /\ Shown[r].feature = q.asked.feature
    <2> DEFINE f == Fits(q)
               open == [at |-> "open", org |-> q.asked.org, feature |-> q.asked.feature,
                        fits |-> f]
    <2>1. f <=> ~q.bad
        BY <1>1 DEF Fits
    <2>2. Shown[r] = open
        <3>1. Shown[r] = Facing(q)
            BY DEF Shown, Facing
        <3> QED
            BY <1>1, <3>1, OpenFacing DEF Underway
    <2> HIDE DEF f
    <2>3. /\ open.at = "open" /\ open.org = q.asked.org /\ open.feature = q.asked.feature
          /\ open.fits = f
        OBVIOUS
    <2> HIDE DEF open
    <2> QED
        BY <2>1, <2>2, <2>3
<1>4. Answers!Last(r) = Last(attempts[r])
    BY DEF Answers!Last, Last
<1>5. Answers!Told(r) = q.result
    BY <1>1, <1>4 DEF LogOK, Answers!Told, Result, Last
<1>6. ~Answers!Again(r)
    BY <1>1, <1>4 DEF LogOK, Answers!Again, Retried
<1>7. CASE ~q.bad /\ exec' = [exec EXCEPT ![r] = answer] /\ records' = records \cup {rec}
    <2>1. Facing(answer) = [at |-> "answered", result |-> q.result]
        BY DEF Facing
    <2>2. Shown' = [Shown EXCEPT ![r] = Facing(answer)]
        BY <1>7, ShownStep DEF Logs, IInv
    <2>3. /\ Shown[r].fits
          /\ rec = [request |-> r, org |-> Shown[r].org, feature |-> Shown[r].feature,
                    result |-> Answers!Told(r)]
        BY <1>3, <1>5, <1>7
    <2>4. Shown' = [Shown EXCEPT ![r] = [at |-> "answered", result |-> Answers!Told(r)]]
        BY <1>5, <2>1, <2>2
    <2> HIDE DEF rec, answer, q
    <2> QED
        BY <1>2, <1>3, <1>6, <1>7, <2>3, <2>4 DEF Answers!Answer, Answers!Open
<1>8. ASSUME q.bad, UNCHANGED records, NEW next \in Calling, next.step = "unfiled",
             exec' = [exec EXCEPT ![r] = next]
      PROVE  Answers!Unfile(r)
    <2>1. Facing(next) = [at |-> "unfiled"]
        BY <1>8 DEF Facing
    <2>2. Shown' = [Shown EXCEPT ![r] = Facing(next)]
        BY <1>8, ShownStep DEF Logs, IInv
    <2> QED
        BY <1>2, <1>3, <1>6, <1>8, <2>1, <2>2 DEF Answers!Unfile, Answers!Open
<1> HIDE DEF rec, answer
<1> QED
    BY <1>1, <1>7, <1>8, StoreEnds DEF rec, answer

LEMMA AnswerDies ==
    ASSUME Logs, NEW r \in Requests, NEW worked \in BOOLEAN, Die(r, worked)
    PROVE  Answers!Lose(r, worked)
<1>1. /\ exec' = [exec EXCEPT ![r] = Died]
      /\ served' = [served EXCEPT ![r] = @ \/ worked]
      /\ worked => exec[r].step = "call"
      /\ UNCHANGED <<records, attempts>>
    BY DEF Die, At
<1>2. Facing(Died) = [at |-> "lost"]
    BY DEF Facing, Died
<1>3. Shown' = [Shown EXCEPT ![r] = Facing(Died)] /\ Shown[r] = Facing(exec[r])
    BY <1>1, ShownStep DEF Logs, IInv
<1>4. Facing(exec[r]).at = "open"
    BY DEF Die, Facing
<1> QED
    BY <1>1, <1>2, <1>3, <1>4, CallsMay DEF Answers!Lose, Answers!Open

LEMMA AnswerStarts ==
    ASSUME Logs, NEW r \in Requests, NEW org \in Orgs, NEW feature \in Features,
           Start(r, org, feature)
    PROVE  Answers!Ask(r, org, feature)
<1> DEFINE next == [step |-> "organisation", asked |-> [org |-> org, feature |-> feature]]
<1>1. /\ exec' = [exec EXCEPT ![r] = next] /\ exec[r].step = "waiting"
      /\ UNCHANGED <<records, attempts, served>>
    BY DEF Start, At
<1>2. Facing(next) = [at |-> "open", org |-> org, feature |-> feature, fits |-> TRUE]
    BY DEF Facing, Fits
<1>3. Facing(exec[r]).at = "waiting"
    BY <1>1 DEF Facing
<1> HIDE DEF next
<1>4. Shown' = [Shown EXCEPT ![r] = Facing(next)] /\ Shown[r] = Facing(exec[r])
    BY <1>1, ShownStep DEF Logs, IInv
<1> QED
    BY <1>1, <1>2, <1>3, <1>4 DEF Answers!Ask

\* Each request has one answer and one record that tell how its calls of the provider
\* went; it is given up only when no call is left, and nothing but an empty answer, a death
\* or a configuration that was read before the first call keeps work of the provider out of
\* the records (orchestrator.py:140 and :186, http.py:25).
THEOREM Implements == Spec => ImplementsAnswers
<1>1. ASSUME Init PROVE Answers!Init
    <2>1. Shown = [r \in Requests |-> [at |-> "waiting"]]
        BY <1>1 DEF Init, Shown, Waiting
    <2> QED
        BY <1>1, <2>1 DEF Init, Answers!Init
<1>2. ASSUME Logs, [Next]_vars PROVE [Answers!Next]_Answers!vars
    <2>1. CASE UNCHANGED execution
        <3>1. Shown' = Shown
            BY <2>1 DEF execution, Shown
        <3> QED
            BY <2>1, <3>1 DEF execution, Answers!vars
    <2>2. ASSUME NEW r \in Requests, Serve(r) PROVE [Answers!Next]_Answers!vars
        <3>1. ASSUME NEW outcome \in Outcomes, NEW worked \in Worked(outcome),
                     Call(r, outcome, worked)
              PROVE  Answers!Next
            <4>1. worked \in BOOLEAN
                BY DEF Worked
            <4> QED
                BY <1>2, <3>1, <4>1, AnswerCalls DEF Answers!Next, Outcomes
        <3>2. ASSUME Store(r) PROVE Answers!Next
            BY <1>2, <3>2, AnswerStores DEF Answers!Next
        <3>3. CASE \/ ReadOrganisation(r) \/ ReadWiring(r) \/ ReadFeature(r)
                   \/ ReadProduct(r) \/ ReadAgent(r) \/ ReadModel(r)
            BY <1>2, <3>3, AnswerReads DEF Answers!Next
        <3> QED
            BY <2>2, <3>1, <3>2, <3>3 DEF Serve
    <2>3. ASSUME NEW r \in Requests, NEW o \in Orgs, NEW f \in Features, Start(r, o, f)
          PROVE  Answers!Next
        BY <1>2, <2>3, AnswerStarts DEF Answers!Next
    <2>4. ASSUME NEW r \in Requests, NEW worked \in BOOLEAN, Die(r, worked)
          PROVE  Answers!Next
        BY <1>2, <2>4, AnswerDies DEF Answers!Next
    <2>5. UNCHANGED vars => UNCHANGED execution
        BY DEF vars, execution
    <2> QED
        BY <1>2, <2>1, <2>2, <2>3, <2>4, <2>5 DEF Next, Administer
<1> QED
    BY <1>1, <1>2, LogsOK, PTL DEF Spec, ImplementsAnswers, Answers!Spec
================================================================================
