------------------------------- MODULE AIRegistry -------------------------------
(***************************************************************************)
(* The registry of AI products, features, agents and models                 *)
(* (backend/app/modules/ai/api/routes.py).  The four kinds have the same     *)
(* routes, and every one of them ends in _commit.                           *)
(*                                                                         *)
(* A handler reads an item, changes it and commits; handlers interleave      *)
(* between the read and the commit, and an UPDATE names only the columns     *)
(* that differ from the row that was read.                                  *)
(***************************************************************************)
EXTENDS Naturals

CONSTANTS
    Products, Features, Agents, Models,   \* rows that can exist
    Codes,        \* codes an item can have
    Configurations, Prompts, Vendors,     \* what features, agents and models configure
    Editors,      \* changes being made at a time
    Seed,         \* the registries an instance starts from
    MaxChanges    \* bound: changes

Items == Products \cup Features \cup Agents \cup Models

\* The table of an item, which is also the scope of its code.
Table(i) == CASE i \in Products -> Products [] i \in Features -> Features
              [] i \in Agents   -> Agents   [] i \in Models   -> Models

\* What matters of an item's other columns: a feature's configuration, an agent's prompt,
\* a model's provider.
Contents(i) == CASE i \in Features -> Configurations [] i \in Agents -> Prompts
                 [] i \in Models   -> Vendors        [] i \in Products -> {"none"}

NoProduct == "no product"

ASSUME TablesDiffer ==
    /\ Products \cap (Features \cup Agents \cup Models) = {}
    /\ Features \cap (Agents \cup Models) = {}
    /\ Agents \cap Models = {}

Statuses  == {"active", "inactive"}
Rows(i)   == [product : Products \cup {NoProduct}, code : Codes, content : Contents(i),
              status : Statuses, version : Nat \ {0}]
NoRow     == [version |-> 0]

New(product, code, content) ==
    [product |-> product, code |-> code, content |-> content,
     status |-> "active", version |-> 1]

\* code is unique among products; (product_id, code) in the other tables.
Clash(items, i, row) ==
    \E j \in Table(i) \ {i} :
        items[j] # NoRow /\ items[j].code = row.code /\ items[j].product = row.product

\* product_id names a product that exists; a product has none.
Placed(items, i, row) ==
    IF i \in Products THEN row.product = NoProduct
                      ELSE row.product \in Products /\ items[row.product] # NoRow

WellFormed(items) ==
    /\ DOMAIN items = Items
    /\ \A i \in Items : items[i] # NoRow =>
           items[i] \in Rows(i) /\ ~Clash(items, i, items[i]) /\ Placed(items, i, items[i])

ASSUME SeedWellFormed == \A items \in Seed : WellFormed(items)

VARIABLES item, edit, changes

registry == <<item, edit, changes>>

Idle  == [item |-> "none"]

RegistryInit ==
    /\ item \in Seed
    /\ edit = [e \in Editors |-> Idle]
    /\ changes = 0

Change == changes < MaxChanges /\ changes' = changes + 1

-------------------------------------------------------------------------------
\* POST .../create: the product of a feature, an agent or a model must exist.
Create(i, row) ==
    /\ Change
    /\ item[i] = NoRow
    /\ Placed(item, i, row)
    /\ ~Clash(item, i, row)
    /\ item' = [item EXCEPT ![i] = row]
    /\ UNCHANGED edit

\* A handler has read item i and is going to leave it as new.
Begin(e, i, new) ==
    /\ Change
    /\ edit[e] = Idle
    /\ edit' = [edit EXCEPT ![e] = [item |-> i, seen |-> item[i], new |-> new]]
    /\ UNCHANGED item

\* PATCH: any of code, content and product; the product must exist, and that of a
\* product is ignored.
BeginUpdate(e, i, code, content, product) ==
    /\ item[i] # NoRow
    /\ LET new == [item[i] EXCEPT !.code = code, !.content = content,
                                  !.product = IF i \in Products THEN @ ELSE product] IN
       Placed(item, i, new) /\ Begin(e, i, new)

\* activate and deactivate
BeginSetStatus(e, i, status) ==
    /\ item[i] # NoRow
    /\ Begin(e, i, [item[i] EXCEPT !.status = status])

\* version
BeginBump(e, i) ==
    /\ item[i] # NoRow
    /\ Begin(e, i, [item[i] EXCEPT !.version = @ + 1])

\* Mutant: every column is written.
ColumnAlways(seen, new, stored) == new

\* A column is written when its new value differs from the value that was read.
Column(seen, new, stored) == IF new = seen THEN stored ELSE new

Written(q, stored) ==
    [product |-> Column(q.seen.product, q.new.product, stored.product),
     code    |-> Column(q.seen.code, q.new.code, stored.code),
     content |-> Column(q.seen.content, q.new.content, stored.content),
     status  |-> Column(q.seen.status, q.new.status, stored.status),
     version |-> Column(q.seen.version, q.new.version, stored.version)]

\* Mutant: the code is looked up when the item is read, not when it is written.
CommitUnchecked(e) ==
    LET q == edit[e] IN
    /\ q # Idle
    /\ item' = [item EXCEPT ![q.item] = Written(q, @)]
    /\ edit' = [edit EXCEPT ![e] = Idle]
    /\ UNCHANGED changes

\* _commit: the change is committed, or a unique constraint refuses it.
Commit(e) ==
    LET q   == edit[e]
        row == Written(q, item[q.item]) IN
    /\ q # Idle
    /\ item' = IF Clash(item, q.item, row) THEN item ELSE [item EXCEPT ![q.item] = row]
    /\ edit' = [edit EXCEPT ![e] = Idle]
    /\ UNCHANGED changes

RegistryNext ==
    \/ \E i \in Items, product \in Products \cup {NoProduct}, code \in Codes :
       \E content \in Contents(i) : Create(i, New(product, code, content))
    \/ \E e \in Editors, i \in Items :
          \/ \E code \in Codes, content \in Contents(i), product \in Products :
                BeginUpdate(e, i, code, content, product)
          \/ \E status \in Statuses : BeginSetStatus(e, i, status)
          \/ BeginBump(e, i)
    \/ \E e \in Editors : Commit(e)

RegistrySpec == RegistryInit /\ [][RegistryNext]_registry

-------------------------------------------------------------------------------
\* Every variable holds a value of its type.
RegistryTypeOK ==
    /\ DOMAIN item = Items /\ \A i \in Items : item[i] \in Rows(i) \cup {NoRow}
    /\ DOMAIN edit = Editors /\ \A e \in Editors : edit[e] # Idle =>
           edit[e].item \in Items /\ edit[e].seen \in Rows(edit[e].item)
                                  /\ edit[e].new \in Rows(edit[e].item)
    /\ changes \in Nat

\* "A registry item with this code already exists in the scope." (routes.py:43): however
\* items are renamed and moved at the same time, a code names one item of a product, and
\* that product exists, so the orchestrator's lookups by code find one row or none.
CodesNameOneItem == WellFormed(item)

\* What a handler decided on an item that changed since undoes nothing: an item changes
\* its status only when it is activated or deactivated, its code, place and content only
\* when it is updated, and its version only when that is asked for.
EditsKeepOthers ==
    [][\A i \in Items : item[i] # NoRow =>
          /\ item'[i] # NoRow
          /\ \A column \in {"product", "code", "content", "status", "version"} :
                item'[i][column] # item[i][column] =>
                    \E e \in Editors : /\ edit[e] # Idle /\ edit'[e] = Idle
                                       /\ edit[e].item = i
                                       /\ edit[e].new[column] # edit[e].seen[column]]_item
===============================================================================
