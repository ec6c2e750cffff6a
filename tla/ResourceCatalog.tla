--------------------------- MODULE ResourceCatalog --------------------------
(***************************************************************************)
(* The HTTP requests on the catalogs of products, devices and rules        *)
(* (ResourceCatalogService and the two stores).  A save is one statement;  *)
(* a delete of the SQLite store is two, the test that no shelf is bound to *)
(* the resource and the DELETE, with no transaction around them.           *)
(*                                                                         *)
(* A resource keeps the table it was created in, and with it the set of    *)
(* kinds it can have.  Within the devices table its kind can change: PUT   *)
(* /devices/{id} saves the kind of its body, and DELETE /devices/{id}      *)
(* believes the kind of its query string.  Under MatchingKinds no client   *)
(* does that: it names the kind the resource was created with.             *)
(***************************************************************************)
EXTENDS SmartShelfStore

CONSTANTS
  Clerks,         \* catalog deletions in flight at a time
  NaturalKind,    \* NaturalKind[i]: the kind resource i is created with
  MatchingKinds   \* clients name no other kind

\* Clients that name no other kind did not before the process started either.
ASSUME CatalogAssumption ==
  /\ NaturalKind \in [ResourceIds -> ResourceKinds]
  /\ MatchingKinds \in BOOLEAN
  /\ MatchingKinds =>
       /\ \A i \in ResourceIds : Seed[i] \in {"None", NaturalKind[i]}
       /\ \A s \in ShelfIds : Stock[s] # NoShelf =>
            \A b \in Stock[s].bindings : b.kind = NaturalKind[b.id]

VARIABLE del      \* del[d]: the catalog deletion in slot d

Deletions ==
  [step : {"idle", "bound", "delete"}, kind : ResourceKinds \cup {"None"},
   id : ResourceIds \cup {NoShelf},
   answer : {"none", "ok", "conflict", "aborted"}]

NoDeletion ==
  [step |-> "idle", kind |-> "None", id |-> NoShelf, answer |-> "none"]

CatalogTypeOK == del \in [Clerks -> Deletions]

CatalogInit == del = [d \in Clerks |-> NoDeletion]

\* The kinds clients name for resource i.
NamedKinds(i) ==
  IF MatchingKinds THEN {NaturalKind[i]}
  ELSE {k \in ResourceKinds : TableOf(k) = TableOf(NaturalKind[i])}

-----------------------------------------------------------------------------
\* POST and PUT of a product, a device or a rule: insert or overwrite.
SaveResource(d, i, kind, body) ==
  /\ del[d].step = "idle"
  /\ UpsertResource(i, kind, body)
  /\ UNCHANGED <<del, shelfTables, historyTables>>

FinishDeletion(d, answer) ==
  del' = [del EXCEPT ![d] = [NoDeletion EXCEPT !.answer = answer]]

RequestDeletion(d, i, kind) ==
  /\ del[d].step = "idle"
  /\ del' = [del EXCEPT ![d] = [NoDeletion EXCEPT !.step = "bound", !.kind = kind,
                                                  !.id = i]]
  /\ UNCHANGED tables

\* The DELETE, and its answer from the number of affected rows.
DropResource(d) ==
  LET kind == del[d].kind
      i    == del[d].id
  IN  IF Deletes(kind, i)
      THEN /\ catalog' = [catalog EXCEPT ![i] = "None"]
           /\ FinishDeletion(d, "ok")
      ELSE FinishDeletion(d, "conflict") /\ UNCHANGED catalog

\* A mutant: the in-memory store drops the resource without the bound test.
TestBoundNever(d) ==
  /\ del[d].step = "bound"
  /\ DropResource(d)
  /\ UNCHANGED <<ruleBody, shelfTables, historyTables>>

\* DeleteAsync up to the test for bindings, and, when one lock covers both, the
\* deletion with it.
TestBound(d) ==
  /\ del[d].step = "bound"
  /\ IF Bound(del[d].kind, del[d].id)
     THEN FinishDeletion(d, "conflict") /\ UNCHANGED catalog
     ELSE IF Provider = "inmemory" THEN DropResource(d)
     ELSE del' = [del EXCEPT ![d].step = "delete"] /\ UNCHANGED catalog
  /\ UNCHANGED <<ruleBody, shelfTables, historyTables>>

DeleteResource(d) ==
  /\ del[d].step = "delete"
  /\ DropResource(d)
  /\ UNCHANGED <<ruleBody, shelfTables, historyTables>>

\* The cancellation token fires; the in-memory adapter does not look at it.
AbortDeletion(d) ==
  /\ Provider = "sqlite"
  /\ del[d].step # "idle"
  /\ FinishDeletion(d, "aborted")
  /\ UNCHANGED tables

-----------------------------------------------------------------------------
AdvanceDeletion(d) == TestBound(d) \/ DeleteResource(d)

CatalogNext ==
  \E d \in Clerks :
    \/ \E i \in ResourceIds : \E k \in NamedKinds(i) :
         \/ RequestDeletion(d, i, k)
         \/ \E b \in RuleBodies : SaveResource(d, i, k, b)
    \/ AdvanceDeletion(d)
    \/ AbortDeletion(d)
=============================================================================
