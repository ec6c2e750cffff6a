-------------------------- MODULE SmartShelfStore ---------------------------
(***************************************************************************)
(* The tables behind the persistence ports and the statements the stores   *)
(* run against them.  One operator is one indivisible step of the store:   *)
(* a single SQL statement, or a transaction, of the SQLite adapter; the    *)
(* body of one lock of the in-memory adapter.  Handlers that call a store  *)
(* several times take several steps, and other requests run in between.    *)
(*                                                                         *)
(* The tables are shelves and shelf_resource_bindings (a shelf's row and   *)
(* its bindings are separate: SQLite reads them with two statements),      *)
(* products, devices and evaluation_rules (catalog: the kind under which   *)
(* a resource is stored, and ruleBody for what a rule says),               *)
(* shelf_observations and alerts (per shelf, in the order of commits).     *)
(***************************************************************************)
EXTENDS ShelfAggregate, Evaluation

CONSTANTS
  ShelfIds,     \* identifiers of shelves
  NoShelf,      \* a query for one shelf returned no row
  RuleBodies,   \* the rules operators write
  Provider,     \* "sqlite" or "inmemory"
  Stock,        \* the shelves the database holds when the process starts
  Seed          \* the catalog it holds then

Rows ==
  [version : Nat, config : Configs \cup {Blank}, enabled : BOOLEAN]

ASSUME StoreAssumption ==
  /\ RuleBodies \subseteq EvaluationRules
  /\ RuleBodies # {}
  /\ NoShelf \notin Shelves \cup Rows \cup ShelfIds
  /\ Provider \in {"sqlite", "inmemory"}
  /\ Stock \in [ShelfIds -> Shelves \cup {NoShelf}]
  /\ \A s \in ShelfIds : Stock[s] # NoShelf => SingletonsHold(Stock[s].bindings)
  /\ Seed \in [ResourceIds -> ResourceKinds \cup {"None"}]

VARIABLES
  shelves,       \* shelves[s]: the row of shelf s, or NoShelf
  bindings,      \* bindings[s]: the rows of shelf_resource_bindings of s
  known,         \* shelves that were ever inserted: clients can name them
  catalog,       \* catalog[i]: the kind resource i is stored under, or "None"
  ruleBody,      \* ruleBody[i]: the rule i, when i is a rule
  observations,  \* observations[s]: the assessments recorded for s
  alerts         \* alerts[s]: the alerts raised for s

shelfTables == <<shelves, bindings, known>>
catalogTables == <<catalog, ruleBody>>
historyTables == <<observations, alerts>>
tables == <<shelfTables, catalogTables, historyTables>>

Alerts ==
  [status : {"Active", "Acknowledged", "Resolved"},
   severity : {"Warning", "Critical"}, occurrences : Nat]

StoreTypeOK ==
  /\ shelves \in [ShelfIds -> Rows \cup {NoShelf}]
  /\ bindings \in [ShelfIds -> SUBSET Bindings]
  /\ known \in SUBSET ShelfIds
  /\ catalog \in [ResourceIds -> ResourceKinds \cup {"None"}]
  /\ ruleBody \in [ResourceIds -> RuleBodies]
  /\ observations \in [ShelfIds -> Seq(Assessments)]
  /\ alerts \in [ShelfIds -> Seq(Alerts)]

-----------------------------------------------------------------------------
(* IShelfRepository *)

Live(s) == shelves[s] # NoShelf

RowOf(shelf) ==
  [version |-> shelf.version, config |-> shelf.config, enabled |-> shelf.enabled]

Restore(row, bound) ==
  [version |-> row.version, config |-> row.config, enabled |-> row.enabled,
   bindings |-> bound]

\* The database as the process finds it; nothing was observed yet.
StoreInit ==
  /\ shelves = [s \in ShelfIds |-> IF Stock[s] = NoShelf THEN NoShelf
                                   ELSE RowOf(Stock[s])]
  /\ bindings = [s \in ShelfIds |-> IF Stock[s] = NoShelf THEN {}
                                    ELSE Stock[s].bindings]
  /\ known = {s \in ShelfIds : Stock[s] # NoShelf}
  /\ catalog = Seed
  /\ ruleBody \in [ResourceIds -> RuleBodies]
  /\ observations = [s \in ShelfIds |-> <<>>]
  /\ alerts = [s \in ShelfIds |-> <<>>]

\* AddAsync: the row, and the bindings of a new shelf, which has none.
InsertShelf(s, shelf) ==
  /\ shelves' = [shelves EXCEPT ![s] = RowOf(shelf)]
  /\ bindings' = [bindings EXCEPT ![s] = shelf.bindings]
  /\ known' = known \cup {s}

\* The version column the compare-and-set of UpdateAsync and DeleteAsync tests.
HasVersion(s, expected) == Live(s) /\ shelves[s].version = expected

\* UpdateAsync after its WHERE clause found the row.
OverwriteShelf(s, shelf) ==
  /\ shelves' = [shelves EXCEPT ![s] = RowOf(shelf)]
  /\ bindings' = [bindings EXCEPT ![s] = shelf.bindings]
  /\ UNCHANGED known

\* DeleteAsync after its WHERE clause found the row; bindings go by cascade.
DeleteShelf(s) ==
  /\ shelves' = [shelves EXCEPT ![s] = NoShelf]
  /\ bindings' = [bindings EXCEPT ![s] = {}]
  /\ UNCHANGED known

HasOperationalHistory(s) == observations[s] # <<>> \/ alerts[s] # <<>>

-----------------------------------------------------------------------------
(* IResourceCatalogStore *)

\* ExistsAsync: a device must also be of the kind the binding names.
ResourceExists(binding) == catalog[binding.id] = binding.kind

\* INSERT ... ON CONFLICT(id) DO UPDATE: a save also overwrites.
UpsertResource(i, kind, body) ==
  /\ catalog' = [catalog EXCEPT ![i] = kind]
  /\ ruleBody' = IF kind = "EvaluationRule" THEN [ruleBody EXCEPT ![i] = body]
                 ELSE ruleBody

\* The bound-resource test of DeleteAsync, for the kind the request names.
Bound(kind, id) ==
  \E s \in ShelfIds : \E b \in bindings[s] : b.kind = kind /\ b.id = id

TableOf(kind) ==
  CASE kind = "Product"        -> "products"
    [] kind = "EvaluationRule" -> "evaluation_rules"
    [] kind = "None"           -> "none"
    [] OTHER                   -> "devices"

\* DELETE FROM <table of kind> WHERE id = @id removes a row.
Deletes(kind, id) == TableOf(catalog[id]) = TableOf(kind)

\* GetRulesAsync(ids): the rules among ids that are still stored.
StoredRules(bound) ==
  {ruleBody[b.id] : b \in {c \in bound : c.kind = "EvaluationRule"
                                          /\ catalog[c.id] = "EvaluationRule"}}

-----------------------------------------------------------------------------
(* IObservationCommandStore and IAlertStore *)

\* A mutant: the alerts an acknowledgement has touched no longer count as open.
OpenUnlessAcknowledged(alert) == alert.status = "Active"

\* The partial unique index and every statement call an alert open until resolved.
Open(alert) == alert.status # "Resolved"

Resolve(history) ==
  [i \in DOMAIN history |->
     IF Open(history[i])
     THEN [history[i] EXCEPT !.status = "Resolved"] ELSE history[i]]

\* A mutant: a repeated occurrence reactivates an acknowledged alert.
RaiseReactivating(history, severity) ==
  IF \E i \in DOMAIN history : Open(history[i])
  THEN [i \in DOMAIN history |->
          IF Open(history[i])
          THEN [history[i] EXCEPT !.severity = severity, !.status = "Active",
                                  !.occurrences = @ + 1]
          ELSE history[i]]
  ELSE Append(history, [status |-> "Active", severity |-> severity,
                        occurrences |-> 1])

\* INSERT ... ON CONFLICT(shelf_id) WHERE status <> 'Resolved' DO UPDATE: the
\* open alert takes the new severity and one more occurrence and keeps its
\* status; without one a new alert is opened.
Raise(history, severity) ==
  IF \E i \in DOMAIN history : Open(history[i])
  THEN [i \in DOMAIN history |->
          IF Open(history[i])
          THEN [history[i] EXCEPT !.severity = severity, !.occurrences = @ + 1]
          ELSE history[i]]
  ELSE Append(history, [status |-> "Active", severity |-> severity,
                        occurrences |-> 1])

\* A mutant: an alert is raised for every observation.
RecordObservationRaising(s, assessment) ==
  /\ observations' = [observations EXCEPT ![s] = Append(@, assessment)]
  /\ alerts' = [alerts EXCEPT ![s] = Raise(@, AlertSeverity(assessment.status))]

\* RecordAsync: the observation and what it does to the shelf's alert.
RecordObservation(s, assessment) ==
  LET severity == AlertSeverity(assessment.status)
  IN  /\ observations' = [observations EXCEPT ![s] = Append(@, assessment)]
      /\ alerts' = [alerts EXCEPT ![s] =
                      IF severity = "None" THEN Resolve(@) ELSE Raise(@, severity)]

\* AcknowledgeAsync, the UPDATE: nothing happens to a resolved alert.
MarkAcknowledged(s, i) ==
  alerts' = [alerts EXCEPT ![s] =
               [j \in DOMAIN @ |->
                  IF j = i /\ Open(@[j])
                  THEN [@[j] EXCEPT !.status = "Acknowledged"] ELSE @[j]]]
=============================================================================
