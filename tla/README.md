# A TLA+ development of SmartShelf AI

SmartShelf manages shelves: an API keeps their configuration, judges the readings of shelf
devices, raises alerts and drives an LED per shelf; a React configurator, a Blazor dashboard
and a device simulator are its clients. This directory holds TLA+ modules of the API, of what its
database does at start-up and of the pages of its clients, the TLC configurations that check
them on small instances, and TLAPS proofs of what matters most for instances of every size.

Paths below are relative to the repository.

## 1. The system

| Part | State it keeps | Operations | Made correct by |
| --- | --- | --- | --- |
| `Shelf` aggregate (`SmartShelf.Domain/Entities/Shelf.cs`) | name and location, enabled flag, bindings, version | create, `UpdateConfiguration`, `SetEnabled`, `ReplaceBindings` | every change counts a version; one controller, camera and LED output at most |
| Assessment (`ShelfHealthEvaluator`, `ShelfRuleEvaluator`, `EvaluationRule`, and the simulator's `EdgeDecisionEngine`) | none | judge a reading | worst match wins, priority breaks ties; edge and server agree |
| Persistence (SQLite and in-memory adapters of the same ports) | shelves, bindings, catalogs, observations, alerts | one statement, transaction or lock at a time | version in the WHERE clause, atomic observation and alert |
| Shelf management (`Program.cs`, `ShelfManagementService`, `UpdateShelfConfigurationHandler`) | requests in flight | POST, PUT, PATCH, PUT configuration, DELETE | optimistic concurrency: no lost update, no stale write |
| Observation recording (`RecordShelfObservationHandler`, `VirtualLedController`) | requests in flight, LED colours | POST observations | history and alert agree; persistence before the LED |
| Alerts (`AcknowledgeAlertHandler`, the alert stores) | requests in flight | acknowledge | one open alert; alerts only move forward |
| Resource catalog (`ResourceCatalogService`) | requests in flight | save and delete products, devices, rules | bound resources stay |
| SQLite start-up (`SqliteDatabase`, `001_initial.sql`) | columns, applied scripts, the legacy strings | add columns, run scripts, migrate strings | every start can be interrupted and repeated; nothing is taken away |
| Queries (the observation stores, `SqliteShelfQueries`) | none | latest, recent, overviews, configuration | both adapters answer alike, and the latest is the newest |
| Configurator page (`SmartShelf.Configuration.Ui/src`: `App.tsx`, `store.ts`, `bindings.ts`, `api.ts`, `CatalogPanel.tsx`) | the configuration shown and the bindings edited, what it selected, handlers in flight | select, connect, disconnect, save, reload, create, add to the catalog | a save replaces only what its user saw; "Unsaved" tells the truth |
| Configurator canvas (`ShelfCanvas.tsx`, React Flow) | a copy of nodes and edges | connect, delete, double click | what is drawn is what will be saved |
| Dashboard, status page (`Home.razor`) | the last answers, the selected shelf, a lock | refresh by timer, button or acknowledgement; inspect; acknowledge | numbers never go back and catch up in the end |
| Dashboard, shelf page (`ShelfManagement.razor`) | list, form, pending deletion, message | edit, save, enable, delete | a change replaces only what its user saw; messages tell what happened |
| Dashboard, reconnect dialog (`ReconnectModal.razor.js`) | a listener, the dialog, retries in flight | retry, resume, reload | it never stops trying |
| Simulator (`SmartShelf.Device.Simulator`) | none | judge a reading, post it | agrees with the server |

Interaction is by HTTP request. The API holds no state of its own between requests apart from
the LED colours: a handler is a chain of awaited store calls, and every other request may run
between two of them. That is where the hard behaviour is.

* **Interleaving.** A handler decides on what an earlier call returned. SQLite reads a shelf with
  two statements, looks up each binding with one of its own, tests for history or bindings with
  one and deletes with another.
* **Aborts and restarts.** A request's cancellation token fires when the client disconnects; the
  process may restart over the same database. Transactions commit or not, whole handlers do not.
* **Ordering.** Two observations can commit in one order and reach the LED in another; tied rules
  come in no fixed order.
* **Two stores, one contract.** The in-memory adapter holds a lock per call, so some races of the
  SQLite adapter cannot happen there; `Provider` switches between the two.
* **Clients that await.** A page stays usable while a handler awaits an answer. When the answer
  comes, the selection, the form or the list may be another; answers overtake each other, get
  lost after the API has acted, and other clients write in between.
* **Starts that stop.** Most statements of a start are committed one by one, under the token of
  the request that happened to come first.

The full list of hazards, at the lines where they bite, is `hazards` in `PROJECT.json`.

## 2. Modules

    Evaluation          ShelfAggregate
        \                /        \
         SmartShelfStore       VersionedShelf   (abstract specification)
        /       |        \              .
    ShelfManagement  ObservationRecording  ResourceCatalog
                \       |       /               .
                 SmartShelfApi . . . . . . . . .  (implements it)
                        |
                 MCSmartShelfApi       Evaluation -- WatchedShelf -- MCEvaluation

    ShelfAggregate    VersionedShelf
              \        .  (its steps are those of the API)
             ConfiguratorUi ----- MCConfiguratorUi
    ShelfCanvas ----- MCShelfCanvas
    ObservationQueries ----- MCObservationQueries
    Migration ----- MCMigration    Dashboard ----- MCDashboard    ShelfSetup ----- MCShelfSetup
    ReconnectModal     (checked as it is; proofs beside those of Dashboard)

* **Evaluation** — pure operators, no state. `HealthEvaluate`, `EdgeEvaluate`, `Matches`,
  `RuleEvaluate` follow the C# methods. `RuleEvaluate` returns a *set*: rules that tie on
  severity and priority come in the store's order, which nothing fixes, so any of them may win.
  Reason texts and confidences are dropped; thresholds are integers (a `double` in the code).
* **WatchedShelf** — one shelf under these operators: readings arrive, rules are connected and
  disconnected in any order.
* **ShelfAggregate** — the entity as a value. Name and location always change together and are
  one value, `config`. `Blank` stands for a body the constructor of a valid name and location
  refuses. Status and colour of the entity are never persisted and are left out.
* **SmartShelfStore** — the tables, and one operator per statement, transaction or lock. A
  shelf's row and its bindings are separate variables because SQLite reads them separately.
  `observations[s]` and `alerts[s]` are sequences in commit order. `known` records the shelves
  clients may still name after a deletion; it is not in the code.
* **ShelfManagement** — one record per request slot, `cmd[m]`: the awaited call it is at, its
  body, and the copy of the shelf it read. One action per awaited call, from the arrival of a
  request (`PostShelf`, `PutShelf`, `PatchEnabled`, `PutConfiguration`, `DeleteRequest`) to its
  answer; the code between two calls belongs to the action of the first (`AfterRead`,
  `AfterWrite`, `ReplaceStep`). `Abort` is the cancellation token, which only SQLite looks at. `wrote` remembers that a
  store committed the request, for the property about refused requests.
* **ObservationRecording** — the same for observations (`rec[r]`) and acknowledgements
  (`ack[a]`), with the LED colours. `Record` is one transaction; the LED is a step of its own.
* **ResourceCatalog** — saves (one statement) and deletions (two in SQLite, one lock in memory).
  `MatchingKinds` says whether clients only name the kind a resource was created with, as the
  pages do; the API lets them name another (`PUT` and `DELETE /devices/{id}`), and then deletes a
  bound device.
* **SmartShelfApi** — all of it together, `Restart`, fairness, and the properties. `Managers`,
  `Recorders`, `Acknowledgers` and `Clerks` are the requests of each sort that run at a time; an
  empty set leaves a component out of an instance.
* **VersionedShelf** — what optimistic concurrency promises: every shelf is one register holding
  a whole aggregate, changed by indivisible operations.
* **ConfiguratorUi** — one browser tab. `task[t]` is an async handler of the page and the
  request it is at (`load`, `save`, `create`, `add`, with the list that follows); what a handler
  closed over when it was rendered is in its task. A state update of the store and the effects it
  causes are one step. `Lose` loses a request before or after the API has acted. The API is
  `INSTANCE VersionedShelf`: a write is one step of the register, which is what
  `ShelvesActAsRegister` proves of the handlers; the two SELECTs behind `GET configuration`, and
  behind the answer to a save, are two steps (`ServeRow`, `ServeBindings`). `base`, and
  `wrote` in the model of the API, are history fields: what the user saw when an edit began, and
  that a request was committed.
* **ShelfCanvas** — the copies of nodes and edges that React Flow edits and the effects that copy
  the store into them. `addEdge` of the library (which ignores an edge that is there), its
  rendering and its delete key are external, modelled from how the component uses them.
  `deleted` is a history variable: which of the copies Backspace has taken something from.
* **ReconnectModal** — every handler of the script; Blazor and the server are external and do
  what the script's comments say of them. The network may change at any time, also during a
  reload; a reload that fails leaves the browser's error page, which is loaded again. The
  specification is called `ModalSpec`, to stand in one module with that of the page.
* **Dashboard** — `Home.razor`. A refresh is four requests in a row under `refreshLock`; Inspect
  and Acknowledge are handlers beside it. `Serve` lets the API read at any time between request
  and answer; `Lose` is a lost connection (`Failed`, an `HttpRequestException`) or the client's
  five-second time-out (`TimedOut`, a `TaskCanceledException`). A refresh catches both. Inspect and
  Acknowledge catch neither: the first ends the circuit (`CircuitEnds`), while the second makes a
  canceled task, which Blazor ignores, and the page goes on without the history or the refresh
  (`GivesUp`). The variables are the fields of the component; rendering is left out.
* **ShelfSetup** — `ShelfManagement.razor`. A shelf's content is identified with its version;
  `base` remembers which content the user had in the form or the row. `Refused` stands for
  every failure the handlers catch, `TimedOut` for the time-out they do not: only the `finally`
  parts run, the handler ends as canceled, and the page goes on (`GivesUp`). A toggle that asks
  for the flag the shelf has changes nothing.
* **Migration** — `SqliteDatabase` statement by statement: columns, script, strings. `Stop` is the
  aborted request or the ended process after any statement; `Configure`, `AddDevice`,
  `DeleteDevice` are what operators do between two starts. The SELECT returns its rows in any
  order. Devices are named by their serial number. The initial states are a new file and every file whose
  `shelves` table has some of the three later columns.
* **ObservationQueries** — the order of answers in both adapters. An observation is a reading
  and the time a device gives it: a time of day and an offset from UTC. SQLite compares the text
  (`TextBefore`), the in-memory adapter the instant; an observation stands in an answer after those
  that come before it (`InOrder`). LIMIT and `Take` are external. `ListShelves`
  and `AddOverview` are `GetOverviewsAsync` of the in-memory adapter, one shelf at a time. The locks of one overview
  are merged into the first, which decides whether there is one; `listed` says which shelf each
  place of the list is for.
* **\*_proofs** — theorems and lemmas: one module for the API, one for each client page, for
  start-up and for the queries.

Answers are abstracted to what the status code tells: `ok` (2xx), `notFound` (404), `conflict`
(409), `invalid` (400), `rejected` (409 for a disabled shelf), `aborted` (none).

Assumptions about clients: the version a request expects is one the shelf has had
(`SeenVersions`) — the dashboard and the configurator send the version they show. Identifiers
of new shelves are fresh GUIDs.

## 3. Runs

| Run | Instance | Checks |
| --- | --- | --- |
| `evaluation` | 80 readings around every threshold; 8 rules, up to 3 connected | edge = server, worst match, monotonicity |
| `management_sqlite` | 2 shelf requests, 1 shelf created by the run, 3 versions, 5 binding lists | copies, versions, singletons, refinement of `VersionedShelf`, what a refusal means, every request is answered (fairness) |
| `recording_sqlite` | 2 observation requests, 1 acknowledgement, 1 catalog request, 1 rule, 3 observations, 4 readings | alert = history, alerts move forward, LED shows stored decisions, what each step relies on |
| `requests_inmemory` | one request of each kind, 1 device, 1 rule, 3 versions, 1 observation | bound resources stay |
| `configurator` | 1 shelf created on the page, 2 LED outputs that exclude each other, 2 handlers at a time, other clients, 2 versions | what is shown is one version as a whole, saves replace what was seen, singletons, "Unsaved" and the Save button tell the truth, a save shows its version |
| `canvas` | 4 resources, 3 bindings, Backspace | the canvas shows what will be saved; every edge is a binding; a double click removes one, the one it is on |
| `dashboard_reconnect` | 2 overlapping attempts | no dead end; comes back (fairness) |
| `dashboard_status` | 2 shelves, 2 click handlers and the timer, 1 observation per shelf, 1 failure or time-out | counts move forward; the page catches up; the history is that of the selected shelf (fairness) |
| `shelf_setup` | 1 shelf, 2 handlers, 3 versions | changes replace what was seen; the Save button is always given back (fairness) |
| `migration_starts` | 2 shelves, 2 strings, 2 interruptions, 2 versions | every string migrated, nothing taken away, the database opens (fairness) |
| `observation_queries` | 2 shelves, 3 times of day, 2 offsets, 3 observations, pages of 2, limits -1 to 3 | latest = newest; both adapters answer alike; an overview misses only shelves deleted meanwhile, each in its place |
| `orphan_history` | 1 shelf request, 1 observation request | **violated**: the first observation of a shelf is stored between the history check and the DELETE, and history is left without a shelf |

The last run violates its one property, which the README of the repository states; `findings` in
`PROJECT.json` quotes it.

**What the models do and no property denies.** Some properties have a condition, and some
behaviours of the code are in a model although no property speaks about them; a reader of a
passing run should know of them.

* A resource may be deleted between the existence check of a configure and the write of its
  bindings: a binding to nothing (`ShelfManagement`, `ResourceCatalog`). In SQLite the same race
  also deletes a resource right after its test for bindings, so `BoundResourceStays` is a property
  of the in-memory adapter.
* While one rule replaces another, an observation may be judged by neither (`ReadShelf`, `Judge`).
* A request may be committed and refused, when its shelf is deleted before the answer is read
  back; `RefusedMeansUnchangedOrGone` says that this is the only reason.
* A save whose answer was lost leaves the old version on the page, so the next save is a conflict
  with itself; the answer to an earlier selection that comes last puts another shelf on the
  canvas than the selected one; after a save the page may show what another client made of it
  (`ConfiguratorUi`).
* Backspace takes an edge from the canvas and not from the store, and the same connection drawn
  again gets the identifier of another binding. `CanvasShowsBindings` and
  `DoubleClickRemovesConnection` hold until it is used; the other properties of `canvas` always.
* A start binds again a device that operators have removed, and binds one string under both kinds
  to one device (`Migration`).
* SQLite compares `captured_at` as text, so with two offsets its latest observation may be an older
  one; of two observations of one instant it prefers the later row, the in-memory adapter the
  earlier. `LatestIsNewest` and `ProvidersAgree` say under which condition that does not matter.
  The simulator, which sends `DateTimeOffset.UtcNow`, has one offset.
* An acknowledgement of an alert that was resolved meanwhile ends the circuit of the status page,
  and so does an Inspect or an acknowledgement whose connection is lost (`Dashboard`). Its
  properties are about a page whose circuit is up, and about its fields: nothing draws what the
  refreshes of the timer assign until the handler of a click waits or returns
  (`RunRefreshLoopAsync` calls no `StateHasChanged`).
* On the shelf page a message may name the wrong change, or a failure look like a success; a
  time-out shows no message at all, and leaves the version in the form although the change may have
  been made, so that the next save is a conflict with the first (`ShelfSetup`).

`TypeOK` of each module declares the types of its variables. For the API it is checked and proved
with what each step relies on (`TypeInv`); the inductive invariant of optimistic concurrency
(`IInv`), which joins it to properties that `management_sqlite` checks one by one, is proved; for the other components it is proved, as a part of their invariants, and no
run spends a property on it. Of `Migration` only the tables and the rows still to be migrated are
proved.

**Bounds, API.** Two requests of a sort are enough for every race between a read and a write of
another request, because a handler holds what it read only until its own next write; requests of
every sort run together in `requests_inmemory`. Shelves do not interact except through the catalog, so
one is enough; a deleted shelf can still be addressed. `MaxVersion` (3) allows a change, a second
change that makes the first one stale, and a late third; `MaxObservations` (3) allows an alert
to be raised, repeated or resolved, and raised again. Both are guards on the arrival of
requests, never on the steps of one. Binding lists contain a duplicate, two LED outputs, a
device under a kind it does not have, a rule, and nothing. The readings of `evaluation` sit on
both sides of every comparison.

**Bounds, clients.** Two handlers at a time give every pair of answers in both orders; a third
would only repeat what one of the two has already made stale. A shelf to be overwritten needs
one version before and one after, so two or three versions are enough. The canvas needs two
exclusive resources, one to be deleted and one to be drawn in its place. In the dashboard one
observation per shelf is something that was not shown yet, and one failure is something to make
up for, whichever request it hits and whether it is a failure or a time-out; two clicks select
two shelves. The configurator run has one shelf; that a version and
its bindings belong together for any number of shelves is proved, not run.

**Bounds, start-up and queries.** Two interruptions stop a first start and the one that repeats
it; two shelves and two strings let a string be shared by shelves, or by the columns of one. Three
observations can be recorded in every order of their times, and the page (2) is shorter than
that. Limits are on both sides of the clamp; that both hold for every length, page
and limit is proved.

**Symmetry.** The recorders of `recording_sqlite`, the handlers and LED outputs of `configurator`,
and the shelves of `observation_queries` are told apart by nothing but their names. The three
runs check safety only.

**Deadlock** is checked wherever the system always goes on. It is off where it really may
rest: a page whose circuit has ended (`dashboard_status`) and a database that is open, with
interruptions and versions used up (`migration_starts`).

**Fairness** is weak everywhere. Of the API (`FairSpec` of `SmartShelfApi`): per request, on its own
steps: the thread pool resumes every handler whose call completed, and every call completes,
because `busy_timeout` bounds the wait for SQLite's write lock. Of the dashboard: the timer
ticks, a request is answered or given up after five seconds, continuations run. The Save button
is given back on every path, time-outs included: `SavingEnds` has no condition. Of the reconnect
dialog: what is awaited ends, and the user keeps coming back to the page, which is what the
script waits for, and a page whose reload failed is loaded again. Of a start: its statements return, and requests keep coming; interruptions
are bounded and not fair. Nothing is assumed of clicks, other clients, losses, aborts or restarts.

## 4. Proofs

`tlapm` checks every module named `*_proofs`. Every invariant and every action property that a
passing run checks, and the refinement, is proved for all values of the constants; the liveness
properties are model-checked only.

**Assumptions.** They are the `ASSUME`s of the constants: which sets clients choose from, that
model values differ from data, that there are finitely many shelves, and that the database holds
well-formed shelves when the process starts; for the canvas, that an answer of the API has no
row twice (the primary key and the UNIQUE of `shelf_resource_bindings`). Two theorems have
hypotheses of their own, because the API does not enforce them (`PUT /devices/{id}` may change
the kind of a device): `BoundResourcesStay` that clients name the kind a resource was created with
(`MatchingKinds`), and that the adapter is the in-memory one; `DoubleClickRemovesConnectionTheorem`
that an answer gives a binding the kind of its resource (`KindsAgree`).

**SmartShelfApi_proofs**, bottom up:

* *The aggregate and the alert table.* What each operation returns: types, the version it counts,
  and that alerts only move forward.
* *Types.* `TypeInvHolds`: `Spec => []TypeInv`, and with it `TypeCorrect`. Types alone are not
  inductive: a step writes what its request read, so `Shape` says what a request has established
  at each step.
* *History.* `AlertsOnlyMoveForward` from the alert table; `LedFollowsHistory`, with the invariant
  that a request about to set the LED has a stored observation of that colour.
  `AlertsReflectHistory`: one observation lengthens the unhealthy run by one or ends it
  (`RunAfter`), and the statement that stores it does the same to the open alert
  (`ReflectsRaise`, `ReflectsResolve`); an acknowledgement changes neither (`ReflectsMark`).
* *Optimistic concurrency.* `InductiveInvariant`: `Spec => []IInv`. The argument: `UpdateShelf`
  compares the stored version with the one the *client* expects, never with the one the handler
  *read*. So expected <= read <= stored (`VersionsInOrder`) must hold, and then equality of the
  outer two makes the copy as new as the row. A copy as new as the row *is* the shelf
  (`CopyIsCurrent`), although it was read in two parts: a commit between the two would have
  counted a version, and a deleted identifier never comes back (`FreshIds`). Hence what is
  written is one operation of the aggregate on the stored value, which is
  `ShelvesActAsRegister`: the refinement of `VersionedShelf`. `SingletonsStay` and
  `VersionsCount` follow on the way.
* *Refusals.* `RefusedOnlyWhenGone`: a request that has written and has no answer yet is about to
  read its answer back (`Pending`), and only a shelf that is gone makes that fail.
* *Bound resources.* `BoundResourcesStay`: whatever is stored or on its way to be stored has the
  kind of the catalog (`KindsMatch`), so the test of `DeleteAsync` looks at the right bindings.

The other modules:

* **Evaluation_proofs.** The edge decision equals the server's policy on every reading
  (`EdgeAgreesTheorem`); of any set of rules, every winner is as severe as every match and all
  winners give one status (`WinnersAreWorst`, `StatusIsWorstMatchTheorem`); a worse reading is
  never judged milder (`WorseNeverMilderTheorem`).
* **ConfiguratorUi_proofs.** `InvariantHolds`: `Spec => []IInv`, where `IInv` says that every pair
  of a version and bindings in a request, an answer or on the page is current if its version is:
  a shelf that has this version has these bindings, and no older version. Two SELECTs make such a pair only
  because the row is read first, and because every change of the bindings counts a version.
  `TypeCorrect`, `ShownIsCurrentTheorem` and `NothingUnseenIsOverwrittenTheorem` follow from it;
  `CleanMeansUnchangedTheorem`, `SendsSingletonsTheorem`, `OneSaveRunsTheorem` and
  `SaveShowsItsVersionTheorem` have invariants of their own.
* **ShelfCanvas_proofs.** `CanvasShowsBindingsTheorem`: `ConnectedHasEdge` is why `addEdge` may
  ignore an edge that is there. `EveryEdgeIsABindingTheorem` and `DoubleClickRemovesOneTheorem`
  need that identifiers stay unique in the list (`RowsInv`), and what `Array.filter` keeps: its
  lemmas are proved by induction over the positions of the list.
* **Dashboard_proofs.** `SummariesMoveForwardTheorem`: whoever is in a refresh has the lock and is
  the only one (`Alone`), so counts that were read are not older than those shown (`Newer`).
  `NoDeadEndTheorem` of the reconnect dialog is inductive with the types.
* **ShelfSetup_proofs.** `NothingUnseenTheorem`: fields and expected version of the form, and of
  every request, come from one row (`SInv`), whatever list arrives meanwhile.
* **Migration_proofs.** `StartMigratesAllTheorem` and `StartKeepsWorkTheorem`: from the SELECT on,
  every string has been migrated or is still to be (`MInv`), also in a start that follows an
  interrupted one, because each statement adds only what is not there.
* **ObservationQueries_proofs.** Both orders have a first element, by induction over the length of
  the history; it is the newest (`LatestIsNewestTheorem`). With one offset and distinct instants
  the two orders are one, hence `ProvidersAgreeTheorem`. `OnlyDeletedIsMissingTheorem`
  is inductive with the types (`QInv`): a shelf that is gone does not come back.

**Only model-checked.** `RequestsAreAnswered`, `ComesBack`, `PageCatchesUp`,
`HistoryFollowsSelection`, `SavingEnds` and `DatabaseOpens`: liveness under fairness, and the
`ENABLED` in it, are out of the prover's reach. So are theorems whose parameter is an operator,
those of induction among them; where a proof needs induction it is over a set of numbers, by
the least one that is missing (the lemma `Induction`). The modules declare no recursive operators.

## 5. Not modelled, and why

* **The posting loop of the simulator.** It keeps nothing between two readings and never repeats
  one, so a lost reading is one the API did not receive; the readings and decisions themselves
  are in `Evaluation`.
* **The remaining lists** (shelves, catalogs, alerts, summaries): one SELECT, or one lock, without a
  decision. The pages that show them treat an answer as what the tables held at one moment.
* **Leaving the status page** (`DisposeAsync`): its handlers may run on, but nothing shows them.
* **Names and other catalog fields**, with their UNIQUE constraints: a violated one is a 500 that
  changes nothing. Form validation, positions on the canvas, colours, texts.
* **The development seed**, which runs before the first request; the `Device` worker, a
  placeholder; hosting, CORS, health checks and Swagger, which keep no state; vendored assets.
* **Version overflow** (`int`), which takes two billion changes of one shelf.
* **Restarts of the in-memory adapter**, which begin again from an empty store.
* **Which of two concurrent observations the LED shows in the end.** The documents promise only
  that a decision is stored before it is shown (`LedShowsStoredDecision`); after an abort between
  the two, or when two requests commit in one order and reach the LED in the other, it shows an
  older one until the next observation.
