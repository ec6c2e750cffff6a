--------------------------- MODULE ConfiguratorUi ---------------------------
(***************************************************************************)
(* The React configurator (App.tsx, store.ts, bindings.ts, api.ts and      *)
(* CatalogPanel.tsx): one browser tab, the requests it has in flight, and  *)
(* the API as its clients see it.                                          *)
(*                                                                         *)
(* An async handler of the page is a task: it awaits one request at a      *)
(* time, and between two of its steps the user, other handlers and other   *)
(* clients go on.  Answers may be lost and may overtake each other.  A     *)
(* state update and the render and effects it causes are one step; what a  *)
(* handler captured when it was rendered is kept in its task.              *)
(*                                                                         *)
(* Of the API, a write is one step on the register of VersionedShelf, which*)
(* SmartShelfApi implements; the two SELECTs behind GET configuration and  *)
(* behind the answer to a save are two steps.  A binding is its kind and   *)
(* resource; its row identifier matters to ShelfCanvas only.               *)
(***************************************************************************)
EXTENDS ShelfAggregate

CONSTANTS
  ShelfIds,     \* identifiers of shelves
  NoShelf,      \* null: nothing selected, nothing loaded
  Stock,        \* the shelves that are there when the page is opened
  Seed,         \* the resources that are there then
  Tasks,        \* handlers of the page that run at a time
  Mounting,     \* the tasks that load the shelves when the page mounts
  OthersActive, \* other clients change shelves and resources
  MaxVersion    \* bound: what is at this version is not saved or changed any more

\* What a configuration answer holds; a resource node is its kind and its id.
Configurations ==
  [shelf : ShelfIds, version : Nat,
   bindings : SUBSET Bindings, resources : SUBSET Bindings]

ASSUME UiAssumption ==
  /\ NoShelf \notin ShelfIds \cup Shelves \cup Configurations
  /\ Stock \in [ShelfIds -> Shelves \cup {NoShelf}]
  /\ \A s \in ShelfIds : Stock[s] # NoShelf => SingletonsHold(Stock[s].bindings)
  /\ Seed \in SUBSET Bindings
  /\ Mounting \in SUBSET Tasks
  /\ OthersActive \in BOOLEAN
  /\ MaxVersion \in Nat

VARIABLES
  register,       \* register[s]: the shelf in the API
  catalog,        \* the resources in the API
  known,          \* shelves that were ever created: identifiers are fresh
  shelves,        \* the sidebar: the shelves listed
  selectedId,     \* the shelf the user selected
  configuration,  \* the configuration shown, or NoShelf
  bindings,       \* the bindings being edited
  dirty,          \* "Unsaved" is shown
  saving,         \* the Save button is disabled: a save is running
  view,           \* "map" or "catalog"
  message,        \* what the banner says, or "none"
  task            \* task[t]: the handler in slot t

serverVars == <<register, catalog, known>>
storeVars  == <<configuration, bindings, dirty>>
pageVars   == <<shelves, selectedId, view>>
vars == <<serverVars, storeVars, pageVars, saving, message, task>>

Server == INSTANCE VersionedShelf

-----------------------------------------------------------------------------
(* Tasks. *)

Operations == {"none", "mount", "load", "create", "save", "add"}

\* send: a write is on its way; row, bindings: the API reads a configuration;
\* reply: the first answer is on its way back; list, listed: the same for the
\* lists that are loaded afterwards.
Stages == {"idle", "send", "row", "bindings", "reply", "list", "listed"}

TaskStates ==
  [op       : Operations,
   at       : Stages,
   closure  : ShelfIds \cup {NoShelf},     \* selectedId when it was rendered
   shelf    : ShelfIds \cup {NoShelf},
   expected : Nat,                         \* expectedVersion of a save
   wanted   : SUBSET Bindings,             \* the bindings it sends
   base     : SUBSET Bindings,             \* the bindings they were edited from
   quiet    : BOOLEAN,                     \* nothing catches its rejection
   wrote    : Nat,                         \* the version it committed, or 0
   got      : Configurations \cup {NoShelf},
   listed   : SUBSET ShelfIds,
   status   : {"none", "ok", "conflict", "error"}]

Rest ==
  [op |-> "none", at |-> "idle", closure |-> NoShelf, shelf |-> NoShelf,
   expected |-> 0, wanted |-> {}, base |-> {}, quiet |-> FALSE, wrote |-> 0,
   got |-> NoShelf, listed |-> {}, status |-> "none"]

Free(t) == task[t].op = "none"
At(t, op, stage) == task[t].op = op /\ task[t].at = stage

Become(t, value) == task' = [task EXCEPT ![t] = value]
End(t) == Become(t, Rest)

\* api.configuration(s): the request of the selection effect, or a quiet one.
Load(s, quiet) ==
  [Rest EXCEPT !.op = "load", !.at = "row", !.shelf = s, !.quiet = quiet]

\* What a handler still needs at its next stage.
Onward(c, stage) ==
  [Rest EXCEPT !.op = c.op, !.at = stage, !.closure = c.closure,
               !.shelf = c.shelf, !.quiet = c.quiet]

Reply(t, status) ==
  Become(t, [Onward(task[t], "reply") EXCEPT !.status = status])

\* The types of the variables.
TypeOK ==
  /\ register \in [ShelfIds -> Shelves \cup {NoShelf}]
  /\ catalog \in SUBSET Bindings
  /\ known \in SUBSET ShelfIds
  /\ shelves \in SUBSET ShelfIds
  /\ selectedId \in ShelfIds \cup {NoShelf}
  /\ configuration \in Configurations \cup {NoShelf}
  /\ bindings \in SUBSET Bindings
  /\ dirty \in BOOLEAN
  /\ saving \in BOOLEAN
  /\ view \in {"map", "catalog"}
  /\ message \in {"none", "saved", "conflict", "error"}
  /\ task \in [Tasks -> TaskStates]

\* The page mounts: its effect calls loadShelves (twice under StrictMode), and
\* the effect of the selection finds null.
Init ==
  /\ register = Stock
  /\ catalog = Seed
  /\ known = {s \in ShelfIds : Stock[s] # NoShelf}
  /\ shelves = {}
  /\ selectedId = NoShelf
  /\ configuration = NoShelf
  /\ bindings = {}
  /\ dirty = FALSE
  /\ saving = FALSE
  /\ view = "map"
  /\ message = "none"
  /\ task = [t \in Tasks |->
               IF t \in Mounting THEN [Rest EXCEPT !.op = "mount", !.at = "list"]
               ELSE Rest]

-----------------------------------------------------------------------------
(* store.ts and bindings.ts *)

\* A mutant: a new configuration does not replace the bindings being edited.
SetConfigurationKeepingEdits(value) ==
  /\ configuration' = value
  /\ bindings' = IF dirty THEN bindings ELSE value.bindings
  /\ dirty' = FALSE

SetConfiguration(value) ==
  /\ configuration' = value
  /\ bindings' = value.bindings
  /\ dirty' = FALSE

SetBindings(value) ==
  /\ bindings' = value
  /\ dirty' = TRUE
  /\ UNCHANGED configuration

\* A mutant: an LED output is added to the one that is there.
ConnectResourceTwoLeds(current, node) ==
  IF node.kind \in SingletonKinds \ {"LedOutput"}
  THEN {b \in current : b.kind # node.kind} \cup {node}
  ELSE current \cup {node}

\* connectResource: a singleton takes the place of the one of its kind.
ConnectResource(current, node) ==
  IF node \in current THEN current
  ELSE IF node.kind \in SingletonKinds
       THEN {b \in current : b.kind # node.kind} \cup {node}
       ELSE current \cup {node}

RemoveBinding(current, binding) == current \ {binding}

\* errors.ts: only a 409 is told apart.
configurationSaveErrorMessage(status) ==
  IF status = "conflict" THEN "conflict" ELSE "error"

-----------------------------------------------------------------------------
(* The user. *)

\* setSelectedId, and the effect that loads a newly selected shelf in slot t.
Select(t, s) ==
  /\ selectedId' = s
  /\ IF s = selectedId THEN End(t) ELSE Become(t, Load(s, FALSE))

ClickShelf(t, s) ==
  /\ Free(t)
  /\ s \in shelves
  /\ Select(t, s)
  /\ view' = "map"
  /\ UNCHANGED <<serverVars, storeVars, shelves, saving, message>>

ShowView(v) ==
  /\ view # v
  /\ view' = v
  /\ UNCHANGED <<serverVars, storeVars, shelves, selectedId, saving, message, task>>

CanEdit == view = "map" /\ configuration # NoShelf

\* onConnect: only nodes of the configuration shown are on the canvas.
Connect(node) ==
  /\ CanEdit
  /\ node \in configuration.resources
  /\ SetBindings(ConnectResource(bindings, node))
  /\ UNCHANGED <<serverVars, pageVars, saving, message, task>>

\* onEdgeDoubleClick: the edge of a resource that is gone is not drawn.
Disconnect(binding) ==
  /\ CanEdit
  /\ binding \in bindings \cap configuration.resources
  /\ SetBindings(RemoveBinding(bindings, binding))
  /\ UNCHANGED <<serverVars, pageVars, saving, message, task>>

\* A mutant: the expected version is the one of the list, not of the canvas.
ClickSaveLatest(t) ==
  /\ Free(t)
  /\ dirty /\ ~saving
  /\ configuration # NoShelf
  /\ configuration.version < MaxVersion
  /\ Server!Exists(configuration.shelf)
  /\ saving' = TRUE
  /\ message' = "none"
  /\ Become(t, [Rest EXCEPT !.op = "save", !.at = "send", !.closure = selectedId,
                            !.shelf = configuration.shelf,
                            !.expected = register[configuration.shelf].version,
                            !.wanted = bindings, !.base = configuration.bindings])
  /\ UNCHANGED <<serverVars, storeVars, pageVars>>

\* save, up to its first await.
ClickSave(t) ==
  /\ Free(t)
  /\ dirty /\ ~saving
  /\ configuration # NoShelf
  /\ configuration.version < MaxVersion
  /\ saving' = TRUE
  /\ message' = "none"
  /\ Become(t, [Rest EXCEPT !.op = "save", !.at = "send", !.closure = selectedId,
                            !.shelf = configuration.shelf,
                            !.expected = configuration.version,
                            !.wanted = bindings, !.base = configuration.bindings])
  /\ UNCHANGED <<serverVars, storeVars, pageVars>>

\* The Reload button of the banner.
ClickReload(t) ==
  /\ Free(t)
  /\ message # "none"
  /\ selectedId # NoShelf
  /\ Become(t, Load(selectedId, TRUE))
  /\ UNCHANGED <<serverVars, storeVars, pageVars, saving, message>>

\* createShelf, up to its first await.
ClickNew(t) ==
  /\ Free(t)
  /\ known # ShelfIds
  /\ Become(t, [Rest EXCEPT !.op = "create", !.at = "send", !.closure = selectedId])
  /\ UNCHANGED <<serverVars, storeVars, pageVars, saving, message>>

\* addProduct, addDevice or addRule, up to its first await.
ClickAdd(t) ==
  /\ Free(t)
  /\ view = "catalog"
  /\ catalog # Bindings
  /\ Become(t, [Rest EXCEPT !.op = "add", !.at = "send", !.closure = selectedId])
  /\ UNCHANGED <<serverVars, storeVars, pageVars, saving, message>>

-----------------------------------------------------------------------------
(* The API. *)

\* PUT configuration, up to its commit: a missing shelf is a 404, a stale version
\* a 409, a missing resource or a second singleton a 400.  Without a change
\* nothing is written.
ServeSave(t) ==
  LET c == task[t]
      s == c.shelf
  IN  /\ At(t, "save", "send")
      /\ IF ~Server!Exists(s) THEN Reply(t, "error") /\ UNCHANGED register
         ELSE IF register[s].version # c.expected
              THEN Reply(t, "conflict") /\ UNCHANGED register
         ELSE IF ~(c.wanted \subseteq catalog) \/ ~SingletonsHold(c.wanted)
              THEN Reply(t, "error") /\ UNCHANGED register
         ELSE IF c.wanted = register[s].bindings
              THEN /\ Become(t, [Onward(c, "row") EXCEPT !.wrote = c.expected])
                   /\ UNCHANGED register
         ELSE /\ Server!Rebind(s, c.wanted)
              /\ Become(t, [Onward(c, "row") EXCEPT !.wrote = c.expected + 1])
      /\ UNCHANGED <<catalog, known, storeVars, pageVars, saving, message>>

\* POST /shelves.
ServeCreate(t) ==
  /\ At(t, "create", "send")
  /\ \E s \in ShelfIds \ known, c \in Configs :
       /\ Server!Create(s, c)
       /\ known' = known \cup {s}
       /\ Become(t, [task[t] EXCEPT !.at = "reply", !.status = "ok", !.shelf = s])
  /\ UNCHANGED <<catalog, storeVars, pageVars, saving, message>>

\* POST of a product, a device or a rule; the panel then loads its three lists.
ServeAdd(t) ==
  /\ At(t, "add", "send")
  /\ \E node \in Bindings \ catalog : catalog' = catalog \cup {node}
  /\ Become(t, Onward(task[t], "list"))
  /\ UNCHANGED <<register, known, storeVars, pageVars, saving, message>>

\* A mutant: the bindings are read before the row.
ServeRowLate(t) ==
  LET c == task[t]
      s == c.shelf
  IN  /\ c.op \in {"load", "save"} /\ c.at \in {"row", "bindings"}
      /\ IF ~Server!Exists(s) THEN Reply(t, "error")
         ELSE IF c.at = "row"
         THEN Become(t, [c EXCEPT !.at = "bindings",
                !.got = [shelf |-> s, version |-> 0, resources |-> catalog,
                         bindings |-> register[s].bindings]])
         ELSE Become(t, [c EXCEPT !.at = "reply", !.status = "ok",
                                  !.got.version = register[s].version])
      /\ UNCHANGED <<serverVars, storeVars, pageVars, saving, message>>

\* GetByIdAsync of GET configuration, and of the answer to a save: the row.
ServeRow(t) ==
  LET c == task[t]
      s == c.shelf
  IN  /\ c.op \in {"load", "save"} /\ c.at = "row"
      /\ IF ~Server!Exists(s) THEN Reply(t, "error")
         ELSE Become(t, [c EXCEPT !.at = "bindings",
                !.got = [shelf |-> s, version |-> register[s].version,
                         bindings |-> {}, resources |-> {}]])
      /\ UNCHANGED <<serverVars, storeVars, pageVars, saving, message>>

\* Then the bindings, none when the shelf was deleted meanwhile, and the schema.
ServeBindings(t) ==
  LET c == task[t]
      s == c.shelf
  IN  /\ c.op \in {"load", "save"} /\ c.at = "bindings"
      /\ Become(t, [c EXCEPT !.at = "reply", !.status = "ok",
           !.got.bindings = IF Server!Exists(s) THEN register[s].bindings ELSE {},
           !.got.resources = catalog])
      /\ UNCHANGED <<serverVars, storeVars, pageVars, saving, message>>

\* GET /shelves, or the lists of the catalog panel, which only the panel shows.
ServeList(t) ==
  /\ task[t].at = "list"
  /\ Become(t, [Onward(task[t], "listed") EXCEPT !.status = "ok",
                  !.listed = IF task[t].op = "add" THEN {}
                             ELSE {s \in ShelfIds : Server!Exists(s)}])
  /\ UNCHANGED <<serverVars, storeVars, pageVars, saving, message>>

\* The request or its answer is lost, before or after the API has served it.
Lose(t) ==
  /\ ~Free(t)
  /\ task[t].status \notin {"conflict", "error"}
  /\ LET stage == IF task[t].at \in {"list", "listed"} THEN "listed" ELSE "reply"
     IN  Become(t, [Onward(task[t], stage) EXCEPT !.status = "error"])
  /\ UNCHANGED <<serverVars, storeVars, pageVars, saving, message>>

-----------------------------------------------------------------------------
(* Answers. *)

\* The answer to api.configuration.  Whatever is selected or edited by now, it
\* is shown.
LoadAnswered(t) ==
  LET c == task[t]
  IN  /\ At(t, "load", "reply")
      /\ IF c.status = "ok" THEN SetConfiguration(c.got) /\ UNCHANGED message
         ELSE /\ message' = IF c.quiet THEN message ELSE "error"
              /\ UNCHANGED storeVars
      /\ End(t)
      /\ UNCHANGED <<serverVars, pageVars, saving>>

\* A mutant: the button is given back before the list is loaded again.
SaveAnsweredReleasing(t) ==
  LET c == task[t]
  IN  /\ At(t, "save", "reply")
      /\ IF c.status = "ok"
         THEN /\ SetConfiguration(c.got)
              /\ message' = "saved"
              /\ Become(t, Onward(c, "list"))
         ELSE /\ message' = configurationSaveErrorMessage(c.status)
              /\ End(t)
              /\ UNCHANGED storeVars
      /\ saving' = FALSE
      /\ UNCHANGED <<serverVars, pageVars>>

\* save, from the answer to the PUT to the next await or to the end.
SaveAnswered(t) ==
  LET c == task[t]
  IN  /\ At(t, "save", "reply")
      /\ IF c.status = "ok"
         THEN /\ SetConfiguration(c.got)
              /\ message' = "saved"
              /\ Become(t, Onward(c, "list"))
              /\ UNCHANGED saving
         ELSE /\ message' = configurationSaveErrorMessage(c.status)
              /\ saving' = FALSE
              /\ End(t)
              /\ UNCHANGED storeVars
      /\ UNCHANGED <<serverVars, pageVars>>

CreateAnswered(t) ==
  /\ At(t, "create", "reply")
  /\ IF task[t].status = "ok" THEN Become(t, Onward(task[t], "list"))
     ELSE End(t)
  /\ UNCHANGED <<serverVars, storeVars, pageVars, saving, message>>

AddFailed(t) ==
  /\ At(t, "add", "reply")
  /\ End(t)
  /\ UNCHANGED <<serverVars, storeVars, pageVars, saving, message>>

\* loadShelves after its await: a handler rendered without a selection selects
\* the first shelf of the list, whose order nothing here depends on.
ShelvesLoaded(t) ==
  LET c == task[t]
  IN  /\ shelves' = c.listed
      /\ IF c.closure = NoShelf /\ c.listed # {}
         THEN \E first \in c.listed : Select(t, first)
         ELSE End(t) /\ UNCHANGED selectedId

MountListed(t) ==
  /\ At(t, "mount", "listed")
  /\ IF task[t].status = "ok" THEN ShelvesLoaded(t) /\ UNCHANGED message
     ELSE message' = "error" /\ End(t) /\ UNCHANGED <<shelves, selectedId>>
  /\ UNCHANGED <<serverVars, storeVars, view, saving>>

\* The end of save: a list that does not come counts as an error of the save.
SaveListed(t) ==
  /\ At(t, "save", "listed")
  /\ IF task[t].status = "ok" THEN ShelvesLoaded(t) /\ UNCHANGED message
     ELSE message' = "error" /\ End(t) /\ UNCHANGED <<shelves, selectedId>>
  /\ saving' = FALSE
  /\ UNCHANGED <<serverVars, storeVars, view>>

\* The end of createShelf: the new shelf is selected, whatever the list.
CreateListed(t) ==
  LET c == task[t]
  IN  /\ At(t, "create", "listed")
      /\ IF c.status = "ok"
         THEN shelves' = c.listed /\ Select(t, c.shelf) /\ view' = "map"
         ELSE End(t) /\ UNCHANGED pageVars
      /\ UNCHANGED <<serverVars, storeVars, saving, message>>

\* The end of an add: onChanged loads the shelf that was selected when the
\* handler was rendered.
AddListed(t) ==
  LET c == task[t]
  IN  /\ At(t, "add", "listed")
      /\ IF c.status = "ok" /\ c.closure # NoShelf
         THEN Become(t, Load(c.closure, TRUE)) ELSE End(t)
      /\ UNCHANGED <<serverVars, storeVars, pageVars, saving, message>>

-----------------------------------------------------------------------------
(* Other clients of the API. *)

OtherClient(s) ==
  /\ OthersActive
  /\ Server!Exists(s)
  /\ \/ /\ register[s].version < MaxVersion
        /\ \/ \E bound \in SUBSET catalog : Server!Rebind(s, bound)
           \/ \E c \in Configs : Server!Rename(s, c)
     \/ Server!Remove(s)
  /\ UNCHANGED <<catalog, known, storeVars, pageVars, saving, message, task>>

\* A resource no shelf is bound to is deleted.
OtherDeletes(node) ==
  /\ OthersActive
  /\ node \in catalog
  /\ \A s \in ShelfIds : Server!Exists(s) => node \notin register[s].bindings
  /\ catalog' = catalog \ {node}
  /\ UNCHANGED <<register, known, storeVars, pageVars, saving, message, task>>

-----------------------------------------------------------------------------
Serve(t) ==
  ServeSave(t) \/ ServeCreate(t) \/ ServeAdd(t) \/ ServeRow(t)
    \/ ServeBindings(t) \/ ServeList(t)

Answer(t) ==
  LoadAnswered(t) \/ SaveAnswered(t) \/ CreateAnswered(t) \/ AddFailed(t)
    \/ MountListed(t) \/ SaveListed(t) \/ CreateListed(t) \/ AddListed(t)

Click(t) ==
  \/ \E s \in ShelfIds : ClickShelf(t, s)
  \/ ClickSave(t) \/ ClickReload(t) \/ ClickNew(t) \/ ClickAdd(t)

Next ==
  \/ \E t \in Tasks : Click(t) \/ Serve(t) \/ Answer(t) \/ Lose(t)
  \/ \E v \in {"map", "catalog"} : ShowView(v)
  \/ \E b \in Bindings : Connect(b) \/ Disconnect(b) \/ OtherDeletes(b)
  \/ \E s \in ShelfIds : OtherClient(s)

Spec == Init /\ [][Next]_vars

-----------------------------------------------------------------------------
\* A configuration that carries the version its shelf has now carries the
\* bindings it has now, although they were read by a second statement.
Faithful(x) ==
  LET s == x.shelf
  IN  Server!Exists(s) =>
        /\ x.version =< register[s].version
        /\ x.version = register[s].version => x.bindings = register[s].bindings

ShownIsCurrent ==
  /\ configuration # NoShelf => Faithful(configuration)
  /\ \A t \in Tasks :
       task[t].got # NoShelf /\ task[t].at # "bindings" => Faithful(task[t].got)

\* A save whose expected version is still the shelf's replaces exactly the
\* bindings its user was shown: nothing unseen is overwritten, whatever answers
\* came late or got lost (save in App.tsx, the PUT of the API, GetByIdAsync).
NothingUnseenIsOverwritten ==
  \A t \in Tasks :
    LET c == task[t]
    IN  At(t, "save", "send") /\ Server!Exists(c.shelf)
          /\ register[c.shelf].version = c.expected
        => register[c.shelf].bindings = c.base

\* What the configurator sends has at most one controller, camera and LED
\* output, as the domain demands: no sequence of answers and edits makes it
\* send a list the API refuses (singletonKinds in bindings.ts, Shelf.cs).
SendsSingletons ==
  /\ SingletonsHold(bindings)
  /\ \A t \in Tasks : SingletonsHold(task[t].wanted)

\* Without "Unsaved" on screen the canvas holds what was loaded, whatever answers
\* replaced while it was edited (setConfiguration and setBindings in store.ts).
CleanMeansUnchanged ==
  ~dirty => bindings = IF configuration = NoShelf THEN {} ELSE configuration.bindings

\* The button is disabled exactly while one save runs: neither a second save nor an
\* answer that fails gives it back too early or never (setSaving in App.tsx).
OneSaveRuns ==
  /\ saving <=> \E t \in Tasks : task[t].op = "save"
  /\ \A t, u \in Tasks : task[t].op = "save" /\ task[u].op = "save" => t = u

\* "The header shows the saved aggregate version" (README.md:172): after a save it
\* shows what the save committed or what somebody made of it since, never less.
SaveShowsItsVersion ==
  [][ \A t \in Tasks :
        SaveAnswered(t) /\ message' = "saved"
          => configuration'.version >= task[t].wrote ]_vars
=============================================================================
