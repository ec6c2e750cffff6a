-------------------------- MODULE ShelfManagement ---------------------------
(***************************************************************************)
(* The HTTP requests that create, change and delete shelves.  A request    *)
(* runs the handler of its operation (ShelfManagementService, the PATCH    *)
(* endpoint of the API, UpdateShelfConfigurationHandler) from one awaited  *)
(* store call to the next; between two calls every other request may run,  *)
(* and the request may be aborted (the client disconnects and the          *)
(* cancellation token fires, or the process goes down).                    *)
(*                                                                         *)
(* Clients behave: the version a request expects is one the shelf has had  *)
(* by the time the request arrives.  The dashboard and the configurator    *)
(* send the version of the shelf they display and nothing else.            *)
(***************************************************************************)
EXTENDS SmartShelfStore

CONSTANTS
  Managers,       \* requests in flight at a time
  BindingLists,   \* the binding lists clients send, as sequences
  MaxVersion      \* bound: a shelf at this version gets no more changes

ASSUME ManagementAssumption ==
  /\ BindingLists \subseteq Seq(Bindings)
  /\ MaxVersion \in Nat

VARIABLE cmd      \* cmd[m]: the request in slot m, or how the last one ended

Operations == {"none", "create", "update", "enable", "configure", "delete"}

Steps == {"idle", "add", "row", "bindings", "check", "write",
          "list", "readBack", "history", "remove"}

Answers == {"none", "ok", "notFound", "conflict", "invalid", "aborted"}

Commands ==
  [step     : Steps,
   op       : Operations,
   shelf    : ShelfIds \cup {NoShelf},
   expected : Nat,                        \* ExpectedVersion
   config   : Configs \cup {Blank},       \* the body of a create or an update
   enabled  : BOOLEAN,                    \* the body of an enable
   wanted   : Seq(Bindings),              \* the body of a configure
   left     : Seq(Bindings),              \* bindings not yet looked up
   copy     : Shelves \cup {NoShelf},     \* the shelf as the handler read it
   wrote    : BOOLEAN,                    \* a store committed this request
   answer   : Answers]

Idle ==
  [step |-> "idle", op |-> "none", shelf |-> NoShelf, expected |-> 0,
   config |-> Blank, enabled |-> FALSE, wanted |-> <<>>, left |-> <<>>,
   copy |-> NoShelf, wrote |-> FALSE, answer |-> "none"]

ManagementTypeOK == cmd \in [Managers -> Commands]

ManagementInit == cmd = [m \in Managers |-> Idle]

-----------------------------------------------------------------------------
(* Helpers. *)

\* The versions of a shelf that some client may be looking at.
SeenVersions(s) == IF Live(s) THEN 1..shelves[s].version ELSE {1}

\* What is left of a request once its response is on the way.
Answered(c, answer) ==
  [Idle EXCEPT !.op = c.op, !.wrote = c.wrote, !.answer = answer]

Answer(m, answer) == cmd' = [cmd EXCEPT ![m] = Answered(@, answer)]

Goto(m, step) == cmd' = [cmd EXCEPT ![m].step = step]

\* The local part of a handler between GetByIdAsync and its next await.
AfterRead(c) ==
  CASE c.op = "update" ->
         IF c.config = Blank THEN Answered(c, "invalid")
         ELSE [c EXCEPT !.step = "write"]
    [] c.op = "enable" ->
         IF c.copy.version # c.expected THEN Answered(c, "conflict")
         ELSE IF c.copy.enabled = c.enabled THEN [c EXCEPT !.step = "list"]
         ELSE [c EXCEPT !.step = "write"]
    [] c.op = "configure" ->
         IF c.copy.version # c.expected THEN Answered(c, "conflict")
         ELSE [c EXCEPT !.step = "check", !.left = c.wanted]
    [] c.op = "delete" -> [c EXCEPT !.step = "history"]

\* The aggregate a handler hands to UpdateAsync.
Changed(c) ==
  CASE c.op = "update"    -> UpdateConfiguration(c.copy, c.config)
    [] c.op = "enable"    -> SetEnabled(c.copy, c.enabled)
    [] c.op = "configure" -> ReplaceBindings(c.copy, c.wanted)

\* Where a handler goes when UpdateAsync has committed.
AfterWrite(c) ==
  CASE c.op = "update"    -> Answered([c EXCEPT !.wrote = TRUE], "ok")
    [] c.op = "enable"    -> [c EXCEPT !.wrote = TRUE, !.step = "list"]
    [] c.op = "configure" -> [c EXCEPT !.wrote = TRUE, !.step = "readBack"]

-----------------------------------------------------------------------------
(* Requests arrive. *)

Free(m) == cmd[m].step = "idle"

Arrive(m, c) == Free(m) /\ cmd' = [cmd EXCEPT ![m] = c] /\ UNCHANGED tables

\* POST /shelves.  The constructor draws a fresh Guid; a blank name is refused
\* before anything is awaited.
PostShelf(m, s, config) ==
  /\ s \notin known
  /\ \A k \in Managers : cmd[k].shelf # s
  /\ Arrive(m, IF config = Blank THEN Answered([Idle EXCEPT !.op = "create"], "invalid")
               ELSE [Idle EXCEPT !.step = "add", !.op = "create",
                                 !.shelf = s, !.config = config])

\* A request that names shelf s and the version its client has seen.
Request(op, s, expected) ==
  [Idle EXCEPT !.step = "row", !.op = op, !.shelf = s, !.expected = expected]

Addressable(s) == s \in known /\ (Live(s) => shelves[s].version < MaxVersion)

PutShelf(m, s, expected, config) ==
  /\ Addressable(s)
  /\ Arrive(m, [Request("update", s, expected) EXCEPT !.config = config])

PatchEnabled(m, s, expected, enabled) ==
  /\ Addressable(s)
  /\ Arrive(m, [Request("enable", s, expected) EXCEPT !.enabled = enabled])

PutConfiguration(m, s, expected, wanted) ==
  /\ Addressable(s)
  /\ Arrive(m, [Request("configure", s, expected) EXCEPT !.wanted = wanted])

DeleteRequest(m, s, expected) ==
  /\ s \in known
  /\ Arrive(m, Request("delete", s, expected))

-----------------------------------------------------------------------------
(* The awaited calls. *)

At(m, step) == cmd[m].step = step

AddShelf(m) ==
  /\ At(m, "add")
  /\ InsertShelf(cmd[m].shelf, NewShelf(cmd[m].config))
  /\ cmd' = [cmd EXCEPT ![m] = Answered([@ EXCEPT !.wrote = TRUE], "ok")]
  /\ UNCHANGED <<catalogTables, historyTables>>

\* GetByIdAsync, the SELECT of the row.  The in-memory store clones the row and
\* its bindings under one lock and is done.
SelectRow(m) ==
  LET c == cmd[m]
      s == c.shelf
  IN  /\ At(m, "row")
      /\ cmd' = [cmd EXCEPT ![m] =
           IF ~Live(s) THEN Answered(c, "notFound")
           ELSE IF Provider = "inmemory"
                THEN AfterRead([c EXCEPT !.copy = Restore(shelves[s], bindings[s])])
                ELSE [c EXCEPT !.step = "bindings", !.copy = Restore(shelves[s], {})]]
      /\ UNCHANGED tables

\* GetByIdAsync, the SELECT of the bindings, on the same connection but outside
\* any transaction.
SelectBindings(m) ==
  LET c == cmd[m]
  IN  /\ At(m, "bindings")
      /\ cmd' = [cmd EXCEPT ![m] =
                   AfterRead([c EXCEPT !.copy = Restore(c.copy, bindings[c.shelf])])]
      /\ UNCHANGED tables

\* One turn of the loop that looks the requested resources up.
CheckResource(m) ==
  LET c == cmd[m]
  IN  /\ At(m, "check")
      /\ c.left # <<>>
      /\ cmd' = [cmd EXCEPT ![m] =
           IF ResourceExists(Head(c.left)) THEN [c EXCEPT !.left = Tail(@)]
           ELSE Answered(c, "invalid")]
      /\ UNCHANGED tables

\* The loop is over: Shelf.ReplaceBindings validates, and decides whether there
\* is anything to write.
ReplaceStep(m) ==
  LET c == cmd[m]
  IN  /\ At(m, "check")
      /\ c.left = <<>>
      /\ cmd' = [cmd EXCEPT ![m] =
           IF ~Bindable(c.wanted) THEN Answered(c, "invalid")
           ELSE IF ReplaceBindings(c.copy, c.wanted).version = c.expected
                THEN [c EXCEPT !.step = "readBack"]
                ELSE [c EXCEPT !.step = "write"]]
      /\ UNCHANGED tables

\* A mutant: UPDATE without the version in its WHERE clause.
UpdateUnconditionally(m) ==
  LET c == cmd[m]
  IN  /\ At(m, "write")
      /\ Live(c.shelf)
      /\ OverwriteShelf(c.shelf, Changed(c))
      /\ cmd' = [cmd EXCEPT ![m] = AfterWrite(c)]
      /\ UNCHANGED <<catalogTables, historyTables>>

\* A mutant: after a conflict the handler reads the shelf again and retries.
UpdateRetrying(m) ==
  LET c == cmd[m]
  IN  /\ At(m, "write")
      /\ IF HasVersion(c.shelf, c.expected)
         THEN /\ OverwriteShelf(c.shelf, Changed(c))
              /\ cmd' = [cmd EXCEPT ![m] = AfterWrite(c)]
         ELSE /\ cmd' = [cmd EXCEPT ![m].step = "row", ![m].copy = NoShelf]
              /\ UNCHANGED shelfTables
      /\ UNCHANGED <<catalogTables, historyTables>>

\* UpdateAsync(shelf, expectedVersion): compare-and-set in one transaction.
UpdateShelf(m) ==
  LET c == cmd[m]
  IN  /\ At(m, "write")
      /\ IF HasVersion(c.shelf, c.expected)
         THEN /\ OverwriteShelf(c.shelf, Changed(c))
              /\ cmd' = [cmd EXCEPT ![m] = AfterWrite(c)]
         ELSE Answer(m, "conflict") /\ UNCHANGED shelfTables
      /\ UNCHANGED <<catalogTables, historyTables>>

\* HasOperationalHistoryAsync.
CheckHistory(m) ==
  /\ At(m, "history")
  /\ IF HasOperationalHistory(cmd[m].shelf) THEN Answer(m, "conflict")
     ELSE Goto(m, "remove")
  /\ UNCHANGED tables

\* DeleteAsync(id, expectedVersion).
RemoveShelf(m) ==
  LET c == cmd[m]
  IN  /\ At(m, "remove")
      /\ IF HasVersion(c.shelf, c.expected)
         THEN /\ DeleteShelf(c.shelf)
              /\ cmd' = [cmd EXCEPT ![m] = Answered([c EXCEPT !.wrote = TRUE], "ok")]
         ELSE Answer(m, "conflict") /\ UNCHANGED shelfTables
      /\ UNCHANGED <<catalogTables, historyTables>>

\* The PATCH endpoint answers with GetShelvesAsync().Single(id), which throws an
\* InvalidOperationException, a 409, when the shelf is gone.
ListShelves(m) ==
  /\ At(m, "list")
  /\ Answer(m, IF Live(cmd[m].shelf) THEN "ok" ELSE "conflict")
  /\ UNCHANGED tables

\* A mutant: the configuration read back has to be the one that was written.
ReadBackItsVersion(m) ==
  LET c == cmd[m]
  IN  /\ At(m, "readBack")
      /\ Answer(m, IF ~Live(c.shelf) THEN "notFound"
                   ELSE IF shelves[c.shelf].version > c.expected + 1 THEN "conflict"
                   ELSE "ok")
      /\ UNCHANGED tables

\* GetConfigurationAsync, for the response to a configure: null is a 404.
ReadBack(m) ==
  /\ At(m, "readBack")
  /\ Answer(m, IF Live(cmd[m].shelf) THEN "ok" ELSE "notFound")
  /\ UNCHANGED tables

\* The cancellation token fires: the pending call of the SQLite adapter throws.
\* The in-memory adapter does not look at the token.
Abort(m) ==
  /\ Provider = "sqlite"
  /\ ~Free(m)
  /\ Answer(m, "aborted")
  /\ UNCHANGED tables

-----------------------------------------------------------------------------
Advance(m) ==
  \/ AddShelf(m) \/ SelectRow(m) \/ SelectBindings(m) \/ CheckResource(m)
  \/ ReplaceStep(m) \/ UpdateShelf(m) \/ CheckHistory(m) \/ RemoveShelf(m)
  \/ ListShelves(m) \/ ReadBack(m)

Submit(m) ==
  \E s \in ShelfIds :
    \/ \E c \in Configs \cup {Blank} : PostShelf(m, s, c)
    \/ \E v \in SeenVersions(s) :
         \/ \E c \in Configs \cup {Blank} : PutShelf(m, s, v, c)
         \/ \E e \in BOOLEAN : PatchEnabled(m, s, v, e)
         \/ \E w \in BindingLists : PutConfiguration(m, s, v, w)
         \/ DeleteRequest(m, s, v)

ManagementNext == \E m \in Managers : Submit(m) \/ Advance(m) \/ Abort(m)
=============================================================================
