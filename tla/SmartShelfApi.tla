--------------------------- MODULE SmartShelfApi ----------------------------
(***************************************************************************)
(* The API process: every kind of request over one store, and the restart  *)
(* of the process.  The slots given to each component (Managers,           *)
(* Recorders, Acknowledgers, Clerks) say which requests run concurrently;  *)
(* an empty set leaves that component out of an instance.                  *)
(***************************************************************************)
EXTENDS ShelfManagement, ObservationRecording, ResourceCatalog

vars == <<tables, cmd, recordingVars, del>>

TypeOK ==
  /\ StoreTypeOK
  /\ ManagementTypeOK
  /\ RecordingTypeOK
  /\ CatalogTypeOK

Init ==
  /\ StoreInit
  /\ ManagementInit
  /\ RecordingInit
  /\ CatalogInit

\* The process goes down and comes back over the same database file: requests
\* in flight are lost, and so are the colours VirtualLedController remembers.
Restart ==
  /\ Provider = "sqlite"
  /\ cmd' = [m \in Managers |-> Idle]
  /\ rec' = [r \in Recorders |-> Resting]
  /\ ack' = [a \in Acknowledgers |-> NoAck]
  /\ del' = [d \in Clerks |-> NoDeletion]
  /\ led' = [s \in ShelfIds |-> "Unset"]
  /\ UNCHANGED tables

Next ==
  \/ ManagementNext /\ UNCHANGED <<recordingVars, del>>
  \/ RecordingNext /\ UNCHANGED <<cmd, del>>
  \/ CatalogNext /\ UNCHANGED <<cmd, recordingVars>>
  \/ Restart

Spec == Init /\ [][Next]_vars

\* The thread pool resumes every request whose awaited call has completed, and
\* every call completes: SQLite gives up a lock it waits for after busy_timeout.
\* Nothing is assumed of clients, disconnects or restarts.
FairSpec ==
  /\ Spec
  /\ \A m \in Managers : WF_vars(Advance(m) /\ UNCHANGED <<recordingVars, del>>)
  /\ \A r \in Recorders : WF_vars(AdvanceRecording(r) /\ UNCHANGED <<cmd, del>>)
  /\ \A a \in Acknowledgers : WF_vars(ReadAcknowledged(a) /\ UNCHANGED <<cmd, del>>)
  /\ \A d \in Clerks : WF_vars(AdvanceDeletion(d) /\ UNCHANGED <<cmd, recordingVars>>)

-----------------------------------------------------------------------------
(* Shelves: optimistic concurrency. *)

\* The aggregate a client would be shown for shelf s.
Aggregate(s) == IF Live(s) THEN Restore(shelves[s], bindings[s]) ELSE NoShelf

Registers == INSTANCE VersionedShelf
               WITH register <- [s \in ShelfIds |-> Aggregate(s)]

\* Every committed request has the effect it would have had alone: the handlers,
\* with their reads, checks and awaits, implement an indivisible register
\* (GetByIdAsync to UpdateAsync, and the version in its WHERE clause).
ActsAsRegister == Registers!Spec

\* What a request in flight may rely on.
Holding(c) == c.copy # NoShelf

\* A copy whose version is still the shelf's version is the shelf: what was read
\* with two statements is written back only if nothing was committed in between.
Current(c) ==
  Holding(c) /\ Live(c.shelf) /\ c.copy.version = shelves[c.shelf].version
    => /\ RowOf(c.copy) = shelves[c.shelf]
       /\ c.step # "bindings" => c.copy.bindings = bindings[c.shelf]

CopyIsCurrent == \A m \in Managers : Current(cmd[m])

\* The versions a request carries are in the past: the one its client expects is
\* no newer than the one it read, which is no newer than the stored one.
InOrder(c) ==
  /\ Holding(c) => c.expected =< c.copy.version
  /\ Holding(c) /\ Live(c.shelf) => c.copy.version =< shelves[c.shelf].version
  /\ c.step = "row" /\ Live(c.shelf) => c.expected =< shelves[c.shelf].version

VersionsInOrder == \A m \in Managers : InOrder(cmd[m])

\* Every step of the store leads each shelf to the same or the next version, or
\* removes it; a version is never used for two different contents.
VersionCountsChanges ==
  [][ \A s \in ShelfIds :
        Live(s) /\ Live(s)' =>
          \/ Aggregate(s)' = Aggregate(s)
          \/ shelves'[s].version = shelves[s].version + 1 ]_vars

\* A shelf never has two controllers, cameras or LED outputs, nor is a deleted
\* shelf left with bindings (ShelfTests, docs/Architecture.md).
SingletonBindings ==
  \A s \in ShelfIds : SingletonsHold(bindings[s]) /\ (~Live(s) => bindings[s] = {})

\* What a request has established by the time it reaches a step.
Shape(c) ==
  /\ c.step # "idle" => c.shelf \in ShelfIds
  /\ c.step \in {"idle", "add", "row"} <=> c.copy = NoShelf
  /\ c.step = "add" => c.op = "create" /\ c.config # Blank
  /\ c.step \in {"row", "bindings"} => c.op \in {"update", "enable", "configure", "delete"}
  /\ c.step \in {"check", "readBack"} => c.op = "configure"
  /\ c.step = "list" => c.op = "enable"
  /\ c.step \in {"history", "remove"} => c.op = "delete"
  /\ c.step = "check" => c.copy.version = c.expected
  /\ c.step = "write" =>
       \/ c.op = "update" /\ c.config # Blank
       \/ c.op = "enable" /\ c.copy.enabled # c.enabled
       \/ c.op = "configure" /\ Bindable(c.wanted) /\ Range(c.wanted) # c.copy.bindings

CommandsFit == \A m \in Managers : Shape(cmd[m])

\* The same for observation requests, and for the SELECT that follows the UPDATE
\* of an acknowledge request: its alert is there and is no longer active.
RecordingsFit ==
  \A r \in Recorders :
    /\ rec[r].step # "idle" => rec[r].shelf \in ShelfIds /\ rec[r].signals \in Signals
    /\ rec[r].step \in {"record", "led"} => rec[r].verdict \in Assessments

AcknowledgementsFit ==
  \A a \in Acknowledgers : ack[a].step = "readBack" =>
    /\ ack[a].shelf \in ShelfIds
    /\ ack[a].alert \in DOMAIN alerts[ack[a].shelf]
    /\ alerts[ack[a].shelf][ack[a].alert].status # "Active"

\* Types, and what a request at a given step has established.
TypeInv ==
  /\ TypeOK
  /\ CommandsFit
  /\ RecordingsFit
  /\ AcknowledgementsFit

\* The identifier of a shelf that is being created is known to nobody else.
FreshIds ==
  /\ \A s \in ShelfIds : Live(s) => s \in known
  /\ \A m \in Managers : cmd[m].step = "add" =>
       /\ cmd[m].shelf \notin known
       /\ \A k \in Managers : cmd[k].shelf = cmd[m].shelf => k = m

\* The inductive invariant of shelf management.
IInv ==
  /\ TypeInv
  /\ FreshIds
  /\ VersionsInOrder
  /\ CopyIsCurrent
  /\ SingletonBindings

\* A request that was committed and is refused all the same, because its answer is
\* read back by a later call (the list after a PATCH, the configuration after a PUT
\* of it), is so for one reason only: another request deleted the shelf meanwhile.
RefusedMeansUnchangedOrGone ==
  [][ \A m \in Managers :
        ~Free(m) /\ cmd'[m].wrote /\ cmd'[m].answer \in {"notFound", "conflict", "invalid"}
          => ~Live(cmd[m].shelf) ]_vars

\* Every request is over eventually: a handler neither waits for another request
\* nor tries again after a conflict.
RequestsAreAnswered ==
  /\ \A m \in Managers : ~Free(m) ~> Free(m)
  /\ \A r \in Recorders : ~RecAt(r, "idle") ~> RecAt(r, "idle")
  /\ \A a \in Acknowledgers : ~AckAt(a, "idle") ~> AckAt(a, "idle")
  /\ \A d \in Clerks : del[d].step # "idle" ~> del[d].step = "idle"

-----------------------------------------------------------------------------
(* History: observations, alerts and the LED. *)

OpenAlerts(s) == {i \in DOMAIN alerts[s] : Open(alerts[s][i])}

\* How many observations at the end of the history are unhealthy in a row.
UnhealthyRun(s) ==
  LET obs == observations[s]
  IN  Cardinality({i \in DOMAIN obs :
                     \A j \in i..Len(obs) : obs[j].status # "Healthy"})

\* However observations interleave with each other and with acknowledgements,
\* the open alert of a shelf is what its history says: there is one exactly when
\* the last observation is unhealthy, it counts the unhealthy observations since
\* the last healthy one, and its severity is that of the last observation.
AlertReflectsHistory ==
  \A s \in ShelfIds :
    IF UnhealthyRun(s) = 0 THEN OpenAlerts(s) = {}
    ELSE \E i \in DOMAIN alerts[s] :
           /\ OpenAlerts(s) = {i}
           /\ i = Len(alerts[s])
           /\ alerts[s][i].occurrences = UnhealthyRun(s)
           /\ alerts[s][i].severity = AlertSeverity(observations[s][Len(observations[s])].status)

\* An alert only moves forward: an acknowledged alert is not active again while
\* it is open, and a resolved alert never changes any more.
AlertsMoveForward ==
  [][ \A s \in ShelfIds : \A i \in DOMAIN alerts[s] :
        /\ i \in DOMAIN alerts'[s]
        /\ alerts[s][i].status = "Resolved" => alerts'[s][i] = alerts[s][i]
        /\ alerts[s][i].status = "Acknowledged" => alerts'[s][i].status # "Active"
    ]_vars

\* The LED never shows a decision that is not stored.
LedShowsStoredDecision ==
  \A s \in ShelfIds :
    led[s] # "Unset" => \E i \in DOMAIN observations[s] : observations[s][i].led = led[s]

\* A shelf that has history is still there.
HistoryHasShelf ==
  \A s \in ShelfIds : HasOperationalHistory(s) => Live(s)

-----------------------------------------------------------------------------
(* Catalog. *)

\* A resource is not deleted while a shelf is bound to it.
BoundResourceStays ==
  [][ \A s \in ShelfIds : \A b \in bindings[s] :
        catalog[b.id] # "None" => catalog'[b.id] # "None" ]_vars

=============================================================================
