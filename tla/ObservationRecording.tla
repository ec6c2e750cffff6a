------------------------ MODULE ObservationRecording ------------------------
(***************************************************************************)
(* The HTTP requests of devices and operators that concern the history of  *)
(* a shelf: POST /observations (RecordShelfObservationHandler, with the    *)
(* LED as its last effect) and POST /alerts/{id}/acknowledge.  As in       *)
(* ShelfManagement, a request takes one step per awaited call and may be   *)
(* aborted between two of them.                                            *)
(***************************************************************************)
EXTENDS SmartShelfStore

CONSTANTS
  Recorders,        \* observation requests in flight at a time
  Acknowledgers,    \* acknowledge requests in flight at a time
  Signals,          \* the readings devices post
  MaxObservations   \* bound: a shelf with this many observations gets no more

ASSUME RecordingAssumption ==
  /\ Signals \subseteq [inventory : Int, days : Int,
                        expired : BOOLEAN, online : BOOLEAN]
  /\ MaxObservations \in Nat

VARIABLES
  rec,    \* rec[r]: the observation request in slot r
  ack,    \* ack[a]: the acknowledge request in slot a
  led     \* led[s]: the colour VirtualLedController holds for s, or "Unset"

recordingVars == <<rec, ack, led>>

Recordings ==
  [step    : {"idle", "row", "bindings", "rules", "record", "led"},
   shelf   : ShelfIds \cup {NoShelf},
   signals : Signals \cup {NoShelf},
   bound   : SUBSET Bindings,             \* the bindings the handler read
   verdict : Assessments \cup {NoShelf},
   answer  : {"none", "created", "notFound", "rejected", "invalid", "aborted"}]

Resting ==
  [step |-> "idle", shelf |-> NoShelf, signals |-> NoShelf, bound |-> {},
   verdict |-> NoShelf, answer |-> "none"]

Acknowledgements ==
  [step   : {"idle", "readBack"},
   shelf  : ShelfIds \cup {NoShelf},
   alert  : Nat,
   answer : {"none", "notFound", "Acknowledged", "Resolved", "aborted"}]

NoAck == [step |-> "idle", shelf |-> NoShelf, alert |-> 0, answer |-> "none"]

RecordingTypeOK ==
  /\ rec \in [Recorders -> Recordings]
  /\ ack \in [Acknowledgers -> Acknowledgements]
  /\ led \in [ShelfIds -> Colors \cup {"Unset"}]

RecordingInit ==
  /\ rec = [r \in Recorders |-> Resting]
  /\ ack = [a \in Acknowledgers |-> NoAck]
  /\ led = [s \in ShelfIds |-> "Unset"]

-----------------------------------------------------------------------------
(* POST /shelves/{id}/observations *)

RecAt(r, step) == rec[r].step = step

\* The request is over; its slot can take another.
Finish(r, answer) == rec' = [rec EXCEPT ![r] = [Resting EXCEPT !.answer = answer]]

\* An inventory that is no percentage is refused before anything is awaited.
PostObservation(r, s, signals) ==
  /\ RecAt(r, "idle")
  /\ s \in known
  /\ Len(observations[s]) < MaxObservations
  /\ IF signals.inventory \in 0..100
     THEN rec' = [rec EXCEPT ![r] = [Resting EXCEPT !.step = "row", !.shelf = s,
                                                    !.signals = signals]]
     ELSE Finish(r, "invalid")
  /\ UNCHANGED <<ack, led, tables>>

\* GetByIdAsync, the SELECT of the row.  The handler looks at Enabled only when
\* it has the whole shelf; the flag is the row's, so the decision is the same.
ReadShelf(r) ==
  LET s == rec[r].shelf
  IN  /\ RecAt(r, "row")
      /\ IF ~Live(s) THEN Finish(r, "notFound")
         ELSE IF ~shelves[s].enabled THEN Finish(r, "rejected")
         ELSE IF Provider = "inmemory"
              THEN rec' = [rec EXCEPT ![r].step = "rules", ![r].bound = bindings[s]]
              ELSE rec' = [rec EXCEPT ![r].step = "bindings"]
      /\ UNCHANGED <<ack, led, tables>>

\* GetByIdAsync, the SELECT of the bindings.
ReadBindings(r) ==
  /\ RecAt(r, "bindings")
  /\ rec' = [rec EXCEPT ![r].step = "rules", ![r].bound = bindings[rec[r].shelf]]
  /\ UNCHANGED <<ack, led, tables>>

\* A mutant: the LED is set before the observation is stored.
JudgeAndLight(r) ==
  LET c == rec[r]
  IN  /\ RecAt(r, "rules")
      /\ \E v \in RuleEvaluate(c.signals, StoredRules(c.bound)) :
           /\ rec' = [rec EXCEPT ![r].step = "record", ![r].verdict = v]
           /\ led' = [led EXCEPT ![c.shelf] = v.led]
      /\ UNCHANGED <<ack, tables>>

\* GetRulesAsync and the evaluation of what it returned.
Judge(r) ==
  LET c == rec[r]
  IN  /\ RecAt(r, "rules")
      /\ \E v \in RuleEvaluate(c.signals, StoredRules(c.bound)) :
           rec' = [rec EXCEPT ![r].step = "record", ![r].verdict = v]
      /\ UNCHANGED <<ack, led, tables>>

\* RecordAsync: one transaction, whatever has become of the shelf meanwhile.
Record(r) ==
  LET c == rec[r]
  IN  /\ RecAt(r, "record")
      /\ RecordObservation(c.shelf, c.verdict)
      /\ rec' = [rec EXCEPT ![r].step = "led"]
      /\ UNCHANGED <<ack, led, shelfTables, catalogTables>>

\* VirtualLedController.SetAsync, and the 201.
SetLed(r) ==
  LET c == rec[r]
  IN  /\ RecAt(r, "led")
      /\ led' = [led EXCEPT ![c.shelf] = c.verdict.led]
      /\ Finish(r, "created")
      /\ UNCHANGED <<ack, tables>>

\* The cancellation token fires: the pending call of the SQLite adapter throws,
\* and so does the LED controller.
AbortRecording(r) ==
  /\ ~RecAt(r, "idle")
  /\ Provider = "sqlite" \/ RecAt(r, "led")
  /\ Finish(r, "aborted")
  /\ UNCHANGED <<ack, led, tables>>

-----------------------------------------------------------------------------
(* POST /alerts/{id}/acknowledge *)

AckAt(a, step) == ack[a].step = step

FinishAck(a, answer) ==
  ack' = [ack EXCEPT ![a] = [NoAck EXCEPT !.answer = answer]]

\* The UPDATE.  It affects no row when the alert is resolved, and the answer is
\* 404.  The in-memory store returns the alert from under the same lock.
Acknowledge(a, s, i) ==
  /\ AckAt(a, "idle")
  /\ i \in DOMAIN alerts[s]
  /\ IF Open(alerts[s][i])
     THEN /\ MarkAcknowledged(s, i)
          /\ IF Provider = "inmemory" THEN FinishAck(a, "Acknowledged")
             ELSE ack' = [ack EXCEPT ![a] = [NoAck EXCEPT !.step = "readBack",
                                                          !.shelf = s, !.alert = i]]
     ELSE FinishAck(a, "notFound") /\ UNCHANGED alerts
  /\ UNCHANGED <<rec, led, shelfTables, catalogTables, observations>>

\* The SELECT of the updated alert, on the same connection.
ReadAcknowledged(a) ==
  /\ AckAt(a, "readBack")
  /\ FinishAck(a, alerts[ack[a].shelf][ack[a].alert].status)
  /\ UNCHANGED <<rec, led, tables>>

\* Only the SQLite adapter leaves the request pending.
AbortAck(a) ==
  /\ ~AckAt(a, "idle")
  /\ FinishAck(a, "aborted")
  /\ UNCHANGED <<rec, led, tables>>

-----------------------------------------------------------------------------
AdvanceRecording(r) ==
  ReadShelf(r) \/ ReadBindings(r) \/ Judge(r) \/ Record(r) \/ SetLed(r)

RecordingNext ==
  \/ \E r \in Recorders :
       \/ \E s \in ShelfIds, signals \in Signals : PostObservation(r, s, signals)
       \/ AdvanceRecording(r)
       \/ AbortRecording(r)
  \/ \E a \in Acknowledgers :
       \/ \E s \in ShelfIds, i \in 1..MaxObservations : Acknowledge(a, s, i)
       \/ ReadAcknowledged(a)
       \/ AbortAck(a)
=============================================================================
