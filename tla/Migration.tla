----------------------------- MODULE Migration ------------------------------
(***************************************************************************)
(* What SqliteDatabase does before the first request of a process reaches  *)
(* the database file: it adds the columns older files lack, runs the       *)
(* numbered script, and turns the device strings of older shelves into     *)
(* catalog devices and bindings.  All but the script runs statement by     *)
(* statement, each committed on its own, and the request whose token it    *)
(* uses may be aborted, or the process stopped, after every one of them;   *)
(* the next request then starts again.  Other requests wait for the lock,  *)
(* so operators change the tables only between two starts.                 *)
(*                                                                         *)
(* A device is named by its serial number, which is unique.  The table     *)
(* schema_migrations, which CREATE TABLE IF NOT EXISTS makes first, has    *)
(* the one row "applied" stands for.                                       *)
(***************************************************************************)
EXTENDS Naturals, FiniteSets, Sequences, Functions

CONSTANTS
  Shelves,
  Serials,      \* device strings of old shelves, serial numbers of devices
  None,         \* no string, no device
  MaxStops,     \* bound: how often a start is interrupted or the process restarted
  MaxVersion    \* bound: operators change no shelf that has this version

Kinds == {"Controller", "Camera"}

ASSUME MigrationAssumption ==
  /\ IsFiniteSet(Shelves)
  /\ None \notin Serials \cup Kinds
  /\ MaxStops \in Nat /\ MaxVersion \in Nat

VARIABLES
  columns,   \* columns of the table shelves; empty if there is no such table
  applied,   \* 001_initial is recorded
  legacy,    \* legacy[s][k]: device_id (k = "Controller") and camera_device
  devices,   \* devices[x]: the kind of the device with serial number x
  bindings,  \* bindings[s]: pairs of a kind and a serial number
  version,   \* version[s]
  pc,        \* the statement the start is at; "closed", "ready"
  seen,      \* the columns the start has read or added
  todo,      \* the strings of the SELECT that are still to be migrated
  stops      \* how often the process was stopped or the request aborted

fileVars == <<columns, applied, legacy, devices, bindings, version>>
vars == <<fileVars, pc, seen, todo, stops>>

\* The columns a program before the current one may not have made.
AddedColumns == <<"version", "device_id", "camera_device">>
LegacyColumn == [k \in Kinds |-> IF k = "Controller" THEN "device_id" ELSE "camera_device"]
Strings == [shelf : Shelves, kind : Kinds, serial : Serials \cup {None}]

\* The types of the variables.
TypeOK ==
  /\ columns \subseteq {"id"} \cup Range(AddedColumns)
  /\ applied \in BOOLEAN
  /\ legacy \in [Shelves -> [Kinds -> Serials \cup {None}]]
  /\ devices \in [Serials -> Kinds \cup {None}]
  /\ bindings \in [Shelves -> SUBSET [kind : Kinds, serial : Serials]]
  /\ version \in [Shelves -> 1..MaxVersion]
  /\ pc \in {"closed", "columns", "alter", "script", "legacy", "find", "insert", "bind", "ready"}
  /\ seen \subseteq {"id"} \cup Range(AddedColumns)
  /\ todo \in Seq(Strings)
  /\ stops \in 0..MaxStops

\* A new file, or one an older program left: its columns are those it knew, and
\* strings are in columns that exist.
Init ==
  /\ columns \in {{}} \cup {{"id"} \cup c : c \in SUBSET Range(AddedColumns)}
  /\ legacy \in [Shelves -> [Kinds -> Serials \cup {None}]]
  /\ \A s \in Shelves, k \in Kinds :
       legacy[s][k] # None => LegacyColumn[k] \in columns
  /\ applied = FALSE
  /\ devices = [x \in Serials |-> None]
  /\ bindings = [s \in Shelves |-> {}]
  /\ version = [s \in Shelves |-> 1]
  /\ pc = "closed"
  /\ seen = {}
  /\ todo = <<>>
  /\ stops = 0

-----------------------------------------------------------------------------
(* EnsureInitializedAsync *)

\* A request finds the database not initialized and takes the lock.
Open ==
  /\ pc = "closed"
  /\ pc' = "columns"
  /\ UNCHANGED <<fileVars, seen, todo, stops>>

\* The two SELECTs of EnsureLegacyShelfColumnsAsync.
ReadColumns ==
  /\ pc = "columns"
  /\ IF columns = {} THEN pc' = "script" /\ UNCHANGED seen
     ELSE pc' = "alter" /\ seen' = columns
  /\ UNCHANGED <<fileVars, todo, stops>>

\* A mutant: one test, for the first of the columns, decides on all three.
MissingIfNoVersion ==
  IF "version" \in seen THEN <<>> ELSE AddedColumns

\* The columns that are still to be added.
Missing == SelectSeq(AddedColumns, LAMBDA c : c \notin seen)

\* ALTER TABLE: fails, which leaves the start where it is, if the column exists.
AddColumn ==
  /\ pc = "alter"
  /\ Missing # <<>>
  /\ Head(Missing) \notin columns
  /\ columns' = columns \cup {Head(Missing)}
  /\ seen' = seen \cup {Head(Missing)}
  /\ UNCHANGED <<applied, legacy, devices, bindings, version, pc, todo, stops>>

ColumnsAdded ==
  /\ pc = "alter"
  /\ Missing = <<>>
  /\ pc' = "script"
  /\ UNCHANGED <<fileVars, seen, todo, stops>>

\* 001_initial.sql and its row in schema_migrations, in one transaction.
\* CREATE TABLE IF NOT EXISTS leaves a table that is there as it is.
RunScript ==
  /\ pc = "script"
  /\ applied' = TRUE
  /\ columns' = IF ~applied /\ columns = {} THEN {"id"} \cup Range(AddedColumns) ELSE columns
  /\ pc' = "legacy"
  /\ UNCHANGED <<legacy, devices, bindings, version, seen, todo, stops>>

-----------------------------------------------------------------------------
(* MigrateLegacyBindingsAsync *)

\* The SELECT, in the order SQLite likes: for every shelf with a string, its device
\* and then its camera.
ReadLegacy ==
  /\ pc = "legacy"
  /\ LegacyColumn["Controller"] \in columns /\ LegacyColumn["Camera"] \in columns
  /\ LET old == {s \in Shelves : \E k \in Kinds : legacy[s][k] # None}
         string(s, k) == [shelf |-> s, kind |-> k, serial |-> legacy[s][k]]
     IN  \E rows \in Bijection(1..Cardinality(old), old) :
           todo' = [i \in 1..(2 * Cardinality(old)) |->
                     string(rows[(i + 1) \div 2], IF i % 2 = 1 THEN "Controller" ELSE "Camera")]
  /\ pc' = "find"
  /\ UNCHANGED <<fileVars, seen, stops>>

\* A mutant: a device that is there already is taken to be bound already.
FindDeviceBound ==
  /\ pc = "find"
  /\ todo # <<>>
  /\ LET x == Head(todo).serial
     IN  IF x = None \/ devices[x] # None THEN todo' = Tail(todo) /\ UNCHANGED pc
         ELSE pc' = "insert" /\ UNCHANGED todo
  /\ UNCHANGED <<fileVars, seen, stops>>

\* The SELECT of the device, by serial number and whatever its kind.
FindDevice ==
  /\ pc = "find"
  /\ todo # <<>>
  /\ LET x == Head(todo).serial
     IN  IF x = None THEN todo' = Tail(todo) /\ UNCHANGED pc
         ELSE pc' = (IF devices[x] = None THEN "insert" ELSE "bind") /\ UNCHANGED todo
  /\ UNCHANGED <<fileVars, seen, stops>>

InsertDevice ==
  /\ pc = "insert"
  /\ devices' = [devices EXCEPT ![Head(todo).serial] = Head(todo).kind]
  /\ pc' = "bind"
  /\ UNCHANGED <<columns, applied, legacy, bindings, version, seen, todo, stops>>

Bound(s, k) == \E b \in bindings[s] : b.kind = k
Binding(k, x) == [kind |-> k, serial |-> x]

\* A mutant: INSERT OR REPLACE.
BindDeviceReplacing ==
  LET t == Head(todo)
  IN  /\ pc = "bind"
      /\ bindings' = [bindings EXCEPT ![t.shelf] =
           {b \in @ : b.kind # t.kind} \cup {Binding(t.kind, t.serial)}]
      /\ todo' = Tail(todo)
      /\ pc' = "find"
      /\ UNCHANGED <<columns, applied, legacy, devices, version, seen, stops>>

\* INSERT OR IGNORE: a shelf has one controller and one camera (the unique
\* indexes), and keeps the one it has.
BindDevice ==
  LET t == Head(todo)
  IN  /\ pc = "bind"
      /\ bindings' = IF Bound(t.shelf, t.kind) THEN bindings
                     ELSE [bindings EXCEPT ![t.shelf] = @ \cup {Binding(t.kind, t.serial)}]
      /\ todo' = Tail(todo)
      /\ pc' = "find"
      /\ UNCHANGED <<columns, applied, legacy, devices, version, seen, stops>>

\* _initialized is set, the lock released, and the requests go on.
Initialized ==
  /\ pc = "find"
  /\ todo = <<>>
  /\ pc' = "ready"
  /\ UNCHANGED <<fileVars, seen, todo, stops>>

\* The request whose token the start uses is aborted, or the process ends.
Stop ==
  /\ pc # "closed"
  /\ stops < MaxStops
  /\ stops' = stops + 1
  /\ pc' = "closed"
  /\ seen' = {}
  /\ todo' = <<>>
  /\ UNCHANGED fileVars

-----------------------------------------------------------------------------
(* What operators do between two starts (ShelfManagement, ResourceCatalog) *)

\* PUT /shelves/{id}/configuration: other bindings, to devices of their kinds.
Configure(s) ==
  /\ pc = "ready"
  /\ version[s] < MaxVersion
  /\ \E wanted \in SUBSET {Binding(devices[x], x) : x \in {y \in Serials : devices[y] # None}} :
       /\ \A b, c \in wanted : b.kind = c.kind => b = c
       /\ wanted # bindings[s]
       /\ bindings' = [bindings EXCEPT ![s] = wanted]
  /\ version' = [version EXCEPT ![s] = @ + 1]
  /\ UNCHANGED <<columns, applied, legacy, devices, pc, seen, todo, stops>>

\* POST /devices.
AddDevice(x, k) ==
  /\ pc = "ready"
  /\ devices[x] = None
  /\ devices' = [devices EXCEPT ![x] = k]
  /\ UNCHANGED <<columns, applied, legacy, bindings, version, pc, seen, todo, stops>>

\* DELETE /devices/{id}, of a device no shelf is bound to.
DeleteDevice(x) ==
  /\ pc = "ready"
  /\ devices[x] # None
  /\ \A s \in Shelves : \A b \in bindings[s] : b.serial # x
  /\ devices' = [devices EXCEPT ![x] = None]
  /\ UNCHANGED <<columns, applied, legacy, bindings, version, pc, seen, todo, stops>>

-----------------------------------------------------------------------------
Start ==
  \/ Open \/ ReadColumns \/ AddColumn \/ ColumnsAdded \/ RunScript
  \/ ReadLegacy \/ FindDevice \/ InsertDevice \/ BindDevice \/ Initialized

Operate ==
  \/ \E s \in Shelves : Configure(s)
  \/ \E x \in Serials : DeleteDevice(x) \/ \E k \in Kinds : AddDevice(x, k)

Next == Start \/ Stop \/ Operate

Spec == Init /\ [][Next]_vars

\* There are requests, and the statements of a start return.  Interruptions are
\* bounded by MaxStops and not fair; operators need not do anything.
FairSpec == Spec /\ WF_vars(Start)

-----------------------------------------------------------------------------
\* Wherever earlier starts were interrupted, a start that completes leaves every
\* string of an old shelf with a device, and the shelf with a device of that kind
\* (the test "Legacy_shelf_columns_are_preserved_and_converted_to_bindings").
StartMigratesAll ==
  [][ pc # "ready" /\ pc' = "ready" =>
        \A s \in Shelves, k \in Kinds : legacy[s][k] # None =>
          devices[legacy[s][k]] # None /\ Bound(s, k) ]_vars

\* A start takes nothing away: what operators have bound, and the devices and
\* versions they know, are there after it (README.md:290, "without removing").
StartKeepsWork ==
  [][ pc # "ready" =>
        /\ version' = version
        /\ \A s \in Shelves : bindings[s] \subseteq bindings'[s]
        /\ \A x \in Serials : devices[x] # None => devices'[x] = devices[x] ]_vars

\* A start that is interrupted can always be repeated: the database opens in the
\* end, whichever file the first start found.
DatabaseOpens == pc = "closed" ~> pc = "ready"

=============================================================================
