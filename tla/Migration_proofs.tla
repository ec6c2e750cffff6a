-------------------------- MODULE Migration_proofs --------------------------
(***************************************************************************)
(* Start-up, for any number of old shelves, strings, interruptions and     *)
(* changes by operators between two starts.  A start that was interrupted  *)
(* leaves some strings with a device and some shelves bound; what makes    *)
(* the next one complete is that it looks at every string again, and that  *)
(* each statement adds only what is not there.  The inductive invariant is *)
(* MInv: from the SELECT on, every string has been migrated or is still to *)
(* be.                                                                     *)
(***************************************************************************)
EXTENDS Migration, FiniteSetTheorems, TLAPS

\* The tables a start reads and writes.
Tables ==
  /\ legacy \in [Shelves -> [Kinds -> Serials \cup {None}]]
  /\ devices \in [Serials -> Kinds \cup {None}]
  /\ bindings \in [Shelves -> SUBSET [kind : Kinds, serial : Serials]]

\* What the rows of the SELECT hold is what the table holds.
Read ==
  /\ todo \in Seq(Strings)
  /\ \A i \in DOMAIN todo : todo[i].serial = legacy[todo[i].shelf][todo[i].kind]

Migrated(s, k) == devices[legacy[s][k]] # None /\ Bound(s, k)
Waiting(s, k) == \E i \in DOMAIN todo : todo[i].shelf = s /\ todo[i].kind = k
Migrating == pc \in {"find", "insert", "bind"}

Covered ==
  \A s \in Shelves, k \in Kinds : legacy[s][k] # None => Migrated(s, k) \/ Waiting(s, k)

\* What the statement the start is at relies on.
AtStatement ==
  /\ pc \in {"insert", "bind"} => todo # <<>> /\ Head(todo).serial # None
  /\ pc = "insert" => devices[Head(todo).serial] = None
  /\ pc = "bind" => devices[Head(todo).serial] # None

\* The inductive invariant.
MInv ==
  /\ Tables
  /\ Read
  /\ Migrating => Covered
  /\ AtStatement

\* Nothing is taken away.
Grows ==
  /\ \A s \in Shelves : bindings[s] \subseteq bindings'[s]
  /\ \A x \in Serials : devices[x] # None => devices'[x] = devices[x]

-----------------------------------------------------------------------------
(* The strings that are still to be migrated. *)

\* The next string names a shelf, a kind and, unless it is none, a serial number.
LEMMA HeadFits ==
  ASSUME Tables, Read, todo # <<>>
  PROVE  /\ Head(todo).shelf \in Shelves /\ Head(todo).kind \in Kinds
         /\ Head(todo).serial \in Serials \cup {None}
         /\ Head(todo).serial = legacy[Head(todo).shelf][Head(todo).kind]
<1>1. Head(todo) = todo[1] /\ 1 \in DOMAIN todo /\ todo[1] \in Strings
  BY DEF Read
<1>2. QED
  BY <1>1 DEF Read, Strings

\* A string that is done with leaves the others to be done.
LEMMA TailFits ==
  ASSUME Tables, Read, todo # <<>>, todo' = Tail(todo), UNCHANGED legacy
  PROVE  /\ Read'
         /\ \A s \in Shelves, k \in Kinds :
              Waiting(s, k) /\ ~(Head(todo).shelf = s /\ Head(todo).kind = k) => Waiting(s, k)'
<1>1. /\ todo' \in Seq(Strings)
      /\ DOMAIN todo = 1..Len(todo) /\ DOMAIN todo' = 1..(Len(todo) - 1)
      /\ \A i \in DOMAIN todo' : i + 1 \in DOMAIN todo /\ todo'[i] = todo[i + 1]
      /\ Head(todo) = todo[1] /\ Len(todo) \in Nat
  BY DEF Read
<1>2. Read'
  BY <1>1 DEF Read
<1>3. ASSUME NEW s \in Shelves, NEW k \in Kinds, Waiting(s, k),
             ~(Head(todo).shelf = s /\ Head(todo).kind = k)
      PROVE  Waiting(s, k)'
  <2>1. PICK i \in DOMAIN todo : todo[i].shelf = s /\ todo[i].kind = k
    BY <1>3 DEF Waiting
  <2>2. i # 1 /\ i - 1 \in DOMAIN todo'
    BY <1>1, <1>3, <2>1
  <2>3. todo'[i - 1] = todo[i]
    BY <1>1, <2>2, <2>1
  <2>4. QED
    BY <2>1, <2>2, <2>3 DEF Waiting
<1>4. QED
  BY <1>2, <1>3

\* What was migrated stays so while nothing is taken away.
LEMMA MigratedStays ==
  ASSUME Tables, Grows, UNCHANGED legacy, NEW s \in Shelves, NEW k \in Kinds,
         legacy[s][k] # None, Migrated(s, k)
  PROVE  Migrated(s, k)'
<1>1. legacy[s][k] \in Serials
  BY DEF Tables
<1>2. QED
  BY <1>1 DEF Migrated, Bound, Grows

\* The SELECT misses no string: every order of the rows has all of them.
LEMMA SelectCovers ==
  ASSUME Tables, ReadLegacy
  PROVE  Read' /\ Covered'
<1> DEFINE old == {s \in Shelves : \E k \in Kinds : legacy[s][k] # None}
           n == Cardinality(old)
           string(s, k) == [shelf |-> s, kind |-> k, serial |-> legacy[s][k]]
           kindOf(i) == IF i % 2 = 1 THEN "Controller" ELSE "Camera"
<1>1. n \in Nat
  BY MigrationAssumption, FS_Subset, FS_CardinalityType
<1>2. PICK rows \in Bijection(1..n, old) :
        todo' = [i \in 1..(2 * n) |-> string(rows[(i + 1) \div 2], kindOf(i))]
  BY DEF ReadLegacy
<1>3. /\ rows \in [1..n -> old]
      /\ \A s \in old : \E j \in 1..n : rows[j] = s
  BY <1>2 DEF Bijection, Surjection
<1>4. \A s \in Shelves, k \in Kinds : string(s, k) \in Strings
  BY DEF Tables, Strings
<1>5. legacy' = legacy
  BY DEF ReadLegacy, fileVars
<1>6. old \subseteq Shelves
  OBVIOUS
<1> HIDE DEF old, n
<1>7. \A i \in 1..(2 * n) : (i + 1) \div 2 \in 1..n /\ kindOf(i) \in Kinds
  BY <1>1 DEF Kinds
<1>8. \A i \in 1..(2 * n) :
        todo'[i] = string(rows[(i + 1) \div 2], kindOf(i)) /\ rows[(i + 1) \div 2] \in Shelves
  BY <1>2, <1>3, <1>6, <1>7
<1>9. DOMAIN todo' = 1..(2 * n)
  BY <1>2
<1>10. todo' \in [1..(2 * n) -> Strings]
  <2>1. \A i \in 1..(2 * n) : string(rows[(i + 1) \div 2], kindOf(i)) \in Strings
    BY <1>4, <1>7, <1>8
  <2> HIDE DEF string, kindOf
  <2>2. QED
    BY <1>2, <2>1
<1>11. todo' \in Seq(Strings)
  BY <1>1, <1>10
<1>12. Read'
  BY <1>5, <1>8, <1>9, <1>11 DEF Read
<1>13. ASSUME NEW s \in Shelves, NEW k \in Kinds, legacy[s][k] # None
       PROVE  Waiting(s, k)'
  <2>1. s \in old
    BY <1>13 DEF old
  <2>2. PICK j \in 1..n : rows[j] = s
    BY <1>3, <2>1
  <2>3. CASE k = "Controller"
    <3>1. PICK i \in 1..(2 * n) : (i + 1) \div 2 = j /\ i % 2 = 1
      <4>1. 2 * j - 1 \in 1..(2 * n) /\ ((2 * j - 1) + 1) \div 2 = j /\ (2 * j - 1) % 2 = 1
        BY <1>1
      <4>2. QED
        BY <4>1
    <3>2. todo'[i] = string(s, k)
      BY <1>8, <2>2, <2>3, <3>1
    <3>3. QED
      BY <1>9, <3>2 DEF Waiting
  <2>4. CASE k = "Camera"
    <3>1. PICK i \in 1..(2 * n) : (i + 1) \div 2 = j /\ i % 2 # 1
      <4>1. 2 * j \in 1..(2 * n) /\ ((2 * j) + 1) \div 2 = j /\ (2 * j) % 2 # 1
        BY <1>1
      <4>2. QED
        BY <4>1
    <3>2. todo'[i] = string(s, k)
      BY <1>8, <2>2, <2>4, <3>1
    <3>3. QED
      BY <1>9, <3>2 DEF Waiting
  <2>5. QED
    BY <2>3, <2>4 DEF Kinds
<1>14. QED
  BY <1>5, <1>12, <1>13 DEF Covered

-----------------------------------------------------------------------------
(* The statements of a start *)

\* Those that come before the SELECT.
LEMMA BeforeSelect ==
  ASSUME MInv, Open \/ ReadColumns \/ AddColumn \/ ColumnsAdded \/ RunScript \/ Stop
  PROVE  MInv' /\ pc' # "ready" /\ Grows /\ UNCHANGED version
<1>1. /\ UNCHANGED <<legacy, devices, bindings, version>>
      /\ pc' \in {"columns", "script", "alter", "legacy", "closed"} \/ (AddColumn /\ pc' = pc /\ pc = "alter")
      /\ todo' = todo \/ todo' = <<>>
  BY DEF Open, ReadColumns, AddColumn, ColumnsAdded, RunScript, Stop, fileVars
<1>2. ~Migrating' /\ pc' # "ready" /\ AtStatement'
  BY <1>1 DEF Migrating, AtStatement
<1>3. Read'
  <2>1. CASE todo' = <<>>
    <3>1. <<>> \in Seq(Strings) /\ DOMAIN <<>> = {}
      OBVIOUS
    <3>2. QED
      BY <2>1, <3>1 DEF Read
  <2>2. CASE todo' = todo
    BY <1>1, <2>2 DEF MInv, Read
  <2>3. QED
    BY <1>1, <2>1, <2>2
<1>4. QED
  BY <1>1, <1>2, <1>3 DEF MInv, Tables, Grows

\* After the SELECT all strings are still to be migrated.
LEMMA SelectPreserves ==
  ASSUME MInv, ReadLegacy
  PROVE  MInv' /\ pc' # "ready" /\ Grows /\ UNCHANGED version
<1>1. UNCHANGED <<legacy, devices, bindings, version>> /\ pc' = "find"
  BY DEF ReadLegacy, fileVars
<1>2. Read' /\ Covered'
  BY SelectCovers DEF MInv
<1>3. QED
  BY <1>1, <1>2 DEF MInv, Tables, Grows, AtStatement

\* A string without a device gets one, and is bound next; an empty one is skipped.
LEMMA FindPreserves ==
  ASSUME MInv, FindDevice
  PROVE  MInv' /\ pc' # "ready" /\ Grows /\ UNCHANGED version
<1>1. /\ UNCHANGED <<legacy, devices, bindings, version>>
      /\ todo # <<>> /\ Covered
      /\ Head(todo).serial = legacy[Head(todo).shelf][Head(todo).kind]
  BY HeadFits DEF FindDevice, fileVars, MInv, Migrating
<1>2. \A s \in Shelves, k \in Kinds : Migrated(s, k)' <=> Migrated(s, k)
  BY <1>1 DEF Migrated, Bound
<1>3. Tables' /\ Grows
  BY <1>1 DEF MInv, Tables, Grows
<1>4. CASE Head(todo).serial = None
  <2>1. todo' = Tail(todo) /\ pc' = "find"
    BY <1>4 DEF FindDevice
  <2>2. /\ Read'
        /\ \A s \in Shelves, k \in Kinds :
             Waiting(s, k) /\ ~(Head(todo).shelf = s /\ Head(todo).kind = k) => Waiting(s, k)'
    BY <1>1, <2>1, TailFits DEF MInv
  <2>3. Covered'
    BY <1>1, <1>2, <1>4, <2>2 DEF Covered
  <2>4. QED
    BY <1>1, <1>3, <2>1, <2>2, <2>3 DEF MInv, AtStatement
<1>5. CASE Head(todo).serial # None
  <2>1. /\ todo' = todo
        /\ pc' = IF devices[Head(todo).serial] = None THEN "insert" ELSE "bind"
    BY <1>5 DEF FindDevice
  <2>2. Read' /\ Covered' /\ AtStatement'
    BY <1>1, <1>2, <1>5, <2>1 DEF MInv, Read, Covered, Waiting, AtStatement
  <2>3. QED
    BY <1>1, <1>3, <2>1, <2>2 DEF MInv
<1>6. QED
  BY <1>4, <1>5

\* INSERT: the string has a device.
LEMMA InsertPreserves ==
  ASSUME MInv, InsertDevice
  PROVE  MInv' /\ pc' # "ready" /\ Grows /\ UNCHANGED version
<1> DEFINE x == Head(todo).serial
<1>1. /\ UNCHANGED <<legacy, bindings, version, todo>> /\ pc' = "bind"
      /\ todo # <<>> /\ x # None /\ devices[x] = None /\ Covered
      /\ devices' = [devices EXCEPT ![x] = Head(todo).kind]
  BY DEF InsertDevice, MInv, Migrating, AtStatement
<1>2. Head(todo).kind \in Kinds /\ x \in Serials
  BY <1>1, HeadFits DEF MInv
<1>3. Tables' /\ Grows /\ devices'[x] # None
  BY <1>1, <1>2, MigrationAssumption DEF MInv, Tables, Grows
<1>4. Covered'
  <2>1. \A s \in Shelves, k \in Kinds : Waiting(s, k)' <=> Waiting(s, k)
    BY <1>1 DEF Waiting
  <2>2. QED
    BY <1>1, <1>3, <2>1, MigratedStays DEF MInv, Covered
<1>5. QED
  BY <1>1, <1>3, <1>4 DEF MInv, Read, AtStatement

\* INSERT OR IGNORE binds the shelf, or finds it bound.
LEMMA BindPreserves ==
  ASSUME MInv, BindDevice
  PROVE  MInv' /\ pc' # "ready" /\ Grows /\ UNCHANGED version
<1>1. /\ UNCHANGED <<legacy, devices, version>> /\ pc' = "find" /\ todo' = Tail(todo)
      /\ todo # <<>> /\ Head(todo).serial # None /\ devices[Head(todo).serial] # None /\ Covered
  BY DEF BindDevice, MInv, Migrating, AtStatement
<1>2. PICK s \in Shelves, k \in Kinds, x \in Serials :
        /\ s = Head(todo).shelf /\ k = Head(todo).kind /\ x = Head(todo).serial
        /\ x = legacy[s][k]
  BY <1>1, HeadFits DEF MInv
<1>3. bindings' = IF Bound(s, k) THEN bindings
                  ELSE [bindings EXCEPT ![s] = bindings[s] \cup {Binding(k, x)}]
  BY <1>2 DEF BindDevice
<1>4. Tables' /\ Grows /\ Bound(s, k)'
  <2>1. CASE Bound(s, k)
    BY <1>1, <1>3, <2>1 DEF MInv, Tables, Grows, Bound
  <2>2. CASE ~Bound(s, k)
    <3>1. Binding(k, x) \in [kind : Kinds, serial : Serials] /\ Binding(k, x).kind = k
      BY DEF Binding
    <3>2. QED
      BY <1>1, <1>3, <2>2, <3>1 DEF MInv, Tables, Grows, Bound
  <2>3. QED
    BY <2>1, <2>2
<1>5. Migrated(s, k)'
  BY <1>1, <1>2, <1>4 DEF Migrated
<1>6. /\ Read'
      /\ \A u \in Shelves, l \in Kinds :
           Waiting(u, l) /\ ~(s = u /\ k = l) => Waiting(u, l)'
  BY <1>1, <1>2, TailFits DEF MInv
<1>7. Covered'
  BY <1>1, <1>4, <1>5, <1>6, MigratedStays DEF MInv, Covered
<1>8. QED
  BY <1>1, <1>4, <1>6, <1>7 DEF MInv, AtStatement

\* The start is over when no string is left.
LEMMA InitializedPreserves ==
  ASSUME MInv, Initialized
  PROVE  /\ MInv' /\ Grows /\ UNCHANGED version
         /\ \A s \in Shelves, k \in Kinds : legacy[s][k] # None => Migrated(s, k)
<1>1. /\ UNCHANGED <<legacy, devices, bindings, version, todo>>
      /\ pc' = "ready" /\ todo = <<>> /\ Covered
  BY DEF Initialized, fileVars, MInv, Migrating
<1>2. \A s \in Shelves, k \in Kinds : ~Waiting(s, k)
  BY <1>1 DEF Waiting
<1>3. QED
  BY <1>1, <1>2 DEF MInv, Tables, Read, Migrating, Covered, AtStatement, Grows

\* Operators act when the database is open, and change no string.
LEMMA OperatePreserves ==
  ASSUME MInv, Operate
  PROVE  MInv' /\ pc = "ready"
<1>1. CASE \E s \in Shelves : Configure(s)
  <2>1. PICK s \in Shelves : Configure(s)
    BY <1>1
  <2>2. PICK wanted \in SUBSET {Binding(devices[x], x) : x \in {y \in Serials : devices[y] # None}} :
          bindings' = [bindings EXCEPT ![s] = wanted]
    BY <2>1 DEF Configure
  <2>3. wanted \subseteq [kind : Kinds, serial : Serials]
    BY DEF MInv, Tables, Binding
  <2>4. Tables'
    BY <2>1, <2>2, <2>3 DEF MInv, Tables, Configure
  <2>5. QED
    BY <2>1, <2>4 DEF MInv, Configure, Read, Migrating, AtStatement
<1>2. CASE \E x \in Serials : DeleteDevice(x) \/ \E k \in Kinds : AddDevice(x, k)
  <2>1. PICK x \in Serials, k \in Kinds \cup {None} :
          /\ pc = "ready" /\ pc' = pc
          /\ devices' = [devices EXCEPT ![x] = k]
          /\ UNCHANGED <<legacy, bindings, todo>>
    BY <1>2 DEF DeleteDevice, AddDevice
  <2>2. Tables'
    BY <2>1 DEF MInv, Tables
  <2>3. QED
    BY <2>1, <2>2 DEF MInv, Read, Migrating, AtStatement
<1>3. QED
  BY <1>1, <1>2 DEF Operate

-----------------------------------------------------------------------------
\* The file the first start finds.
LEMMA MInvInit == Init => MInv
<1> SUFFICES ASSUME Init
             PROVE  MInv
  OBVIOUS
<1>1. Tables /\ todo = <<>> /\ pc = "closed"
  BY DEF Init, Tables
<1>2. <<>> \in Seq(Strings)
  OBVIOUS
<1>3. QED
  BY <1>1, <1>2 DEF MInv, Read, Migrating, AtStatement

\* What a step of any kind does.
LEMMA MInvStep ==
  ASSUME MInv, [Next]_vars
  PROVE  /\ MInv'
         /\ pc # "ready" => Grows /\ UNCHANGED version
         /\ pc # "ready" /\ pc' = "ready" =>
              \A s \in Shelves, k \in Kinds : legacy[s][k] # None => Migrated(s, k)
<1>1. CASE UNCHANGED vars
  BY <1>1 DEF vars, fileVars, MInv, Tables, Read, Migrating, Covered, Migrated, Bound, Waiting,
              AtStatement, Grows
<1>2. CASE Start \/ Stop
  BY <1>2, BeforeSelect, SelectPreserves, FindPreserves, InsertPreserves, BindPreserves,
     InitializedPreserves DEF Start
<1>3. CASE Operate
  BY <1>3, OperatePreserves
<1>4. QED
  BY <1>1, <1>2, <1>3 DEF Next

\* Wherever earlier starts were interrupted, and whatever operators did in between,
\* a start that completes has migrated every string.
THEOREM StartMigratesAllTheorem == Spec => StartMigratesAll
<1>1. MInv /\ [Next]_vars =>
        /\ MInv'
        /\ [pc # "ready" /\ pc' = "ready" =>
              \A s \in Shelves, k \in Kinds : legacy[s][k] # None =>
                devices[legacy[s][k]] # None /\ Bound(s, k)]_vars
  BY MInvStep DEF Migrated
<1>2. QED
  BY <1>1, MInvInit, PTL DEF Spec, StartMigratesAll

\* A start takes nothing away: a statement inserts a device only where it found
\* none, and binds only a shelf that is not bound.
THEOREM StartKeepsWorkTheorem == Spec => StartKeepsWork
<1>1. MInv /\ [Next]_vars =>
        /\ MInv'
        /\ [pc # "ready" =>
              /\ version' = version
              /\ \A s \in Shelves : bindings[s] \subseteq bindings'[s]
              /\ \A x \in Serials : devices[x] # None => devices'[x] = devices[x]]_vars
  BY MInvStep DEF Grows
<1>2. QED
  BY <1>1, MInvInit, PTL DEF Spec, StartKeepsWork
=============================================================================
