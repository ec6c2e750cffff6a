----------------------- MODULE ConfiguratorUi_proofs ------------------------
(***************************************************************************)
(* The configurator never overwrites what its user was not shown, for any  *)
(* number of shelves, resources and handlers, and whatever answers are     *)
(* lost or late.                                                           *)
(*                                                                         *)
(* The invariant says of every pair of version and bindings that the page  *)
(* or a handler holds that it is Current: a shelf that has this version    *)
(* has these bindings, and no shelf that was ever created has an older     *)
(* version.  Versions only grow and identifiers are not used again, so     *)
(* this survives every step of the API; a pair that is read in two halves  *)
(* becomes Current with the second half, because the first did not come    *)
(* from a later version.                                                   *)
(***************************************************************************)
EXTENDS ConfiguratorUi, TLAPS

Registers == [ShelfIds -> Shelves \cup {NoShelf}]

\* A version the shelf has or had, if it is there.
Reached(reg, kn, s, v) ==
  s \in kn /\ (reg[s] # NoShelf => v =< reg[s].version)

Current(reg, kn, s, v, bound) ==
  /\ Reached(reg, kn, s, v)
  /\ reg[s] # NoShelf /\ v = reg[s].version => bound = reg[s].bindings

\* What a handler relies on between two of its steps.
TaskOK(reg, kn, c) ==
  /\ c \in TaskStates
  /\ c.op \in {"load", "save"} => c.shelf \in ShelfIds
  /\ c.op = "create" /\ (c.at = "list" \/ c.status = "ok") => c.shelf \in ShelfIds
  /\ c.op \in {"load", "save"} /\ c.at = "reply" /\ c.status = "ok" => c.got # NoShelf
  /\ c.at = "bindings" => /\ c.got # NoShelf /\ c.got.shelf = c.shelf
                          /\ Reached(reg, kn, c.shelf, c.got.version)
  /\ c.got # NoShelf /\ c.at # "bindings"
       => Current(reg, kn, c.got.shelf, c.got.version, c.got.bindings)
  /\ c.op = "save" /\ c.at = "send" => Current(reg, kn, c.shelf, c.expected, c.base)

ShownOK(reg, kn, shown) ==
  shown # NoShelf => Current(reg, kn, shown.shelf, shown.version, shown.bindings)

IInv ==
  /\ TypeOK
  /\ \A s \in ShelfIds : register[s] # NoShelf => s \in known
  /\ ShownOK(register, known, configuration)
  /\ \A t \in Tasks : TaskOK(register, known, task[t])

\* What a step of the API may do to the shelves.
RegisterStep(reg, kn, reg2, kn2) ==
  /\ reg \in Registers /\ reg2 \in Registers
  /\ kn \in SUBSET kn2 /\ kn2 \in SUBSET ShelfIds
  /\ \A s \in ShelfIds : reg2[s] # NoShelf => s \in kn2
  /\ \A s \in kn :
       \/ reg2[s] = reg[s]
       \/ reg2[s] = NoShelf
       \/ reg[s] # NoShelf /\ reg2[s].version = reg[s].version + 1

-----------------------------------------------------------------------------
(* What is current stays current. *)

LEMMA ShelfFields ==
  ASSUME NEW reg \in Registers, NEW s \in ShelfIds, reg[s] # NoShelf
  PROVE  /\ reg[s] \in Shelves
         /\ reg[s].version \in Nat /\ reg[s].bindings \in SUBSET Bindings
  BY DEF Registers, Shelves

LEMMA ReachedStays ==
  ASSUME NEW reg, NEW kn, NEW reg2, NEW kn2, RegisterStep(reg, kn, reg2, kn2),
         NEW s, NEW v \in Nat, Reached(reg, kn, s, v)
  PROVE  Reached(reg2, kn2, s, v)
<1>1. s \in kn /\ s \in kn2 /\ s \in ShelfIds
  BY DEF Reached, RegisterStep
<1>2. CASE reg2[s] = NoShelf
  BY <1>1, <1>2 DEF Reached
<1>3. CASE reg2[s] # NoShelf /\ reg2[s] = reg[s]
  BY <1>1, <1>3 DEF Reached
<1>4. CASE reg2[s] # NoShelf /\ reg[s] # NoShelf /\ reg2[s].version = reg[s].version + 1
  <2>1. reg[s].version \in Nat
    BY <1>1, <1>4, ShelfFields DEF RegisterStep
  <2> QED
    BY <1>1, <1>4, <2>1 DEF Reached
<1> QED
  BY <1>1, <1>2, <1>3, <1>4 DEF RegisterStep

LEMMA CurrentStays ==
  ASSUME NEW reg, NEW kn, NEW reg2, NEW kn2, RegisterStep(reg, kn, reg2, kn2),
         NEW s, NEW v \in Nat, NEW bound, Current(reg, kn, s, v, bound)
  PROVE  Current(reg2, kn2, s, v, bound)
<1>1. Reached(reg, kn, s, v) /\ Reached(reg2, kn2, s, v)
  BY ReachedStays DEF Current
<1>2. s \in kn /\ s \in ShelfIds
  BY <1>1 DEF Reached, RegisterStep
<1>3. CASE reg2[s] = NoShelf
  BY <1>1, <1>3 DEF Current
<1>4. CASE reg2[s] # NoShelf /\ reg2[s] = reg[s]
  BY <1>1, <1>4 DEF Current
<1>5. CASE reg[s] # NoShelf /\ reg2[s].version = reg[s].version + 1
  <2>1. reg[s].version \in Nat
    BY <1>2, <1>5, ShelfFields DEF RegisterStep
  <2>2. v # reg2[s].version
    BY <1>1, <1>2, <1>5, <2>1 DEF Reached
  <2> QED
    BY <1>1, <2>2 DEF Current
<1> QED
  BY <1>2, <1>3, <1>4, <1>5 DEF RegisterStep

LEMMA TaskStays ==
  ASSUME NEW reg, NEW kn, NEW reg2, NEW kn2, RegisterStep(reg, kn, reg2, kn2),
         NEW c, TaskOK(reg, kn, c)
  PROVE  TaskOK(reg2, kn2, c)
<1>1. c \in TaskStates /\ c.expected \in Nat
  BY DEF TaskOK, TaskStates
<1>2. c.got # NoShelf => c.got.version \in Nat
  BY <1>1 DEF TaskStates, Configurations
<1>3. c.at = "bindings" => Reached(reg2, kn2, c.shelf, c.got.version)
  BY <1>2, ReachedStays DEF TaskOK
<1>4. c.got # NoShelf /\ c.at # "bindings"
        => Current(reg2, kn2, c.got.shelf, c.got.version, c.got.bindings)
  BY <1>2, CurrentStays DEF TaskOK
<1>5. c.op = "save" /\ c.at = "send" => Current(reg2, kn2, c.shelf, c.expected, c.base)
  BY <1>1, CurrentStays DEF TaskOK
<1> QED
  BY <1>3, <1>4, <1>5 DEF TaskOK

LEMMA ShownStays ==
  ASSUME NEW reg, NEW kn, NEW reg2, NEW kn2, RegisterStep(reg, kn, reg2, kn2),
         NEW shown \in Configurations \cup {NoShelf}, ShownOK(reg, kn, shown)
  PROVE  ShownOK(reg2, kn2, shown)
<1>1. shown # NoShelf => shown.version \in Nat
  BY DEF Configurations
<1> QED
  BY <1>1, CurrentStays DEF ShownOK

-----------------------------------------------------------------------------
(* The values handlers take. *)

LEMMA RestIsTask == Rest \in TaskStates
  BY DEF Rest, TaskStates, Operations, Stages

LEMMA RestOK ==
  ASSUME NEW reg, NEW kn
  PROVE  TaskOK(reg, kn, Rest)
  BY RestIsTask DEF TaskOK, Rest

LEMMA LoadOK ==
  ASSUME NEW reg, NEW kn, NEW s \in ShelfIds, NEW quiet \in BOOLEAN
  PROVE  TaskOK(reg, kn, Load(s, quiet))
<1>1. Load(s, quiet) \in TaskStates
  BY RestIsTask DEF Load, TaskStates, Operations, Stages
<1>2. /\ Load(s, quiet).op = "load" /\ Load(s, quiet).at = "row"
      /\ Load(s, quiet).shelf = s /\ Load(s, quiet).got = NoShelf
  BY DEF Load, Rest
<1> QED
  BY <1>1, <1>2 DEF TaskOK

LEMMA OnwardFields ==
  ASSUME NEW c \in TaskStates, NEW stage \in Stages
  PROVE  /\ Onward(c, stage) \in TaskStates
         /\ Onward(c, stage).op = c.op /\ Onward(c, stage).at = stage
         /\ Onward(c, stage).shelf = c.shelf /\ Onward(c, stage).got = NoShelf
         /\ Onward(c, stage).status = "none"
<1>1. /\ c.op \in Operations /\ c.closure \in ShelfIds \cup {NoShelf}
      /\ c.shelf \in ShelfIds \cup {NoShelf} /\ c.quiet \in BOOLEAN
  BY DEF TaskStates
<1>2. Onward(c, stage) \in TaskStates
  BY <1>1, RestIsTask DEF Onward, TaskStates
<1> QED
  BY <1>2 DEF Onward, Rest

\* A handler that goes on without the answer of a shelf relies on nothing.
LEMMA PlainOK ==
  ASSUME NEW reg, NEW kn, NEW reg2, NEW kn2,
         NEW c, TaskOK(reg, kn, c), NEW d \in TaskStates,
         d.op = c.op, d.shelf = c.shelf, d.got = NoShelf,
         d.at \in {"row", "reply", "list", "listed"},
         d.op \in {"load", "save"} /\ d.at = "reply" => d.status # "ok",
         d.op = "create" /\ (d.at = "list" \/ d.status = "ok") => d.shelf \in ShelfIds
  PROVE  TaskOK(reg2, kn2, d)
  BY DEF TaskOK

\* An error, at whatever stage.
LEMMA FailureOK ==
  ASSUME NEW reg, NEW kn, NEW reg2, NEW kn2, NEW c, TaskOK(reg, kn, c),
         NEW stage \in {"reply", "listed"}, NEW status \in {"conflict", "error"}
  PROVE  TaskOK(reg2, kn2, [Onward(c, stage) EXCEPT !.status = status])
<1> DEFINE d == [Onward(c, stage) EXCEPT !.status = status]
<1>1. c \in TaskStates /\ stage \in Stages
  BY DEF TaskOK, Stages
<1>2. d \in TaskStates
  BY <1>1, OnwardFields DEF TaskStates
<1>3. d.op = c.op /\ d.shelf = c.shelf /\ d.got = NoShelf /\ d.at = stage /\ d.status = status
  BY <1>1, OnwardFields DEF TaskStates
<1> HIDE DEF d
<1>4. TaskOK(reg2, kn2, d)
  BY <1>2, <1>3, PlainOK
<1> QED
  BY <1>4 DEF d

-----------------------------------------------------------------------------
(* From the parts of a step to the invariant. *)

PageTypeOK ==
  /\ catalog \in SUBSET Bindings
  /\ shelves \in SUBSET ShelfIds
  /\ selectedId \in ShelfIds \cup {NoShelf}
  /\ configuration \in Configurations \cup {NoShelf}
  /\ bindings \in SUBSET Bindings
  /\ dirty \in BOOLEAN
  /\ saving \in BOOLEAN
  /\ view \in {"map", "catalog"}
  /\ message \in {"none", "saved", "conflict", "error"}

LEMMA TypeParts ==
  ASSUME IInv
  PROVE  /\ register \in Registers /\ known \in SUBSET ShelfIds
         /\ PageTypeOK
         /\ task \in [Tasks -> TaskStates]
         /\ \A s \in ShelfIds : register[s] # NoShelf => s \in known
         /\ ShownOK(register, known, configuration)
         /\ \A t \in Tasks : TaskOK(register, known, task[t])
  BY DEF IInv, TypeOK, PageTypeOK, Registers

LEMMA QuietApi ==
  ASSUME IInv, UNCHANGED <<register, known>>
  PROVE  RegisterStep(register, known, register', known')
  BY TypeParts DEF RegisterStep

LEMMA AfterStep ==
  ASSUME IInv, RegisterStep(register, known, register', known'),
         PageTypeOK', ShownOK(register', known', configuration'),
         NEW t \in Tasks, NEW v, TaskOK(register', known', v), Become(t, v)
  PROVE  IInv'
<1>1. task' = [task EXCEPT ![t] = v] /\ v \in TaskStates
  BY DEF Become, TaskOK
<1>2. task' \in [Tasks -> TaskStates]
  BY <1>1, TypeParts
<1>3. ASSUME NEW u \in Tasks
      PROVE  TaskOK(register', known', task'[u])
  <2>1. CASE u = t
    BY <1>1, <2>1, TypeParts
  <2>2. CASE u # t
    BY <1>1, <2>2, TypeParts, TaskStays
  <2> QED
    BY <2>1, <2>2
<1> QED
  BY <1>2, <1>3 DEF IInv, TypeOK, PageTypeOK, RegisterStep, Registers

LEMMA AfterStepWithoutTask ==
  ASSUME IInv, RegisterStep(register, known, register', known'),
         PageTypeOK', ShownOK(register', known', configuration'), UNCHANGED task
  PROVE  IInv'
<1>1. ASSUME NEW u \in Tasks
      PROVE  TaskOK(register', known', task'[u])
  BY TypeParts, TaskStays
<1> QED
  BY <1>1, TypeParts DEF IInv, TypeOK, PageTypeOK, RegisterStep, Registers

-----------------------------------------------------------------------------
(* The user. *)

LEMMA ConnectFits ==
  ASSUME NEW current \in SUBSET Bindings, NEW node \in Bindings
  PROVE  ConnectResource(current, node) \in SUBSET Bindings
  BY DEF ConnectResource

LEMMA InitOK == Init => IInv
<1> SUFFICES ASSUME Init PROVE IInv
  OBVIOUS
<1>1. Rest \in TaskStates /\ Rest.got = NoShelf
  BY RestIsTask DEF Rest
<1> DEFINE mounting == [Rest EXCEPT !.op = "mount", !.at = "list"]
<1>2. mounting \in TaskStates
  BY <1>1 DEF TaskStates, Operations, Stages
<1>3. mounting.op = "mount" /\ mounting.at = "list" /\ mounting.got = NoShelf
  BY DEF Rest
<1> HIDE DEF mounting
<1>4. TaskOK(register, known, mounting) /\ TaskOK(register, known, Rest)
  BY <1>2, <1>3, RestOK DEF TaskOK
<1>5. \A t \in Tasks : task[t] \in {mounting, Rest}
  BY DEF Init, mounting
<1>6. task \in [Tasks -> TaskStates]
  BY <1>1, <1>2, <1>5 DEF Init
<1>7. TypeOK
  BY <1>6, UiAssumption DEF Init, TypeOK
<1> QED
  BY <1>4, <1>5, <1>7 DEF Init, IInv, ShownOK

LEMMA SelectOK ==
  ASSUME NEW reg, NEW kn, NEW t \in Tasks, NEW s \in ShelfIds, Select(t, s)
  PROVE  /\ selectedId' = s
         /\ \E v : Become(t, v) /\ TaskOK(reg, kn, v)
<1>1. CASE s = selectedId
  BY <1>1, RestOK DEF Select, End
<1>2. CASE s # selectedId
  BY <1>2, LoadOK DEF Select
<1> QED
  BY <1>1, <1>2 DEF Select

LEMMA ClickStep ==
  ASSUME IInv, NEW t \in Tasks, Click(t)
  PROVE  IInv'
<1> USE TypeParts
<1>1. UNCHANGED <<register, known, catalog, storeVars>>
  BY DEF Click, ClickShelf, ClickSave, ClickReload, ClickNew, ClickAdd, serverVars
<1>2. RegisterStep(register, known, register', known')
  BY <1>1, QuietApi
<1>3. ShownOK(register', known', configuration')
  BY <1>1 DEF storeVars
<1>4. ASSUME NEW s \in ShelfIds, ClickShelf(t, s)
      PROVE  IInv'
  <2>1. PageTypeOK'
    BY <1>1, <1>4 DEF ClickShelf, PageTypeOK, Select, storeVars
  <2>2. \E v : Become(t, v) /\ TaskOK(register', known', v)
    BY <1>4, SelectOK DEF ClickShelf
  <2> QED
    BY <1>2, <1>3, <2>1, <2>2, AfterStep
<1>5. CASE ClickSave(t)
  <2> DEFINE v == [Rest EXCEPT !.op = "save", !.at = "send", !.closure = selectedId,
                               !.shelf = configuration.shelf,
                               !.expected = configuration.version,
                               !.wanted = bindings, !.base = configuration.bindings]
  <2>1. PageTypeOK'
    BY <1>1, <1>5 DEF ClickSave, PageTypeOK, storeVars, pageVars
  <2>2. configuration \in Configurations /\ configuration # NoShelf
    BY <1>5 DEF ClickSave, PageTypeOK
  <2>3. v \in TaskStates
    BY <2>2, RestIsTask DEF PageTypeOK, TaskStates, Configurations, Operations, Stages
  <2>4. /\ v.op = "save" /\ v.at = "send" /\ v.shelf = configuration.shelf
        /\ v.expected = configuration.version /\ v.base = configuration.bindings
        /\ v.got = NoShelf
    BY DEF Rest
  <2>5. Become(t, v)
    BY <1>5 DEF ClickSave
  <2> HIDE DEF v
  <2>6. TaskOK(register', known', v)
    BY <1>1, <1>3, <2>2, <2>3, <2>4 DEF TaskOK, ShownOK, Configurations, storeVars
  <2> QED
    BY <1>2, <1>3, <2>1, <2>5, <2>6, AfterStep
<1>6. CASE ClickReload(t)
  <2>1. PageTypeOK'
    BY <1>1, <1>6 DEF ClickReload, PageTypeOK, storeVars, pageVars
  <2>2. selectedId \in ShelfIds /\ Become(t, Load(selectedId, TRUE))
    BY <1>6 DEF ClickReload, PageTypeOK
  <2> QED
    BY <1>2, <1>3, <2>1, <2>2, LoadOK, AfterStep
<1>7. CASE ClickNew(t) \/ ClickAdd(t)
  <2>1. PageTypeOK'
    BY <1>1, <1>7 DEF ClickNew, ClickAdd, PageTypeOK, storeVars, pageVars
  <2>2. PICK op \in {"create", "add"} :
          Become(t, [Rest EXCEPT !.op = op, !.at = "send", !.closure = selectedId])
    BY <1>7 DEF ClickNew, ClickAdd
  <2> DEFINE v == [Rest EXCEPT !.op = op, !.at = "send", !.closure = selectedId]
  <2>3. v \in TaskStates
    BY RestIsTask DEF PageTypeOK, TaskStates, Operations, Stages
  <2>4. v.op \in {"create", "add"} /\ v.at = "send" /\ v.got = NoShelf /\ v.status = "none"
    BY DEF Rest
  <2> HIDE DEF v
  <2>5. TaskOK(register', known', v)
    BY <2>3, <2>4 DEF TaskOK
  <2>6. Become(t, v)
    BY <2>2 DEF v
  <2> QED
    BY <1>2, <1>3, <2>1, <2>5, <2>6, AfterStep
<1> QED
  BY <1>4, <1>5, <1>6, <1>7 DEF Click

LEMMA EditStep ==
  ASSUME IInv,
         \/ \E v \in {"map", "catalog"} : ShowView(v)
         \/ \E b \in Bindings : Connect(b) \/ Disconnect(b)
  PROVE  IInv'
<1> USE TypeParts
<1>1. UNCHANGED <<register, known, catalog, configuration, task>>
  BY DEF ShowView, Connect, Disconnect, serverVars, storeVars, SetBindings
<1>2. RegisterStep(register, known, register', known')
  BY <1>1, QuietApi
<1>3. bindings' \in SUBSET Bindings /\ dirty' \in BOOLEAN
  BY ConnectFits DEF ShowView, Connect, Disconnect, SetBindings, RemoveBinding,
     storeVars, PageTypeOK
<1>4. view' \in {"map", "catalog"} /\ UNCHANGED <<shelves, selectedId, saving, message>>
  BY DEF ShowView, Connect, Disconnect, pageVars, PageTypeOK
<1>5. PageTypeOK' /\ ShownOK(register', known', configuration')
  BY <1>1, <1>3, <1>4 DEF PageTypeOK
<1> QED
  BY <1>1, <1>2, <1>5, AfterStepWithoutTask

-----------------------------------------------------------------------------
(* The API. *)

LEMMA ChangedShelf ==
  ASSUME NEW shelf \in Shelves
  PROVE  /\ \A x \in SUBSET Bindings :
              LET changed == [shelf EXCEPT !.bindings = x, !.version = @ + 1]
              IN  changed \in Shelves /\ changed.version = shelf.version + 1
         /\ \A x \in Configs :
              LET changed == [shelf EXCEPT !.config = x, !.version = @ + 1]
              IN  changed \in Shelves /\ changed.version = shelf.version + 1
<1>1. shelf.version + 1 \in Nat
  BY DEF Shelves
<1>2. ASSUME NEW x \in SUBSET Bindings
      PROVE  LET changed == [shelf EXCEPT !.bindings = x, !.version = @ + 1]
             IN  changed \in Shelves /\ changed.version = shelf.version + 1
  BY <1>1 DEF Shelves
<1>3. ASSUME NEW x \in Configs
      PROVE  LET changed == [shelf EXCEPT !.config = x, !.version = @ + 1]
             IN  changed \in Shelves /\ changed.version = shelf.version + 1
  BY <1>1 DEF Shelves
<1> QED
  BY <1>2, <1>3

LEMMA RebindStep ==
  ASSUME IInv, NEW s \in ShelfIds, NEW bound \in SUBSET Bindings,
         Server!Rebind(s, bound), UNCHANGED known
  PROVE  RegisterStep(register, known, register', known')
<1> USE TypeParts
<1> DEFINE changed == [register[s] EXCEPT !.bindings = bound, !.version = @ + 1]
<1>1. register[s] # NoShelf /\ register' = [register EXCEPT ![s] = changed]
  BY DEF Server!Rebind, Server!Exists
<1>2. changed \in Shelves /\ changed.version = register[s].version + 1
  BY <1>1, ShelfFields, ChangedShelf
<1>3. s \in known
  BY <1>1
<1> QED
  BY <1>1, <1>2, <1>3 DEF RegisterStep, Registers

LEMMA RenameStep ==
  ASSUME IInv, NEW s \in ShelfIds, NEW c \in Configs, Server!Rename(s, c), UNCHANGED known
  PROVE  RegisterStep(register, known, register', known')
<1> USE TypeParts
<1> DEFINE changed == [register[s] EXCEPT !.config = c, !.version = @ + 1]
<1>1. register[s] # NoShelf /\ register' = [register EXCEPT ![s] = changed]
  BY DEF Server!Rename, Server!Exists, Server!UpdateConfiguration
<1>2. changed \in Shelves /\ changed.version = register[s].version + 1
  BY <1>1, ShelfFields, ChangedShelf
<1>3. s \in known
  BY <1>1
<1> QED
  BY <1>1, <1>2, <1>3 DEF RegisterStep, Registers

LEMMA RemoveStep ==
  ASSUME IInv, NEW s \in ShelfIds, Server!Remove(s), UNCHANGED known
  PROVE  RegisterStep(register, known, register', known')
  BY TypeParts DEF Server!Remove, Server!Exists, RegisterStep, Registers

LEMMA CreateStep ==
  ASSUME IInv, NEW s \in ShelfIds \ known, NEW c \in Configs,
         Server!Create(s, c), known' = known \cup {s}
  PROVE  RegisterStep(register, known, register', known')
<1>1. NewShelf(c) \in Shelves
  BY DEF NewShelf, Shelves
<1>2. register' = [register EXCEPT ![s] = NewShelf(c)]
  BY DEF Server!Create, Server!NewShelf, NewShelf
<1> QED
  BY <1>1, <1>2, TypeParts DEF RegisterStep, Registers

\* What the page holds is not touched by the API.
LEMMA PageStays ==
  ASSUME IInv, UNCHANGED <<storeVars, pageVars, saving, message>>,
         catalog' \in SUBSET Bindings,
         RegisterStep(register, known, register', known')
  PROVE  PageTypeOK' /\ ShownOK(register', known', configuration')
<1>1. UNCHANGED <<configuration, bindings, dirty, shelves, selectedId, view, saving, message>>
  BY DEF storeVars, pageVars
<1>2. ShownOK(register', known', configuration)
  BY TypeParts, ShownStays DEF PageTypeOK
<1> QED
  BY <1>1, <1>2, TypeParts DEF PageTypeOK

LEMMA ServeSaveStep ==
  ASSUME IInv, NEW t \in Tasks, ServeSave(t)
  PROVE  IInv'
<1> DEFINE c == task[t]
           s == c.shelf
<1> USE TypeParts
<1>1. TaskOK(register, known, c) /\ c \in TaskStates /\ c.op = "save"
  BY DEF ServeSave, At, TaskOK
<1>2. s \in ShelfIds /\ c.expected \in Nat /\ c.wanted \in SUBSET Bindings
  BY <1>1 DEF TaskOK, TaskStates
<1>3. UNCHANGED <<catalog, known, storeVars, pageVars, saving, message>>
  BY DEF ServeSave
<1>4. \/ UNCHANGED register
      \/ Server!Rebind(s, c.wanted)
  BY DEF ServeSave
<1>5. RegisterStep(register, known, register', known')
  BY <1>2, <1>3, <1>4, QuietApi, RebindStep
<1>6. PageTypeOK' /\ ShownOK(register', known', configuration')
  BY <1>3, <1>5, PageStays DEF PageTypeOK
<1>7. \/ \E status \in {"conflict", "error"} : Reply(t, status)
      \/ \E w \in Nat : Become(t, [Onward(c, "row") EXCEPT !.wrote = w])
  BY <1>2 DEF ServeSave
<1>8. ASSUME NEW status \in {"conflict", "error"}, Reply(t, status)
      PROVE  IInv'
  BY <1>1, <1>5, <1>6, <1>8, FailureOK, AfterStep DEF Reply
<1>9. ASSUME NEW w \in Nat, Become(t, [Onward(c, "row") EXCEPT !.wrote = w])
      PROVE  IInv'
  <2> DEFINE d == [Onward(c, "row") EXCEPT !.wrote = w]
  <2>1. d \in TaskStates
    BY <1>1, OnwardFields DEF TaskStates, Stages
  <2>2. d.op = c.op /\ d.shelf = c.shelf /\ d.got = NoShelf /\ d.at = "row"
    BY <1>1, OnwardFields DEF TaskStates, Stages
  <2> HIDE DEF d
  <2>3. TaskOK(register', known', d)
    BY <1>1, <2>1, <2>2, PlainOK
  <2>4. Become(t, d)
    BY <1>9 DEF d
  <2> QED
    BY <1>5, <1>6, <2>3, <2>4, AfterStep
<1> QED
  BY <1>7, <1>8, <1>9

LEMMA ServeRowStep ==
  ASSUME IInv, NEW t \in Tasks, ServeRow(t)
  PROVE  IInv'
<1> DEFINE c == task[t]
           s == c.shelf
           read == [shelf |-> s, version |-> register[s].version,
                    bindings |-> {}, resources |-> {}]
           d == [c EXCEPT !.at = "bindings", !.got = read]
<1> USE TypeParts
<1>1. /\ TaskOK(register, known, c) /\ c \in TaskStates /\ s \in ShelfIds
      /\ c.op \in {"load", "save"}
  BY DEF ServeRow, TaskOK
<1>2. UNCHANGED <<register, known, catalog, storeVars, pageVars, saving, message>>
  BY DEF ServeRow, serverVars
<1>3. RegisterStep(register, known, register', known')
  BY <1>2, QuietApi
<1>4. PageTypeOK' /\ ShownOK(register', known', configuration')
  BY <1>2, <1>3, PageStays DEF PageTypeOK
<1>5. CASE register[s] = NoShelf
  <2>1. Reply(t, "error")
    BY <1>5 DEF ServeRow, Server!Exists
  <2> QED
    BY <1>1, <1>3, <1>4, <2>1, FailureOK, AfterStep DEF Reply
<1>6. CASE register[s] # NoShelf
  <2>1. Become(t, d)
    BY <1>6 DEF ServeRow, Server!Exists
  <2>2. /\ read \in Configurations /\ read # NoShelf
        /\ read.shelf = s /\ read.version = register[s].version
    BY <1>1, <1>6, ShelfFields, UiAssumption DEF Configurations
  <2> HIDE DEF read
  <2>3. d \in TaskStates
    BY <1>1, <2>2 DEF TaskStates, Stages
  <2>4. d.op = c.op /\ d.at = "bindings" /\ d.shelf = s /\ d.got = read
    BY <1>1 DEF TaskStates
  <2>5. Reached(register', known', s, read.version)
    BY <1>1, <1>2, <1>6, <2>2, ShelfFields DEF Reached
  <2> HIDE DEF d
  <2>6. TaskOK(register', known', d)
    BY <1>1, <2>2, <2>3, <2>4, <2>5 DEF TaskOK
  <2> QED
    BY <1>3, <1>4, <2>1, <2>6, AfterStep
<1> QED
  BY <1>5, <1>6

\* The second half of a read: the pair is current because the first half was
\* not of a later version.
LEMMA ServeBindingsStep ==
  ASSUME IInv, NEW t \in Tasks, ServeBindings(t)
  PROVE  IInv'
<1> DEFINE c == task[t]
           s == c.shelf
           bound == IF Server!Exists(s) THEN register[s].bindings ELSE {}
           read == [c.got EXCEPT !.bindings = bound, !.resources = catalog]
           d == [c EXCEPT !.at = "reply", !.status = "ok",
                          !.got.bindings = bound, !.got.resources = catalog]
<1> USE TypeParts
<1>1. /\ TaskOK(register, known, c) /\ c \in TaskStates /\ s \in ShelfIds
      /\ c.op \in {"load", "save"} /\ c.at = "bindings"
  BY DEF ServeBindings, TaskOK
<1>2. UNCHANGED <<register, known, catalog, storeVars, pageVars, saving, message>>
  BY DEF ServeBindings, serverVars
<1>3. RegisterStep(register, known, register', known')
  BY <1>2, QuietApi
<1>4. PageTypeOK' /\ ShownOK(register', known', configuration')
  BY <1>2, <1>3, PageStays DEF PageTypeOK
<1>5. Become(t, d)
  BY DEF ServeBindings
<1>6. /\ c.got \in Configurations /\ c.got.shelf = s
      /\ Reached(register, known, s, c.got.version)
  BY <1>1 DEF TaskOK, TaskStates
<1>7. bound \in SUBSET Bindings
  BY <1>1, ShelfFields DEF Server!Exists
<1>8. register[s] # NoShelf => bound = register[s].bindings
  BY DEF Server!Exists
<1> HIDE DEF bound
<1>9. /\ read \in Configurations /\ read # NoShelf /\ read.shelf = s
      /\ read.version = c.got.version /\ read.bindings = bound
  BY <1>6, <1>7, UiAssumption DEF Configurations, PageTypeOK
<1>10. Current(register', known', read.shelf, read.version, read.bindings)
  BY <1>2, <1>6, <1>8, <1>9 DEF Current
<1>11. d = [c EXCEPT !.at = "reply", !.status = "ok", !.got = read]
  BY <1>1 DEF TaskStates
<1> HIDE DEF read
<1>12. d \in TaskStates
  BY <1>1, <1>9, <1>11 DEF TaskStates, Stages
<1>13. d.op = c.op /\ d.at = "reply" /\ d.shelf = s /\ d.got = read
  BY <1>1, <1>11 DEF TaskStates
<1> HIDE DEF d
<1>14. TaskOK(register', known', d)
  BY <1>1, <1>9, <1>10, <1>12, <1>13 DEF TaskOK
<1> QED
  BY <1>3, <1>4, <1>5, <1>14, AfterStep

LEMMA ServeOtherStep ==
  ASSUME IInv, NEW t \in Tasks, ServeCreate(t) \/ ServeAdd(t) \/ ServeList(t)
  PROVE  IInv'
<1> DEFINE c == task[t]
<1> USE TypeParts
<1>1. TaskOK(register, known, c) /\ c \in TaskStates
  BY DEF TaskOK
<1>2. CASE ServeCreate(t)
  <2>1. PICK s \in ShelfIds \ known, config \in Configs :
          /\ Server!Create(s, config) /\ known' = known \cup {s}
          /\ Become(t, [c EXCEPT !.at = "reply", !.status = "ok", !.shelf = s])
    BY <1>2 DEF ServeCreate
  <2> DEFINE d == [c EXCEPT !.at = "reply", !.status = "ok", !.shelf = s]
  <2>2. UNCHANGED <<catalog, storeVars, pageVars, saving, message>>
        /\ c.op = "create" /\ c.at = "send"
    BY <1>2 DEF ServeCreate, At
  <2>3. RegisterStep(register, known, register', known')
    BY <2>1, CreateStep
  <2>4. PageTypeOK' /\ ShownOK(register', known', configuration')
    BY <2>2, <2>3, PageStays DEF PageTypeOK
  <2>5. d \in TaskStates
    BY <1>1 DEF TaskStates, Stages
  <2>6. d.op = "create" /\ d.at = "reply" /\ d.shelf = s /\ d.got = c.got
    BY <1>1, <2>2 DEF TaskStates
  <2>7. TaskOK(register', known', c)
    BY <1>1, <2>3, TaskStays
  <2> HIDE DEF d
  <2>8. TaskOK(register', known', d)
    BY <2>2, <2>5, <2>6, <2>7 DEF TaskOK
  <2>9. Become(t, d)
    BY <2>1 DEF d
  <2> QED
    BY <2>3, <2>4, <2>8, <2>9, AfterStep
<1>3. CASE ServeAdd(t)
  <2>1. /\ UNCHANGED <<register, known, storeVars, pageVars, saving, message>>
        /\ catalog' \in SUBSET Bindings
        /\ c.op = "add" /\ Become(t, Onward(c, "list"))
    BY <1>3 DEF ServeAdd, At, PageTypeOK
  <2>2. RegisterStep(register, known, register', known')
    BY <2>1, QuietApi
  <2>3. PageTypeOK' /\ ShownOK(register', known', configuration')
    BY <2>1, <2>2, PageStays
  <2>4. TaskOK(register', known', Onward(c, "list"))
    BY <1>1, <2>1, OnwardFields, PlainOK DEF Stages
  <2> QED
    BY <2>1, <2>2, <2>3, <2>4, AfterStep
<1>4. CASE ServeList(t)
  <2> DEFINE there == IF c.op = "add" THEN {} ELSE {s \in ShelfIds : Server!Exists(s)}
             d == [Onward(c, "listed") EXCEPT !.status = "ok", !.listed = there]
  <2>1. /\ UNCHANGED <<register, known, catalog, storeVars, pageVars, saving, message>>
        /\ c.at = "list" /\ Become(t, d)
    BY <1>4 DEF ServeList, serverVars
  <2>2. RegisterStep(register, known, register', known')
    BY <2>1, QuietApi
  <2>3. PageTypeOK' /\ ShownOK(register', known', configuration')
    BY <2>1, <2>2, PageStays DEF PageTypeOK
  <2>4. there \in SUBSET ShelfIds
    OBVIOUS
  <2> HIDE DEF there
  <2>5. d \in TaskStates
    <3>1. Onward(c, "listed") \in TaskStates
      BY <1>1, OnwardFields DEF Stages
    <3> QED
      BY <2>4, <3>1 DEF TaskStates
  <2>6. d.op = c.op /\ d.shelf = c.shelf /\ d.got = NoShelf /\ d.at = "listed"
    BY <1>1, OnwardFields DEF TaskStates, Stages
  <2> HIDE DEF d
  <2>7. TaskOK(register', known', d)
    BY <1>1, <2>1, <2>5, <2>6, PlainOK DEF TaskOK
  <2> QED
    BY <2>1, <2>2, <2>3, <2>7, AfterStep
<1> QED
  BY <1>2, <1>3, <1>4

LEMMA LoseStep ==
  ASSUME IInv, NEW t \in Tasks, Lose(t)
  PROVE  IInv'
<1> USE TypeParts
<1>1. UNCHANGED <<register, known, catalog, storeVars, pageVars, saving, message>>
  BY DEF Lose, serverVars
<1>2. RegisterStep(register, known, register', known')
  BY <1>1, QuietApi
<1>3. PageTypeOK' /\ ShownOK(register', known', configuration')
  BY <1>1, <1>2, PageStays DEF PageTypeOK
<1>4. PICK stage \in {"reply", "listed"} :
        Become(t, [Onward(task[t], stage) EXCEPT !.status = "error"])
  BY DEF Lose
<1> QED
  BY <1>2, <1>3, <1>4, FailureOK, AfterStep

LEMMA OthersStep ==
  ASSUME IInv,
         \/ \E s \in ShelfIds : OtherClient(s)
         \/ \E node \in Bindings : OtherDeletes(node)
  PROVE  IInv'
<1> USE TypeParts
<1>1. UNCHANGED <<known, storeVars, pageVars, saving, message, task>>
      /\ catalog' \in SUBSET Bindings
  BY DEF OtherClient, OtherDeletes, PageTypeOK
<1>2. RegisterStep(register, known, register', known')
  <2>1. ASSUME NEW s \in ShelfIds, OtherClient(s)
        PROVE  RegisterStep(register, known, register', known')
    <3>1. \/ \E bound \in SUBSET Bindings : Server!Rebind(s, bound)
          \/ \E c \in Configs : Server!Rename(s, c)
          \/ Server!Remove(s)
      BY <2>1 DEF OtherClient, PageTypeOK
    <3> QED
      BY <1>1, <3>1, RebindStep, RenameStep, RemoveStep
  <2>2. ASSUME NEW node \in Bindings, OtherDeletes(node)
        PROVE  RegisterStep(register, known, register', known')
    BY <2>2, QuietApi DEF OtherDeletes
  <2> QED
    BY <2>1, <2>2
<1>3. PageTypeOK' /\ ShownOK(register', known', configuration')
  BY <1>1, <1>2, PageStays
<1> QED
  BY <1>1, <1>2, <1>3, AfterStepWithoutTask

-----------------------------------------------------------------------------
(* Answers. *)

\* What an answered load or save puts on the page is current.
LEMMA AnswerShown ==
  ASSUME IInv, NEW t \in Tasks, task[t].op \in {"load", "save"}, task[t].at = "reply",
         \/ task[t].status = "ok" /\ SetConfiguration(task[t].got)
         \/ UNCHANGED storeVars
  PROVE  /\ configuration' \in Configurations \cup {NoShelf}
         /\ bindings' \in SUBSET Bindings /\ dirty' \in BOOLEAN
         /\ ShownOK(register, known, configuration')
<1> USE TypeParts
<1>1. CASE task[t].status = "ok" /\ SetConfiguration(task[t].got)
  <2>1. TaskOK(register, known, task[t]) /\ task[t].got # NoShelf
    BY <1>1 DEF TaskOK
  <2>2. task[t].got \in Configurations
    BY <2>1 DEF TaskOK, TaskStates
  <2>3. task[t].got.bindings \in SUBSET Bindings
    BY <2>2 DEF Configurations
  <2> QED
    BY <1>1, <2>1, <2>2, <2>3 DEF SetConfiguration, TaskOK, ShownOK
<1>2. CASE UNCHANGED storeVars
  BY <1>2 DEF storeVars, PageTypeOK
<1> QED
  BY <1>1, <1>2

\* A handler that goes on, or ends, without an answer about a shelf.
LEMMA ListNextOK ==
  ASSUME NEW reg, NEW kn, NEW reg2, NEW kn2, NEW c, TaskOK(reg, kn, c),
         c.op = "create" => c.shelf \in ShelfIds
  PROVE  TaskOK(reg2, kn2, Onward(c, "list"))
<1>1. c \in TaskStates /\ "list" \in Stages
  BY DEF TaskOK, Stages
<1> DEFINE d == Onward(c, "list")
<1>2. d \in TaskStates /\ d.op = c.op /\ d.shelf = c.shelf /\ d.got = NoShelf /\ d.at = "list"
  BY <1>1, OnwardFields
<1> HIDE DEF d
<1>3. TaskOK(reg2, kn2, d)
  BY <1>2, PlainOK
<1> QED
  BY <1>3 DEF d

LEMMA ReplyStep ==
  ASSUME IInv, NEW t \in Tasks,
         LoadAnswered(t) \/ SaveAnswered(t) \/ CreateAnswered(t) \/ AddFailed(t)
  PROVE  IInv'
<1> USE TypeParts
<1>1. UNCHANGED <<register, known, catalog, shelves, selectedId, view>>
  BY DEF LoadAnswered, SaveAnswered, CreateAnswered, AddFailed, serverVars, pageVars
<1>2. RegisterStep(register, known, register', known')
  BY <1>1, QuietApi
<1>3. TaskOK(register, known, task[t])
  OBVIOUS
<1>4. saving' \in BOOLEAN /\ message' \in {"none", "saved", "conflict", "error"}
  BY DEF LoadAnswered, SaveAnswered, CreateAnswered, AddFailed,
     configurationSaveErrorMessage, PageTypeOK
<1>5. /\ configuration' \in Configurations \cup {NoShelf}
      /\ bindings' \in SUBSET Bindings /\ dirty' \in BOOLEAN
      /\ ShownOK(register', known', configuration')
  <2>1. CASE LoadAnswered(t) \/ SaveAnswered(t)
    <3>1. /\ task[t].op \in {"load", "save"} /\ task[t].at = "reply"
          /\ \/ task[t].status = "ok" /\ SetConfiguration(task[t].got)
             \/ UNCHANGED storeVars
      BY <2>1 DEF LoadAnswered, SaveAnswered, At
    <3> QED
      BY <1>1, <3>1, AnswerShown
  <2>2. CASE CreateAnswered(t) \/ AddFailed(t)
    BY <1>1, <2>2 DEF CreateAnswered, AddFailed, storeVars, PageTypeOK
  <2> QED
    BY <2>1, <2>2
<1>6. PageTypeOK'
  BY <1>1, <1>4, <1>5 DEF PageTypeOK
<1>7. \E v : Become(t, v) /\ TaskOK(register', known', v)
  <2>1. CASE End(t)
    BY <2>1, RestOK DEF End
  <2>2. ASSUME Become(t, Onward(task[t], "list")),
               SaveAnswered(t) \/ (CreateAnswered(t) /\ task[t].status = "ok")
        PROVE  \E v : Become(t, v) /\ TaskOK(register', known', v)
    <3>1. task[t].op = "create" => task[t].shelf \in ShelfIds
      BY <1>3, <2>2 DEF SaveAnswered, CreateAnswered, At, TaskOK
    <3> QED
      BY <1>3, <2>2, <3>1, ListNextOK
  <2> QED
    BY <2>1, <2>2 DEF LoadAnswered, SaveAnswered, CreateAnswered, AddFailed
<1> QED
  BY <1>2, <1>5, <1>6, <1>7, AfterStep

LEMMA ShelvesLoadedOK ==
  ASSUME IInv, NEW reg, NEW kn, NEW t \in Tasks, ShelvesLoaded(t)
  PROVE  /\ shelves' \in SUBSET ShelfIds
         /\ selectedId' \in ShelfIds \cup {NoShelf}
         /\ \E v : Become(t, v) /\ TaskOK(reg, kn, v)
<1> USE TypeParts
<1>1. task[t].listed \in SUBSET ShelfIds
  BY DEF TaskStates
<1>2. CASE task[t].closure = NoShelf /\ task[t].listed # {}
  BY <1>1, <1>2, SelectOK DEF ShelvesLoaded
<1>3. CASE ~(task[t].closure = NoShelf /\ task[t].listed # {})
  BY <1>1, <1>3, RestOK DEF ShelvesLoaded, End, PageTypeOK
<1> QED
  BY <1>2, <1>3

LEMMA ListedStep ==
  ASSUME IInv, NEW t \in Tasks,
         MountListed(t) \/ SaveListed(t) \/ CreateListed(t) \/ AddListed(t)
  PROVE  IInv'
<1> USE TypeParts
<1>1. UNCHANGED <<register, known, catalog, storeVars>>
  BY DEF MountListed, SaveListed, CreateListed, AddListed, serverVars
<1>2. RegisterStep(register, known, register', known')
  BY <1>1, QuietApi
<1>3. ShownOK(register', known', configuration')
  BY <1>1 DEF storeVars
<1>4. TaskOK(register, known, task[t]) /\ task[t] \in TaskStates
  OBVIOUS
<1>5. /\ saving' \in BOOLEAN /\ message' \in {"none", "saved", "conflict", "error"}
      /\ view' \in {"map", "catalog"}
  BY DEF MountListed, SaveListed, CreateListed, AddListed, pageVars, PageTypeOK
<1>6. /\ shelves' \in SUBSET ShelfIds
      /\ selectedId' \in ShelfIds \cup {NoShelf}
      /\ \E v : Become(t, v) /\ TaskOK(register', known', v)
  <2>1. CASE ShelvesLoaded(t)
    BY <2>1, ShelvesLoadedOK
  <2>2. CASE End(t) /\ UNCHANGED <<shelves, selectedId>>
    BY <2>2, RestOK DEF End, PageTypeOK
  <2>3. CASE CreateListed(t) /\ task[t].status = "ok"
    <3>1. task[t].shelf \in ShelfIds
      BY <1>4, <2>3 DEF CreateListed, At, TaskOK
    <3>2. shelves' = task[t].listed /\ Select(t, task[t].shelf)
      BY <2>3 DEF CreateListed
    <3> QED
      BY <1>4, <3>1, <3>2, SelectOK DEF TaskStates
  <2>4. CASE AddListed(t) /\ ~End(t)
    <3>1. /\ task[t].closure \in ShelfIds /\ Become(t, Load(task[t].closure, TRUE))
          /\ UNCHANGED <<shelves, selectedId>>
      BY <1>4, <2>4 DEF AddListed, TaskStates, pageVars
    <3> QED
      BY <3>1, LoadOK DEF PageTypeOK
  <2> QED
    BY <2>1, <2>2, <2>3, <2>4 DEF MountListed, SaveListed, CreateListed, AddListed, pageVars
<1>7. PageTypeOK'
  BY <1>1, <1>5, <1>6 DEF PageTypeOK, storeVars
<1> QED
  BY <1>2, <1>3, <1>6, <1>7, AfterStep

-----------------------------------------------------------------------------
LEMMA InvariantStep == IInv /\ [Next]_vars => IInv'
<1> SUFFICES ASSUME IInv, [Next]_vars PROVE IInv'
  OBVIOUS
<1>1. CASE UNCHANGED vars
  <2>1. UNCHANGED <<register, known, catalog, storeVars, pageVars, saving, message, task>>
    BY <1>1 DEF vars, serverVars
  <2>2. PageTypeOK' /\ ShownOK(register', known', configuration')
    BY <2>1, TypeParts, QuietApi, PageStays DEF PageTypeOK
  <2> QED
    BY <2>1, <2>2, QuietApi, AfterStepWithoutTask
<1>2. ASSUME NEW t \in Tasks, Click(t)
      PROVE  IInv'
  BY <1>2, ClickStep
<1>3. ASSUME NEW t \in Tasks, Serve(t)
      PROVE  IInv'
  BY <1>3, ServeSaveStep, ServeRowStep, ServeBindingsStep, ServeOtherStep DEF Serve
<1>4. ASSUME NEW t \in Tasks, Answer(t)
      PROVE  IInv'
  BY <1>4, ReplyStep, ListedStep DEF Answer
<1>5. ASSUME NEW t \in Tasks, Lose(t)
      PROVE  IInv'
  BY <1>5, LoseStep
<1>6. ASSUME \/ \E v \in {"map", "catalog"} : ShowView(v)
             \/ \E b \in Bindings : Connect(b) \/ Disconnect(b)
      PROVE  IInv'
  BY <1>6, EditStep
<1>7. ASSUME \/ \E s \in ShelfIds : OtherClient(s)
             \/ \E b \in Bindings : OtherDeletes(b)
      PROVE  IInv'
  BY <1>7, OthersStep
<1> QED
  BY <1>1, <1>2, <1>3, <1>4, <1>5, <1>6, <1>7 DEF Next

\* At every moment, whatever the page shows or a handler holds of a shelf is a
\* version it has or had, with the bindings of that version.
THEOREM InvariantHolds == Spec => []IInv
<1> QED
  BY InitOK, InvariantStep, PTL DEF Spec

\* The page, its handlers and what they ask of the API are well typed.
THEOREM TypeCorrect == Spec => []TypeOK
<1>1. IInv => TypeOK
  BY DEF IInv
<1> QED
  BY <1>1, InvariantHolds, PTL

\* A configuration with the version of its shelf has the bindings of its shelf,
\* although row and bindings were read by two statements (GetByIdAsync).
THEOREM ShownIsCurrentTheorem == Spec => []ShownIsCurrent
<1>1. IInv => ShownIsCurrent
  <2> SUFFICES ASSUME IInv PROVE ShownIsCurrent
    OBVIOUS
  <2>1. ASSUME NEW x, Current(register, known, x.shelf, x.version, x.bindings)
        PROVE  Faithful(x)
    BY <2>1 DEF Current, Reached, Faithful, Server!Exists
  <2>2. configuration # NoShelf => Faithful(configuration)
    BY <2>1, TypeParts DEF ShownOK
  <2>3. ASSUME NEW t \in Tasks, task[t].got # NoShelf, task[t].at # "bindings"
        PROVE  Faithful(task[t].got)
    BY <2>1, <2>3, TypeParts DEF TaskOK
  <2> QED
    BY <2>2, <2>3 DEF ShownIsCurrent
<1> QED
  BY <1>1, InvariantHolds, PTL

\* A save replaces exactly the bindings its user was shown, or is refused (save
\* in App.tsx with the version check of the API).
THEOREM NothingUnseenIsOverwrittenTheorem == Spec => []NothingUnseenIsOverwritten
<1>1. IInv => NothingUnseenIsOverwritten
  BY TypeParts DEF NothingUnseenIsOverwritten, TaskOK, Current, At, Server!Exists
<1> QED
  BY <1>1, InvariantHolds, PTL

-----------------------------------------------------------------------------
(* The store of the page. *)

\* The bindings being edited change by an edit, or with an answer (store.ts).
StoreStep ==
  \/ UNCHANGED storeVars
  \/ \E node \in Bindings :
       SetBindings(ConnectResource(bindings, node)) \/ SetBindings(RemoveBinding(bindings, node))
  \/ \E t \in Tasks : task[t].got # NoShelf /\ SetConfiguration(task[t].got)

LEMMA StoreSteps ==
  ASSUME IInv, [Next]_vars
  PROVE  StoreStep
<1>1. ASSUME NEW t \in Tasks, LoadAnswered(t) \/ SaveAnswered(t)
      PROVE  StoreStep
  <2>1. TaskOK(register, known, task[t])
    BY TypeParts
  <2>2. CASE task[t].status = "ok"
    BY <1>1, <2>1, <2>2 DEF LoadAnswered, SaveAnswered, At, TaskOK, StoreStep
  <2>3. CASE task[t].status # "ok"
    BY <1>1, <2>3 DEF LoadAnswered, SaveAnswered, StoreStep
  <2> QED
    BY <2>2, <2>3
<1>2. ASSUME NEW b \in Bindings, Connect(b) \/ Disconnect(b)
      PROVE  StoreStep
  BY <1>2 DEF Connect, Disconnect, StoreStep
<1>3. ASSUME NEW t \in Tasks, Click(t) \/ Lose(t)
      PROVE  UNCHANGED storeVars
  BY <1>3 DEF Click, Lose, ClickShelf, ClickSave, ClickReload, ClickNew, ClickAdd
<1>4. ASSUME NEW t \in Tasks, Serve(t)
      PROVE  UNCHANGED storeVars
  BY <1>4 DEF Serve, ServeSave, ServeCreate, ServeAdd, ServeRow, ServeBindings, ServeList
<1>5. ASSUME NEW t \in Tasks, Answer(t), ~(LoadAnswered(t) \/ SaveAnswered(t))
      PROVE  UNCHANGED storeVars
  BY <1>5 DEF Answer, CreateAnswered, AddFailed, MountListed, SaveListed, CreateListed, AddListed
<1>6. ASSUME \/ \E v \in {"map", "catalog"} : ShowView(v)
             \/ \E s \in ShelfIds : OtherClient(s)
             \/ \E b \in Bindings : OtherDeletes(b)
             \/ UNCHANGED vars
      PROVE  UNCHANGED storeVars
  BY <1>6 DEF ShowView, OtherClient, OtherDeletes, vars
<1> QED
  BY <1>1, <1>2, <1>3, <1>4, <1>5, <1>6 DEF Next, StoreStep

\* "Unsaved" is shown whenever there is something to save (store.ts).
THEOREM CleanMeansUnchangedTheorem == Spec => []CleanMeansUnchanged
<1>1. Init => CleanMeansUnchanged
  BY DEF Init, CleanMeansUnchanged
<1>2. IInv /\ CleanMeansUnchanged /\ [Next]_vars => CleanMeansUnchanged'
  BY StoreSteps DEF StoreStep, CleanMeansUnchanged, storeVars, SetBindings, SetConfiguration
<1> QED
  BY <1>1, <1>2, InvariantHolds, PTL DEF Spec

-----------------------------------------------------------------------------
(* Singletons. *)

LEMMA EditsKeepSingletons ==
  ASSUME NEW current, SingletonsHold(current), NEW node
  PROVE  /\ SingletonsHold(ConnectResource(current, node))
         /\ SingletonsHold(RemoveBinding(current, node))
  BY DEF SingletonsHold, ConnectResource, RemoveBinding

\* Where the page may take bindings from.
SInv ==
  /\ SendsSingletons
  /\ \A s \in ShelfIds : register[s] # NoShelf => SingletonsHold(register[s].bindings)
  /\ configuration # NoShelf => SingletonsHold(configuration.bindings)
  /\ \A t \in Tasks : task[t].got # NoShelf => SingletonsHold(task[t].got.bindings)

\* What a task sends and what it has read (App.tsx, GetByIdAsync).
TaskHas(v) ==
  /\ SingletonsHold(v.wanted)
  /\ v.got # NoShelf => SingletonsHold(v.got.bindings)

LEMMA NothingIsSingleton == SingletonsHold({})
  BY DEF SingletonsHold

LEMMA RestHas == TaskHas(Rest)
  BY NothingIsSingleton DEF TaskHas, Rest

LEMMA LoadHas ==
  ASSUME NEW s, NEW quiet
  PROVE  TaskHas(Load(s, quiet))
<1>1. Load(s, quiet).wanted = {} /\ Load(s, quiet).got = NoShelf
  BY DEF Load, Rest
<1> QED
  BY <1>1, NothingIsSingleton DEF TaskHas

LEMMA OnwardHas ==
  ASSUME NEW c, NEW stage, NEW status, NEW listed, NEW wrote
  PROVE  /\ TaskHas(Onward(c, stage))
         /\ TaskHas([Onward(c, stage) EXCEPT !.status = status])
         /\ TaskHas([Onward(c, stage) EXCEPT !.wrote = wrote])
         /\ TaskHas([Onward(c, stage) EXCEPT !.status = status, !.listed = listed])
<1> DEFINE d == Onward(c, stage)
<1>1. /\ d.wanted = {} /\ d.got = NoShelf
      /\ [d EXCEPT !.status = status].wanted = {}
      /\ [d EXCEPT !.status = status].got = NoShelf
      /\ [d EXCEPT !.wrote = wrote].wanted = {}
      /\ [d EXCEPT !.wrote = wrote].got = NoShelf
      /\ [d EXCEPT !.status = status, !.listed = listed].wanted = {}
      /\ [d EXCEPT !.status = status, !.listed = listed].got = NoShelf
  BY DEF Onward, Rest
<1> HIDE DEF d
<1>2. /\ TaskHas(d) /\ TaskHas([d EXCEPT !.status = status])
      /\ TaskHas([d EXCEPT !.wrote = wrote])
      /\ TaskHas([d EXCEPT !.status = status, !.listed = listed])
  BY <1>1, NothingIsSingleton DEF TaskHas
<1> QED
  BY <1>2 DEF d

LEMMA TaskHasStep ==
  ASSUME IInv, SInv, [Next]_vars
  PROVE  \A u \in Tasks : TaskHas(task'[u])
<1> USE TypeParts
<1>1. \A u \in Tasks : TaskHas(task[u])
  BY DEF SInv, SendsSingletons, TaskHas
<1>2. ASSUME NEW t \in Tasks, NEW v, Become(t, v), TaskHas(v)
      PROVE  \A u \in Tasks : TaskHas(task'[u])
  BY <1>1, <1>2 DEF Become
<1>3. ASSUME NEW t \in Tasks, NEW s, Select(t, s)
      PROVE  \A u \in Tasks : TaskHas(task'[u])
  BY <1>2, <1>3, RestHas, LoadHas DEF Select, End
<1>4. ASSUME NEW t \in Tasks, Click(t)
      PROVE  \A u \in Tasks : TaskHas(task'[u])
  <2>1. CASE ClickSave(t)
    <3> DEFINE v == [Rest EXCEPT !.op = "save", !.at = "send", !.closure = selectedId,
                                 !.shelf = configuration.shelf,
                                 !.expected = configuration.version,
                                 !.wanted = bindings, !.base = configuration.bindings]
    <3>1. v.wanted = bindings /\ v.got = NoShelf
      BY DEF Rest
    <3>2. Become(t, v)
      BY <2>1 DEF ClickSave
    <3> HIDE DEF v
    <3> QED
      BY <1>2, <3>1, <3>2 DEF SInv, SendsSingletons, TaskHas
  <2>2. CASE ClickReload(t)
    BY <1>2, <2>2, LoadHas DEF ClickReload
  <2>3. CASE ClickNew(t) \/ ClickAdd(t)
    <3>1. PICK op \in {"create", "add"} :
            Become(t, [Rest EXCEPT !.op = op, !.at = "send", !.closure = selectedId])
      BY <2>3 DEF ClickNew, ClickAdd
    <3> DEFINE v == [Rest EXCEPT !.op = op, !.at = "send", !.closure = selectedId]
    <3>2. v.wanted = {} /\ v.got = NoShelf /\ Become(t, v)
      BY <3>1 DEF Rest
    <3> HIDE DEF v
    <3> QED
      BY <1>2, <3>2, NothingIsSingleton DEF TaskHas
  <2> QED
    BY <1>3, <1>4, <2>1, <2>2, <2>3 DEF Click, ClickShelf
<1>5. ASSUME NEW t \in Tasks, Serve(t) \/ Lose(t)
      PROVE  \A u \in Tasks : TaskHas(task'[u])
  <2> DEFINE c == task[t]
  <2>1. c \in TaskStates /\ TaskOK(register, known, c) /\ TaskHas(c)
    BY <1>1
  <2>2. CASE ServeRow(t) /\ Server!Exists(c.shelf)
    <3> DEFINE read == [shelf |-> c.shelf, version |-> register[c.shelf].version,
                        bindings |-> {}, resources |-> {}]
               v == [c EXCEPT !.at = "bindings", !.got = read]
    <3>1. Become(t, v)
      BY <2>2 DEF ServeRow
    <3>2. v.wanted = c.wanted /\ v.got = read /\ read.bindings = {}
      BY <2>1 DEF TaskStates
    <3> HIDE DEF read, v
    <3> QED
      BY <1>2, <2>1, <3>1, <3>2, NothingIsSingleton DEF TaskHas
  <2>3. CASE ServeBindings(t)
    <3> DEFINE bound == IF Server!Exists(c.shelf) THEN register[c.shelf].bindings ELSE {}
               v == [c EXCEPT !.at = "reply", !.status = "ok",
                              !.got.bindings = bound, !.got.resources = catalog]
    <3>1. c.got \in Configurations /\ c.shelf \in ShelfIds
      BY <2>1, <2>3 DEF ServeBindings, TaskOK, TaskStates
    <3>2. SingletonsHold(bound)
      BY <3>1, NothingIsSingleton DEF SInv, Server!Exists
    <3>3. Become(t, v)
      BY <2>3 DEF ServeBindings
    <3> HIDE DEF bound
    <3>4. v.wanted = c.wanted /\ v.got.bindings = bound
      BY <2>1, <3>1 DEF TaskStates, Configurations
    <3> HIDE DEF v
    <3> QED
      BY <1>2, <2>1, <3>2, <3>3, <3>4 DEF TaskHas
  <2>4. CASE ServeCreate(t)
    <3>1. PICK s \in ShelfIds : Become(t, [c EXCEPT !.at = "reply", !.status = "ok", !.shelf = s])
      BY <2>4 DEF ServeCreate
    <3> DEFINE v == [c EXCEPT !.at = "reply", !.status = "ok", !.shelf = s]
    <3>2. v.wanted = c.wanted /\ v.got = c.got /\ Become(t, v)
      BY <2>1, <3>1 DEF TaskStates
    <3> HIDE DEF v
    <3> QED
      BY <1>2, <2>1, <3>2 DEF TaskHas
  <2>5. CASE ServeSave(t) \/ Lose(t) \/ (ServeRow(t) /\ ~Server!Exists(c.shelf))
    BY <1>2, <2>5, OnwardHas DEF ServeSave, Lose, ServeRow, Reply
  <2>6. CASE ServeAdd(t) \/ ServeList(t)
    BY <1>2, <2>6, OnwardHas DEF ServeAdd, ServeList
  <2> QED
    BY <1>5, <2>2, <2>3, <2>4, <2>5, <2>6 DEF Serve
<1>6. ASSUME NEW t \in Tasks, Answer(t)
      PROVE  \A u \in Tasks : TaskHas(task'[u])
  <2>1. \/ End(t) \/ Become(t, Onward(task[t], "list"))
        \/ \E s : Select(t, s)
        \/ \E s : Become(t, Load(s, TRUE))
    BY <1>6 DEF Answer, LoadAnswered, SaveAnswered, CreateAnswered, AddFailed,
       MountListed, SaveListed, CreateListed, AddListed, ShelvesLoaded
  <2> QED
    BY <1>2, <1>3, <2>1, RestHas, LoadHas, OnwardHas DEF End
<1>7. ASSUME UNCHANGED task
      PROVE  \A u \in Tasks : TaskHas(task'[u])
  BY <1>1, <1>7
<1>8. ASSUME \/ \E v \in {"map", "catalog"} : ShowView(v)
             \/ \E b \in Bindings : Connect(b) \/ Disconnect(b) \/ OtherDeletes(b)
             \/ \E s \in ShelfIds : OtherClient(s)
             \/ UNCHANGED vars
      PROVE  UNCHANGED task
  BY <1>8 DEF ShowView, Connect, Disconnect, OtherClient, OtherDeletes, vars
<1> QED
  BY <1>4, <1>5, <1>6, <1>7, <1>8 DEF Next

LEMMA RegisterHas ==
  ASSUME IInv, SInv, [Next]_vars
  PROVE  \A s \in ShelfIds : register'[s] # NoShelf => SingletonsHold(register'[s].bindings)
<1> USE TypeParts
<1> DEFINE Goal == \A s \in ShelfIds :
                     register'[s] # NoShelf => SingletonsHold(register'[s].bindings)
<1>1. CASE UNCHANGED register
  BY <1>1 DEF SInv
<1>2. ASSUME NEW s \in ShelfIds, NEW bound \in SUBSET Bindings, Server!Rebind(s, bound)
      PROVE  Goal
  <2>1. SingletonsHold(bound)
    BY <1>2 DEF Server!Rebind, Server!SingletonsHold, SingletonsHold,
       Server!SingletonKinds, SingletonKinds
  <2>2. register[s] \in Shelves
    BY <1>2, ShelfFields DEF Server!Rebind, Server!Exists
  <2>3. register'[s].bindings = bound
    BY <1>2, <2>2 DEF Server!Rebind, Registers, Shelves
  <2>4. \A r \in ShelfIds \ {s} : register'[r] = register[r]
    BY <1>2 DEF Server!Rebind, Registers
  <2> QED
    BY <2>1, <2>3, <2>4 DEF SInv
<1>3. ASSUME NEW s \in ShelfIds, NEW c \in Configs, Server!Rename(s, c)
      PROVE  Goal
  <2>1. register[s] \in Shelves
    BY <1>3, ShelfFields DEF Server!Rename, Server!Exists
  <2>2. register'[s].bindings = register[s].bindings
    BY <1>3, <2>1 DEF Server!Rename, Server!UpdateConfiguration, Registers, Shelves
  <2>3. \A r \in ShelfIds \ {s} : register'[r] = register[r]
    BY <1>3 DEF Server!Rename, Registers
  <2> QED
    BY <1>3, <2>2, <2>3 DEF SInv, Server!Rename, Server!Exists
<1>4. ASSUME NEW s \in ShelfIds, Server!Remove(s)
      PROVE  Goal
  BY <1>4 DEF Server!Remove, Registers, SInv
<1>5. ASSUME NEW s \in ShelfIds, NEW c \in Configs, Server!Create(s, c)
      PROVE  Goal
  <2>1. register'[s].bindings = {}
    BY <1>5 DEF Server!Create, Server!NewShelf, Registers
  <2>2. \A r \in ShelfIds \ {s} : register'[r] = register[r]
    BY <1>5 DEF Server!Create, Registers
  <2> QED
    BY <2>1, <2>2, NothingIsSingleton DEF SInv
<1>6. ASSUME NEW t \in Tasks, ServeSave(t)
      PROVE  Goal
  <2>1. task[t].shelf \in ShelfIds /\ task[t].wanted \in SUBSET Bindings
    BY <1>6 DEF ServeSave, At, TaskOK, TaskStates
  <2> QED
    BY <1>1, <1>2, <1>6, <2>1 DEF ServeSave
<1>7. ASSUME NEW t \in Tasks, ServeCreate(t)
      PROVE  Goal
  BY <1>5, <1>7 DEF ServeCreate
<1>8. ASSUME NEW s \in ShelfIds, OtherClient(s)
      PROVE  Goal
  <2>1. \/ \E bound \in SUBSET Bindings : Server!Rebind(s, bound)
        \/ \E c \in Configs : Server!Rename(s, c)
        \/ Server!Remove(s)
    BY <1>8 DEF OtherClient, PageTypeOK
  <2> QED
    BY <1>2, <1>3, <1>4, <2>1
<1>9. ASSUME NEW t \in Tasks, Click(t) \/ Answer(t) \/ Lose(t)
      PROVE  UNCHANGED register
  <2>1. CASE Click(t) \/ Lose(t)
    BY <2>1 DEF Click, Lose, ClickShelf, ClickSave, ClickReload, ClickNew, ClickAdd, serverVars
  <2>2. CASE Answer(t)
    BY <2>2 DEF Answer, LoadAnswered, SaveAnswered, CreateAnswered, AddFailed,
       MountListed, SaveListed, CreateListed, AddListed, serverVars
  <2> QED
    BY <1>9, <2>1, <2>2
<1>10. ASSUME NEW t \in Tasks, Serve(t)
       PROVE  UNCHANGED register \/ ServeSave(t) \/ ServeCreate(t)
  BY <1>10 DEF Serve, ServeAdd, ServeRow, ServeBindings, ServeList, serverVars
<1>11. ASSUME \/ \E v \in {"map", "catalog"} : ShowView(v)
              \/ \E b \in Bindings : Connect(b) \/ Disconnect(b) \/ OtherDeletes(b)
              \/ UNCHANGED vars
       PROVE  UNCHANGED register
  BY <1>11 DEF ShowView, Connect, Disconnect, OtherDeletes, vars, serverVars
<1> QED
  BY <1>1, <1>6, <1>7, <1>8, <1>9, <1>10, <1>11 DEF Next

\* What the page sends never has two controllers, cameras or LED outputs
\* (singletonKinds in bindings.ts), so the API never refuses it for that.
THEOREM SendsSingletonsTheorem == Spec => []SendsSingletons
<1>1. Init => SInv
  <2> SUFFICES ASSUME Init PROVE SInv
    OBVIOUS
  <2>1. \A t \in Tasks : task[t].wanted = {} /\ task[t].got = NoShelf
    BY DEF Init, Rest
  <2> QED
    BY <2>1, NothingIsSingleton, UiAssumption DEF Init, SInv, SendsSingletons
<1>2. IInv /\ SInv /\ [Next]_vars => SInv'
  <2> SUFFICES ASSUME IInv, SInv, [Next]_vars PROVE SInv'
    OBVIOUS
  <2>1. StoreStep
    BY StoreSteps
  <2>2. SingletonsHold(bindings') /\ (configuration' # NoShelf => SingletonsHold(configuration'.bindings))
    BY <2>1, EditsKeepSingletons DEF StoreStep, SInv, SendsSingletons, storeVars,
       SetBindings, SetConfiguration
  <2> QED
    BY <2>2, TaskHasStep, RegisterHas DEF SInv, SendsSingletons, TaskHas
<1>3. SInv => SendsSingletons
  BY DEF SInv
<1> QED
  BY <1>1, <1>2, <1>3, InvariantHolds, PTL DEF Spec

-----------------------------------------------------------------------------
(* One save at a time, and what it shows. *)

\* What a step does to the Save button and to the saves that run: a save begins
\* when none runs and ends when the button is given back.
SavingStep ==
  \/ UNCHANGED <<task, saving>>
  \/ \E t \in Tasks, v \in TaskStates :
       /\ Become(t, v)
       /\ \/ UNCHANGED saving /\ (v.op = "save" <=> task[t].op = "save")
          \/ ~saving /\ saving' /\ v.op = "save"
          \/ task[t].op = "save" /\ v.op # "save" /\ ~saving'

LEMMA OpKept ==
  ASSUME NEW c, NEW stage, NEW status, NEW listed, NEW wrote, NEW s, NEW quiet
  PROVE  /\ Onward(c, stage).op = c.op
         /\ [Onward(c, stage) EXCEPT !.status = status].op = c.op
         /\ [Onward(c, stage) EXCEPT !.wrote = wrote].op = c.op
         /\ [Onward(c, stage) EXCEPT !.status = status, !.listed = listed].op = c.op
         /\ Rest.op = "none" /\ Load(s, quiet).op = "load"
  BY DEF Onward, Load, Rest

\* A handler that is at a save stays at it, and no other becomes one.
KeepsSaving(v, c) == v.op = "save" <=> c.op = "save"

LEMMA OnwardKeepsSaving ==
  ASSUME NEW c, NEW stage, NEW status, NEW listed, NEW wrote
  PROVE  /\ KeepsSaving(Onward(c, stage), c)
         /\ KeepsSaving([Onward(c, stage) EXCEPT !.status = status], c)
         /\ KeepsSaving([Onward(c, stage) EXCEPT !.wrote = wrote], c)
         /\ KeepsSaving([Onward(c, stage) EXCEPT !.status = status, !.listed = listed], c)
         /\ c.op # "save" => KeepsSaving(Rest, c)
         /\ c.op # "save" => \A s, quiet : KeepsSaving(Load(s, quiet), c)
  BY DEF KeepsSaving, Onward, Load, Rest

\* The task a step leaves behind is a task again (InvariantStep).
LEMMA StaysATask ==
  ASSUME IInv, IInv', NEW t \in Tasks, NEW v, Become(t, v)
  PROVE  v \in TaskStates
<1>1. task'[t] = v
  BY TypeParts DEF Become
<1> QED
  BY <1>1 DEF IInv, TypeOK

LEMMA SavingSteps ==
  ASSUME IInv, IInv', [Next]_vars
  PROVE  SavingStep
<1> USE TypeParts
<1>1. ASSUME NEW t \in Tasks, NEW v, Become(t, v), UNCHANGED saving,
             v.op = "save" <=> task[t].op = "save"
      PROVE  SavingStep
  BY <1>1, StaysATask DEF SavingStep
<1>2. ASSUME NEW t \in Tasks, NEW s, Select(t, s), UNCHANGED saving, task[t].op # "save"
      PROVE  SavingStep
  BY <1>1, <1>2, OpKept DEF Select, End
<1>3. ASSUME NEW t \in Tasks, ClickSave(t)
      PROVE  SavingStep
  <2> DEFINE v == [Rest EXCEPT !.op = "save", !.at = "send", !.closure = selectedId,
                               !.shelf = configuration.shelf,
                               !.expected = configuration.version,
                               !.wanted = bindings, !.base = configuration.bindings]
  <2>1. Become(t, v) /\ ~saving /\ saving' = TRUE
    BY <1>3 DEF ClickSave
  <2>2. v.op = "save"
    BY DEF Rest
  <2> HIDE DEF v
  <2> QED
    BY <2>1, <2>2, StaysATask DEF SavingStep
<1>4. ASSUME NEW t \in Tasks, Click(t), ~ClickSave(t)
      PROVE  SavingStep
  <2>1. task[t].op = "none" /\ UNCHANGED saving
    BY <1>4 DEF Click, ClickShelf, ClickReload, ClickNew, ClickAdd, Free
  <2>2. CASE \E s \in ShelfIds : ClickShelf(t, s)
    BY <1>2, <2>1, <2>2 DEF ClickShelf
  <2>3. CASE ClickReload(t)
    BY <1>1, <2>1, <2>3, OpKept DEF ClickReload
  <2>4. CASE ClickNew(t) \/ ClickAdd(t)
    <3>1. PICK op \in {"create", "add"} :
            Become(t, [Rest EXCEPT !.op = op, !.at = "send", !.closure = selectedId])
      BY <2>4 DEF ClickNew, ClickAdd
    <3> DEFINE v == [Rest EXCEPT !.op = op, !.at = "send", !.closure = selectedId]
    <3>2. v.op # "save" /\ Become(t, v)
      BY <3>1 DEF Rest
    <3> HIDE DEF v
    <3> QED
      BY <1>1, <2>1, <3>2
  <2> QED
    BY <1>4, <2>2, <2>3, <2>4 DEF Click
<1>5. ASSUME NEW t \in Tasks, Serve(t) \/ Lose(t)
      PROVE  SavingStep
  <2> DEFINE c == task[t]
  <2>1. UNCHANGED saving
    BY <1>5 DEF Serve, Lose, ServeSave, ServeCreate, ServeAdd, ServeRow, ServeBindings, ServeList
  <2>2. c \in TaskStates
    BY DEF TaskOK
  <2>3. CASE ServeRow(t) /\ Server!Exists(c.shelf)
    <3> DEFINE read == [shelf |-> c.shelf, version |-> register[c.shelf].version,
                        bindings |-> {}, resources |-> {}]
               v == [c EXCEPT !.at = "bindings", !.got = read]
    <3>1. Become(t, v)
      BY <2>3 DEF ServeRow
    <3> HIDE DEF read
    <3>2. v.op = c.op
      BY <2>2 DEF TaskStates
    <3> HIDE DEF v
    <3> QED
      BY <1>1, <2>1, <3>1, <3>2
  <2>4. CASE ServeBindings(t)
    <3> DEFINE bound == IF Server!Exists(c.shelf) THEN register[c.shelf].bindings ELSE {}
               v == [c EXCEPT !.at = "reply", !.status = "ok",
                              !.got.bindings = bound, !.got.resources = catalog]
    <3>1. Become(t, v)
      BY <2>4 DEF ServeBindings
    <3> HIDE DEF bound
    <3>2. v.op = c.op
      BY <2>2 DEF TaskStates
    <3> HIDE DEF v
    <3> QED
      BY <1>1, <2>1, <3>1, <3>2
  <2>5. CASE ServeCreate(t)
    <3>1. PICK s \in ShelfIds : Become(t, [c EXCEPT !.at = "reply", !.status = "ok", !.shelf = s])
      BY <2>5 DEF ServeCreate
    <3> DEFINE v == [c EXCEPT !.at = "reply", !.status = "ok", !.shelf = s]
    <3>2. v.op = c.op /\ Become(t, v)
      BY <2>2, <3>1 DEF TaskStates
    <3> HIDE DEF v
    <3> QED
      BY <1>1, <2>1, <3>2
  <2>6. CASE \/ ServeSave(t) \/ Lose(t) \/ ServeAdd(t) \/ ServeList(t)
             \/ ServeRow(t) /\ ~Server!Exists(c.shelf)
    <3>1. \E v : Become(t, v) /\ KeepsSaving(v, c)
      BY <2>6, OnwardKeepsSaving DEF ServeSave, Lose, ServeRow, Reply, ServeAdd, ServeList
    <3> QED
      BY <1>1, <2>1, <3>1 DEF KeepsSaving
  <2> QED
    BY <1>5, <2>3, <2>4, <2>5, <2>6 DEF Serve
<1>6. ASSUME NEW t \in Tasks, SaveAnswered(t)
      PROVE  SavingStep
  <2>1. task[t].op = "save"
    BY <1>6 DEF SaveAnswered, At
  <2>2. CASE task[t].status = "ok"
    <3> DEFINE v == Onward(task[t], "list")
    <3>1. Become(t, v) /\ UNCHANGED saving
      BY <1>6, <2>2 DEF SaveAnswered
    <3>2. v.op = task[t].op
      BY OpKept
    <3> HIDE DEF v
    <3> QED
      BY <1>1, <3>1, <3>2
  <2>3. CASE task[t].status # "ok"
    <3>1. Become(t, Rest) /\ saving' = FALSE
      BY <1>6, <2>3 DEF SaveAnswered, End
    <3>2. Rest.op # "save"
      BY OpKept
    <3> QED
      BY <2>1, <3>1, <3>2, StaysATask DEF SavingStep
  <2> QED
    BY <2>2, <2>3
<1>7. ASSUME NEW t \in Tasks, SaveListed(t)
      PROVE  SavingStep
  <2>1. task[t].op = "save" /\ ~saving'
    BY <1>7 DEF SaveListed, At
  <2>2. End(t) \/ \E s : Select(t, s)
    BY <1>7 DEF SaveListed, ShelvesLoaded
  <2>3. \E v : Become(t, v) /\ v.op # "save"
    BY <2>2, OpKept DEF Select, End
  <2> QED
    BY <2>1, <2>3, StaysATask DEF SavingStep
<1>8. ASSUME NEW t \in Tasks, Answer(t), ~SaveAnswered(t), ~SaveListed(t)
      PROVE  SavingStep
  <2>1. UNCHANGED saving /\ task[t].op # "save"
    BY <1>8 DEF Answer, At, LoadAnswered, CreateAnswered, AddFailed, MountListed,
       CreateListed, AddListed
  <2>2. \/ End(t) \/ Become(t, Onward(task[t], "list"))
        \/ \E s : Select(t, s)
        \/ \E s : Become(t, Load(s, TRUE))
    BY <1>8 DEF Answer, LoadAnswered, CreateAnswered, AddFailed,
       MountListed, CreateListed, AddListed, ShelvesLoaded
  <2>3. CASE \E s : Select(t, s)
    BY <1>2, <2>1, <2>3
  <2>4. CASE End(t) \/ Become(t, Onward(task[t], "list")) \/ \E s : Become(t, Load(s, TRUE))
    <3>1. \E v : Become(t, v) /\ KeepsSaving(v, task[t])
      BY <2>1, <2>4, OnwardKeepsSaving DEF End
    <3> QED
      BY <1>1, <2>1, <3>1 DEF KeepsSaving
  <2> QED
    BY <2>2, <2>3, <2>4
<1>9. ASSUME \/ \E v \in {"map", "catalog"} : ShowView(v)
             \/ \E b \in Bindings : Connect(b) \/ Disconnect(b) \/ OtherDeletes(b)
             \/ \E s \in ShelfIds : OtherClient(s)
             \/ UNCHANGED vars
      PROVE  UNCHANGED <<task, saving>>
  BY <1>9 DEF ShowView, Connect, Disconnect, OtherClient, OtherDeletes, vars
<1> QED
  BY <1>3, <1>4, <1>5, <1>6, <1>7, <1>8, <1>9 DEF Next, SavingStep

\* The Save button is disabled exactly while one save runs (setSaving in App.tsx).
THEOREM OneSaveRunsTheorem == Spec => []OneSaveRuns
<1>1. Init => OneSaveRuns
  BY OpKept DEF Init, OneSaveRuns, Rest
<1>2. IInv /\ IInv' /\ OneSaveRuns /\ [Next]_vars => OneSaveRuns'
  <2> SUFFICES ASSUME IInv, IInv', OneSaveRuns, [Next]_vars PROVE OneSaveRuns'
    OBVIOUS
  <2>1. CASE UNCHANGED <<task, saving>>
    BY <2>1 DEF OneSaveRuns
  <2>2. ASSUME NEW t \in Tasks, NEW v \in TaskStates, Become(t, v),
               \/ UNCHANGED saving /\ (v.op = "save" <=> task[t].op = "save")
               \/ ~saving /\ saving' /\ v.op = "save"
               \/ task[t].op = "save" /\ v.op # "save" /\ ~saving'
        PROVE  OneSaveRuns'
    <3>1. task'[t] = v /\ \A u \in Tasks \ {t} : task'[u] = task[u]
      BY <2>2, TypeParts DEF Become
    <3>2. saving \in BOOLEAN /\ saving' \in BOOLEAN
      BY DEF IInv, TypeOK
    <3>3. CASE UNCHANGED saving /\ (v.op = "save" <=> task[t].op = "save")
      <4>1. \A u \in Tasks : task'[u].op = "save" <=> task[u].op = "save"
        BY <3>1, <3>3
      <4> QED
        BY <3>3, <4>1, Zenon DEF OneSaveRuns
    <3>4. CASE ~saving /\ saving' /\ v.op = "save"
      <4>1. \A u \in Tasks : task[u].op # "save"
        BY <3>4, Zenon DEF OneSaveRuns
      <4>2. \A u \in Tasks : task'[u].op = "save" <=> u = t
        BY <3>1, <3>4, <4>1
      <4> QED
        BY <3>4, <4>2, Zenon DEF OneSaveRuns
    <3>5. CASE task[t].op = "save" /\ v.op # "save" /\ ~saving'
      <4>1. \A u \in Tasks : task[u].op = "save" => u = t
        BY <3>5, Zenon DEF OneSaveRuns
      <4>2. \A u \in Tasks : task'[u].op # "save"
        BY <3>1, <3>5, <4>1
      <4> QED
        BY <3>5, <4>2, Zenon DEF OneSaveRuns
    <3> QED
      BY <2>2, <3>3, <3>4, <3>5
  <2> QED
    BY <2>1, <2>2, SavingSteps DEF SavingStep
<1> QED
  BY <1>1, <1>2, InvariantHolds, PTL DEF Spec

\* What a handler of a save knows of the version it wrote: the shelf has or had
\* it, and the configuration read afterwards is not older.
WroteOK(reg, kn, c) ==
  c.op = "save" =>
    /\ c.at = "row" => Reached(reg, kn, c.shelf, c.wrote)
    /\ c.got # NoShelf => c.got.version >= c.wrote

WInv == \A t \in Tasks : WroteOK(register, known, task[t])

LEMMA RegisterSteps ==
  ASSUME IInv, [Next]_vars
  PROVE  RegisterStep(register, known, register', known')
<1> USE TypeParts
<1>1. ASSUME NEW t \in Tasks, ServeSave(t)
      PROVE  RegisterStep(register, known, register', known')
  <2>1. task[t].shelf \in ShelfIds /\ task[t].wanted \in SUBSET Bindings
    BY <1>1 DEF ServeSave, At, TaskOK, TaskStates
  <2>2. UNCHANGED known /\ (UNCHANGED register \/ Server!Rebind(task[t].shelf, task[t].wanted))
    BY <1>1 DEF ServeSave
  <2> QED
    BY <2>1, <2>2, QuietApi, RebindStep
<1>2. ASSUME NEW t \in Tasks, ServeCreate(t)
      PROVE  RegisterStep(register, known, register', known')
  BY <1>2, CreateStep DEF ServeCreate
<1>3. ASSUME NEW s \in ShelfIds, OtherClient(s)
      PROVE  RegisterStep(register, known, register', known')
  <2>1. UNCHANGED known
    BY <1>3 DEF OtherClient
  <2>2. \/ \E bound \in SUBSET Bindings : Server!Rebind(s, bound)
        \/ \E c \in Configs : Server!Rename(s, c)
        \/ Server!Remove(s)
    BY <1>3 DEF OtherClient, PageTypeOK
  <2> QED
    BY <2>1, <2>2, RebindStep, RenameStep, RemoveStep
<1>4. ASSUME NEW t \in Tasks, Click(t) \/ Lose(t)
      PROVE  UNCHANGED <<register, known>>
  BY <1>4 DEF Click, Lose, ClickShelf, ClickSave, ClickReload, ClickNew, ClickAdd, serverVars
<1>5. ASSUME NEW t \in Tasks, Answer(t)
      PROVE  UNCHANGED <<register, known>>
  BY <1>5 DEF Answer, LoadAnswered, SaveAnswered, CreateAnswered, AddFailed,
     MountListed, SaveListed, CreateListed, AddListed, serverVars
<1>6. ASSUME NEW t \in Tasks, Serve(t), ~ServeSave(t), ~ServeCreate(t)
      PROVE  UNCHANGED <<register, known>>
  BY <1>6 DEF Serve, ServeAdd, ServeRow, ServeBindings, ServeList, serverVars
<1>7. ASSUME \/ \E v \in {"map", "catalog"} : ShowView(v)
             \/ \E b \in Bindings : Connect(b) \/ Disconnect(b) \/ OtherDeletes(b)
             \/ UNCHANGED vars
      PROVE  UNCHANGED <<register, known>>
  BY <1>7 DEF ShowView, Connect, Disconnect, OtherDeletes, vars, serverVars
<1> QED
  BY <1>1, <1>2, <1>3, <1>4, <1>5, <1>6, <1>7, QuietApi DEF Next

LEMMA WroteStays ==
  ASSUME NEW reg, NEW kn, NEW reg2, NEW kn2, RegisterStep(reg, kn, reg2, kn2),
         NEW c \in TaskStates, WroteOK(reg, kn, c)
  PROVE  WroteOK(reg2, kn2, c)
<1>1. c.wrote \in Nat
  BY DEF TaskStates
<1> QED
  BY <1>1, ReachedStays DEF WroteOK

\* A handler without an answer in hand, and not between a commit and its read.
LEMMA PlainWrote ==
  ASSUME NEW reg, NEW kn, NEW c, NEW stage, stage # "row", NEW status, NEW listed
  PROVE  /\ WroteOK(reg, kn, Onward(c, stage))
         /\ WroteOK(reg, kn, [Onward(c, stage) EXCEPT !.status = status])
         /\ WroteOK(reg, kn, [Onward(c, stage) EXCEPT !.status = status, !.listed = listed])
<1> DEFINE d == Onward(c, stage)
<1>1. /\ d.got = NoShelf /\ d.at = stage
      /\ [d EXCEPT !.status = status].got = NoShelf
      /\ [d EXCEPT !.status = status].at = stage
      /\ [d EXCEPT !.status = status, !.listed = listed].got = NoShelf
      /\ [d EXCEPT !.status = status, !.listed = listed].at = stage
  BY DEF Onward, Rest
<1> HIDE DEF d
<1>2. /\ WroteOK(reg, kn, d)
      /\ WroteOK(reg, kn, [d EXCEPT !.status = status])
      /\ WroteOK(reg, kn, [d EXCEPT !.status = status, !.listed = listed])
  BY <1>1 DEF WroteOK
<1> QED
  BY <1>2 DEF d

LEMMA NewWrote ==
  ASSUME NEW reg, NEW kn, NEW s, NEW quiet
  PROVE  WroteOK(reg, kn, Rest) /\ WroteOK(reg, kn, Load(s, quiet))
  BY DEF WroteOK, Rest, Load

LEMMA WroteStep ==
  ASSUME IInv, WInv, [Next]_vars
  PROVE  WInv'
<1> USE TypeParts, RegisterSteps
<1>1. \A u \in Tasks : WroteOK(register', known', task[u])
  BY WroteStays DEF WInv
<1>2. ASSUME NEW t \in Tasks, NEW v, Become(t, v), WroteOK(register', known', v)
      PROVE  WInv'
  BY <1>1, <1>2 DEF Become, WInv
<1>3. ASSUME NEW t \in Tasks, NEW s, Select(t, s)
      PROVE  WInv'
  BY <1>2, <1>3, NewWrote DEF Select, End
<1>4. ASSUME NEW t \in Tasks, Click(t)
      PROVE  WInv'
  <2>1. CASE ClickSave(t)
    <3> DEFINE v == [Rest EXCEPT !.op = "save", !.at = "send", !.closure = selectedId,
                                 !.shelf = configuration.shelf,
                                 !.expected = configuration.version,
                                 !.wanted = bindings, !.base = configuration.bindings]
    <3>1. v.at = "send" /\ v.got = NoShelf
      BY DEF Rest
    <3>2. Become(t, v)
      BY <2>1 DEF ClickSave
    <3> HIDE DEF v
    <3> QED
      BY <1>2, <3>1, <3>2 DEF WroteOK
  <2>2. CASE ClickReload(t)
    BY <1>2, <2>2, NewWrote DEF ClickReload
  <2>3. CASE ClickNew(t) \/ ClickAdd(t)
    <3>1. PICK op \in {"create", "add"} :
            Become(t, [Rest EXCEPT !.op = op, !.at = "send", !.closure = selectedId])
      BY <2>3 DEF ClickNew, ClickAdd
    <3> DEFINE v == [Rest EXCEPT !.op = op, !.at = "send", !.closure = selectedId]
    <3>2. v.op # "save" /\ Become(t, v)
      BY <3>1 DEF Rest
    <3> HIDE DEF v
    <3> QED
      BY <1>2, <3>2 DEF WroteOK
  <2> QED
    BY <1>3, <1>4, <2>1, <2>2, <2>3 DEF Click, ClickShelf
<1>5. ASSUME NEW t \in Tasks, ServeSave(t)
      PROVE  WInv'
  <2> DEFINE c == task[t]
             s == c.shelf
  <2>1. s \in ShelfIds /\ c.expected \in Nat
    BY <1>5 DEF ServeSave, At, TaskOK, TaskStates
  <2>2. CASE \E status : Reply(t, status)
    BY <1>2, <2>2, PlainWrote DEF Reply
  <2>3. ASSUME NEW w, Become(t, [Onward(c, "row") EXCEPT !.wrote = w]),
               register[s] # NoShelf, register'[s].version = w, w \in Nat
        PROVE  WInv'
    <3> DEFINE d == [Onward(c, "row") EXCEPT !.wrote = w]
    <3>1. d.got = NoShelf /\ d.wrote = w /\ d.shelf = s
      BY DEF Onward, Rest
    <3>2. Become(t, d)
      BY <2>3
    <3> HIDE DEF d
    <3>3. s \in known'
      BY <2>1, <2>3 DEF RegisterStep
    <3> QED
      BY <1>2, <2>3, <3>1, <3>2, <3>3 DEF WroteOK, Reached
  <2>4. CASE /\ UNCHANGED register
             /\ register[s] # NoShelf /\ register[s].version = c.expected
             /\ Become(t, [Onward(c, "row") EXCEPT !.wrote = c.expected])
    BY <2>1, <2>3, <2>4
  <2>5. CASE /\ Server!Rebind(s, c.wanted) /\ register[s].version = c.expected
             /\ Become(t, [Onward(c, "row") EXCEPT !.wrote = c.expected + 1])
    <3>1. register[s] # NoShelf /\ register[s] \in Shelves
      BY <2>1, <2>5, ShelfFields DEF Server!Rebind, Server!Exists
    <3>2. register'[s].version = c.expected + 1
      BY <2>1, <2>5, <3>1 DEF Server!Rebind, Registers, Shelves
    <3> QED
      BY <2>1, <2>3, <2>5, <3>1, <3>2
  <2> QED
    BY <1>5, <2>2, <2>4, <2>5 DEF ServeSave, Server!Exists
<1>6. ASSUME NEW t \in Tasks, ServeRow(t)
      PROVE  WInv'
  <2> DEFINE c == task[t]
             s == c.shelf
             read == [shelf |-> s, version |-> register[s].version,
                      bindings |-> {}, resources |-> {}]
             v == [c EXCEPT !.at = "bindings", !.got = read]
  <2>1. CASE ~Server!Exists(s)
    BY <1>2, <1>6, <2>1, PlainWrote DEF ServeRow, Reply
  <2>2. CASE Server!Exists(s)
    <3>1. /\ c \in TaskStates /\ c.at = "row" /\ WroteOK(register, known, c)
          /\ Become(t, v)
      BY <1>6, <2>2 DEF ServeRow, TaskOK, WInv
    <3>2. read.version = register[s].version
      OBVIOUS
    <3>3. s \in ShelfIds /\ register[s].version \in Nat /\ c.wrote \in Nat
      BY <1>6, <2>2, <3>1, ShelfFields DEF ServeRow, TaskOK, TaskStates, Server!Exists
    <3> HIDE DEF read
    <3>4. v.op = c.op /\ v.at = "bindings" /\ v.got = read /\ v.wrote = c.wrote
      BY <3>1 DEF TaskStates
    <3> HIDE DEF v
    <3> QED
      BY <1>2, <2>2, <3>1, <3>2, <3>3, <3>4 DEF WroteOK, Reached, Server!Exists
  <2> QED
    BY <2>1, <2>2
<1>7. ASSUME NEW t \in Tasks, ServeBindings(t)
      PROVE  WInv'
  <2> DEFINE c == task[t]
             bound == IF Server!Exists(c.shelf) THEN register[c.shelf].bindings ELSE {}
             v == [c EXCEPT !.at = "reply", !.status = "ok",
                            !.got.bindings = bound, !.got.resources = catalog]
  <2>1. /\ c \in TaskStates /\ c.got \in Configurations /\ c.got # NoShelf
        /\ WroteOK(register, known, c) /\ Become(t, v)
    BY <1>7 DEF ServeBindings, TaskOK, TaskStates, WInv
  <2> HIDE DEF bound
  <2>2. v.op = c.op /\ v.at = "reply" /\ v.got.version = c.got.version /\ v.wrote = c.wrote
    BY <2>1 DEF TaskStates, Configurations
  <2> HIDE DEF v
  <2> QED
    BY <1>2, <2>1, <2>2 DEF WroteOK
<1>8. ASSUME NEW t \in Tasks, ServeCreate(t)
      PROVE  WInv'
  <2> DEFINE c == task[t]
  <2>1. PICK s \in ShelfIds : Become(t, [c EXCEPT !.at = "reply", !.status = "ok", !.shelf = s])
    BY <1>8 DEF ServeCreate
  <2> DEFINE v == [c EXCEPT !.at = "reply", !.status = "ok", !.shelf = s]
  <2>2. v.op = "create" /\ Become(t, v)
    BY <1>8, <2>1 DEF ServeCreate, At, TaskOK, TaskStates
  <2> HIDE DEF v
  <2> QED
    BY <1>2, <2>2 DEF WroteOK
<1>9. ASSUME NEW t \in Tasks, Lose(t) \/ ServeAdd(t) \/ ServeList(t)
      PROVE  WInv'
  BY <1>2, <1>9, PlainWrote DEF Lose, ServeAdd, ServeList
<1>10. ASSUME NEW t \in Tasks, Answer(t)
      PROVE  WInv'
  <2>1. \/ End(t) \/ Become(t, Onward(task[t], "list"))
        \/ \E s : Select(t, s)
        \/ \E s : Become(t, Load(s, TRUE))
    BY <1>10 DEF Answer, LoadAnswered, SaveAnswered, CreateAnswered, AddFailed,
       MountListed, SaveListed, CreateListed, AddListed, ShelvesLoaded
  <2> QED
    BY <1>2, <1>3, <2>1, NewWrote, PlainWrote DEF End
<1>11. CASE UNCHANGED task
  BY <1>1, <1>11 DEF WInv
<1>12. ASSUME \/ \E v \in {"map", "catalog"} : ShowView(v)
              \/ \E b \in Bindings : Connect(b) \/ Disconnect(b) \/ OtherDeletes(b)
              \/ \E s \in ShelfIds : OtherClient(s)
              \/ UNCHANGED vars
       PROVE  WInv'
  BY <1>11, <1>12 DEF ShowView, Connect, Disconnect, OtherClient, OtherDeletes, vars
<1> QED
  BY <1>4, <1>5, <1>6, <1>7, <1>8, <1>9, <1>10, <1>12, Zenon DEF Next, Serve

\* After a save the page shows what the save committed or what somebody made of
\* it since, whatever else was committed between its statements (README.md:172).
THEOREM SaveShowsItsVersionTheorem == Spec => SaveShowsItsVersion
<1>1. Init => WInv
  <2> SUFFICES ASSUME Init PROVE WInv
    OBVIOUS
  <2>1. \A t \in Tasks : task[t].op # "save"
    BY DEF Init, Rest
  <2> QED
    BY <2>1 DEF WInv, WroteOK
<1>2. IInv /\ WInv /\ [Next]_vars => WInv'
  BY WroteStep
<1>3. IInv /\ WInv =>
        \A t \in Tasks :
          SaveAnswered(t) /\ message' = "saved" => configuration'.version >= task[t].wrote
  <2> SUFFICES ASSUME IInv, WInv, NEW t \in Tasks, SaveAnswered(t), message' = "saved"
               PROVE  configuration'.version >= task[t].wrote
    OBVIOUS
  <2>1. task[t].op = "save" /\ task[t].at = "reply" /\ task[t].status = "ok"
    BY DEF SaveAnswered, At, configurationSaveErrorMessage
  <2>2. task[t].got # NoShelf /\ WroteOK(register, known, task[t])
    BY <2>1, TypeParts DEF TaskOK, WInv
  <2>3. configuration' = task[t].got
    BY <2>1 DEF SaveAnswered, SetConfiguration
  <2> QED
    BY <2>1, <2>2, <2>3 DEF WroteOK
<1> QED
  BY <1>1, <1>2, <1>3, InvariantHolds, PTL DEF Spec, SaveShowsItsVersion
=============================================================================
