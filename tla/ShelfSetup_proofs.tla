------------------------- MODULE ShelfSetup_proofs --------------------------
(***************************************************************************)
(* The shelf management page, for any number of shelves, versions and      *)
(* handlers that run at the same time.  What makes a save safe is that the *)
(* fields of the form and the version it expects always come from the same *)
(* row: the form keeps them together whatever list is loaded meanwhile,    *)
(* and a request takes both from the form or both from a row.              *)
(***************************************************************************)
EXTENDS ShelfSetup, TLAPS

Writes == {"update", "toggle", "delete"}

\* Content and version of x, a form or a request, are of the same row.
Together(x) == x.base = [shelf |-> x.shelf, version |-> x.version]

\* What a request in flight carries.
TaskInv(c) ==
  /\ c.step \in Writes => c.shelf \in Shelves /\ Together(c)
  /\ c.step \in {"update", "toggle"} => c.version < MaxVersion
  /\ c.step = "list" => c.answer # Ok

\* The inductive invariant.
SInv ==
  /\ TypeOK
  /\ model.shelf # None => Together(model)
  /\ \A t \in Clicks : TaskInv(task[t])

-----------------------------------------------------------------------------
(* Requests *)

\* A slot without a handler, and an empty form.
LEMMA IdleFits ==
  /\ Idle \in Tasks /\ TaskInv(Idle)
  /\ NewForm \in Forms /\ NewForm.shelf = None
  /\ Nothing \in Contents
  BY SetupAssumption DEF Idle, Tasks, Nothing, Contents, NewForm, Forms, TaskInv, Writes

\* A request that is sent.
LEMMA SentFits ==
  ASSUME NEW step \in {"create", "update", "toggle", "delete"}, NEW s \in Shelves \cup {None},
         NEW v \in 0..MaxVersion, NEW base \in Contents, NEW saves \in BOOLEAN,
         step \in Writes => s \in Shelves /\ base = [shelf |-> s, version |-> v],
         step \in {"update", "toggle"} => v < MaxVersion
  PROVE  LET c == [Idle EXCEPT !.step = step, !.shelf = s, !.version = v,
                     !.base = base, !.saves = saves]
         IN  c \in Tasks /\ TaskInv(c)
<1> DEFINE c == [Idle EXCEPT !.step = step, !.shelf = s, !.version = v,
                   !.base = base, !.saves = saves]
<1>1. c \in Tasks
  BY IdleFits DEF Tasks
<1>2. /\ c.step = step /\ c.shelf = s /\ c.version = v /\ c.base = base
      /\ c.answer = None
  BY DEF Idle
<1>3. TaskInv(c)
  BY <1>2, SetupAssumption DEF TaskInv, Together, Writes
<1>4. QED
  BY <1>1, <1>3

\* The list that another handler loads when it is done.
LEMMA ListFits ==
  ASSUME NEW saves \in BOOLEAN
  PROVE  LET c == [Idle EXCEPT !.step = "list", !.saves = saves]
         IN  c \in Tasks /\ TaskInv(c)
  BY IdleFits, SetupAssumption DEF Tasks, TaskInv, Idle, Writes

\* An answer leaves what was asked as it was.
LEMMA AnsweredFits ==
  ASSUME NEW c \in Tasks, TaskInv(c), NEW a \in {None, Ok, Refused, TimedOut} \cup Versions,
         c.step = "list" => a # Ok
  PROVE  LET d == [c EXCEPT !.answer = a] IN  d \in Tasks /\ TaskInv(d) /\ d.answer = a
<1> DEFINE d == [c EXCEPT !.answer = a]
<1>1. d \in Tasks
  BY DEF Tasks
<1>2. /\ d.step = c.step /\ d.shelf = c.shelf /\ d.version = c.version /\ d.base = c.base
      /\ d.answer = a
  BY DEF Tasks
<1>3. TaskInv(d)
  BY <1>2 DEF TaskInv, Together, Writes
<1>4. QED
  BY <1>1, <1>2, <1>3

\* One slot changes; none turns its answer into Ok but the one that got it.
LEMMA TaskSet ==
  ASSUME SInv, NEW t \in Clicks, NEW c \in Tasks, TaskInv(c),
         task' = [task EXCEPT ![t] = c]
  PROVE  /\ task' \in [Clicks -> Tasks]
         /\ \A u \in Clicks : TaskInv(task[u])'
         /\ task'[t] = c
         /\ \A u \in Clicks \ {t} : task'[u] = task[u]
<1>1. /\ task' \in [Clicks -> Tasks]
      /\ \A u \in Clicks : task'[u] = IF u = t THEN c ELSE task[u]
  BY DEF SInv, TypeOK
<1>2. \A u \in Clicks : TaskInv(task'[u])
  BY <1>1 DEF SInv
<1>3. QED
  BY <1>1, <1>2

\* What the form and the API show stays well formed whatever the handlers are at.
Page ==
  /\ version \in Versions /\ list \in Versions /\ known \subseteq Shelves
  /\ model \in Forms
  /\ pending \in Shelves \cup {None}
  /\ saving \in BOOLEAN /\ loading \in BOOLEAN /\ hasError \in BOOLEAN
  /\ message \in Messages
  /\ model.shelf # None => Together(model)

-----------------------------------------------------------------------------
(* Steps *)

\* An accepted change found the version its user saw.
AcceptedSeen ==
  \A t \in Clicks :
    task[t].step \in Writes /\ task[t].answer = None /\ task'[t].answer = Ok
      => task[t].base = [shelf |-> task[t].shelf, version |-> version[task[t].shelf]]

\* A slot that changes otherwise than to Ok.
LEMMA Plain ==
  ASSUME SInv, NEW t \in Clicks, NEW c \in Tasks, TaskInv(c), c.answer # Ok,
         task' = [task EXCEPT ![t] = c], Page'
  PROVE  SInv' /\ AcceptedSeen
<1>1. /\ task' \in [Clicks -> Tasks]
      /\ \A u \in Clicks : TaskInv(task[u])'
      /\ task'[t] = c
      /\ \A u \in Clicks \ {t} : task'[u] = task[u]
  BY TaskSet
<1>2. SInv'
  BY <1>1 DEF SInv, TypeOK, Page
<1>3. AcceptedSeen
  BY <1>1, SetupAssumption DEF AcceptedSeen
<1>4. QED
  BY <1>2, <1>3

\* A slot that is sent from, or returns.
LEMMA Sent ==
  ASSUME SInv, NEW t \in Clicks, NEW step \in {"create", "update", "toggle", "delete"},
         NEW s \in Shelves \cup {None}, NEW v \in 0..MaxVersion, NEW base \in Contents,
         step \in Writes => s \in Shelves /\ base = [shelf |-> s, version |-> v],
         step \in {"update", "toggle"} => v < MaxVersion,
         Send(t, step, s, v, base), Page'
  PROVE  SInv' /\ AcceptedSeen
<1> DEFINE sent(saves) == [Idle EXCEPT !.step = step, !.shelf = s, !.version = v,
                             !.base = base, !.saves = saves]
           mine == step \in {"create", "update"}
<1>1. \A saves \in BOOLEAN : sent(saves) \in Tasks /\ TaskInv(sent(saves))
  BY SentFits
<1>2. /\ task' = [task EXCEPT ![t] = sent(mine)]
      /\ sent(mine).answer = None
  BY DEF Send, Idle
<1>3. mine \in BOOLEAN
  OBVIOUS
<1> HIDE DEF sent, mine
<1>4. QED
  BY <1>1, <1>2, <1>3, Plain, SetupAssumption

\* A slot whose handler returns.
LEMMA Returned ==
  ASSUME SInv, NEW t \in Clicks, Return(t), Page'
  PROVE  SInv' /\ AcceptedSeen
<1>1. task' = [task EXCEPT ![t] = Idle] /\ Idle.answer # Ok
  BY SetupAssumption DEF Return, Idle
<1>2. QED
  BY <1>1, IdleFits, Plain

\* The API answers: what it accepts has the version the request expects.
LEMMA ServePreserves ==
  ASSUME SInv, NEW t \in Clicks, Serve(t) \/ Lose(t)
  PROVE  SInv' /\ AcceptedSeen
<1>1. task[t] \in Tasks /\ TaskInv(task[t])
  BY DEF SInv, TypeOK
<1> DEFINE with(a) == [task[t] EXCEPT !.answer = a]
<1>2. \A a \in {None, Ok, Refused, TimedOut} \cup Versions :
        (task[t].step = "list" => a # Ok)
          => with(a) \in Tasks /\ TaskInv(with(a)) /\ with(a).answer = a
  BY <1>1, AnsweredFits
<1>3. ASSUME NEW a, Answer(t, a)
      PROVE  task' = [task EXCEPT ![t] = with(a)]
  BY <1>3 DEF Answer
<1> HIDE DEF with
<1>4. CASE ServeCreate(t)
  <2>1. task[t].step = "create" /\ Answer(t, Ok) /\ Page'
    <3>1. PICK s \in Shelves \ known : version' = [version EXCEPT ![s] = 1] /\ known' = known \cup {s}
      BY <1>4 DEF ServeCreate
    <3>2. version' \in Versions
      BY <3>1, SetupAssumption DEF SInv, TypeOK, Versions
    <3>3. QED
      BY <1>4, <3>1, <3>2 DEF ServeCreate, Awaits, SInv, TypeOK, Page, pageVars, Together
  <2>2. /\ task' \in [Clicks -> Tasks]
        /\ \A u \in Clicks : TaskInv(task[u])'
        /\ \A u \in Clicks \ {t} : task'[u] = task[u]
    BY <2>1, <1>2, <1>3, TaskSet
  <2>3. QED
    BY <2>1, <2>2, SetupAssumption DEF SInv, TypeOK, Page, AcceptedSeen, Writes
<1>5. CASE ServeWrite(t)
  <2> DEFINE s == task[t].shelf
  <2>1. task[t].step \in Writes /\ s \in Shelves
    BY <1>5, <1>1 DEF ServeWrite, Awaits, TaskInv, Writes
  <2>2. CASE Answer(t, Refused) /\ UNCHANGED version
    <3>1. Page'
      BY <1>5, <2>2 DEF ServeWrite, SInv, TypeOK, Page, pageVars, Together
    <3>2. QED
      BY <3>1, <2>2, <1>2, <1>3, Plain, SetupAssumption
  <2>3. CASE /\ version[s] = task[t].version
             /\ Answer(t, Ok)
             /\ \/ version' = [version EXCEPT ![s] = 0]
                \/ /\ task[t].step \in {"update", "toggle"}
                   /\ version' = [version EXCEPT ![s] = @ + 1]
                \/ UNCHANGED version
    <3>1. version' \in Versions
      BY <2>1, <2>3, <1>1, SetupAssumption DEF SInv, TypeOK, Versions, TaskInv, Tasks
    <3>2. Page'
      BY <1>5, <3>1 DEF ServeWrite, SInv, TypeOK, Page, pageVars, Together
    <3>3. /\ task' \in [Clicks -> Tasks]
          /\ \A u \in Clicks : TaskInv(task[u])'
          /\ \A u \in Clicks \ {t} : task'[u] = task[u]
      BY <2>1, <2>3, <1>2, <1>3, TaskSet DEF Writes
    <3>4. task[t].base = [shelf |-> task[t].shelf, version |-> version[task[t].shelf]]
      BY <2>1, <2>3, <1>1 DEF TaskInv, Together
    <3>5. QED
      BY <3>2, <3>3, <3>4, SetupAssumption DEF SInv, TypeOK, Page, AcceptedSeen
  <2>4. QED
    BY <2>1, <2>2, <2>3, <1>5 DEF ServeWrite, Writes
<1>6. CASE ServeList(t)
  <2>1. /\ Answer(t, version) /\ version \in Versions /\ Page'
        /\ task[t].step = "list" /\ task[t].step \notin Writes
    BY <1>6 DEF ServeList, Awaits, SInv, TypeOK, Page, apiVars, pageVars, Together, Writes
  <2>2. version # Ok
    BY <2>1, SetupAssumption
  <2>3. QED
    BY <2>1, <2>2, <1>2, <1>3, Plain
<1>7. CASE Lose(t)
  <2>1. /\ Answer(t, Refused) \/ Answer(t, TimedOut)
        /\ Page'
    BY <1>7 DEF Lose, SInv, TypeOK, Page, apiVars, pageVars, Together
  <2>2. QED
    BY <2>1, <1>2, <1>3, Plain, SetupAssumption
<1>8. QED
  BY <1>4, <1>5, <1>6, <1>7 DEF Serve

\* What the user and other clients do, up to a request.
LEMMA ClicksPreserve ==
  ASSUME SInv,
         \/ ClickNew \/ ClickDelete
         \/ \E s \in Shelves : ClickEdit(s) \/ OtherClient(s)
         \/ \E t \in Clicks : ClickSave(t) \/ ClickConfirm(t) \/ \E s \in Shelves : ClickEnabled(t, s)
  PROVE  SInv' /\ AcceptedSeen
<1>1. CASE ClickNew \/ ClickDelete \/ \E s \in Shelves : ClickEdit(s) \/ OtherClient(s)
  <2>1. task' = task
    BY <1>1 DEF ClickNew, ClickDelete, ClickEdit, OtherClient
  <2>2. AcceptedSeen
    BY <2>1, SetupAssumption DEF AcceptedSeen
  <2>3. CASE ClickNew \/ ClickDelete
    <3>1. Page'
      BY <2>3, IdleFits DEF ClickNew, ClickDelete, ClearForm, SInv, TypeOK, Page, Messages,
                            apiVars, Together, Forms
    <3>2. QED
      BY <3>1, <2>1, <2>2 DEF SInv, TypeOK, Page
  <2>4. ASSUME NEW s \in Shelves, ClickEdit(s)
        PROVE  SInv'
    <3>1. list[s] \in 0..MaxVersion
      BY DEF SInv, TypeOK, Versions
    <3>2. model' \in Forms /\ Together(model')
      BY <2>4, <3>1 DEF ClickEdit, Forms, Contents, Together
    <3>3. QED
      BY <3>2, <2>1, <2>4 DEF ClickEdit, SInv, TypeOK, Messages, apiVars
  <2>5. ASSUME NEW s \in Shelves, OtherClient(s)
        PROVE  SInv'
    <3>1. version' \in Versions
      BY <2>5, SetupAssumption DEF OtherClient, SInv, TypeOK, Versions
    <3>2. QED
      BY <3>1, <2>1, <2>5 DEF OtherClient, SInv, TypeOK, pageVars, Together
  <2>6. QED
    BY <1>1, <2>2, <2>3, <2>4, <2>5
<1>2. ASSUME NEW t \in Clicks, ClickSave(t)
      PROVE  SInv' /\ AcceptedSeen
  <2>1. Page'
    BY <1>2 DEF ClickSave, SInv, TypeOK, Page, apiVars, Together
  <2>2. CASE model.shelf = None
    <3>1. /\ Send(t, "create", None, 0, Nothing)
          /\ 0 \in 0..MaxVersion /\ Nothing \in Contents
          /\ "create" \notin Writes
      BY <1>2, <2>2, IdleFits, SetupAssumption DEF ClickSave, Writes
    <3>2. QED
      BY <3>1, <2>1, Sent
  <2>3. CASE model.shelf # None
    <3>1. Send(t, "update", model.shelf, model.version, model.base) /\ model.version < MaxVersion
      BY <1>2, <2>3 DEF ClickSave
    <3>2. Together(model) /\ model \in Forms
      BY <2>3 DEF SInv, TypeOK
    <3>3. QED
      BY <3>1, <3>2, <2>1, <2>3, Sent DEF Forms, Together
  <2>4. QED
    BY <2>2, <2>3
<1>3. ASSUME NEW t \in Clicks, ClickConfirm(t)
      PROVE  SInv' /\ AcceptedSeen
  <2>1. Page'
    BY <1>3 DEF ClickConfirm, SInv, TypeOK, Page, apiVars, pageVars, Together
  <2>2. Together(model) /\ model \in Forms /\ model.shelf # None
    BY <1>3 DEF SInv, TypeOK, ClickConfirm
  <2>3. Send(t, "delete", model.shelf, model.version, model.base)
    BY <1>3 DEF ClickConfirm
  <2>4. QED
    BY <2>1, <2>2, <2>3, Sent DEF Forms, Together
<1>4. ASSUME NEW t \in Clicks, NEW s \in Shelves, ClickEnabled(t, s)
      PROVE  SInv' /\ AcceptedSeen
  <2>1. Page'
    BY <1>4 DEF ClickEnabled, SInv, TypeOK, Page, apiVars, pageVars, Together
  <2>2. /\ Send(t, "toggle", s, list[s], [shelf |-> s, version |-> list[s]])
        /\ list[s] \in 0..MaxVersion /\ list[s] < MaxVersion
        /\ [shelf |-> s, version |-> list[s]] \in Contents
    BY <1>4, SetupAssumption DEF ClickEnabled, Contents
  <2>3. QED
    BY <2>1, <2>2, Sent
<1>5. QED
  BY <1>1, <1>2, <1>3, <1>4

\* Handlers go on with their answers: they send nothing but a request for the list.
LEMMA ContinuePreserves ==
  ASSUME SInv, NEW t \in Clicks, Continue(t)
  PROVE  SInv' /\ AcceptedSeen
<1>1. task[t] \in Tasks /\ TaskInv(task[t])
  BY DEF SInv, TypeOK
<1>2. CASE Saved(t) \/ Toggled(t) \/ Deleted(t)
  <2>1. Page'
    BY <1>2, IdleFits DEF Saved, Toggled, Deleted, ClearForm, LoadNext, SInv, TypeOK, Page, Messages,
                          apiVars, Together
  <2>2. LoadNext(t)
    BY <1>2 DEF Saved, Toggled, Deleted
  <2> DEFINE c == [Idle EXCEPT !.step = "list", !.saves = task[t].saves]
  <2>3. c \in Tasks /\ TaskInv(c) /\ c.answer # Ok /\ task' = [task EXCEPT ![t] = c]
    BY <1>1, <2>2, ListFits, SetupAssumption DEF LoadNext, Tasks, Idle
  <2> HIDE DEF c
  <2>4. QED
    BY <2>1, <2>3, Plain
<1>3. CASE Fails(t) \/ Listed(t) \/ GivesUp(t)
  <2>1. Return(t) /\ saving' \in BOOLEAN
    BY <1>3 DEF Fails, Listed, GivesUp, Return, SInv, TypeOK
  <2>2. CASE Fails(t) \/ GivesUp(t)
    <3>1. Page'
      BY <2>1, <2>2 DEF Fails, GivesUp, SInv, TypeOK, Page, Messages, apiVars, Together
    <3>2. QED
      BY <3>1, <2>1, Returned
  <2>3. CASE Listed(t)
    <3>1. task[t].answer \in Versions
      BY <1>1, <2>3 DEF Listed, TaskInv, Tasks
    <3>2. Page'
      BY <3>1, <2>1, <2>3 DEF Listed, SInv, TypeOK, Page, apiVars, Together
    <3>3. QED
      BY <3>2, <2>1, Returned
  <2>4. QED
    BY <1>3, <2>2, <2>3
<1>4. QED
  BY <1>2, <1>3 DEF Continue

-----------------------------------------------------------------------------
\* The page that loads its first list.
LEMMA SInvInit == Init => SInv
<1> SUFFICES ASSUME Init
             PROVE  SInv
  OBVIOUS
<1>1. PICK t \in Clicks : task = [u \in Clicks |-> IF u = t THEN [Idle EXCEPT !.step = "list"] ELSE Idle]
  BY DEF Init
<1> DEFINE first == [Idle EXCEPT !.step = "list"]
<1>2. first \in Tasks /\ TaskInv(first)
  BY IdleFits, SetupAssumption DEF Tasks, TaskInv, Idle, Writes
<1> HIDE DEF first
<1>3. task \in [Clicks -> Tasks] /\ \A u \in Clicks : TaskInv(task[u])
  <2>1. task = [u \in Clicks |-> IF u = t THEN first ELSE Idle]
    BY <1>1 DEF first
  <2>2. QED
    BY <2>1, <1>2, IdleFits
<1>4. version \in Versions /\ list \in Versions /\ known \subseteq Shelves
  BY SetupAssumption DEF Init, Versions
<1>5. QED
  BY <1>3, <1>4, IdleFits DEF Init, SInv, TypeOK, Messages

\* Every step keeps the invariant and accepts only what was seen.
LEMMA SInvStep == SInv /\ [Next]_vars => SInv' /\ AcceptedSeen
<1> SUFFICES ASSUME SInv, [Next]_vars
             PROVE  SInv' /\ AcceptedSeen
  OBVIOUS
<1>1. CASE UNCHANGED vars
  <2>1. SInv'
    BY <1>1 DEF vars, apiVars, pageVars, SInv, TypeOK, Together
  <2>2. AcceptedSeen
    BY <1>1, SetupAssumption DEF vars, AcceptedSeen
  <2>3. QED
    BY <2>1, <2>2
<1>2. QED
  BY <1>1, ServePreserves, ClicksPreserve, ContinuePreserves DEF Next

\* Every reachable state of the page is well typed.
THEOREM SetupTypeCorrect == Spec => []TypeOK
<1>1. SInv => TypeOK
  BY DEF SInv
<1>2. QED
  BY <1>1, SInvInit, SInvStep, PTL DEF Spec

\* Whatever list was loaded meanwhile and whatever other handlers are at, the API
\* accepts a change or a deletion only of the content its user saw: a request has
\* the version of its content (SInv), and the API compares it with the stored one.
THEOREM NothingUnseenTheorem == Spec => NothingUnseenIsOverwritten
<1>1. AcceptedSeen =>
        \A t \in Clicks :
          task[t].step \in {"update", "toggle", "delete"}
            /\ task[t].answer = None /\ task'[t].answer = Ok
          => task[t].base = [shelf |-> task[t].shelf,
                             version |-> version[task[t].shelf]]
  BY DEF AcceptedSeen, Writes
<1>2. QED
  BY <1>1, SInvInit, SInvStep, PTL DEF Spec, NothingUnseenIsOverwritten
=============================================================================
