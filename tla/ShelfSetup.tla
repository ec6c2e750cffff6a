----------------------------- MODULE ShelfSetup -----------------------------
(***************************************************************************)
(* The shelf management page of the dashboard (ShelfManagement.razor): a   *)
(* list of shelves, a form with one of them or a new one, and the handlers *)
(* that save, enable and delete, each of which loads the list again.       *)
(* Handlers interleave where they await an answer, and the page stays      *)
(* usable meanwhile; only the save button is disabled.                     *)
(*                                                                         *)
(* The content of a shelf is identified with its version: every accepted   *)
(* change makes a new one (ShelfManagement).  External: the API, other     *)
(* clients of it, and Blazor, which ignores a handler that ends as         *)
(* canceled: the page lives on.                                            *)
(***************************************************************************)
EXTENDS Naturals

CONSTANTS
  Shelves,
  None,         \* no shelf; no answer yet
  Ok, Refused,  \* answers: a status of success, any failure but a time-out
  TimedOut,     \* the client of the dashboard gives up after five seconds
  Clicks,       \* handlers that run at the same time
  MaxVersion    \* bound: a shelf of this version is changed no more

Versions == [Shelves -> 0..MaxVersion]

ASSUME SetupAssumption ==
  /\ None \notin Shelves
  /\ Ok \notin {None, Refused, TimedOut} \cup Versions
  /\ MaxVersion \in Nat \ {0}

VARIABLES
  version,   \* API: version[s], 0 if there is no such shelf
  known,     \* API: the identifiers that were ever given to a shelf
  list,      \* shelves: list[s], the version of the row, 0 without a row
  model,     \* the form: Id, Version, and where its fields were copied from
  pending,   \* pendingDeleteId
  saving, loading,
  message, hasError,
  task       \* task[t]: the handler in slot t and the request it awaits

apiVars == <<version, known>>
pageVars == <<list, model, pending, saving, loading, message, hasError>>
vars == <<apiVars, pageVars, task>>

Nothing == [shelf |-> None, version |-> 0]
Contents == [shelf : Shelves \cup {None}, version : 0..MaxVersion]
Messages == {"none", "created", "updated", "toggled", "deleted", "failed"}
Forms == [shelf : Shelves \cup {None}, version : 0..MaxVersion, base : Contents]

\* What a handler sends: the shelf, the version it expects, and the content the
\* user saw (a history field).  "saves" is whether finally has saving to reset.
Idle == [step |-> "idle", saves |-> FALSE, shelf |-> None, version |-> 0,
         base |-> Nothing, answer |-> None]

Tasks ==
  [step : {"idle", "create", "update", "toggle", "delete", "list"}, saves : BOOLEAN,
   shelf : Shelves \cup {None}, version : 0..MaxVersion, base : Contents,
   answer : {None, Ok, Refused, TimedOut} \cup Versions]

NewForm == [shelf |-> None, version |-> 0, base |-> Nothing]

\* The types of the variables.
TypeOK ==
  /\ version \in Versions /\ list \in Versions /\ known \subseteq Shelves
  /\ model \in Forms
  /\ pending \in Shelves \cup {None}
  /\ saving \in BOOLEAN /\ loading \in BOOLEAN /\ hasError \in BOOLEAN
  /\ message \in Messages
  /\ task \in [Clicks -> Tasks]

\* OnInitializedAsync: the list is being loaded.
Init ==
  /\ version \in [Shelves -> {0, 1}]
  /\ known = {s \in Shelves : version[s] = 1}
  /\ list = [s \in Shelves |-> 0]
  /\ model = NewForm
  /\ pending = None
  /\ saving = FALSE /\ loading = TRUE
  /\ message = "none" /\ hasError = FALSE
  /\ \E t \in Clicks : task = [u \in Clicks |-> IF u = t THEN [Idle EXCEPT !.step = "list"]
                                                ELSE Idle]

-----------------------------------------------------------------------------
(* The API *)

Awaits(t, steps) == task[t].step \in steps /\ task[t].answer = None
Answer(t, a) == task' = [task EXCEPT ![t].answer = a]

\* POST /shelves makes a shelf with an identifier of its own.
ServeCreate(t) ==
  /\ Awaits(t, {"create"})
  /\ \E s \in Shelves \ known :
       /\ version' = [version EXCEPT ![s] = 1]
       /\ known' = known \cup {s}
  /\ Answer(t, Ok)
  /\ UNCHANGED pageVars

\* PUT, PATCH and DELETE: the expected version decides.  A shelf with history is
\* not deleted either, and one that has the flag already is not changed: the box of
\* a row whose change failed asks for the flag the shelf has.
ServeWrite(t) ==
  LET s == task[t].shelf
  IN  /\ Awaits(t, {"update", "toggle", "delete"})
      /\ IF version[s] # task[t].version
         THEN Answer(t, Refused) /\ UNCHANGED version
         ELSE IF task[t].step = "delete"
         THEN \/ version' = [version EXCEPT ![s] = 0] /\ Answer(t, Ok)
              \/ Answer(t, Refused) /\ UNCHANGED version
         ELSE /\ \/ version' = [version EXCEPT ![s] = @ + 1]
                 \/ task[t].step = "toggle" /\ UNCHANGED version
              /\ Answer(t, Ok)
      /\ UNCHANGED <<known, pageVars>>

ServeList(t) ==
  /\ Awaits(t, {"list"})
  /\ Answer(t, version)
  /\ UNCHANGED <<apiVars, pageVars>>

\* The request or its answer is lost, before or after the API has acted.
Lose(t) ==
  /\ task[t].step # "idle"
  /\ task[t].answer \notin {Refused, TimedOut}
  /\ Answer(t, Refused) \/ Answer(t, TimedOut)
  /\ UNCHANGED <<apiVars, pageVars>>

OtherClient(s) ==
  /\ version[s] > 0
  /\ \/ version[s] < MaxVersion /\ version' = [version EXCEPT ![s] = @ + 1]
     \/ version' = [version EXCEPT ![s] = 0]
  /\ UNCHANGED <<known, pageVars, task>>

-----------------------------------------------------------------------------
(* The form *)

\* StartCreate, which also clears the message.
ClearForm == model' = NewForm /\ pending' = None

\* New shelf, and Cancel.
ClickNew ==
  /\ ClearForm
  /\ message' = "none"
  /\ UNCHANGED <<apiVars, list, saving, loading, hasError, task>>

\* Edit, in a row; while loading there are no rows.
ClickEdit(s) ==
  /\ ~loading
  /\ list[s] > 0
  /\ model' = [shelf |-> s, version |-> list[s],
               base |-> [shelf |-> s, version |-> list[s]]]
  /\ pending' = None
  /\ message' = "none"
  /\ UNCHANGED <<apiVars, list, saving, loading, hasError, task>>

\* RequestDelete and CancelDelete.
ClickDelete ==
  /\ model.shelf # None
  /\ pending' = IF pending = None THEN model.shelf ELSE None
  /\ UNCHANGED <<apiVars, list, model, saving, loading, message, hasError, task>>

-----------------------------------------------------------------------------
(* Requests *)

Free(t) == task[t].step = "idle"

Send(t, step, s, v, base) ==
  task' = [task EXCEPT ![t] = [Idle EXCEPT !.step = step, !.shelf = s, !.version = v,
             !.base = base, !.saves = step \in {"create", "update"}]]

\* A mutant: a save expects the version of the row, which is newer than the form
\* if the list was loaded meanwhile.
ClickSaveLatest(t) ==
  /\ Free(t) /\ ~saving
  /\ saving' = TRUE
  /\ IF model.shelf = None
     THEN known # Shelves /\ Send(t, "create", None, 0, Nothing)
     ELSE /\ list[model.shelf] < MaxVersion
          /\ Send(t, "update", model.shelf, list[model.shelf], model.base)
  /\ UNCHANGED <<apiVars, list, model, pending, loading, message, hasError>>

\* SaveAsync up to its request.
ClickSave(t) ==
  /\ Free(t) /\ ~saving
  /\ saving' = TRUE
  /\ IF model.shelf = None
     THEN known # Shelves /\ Send(t, "create", None, 0, Nothing)
     ELSE /\ model.version < MaxVersion
          /\ Send(t, "update", model.shelf, model.version, model.base)
  /\ UNCHANGED <<apiVars, list, model, pending, loading, message, hasError>>

\* SetEnabledAsync up to its request.
ClickEnabled(t, s) ==
  /\ Free(t) /\ ~loading
  /\ list[s] \in 1..(MaxVersion - 1)
  /\ Send(t, "toggle", s, list[s], [shelf |-> s, version |-> list[s]])
  /\ UNCHANGED <<apiVars, pageVars>>

\* ConfirmDeleteAsync up to its request; the button is there while the shelf of
\* the form is the one whose deletion was requested.
ClickConfirm(t) ==
  /\ Free(t)
  /\ pending # None /\ pending = model.shelf
  /\ Send(t, "delete", pending, model.version, model.base)
  /\ UNCHANGED <<apiVars, pageVars>>

-----------------------------------------------------------------------------
(* Answers *)

Succeeds(t, steps) == task[t].step \in steps /\ task[t].answer = Ok

\* LoadAsync, as the last part of another handler.
LoadNext(t) ==
  /\ loading' = TRUE
  /\ task' = [task EXCEPT ![t] = [Idle EXCEPT !.step = "list", !.saves = task[t].saves]]

\* A mutant: there is no finally, and only the path of success is over.
ReturnUnfinished(t) ==
  /\ task' = [task EXCEPT ![t] = Idle]
  /\ saving' = IF task[t].saves /\ task[t].step = "list" THEN FALSE ELSE saving

\* The handler returns; that of a save gives the button back.
Return(t) ==
  /\ task' = [task EXCEPT ![t] = Idle]
  /\ saving' = IF task[t].saves THEN FALSE ELSE saving

\* The message is chosen by the form as it is now; then the form is cleared.
Saved(t) ==
  /\ Succeeds(t, {"create", "update"})
  /\ message' = IF model.shelf = None THEN "created" ELSE "updated"
  /\ hasError' = FALSE
  /\ ClearForm
  /\ LoadNext(t)
  /\ UNCHANGED <<apiVars, list, saving>>

Toggled(t) ==
  /\ Succeeds(t, {"toggle"})
  /\ message' = "toggled" /\ hasError' = FALSE
  /\ LoadNext(t)
  /\ UNCHANGED <<apiVars, list, model, pending, saving>>

Deleted(t) ==
  /\ Succeeds(t, {"delete"})
  /\ message' = "deleted" /\ hasError' = FALSE
  /\ ClearForm
  /\ LoadNext(t)
  /\ UNCHANGED <<apiVars, list, saving>>

\* HttpRequestException or EnsureSuccessAsync's exception; also that of LoadAsync.
Fails(t) ==
  /\ task[t].answer = Refused
  /\ message' = "failed" /\ hasError' = TRUE
  /\ loading' = IF task[t].step = "list" THEN FALSE ELSE loading
  /\ Return(t)
  /\ UNCHANGED <<apiVars, list, model, pending>>

\* The rows are shown, and hasError is reset whatever message is there.
Listed(t) ==
  /\ task[t].step = "list"
  /\ task[t].answer \notin {None, Refused, TimedOut}
  /\ list' = task[t].answer
  /\ hasError' = FALSE
  /\ loading' = FALSE
  /\ Return(t)
  /\ UNCHANGED <<apiVars, model, pending, message>>

\* TaskCanceledException, which no filter of this page takes: only the finally
\* parts run, and the handler ends as canceled.
GivesUp(t) ==
  /\ task[t].answer = TimedOut
  /\ loading' = IF task[t].step = "list" THEN FALSE ELSE loading
  /\ Return(t)
  /\ UNCHANGED <<apiVars, list, model, pending, message, hasError>>

-----------------------------------------------------------------------------
Serve(t) == ServeCreate(t) \/ ServeWrite(t) \/ ServeList(t)
Continue(t) == Saved(t) \/ Toggled(t) \/ Deleted(t) \/ Fails(t) \/ Listed(t) \/ GivesUp(t)

Next ==
  \/ ClickNew \/ ClickDelete
  \/ \E s \in Shelves : ClickEdit(s) \/ OtherClient(s)
  \/ \E t \in Clicks :
       \/ ClickSave(t) \/ ClickConfirm(t)
       \/ \E s \in Shelves : ClickEnabled(t, s)
       \/ Serve(t) \/ Lose(t) \/ Continue(t)

Spec == Init /\ [][Next]_vars

\* A request is answered or given up, and its handler goes on.
FairSpec ==
  /\ Spec
  /\ \A t \in Clicks : WF_vars(Serve(t) \/ Lose(t)) /\ WF_vars(Continue(t))

-----------------------------------------------------------------------------
\* Whatever the list shows by now, and whatever other handlers are at, a change or
\* a deletion that the API accepts replaces the very content its user had in the
\* form or the row (Version of ShelfFormModel, from Edit to the request).
NothingUnseenIsOverwritten ==
  [][ \A t \in Clicks :
        task[t].step \in {"update", "toggle", "delete"}
          /\ task[t].answer = None /\ task'[t].answer = Ok
        => task[t].base = [shelf |-> task[t].shelf,
                           version |-> version[task[t].shelf]] ]_vars

\* Save shelf is given back, also when the save or the list after it is given up,
\* and whatever other handlers do meanwhile (finally of SaveAsync).
SavingEnds == saving ~> ~saving

=============================================================================
