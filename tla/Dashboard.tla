----------------------------- MODULE Dashboard ------------------------------
(***************************************************************************)
(* The status page of the dashboard (Home.razor): a refresh of four        *)
(* requests in a row, run by a timer, by the Refresh button and after an   *)
(* acknowledgement, and never twice at a time; and two handlers that run   *)
(* beside it, Inspect and Acknowledge.  Handlers share the fields of the   *)
(* component and interleave where they await an answer.                    *)
(*                                                                         *)
(* External, as the page uses it: the API, which answers a request when it *)
(* likes or not at all, and Blazor, which ends the circuit of a page one   *)
(* of whose event handlers throws, but ignores one that ends as canceled.  *)
(* What is left out: names, times and the texts of the rows, leaving the   *)
(* page, and rendering: the variables are the fields of the component,     *)
(* which Blazor draws when a handler of a click waits or returns, and not  *)
(* when the timer's refresh has assigned them.                             *)
(***************************************************************************)
EXTENDS Naturals

CONSTANTS
  Shelves,
  None,        \* no shelf, no answer yet
  Failed,      \* the call throws HttpRequestException: no connection, or a
               \* status of failure
  TimedOut,    \* the call throws TaskCanceledException: no answer in five seconds
  Clicks,      \* clicks whose handlers run at the same time
  Timer,       \* the task of RunRefreshLoopAsync
  MaxEvents,   \* bound: observations devices post
  MaxClicks,   \* bound: clicks on the page
  MaxLosses    \* bound: requests that fail

ASSUME DashboardAssumption ==
  /\ None \notin Shelves /\ None \notin {Failed, TimedOut}
  /\ Failed # TimedOut
  /\ Timer \notin Clicks
  /\ MaxEvents \in Nat /\ MaxClicks \in Nat /\ MaxLosses \in Nat

VARIABLES
  count,      \* API: count[s], the observations of shelf s
  alert,      \* API: alert[s], the newest alert of shelf s
  summaries,  \* summaries[s]: the count of its row; 0 for a shelf without one
  selected,   \* selectedShelfId
  history,    \* the shelf whose history is there, and its length
  alerts,     \* the alert queue: alerts[s] as alert[s] was
  error,      \* the banner "Cannot reach the SmartShelf API" is set
  refreshing, \* refreshLock is taken, which is when loading is set
  task,       \* task[t]: the handler in slot t and the request it awaits
  alive,      \* the circuit of the page
  clicks, losses

apiVars == <<count, alert>>
dataVars == <<summaries, selected, history, alerts, error>>
vars == <<apiVars, dataVars, refreshing, task, alive, clicks, losses>>

Tasks == Clicks \cup {Timer}
NoAlert == [id |-> 0, status |-> "Resolved"]
NoHistory == [of |-> None, length |-> 0]
Alerts == [id : 0..MaxEvents, status : {"Active", "Acknowledged", "Resolved"}]
Histories == [of : Shelves \cup {None}, length : 0..MaxEvents]

\* What the API answers to the request a handler is at.
Answers ==
  [idle |-> {}, summaries |-> [Shelves -> 0..MaxEvents], shelves |-> {"ok"},
   alerts |-> [Shelves -> Alerts], history |-> Histories,
   inspect |-> Histories, acknowledge |-> {"ok"}]

Steps == DOMAIN Answers
Thrown == {Failed, TimedOut}
Handlers == [step : Steps, shelf : Shelves \cup {None}, alert : 0..MaxEvents,
             answer : {None} \cup Thrown \cup UNION {Answers[x] : x \in Steps}]

Idle == [step |-> "idle", shelf |-> None, alert |-> 0, answer |-> None]

\* The types of the variables.
TypeOK ==
  /\ count \in [Shelves -> 0..MaxEvents]
  /\ alert \in [Shelves -> Alerts]
  /\ summaries \in [Shelves -> 0..MaxEvents]
  /\ selected \in Shelves \cup {None}
  /\ history \in Histories
  /\ alerts \in [Shelves -> Alerts]
  /\ error \in BOOLEAN /\ refreshing \in BOOLEAN /\ alive \in BOOLEAN
  /\ task \in [Tasks -> Handlers]
  /\ \A t \in Tasks : task[t].answer \in {None} \cup Thrown \cup Answers[task[t].step]
  /\ clicks \in 0..MaxClicks /\ losses \in 0..MaxLosses

\* OnInitializedAsync: the first refresh is under way, and the loop follows it.
Init ==
  /\ count = [s \in Shelves |-> 0]
  /\ alert = [s \in Shelves |-> NoAlert]
  /\ summaries = [s \in Shelves |-> 0]
  /\ selected = None
  /\ history = NoHistory
  /\ alerts = [s \in Shelves |-> NoAlert]
  /\ error = FALSE
  /\ refreshing = TRUE
  /\ task = [t \in Tasks |-> IF t = Timer THEN [Idle EXCEPT !.step = "summaries"] ELSE Idle]
  /\ alive = TRUE
  /\ clicks = 0 /\ losses = 0

-----------------------------------------------------------------------------
(* Requests *)

At(t, step) == alive /\ task[t].step = step
Awaits(t) == task[t].step # "idle"
Refreshes(t) == task[t].step \in {"summaries", "shelves", "alerts", "history"}

Send(t, step) == task' = [task EXCEPT ![t] = [Idle EXCEPT !.step = step]]
SendFor(t, step, s, a) ==
  task' = [task EXCEPT ![t] = [Idle EXCEPT !.step = step, !.shelf = s, !.alert = a]]
Return(t) == task' = [task EXCEPT ![t] = Idle]

\* The API reads what a request asks for, at once and at any later time.
Serve(t) ==
  /\ Awaits(t)
  /\ task[t].answer = None
  /\ LET s == task[t].shelf
     IN  task' = [task EXCEPT ![t].answer =
           CASE task[t].step = "summaries" -> count
             [] task[t].step = "alerts" -> alert
             [] task[t].step \in {"history", "inspect"} -> [of |-> s, length |-> count[s]]
             [] task[t].step = "acknowledge" ->
                  IF alert[s].id = task[t].alert /\ alert[s].status # "Resolved"
                  THEN "ok" ELSE Failed
             [] OTHER -> "ok"]
  /\ alert' = IF task[t].step = "acknowledge" /\ task'[t].answer = "ok"
              THEN [alert EXCEPT ![task[t].shelf].status = "Acknowledged"]
              ELSE alert
  /\ UNCHANGED <<count, dataVars, refreshing, alive, clicks, losses>>

\* A request fails or times out before the API reads anything, or its answer is
\* lost.
Lose(t) ==
  /\ Awaits(t)
  /\ task[t].answer \notin Thrown
  /\ losses < MaxLosses
  /\ losses' = losses + 1
  /\ \E x \in Thrown : task' = [task EXCEPT ![t].answer = x]
  /\ UNCHANGED <<apiVars, dataVars, refreshing, alive, clicks>>

Answered(t, step) ==
  At(t, step) /\ task[t].answer \notin {None} \cup Thrown

\* An observation is recorded, with the alert transition of SmartShelfStore.
Observe(s, healthy) ==
  /\ count[s] < MaxEvents
  /\ count' = [count EXCEPT ![s] = @ + 1]
  /\ alert' = [alert EXCEPT ![s] =
       IF healthy THEN [@ EXCEPT !.status = "Resolved"]
       ELSE IF @.status = "Resolved" THEN [id |-> @.id + 1, status |-> "Active"]
       ELSE @]
  /\ UNCHANGED <<dataVars, refreshing, task, alive, clicks, losses>>

-----------------------------------------------------------------------------
(* RefreshAsync *)

\* A mutant: the lock is not asked.
RefreshAnyway(t) ==
  /\ refreshing' = TRUE
  /\ Send(t, "summaries")

\* A refresh begins, or is skipped because another one is under way.
Refresh(t) ==
  IF refreshing THEN Return(t) /\ UNCHANGED refreshing
  ELSE refreshing' = TRUE /\ Send(t, "summaries")

\* The timer ticks; the loop does nothing else while a refresh of its own runs.
Tick ==
  /\ At(Timer, "idle")
  /\ Refresh(Timer)
  /\ UNCHANGED <<apiVars, dataVars, alive, clicks, losses>>

GotSummaries(t) ==
  /\ Answered(t, "summaries")
  /\ summaries' = task[t].answer
  /\ Send(t, "shelves")
  /\ UNCHANGED <<apiVars, selected, history, alerts, error, refreshing, alive, clicks, losses>>

\* The shelves; and the first of the summaries, in the API's order, is selected
\* if no shelf is.
GotShelves(t) ==
  /\ Answered(t, "shelves")
  /\ IF selected = None /\ \E s \in Shelves : summaries[s] > 0
     THEN selected' \in {s \in Shelves : summaries[s] > 0}
     ELSE UNCHANGED selected
  /\ Send(t, "alerts")
  /\ UNCHANGED <<apiVars, summaries, history, alerts, error, refreshing, alive, clicks, losses>>

\* A refresh is over, and the lock released.
Complete(t, failed) ==
  /\ Return(t)
  /\ error' = failed
  /\ refreshing' = FALSE

\* A mutant: a refresh leaves the history to Inspect.
GotAlertsOnly(t) ==
  /\ Answered(t, "alerts")
  /\ alerts' = task[t].answer
  /\ Complete(t, FALSE)
  /\ UNCHANGED <<apiVars, summaries, selected, history, alive, clicks, losses>>

\* The alerts; then LoadHistoryAsync, which asks for the shelf selected now.
GotAlerts(t) ==
  /\ Answered(t, "alerts")
  /\ alerts' = task[t].answer
  /\ IF selected = None THEN history' = NoHistory /\ Complete(t, FALSE)
     ELSE /\ SendFor(t, "history", selected, 0)
          /\ UNCHANGED <<history, error, refreshing>>
  /\ UNCHANGED <<apiVars, summaries, selected, alive, clicks, losses>>

\* The answer is taken, whichever shelf is selected by now.
GotHistory(t) ==
  /\ Answered(t, "history")
  /\ history' = task[t].answer
  /\ Complete(t, FALSE)
  /\ UNCHANGED <<apiVars, summaries, selected, alerts, alive, clicks, losses>>

\* A mutant: the failure of a refresh leaves the lock taken.
RefreshFailsLocked(t) ==
  /\ alive /\ Refreshes(t) /\ task[t].answer \in Thrown
  /\ Return(t)
  /\ error' = TRUE
  /\ UNCHANGED <<apiVars, summaries, selected, history, alerts, refreshing, alive, clicks, losses>>

\* HttpRequestException or TaskCanceledException: what was loaded stays, and
\* the loop goes on.
RefreshFails(t) ==
  /\ alive /\ Refreshes(t) /\ task[t].answer \in Thrown
  /\ Complete(t, TRUE)
  /\ UNCHANGED <<apiVars, summaries, selected, history, alerts, alive, clicks, losses>>

-----------------------------------------------------------------------------
(* Clicks *)

Click(t) ==
  /\ At(t, "idle")
  /\ t \in Clicks
  /\ clicks < MaxClicks
  /\ clicks' = clicks + 1

\* The Refresh button.  It is disabled if loading was set when it was drawn last,
\* which a refresh of the timer does not do: it may be clicked during one.
ClickRefresh(t) ==
  /\ Click(t)
  /\ Refresh(t)
  /\ UNCHANGED <<apiVars, dataVars, alive, losses>>

\* SelectShelfAsync.
ClickInspect(t, s) ==
  /\ Click(t)
  /\ summaries[s] > 0
  /\ selected' = s
  /\ SendFor(t, "inspect", s, 0)
  /\ UNCHANGED <<apiVars, summaries, history, alerts, error, refreshing, alive, losses>>

GotInspected(t) ==
  /\ Answered(t, "inspect")
  /\ history' = task[t].answer
  /\ Return(t)
  /\ UNCHANGED <<apiVars, summaries, selected, alerts, error, refreshing, alive, clicks, losses>>

\* AcknowledgeAlertAsync, of a row with a button.
ClickAcknowledge(t, s) ==
  /\ Click(t)
  /\ alerts[s].status = "Active"
  /\ SendFor(t, "acknowledge", s, alerts[s].id)
  /\ UNCHANGED <<apiVars, dataVars, refreshing, alive, losses>>

Acknowledged(t) ==
  /\ At(t, "acknowledge")
  /\ task[t].answer = "ok"
  /\ Refresh(t)
  /\ UNCHANGED <<apiVars, dataVars, alive, clicks, losses>>

\* The client gives up in the handler of a click: it ends as canceled, whatever
\* the API has done, without the history or the refresh it was for.
GivesUp(t) ==
  /\ At(t, "inspect") \/ At(t, "acknowledge")
  /\ task[t].answer = TimedOut
  /\ Return(t)
  /\ UNCHANGED <<apiVars, dataVars, refreshing, alive, clicks, losses>>

\* LoadHistoryAsync or EnsureSuccessStatusCode throws HttpRequestException in the
\* handler of a click, where nothing catches it.
CircuitEnds(t) ==
  /\ At(t, "inspect") \/ At(t, "acknowledge")
  /\ task[t].answer = Failed
  /\ alive' = FALSE
  /\ UNCHANGED <<apiVars, dataVars, refreshing, task, clicks, losses>>

-----------------------------------------------------------------------------
Continue(t) ==
  \/ GotSummaries(t) \/ GotShelves(t) \/ GotAlerts(t) \/ GotHistory(t)
  \/ RefreshFails(t) \/ GotInspected(t) \/ Acknowledged(t)
  \/ GivesUp(t) \/ CircuitEnds(t)

Next ==
  \/ Tick
  \/ \E t \in Tasks : Serve(t) \/ Lose(t) \/ Continue(t)
  \/ \E t \in Clicks :
       \/ ClickRefresh(t)
       \/ \E s \in Shelves : ClickInspect(t, s) \/ ClickAcknowledge(t, s)
  \/ \E s \in Shelves, healthy \in BOOLEAN : Observe(s, healthy)

Spec == Init /\ [][Next]_vars

\* The timer ticks, requests that are not lost are answered (the client gives up
\* after five seconds, which is Lose), and continuations run.  Nobody has to
\* click, and no request has to fail.
FairSpec ==
  /\ Spec
  /\ WF_vars(Tick)
  /\ \A t \in Tasks : WF_vars(Serve(t)) /\ WF_vars(Continue(t))

-----------------------------------------------------------------------------
\* Refreshes do not overlap, so the counts never go back, however late an answer
\* is (refreshLock).
SummariesMoveForward ==
  [][ \A s \in Shelves : summaries[s] =< summaries'[s] ]_vars

\* Refreshes that fail or are skipped are made up for, and so is an acknowledgement
\* whose answer was lost: while its circuit is up, the page ends with the numbers
\* and alerts of the API in its fields, and without the banner, once nothing changes
\* any more.
PageCatchesUp ==
  <>[](alive => summaries = count /\ alerts = alert /\ ~error)

\* The answer to an earlier Inspect may arrive after a later one, and the later one
\* may time out under a selection that is made already, but not for good: the
\* history ends as that of the selected shelf.
HistoryFollowsSelection ==
  <>[](alive => IF selected = None THEN history = NoHistory
                ELSE history = [of |-> selected, length |-> count[selected]])

=============================================================================
