-------------------------- MODULE Dashboard_proofs --------------------------
(***************************************************************************)
(* The dashboard in the browser: the status page, for any number of        *)
(* shelves, handlers, observations and failures, and the reconnect dialog, *)
(* for any number of retries that overlap.  They share no state.           *)
(*                                                                         *)
(* The counts on the page move forward because only one handler at a time  *)
(* is in a refresh (Alone): the answer it takes was read after the counts  *)
(* on the page were, and nobody takes another one meanwhile (Newer).  The  *)
(* dialog never waits for nothing because whoever ends a retry registers   *)
(* the listener again, restores the circuit, goes on to the resume or has  *)
(* the page reloaded (NoDeadEnd).                                          *)
(***************************************************************************)
EXTENDS Dashboard, ReconnectModal, TLAPS

RefreshSteps == {"summaries", "shelves", "alerts", "history"}

\* What a handler holds fits the request it is at.
Fits(c) ==
  /\ c \in Handlers
  /\ c.answer \in {None} \cup Thrown \cup Answers[c.step]
  /\ c.step \in {"history", "inspect", "acknowledge"} => c.shelf \in Shelves

\* Whoever is in a refresh has the lock, and is the only one.
Alone ==
  /\ \A t \in Tasks : task[t].step \in RefreshSteps => refreshing
  /\ \A t, u \in Tasks :
       task[t].step \in RefreshSteps /\ task[u].step \in RefreshSteps => t = u

\* Counts that were read are not older than those on the page.
Newer(c) ==
  c.step = "summaries" /\ c.answer \notin {None} \cup Thrown =>
    \A s \in Shelves : summaries[s] =< c.answer[s] /\ c.answer[s] =< count[s]

\* The numbers of the API and of the page.
Counts ==
  /\ count \in [Shelves -> 0..MaxEvents]
  /\ alert \in [Shelves -> Alerts]
  /\ summaries \in [Shelves -> 0..MaxEvents]
  /\ \A s \in Shelves : alert[s].id =< count[s] /\ summaries[s] =< count[s]

\* What else is on the page.
Shown ==
  /\ selected \in Shelves \cup {None}
  /\ history \in Histories
  /\ alerts \in [Shelves -> Alerts]
  /\ error \in BOOLEAN /\ refreshing \in BOOLEAN /\ alive \in BOOLEAN
  /\ clicks \in 0..MaxClicks /\ losses \in 0..MaxLosses

\* The inductive invariant.
DInv ==
  /\ Counts /\ Shown
  /\ task \in [Tasks -> Handlers]
  /\ \A t \in Tasks : Fits(task[t]) /\ Newer(task[t])
  /\ Alone

-----------------------------------------------------------------------------
(* Handlers *)

\* What the answers are, request by request.
LEMMA AnswersAre ==
  /\ Steps = {"idle", "summaries", "shelves", "alerts", "history", "inspect", "acknowledge"}
  /\ Answers["idle"] = {} /\ Answers["summaries"] = [Shelves -> 0..MaxEvents]
  /\ Answers["shelves"] = {"ok"} /\ Answers["alerts"] = [Shelves -> Alerts]
  /\ Answers["history"] = Histories /\ Answers["inspect"] = Histories
  /\ Answers["acknowledge"] = {"ok"}
  BY DEF Answers, Steps

\* An answer that fits makes a handler.
LEMMA AnswerFits ==
  ASSUME NEW c \in Handlers, NEW x \in {None} \cup Thrown \cup Answers[c.step]
  PROVE  /\ [c EXCEPT !.answer = x] \in Handlers
         /\ [c EXCEPT !.answer = x].answer = x
         /\ [c EXCEPT !.answer = x].step = c.step /\ [c EXCEPT !.answer = x].shelf = c.shelf
<1>1. x \in {None} \cup Thrown \cup UNION {Answers[y] : y \in Steps}
  BY DEF Handlers
<1>2. QED
  BY <1>1 DEF Handlers

\* A handler that has sent a request, or has returned.
LEMMA SentFits ==
  ASSUME NEW step \in Steps, NEW s \in Shelves \cup {None}, NEW a \in 0..MaxEvents,
         step \in {"history", "inspect", "acknowledge"} => s \in Shelves,
         NEW c, c = [Idle EXCEPT !.step = step, !.shelf = s, !.alert = a]
  PROVE  Fits(c) /\ Newer(c) /\ c.step = step
  BY DEF Idle, Fits, Newer, Handlers

\* One that has sent a request about no shelf, and one that has returned.
LEMMA SentFitsAlone ==
  ASSUME NEW step \in {"summaries", "shelves", "alerts"}
  PROVE  /\ Fits([Idle EXCEPT !.step = step]) /\ Newer([Idle EXCEPT !.step = step])
         /\ [Idle EXCEPT !.step = step].step = step
         /\ Fits(Idle) /\ Newer(Idle) /\ Idle.step = "idle"
<1>1. 0 \in 0..MaxEvents
  BY DashboardAssumption
<1>2. QED
  BY <1>1, AnswersAre DEF Idle, Fits, Newer, Handlers

\* One handler goes on, with counts that have not changed.
LEMMA OneMoves ==
  ASSUME DInv, NEW t \in Tasks, NEW d, Fits(d), Newer(d),
         task' = [task EXCEPT ![t] = d], UNCHANGED <<count, summaries>>,
         refreshing' \in BOOLEAN,
         \/ d.step \in RefreshSteps /\ task[t].step \in RefreshSteps /\ refreshing' = refreshing
         \/ d.step \in RefreshSteps /\ ~refreshing /\ refreshing'
         \/ d.step \notin RefreshSteps /\ task[t].step \in RefreshSteps
         \/ d.step \notin RefreshSteps /\ refreshing' = refreshing
  PROVE  /\ task' \in [Tasks -> Handlers]
         /\ \A u \in Tasks : Fits(task'[u]) /\ Newer(task[u])'
         /\ Alone'
<1>1. d \in Handlers /\ task \in [Tasks -> Handlers]
  BY DEF DInv, Fits
<1>2. task' \in [Tasks -> Handlers] /\ \A u \in Tasks : task'[u] = IF u = t THEN d ELSE task[u]
  BY <1>1
<1>3. \A u \in Tasks : Fits(task'[u])
  BY <1>2 DEF DInv
<1>4. \A u \in Tasks : Newer(task[u])'
  BY <1>2 DEF DInv, Newer
<1>5. Alone'
  BY <1>2 DEF DInv, Alone
<1>6. QED
  BY <1>2, <1>3, <1>4, <1>5

-----------------------------------------------------------------------------
(* The API *)

\* At first nothing is counted, and the timer refreshes.
LEMMA DashboardInit == Init => DInv
<1> SUFFICES ASSUME Init
             PROVE  DInv
  OBVIOUS
<1>1. 0 \in 0..MaxEvents /\ 0 \in 0..MaxClicks /\ 0 \in 0..MaxLosses
  BY DashboardAssumption
<1>2. NoAlert \in Alerts /\ NoAlert.id = 0 /\ NoHistory \in Histories
  BY <1>1 DEF NoAlert, Alerts, NoHistory, Histories
<1>3. Counts /\ Shown
  <2>1. count \in [Shelves -> 0..MaxEvents] /\ summaries \in [Shelves -> 0..MaxEvents]
    BY <1>1 DEF Init
  <2>2. alert \in [Shelves -> Alerts] /\ alerts \in [Shelves -> Alerts]
    BY <1>2 DEF Init
  <2>3. \A s \in Shelves : alert[s].id = 0 /\ count[s] = 0 /\ summaries[s] = 0
    BY <1>2 DEF Init
  <2>4. Counts
    BY <2>1, <2>2, <2>3 DEF Counts
  <2>5. Shown
    BY <1>1, <1>2, <2>2 DEF Init, Shown
  <2>6. QED
    BY <2>4, <2>5
<1> DEFINE first == [Idle EXCEPT !.step = "summaries"]
<1>4. Fits(first) /\ Newer(first) /\ first.step \in RefreshSteps /\ Fits(Idle) /\ Newer(Idle)
      /\ Idle.step \notin RefreshSteps
  BY SentFitsAlone DEF RefreshSteps
<1>5. first \in Handlers /\ Idle \in Handlers
  BY <1>4 DEF Fits
<1>6. task = [t \in Tasks |-> IF t = Timer THEN first ELSE Idle] /\ refreshing = TRUE
  BY DEF Init
<1> HIDE DEF first
<1>7. task \in [Tasks -> Handlers] /\ \A t \in Tasks : Fits(task[t]) /\ Newer(task[t])
  BY <1>4, <1>5, <1>6
<1>8. Alone
  BY <1>4, <1>6 DEF Alone
<1>9. QED
  BY <1>3, <1>7, <1>8 DEF DInv

\* What a request reads is of its kind, and counts are as new as can be.
LEMMA ServeStep ==
  ASSUME DInv, NEW t \in Tasks, Serve(t)
  PROVE  DInv'
<1> DEFINE c == task[t]
<1>1. c \in Handlers /\ Fits(c) /\ c.step \in Steps /\ c.step # "idle"
  BY DEF DInv, Handlers, Serve, Awaits
<1>2. \A s \in Shelves : /\ count[s] \in 0..MaxEvents /\ summaries[s] \in 0..MaxEvents
                         /\ summaries[s] =< count[s]
  BY DEF DInv, Counts
<1>3. PICK x \in {None} \cup Thrown \cup Answers[c.step] :
        /\ task' = [task EXCEPT ![t].answer = x]
        /\ c.step = "summaries" => x = count
  <2>1. CASE c.step = "summaries"
    <3>1. task' = [task EXCEPT ![t].answer = count]
      BY <2>1 DEF Serve
    <3>2. count \in Answers[c.step]
      BY <2>1, AnswersAre DEF DInv, Counts
    <3>3. QED
      BY <3>1, <3>2
  <2>2. CASE c.step = "alerts"
    <3>1. task' = [task EXCEPT ![t].answer = alert]
      BY <2>2 DEF Serve
    <3>2. alert \in Answers[c.step]
      BY <2>2, AnswersAre DEF DInv, Counts
    <3>3. QED
      BY <2>2, <3>1, <3>2
  <2>3. CASE c.step \in {"history", "inspect"}
    <3>1. task' = [task EXCEPT ![t].answer = [of |-> c.shelf, length |-> count[c.shelf]]]
      BY <2>3 DEF Serve
    <3>2. c.shelf \in Shelves
      BY <1>1, <2>3 DEF Fits
    <3>3. [of |-> c.shelf, length |-> count[c.shelf]] \in Histories
      BY <1>2, <3>2 DEF Histories
    <3>4. [of |-> c.shelf, length |-> count[c.shelf]] \in Answers[c.step]
      BY <2>3, <3>3, AnswersAre
    <3>5. QED
      BY <2>3, <3>1, <3>4
  <2>4. CASE c.step = "acknowledge"
    <3>1. \E x \in {"ok", Failed} : task' = [task EXCEPT ![t].answer = x]
      BY <2>4 DEF Serve
    <3>2. Failed \in Thrown
      BY DEF Thrown
    <3>3. "ok" \in Answers[c.step]
      BY <2>4, AnswersAre
    <3>4. QED
      BY <2>4, <3>1, <3>2, <3>3
  <2>5. CASE c.step = "shelves"
    <3>1. task' = [task EXCEPT ![t].answer = "ok"]
      BY <2>5 DEF Serve
    <3>2. "ok" \in Answers[c.step]
      BY <2>5, AnswersAre
    <3>3. QED
      BY <2>5, <3>1, <3>2
  <2>6. QED
    BY <1>1, <2>1, <2>2, <2>3, <2>4, <2>5, AnswersAre
<1> DEFINE d == [c EXCEPT !.answer = x]
<1>4. d \in Handlers /\ d.answer = x /\ d.step = c.step /\ d.shelf = c.shelf
  BY <1>1, AnswerFits
<1>5. task' = [task EXCEPT ![t] = d]
  BY <1>3
<1> HIDE DEF d
<1>6. Fits(d)
  BY <1>1, <1>4 DEF Fits
<1>7. Newer(d)
  BY <1>2, <1>3, <1>4 DEF Newer
<1>8. UNCHANGED <<count, dataVars, refreshing, alive, clicks, losses>>
  BY DEF Serve
<1>9. /\ task' \in [Tasks -> Handlers] /\ \A u \in Tasks : Fits(task'[u]) /\ Newer(task[u])'
      /\ Alone'
  <2>1. UNCHANGED <<count, summaries, refreshing>> /\ refreshing \in BOOLEAN
    BY <1>8 DEF dataVars, DInv, Shown
  <2>2. CASE d.step \in RefreshSteps
    BY <1>4, <1>5, <1>6, <1>7, <2>1, <2>2, OneMoves
  <2>3. CASE d.step \notin RefreshSteps
    BY <1>4, <1>5, <1>6, <1>7, <2>1, <2>3, OneMoves
  <2>4. QED
    BY <2>2, <2>3
<1>10. Counts'
  <2>1. alert' = alert \/ \E s \in Shelves : alert' = [alert EXCEPT ![s].status = "Acknowledged"]
    BY <1>1 DEF Serve, Fits
  <2>2. alert' \in [Shelves -> Alerts] /\ \A s \in Shelves : alert'[s].id = alert[s].id
    <3>1. \A a \in Alerts : /\ [a EXCEPT !.status = "Acknowledged"] \in Alerts
                           /\ [a EXCEPT !.status = "Acknowledged"].id = a.id
      BY DEF Alerts
    <3>2. alert \in [Shelves -> Alerts]
      BY DEF DInv, Counts
    <3>3. ASSUME NEW s \in Shelves, alert' = [alert EXCEPT ![s].status = "Acknowledged"]
          PROVE  alert' \in [Shelves -> Alerts] /\ \A q \in Shelves : alert'[q].id = alert[q].id
      <4>1. alert' = [alert EXCEPT ![s] = [alert[s] EXCEPT !.status = "Acknowledged"]]
        BY <3>3
      <4>2. QED
        BY <3>1, <3>2, <4>1
    <3>4. QED
      BY <2>1, <3>2, <3>3
  <2>3. QED
    BY <1>8, <2>2 DEF DInv, Counts, dataVars
<1>11. QED
  BY <1>8, <1>9, <1>10 DEF DInv, Shown, dataVars

\* A request that fails tells nothing.
LEMMA LoseStep ==
  ASSUME DInv, NEW t \in Tasks, Lose(t)
  PROVE  DInv'
<1> DEFINE c == task[t]
<1>0. PICK x \in Thrown : task' = [task EXCEPT ![t].answer = x]
  BY DEF Lose
<1> DEFINE d == [c EXCEPT !.answer = x]
<1>1. c \in Handlers /\ Fits(c) /\ task' = [task EXCEPT ![t] = d]
  BY <1>0 DEF DInv
<1>2. d \in Handlers /\ d.answer = x /\ d.step = c.step /\ d.shelf = c.shelf
  BY <1>0, <1>1, AnswerFits
<1> HIDE DEF d
<1>3. Fits(d) /\ Newer(d)
  BY <1>0, <1>1, <1>2 DEF Fits, Newer
<1>4. UNCHANGED <<apiVars, dataVars, refreshing, alive, clicks>> /\ losses' \in 0..MaxLosses
  <2>1. losses \in 0..MaxLosses /\ losses < MaxLosses /\ losses' = losses + 1
    BY DEF DInv, Shown, Lose
  <2>2. losses' \in 0..MaxLosses
    BY <2>1, DashboardAssumption
  <2>3. QED
    BY <2>2 DEF Lose
<1>5. /\ task' \in [Tasks -> Handlers] /\ \A u \in Tasks : Fits(task'[u]) /\ Newer(task[u])'
      /\ Alone'
  <2>1. UNCHANGED <<count, summaries, refreshing>> /\ refreshing \in BOOLEAN
    BY <1>4 DEF apiVars, dataVars, DInv, Shown
  <2>2. CASE d.step \in RefreshSteps
    BY <1>1, <1>2, <1>3, <2>1, <2>2, OneMoves
  <2>3. CASE d.step \notin RefreshSteps
    BY <1>1, <1>2, <1>3, <2>1, <2>3, OneMoves
  <2>4. QED
    BY <2>2, <2>3
<1>6. QED
  BY <1>4, <1>5 DEF DInv, Counts, Shown, apiVars, dataVars

\* Counts and alerts only grow, so what was read before stays between.
LEMMA ObserveStep ==
  ASSUME DInv, NEW s \in Shelves, NEW healthy \in BOOLEAN, Observe(s, healthy)
  PROVE  DInv'
<1>1. /\ count \in [Shelves -> 0..MaxEvents] /\ alert \in [Shelves -> Alerts]
      /\ summaries \in [Shelves -> 0..MaxEvents] /\ MaxEvents \in Nat
      /\ \A q \in Shelves : alert[q].id =< count[q] /\ summaries[q] =< count[q]
  BY DashboardAssumption DEF DInv, Counts
<1>2. /\ count[s] < MaxEvents /\ count' = [count EXCEPT ![s] = count[s] + 1]
      /\ UNCHANGED <<dataVars, refreshing, task, alive, clicks, losses>>
  BY DEF Observe
<1>3. count' \in [Shelves -> 0..MaxEvents] /\ \A q \in Shelves : count[q] =< count'[q]
  <2>1. count[s] + 1 \in 0..MaxEvents
    BY <1>1, <1>2
  <2>2. QED
    BY <1>1, <1>2, <2>1
<1>4. PICK a \in Alerts : alert' = [alert EXCEPT ![s] = a] /\ a.id =< count[s] + 1
  <2> DEFINE b == alert[s]
  <2>1. b \in Alerts /\ b.id \in 0..MaxEvents /\ b.id =< count[s] /\ count[s] \in 0..MaxEvents
    BY <1>1 DEF Alerts
  <2>2. b.id =< count[s] + 1 /\ b.id + 1 =< count[s] + 1 /\ b.id + 1 \in 0..MaxEvents
    BY <1>1, <1>2, <2>1
  <2>3. CASE healthy
    <3>1. alert' = [alert EXCEPT ![s] = [b EXCEPT !.status = "Resolved"]]
      BY <2>3 DEF Observe
    <3>2. [b EXCEPT !.status = "Resolved"] \in Alerts /\ [b EXCEPT !.status = "Resolved"].id = b.id
      BY <2>1 DEF Alerts
    <3>3. QED
      BY <2>2, <3>1, <3>2
  <2>4. CASE ~healthy /\ b.status = "Resolved"
    <3>1. alert' = [alert EXCEPT ![s] = [id |-> b.id + 1, status |-> "Active"]]
      BY <2>4 DEF Observe
    <3>2. [id |-> b.id + 1, status |-> "Active"] \in Alerts
      BY <2>2 DEF Alerts
    <3>3. QED
      BY <2>2, <3>1, <3>2
  <2>5. CASE ~healthy /\ b.status # "Resolved"
    <3>1. alert' = [alert EXCEPT ![s] = b]
      BY <2>5 DEF Observe
    <3>2. QED
      BY <2>1, <2>2, <3>1
  <2>6. QED
    BY <2>3, <2>4, <2>5
<1>5. Counts'
  <2>1. summaries' = summaries
    BY <1>2 DEF dataVars
  <2>2. \A q \in Shelves : alert'[q] = IF q = s THEN a ELSE alert[q]
    BY <1>1, <1>4
  <2>3. \A q \in Shelves : alert'[q].id =< count'[q]
    <3>1. ASSUME NEW q \in Shelves, q # s
          PROVE  alert'[q].id =< count'[q]
      BY <1>1, <1>2, <2>2, <3>1
    <3>2. alert'[s].id =< count'[s]
      BY <1>1, <1>2, <1>4, <2>2
    <3>3. QED
      BY <3>1, <3>2
  <2>4. alert' \in [Shelves -> Alerts]
    BY <1>1, <1>4
  <2>5. \A q \in Shelves : summaries[q] =< count'[q]
    <3>1. \A q \in Shelves : summaries[q] \in Nat /\ count[q] \in Nat /\ count'[q] \in Nat
      BY <1>1, <1>3
    <3>2. QED
      BY <1>1, <1>3, <3>1
  <2>6. QED
    BY <1>1, <1>3, <2>1, <2>3, <2>4, <2>5 DEF Counts
<1>6. \A t \in Tasks : Newer(task[t])'
  <2> SUFFICES ASSUME NEW t \in Tasks, task[t].step = "summaries",
                      task[t].answer \notin {None} \cup Thrown, NEW q \in Shelves
               PROVE  summaries[q] =< task[t].answer[q] /\ task[t].answer[q] =< count'[q]
    BY <1>2 DEF Newer, dataVars
  <2>1. summaries[q] =< task[t].answer[q] /\ task[t].answer[q] =< count[q]
    BY DEF DInv, Newer
  <2>2. task[t].answer \in [Shelves -> 0..MaxEvents]
    BY AnswersAre DEF DInv, Fits
  <2>3. task[t].answer[q] \in Nat /\ count[q] \in Nat /\ count'[q] \in Nat
    BY <1>1, <1>3, <2>2
  <2>4. QED
    BY <1>3, <2>1, <2>3
<1>7. QED
  BY <1>2, <1>5, <1>6 DEF DInv, Shown, Alone, dataVars

-----------------------------------------------------------------------------
(* The page *)

\* A refresh begins, or is skipped.
LEMMA RefreshStep ==
  ASSUME DInv, NEW t \in Tasks, task[t].step \notin RefreshSteps, Refresh(t),
         UNCHANGED <<apiVars, dataVars, alive, losses>>, clicks' \in 0..MaxClicks
  PROVE  DInv' /\ summaries' = summaries
<1>1. UNCHANGED <<count, summaries>> /\ refreshing \in BOOLEAN
  BY DEF apiVars, dataVars, DInv, Shown
<1>2. PICK d : /\ Fits(d) /\ Newer(d) /\ task' = [task EXCEPT ![t] = d]
               /\ \/ d.step \in RefreshSteps /\ ~refreshing /\ refreshing' = TRUE
                  \/ d.step \notin RefreshSteps /\ refreshing' = refreshing
  <2> DEFINE sent == [Idle EXCEPT !.step = "summaries"]
  <2>1. /\ Fits(sent) /\ Newer(sent) /\ sent.step \in RefreshSteps
        /\ Fits(Idle) /\ Newer(Idle) /\ Idle.step \notin RefreshSteps
    BY SentFitsAlone DEF RefreshSteps
  <2>2. CASE refreshing
    BY <2>1, <2>2 DEF Refresh, Return
  <2>3. CASE ~refreshing
    <3>1. task' = [task EXCEPT ![t] = sent] /\ refreshing' = TRUE
      BY <2>3 DEF Refresh, Send
    <3> HIDE DEF sent
    <3>2. QED
      BY <2>1, <2>3, <3>1
  <2>4. QED
    BY <1>1, <2>2, <2>3
<1>3. refreshing' \in BOOLEAN
  BY <1>1, <1>2
<1>4. /\ task' \in [Tasks -> Handlers] /\ \A u \in Tasks : Fits(task'[u]) /\ Newer(task[u])'
      /\ Alone'
  <2>1. CASE d.step \in RefreshSteps /\ ~refreshing /\ refreshing' = TRUE
    BY <1>1, <1>2, <1>3, <2>1, OneMoves
  <2>2. CASE d.step \notin RefreshSteps /\ refreshing' = refreshing
    BY <1>1, <1>2, <1>3, <2>2, OneMoves
  <2>3. QED
    BY <1>2, <2>1, <2>2
<1>5. QED
  BY <1>1, <1>3, <1>4 DEF DInv, Counts, Shown, apiVars, dataVars

\* A handler that is not in a refresh asks for something, or returns.
LEMMA AsideStep ==
  ASSUME DInv, NEW t \in Tasks, NEW d, Fits(d), Newer(d), d.step \notin RefreshSteps,
         task' = [task EXCEPT ![t] = d],
         UNCHANGED <<apiVars, summaries, alerts, error, refreshing, alive, losses>>,
         selected' \in Shelves \cup {None}, history' \in Histories, clicks' \in 0..MaxClicks
  PROVE  DInv' /\ summaries' = summaries
<1>1. UNCHANGED <<count, summaries>> /\ refreshing' = refreshing /\ refreshing' \in BOOLEAN
  BY DEF apiVars, DInv, Shown
<1>2. /\ task' \in [Tasks -> Handlers] /\ \A u \in Tasks : Fits(task'[u]) /\ Newer(task[u])'
      /\ Alone'
  BY <1>1, OneMoves
<1>3. QED
  BY <1>1, <1>2 DEF DInv, Counts, Shown, apiVars

\* Clicks and the timer.
LEMMA ClickStep ==
  ASSUME DInv,
         \/ Tick
         \/ \E t \in Clicks : \/ ClickRefresh(t)
                              \/ \E s \in Shelves : ClickInspect(t, s) \/ ClickAcknowledge(t, s)
  PROVE  DInv' /\ summaries' = summaries
<1>0. clicks \in 0..MaxClicks /\ MaxClicks \in Nat /\ MaxEvents \in Nat
  BY DashboardAssumption DEF DInv, Shown
<1>1. CASE Tick
  <2>1. Timer \in Tasks /\ task[Timer].step \notin RefreshSteps
    BY <1>1 DEF Tick, At, Tasks, RefreshSteps
  <2>2. QED
    BY <1>0, <1>1, <2>1, RefreshStep DEF Tick
<1>2. ASSUME NEW t \in Clicks, Click(t)
      PROVE  t \in Tasks /\ task[t].step \notin RefreshSteps /\ clicks' \in 0..MaxClicks
  BY <1>0, <1>2 DEF Click, At, Tasks, RefreshSteps
<1>3. ASSUME NEW t \in Clicks, ClickRefresh(t)
      PROVE  DInv' /\ summaries' = summaries
  BY <1>2, <1>3, RefreshStep DEF ClickRefresh
<1>4. ASSUME NEW t \in Clicks, NEW s \in Shelves, NEW a \in 0..MaxEvents,
             NEW step \in {"inspect", "acknowledge"}, Click(t), SendFor(t, step, s, a),
             UNCHANGED <<apiVars, summaries, history, alerts, error, refreshing, alive, losses>>,
             selected' \in {selected, s}
      PROVE  DInv' /\ summaries' = summaries
  <2>0. PICK d : d = [Idle EXCEPT !.step = step, !.shelf = s, !.alert = a]
    OBVIOUS
  <2>1. Fits(d) /\ Newer(d) /\ d.step = step
    <3>1. step \in Steps /\ s \in Shelves \cup {None}
      BY AnswersAre
    <3>2. CASE step = "inspect"
      BY <2>0, <3>1, <3>2, SentFits
    <3>3. CASE step = "acknowledge"
      BY <2>0, <3>1, <3>3, SentFits
    <3>4. QED
      BY <3>2, <3>3
  <2>2. task' = [task EXCEPT ![t] = d]
    BY <1>4, <2>0 DEF SendFor
  <2>3. d.step \notin RefreshSteps
    BY <2>1 DEF RefreshSteps
  <2>4. selected' \in Shelves \cup {None} /\ history' \in Histories
    BY <1>4 DEF DInv, Shown
  <2>5. QED
    BY <1>2, <1>4, <2>1, <2>2, <2>3, <2>4, AsideStep
<1>5. ASSUME NEW t \in Clicks, NEW s \in Shelves, ClickInspect(t, s)
      PROVE  DInv' /\ summaries' = summaries
  BY <1>0, <1>4, <1>5 DEF ClickInspect
<1>6. ASSUME NEW t \in Clicks, NEW s \in Shelves, ClickAcknowledge(t, s)
      PROVE  DInv' /\ summaries' = summaries
  <2>1. alerts[s].id \in 0..MaxEvents
    BY DEF DInv, Shown, Alerts
  <2>2. QED
    BY <1>4, <1>6, <2>1 DEF ClickAcknowledge, dataVars
<1>7. QED
  BY <1>1, <1>3, <1>5, <1>6

\* The answers of a refresh.  Only that of the summaries moves the counts.
LEMMA RefreshAnswered ==
  ASSUME DInv, NEW t \in Tasks,
         GotSummaries(t) \/ GotShelves(t) \/ GotAlerts(t) \/ GotHistory(t) \/ RefreshFails(t)
  PROVE  DInv' /\ \A s \in Shelves : summaries[s] =< summaries'[s]
<1> DEFINE c == task[t]
<1>1. /\ Fits(c) /\ Newer(c) /\ Idle.step \notin RefreshSteps /\ Fits(Idle) /\ Newer(Idle)
      /\ refreshing \in BOOLEAN /\ \A s \in Shelves : summaries[s] \in Nat
  BY SentFitsAlone DEF DInv, Shown, Counts, RefreshSteps
<1>2. c.step \in RefreshSteps
  BY DEF GotSummaries, GotShelves, GotAlerts, GotHistory, RefreshFails, Answered, At,
         Refreshes, RefreshSteps
<1>3. ASSUME NEW d, Fits(d), task' = [task EXCEPT ![t] = d], d.step # "summaries",
             UNCHANGED <<count, alert, summaries>>,
             \/ d.step \in RefreshSteps /\ refreshing' = refreshing
             \/ d.step \notin RefreshSteps /\ refreshing' = FALSE,
             Shown'
      PROVE  DInv' /\ \A s \in Shelves : summaries[s] =< summaries'[s]
  <2>1. Newer(d) /\ refreshing' \in BOOLEAN
    BY <1>1, <1>3 DEF Newer
  <2>2. /\ task' \in [Tasks -> Handlers] /\ \A u \in Tasks : Fits(task'[u]) /\ Newer(task[u])'
        /\ Alone'
    <3>1. CASE d.step \in RefreshSteps
      BY <1>2, <1>3, <2>1, <3>1, OneMoves
    <3>2. CASE d.step \notin RefreshSteps
      BY <1>2, <1>3, <2>1, <3>2, OneMoves
    <3>3. QED
      BY <3>1, <3>2
  <2>3. QED
    BY <1>1, <1>3, <2>2 DEF DInv, Counts
<1>4. CASE GotSummaries(t)
  <2> DEFINE d == [Idle EXCEPT !.step = "shelves"]
  <2>1. Fits(d) /\ Newer(d) /\ d.step = "shelves" /\ d.step \in RefreshSteps
    BY SentFitsAlone DEF RefreshSteps
  <2>2. /\ task' = [task EXCEPT ![t] = d] /\ summaries' = c.answer /\ c.step = "summaries"
        /\ c.answer \notin {None} \cup Thrown
        /\ UNCHANGED <<apiVars, selected, history, alerts, error, refreshing, alive, clicks, losses>>
    BY <1>4 DEF GotSummaries, Answered, At, Send
  <2> HIDE DEF d
  <2>3. /\ summaries' \in [Shelves -> 0..MaxEvents]
        /\ \A s \in Shelves : summaries[s] =< summaries'[s] /\ summaries'[s] =< count[s]
    BY <1>1, <2>2, AnswersAre DEF Fits, Newer
  <2>4. Counts' /\ Shown'
    BY <2>2, <2>3 DEF DInv, Counts, Shown, apiVars
  <2>5. task' \in [Tasks -> Handlers] /\ \A u \in Tasks : task'[u] = IF u = t THEN d ELSE task[u]
    BY <2>1, <2>2 DEF DInv, Fits
  <2>6. \A u \in Tasks : Fits(task'[u])
    BY <2>1, <2>5 DEF DInv
  <2>7. \A u \in Tasks : task'[u].step # "summaries"
    BY <1>2, <2>1, <2>2, <2>5 DEF DInv, Alone, RefreshSteps
  <2>8. \A u \in Tasks : Newer(task[u])'
    BY <2>7 DEF Newer
  <2>9. Alone'
    BY <1>2, <2>1, <2>2, <2>5 DEF DInv, Alone
  <2>10. QED
    BY <2>3, <2>4, <2>5, <2>6, <2>8, <2>9 DEF DInv
<1>5. CASE GotShelves(t)
  <2> DEFINE d == [Idle EXCEPT !.step = "alerts"]
  <2>1. Fits(d) /\ d.step = "alerts" /\ d.step \in RefreshSteps
    BY SentFitsAlone DEF RefreshSteps
  <2>2. task' = [task EXCEPT ![t] = d] /\ UNCHANGED <<count, alert, summaries, refreshing>>
    BY <1>5 DEF GotShelves, Send, apiVars
  <2> HIDE DEF d
  <2>3. Shown'
    <3>1. selected' \in Shelves \cup {None}
      BY <1>5 DEF GotShelves, DInv, Shown
    <3>2. QED
      BY <1>5, <3>1 DEF GotShelves, DInv, Shown
  <2>4. QED
    BY <1>3, <2>1, <2>2, <2>3
<1>6. CASE GotAlerts(t)
  <2>1. /\ alerts' \in [Shelves -> Alerts] /\ UNCHANGED <<count, alert, summaries>>
        /\ UNCHANGED <<selected, alive, clicks, losses>>
    BY <1>1, <1>6, AnswersAre DEF GotAlerts, Answered, At, Fits, apiVars
  <2>2. CASE selected = None
    <3>1. task' = [task EXCEPT ![t] = Idle] /\ refreshing' = FALSE /\ error' = FALSE
          /\ history' = NoHistory
      BY <1>6, <2>2 DEF GotAlerts, Complete, Return
    <3>2. NoHistory \in Histories
      BY DashboardAssumption DEF NoHistory, Histories
    <3>3. Shown'
      BY <2>1, <3>1, <3>2 DEF DInv, Shown
    <3>4. Idle.step # "summaries"
      BY SentFitsAlone
    <3>5. QED
      BY <1>1, <1>3, <2>1, <3>1, <3>3, <3>4
  <2>3. CASE selected # None
    <3>0. PICK d : d = [Idle EXCEPT !.step = "history", !.shelf = selected, !.alert = 0]
      OBVIOUS
    <3>1. selected \in Shelves /\ 0 \in 0..MaxEvents
      BY <2>3, DashboardAssumption DEF DInv, Shown
    <3>2. Fits(d) /\ d.step = "history"
      <4>1. "history" \in Steps /\ selected \in Shelves \cup {None}
        BY <3>1, AnswersAre
      <4>2. QED
        BY <3>0, <3>1, <4>1, SentFits
    <3>3. task' = [task EXCEPT ![t] = d] /\ UNCHANGED <<history, error, refreshing>>
      BY <1>6, <2>3, <3>0 DEF GotAlerts, SendFor
    <3>4. Shown'
      BY <2>1, <3>3 DEF DInv, Shown
    <3>5. d.step \in RefreshSteps
      BY <3>2 DEF RefreshSteps
    <3>6. QED
      BY <1>3, <2>1, <3>2, <3>3, <3>4, <3>5
  <2>4. QED
    BY <2>2, <2>3
<1>7. CASE GotHistory(t)
  <2>1. /\ history' \in Histories /\ UNCHANGED <<count, alert, summaries>>
        /\ UNCHANGED <<selected, alerts, alive, clicks, losses>>
        /\ task' = [task EXCEPT ![t] = Idle] /\ refreshing' = FALSE /\ error' = FALSE
    BY <1>1, <1>7, AnswersAre DEF GotHistory, Answered, At, Fits, apiVars, Complete, Return
  <2>2. Shown'
    BY <2>1 DEF DInv, Shown
  <2>3. Idle.step # "summaries"
    BY SentFitsAlone
  <2>4. QED
    BY <1>1, <1>3, <2>1, <2>2, <2>3
<1>8. CASE RefreshFails(t)
  <2>1. /\ UNCHANGED <<count, alert, summaries>>
        /\ UNCHANGED <<selected, history, alerts, alive, clicks, losses>>
        /\ task' = [task EXCEPT ![t] = Idle] /\ refreshing' = FALSE /\ error' = TRUE
    BY <1>8 DEF RefreshFails, apiVars, Complete, Return
  <2>2. Shown'
    BY <2>1 DEF DInv, Shown
  <2>3. Idle.step # "summaries"
    BY SentFitsAlone
  <2>4. QED
    BY <1>1, <1>3, <2>1, <2>2, <2>3
<1>9. QED
  BY <1>4, <1>5, <1>6, <1>7, <1>8

\* The answers to clicks.
LEMMA ClickAnswered ==
  ASSUME DInv, NEW t \in Tasks,
         GotInspected(t) \/ Acknowledged(t) \/ GivesUp(t) \/ CircuitEnds(t)
  PROVE  DInv' /\ summaries' = summaries
<1>0. clicks \in 0..MaxClicks /\ selected \in Shelves \cup {None} /\ Fits(task[t])
  BY DEF DInv, Shown
<1>1. CASE GotInspected(t)
  <2>1. Fits(Idle) /\ Newer(Idle) /\ Idle.step \notin RefreshSteps
    BY SentFitsAlone DEF RefreshSteps
  <2>2. /\ task' = [task EXCEPT ![t] = Idle] /\ history' \in Histories
        /\ UNCHANGED <<apiVars, summaries, selected, alerts, error, refreshing, alive, clicks, losses>>
    BY <1>0, <1>1, AnswersAre DEF GotInspected, Answered, At, Fits, Return
  <2>3. QED
    BY <1>0, <2>1, <2>2, AsideStep
<1>2. CASE Acknowledged(t)
  <2>1. task[t].step \notin RefreshSteps
    BY <1>2 DEF Acknowledged, At, RefreshSteps
  <2>2. QED
    BY <1>0, <1>2, <2>1, RefreshStep DEF Acknowledged
<1>3. CASE CircuitEnds(t)
  BY <1>3 DEF CircuitEnds, DInv, Counts, Shown, Alone, Newer, apiVars, dataVars
<1>4. CASE GivesUp(t)
  <2>1. Fits(Idle) /\ Newer(Idle) /\ Idle.step \notin RefreshSteps
    BY SentFitsAlone DEF RefreshSteps
  <2>2. /\ task' = [task EXCEPT ![t] = Idle]
        /\ UNCHANGED <<apiVars, dataVars, refreshing, alive, clicks, losses>>
    BY <1>4 DEF GivesUp, Return
  <2>3. QED
    BY <1>0, <2>1, <2>2, AsideStep DEF dataVars, DInv, Shown
<1>5. QED
  BY <1>1, <1>2, <1>3, <1>4

-----------------------------------------------------------------------------
\* Every step keeps the invariant, and the counts that are shown or more.
LEMMA DashboardStep ==
  DInv /\ [Next]_vars => DInv' /\ \A s \in Shelves : summaries[s] =< summaries'[s]
<1> SUFFICES ASSUME DInv, [Next]_vars
             PROVE  DInv' /\ \A s \in Shelves : summaries[s] =< summaries'[s]
  OBVIOUS
<1>1. \A s \in Shelves : summaries[s] =< summaries[s]
  BY DEF DInv, Counts
<1>2. CASE \E t \in Tasks : Serve(t) \/ Lose(t)
  BY <1>1, <1>2, ServeStep, LoseStep DEF Serve, Lose, dataVars
<1>3. CASE \E t \in Tasks : Continue(t)
  BY <1>1, <1>3, RefreshAnswered, ClickAnswered DEF Continue
<1>4. CASE \/ Tick
           \/ \E t \in Clicks : \/ ClickRefresh(t)
                                \/ \E s \in Shelves : ClickInspect(t, s) \/ ClickAcknowledge(t, s)
  BY <1>1, <1>4, ClickStep
<1>5. CASE \E s \in Shelves, healthy \in BOOLEAN : Observe(s, healthy)
  BY <1>1, <1>5, ObserveStep DEF Observe, dataVars
<1>6. CASE UNCHANGED vars
  BY <1>1, <1>6 DEF vars, apiVars, dataVars, DInv, Counts, Shown, Alone, Newer
<1>7. QED
  BY <1>2, <1>3, <1>4, <1>5, <1>6 DEF Next

\* The variables of the page keep their types: what an answer holds is what the
\* field it goes to holds, whichever request it answers.
THEOREM DashboardTypeCorrect == Spec => []TypeOK
<1>1. DInv => TypeOK
  BY DEF DInv, Counts, Shown, Fits, TypeOK
<1>2. QED
  BY <1>1, DashboardInit, DashboardStep, PTL DEF Spec

\* The counts on the page never go back, however late an answer is and whoever
\* refreshes: the timer, the button or an acknowledgement.
THEOREM SummariesMoveForwardTheorem == Spec => SummariesMoveForward
<1>1. DInv /\ [Next]_vars =>
        DInv' /\ [\A s \in Shelves : summaries[s] =< summaries'[s]]_vars
  BY DashboardStep
<1>2. QED
  BY <1>1, DashboardInit, PTL DEF Spec, SummariesMoveForward

-----------------------------------------------------------------------------
(* The reconnect dialog. *)

\* A retry of the script is under way.
Retrying == \E a \in Attempts : attempt[a] \in {"reconnect", "resumeAfterReconnect"}

\* A retry that begins is under way, and one that only goes on still is.
LEMMA Sets ==
  ASSUME ModalTypeOK, NEW a \in Attempts,
         NEW x \in {"idle", "reconnect", "resumeAfterReconnect", "resume"},
         attempt' = [attempt EXCEPT ![a] = x]
  PROVE  /\ attempt' \in [Attempts -> {"idle", "reconnect", "resumeAfterReconnect", "resume"}]
         /\ attempt'[a] = x
         /\ x \in {"reconnect", "resumeAfterReconnect"} => Retrying'
         /\ attempt[a] \notin {"reconnect", "resumeAfterReconnect"} /\ Retrying => Retrying'
<1>1. \A b \in Attempts : attempt'[b] = IF b = a THEN x ELSE attempt[b]
  BY DEF ModalTypeOK
<1>2. QED
  BY <1>1 DEF ModalTypeOK, Retrying

\* What the network, Blazor and the user do, up to the first await of the script.
LEMMA EventsKeep ==
  ASSUME ModalTypeOK, NoDeadEnd,
         \/ Reach \/ Forget \/ Drop \/ Rejoin \/ GiveUp \/ Reject \/ Pause
         \/ Hide \/ Show \/ Reload
         \/ \E a \in Attempts : ClickRetry(a) \/ ClickResume(a)
  PROVE  ModalTypeOK' /\ NoDeadEnd'
<1> USE DEF NoDeadEnd, external, dialog
<1>0. CASE Reach
  <2>1. reachable' = ~reachable /\ reachable' \in BOOLEAN
    BY <1>0 DEF Reach
  <2>2. UNCHANGED <<server, circuit, class, open, listening, visible, reloading, attempt>>
    BY <1>0 DEF Reach
  <2>3. QED
    BY <2>1, <2>2 DEF ModalTypeOK
<1>1. CASE Forget \/ Drop \/ Rejoin \/ GiveUp
  BY <1>1 DEF ModalTypeOK, Forget, Drop, Rejoin, GiveUp
<1>2. CASE Reject \/ Pause \/ Hide \/ Reload
  BY <1>2 DEF ModalTypeOK, Reject, Pause, Hide, Reload
<1>3. CASE Show /\ ~listening
  BY <1>3 DEF ModalTypeOK, Show
<1>4. ASSUME NEW a \in Attempts, ClickRetry(a) \/ (Show /\ Retry(a))
      PROVE  ModalTypeOK' /\ NoDeadEnd'
  <2>1. attempt' = [attempt EXCEPT ![a] = "reconnect"] /\ listening' = FALSE
    BY <1>4 DEF ClickRetry, Retry
  <2>2. Retrying' /\ attempt' \in [Attempts -> {"idle", "reconnect", "resumeAfterReconnect", "resume"}]
    BY <2>1, Sets
  <2>3. QED
    BY <1>4, <2>1, <2>2 DEF ModalTypeOK, ClickRetry, Show, Retrying
<1>5. ASSUME NEW a \in Attempts, ClickResume(a)
      PROVE  ModalTypeOK' /\ NoDeadEnd'
  <2>1. attempt[a] = "idle" /\ attempt' = [attempt EXCEPT ![a] = "resume"]
    BY <1>5 DEF ClickResume
  <2>2. /\ Retrying => Retrying'
        /\ attempt' \in [Attempts -> {"idle", "reconnect", "resumeAfterReconnect", "resume"}]
    BY <2>1, Sets
  <2>3. QED
    BY <1>5, <2>2 DEF ModalTypeOK, ClickResume, Retrying
<1>6. QED
  BY <1>0, <1>1, <1>2, <1>3, <1>4, <1>5 DEF Show

\* How what a retry awaits may end.
LEMMA AnswersKeep ==
  ASSUME ModalTypeOK, NoDeadEnd, NEW a \in Attempts, Answer(a)
  PROVE  ModalTypeOK' /\ NoDeadEnd'
<1> USE DEF NoDeadEnd, external, dialog, Done
<1>1. CASE Throws(a)
  BY <1>1, Sets DEF Answer, Throws, ModalTypeOK
<1>2. CASE ResumeThrows(a)
  <2>1. attempt[a] = "resume" /\ attempt' = [attempt EXCEPT ![a] = "idle"]
    BY <1>2 DEF ResumeThrows
  <2>2. /\ Retrying => Retrying'
        /\ attempt' \in [Attempts -> {"idle", "reconnect", "resumeAfterReconnect", "resume"}]
    BY <2>1, Sets
  <2>3. QED
    BY <1>2, <2>2 DEF Answer, ResumeThrows, ModalTypeOK, Retrying
<1>3. CASE Succeeds(a)
  BY <1>3, Sets DEF Answer, Succeeds, Restored, ModalTypeOK
<1>4. CASE NotReconnected(a)
  <2>1. /\ Retrying'
        /\ attempt' \in [Attempts -> {"idle", "reconnect", "resumeAfterReconnect", "resume"}]
    BY <1>4, Sets DEF NotReconnected
  <2>2. QED
    BY <1>4, <2>1 DEF Answer, NotReconnected, ModalTypeOK, Retrying
<1>5. CASE NotResumed(a)
  BY <1>5, Sets DEF Answer, NotResumed, ModalTypeOK
<1>6. QED
  BY <1>1, <1>2, <1>3, <1>4, <1>5 DEF Answer

\* When Blazor has given up, the listener or a retry still waits, however many
\* clicks and returns to the page overlap, and however they fail: NoDeadEnd is
\* inductive with the types, because the catch of retry registers the listener
\* before the call is over.
THEOREM NoDeadEndTheorem == ModalSpec => []NoDeadEnd
<1>1. ModalInit => ModalTypeOK /\ NoDeadEnd
  BY DEF ModalInit, ModalTypeOK, NoDeadEnd
<1>2. ModalTypeOK /\ NoDeadEnd /\ [ModalNext]_modalVars => ModalTypeOK' /\ NoDeadEnd'
  <2> SUFFICES ASSUME ModalTypeOK, NoDeadEnd, [ModalNext]_modalVars
               PROVE  ModalTypeOK' /\ NoDeadEnd'
    OBVIOUS
  <2>1. CASE UNCHANGED modalVars
    BY <2>1 DEF modalVars, external, dialog, ModalTypeOK, NoDeadEnd
  <2>2. CASE \E a \in Attempts : Answer(a)
    BY <2>2, AnswersKeep
  <2>3. QED
    BY <2>1, <2>2, EventsKeep DEF ModalNext
<1>3. QED
  BY <1>1, <1>2, PTL DEF ModalSpec
=============================================================================
