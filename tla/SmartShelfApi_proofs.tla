------------------------ MODULE SmartShelfApi_proofs ------------------------
(***************************************************************************)
(* The API process, for any number of requests, shelves, resources,        *)
(* versions and observations.  Six parts: what the operations of the Shelf *)
(* aggregate return; what the judges return and what the statements on the *)
(* alerts of one shelf do to them; that the tables stay well formed and    *)
(* requests keep what their step needs (TypeInv), the invariant every      *)
(* other proof here starts from; the history of a shelf, its open alert    *)
(* and its LED; optimistic concurrency; and resources that are bound.      *)
(*                                                                         *)
(* The invariant of optimistic concurrency is IInv: what a request in      *)
(* flight read is either what is stored or older than it.  The versions    *)
(* make the difference: when UpdateAsync finds the version the client      *)
(* expects, the copy must be the stored shelf, so the handler built its    *)
(* change on the current state although it read it in pieces.  That a      *)
(* refusal comes before the write (Pending), and that what a request binds *)
(* is of the kind the catalog has while nobody changes a resource's kind   *)
(* (KindsMatch), need more of a request's past.                            *)
(***************************************************************************)
EXTENDS SmartShelfApi, SequenceTheorems, FiniteSetTheorems, TLAPS

-----------------------------------------------------------------------------
(* The Shelf aggregate: the next version exactly when something changes, and *)
(* singletons preserved.                                                     *)

\* Changing one part of a shelf, and its version, gives a shelf.
LEMMA ChangedPartFits ==
  ASSUME NEW shelf \in Shelves, NEW v \in Nat
  PROVE  /\ \A x \in Configs \cup {Blank} :
              [shelf EXCEPT !.config = x, !.version = v] \in Shelves
         /\ \A x \in BOOLEAN : [shelf EXCEPT !.enabled = x, !.version = v] \in Shelves
         /\ \A x \in SUBSET Bindings :
              [shelf EXCEPT !.bindings = x, !.version = v] \in Shelves
<1>1. ASSUME NEW x \in Configs \cup {Blank}
      PROVE  [shelf EXCEPT !.config = x, !.version = v] \in Shelves
  BY DEF Shelves
<1>2. ASSUME NEW x \in BOOLEAN
      PROVE  [shelf EXCEPT !.enabled = x, !.version = v] \in Shelves
  BY DEF Shelves
<1>3. ASSUME NEW x \in SUBSET Bindings
      PROVE  [shelf EXCEPT !.bindings = x, !.version = v] \in Shelves
  BY DEF Shelves
<1>4. QED
  BY <1>1, <1>2, <1>3

\* MarkChanged moves to the next version, a number again and never the same.
LEMMA NextVersion ==
  ASSUME NEW shelf \in Shelves
  PROVE  shelf.version \in Nat /\ shelf.version + 1 \in Nat
  BY DEF Shelves

\* UpdateConfiguration always counts a change and leaves the bindings alone.
LEMMA UpdateConfigurationFits ==
  ASSUME NEW shelf \in Shelves, NEW config \in Configs \cup {Blank}
  PROVE  LET changed == UpdateConfiguration(shelf, config)
         IN  /\ changed \in Shelves
             /\ changed.version = shelf.version + 1
             /\ changed.config = config
             /\ changed.enabled = shelf.enabled
             /\ changed.bindings = shelf.bindings
<1>1. UpdateConfiguration(shelf, config) \in Shelves
  BY ChangedPartFits, NextVersion DEF UpdateConfiguration
<1>2. QED
  BY <1>1 DEF UpdateConfiguration, Shelves

\* SetEnabled counts a change when the flag differs and leaves the rest alone.
LEMMA SetEnabledFits ==
  ASSUME NEW shelf \in Shelves, NEW enabled \in BOOLEAN
  PROVE  LET changed == SetEnabled(shelf, enabled)
         IN  /\ changed \in Shelves
             /\ changed.enabled = enabled
             /\ changed.config = shelf.config
             /\ changed.bindings = shelf.bindings
             /\ shelf.enabled # enabled => changed.version = shelf.version + 1
             /\ shelf.enabled = enabled => changed = shelf
<1>1. CASE shelf.enabled = enabled
  BY <1>1 DEF SetEnabled
<1>2. CASE shelf.enabled # enabled
  <2>1. SetEnabled(shelf, enabled) \in Shelves
    BY <1>2, ChangedPartFits, NextVersion DEF SetEnabled
  <2>2. QED
    BY <1>2, <2>1 DEF SetEnabled, Shelves
<1>3. QED
  BY <1>1, <1>2

\* ReplaceBindings counts a change exactly when the set of bindings differs, and
\* what it accepts leaves at most one controller, camera and LED output.
LEMMA ReplaceBindingsFits ==
  ASSUME NEW shelf \in Shelves, NEW wanted \in Seq(Bindings), Bindable(wanted)
  PROVE  LET changed == ReplaceBindings(shelf, wanted)
         IN  /\ changed \in Shelves
             /\ changed.config = shelf.config
             /\ changed.enabled = shelf.enabled
             /\ changed.bindings = Range(wanted)
             /\ SingletonsHold(changed.bindings)
             /\ Range(wanted) # shelf.bindings => changed.version = shelf.version + 1
             /\ Range(wanted) = shelf.bindings => changed = shelf
<1>1. Range(wanted) \in SUBSET Bindings
  BY DEF Range
<1>2. SingletonsHold(Range(wanted))
  BY DEF Bindable, SingletonsHold, Range
<1>3. CASE Range(wanted) = shelf.bindings
  BY <1>2, <1>3 DEF ReplaceBindings
<1>4. CASE Range(wanted) # shelf.bindings
  <2>1. ReplaceBindings(shelf, wanted) \in Shelves
    BY <1>1, <1>4, ChangedPartFits, NextVersion DEF ReplaceBindings
  <2>2. ReplaceBindings(shelf, wanted).bindings = Range(wanted)
    BY <1>4, <2>1 DEF ReplaceBindings, Shelves
  <2>3. /\ ReplaceBindings(shelf, wanted).version = shelf.version + 1
        /\ ReplaceBindings(shelf, wanted).config = shelf.config
        /\ ReplaceBindings(shelf, wanted).enabled = shelf.enabled
    BY <1>4, <2>1 DEF ReplaceBindings, Shelves
  <2>4. QED
    BY <1>2, <1>4, <2>1, <2>2, <2>3
<1>5. QED
  BY <1>3, <1>4

\* A new shelf has its first version and no bindings.
LEMMA NewShelfFits ==
  ASSUME NEW config \in Configs \cup {Blank}
  PROVE  LET shelf == NewShelf(config)
         IN  /\ shelf \in Shelves
             /\ shelf.version = 1
             /\ shelf.bindings = {}
             /\ SingletonsHold(shelf.bindings)
  BY DEF NewShelf, Shelves, SingletonsHold

-----------------------------------------------------------------------------
(* The judges, and the alerts of one shelf as a sequence. *)

\* The built-in policy returns an assessment for any reading.
LEMMA HealthEvaluateFits ==
  ASSUME NEW s
  PROVE  HealthEvaluate(s) \in Assessments
  BY DEF HealthEvaluate, Assess, Assessments, Statuses, Colors

\* Whatever the rules, the evaluator returns assessments.
LEMMA RuleEvaluateFits ==
  ASSUME NEW s, NEW rules \in SUBSET EvaluationRules
  PROVE  RuleEvaluate(s, rules) \subseteq Assessments
<1>1. Assess("Healthy", "Green") \in Assessments
  BY DEF Assess, Assessments, Statuses, Colors
<1>2. \A r \in Winners(s, rules) : Assess(r.result, r.led) \in Assessments
  BY DEF Winners, EvaluationRules, Assess, Assessments
<1>3. QED
  BY <1>1, <1>2, HealthEvaluateFits DEF RuleEvaluate

\* An assessment raises a warning, a critical alert or, exactly when it is
\* healthy, none (RecordShelfObservationHandler).
LEMMA AlertSeverityFits ==
  ASSUME NEW a \in Assessments
  PROVE  /\ AlertSeverity(a.status) \in {"None", "Warning", "Critical"}
         /\ AlertSeverity(a.status) = "None" <=> a.status = "Healthy"
  BY DEF AlertSeverity, Assessments, Statuses

\* A function over the positions of a sequence is a sequence of the same length.
LEMMA MappedSeq ==
  ASSUME NEW S, NEW seq \in Seq(S), NEW f \in [DOMAIN seq -> S]
  PROVE  f \in Seq(S) /\ DOMAIN f = DOMAIN seq /\ Len(f) = Len(seq)
<1>1. Len(seq) \in Nat /\ DOMAIN seq = 1..Len(seq)
  BY LenProperties
<1>2. f \in [1..Len(seq) -> S]
  BY <1>1
<1>3. f \in Seq(S)
  BY <1>1, <1>2, SeqDef
<1>4. QED
  BY <1>1, <1>2, <1>3, LenProperties

\* What may become of the alerts of a shelf: none disappears, a resolved one
\* stays as it is, an acknowledged one does not become active again.
Follows(history, next) ==
  \A i \in DOMAIN history :
    /\ i \in DOMAIN next
    /\ history[i].status = "Resolved" => next[i] = history[i]
    /\ history[i].status = "Acknowledged" => next[i].status # "Active"

\* A healthy reading: every alert is resolved afterwards (ResolveOpenAsync).
LEMMA ResolveFits ==
  ASSUME NEW history \in Seq(Alerts)
  PROVE  /\ Resolve(history) \in Seq(Alerts)
         /\ \A i \in DOMAIN Resolve(history) : ~Open(Resolve(history)[i])
         /\ Follows(history, Resolve(history))
<1>1. /\ DOMAIN history = 1..Len(history) /\ Len(history) \in Nat
      /\ \A i \in DOMAIN history : history[i] \in Alerts
  BY LenProperties
<1>2. \A i \in DOMAIN history :
        LET resolved == [history[i] EXCEPT !.status = "Resolved"]
        IN  resolved \in Alerts /\ resolved.status = "Resolved"
  BY <1>1 DEF Alerts
<1>3. Resolve(history) \in [DOMAIN history -> Alerts]
  BY <1>1, <1>2 DEF Resolve
<1>4. Resolve(history) \in Seq(Alerts) /\ DOMAIN Resolve(history) = DOMAIN history
  BY <1>3, MappedSeq
<1>5. ASSUME NEW i \in DOMAIN history
      PROVE  /\ Resolve(history)[i].status = "Resolved"
             /\ history[i].status = "Resolved" => Resolve(history)[i] = history[i]
  BY <1>2, <1>5 DEF Resolve, Open
<1>6. QED
  BY <1>4, <1>5 DEF Open, Follows

\* An unhealthy reading: an alert is open afterwards, and the status of the
\* alerts that were there does not change (UpsertOpenAsync).
LEMMA RaiseFits ==
  ASSUME NEW history \in Seq(Alerts), NEW severity \in {"Warning", "Critical"}
  PROVE  /\ Raise(history, severity) \in Seq(Alerts)
         /\ \E i \in DOMAIN Raise(history, severity) : Open(Raise(history, severity)[i])
         /\ Follows(history, Raise(history, severity))
<1> DEFINE next == Raise(history, severity)
<1>1. /\ DOMAIN history = 1..Len(history) /\ Len(history) \in Nat
      /\ \A i \in DOMAIN history : history[i] \in Alerts
  BY LenProperties
<1>2. CASE \E i \in DOMAIN history : Open(history[i])
  <2>1. \A i \in DOMAIN history : history[i].occurrences + 1 \in Nat
    BY <1>1 DEF Alerts
  <2>2. \A i \in DOMAIN history :
          LET raised == [history[i] EXCEPT !.severity = severity,
                                           !.occurrences = history[i].occurrences + 1]
          IN  raised \in Alerts /\ raised.status = history[i].status
    BY <1>1, <2>1 DEF Alerts
  <2>3. next = [i \in DOMAIN history |->
                  IF Open(history[i])
                  THEN [history[i] EXCEPT !.severity = severity,
                                          !.occurrences = history[i].occurrences + 1]
                  ELSE history[i]]
    BY <1>2 DEF Raise
  <2>4. next \in [DOMAIN history -> Alerts]
    BY <1>1, <2>2, <2>3
  <2>5. \A i \in DOMAIN history : next[i].status = history[i].status
    BY <2>2, <2>3
  <2>6. \A i \in DOMAIN history : history[i].status = "Resolved" => next[i] = history[i]
    BY <2>3 DEF Open
  <2> HIDE DEF next
  <2>7. next \in Seq(Alerts) /\ DOMAIN next = DOMAIN history
    BY <2>4, MappedSeq
  <2>8. QED
    BY <1>2, <2>5, <2>6, <2>7 DEF Open, Follows, next
<1>3. CASE ~ \E i \in DOMAIN history : Open(history[i])
  <2> DEFINE new == [status |-> "Active", severity |-> severity, occurrences |-> 1]
  <2>1. new \in Alerts /\ Open(new)
    BY DEF Alerts, Open
  <2>2. next = Append(history, new)
    BY <1>3 DEF Raise
  <2> HIDE DEF new, next
  <2>3. /\ next \in Seq(Alerts)
        /\ DOMAIN next = 1..(Len(history) + 1)
        /\ next[Len(history) + 1] = new
        /\ \A i \in 1..Len(history) : next[i] = history[i]
    BY <1>1, <2>1, <2>2
  <2>4. QED
    BY <1>1, <2>1, <2>3 DEF Follows, next
<1>4. QED
  BY <1>2, <1>3

\* Acknowledging an alert: a resolved alert is left alone (AcknowledgeAsync).
LEMMA MarkFits ==
  ASSUME StoreTypeOK, NEW s \in ShelfIds, NEW i, MarkAcknowledged(s, i)
  PROVE  /\ alerts' \in [ShelfIds -> Seq(Alerts)]
         /\ Follows(alerts[s], alerts'[s])
         /\ \A t \in ShelfIds \ {s} : alerts'[t] = alerts[t]
         /\ i \in DOMAIN alerts[s] => i \in DOMAIN alerts'[s] /\ alerts'[s][i].status # "Active"
<1> DEFINE history == alerts[s]
           next == [j \in DOMAIN history |->
                      IF j = i /\ Open(history[j])
                      THEN [history[j] EXCEPT !.status = "Acknowledged"]
                      ELSE history[j]]
<1>1. history \in Seq(Alerts) /\ alerts \in [ShelfIds -> Seq(Alerts)]
  BY DEF StoreTypeOK
<1>2. alerts' = [alerts EXCEPT ![s] = next]
  BY <1>1 DEF MarkAcknowledged
<1> HIDE DEF history
<1>3. /\ DOMAIN history = 1..Len(history) /\ Len(history) \in Nat
      /\ \A j \in DOMAIN history : history[j] \in Alerts
  BY <1>1, LenProperties
<1>4. \A j \in DOMAIN history :
        LET marked == [history[j] EXCEPT !.status = "Acknowledged"]
        IN  marked \in Alerts /\ marked.status = "Acknowledged"
  BY <1>3 DEF Alerts
<1>5. next \in [DOMAIN history -> Alerts]
  BY <1>3, <1>4
<1>6. next \in Seq(Alerts) /\ DOMAIN next = DOMAIN history
  BY <1>1, <1>5, MappedSeq
<1>7. ASSUME NEW j \in DOMAIN history
      PROVE  /\ history[j].status = "Resolved" => next[j] = history[j]
             /\ history[j].status = "Acknowledged" => next[j].status # "Active"
             /\ j = i => next[j].status # "Active"
  BY <1>4 DEF Open
<1> HIDE DEF next
<1>8. Follows(history, next)
  BY <1>6, <1>7 DEF Follows
<1>9. QED
  BY <1>1, <1>2, <1>6, <1>7, <1>8 DEF history

\* Recording an observation: it is the last one of its shelf, whose alerts
\* follow, and the other shelves do not notice (RecordAsync).
LEMMA RecordFits ==
  ASSUME StoreTypeOK, NEW s \in ShelfIds, NEW a \in Assessments, RecordObservation(s, a)
  PROVE  /\ observations' \in [ShelfIds -> Seq(Assessments)]
         /\ alerts' \in [ShelfIds -> Seq(Alerts)]
         /\ observations'[s] = Append(observations[s], a)
         /\ Follows(alerts[s], alerts'[s])
         /\ \A t \in ShelfIds \ {s} : alerts'[t] = alerts[t] /\ observations'[t] = observations[t]
<1> DEFINE severity == AlertSeverity(a.status)
           next == IF severity = "None" THEN Resolve(alerts[s]) ELSE Raise(alerts[s], severity)
<1>1. /\ observations \in [ShelfIds -> Seq(Assessments)]
      /\ alerts \in [ShelfIds -> Seq(Alerts)]
  BY DEF StoreTypeOK
<1>2. severity \in {"None", "Warning", "Critical"}
  BY AlertSeverityFits
<1>3. next \in Seq(Alerts) /\ Follows(alerts[s], next)
  BY <1>1, <1>2, ResolveFits, RaiseFits
<1>4. alerts' = [alerts EXCEPT ![s] = next]
  BY DEF RecordObservation
<1>5. observations' = [observations EXCEPT ![s] = Append(observations[s], a)]
  BY DEF RecordObservation
<1>6. Append(observations[s], a) \in Seq(Assessments)
  BY <1>1
<1> HIDE DEF next
<1>7. QED
  BY <1>1, <1>3, <1>4, <1>5, <1>6

-----------------------------------------------------------------------------
(* Requests: what the helpers of the handlers return. *)

\* The slot of a request that has not arrived.
LEMMA IdleFits ==
  /\ Idle \in Commands
  /\ Idle.step = "idle"
  /\ Idle.copy = NoShelf
  /\ Idle.shelf = NoShelf
  BY DEF Idle, Commands, Steps, Operations, Answers

\* The answer to a request is well formed and holds on to nothing.
LEMMA AnsweredFits ==
  ASSUME NEW c \in Commands, NEW a \in Answers
  PROVE  /\ Answered(c, a) \in Commands
         /\ Shape(Answered(c, a))
         /\ Answered(c, a).step = "idle"
         /\ Answered(c, a).copy = NoShelf
         /\ Answered(c, a).shelf = NoShelf
<1>1. /\ Answered(c, a) \in Commands
      /\ Answered(c, a).step = "idle"
      /\ Answered(c, a).copy = NoShelf
      /\ Answered(c, a).shelf = NoShelf
  BY IdleFits DEF Answered, Commands
<1>2. Shape(Answered(c, a))
  BY <1>1 DEF Shape
<1>3. QED
  BY <1>1, <1>2

\* Moving on to another step leaves the rest of a request as it is.
LEMMA StepFits ==
  ASSUME NEW c \in Commands, NEW x \in Steps
  PROVE  LET d == [c EXCEPT !.step = x]
         IN  /\ d \in Commands
             /\ d.step = x
             /\ d.op = c.op /\ d.shelf = c.shelf /\ d.expected = c.expected
             /\ d.config = c.config /\ d.enabled = c.enabled
             /\ d.wanted = c.wanted /\ d.copy = c.copy
  BY DEF Commands

\* What the local part of a handler after its read may lead to.
ReadOn(c, d) ==
  \/ d.copy = NoShelf /\ d.step = "idle" /\ d.shelf = NoShelf
  \/ d.copy = c.copy /\ d.shelf = c.shelf /\ d.expected = c.expected

\* A handler that has read a whole shelf goes on with that copy, or answers.
LEMMA AfterReadFits ==
  ASSUME NEW c \in Commands, c.copy \in Shelves, c.shelf \in ShelfIds,
         c.op \in {"update", "enable", "configure", "delete"}
  PROVE  /\ AfterRead(c) \in Commands
         /\ Shape(AfterRead(c))
         /\ AfterRead(c).step \notin {"add", "row", "bindings"}
         /\ ReadOn(c, AfterRead(c))
<1>1. NoShelf \notin Shelves
  BY StoreAssumption
<1>2. /\ "write" \in Steps /\ "list" \in Steps /\ "history" \in Steps
      /\ "check" \in Steps
      /\ "invalid" \in Answers /\ "conflict" \in Answers
  BY DEF Steps, Answers
<1>3. CASE AfterRead(c) \in {Answered(c, "invalid"), Answered(c, "conflict")}
  BY <1>2, <1>3, AnsweredFits DEF ReadOn
<1>4. CASE c.op = "update" /\ c.config # Blank
  <2>1. AfterRead(c) = [c EXCEPT !.step = "write"]
    BY <1>4 DEF AfterRead
  <2>2. QED
    BY <1>1, <1>2, <1>4, <2>1, StepFits DEF Shape, ReadOn
<1>5. CASE c.op = "enable" /\ c.copy.version = c.expected
  <2>1. AfterRead(c) = IF c.copy.enabled = c.enabled
                       THEN [c EXCEPT !.step = "list"]
                       ELSE [c EXCEPT !.step = "write"]
    BY <1>5 DEF AfterRead
  <2>2. QED
    BY <1>1, <1>2, <1>5, <2>1, StepFits DEF Shape, ReadOn
<1>6. CASE c.op = "configure" /\ c.copy.version = c.expected
  <2> DEFINE d == [c EXCEPT !.step = "check", !.left = c.wanted]
  <2>1. AfterRead(c) = d
    BY <1>6 DEF AfterRead
  <2>2. /\ d \in Commands
        /\ d.step = "check"
        /\ d.op = c.op /\ d.shelf = c.shelf /\ d.expected = c.expected
        /\ d.copy = c.copy
    BY <1>2 DEF Commands
  <2> HIDE DEF d
  <2>3. QED
    BY <1>1, <1>6, <2>1, <2>2 DEF Shape, ReadOn
<1>7. CASE c.op = "delete"
  <2>1. AfterRead(c) = [c EXCEPT !.step = "history"]
    BY <1>7 DEF AfterRead
  <2>2. QED
    BY <1>1, <1>2, <1>7, <2>1, StepFits DEF Shape, ReadOn
<1>8. QED
  <2>1. CASE c.op = "update" /\ c.config = Blank
    BY <1>3, <2>1 DEF AfterRead
  <2>2. CASE c.op \in {"enable", "configure"} /\ c.copy.version # c.expected
    BY <1>3, <2>2 DEF AfterRead
  <2>3. QED
    BY <1>4, <1>5, <1>6, <1>7, <2>1, <2>2

\* What a handler writes is the copy it holds with one change and the next
\* version.
LEMMA ChangedFits ==
  ASSUME NEW c \in Commands, Shape(c), c.step = "write", c.copy \in Shelves
  PROVE  /\ Changed(c) \in Shelves
         /\ Changed(c).version = c.copy.version + 1
         /\ SingletonsHold(c.copy.bindings) => SingletonsHold(Changed(c).bindings)
<1>1. /\ c.config \in Configs \cup {Blank}
      /\ c.enabled \in BOOLEAN
      /\ c.wanted \in Seq(Bindings)
  BY DEF Commands
<1>2. CASE c.op = "update"
  BY <1>1, <1>2, UpdateConfigurationFits DEF Changed
<1>3. CASE c.op = "enable"
  BY <1>1, <1>3, SetEnabledFits DEF Changed, Shape
<1>4. CASE c.op = "configure"
  <2>1. Bindable(c.wanted) /\ Range(c.wanted) # c.copy.bindings
    BY <1>4 DEF Shape
  <2>2. Changed(c) = ReplaceBindings(c.copy, c.wanted)
    BY <1>4 DEF Changed
  <2>3. QED
    BY <1>1, <2>1, <2>2, ReplaceBindingsFits
<1>5. QED
  BY <1>2, <1>3, <1>4 DEF Shape

\* A step that changes one request keeps the others.
LEMMA OneCommand ==
  ASSUME ManagementTypeOK, CommandsFit, NEW m \in Managers,
         NEW d \in Commands, Shape(d), cmd' = [cmd EXCEPT ![m] = d]
  PROVE  ManagementTypeOK' /\ CommandsFit'
  BY DEF ManagementTypeOK, CommandsFit

\* A step without a store call leaves the tables well formed.
LEMMA TablesUntouched ==
  ASSUME StoreTypeOK, UNCHANGED tables
  PROVE  StoreTypeOK'
  BY DEF StoreTypeOK, tables, shelfTables, catalogTables, historyTables

-----------------------------------------------------------------------------
(* Shelf management preserves types. *)

\* Requests arrive well formed.
LEMMA SubmitFits ==
  ASSUME TypeInv, NEW m \in Managers, Submit(m)
  PROVE  StoreTypeOK' /\ ManagementTypeOK' /\ CommandsFit'
<1> USE DEF TypeInv, TypeOK
<1>1. ASSUME NEW d \in Commands, Shape(d), Arrive(m, d)
      PROVE  StoreTypeOK' /\ ManagementTypeOK' /\ CommandsFit'
  BY <1>1, OneCommand, TablesUntouched DEF Arrive
<1>2. PICK s \in ShelfIds :
        \/ \E c \in Configs \cup {Blank} : PostShelf(m, s, c)
        \/ \E v \in SeenVersions(s) :
             \/ \E c \in Configs \cup {Blank} : PutShelf(m, s, v, c)
             \/ \E e \in BOOLEAN : PatchEnabled(m, s, v, e)
             \/ \E w \in BindingLists : PutConfiguration(m, s, v, w)
             \/ DeleteRequest(m, s, v)
  BY DEF Submit
<1>3. SeenVersions(s) \subseteq Nat
  BY DEF SeenVersions, StoreTypeOK, Rows, Live
<1>4. ASSUME NEW v \in Nat, NEW op \in {"update", "enable", "configure", "delete"}
      PROVE  /\ Request(op, s, v) \in Commands
             /\ Request(op, s, v).step = "row"
             /\ Request(op, s, v).op = op
             /\ Request(op, s, v).shelf = s
             /\ Request(op, s, v).copy = NoShelf
  BY IdleFits DEF Request, Commands, Steps, Operations
<1>5. ASSUME NEW c \in Configs \cup {Blank}, PostShelf(m, s, c)
      PROVE  StoreTypeOK' /\ ManagementTypeOK' /\ CommandsFit'
  <2>1. CASE c = Blank
    <3>1. [Idle EXCEPT !.op = "create"] \in Commands
      BY IdleFits DEF Commands, Operations
    <3>2. QED
      BY <1>1, <1>5, <2>1, <3>1, AnsweredFits DEF PostShelf, Answers
  <2>2. CASE c # Blank
    <3> DEFINE d == [Idle EXCEPT !.step = "add", !.op = "create", !.shelf = s, !.config = c]
    <3>1. /\ d \in Commands
          /\ d.step = "add" /\ d.op = "create" /\ d.shelf = s
          /\ d.config = c /\ d.copy = NoShelf
      BY IdleFits DEF Commands, Operations, Steps
    <3>2. Arrive(m, d)
      BY <1>5, <2>2 DEF PostShelf
    <3> HIDE DEF d
    <3>3. Shape(d)
      BY <2>2, <3>1 DEF Shape
    <3>4. QED
      BY <1>1, <3>1, <3>2, <3>3
  <2>3. QED
    BY <2>1, <2>2
<1>6. ASSUME NEW v \in Nat, NEW c \in Configs \cup {Blank}, PutShelf(m, s, v, c)
      PROVE  StoreTypeOK' /\ ManagementTypeOK' /\ CommandsFit'
  <2> DEFINE r == Request("update", s, v)
             d == [r EXCEPT !.config = c]
  <2>1. /\ r \in Commands /\ r.step = "row" /\ r.op = "update" /\ r.shelf = s
        /\ r.copy = NoShelf
    BY <1>4
  <2> HIDE DEF r
  <2>2. /\ d \in Commands
        /\ d.step = "row" /\ d.op = "update" /\ d.shelf = s /\ d.copy = NoShelf
    BY <2>1 DEF Commands
  <2>3. Arrive(m, d)
    BY <1>6 DEF PutShelf, r
  <2> HIDE DEF d
  <2>4. Shape(d)
    BY <2>2 DEF Shape
  <2>5. QED
    BY <1>1, <2>2, <2>3, <2>4
<1>7. ASSUME NEW v \in Nat, NEW e \in BOOLEAN, PatchEnabled(m, s, v, e)
      PROVE  StoreTypeOK' /\ ManagementTypeOK' /\ CommandsFit'
  <2> DEFINE r == Request("enable", s, v)
             d == [r EXCEPT !.enabled = e]
  <2>1. /\ r \in Commands /\ r.step = "row" /\ r.op = "enable" /\ r.shelf = s
        /\ r.copy = NoShelf
    BY <1>4
  <2> HIDE DEF r
  <2>2. /\ d \in Commands
        /\ d.step = "row" /\ d.op = "enable" /\ d.shelf = s /\ d.copy = NoShelf
    BY <2>1 DEF Commands
  <2>3. Arrive(m, d)
    BY <1>7 DEF PatchEnabled, r
  <2> HIDE DEF d
  <2>4. Shape(d)
    BY <2>2 DEF Shape
  <2>5. QED
    BY <1>1, <2>2, <2>3, <2>4
<1>8. ASSUME NEW v \in Nat, NEW w \in BindingLists, PutConfiguration(m, s, v, w)
      PROVE  StoreTypeOK' /\ ManagementTypeOK' /\ CommandsFit'
  <2> DEFINE r == Request("configure", s, v)
             d == [r EXCEPT !.wanted = w]
  <2>1. /\ r \in Commands /\ r.step = "row" /\ r.op = "configure" /\ r.shelf = s
        /\ r.copy = NoShelf
    BY <1>4
  <2> HIDE DEF r
  <2>2. /\ d \in Commands
        /\ d.step = "row" /\ d.op = "configure" /\ d.shelf = s /\ d.copy = NoShelf
    BY <2>1, ManagementAssumption DEF Commands
  <2>3. Arrive(m, d)
    BY <1>8 DEF PutConfiguration, r
  <2> HIDE DEF d
  <2>4. Shape(d)
    BY <2>2 DEF Shape
  <2>5. QED
    BY <1>1, <2>2, <2>3, <2>4
<1>9. ASSUME NEW v \in Nat, DeleteRequest(m, s, v)
      PROVE  StoreTypeOK' /\ ManagementTypeOK' /\ CommandsFit'
  <2>1. Shape(Request("delete", s, v))
    BY <1>4 DEF Shape
  <2>2. QED
    BY <1>1, <1>4, <1>9, <2>1 DEF DeleteRequest
<1>10. QED
  BY <1>2, <1>3, <1>5, <1>6, <1>7, <1>8, <1>9

\* A request in flight.
LEMMA CommandInFlight ==
  ASSUME ManagementTypeOK, CommandsFit, NEW m \in Managers
  PROVE  /\ cmd[m] \in Commands
         /\ Shape(cmd[m])
         /\ cmd[m].step # "idle" => cmd[m].shelf \in ShelfIds
         /\ cmd[m].step \in {"idle", "add", "row"} => cmd[m].copy = NoShelf
         /\ cmd[m].step \notin {"idle", "add", "row"} => cmd[m].copy \in Shelves
<1>1. cmd[m] \in Commands /\ Shape(cmd[m])
  BY DEF ManagementTypeOK, CommandsFit
<1>2. cmd[m].copy \in Shelves \cup {NoShelf}
  BY <1>1 DEF Commands
<1>3. QED
  BY <1>1, <1>2 DEF Shape

\* Rows and bindings put together are a shelf, and taken apart again are rows.
LEMMA RestoreFits ==
  ASSUME NEW row \in Rows, NEW bound \in SUBSET Bindings
  PROVE  /\ Restore(row, bound) \in Shelves
         /\ Restore(row, bound).version = row.version
         /\ Restore(row, bound).bindings = bound
         /\ RowOf(Restore(row, bound)) = row
  BY DEF Restore, RowOf, Rows, Shelves

\* The row and the bindings of a shelf that is written.
LEMMA RowOfFits ==
  ASSUME NEW shelf \in Shelves
  PROVE  /\ RowOf(shelf) \in Rows
         /\ RowOf(shelf) # NoShelf
         /\ RowOf(shelf).version = shelf.version
         /\ shelf.bindings \in SUBSET Bindings
<1>1. RowOf(shelf) \in Rows
  BY DEF RowOf, Rows, Shelves
<1>2. QED
  BY <1>1, StoreAssumption DEF RowOf, Shelves

\* The writes of the shelf repository keep the tables well formed.
LEMMA WritesFit ==
  ASSUME StoreTypeOK, NEW s \in ShelfIds, NEW shelf \in Shelves,
         InsertShelf(s, shelf) \/ OverwriteShelf(s, shelf) \/ DeleteShelf(s),
         UNCHANGED <<catalogTables, historyTables>>
  PROVE  StoreTypeOK'
  BY RowOfFits DEF StoreTypeOK, InsertShelf, OverwriteShelf, DeleteShelf,
                   catalogTables, historyTables

\* Every step of a management request keeps types and leads to a request that
\* fits its step.
LEMMA AdvanceFits ==
  ASSUME TypeInv, NEW m \in Managers, Advance(m) \/ Abort(m)
  PROVE  StoreTypeOK' /\ ManagementTypeOK' /\ CommandsFit'
<1> DEFINE c == cmd[m]
<1>a. StoreTypeOK /\ ManagementTypeOK /\ CommandsFit
  BY DEF TypeInv, TypeOK
<1>b. /\ c \in Commands
      /\ Shape(c)
      /\ c.step # "idle" => c.shelf \in ShelfIds
      /\ c.step \in {"idle", "add", "row"} => c.copy = NoShelf
      /\ c.step \notin {"idle", "add", "row"} => c.copy \in Shelves
  BY <1>a, CommandInFlight
<1> HIDE DEF c
<1>c. \A a \in Answers : Answered(c, a) \in Commands /\ Shape(Answered(c, a))
  BY <1>b, AnsweredFits
<1>d. ASSUME NEW d \in Commands, Shape(d), cmd' = [cmd EXCEPT ![m] = d], StoreTypeOK'
      PROVE  StoreTypeOK' /\ ManagementTypeOK' /\ CommandsFit'
  BY <1>a, <1>d, OneCommand
<1>e. {"ok", "notFound", "conflict", "invalid", "aborted"} \subseteq Answers
  BY DEF Answers
<1>f. ASSUME NEW a \in Answers, Answer(m, a), StoreTypeOK'
      PROVE  StoreTypeOK' /\ ManagementTypeOK' /\ CommandsFit'
  BY <1>c, <1>d, <1>f DEF Answer, c
<1>g. UNCHANGED tables => StoreTypeOK'
  BY <1>a, TablesUntouched
<1>h. ASSUME NEW answer \in Answers
      PROVE  LET w == [c EXCEPT !.wrote = TRUE]
             IN  Answered(w, answer) \in Commands /\ Shape(Answered(w, answer))
  <2>1. [c EXCEPT !.wrote = TRUE] \in Commands
    BY <1>b DEF Commands
  <2>2. QED
    BY <2>1, AnsweredFits
<1>1. CASE AddShelf(m)
  <2>1. c.config \in Configs \cup {Blank}
    BY <1>b DEF Commands
  <2>2. StoreTypeOK'
    BY <1>1, <1>a, <1>b, <2>1, NewShelfFits, WritesFit DEF AddShelf, At, c
  <2>3. QED
    BY <1>1, <1>d, <1>e, <1>h, <2>2 DEF AddShelf, c
<1>2. CASE SelectRow(m)
  <2>1. c.step = "row" /\ c.shelf \in ShelfIds
    BY <1>2, <1>b DEF SelectRow, At, c
  <2>2. CASE ~Live(c.shelf)
    BY <1>2, <1>c, <1>d, <1>e, <1>g, <2>2 DEF SelectRow, c
  <2>3. CASE Live(c.shelf)
    <3>1. shelves[c.shelf] \in Rows /\ bindings[c.shelf] \in SUBSET Bindings
      BY <1>a, <2>1, <2>3 DEF StoreTypeOK, Live
    <3>2. CASE Provider = "inmemory"
      <4> DEFINE e == [c EXCEPT !.copy = Restore(shelves[c.shelf], bindings[c.shelf])]
      <4>1. /\ e \in Commands /\ e.copy \in Shelves /\ e.shelf \in ShelfIds
            /\ e.op \in {"update", "enable", "configure", "delete"}
        BY <1>b, <2>1, <3>1, RestoreFits DEF Commands, Shape
      <4>2. cmd' = [cmd EXCEPT ![m] = AfterRead(e)]
        BY <1>2, <2>3, <3>2 DEF SelectRow, c
      <4> HIDE DEF e
      <4>3. QED
        BY <1>2, <1>d, <1>g, <4>1, <4>2, AfterReadFits DEF SelectRow
    <3>3. CASE Provider # "inmemory"
      <4> DEFINE e == [c EXCEPT !.step = "bindings", !.copy = Restore(shelves[c.shelf], {})]
      <4>1. /\ e \in Commands /\ e.step = "bindings" /\ e.copy \in Shelves
            /\ e.shelf \in ShelfIds
            /\ e.op \in {"update", "enable", "configure", "delete"}
        BY <1>b, <2>1, <3>1, RestoreFits DEF Commands, Shape, Steps
      <4>2. cmd' = [cmd EXCEPT ![m] = e]
        BY <1>2, <2>3, <3>3 DEF SelectRow, c
      <4> HIDE DEF e
      <4>3. Shape(e)
        BY <4>1, StoreAssumption DEF Shape
      <4>4. QED
        BY <1>2, <1>d, <1>g, <4>1, <4>2, <4>3 DEF SelectRow
    <3>4. QED
      BY <3>2, <3>3
  <2>4. QED
    BY <2>2, <2>3
<1>3. CASE SelectBindings(m)
  <2> DEFINE e == [c EXCEPT !.copy = Restore(c.copy, bindings[c.shelf])]
  <2>1. c.step = "bindings" /\ c.shelf \in ShelfIds /\ c.copy \in Shelves
    BY <1>3, <1>b DEF SelectBindings, At, c
  <2>2. bindings[c.shelf] \in SUBSET Bindings
    BY <1>a, <2>1 DEF StoreTypeOK
  <2>3. Restore(c.copy, bindings[c.shelf]) \in Shelves
    BY <2>1, <2>2 DEF Restore, Shelves
  <2>4. /\ e \in Commands /\ e.copy \in Shelves /\ e.shelf \in ShelfIds
        /\ e.op \in {"update", "enable", "configure", "delete"}
    BY <1>b, <2>1, <2>3 DEF Commands, Shape
  <2>5. cmd' = [cmd EXCEPT ![m] = AfterRead(e)]
    BY <1>3 DEF SelectBindings, c
  <2> HIDE DEF e
  <2>6. QED
    BY <1>3, <1>d, <1>g, <2>4, <2>5, AfterReadFits DEF SelectBindings
<1>4. CASE CheckResource(m)
  <2> DEFINE e == [c EXCEPT !.left = Tail(@)]
  <2>1. /\ c.step = "check" /\ c.copy \in Shelves /\ c.shelf \in ShelfIds
        /\ c.op = "configure" /\ c.copy.version = c.expected
    BY <1>4, <1>b DEF CheckResource, At, c, Shape
  <2>2. c.left \in Seq(Bindings) /\ c.left # <<>>
    BY <1>4, <1>b DEF CheckResource, Commands, c
  <2>3. Tail(c.left) \in Seq(Bindings)
    BY <2>2
  <2>4. /\ e \in Commands /\ e.step = "check" /\ e.copy \in Shelves
        /\ e.shelf \in ShelfIds /\ e.op = "configure" /\ e.copy.version = e.expected
    BY <1>b, <2>1, <2>3 DEF Commands
  <2>5. cmd' = [cmd EXCEPT ![m] = e] \/ cmd' = [cmd EXCEPT ![m] = Answered(c, "invalid")]
    BY <1>4 DEF CheckResource, c
  <2> HIDE DEF e
  <2>6. Shape(e)
    BY <2>4, StoreAssumption DEF Shape
  <2>7. QED
    BY <1>4, <1>c, <1>d, <1>e, <1>g, <2>4, <2>5, <2>6 DEF CheckResource
<1>5. CASE ReplaceStep(m)
  <2>1. /\ c.step = "check" /\ c.copy \in Shelves /\ c.shelf \in ShelfIds
        /\ c.op = "configure" /\ c.copy.version = c.expected
    BY <1>5, <1>b DEF ReplaceStep, At, c, Shape
  <2>2. CASE ~Bindable(c.wanted)
    BY <1>5, <1>c, <1>d, <1>e, <1>g, <2>2 DEF ReplaceStep, c
  <2>3. CASE Bindable(c.wanted)
    <3> DEFINE r == [c EXCEPT !.step = "readBack"]
               w == [c EXCEPT !.step = "write"]
    <3>1. /\ r \in Commands /\ r.step = "readBack" /\ r.copy = c.copy
          /\ r.shelf = c.shelf /\ r.op = c.op
      BY <1>b, StepFits DEF Steps
    <3>2. /\ w \in Commands /\ w.step = "write" /\ w.copy = c.copy
          /\ w.shelf = c.shelf /\ w.op = c.op /\ w.wanted = c.wanted
      BY <1>b, StepFits DEF Steps
    <3>3. cmd' = [cmd EXCEPT ![m] =
                    IF ReplaceBindings(c.copy, c.wanted).version = c.expected
                    THEN r ELSE w]
      BY <1>5, <2>3 DEF ReplaceStep, c
    <3> HIDE DEF r, w
    <3>4. Shape(r)
      BY <2>1, <3>1, StoreAssumption DEF Shape
    <3>5. CASE ReplaceBindings(c.copy, c.wanted).version = c.expected
      BY <1>5, <1>d, <1>g, <3>1, <3>3, <3>4, <3>5 DEF ReplaceStep
    <3>6. CASE ReplaceBindings(c.copy, c.wanted).version # c.expected
      <4>1. Range(c.wanted) # c.copy.bindings
        BY <2>1, <3>6 DEF ReplaceBindings
      <4>2. Shape(w)
        BY <2>1, <2>3, <3>2, <4>1, StoreAssumption DEF Shape
      <4>3. QED
        BY <1>5, <1>d, <1>g, <3>2, <3>3, <3>6, <4>2 DEF ReplaceStep
    <3>7. QED
      BY <3>5, <3>6
  <2>4. QED
    BY <2>2, <2>3
<1>6. CASE UpdateShelf(m)
  <2>1. c.step = "write" /\ c.copy \in Shelves /\ c.shelf \in ShelfIds
    BY <1>6, <1>b DEF UpdateShelf, At, c
  <2>2. Changed(c) \in Shelves
    BY <1>b, <2>1, ChangedFits
  <2>3. CASE HasVersion(c.shelf, c.expected)
    <3>1. /\ OverwriteShelf(c.shelf, Changed(c))
          /\ cmd' = [cmd EXCEPT ![m] = AfterWrite(c)]
          /\ UNCHANGED <<catalogTables, historyTables>>
      BY <1>6, <2>3 DEF UpdateShelf, c
    <3>2. StoreTypeOK'
      BY <1>a, <2>1, <2>2, <3>1, WritesFit
    <3>3. AfterWrite(c) \in Commands /\ Shape(AfterWrite(c))
      <4>1. CASE c.op = "update"
        BY <1>e, <1>h, <4>1 DEF AfterWrite
      <4>2. CASE c.op \in {"enable", "configure"}
        <5> DEFINE x == IF c.op = "enable" THEN "list" ELSE "readBack"
                   e == [c EXCEPT !.wrote = TRUE, !.step = x]
        <5>1. /\ e \in Commands /\ e.step = x /\ e.copy = c.copy
              /\ e.shelf = c.shelf /\ e.op = c.op
          BY <1>b DEF Commands, Steps
        <5>2. AfterWrite(c) = e
          BY <4>2 DEF AfterWrite
        <5> HIDE DEF e
        <5>3. Shape(e)
          BY <2>1, <4>2, <5>1, StoreAssumption DEF Shape
        <5>4. QED
          BY <5>1, <5>2, <5>3
      <4>3. QED
        BY <1>b, <2>1, <4>1, <4>2 DEF Shape
    <3>4. QED
      BY <1>d, <3>1, <3>2, <3>3
  <2>4. CASE ~HasVersion(c.shelf, c.expected)
    <3>1. Answer(m, "conflict") /\ UNCHANGED tables
      BY <1>6, <2>4 DEF UpdateShelf, c, tables
    <3>2. QED
      BY <1>e, <1>f, <1>g, <3>1
  <2>5. QED
    BY <2>3, <2>4
<1>7. CASE CheckHistory(m)
  <2>1. UNCHANGED tables
    BY <1>7 DEF CheckHistory
  <2>2. CASE HasOperationalHistory(c.shelf)
    BY <1>7, <1>e, <1>f, <1>g, <2>1, <2>2 DEF CheckHistory, c
  <2>3. CASE ~HasOperationalHistory(c.shelf)
    <3> DEFINE e == [c EXCEPT !.step = "remove"]
    <3>1. cmd' = [cmd EXCEPT ![m] = e]
      BY <1>7, <2>3, <1>a DEF CheckHistory, Goto, c, ManagementTypeOK
    <3>2. /\ e \in Commands /\ e.step = "remove" /\ e.copy = c.copy
          /\ e.shelf = c.shelf /\ e.op = c.op
      BY <1>b, StepFits DEF Steps
    <3>3. c.copy \in Shelves /\ c.shelf \in ShelfIds /\ c.op = "delete"
      BY <1>7, <1>b DEF CheckHistory, At, c, Shape
    <3> HIDE DEF e
    <3>4. Shape(e)
      BY <3>2, <3>3, StoreAssumption DEF Shape
    <3>5. QED
      BY <1>d, <1>g, <2>1, <3>1, <3>2, <3>4
  <2>4. QED
    BY <2>2, <2>3
<1>8. CASE RemoveShelf(m)
  <2>1. c.shelf \in ShelfIds /\ c.copy \in Shelves
    BY <1>8, <1>b DEF RemoveShelf, At, c
  <2>2. CASE HasVersion(c.shelf, c.expected)
    <3>1. StoreTypeOK'
      BY <1>8, <1>a, <2>1, <2>2, WritesFit DEF RemoveShelf, c
    <3>2. QED
      BY <1>8, <1>d, <1>e, <1>h, <2>2, <3>1 DEF RemoveShelf, c
  <2>3. CASE ~HasVersion(c.shelf, c.expected)
    <3>1. Answer(m, "conflict") /\ UNCHANGED tables
      BY <1>8, <2>3 DEF RemoveShelf, c, tables
    <3>2. QED
      BY <1>e, <1>f, <1>g, <3>1
  <2>4. QED
    BY <2>2, <2>3
<1>9. CASE ListShelves(m) \/ ReadBack(m) \/ Abort(m)
  BY <1>9, <1>e, <1>f, <1>g DEF ListShelves, ReadBack, Abort
<1>10. QED
  BY <1>1, <1>2, <1>3, <1>4, <1>5, <1>6, <1>7, <1>8, <1>9 DEF Advance

-----------------------------------------------------------------------------
(* Observations, acknowledgements and the catalog preserve types. *)

\* What is left of an observation request that was answered.
LEMMA RestingFits ==
  ASSUME NEW a \in {"none", "created", "notFound", "rejected", "invalid", "aborted"}
  PROVE  LET d == [Resting EXCEPT !.answer = a]
         IN  d \in Recordings /\ d.step = "idle"
  BY DEF Resting, Recordings

\* A step that changes one observation request keeps the others.
LEMMA OneRecording ==
  ASSUME RecordingTypeOK, RecordingsFit, NEW r \in Recorders, NEW d \in Recordings,
         d.step # "idle" => d.shelf \in ShelfIds /\ d.signals \in Signals,
         d.step \in {"record", "led"} => d.verdict \in Assessments,
         rec' = [rec EXCEPT ![r] = d]
  PROVE  rec' \in [Recorders -> Recordings] /\ RecordingsFit'
  BY DEF RecordingTypeOK, RecordingsFit

\* Acknowledge requests that wait for their read-back are not disturbed when the
\* alerts of every shelf follow those before.
LEMMA AcknowledgementsStay ==
  ASSUME AcknowledgementsFit, UNCHANGED ack,
         \A s \in ShelfIds : Follows(alerts[s], alerts'[s]),
         \A s \in ShelfIds : \A i \in DOMAIN alerts[s] :
            alerts[s][i].status \in {"Active", "Acknowledged", "Resolved"}
  PROVE  AcknowledgementsFit'
  BY DEF AcknowledgementsFit, Follows

\* The alerts in the table have one of the three statuses.
LEMMA AlertStatuses ==
  ASSUME StoreTypeOK
  PROVE  \A s \in ShelfIds : \A i \in DOMAIN alerts[s] :
            alerts[s][i].status \in {"Active", "Acknowledged", "Resolved"}
<1>1. ASSUME NEW s \in ShelfIds, NEW i \in DOMAIN alerts[s]
      PROVE  alerts[s][i] \in Alerts
  <2>1. alerts[s] \in Seq(Alerts)
    BY DEF StoreTypeOK
  <2>2. QED
    BY <2>1, LenProperties
<1>2. QED
  BY <1>1 DEF Alerts

\* Every step of an observation request.
LEMMA RecorderFits ==
  ASSUME TypeInv, NEW r \in Recorders,
         \/ \E s \in ShelfIds, signals \in Signals : PostObservation(r, s, signals)
         \/ AdvanceRecording(r) \/ AbortRecording(r)
  PROVE  StoreTypeOK' /\ RecordingTypeOK' /\ RecordingsFit' /\ AcknowledgementsFit'
<1> DEFINE c == rec[r]
<1>a. StoreTypeOK /\ RecordingTypeOK /\ RecordingsFit /\ AcknowledgementsFit
  BY DEF TypeInv, TypeOK
<1>b. /\ c \in Recordings
      /\ c.step # "idle" => c.shelf \in ShelfIds /\ c.signals \in Signals
      /\ c.step \in {"record", "led"} => c.verdict \in Assessments
  BY <1>a DEF RecordingTypeOK, RecordingsFit
<1> HIDE DEF c
<1>c. ASSUME NEW d \in Recordings,
             d.step # "idle" => d.shelf \in ShelfIds /\ d.signals \in Signals,
             d.step \in {"record", "led"} => d.verdict \in Assessments,
             rec' = [rec EXCEPT ![r] = d], UNCHANGED ack,
             led' \in [ShelfIds -> Colors \cup {"Unset"}], UNCHANGED tables
      PROVE  StoreTypeOK' /\ RecordingTypeOK' /\ RecordingsFit' /\ AcknowledgementsFit'
  <2>1. StoreTypeOK'
    BY <1>a, <1>c, TablesUntouched
  <2>2. rec' \in [Recorders -> Recordings] /\ RecordingsFit'
    BY <1>a, <1>c, OneRecording
  <2>3. AcknowledgementsFit'
    BY <1>a, <1>c DEF AcknowledgementsFit, tables, historyTables
  <2>4. QED
    BY <1>a, <1>c, <2>1, <2>2, <2>3 DEF RecordingTypeOK
<1>d. ASSUME NEW a \in {"none", "created", "notFound", "rejected", "invalid", "aborted"},
             Finish(r, a), UNCHANGED ack,
             led' \in [ShelfIds -> Colors \cup {"Unset"}], UNCHANGED tables
      PROVE  StoreTypeOK' /\ RecordingTypeOK' /\ RecordingsFit' /\ AcknowledgementsFit'
  BY <1>c, <1>d, RestingFits DEF Finish
<1>e. led \in [ShelfIds -> Colors \cup {"Unset"}]
  BY <1>a DEF RecordingTypeOK
<1>1. ASSUME NEW s \in ShelfIds, NEW signals \in Signals, PostObservation(r, s, signals)
      PROVE  StoreTypeOK' /\ RecordingTypeOK' /\ RecordingsFit' /\ AcknowledgementsFit'
  <2>1. CASE signals.inventory \in 0..100
    <3> DEFINE d == [Resting EXCEPT !.step = "row", !.shelf = s, !.signals = signals]
    <3>1. d \in Recordings /\ d.step = "row" /\ d.shelf = s /\ d.signals = signals
      BY DEF Resting, Recordings
    <3>2. rec' = [rec EXCEPT ![r] = d]
      BY <1>1, <2>1 DEF PostObservation
    <3> HIDE DEF d
    <3>3. QED
      BY <1>1, <1>c, <1>e, <3>1, <3>2 DEF PostObservation
  <2>2. CASE signals.inventory \notin 0..100
    BY <1>1, <1>d, <1>e, <2>2 DEF PostObservation
  <2>3. QED
    BY <2>1, <2>2
<1>2. CASE ReadShelf(r)
  <2>1. c.step = "row"
    BY <1>2 DEF ReadShelf, RecAt, c
  <2>2. c.shelf \in ShelfIds /\ bindings[c.shelf] \in SUBSET Bindings
    BY <1>a, <1>b, <2>1 DEF StoreTypeOK
  <2> DEFINE d == [c EXCEPT !.step = "rules", !.bound = bindings[c.shelf]]
             e == [c EXCEPT !.step = "bindings"]
  <2>3. d \in Recordings /\ d.step = "rules" /\ d.shelf = c.shelf /\ d.signals = c.signals
    BY <1>b, <2>2 DEF Recordings
  <2>4. e \in Recordings /\ e.step = "bindings" /\ e.shelf = c.shelf /\ e.signals = c.signals
    BY <1>b DEF Recordings
  <2>5. \/ Finish(r, "notFound") \/ Finish(r, "rejected")
        \/ rec' = [rec EXCEPT ![r] = d] \/ rec' = [rec EXCEPT ![r] = e]
    BY <1>2, <1>a DEF ReadShelf, c, RecordingTypeOK
  <2> HIDE DEF d, e
  <2>6. QED
    BY <1>2, <1>b, <1>c, <1>d, <1>e, <2>1, <2>3, <2>4, <2>5 DEF ReadShelf
<1>3. CASE ReadBindings(r)
  <2>1. c.step = "bindings"
    BY <1>3 DEF ReadBindings, RecAt, c
  <2>2. c.shelf \in ShelfIds /\ bindings[c.shelf] \in SUBSET Bindings
    BY <1>a, <1>b, <2>1 DEF StoreTypeOK
  <2> DEFINE d == [c EXCEPT !.step = "rules", !.bound = bindings[c.shelf]]
  <2>3. d \in Recordings /\ d.step = "rules" /\ d.shelf = c.shelf /\ d.signals = c.signals
    BY <1>b, <2>2 DEF Recordings
  <2>4. rec' = [rec EXCEPT ![r] = d]
    BY <1>3, <1>a DEF ReadBindings, c, RecordingTypeOK
  <2> HIDE DEF d
  <2>5. QED
    BY <1>3, <1>b, <1>c, <1>e, <2>1, <2>3, <2>4 DEF ReadBindings
<1>4. CASE Judge(r)
  <2>1. c.step = "rules"
    BY <1>4 DEF Judge, RecAt, c
  <2>2. StoredRules(c.bound) \in SUBSET EvaluationRules
    <3>1. c.bound \subseteq Bindings
      BY <1>b DEF Recordings
    <3>2. \A b \in c.bound : ruleBody[b.id] \in EvaluationRules
      BY <1>a, <3>1, AggregateAssumption, StoreAssumption DEF StoreTypeOK
    <3>3. QED
      BY <3>2 DEF StoredRules
  <2>3. PICK v \in RuleEvaluate(c.signals, StoredRules(c.bound)) :
          rec' = [rec EXCEPT ![r].step = "record", ![r].verdict = v]
    BY <1>4 DEF Judge, c
  <2>4. v \in Assessments
    BY <2>2, RuleEvaluateFits
  <2> DEFINE d == [c EXCEPT !.step = "record", !.verdict = v]
  <2>5. /\ d \in Recordings /\ d.step = "record" /\ d.shelf = c.shelf
        /\ d.signals = c.signals /\ d.verdict = v
    BY <1>b, <2>4 DEF Recordings
  <2>6. rec' = [rec EXCEPT ![r] = d]
    BY <1>a, <2>3 DEF c, RecordingTypeOK
  <2> HIDE DEF d
  <2>7. QED
    BY <1>4, <1>b, <1>c, <1>e, <2>1, <2>4, <2>5, <2>6 DEF Judge
<1>5. CASE Record(r)
  <2>1. c.step = "record" /\ c.shelf \in ShelfIds /\ c.verdict \in Assessments
        /\ c.signals \in Signals
    BY <1>5, <1>b DEF Record, RecAt, c
  <2>2. RecordObservation(c.shelf, c.verdict)
    BY <1>5 DEF Record, c
  <2>3. /\ observations' \in [ShelfIds -> Seq(Assessments)]
        /\ alerts' \in [ShelfIds -> Seq(Alerts)]
        /\ Follows(alerts[c.shelf], alerts'[c.shelf])
        /\ \A t \in ShelfIds \ {c.shelf} : alerts'[t] = alerts[t]
    BY <1>a, <2>1, <2>2, RecordFits
  <2>4. \A t \in ShelfIds : Follows(alerts[t], alerts'[t])
    BY <2>3 DEF Follows
  <2>5. AcknowledgementsFit'
    BY <1>5, <1>a, <2>4, AlertStatuses, AcknowledgementsStay DEF Record
  <2>6. StoreTypeOK'
    BY <1>5, <1>a, <2>3 DEF Record, StoreTypeOK, shelfTables, catalogTables
  <2> DEFINE d == [c EXCEPT !.step = "led"]
  <2>7. /\ d \in Recordings /\ d.step = "led" /\ d.shelf = c.shelf
        /\ d.signals = c.signals /\ d.verdict = c.verdict
    BY <1>b DEF Recordings
  <2>8. rec' = [rec EXCEPT ![r] = d]
    BY <1>5, <1>a DEF Record, c, RecordingTypeOK
  <2> HIDE DEF d
  <2>9. rec' \in [Recorders -> Recordings] /\ RecordingsFit'
    BY <1>a, <2>1, <2>7, <2>8, OneRecording
  <2>10. QED
    BY <1>5, <1>a, <2>5, <2>6, <2>9 DEF Record, RecordingTypeOK
<1>6. CASE SetLed(r)
  <2>1. c.verdict \in Assessments
    BY <1>6, <1>b DEF SetLed, RecAt, c
  <2>2. led' \in [ShelfIds -> Colors \cup {"Unset"}]
    BY <1>6, <1>e, <2>1 DEF SetLed, c, Assessments
  <2>3. QED
    BY <1>6, <1>d, <2>2 DEF SetLed
<1>7. CASE AbortRecording(r)
  BY <1>7, <1>d, <1>e DEF AbortRecording
<1>8. QED
  BY <1>1, <1>2, <1>3, <1>4, <1>5, <1>6, <1>7 DEF AdvanceRecording

\* Every step of an acknowledge request.
LEMMA AcknowledgerFits ==
  ASSUME TypeInv, NEW a \in Acknowledgers,
         \/ \E s \in ShelfIds, i \in 1..MaxObservations : Acknowledge(a, s, i)
         \/ ReadAcknowledged(a) \/ AbortAck(a)
  PROVE  StoreTypeOK' /\ RecordingTypeOK' /\ RecordingsFit' /\ AcknowledgementsFit'
<1>a. StoreTypeOK /\ RecordingTypeOK /\ RecordingsFit /\ AcknowledgementsFit
  BY DEF TypeInv, TypeOK
<1>b. ack \in [Acknowledgers -> Acknowledgements]
  BY <1>a DEF RecordingTypeOK
<1>c. UNCHANGED <<rec, led>> => RecordingsFit'
  BY <1>a DEF RecordingsFit
<1>d. ASSUME NEW x \in {"notFound", "Acknowledged", "Resolved", "aborted"}
      PROVE  LET d == [NoAck EXCEPT !.answer = x]
             IN  d \in Acknowledgements /\ d.step = "idle"
  BY DEF NoAck, Acknowledgements
<1>e. ASSUME NEW x \in {"notFound", "Acknowledged", "Resolved", "aborted"},
             FinishAck(a, x), \A s \in ShelfIds : Follows(alerts[s], alerts'[s])
      PROVE  ack' \in [Acknowledgers -> Acknowledgements] /\ AcknowledgementsFit'
  <2>1. ack' = [ack EXCEPT ![a] = [NoAck EXCEPT !.answer = x]]
    BY <1>e DEF FinishAck
  <2>2. ack' \in [Acknowledgers -> Acknowledgements] /\ ack'[a].step = "idle"
    BY <1>b, <1>d, <2>1
  <2>3. ASSUME NEW k \in Acknowledgers, ack'[k].step = "readBack"
        PROVE  k # a /\ ack'[k] = ack[k]
    BY <1>b, <2>1, <2>2, <2>3
  <2>4. AcknowledgementsFit'
    BY <1>a, <1>e, <2>3, AlertStatuses DEF AcknowledgementsFit, Follows
  <2>5. QED
    BY <2>2, <2>4
<1>f. UNCHANGED alerts => \A s \in ShelfIds : Follows(alerts[s], alerts'[s])
  BY DEF Follows
<1>1. ASSUME NEW s \in ShelfIds, NEW i \in 1..MaxObservations, Acknowledge(a, s, i)
      PROVE  StoreTypeOK' /\ RecordingTypeOK' /\ RecordingsFit' /\ AcknowledgementsFit'
  <2>1. CASE ~Open(alerts[s][i])
    <3>1. FinishAck(a, "notFound") /\ UNCHANGED <<alerts, rec, led, shelfTables, catalogTables, observations>>
      BY <1>1, <2>1 DEF Acknowledge
    <3>2. ack' \in [Acknowledgers -> Acknowledgements] /\ AcknowledgementsFit'
      BY <1>e, <1>f, <3>1
    <3>3. StoreTypeOK'
      BY <1>a, <3>1, TablesUntouched DEF tables, historyTables
    <3>4. QED
      BY <1>a, <1>c, <3>1, <3>2, <3>3 DEF RecordingTypeOK
  <2>2. CASE Open(alerts[s][i])
    <3>1. /\ MarkAcknowledged(s, i)
          /\ i \in DOMAIN alerts[s]
          /\ UNCHANGED <<rec, led, shelfTables, catalogTables, observations>>
      BY <1>1, <2>2 DEF Acknowledge
    <3>2. /\ alerts' \in [ShelfIds -> Seq(Alerts)]
          /\ Follows(alerts[s], alerts'[s])
          /\ \A t \in ShelfIds \ {s} : alerts'[t] = alerts[t]
          /\ i \in DOMAIN alerts'[s] /\ alerts'[s][i].status # "Active"
      BY <1>a, <3>1, MarkFits
    <3>3. \A t \in ShelfIds : Follows(alerts[t], alerts'[t])
      BY <3>2 DEF Follows
    <3>4. StoreTypeOK'
      BY <1>a, <3>1, <3>2 DEF StoreTypeOK, shelfTables, catalogTables
    <3>5. CASE Provider = "inmemory"
      <4>1. FinishAck(a, "Acknowledged")
        BY <1>1, <2>2, <3>5 DEF Acknowledge
      <4>2. ack' \in [Acknowledgers -> Acknowledgements] /\ AcknowledgementsFit'
        BY <1>e, <3>3, <4>1
      <4>3. QED
        BY <1>a, <1>c, <3>1, <3>4, <4>2 DEF RecordingTypeOK
    <3>6. CASE Provider # "inmemory"
      <4> DEFINE d == [NoAck EXCEPT !.step = "readBack", !.shelf = s, !.alert = i]
      <4>1. i \in Nat
        BY RecordingAssumption
      <4>2. d \in Acknowledgements /\ d.shelf = s /\ d.alert = i
        BY <4>1 DEF NoAck, Acknowledgements
      <4>3. ack' = [ack EXCEPT ![a] = d]
        BY <1>1, <2>2, <3>6 DEF Acknowledge
      <4> HIDE DEF d
      <4>4. ack' \in [Acknowledgers -> Acknowledgements] /\ ack'[a] = d
        BY <1>b, <4>2, <4>3
      <4>5. \A k \in Acknowledgers \ {a} : ack'[k] = ack[k]
        BY <1>b, <4>3
      <4>6. ASSUME NEW k \in Acknowledgers, ack'[k].step = "readBack"
            PROVE  /\ ack'[k].shelf \in ShelfIds
                   /\ ack'[k].alert \in DOMAIN alerts'[ack'[k].shelf]
                   /\ alerts'[ack'[k].shelf][ack'[k].alert].status # "Active"
        <5>1. CASE k = a
          BY <3>2, <4>2, <4>4, <5>1
        <5>2. CASE k # a
          <6>1. ack'[k] = ack[k]
            BY <4>5, <5>2
          <6>2. /\ ack[k].shelf \in ShelfIds
                /\ ack[k].alert \in DOMAIN alerts[ack[k].shelf]
                /\ alerts[ack[k].shelf][ack[k].alert].status \in {"Acknowledged", "Resolved"}
            BY <1>a, <4>6, <6>1, AlertStatuses DEF AcknowledgementsFit
          <6>3. QED
            BY <3>3, <6>1, <6>2 DEF Follows
        <5>3. QED
          BY <5>1, <5>2
      <4>7. AcknowledgementsFit'
        BY <4>6 DEF AcknowledgementsFit
      <4>8. QED
        BY <1>a, <1>c, <3>1, <3>4, <4>4, <4>7 DEF RecordingTypeOK
    <3>7. QED
      BY <3>5, <3>6
  <2>3. QED
    BY <2>1, <2>2
<1>2. CASE ReadAcknowledged(a)
  <2>1. ack[a].step = "readBack"
    BY <1>2 DEF ReadAcknowledged, AckAt
  <2>2. alerts[ack[a].shelf][ack[a].alert].status \in {"Acknowledged", "Resolved"}
    BY <1>a, <2>1, AlertStatuses DEF AcknowledgementsFit
  <2>3. FinishAck(a, alerts[ack[a].shelf][ack[a].alert].status) /\ UNCHANGED <<rec, led, tables>>
    BY <1>2 DEF ReadAcknowledged
  <2>4. ack' \in [Acknowledgers -> Acknowledgements] /\ AcknowledgementsFit'
    BY <1>e, <1>f, <2>2, <2>3 DEF tables, historyTables
  <2>5. QED
    BY <1>a, <1>c, <2>3, <2>4, TablesUntouched DEF RecordingTypeOK
<1>3. CASE AbortAck(a)
  <2>1. FinishAck(a, "aborted") /\ UNCHANGED <<rec, led, tables>>
    BY <1>3 DEF AbortAck
  <2>2. ack' \in [Acknowledgers -> Acknowledgements] /\ AcknowledgementsFit'
    BY <1>e, <1>f, <2>1 DEF tables, historyTables
  <2>3. QED
    BY <1>a, <1>c, <2>1, <2>2, TablesUntouched DEF RecordingTypeOK
<1>4. QED
  BY <1>1, <1>2, <1>3

\* Every step of a catalog request.
LEMMA ClerkFits ==
  ASSUME TypeInv, CatalogNext
  PROVE  StoreTypeOK' /\ CatalogTypeOK' /\ UNCHANGED <<shelfTables, historyTables>>
<1>a. StoreTypeOK /\ CatalogTypeOK
  BY DEF TypeInv, TypeOK
<1>b. PICK d \in Clerks :
        \/ \E i \in ResourceIds : \E k \in NamedKinds(i) :
             \/ RequestDeletion(d, i, k)
             \/ \E b \in RuleBodies : SaveResource(d, i, k, b)
        \/ AdvanceDeletion(d)
        \/ AbortDeletion(d)
  BY DEF CatalogNext
<1>c. \A i \in ResourceIds : NamedKinds(i) \subseteq ResourceKinds
  BY CatalogAssumption DEF NamedKinds
<1>d. ASSUME NEW x \in {"ok", "conflict", "aborted"}, FinishDeletion(d, x)
      PROVE  CatalogTypeOK'
  <2>1. [NoDeletion EXCEPT !.answer = x] \in Deletions
    BY DEF NoDeletion, Deletions
  <2>2. QED
    BY <1>a, <1>d, <2>1 DEF FinishDeletion, CatalogTypeOK
<1>1. ASSUME NEW i \in ResourceIds, NEW k \in NamedKinds(i), RequestDeletion(d, i, k)
      PROVE  StoreTypeOK' /\ CatalogTypeOK' /\ UNCHANGED <<shelfTables, historyTables>>
  <2>1. [NoDeletion EXCEPT !.step = "bound", !.kind = k, !.id = i] \in Deletions
    BY <1>c DEF NoDeletion, Deletions
  <2>2. CatalogTypeOK'
    BY <1>1, <1>a, <2>1 DEF RequestDeletion, CatalogTypeOK
  <2>3. QED
    BY <1>1, <1>a, <2>2, TablesUntouched DEF RequestDeletion, tables
<1>2. ASSUME NEW i \in ResourceIds, NEW k \in NamedKinds(i), NEW b \in RuleBodies,
             SaveResource(d, i, k, b)
      PROVE  StoreTypeOK' /\ CatalogTypeOK' /\ UNCHANGED <<shelfTables, historyTables>>
  <2>1. catalog' \in [ResourceIds -> ResourceKinds \cup {"None"}]
    BY <1>2, <1>a, <1>c DEF SaveResource, UpsertResource, StoreTypeOK
  <2>2. ruleBody' \in [ResourceIds -> RuleBodies]
    BY <1>2, <1>a DEF SaveResource, UpsertResource, StoreTypeOK
  <2>3. QED
    BY <1>2, <1>a, <2>1, <2>2
       DEF SaveResource, UpsertResource, StoreTypeOK, CatalogTypeOK, shelfTables, historyTables
<1>3. ASSUME DropResource(d)
      PROVE  catalog' \in [ResourceIds -> ResourceKinds \cup {"None"}] /\ CatalogTypeOK'
  <2>1. catalog' \in [ResourceIds -> ResourceKinds \cup {"None"}]
    BY <1>3, <1>a DEF DropResource, StoreTypeOK
  <2>2. FinishDeletion(d, "ok") \/ FinishDeletion(d, "conflict")
    BY <1>3 DEF DropResource
  <2>3. QED
    BY <1>d, <2>1, <2>2
<1>4. CASE TestBound(d)
  <2>1. del[d] \in Deletions
    BY <1>a DEF CatalogTypeOK
  <2>2. [del[d] EXCEPT !.step = "delete"] \in Deletions
    BY <2>1 DEF Deletions
  <2>3. catalog' \in [ResourceIds -> ResourceKinds \cup {"None"}] /\ CatalogTypeOK'
    <3>1. CASE DropResource(d)
      BY <1>3, <3>1
    <3>2. CASE FinishDeletion(d, "conflict") /\ UNCHANGED catalog
      BY <1>a, <1>d, <3>2 DEF StoreTypeOK
    <3>3. CASE del' = [del EXCEPT ![d].step = "delete"] /\ UNCHANGED catalog
      BY <1>a, <2>2, <3>3 DEF StoreTypeOK, CatalogTypeOK
    <3>4. QED
      BY <1>4, <3>1, <3>2, <3>3 DEF TestBound
  <2>4. QED
    BY <1>4, <1>a, <2>3 DEF TestBound, StoreTypeOK, shelfTables, historyTables
<1>5. CASE DeleteResource(d)
  BY <1>5, <1>3, <1>a DEF DeleteResource, StoreTypeOK, shelfTables, historyTables
<1>6. CASE AbortDeletion(d)
  BY <1>6, <1>a, <1>d, TablesUntouched DEF AbortDeletion, tables
<1>7. QED
  BY <1>b, <1>1, <1>2, <1>4, <1>5, <1>6 DEF AdvanceDeletion

-----------------------------------------------------------------------------
(* Type correctness. *)

\* The process starts, over any database the assumptions allow.
LEMMA InitFits == Init => TypeInv
<1> SUFFICES ASSUME Init PROVE TypeInv
  OBVIOUS
<1>1. StoreTypeOK
  <2>1. \A s \in ShelfIds : Stock[s] # NoShelf => Stock[s] \in Shelves
    BY StoreAssumption
  <2>2. shelves \in [ShelfIds -> Rows \cup {NoShelf}]
    BY <2>1, RowOfFits DEF Init, StoreInit
  <2>3. bindings \in [ShelfIds -> SUBSET Bindings]
    BY <2>1, RowOfFits DEF Init, StoreInit
  <2>4. known \in SUBSET ShelfIds
    BY DEF Init, StoreInit
  <2>5. catalog \in [ResourceIds -> ResourceKinds \cup {"None"}]
    BY StoreAssumption DEF Init, StoreInit
  <2>6. ruleBody \in [ResourceIds -> RuleBodies]
    BY DEF Init, StoreInit
  <2>7. /\ observations \in [ShelfIds -> Seq(Assessments)]
        /\ alerts \in [ShelfIds -> Seq(Alerts)]
    BY EmptySeq DEF Init, StoreInit
  <2>8. QED
    BY <2>2, <2>3, <2>4, <2>5, <2>6, <2>7 DEF StoreTypeOK
<1>2. Shape(Idle)
  BY IdleFits DEF Shape
<1>3. ManagementTypeOK /\ CommandsFit
  BY <1>2, IdleFits DEF Init, ManagementInit, ManagementTypeOK, CommandsFit
<1>4. RecordingTypeOK /\ RecordingsFit /\ AcknowledgementsFit
  BY DEF Init, RecordingInit, RecordingTypeOK, RecordingsFit, AcknowledgementsFit,
         Resting, Recordings, NoAck, Acknowledgements
<1>5. CatalogTypeOK
  BY DEF Init, CatalogInit, CatalogTypeOK, NoDeletion, Deletions
<1>6. QED
  BY <1>1, <1>3, <1>4, <1>5 DEF TypeInv, TypeOK

\* The process restarts over the same database.
LEMMA RestartFits ==
  ASSUME TypeInv, Restart
  PROVE  TypeInv'
<1>1. StoreTypeOK'
  BY TablesUntouched DEF TypeInv, TypeOK, Restart
<1>2. Shape(Idle)
  BY IdleFits DEF Shape
<1>3. ManagementTypeOK' /\ CommandsFit'
  BY <1>2, IdleFits DEF Restart, ManagementTypeOK, CommandsFit
<1>4. RecordingTypeOK' /\ RecordingsFit' /\ AcknowledgementsFit'
  BY DEF Restart, RecordingTypeOK, RecordingsFit, AcknowledgementsFit,
         Resting, Recordings, NoAck, Acknowledgements
<1>5. CatalogTypeOK'
  BY DEF Restart, CatalogTypeOK, NoDeletion, Deletions
<1>6. QED
  BY <1>1, <1>3, <1>4, <1>5 DEF TypeInv, TypeOK

\* Requests on shelves touch neither the catalog nor the history, and a request
\* that arrives touches no table.
LEMMA SubmitReads ==
  ASSUME NEW m \in Managers, Submit(m)
  PROVE  UNCHANGED tables
<1>1. \A d : Arrive(m, d) => UNCHANGED tables
  BY DEF Arrive
<1>2. QED
  BY <1>1 DEF Submit, PostShelf, PutShelf, PatchEnabled, PutConfiguration, DeleteRequest

\* Only the three writes of shelf management change a table.
LEMMA ManagementLeavesHistory ==
  ASSUME ManagementNext
  PROVE  UNCHANGED <<catalogTables, historyTables>>
<1>1. PICK m \in Managers : Submit(m) \/ Advance(m) \/ Abort(m)
  BY DEF ManagementNext
<1>2. CASE Submit(m)
  BY <1>2, SubmitReads DEF tables
<1>3. CASE AddShelf(m) \/ UpdateShelf(m) \/ RemoveShelf(m)
  BY <1>3 DEF AddShelf, UpdateShelf, RemoveShelf
<1>4. CASE \/ SelectRow(m) \/ SelectBindings(m) \/ CheckResource(m) \/ ReplaceStep(m)
           \/ CheckHistory(m) \/ ListShelves(m) \/ ReadBack(m) \/ Abort(m)
  <2>1. UNCHANGED tables
    BY <1>4 DEF SelectRow, SelectBindings, CheckResource, ReplaceStep, CheckHistory,
                ListShelves, ReadBack, Abort
  <2>2. QED
    BY <2>1 DEF tables
<1>5. QED
  BY <1>1, <1>2, <1>3, <1>4 DEF Advance

\* Every step of the API keeps types.
LEMMA TypeStep == TypeInv /\ [Next]_vars => TypeInv'
<1> SUFFICES ASSUME TypeInv, [Next]_vars PROVE TypeInv'
  OBVIOUS
<1>a. /\ StoreTypeOK /\ ManagementTypeOK /\ RecordingTypeOK /\ CatalogTypeOK
      /\ CommandsFit /\ RecordingsFit /\ AcknowledgementsFit
  BY DEF TypeInv, TypeOK
<1>b. UNCHANGED cmd => ManagementTypeOK' /\ CommandsFit'
  BY <1>a DEF ManagementTypeOK, CommandsFit
<1>c. UNCHANGED <<recordingVars, alerts>>
        => RecordingTypeOK' /\ RecordingsFit' /\ AcknowledgementsFit'
  BY <1>a DEF recordingVars, RecordingTypeOK, RecordingsFit, AcknowledgementsFit
<1>d. UNCHANGED del => CatalogTypeOK'
  BY <1>a DEF CatalogTypeOK
<1>1. CASE ManagementNext /\ UNCHANGED <<recordingVars, del>>
  <2>1. StoreTypeOK' /\ ManagementTypeOK' /\ CommandsFit'
    BY <1>1, SubmitFits, AdvanceFits DEF ManagementNext
  <2>2. UNCHANGED alerts
    BY <1>1, ManagementLeavesHistory DEF historyTables
  <2>3. QED
    BY <1>1, <1>c, <1>d, <2>1, <2>2 DEF TypeInv, TypeOK
<1>2. CASE RecordingNext /\ UNCHANGED <<cmd, del>>
  <2>1. StoreTypeOK' /\ RecordingTypeOK' /\ RecordingsFit' /\ AcknowledgementsFit'
    BY <1>2, RecorderFits, AcknowledgerFits DEF RecordingNext
  <2>2. QED
    BY <1>2, <1>b, <1>d, <2>1 DEF TypeInv, TypeOK
<1>3. CASE CatalogNext /\ UNCHANGED <<cmd, recordingVars>>
  <2>1. StoreTypeOK' /\ CatalogTypeOK' /\ UNCHANGED <<shelfTables, historyTables>>
    BY <1>3, ClerkFits
  <2>2. QED
    BY <1>3, <1>b, <1>c, <2>1 DEF TypeInv, TypeOK, historyTables
<1>4. CASE Restart
  BY <1>4, RestartFits
<1>5. CASE UNCHANGED vars
  BY <1>5, <1>a, <1>b, <1>c, <1>d, TablesUntouched
     DEF vars, tables, historyTables, TypeInv, TypeOK
<1>6. QED
  BY <1>1, <1>2, <1>3, <1>4, <1>5 DEF Next

\* Every table, request, recording and deletion stays well formed, and a request has
\* established at each of its steps what the steps before it looked at: a handler
\* that reaches its write has compared the version it read, for one.
THEOREM TypeInvHolds == Spec => []TypeInv
BY InitFits, TypeStep, PTL DEF Spec

\* Every variable keeps its type, and every request in flight has established
\* what its step takes for granted.
THEOREM TypeCorrect == Spec => []TypeOK
<1>1. TypeInv => TypeOK
  BY DEF TypeInv
<1>2. QED
  BY TypeInvHolds, <1>1, PTL

-----------------------------------------------------------------------------
(* The history of a shelf. *)

\* The history tables change in two actions only.
LEMMA HistorySteps ==
  ASSUME TypeInv, [Next]_vars
  PROVE  \/ UNCHANGED historyTables
         \/ \E r \in Recorders : Record(r)
         \/ /\ UNCHANGED observations
            /\ \E a \in Acknowledgers, s \in ShelfIds, i \in 1..MaxObservations :
                 Acknowledge(a, s, i)
<1>1. CASE ManagementNext
  BY <1>1, ManagementLeavesHistory
<1>2. CASE RecordingNext
  <2>1. CASE \E a \in Acknowledgers, s \in ShelfIds, i \in 1..MaxObservations :
               Acknowledge(a, s, i)
    BY <2>1 DEF Acknowledge
  <2>2. CASE \E r \in Recorders : Record(r)
    BY <2>2
  <2>3. CASE /\ ~ \E a \in Acknowledgers, s \in ShelfIds, i \in 1..MaxObservations :
                    Acknowledge(a, s, i)
             /\ ~ \E r \in Recorders : Record(r)
    <3>1. UNCHANGED tables
      BY <1>2, <2>3 DEF RecordingNext, PostObservation, AdvanceRecording, ReadShelf,
                        ReadBindings, Judge, SetLed, AbortRecording, ReadAcknowledged, AbortAck
    <3>2. QED
      BY <3>1 DEF tables
  <2>4. QED
    BY <2>1, <2>2, <2>3
<1>3. CASE CatalogNext
  BY <1>3, ClerkFits
<1>4. CASE Restart \/ UNCHANGED vars
  BY <1>4 DEF Restart, vars, tables
<1>5. QED
  BY <1>1, <1>2, <1>3, <1>4 DEF Next

\* The transaction of an observation request, on the shelf it names.
LEMMA RecordStep ==
  ASSUME TypeInv, NEW r \in Recorders, Record(r)
  PROVE  /\ rec[r].shelf \in ShelfIds
         /\ rec[r].verdict \in Assessments
         /\ observations \in [ShelfIds -> Seq(Assessments)]
         /\ observations'[rec[r].shelf] = Append(observations[rec[r].shelf], rec[r].verdict)
         /\ Follows(alerts[rec[r].shelf], alerts'[rec[r].shelf])
         /\ \A t \in ShelfIds \ {rec[r].shelf} :
              alerts'[t] = alerts[t] /\ observations'[t] = observations[t]
<1>1. rec[r].shelf \in ShelfIds /\ rec[r].verdict \in Assessments
  BY DEF TypeInv, RecordingsFit, Record, RecAt
<1>2. RecordObservation(rec[r].shelf, rec[r].verdict)
  BY DEF Record
<1>3. StoreTypeOK /\ observations \in [ShelfIds -> Seq(Assessments)]
  BY DEF TypeInv, TypeOK, StoreTypeOK
<1>4. QED
  BY <1>1, <1>2, <1>3, RecordFits

\* An alert is never removed, an acknowledged alert does not become active again
\* while it is open, and a resolved one does not change: neither an observation
\* nor an acknowledgement that arrives late undoes what was done
\* (SqliteAlertStore.UpsertOpenAsync, ResolveOpenAsync, AcknowledgeAsync).
THEOREM AlertsOnlyMoveForward == Spec => AlertsMoveForward
<1>1. ASSUME TypeInv, [Next]_vars
      PROVE  \A s \in ShelfIds : Follows(alerts[s], alerts'[s])
  <2>1. CASE UNCHANGED historyTables
    BY <2>1 DEF historyTables, Follows
  <2>2. CASE \E r \in Recorders : Record(r)
    <3>1. PICK r \in Recorders : Record(r)
      BY <2>2
    <3>2. QED
      BY <1>1, <3>1, RecordStep DEF Follows
  <2>3. ASSUME NEW a \in Acknowledgers, NEW s \in ShelfIds, NEW i \in 1..MaxObservations,
               Acknowledge(a, s, i)
        PROVE  \A t \in ShelfIds : Follows(alerts[t], alerts'[t])
    <3>1. CASE UNCHANGED alerts
      BY <3>1 DEF Follows
    <3>2. CASE MarkAcknowledged(s, i)
      <4>1. StoreTypeOK
        BY <1>1 DEF TypeInv, TypeOK
      <4>2. Follows(alerts[s], alerts'[s]) /\ \A t \in ShelfIds \ {s} : alerts'[t] = alerts[t]
        BY <3>2, <4>1, MarkFits
      <4>3. QED
        BY <4>2 DEF Follows
    <3>3. QED
      BY <2>3, <3>1, <3>2 DEF Acknowledge
  <2>4. QED
    BY <1>1, <2>1, <2>2, <2>3, HistorySteps
<1>2. ASSUME TypeInv, [Next]_vars
      PROVE  \A s \in ShelfIds : \A i \in DOMAIN alerts[s] :
               /\ i \in DOMAIN alerts'[s]
               /\ alerts[s][i].status = "Resolved" => alerts'[s][i] = alerts[s][i]
               /\ alerts[s][i].status = "Acknowledged" => alerts'[s][i].status # "Active"
  BY <1>1, <1>2 DEF Follows
<1>3. QED
  BY <1>2, InitFits, TypeStep, PTL DEF Spec, AlertsMoveForward

-----------------------------------------------------------------------------
(* The LED. *)

Shown(s, color) == \E i \in DOMAIN observations[s] : observations[s][i].led = color

\* A request that is about to set the LED has stored its decision.
LedInv ==
  /\ LedShowsStoredDecision
  /\ \A r \in Recorders :
       rec[r].step = "led" => Shown(rec[r].shelf, rec[r].verdict.led)

\* Stored decisions stay.
LEMMA ShownStays ==
  ASSUME TypeInv, [Next]_vars, NEW s \in ShelfIds, NEW color,
         \E i \in DOMAIN observations[s] : observations[s][i].led = color
  PROVE  \E i \in DOMAIN observations'[s] : observations'[s][i].led = color
<1>1. CASE UNCHANGED observations
  BY <1>1
<1>2. CASE \E r \in Recorders : Record(r)
  <2>1. PICK r \in Recorders : Record(r)
    BY <1>2
  <2>2. CASE s # rec[r].shelf
    BY <2>1, <2>2, RecordStep
  <2>3. CASE s = rec[r].shelf
    <3>1. /\ observations[s] \in Seq(Assessments)
          /\ rec[r].verdict \in Assessments
          /\ observations'[s] = Append(observations[s], rec[r].verdict)
      BY <2>1, <2>3, RecordStep
    <3>2. PICK i \in DOMAIN observations[s] : observations[s][i].led = color
      OBVIOUS
    <3>3. i \in DOMAIN observations'[s] /\ observations'[s][i] = observations[s][i]
      BY <3>1, <3>2
    <3>4. QED
      BY <3>2, <3>3
  <2>4. QED
    BY <2>2, <2>3
<1>3. QED
  BY <1>1, <1>2, HistorySteps DEF historyTables

\* What a step does to the LED and to an observation request that reaches its
\* last step.
LEMMA LedSteps ==
  ASSUME TypeInv, [Next]_vars
  PROVE  /\ \A s \in ShelfIds :
              \/ led'[s] = led[s]
              \/ led'[s] = "Unset"
              \/ \E r \in Recorders : /\ rec[r].step = "led" /\ rec[r].shelf = s
                                      /\ led'[s] = rec[r].verdict.led
         /\ \A r \in Recorders : rec'[r].step = "led" => rec'[r] = rec[r] \/ Record(r)
<1>a. /\ rec \in [Recorders -> Recordings]
      /\ led \in [ShelfIds -> Colors \cup {"Unset"}]
  BY DEF TypeInv, TypeOK, RecordingTypeOK
<1>b. \A r \in Recorders : \A x : Finish(r, x) => \A k \in Recorders :
        rec'[k] = rec[k] \/ rec'[k].step = "idle"
  BY <1>a DEF Finish, Resting
<1>1. CASE UNCHANGED <<rec, led>>
  BY <1>1
<1>2. CASE Restart
  BY <1>2 DEF Restart, Resting
<1>3. ASSUME NEW r \in Recorders,
             \/ \E s \in ShelfIds, signals \in Signals : PostObservation(r, s, signals)
             \/ AdvanceRecording(r) \/ AbortRecording(r)
      PROVE  /\ \A s \in ShelfIds :
                  \/ led'[s] = led[s]
                  \/ \E k \in Recorders : /\ rec[k].step = "led" /\ rec[k].shelf = s
                                          /\ led'[s] = rec[k].verdict.led
             /\ \A k \in Recorders : rec'[k].step = "led" => rec'[k] = rec[k] \/ Record(k)
  <2>1. ASSUME NEW s \in ShelfIds, NEW signals \in Signals, PostObservation(r, s, signals)
        PROVE  UNCHANGED led /\ \A k \in Recorders : rec'[k] = rec[k] \/ rec'[k].step # "led"
    BY <1>a, <1>b, <2>1 DEF PostObservation, Resting
  <2>2. CASE ReadShelf(r) \/ ReadBindings(r) \/ Judge(r)
    <3>1. UNCHANGED led
      BY <2>2 DEF ReadShelf, ReadBindings, Judge
    <3>2. \A k \in Recorders \ {r} : rec'[k] = rec[k]
      BY <1>a, <2>2 DEF ReadShelf, ReadBindings, Judge, Finish
    <3>3. rec'[r].step # "led"
      BY <1>a, <2>2 DEF ReadShelf, ReadBindings, Judge, Finish, Resting, Recordings
    <3>4. QED
      BY <3>1, <3>2, <3>3
  <2>3. CASE Record(r)
    BY <1>a, <2>3 DEF Record
  <2>4. CASE SetLed(r)
    BY <1>a, <1>b, <2>4 DEF SetLed, RecAt
  <2>5. CASE AbortRecording(r)
    BY <1>b, <2>5 DEF AbortRecording
  <2>6. QED
    BY <1>3, <2>1, <2>2, <2>3, <2>4, <2>5 DEF AdvanceRecording
<1>4. QED
  <2>1. CASE RecordingNext /\ UNCHANGED <<cmd, del>>
    <3>1. CASE \E r \in Recorders :
                 \/ \E s \in ShelfIds, signals \in Signals : PostObservation(r, s, signals)
                 \/ AdvanceRecording(r) \/ AbortRecording(r)
      BY <1>3, <3>1
    <3>2. CASE \E a \in Acknowledgers :
                 \/ \E s \in ShelfIds, i \in 1..MaxObservations : Acknowledge(a, s, i)
                 \/ ReadAcknowledged(a) \/ AbortAck(a)
      BY <1>1, <3>2 DEF Acknowledge, ReadAcknowledged, AbortAck
    <3>3. QED
      BY <2>1, <3>1, <3>2 DEF RecordingNext
  <2>2. CASE ~(RecordingNext /\ UNCHANGED <<cmd, del>>)
    BY <1>1, <1>2, <2>2 DEF Next, vars, recordingVars
  <2>3. QED
    BY <2>1, <2>2

\* The LED shows a decision that is stored: it is set after the transaction that
\* records the observation, and history is never deleted
\* (RecordShelfObservationHandler.HandleAsync).
THEOREM LedFollowsHistory == Spec => []LedShowsStoredDecision
<1>1. Init => LedInv
  BY DEF Init, RecordingInit, LedInv, LedShowsStoredDecision, Resting
<1>2. TypeInv /\ LedInv /\ [Next]_vars => LedInv'
  <2> SUFFICES ASSUME TypeInv, LedInv, [Next]_vars PROVE LedInv'
    OBVIOUS
  <2>1. ASSUME NEW s \in ShelfIds, led'[s] # "Unset"
        PROVE  \E i \in DOMAIN observations'[s] : observations'[s][i].led = led'[s]
    <3>1. CASE led'[s] = led[s]
      BY <2>1, <3>1, ShownStays DEF LedInv, LedShowsStoredDecision
    <3>2. ASSUME NEW r \in Recorders, rec[r].step = "led", rec[r].shelf = s,
                 led'[s] = rec[r].verdict.led
          PROVE  \E i \in DOMAIN observations'[s] : observations'[s][i].led = led'[s]
      BY <3>2, ShownStays DEF LedInv, Shown
    <3>3. QED
      BY <2>1, <3>1, <3>2, LedSteps
  <2>2. ASSUME NEW r \in Recorders, rec'[r].step = "led"
        PROVE  \E i \in DOMAIN observations'[rec'[r].shelf] :
                 observations'[rec'[r].shelf][i].led = rec'[r].verdict.led
    <3>1. CASE rec'[r] = rec[r]
      <4>1. rec[r].shelf \in ShelfIds
        BY <2>2, <3>1 DEF TypeInv, RecordingsFit
      <4>2. \E i \in DOMAIN observations[rec[r].shelf] :
              observations[rec[r].shelf][i].led = rec[r].verdict.led
        BY <2>2, <3>1 DEF LedInv, Shown
      <4>3. \E i \in DOMAIN observations'[rec[r].shelf] :
              observations'[rec[r].shelf][i].led = rec[r].verdict.led
        BY <4>1, <4>2, ShownStays
      <4>4. QED
        BY <3>1, <4>3
    <3>2. CASE Record(r)
      <4> DEFINE s == rec[r].shelf
      <4>1. /\ s \in ShelfIds /\ rec[r].verdict \in Assessments
            /\ observations[s] \in Seq(Assessments)
            /\ observations'[s] = Append(observations[s], rec[r].verdict)
        BY <3>2, RecordStep
      <4>2. rec'[r].shelf = s /\ rec'[r].verdict = rec[r].verdict
        BY <3>2 DEF Record, TypeInv, TypeOK, RecordingTypeOK, Recordings
      <4> HIDE DEF s
      <4>3. /\ Len(observations[s]) + 1 \in DOMAIN observations'[s]
            /\ observations'[s][Len(observations[s]) + 1] = rec[r].verdict
        BY <4>1
      <4>4. \E i \in DOMAIN observations'[s] : observations'[s][i].led = rec[r].verdict.led
        BY <4>3
      <4>5. QED
        BY <4>2, <4>4
    <3>3. QED
      BY <2>2, <3>1, <3>2, LedSteps
  <2>3. QED
    BY <2>1, <2>2 DEF LedInv, LedShowsStoredDecision, Shown
<1>3. LedInv => LedShowsStoredDecision
  BY DEF LedInv
<1>4. QED
  BY <1>1, <1>2, <1>3, InitFits, TypeStep, PTL DEF Spec

-----------------------------------------------------------------------------
(* The open alert. *)

\* Of one shelf: the unhealthy observations at the end of its history, and what
\* AlertReflectsHistory says of it.
Run(obs) == {i \in DOMAIN obs : \A j \in i..Len(obs) : obs[j].status # "Healthy"}

OpenOf(list) == {i \in DOMAIN list : Open(list[i])}

Reflects(list, obs) ==
  IF Cardinality(Run(obs)) = 0 THEN OpenOf(list) = {}
  ELSE \E i \in DOMAIN list :
         /\ OpenOf(list) = {i}
         /\ i = Len(list)
         /\ list[i].occurrences = Cardinality(Run(obs))
         /\ list[i].severity = AlertSeverity(obs[Len(obs)].status)

LEMMA RunIsFinite ==
  ASSUME NEW obs \in Seq(Assessments)
  PROVE  IsFiniteSet(Run(obs)) /\ Cardinality(Run(obs)) \in Nat
<1>1. DOMAIN obs = 1..Len(obs) /\ Len(obs) \in Nat
  BY LenProperties
<1>2. IsFiniteSet(1..Len(obs))
  BY <1>1, FS_Interval
<1>3. Run(obs) \in SUBSET (1..Len(obs))
  BY <1>1 DEF Run
<1>4. IsFiniteSet(Run(obs))
  BY <1>2, <1>3, FS_Subset
<1> QED
  BY <1>4, FS_CardinalityType

\* A healthy observation ends the run, another one makes it one longer.
LEMMA RunAfter ==
  ASSUME NEW obs \in Seq(Assessments), NEW a \in Assessments
  PROVE  /\ a.status = "Healthy" => Cardinality(Run(Append(obs, a))) = 0
         /\ a.status # "Healthy" =>
              Cardinality(Run(Append(obs, a))) = Cardinality(Run(obs)) + 1
<1> DEFINE n == Len(obs)
           next == Append(obs, a)
<1>1. DOMAIN obs = 1..n /\ n \in Nat
  BY LenProperties
<1>2. /\ DOMAIN next = 1..(n + 1) /\ Len(next) = n + 1
      /\ next[n + 1] = a
      /\ \A i \in 1..n : next[i] = obs[i]
  BY <1>1
<1> HIDE DEF n, next
<1>3. ASSUME a.status = "Healthy"
      PROVE  Cardinality(Run(next)) = 0
  <2>1. \A i \in 1..(n + 1) : n + 1 \in i..(n + 1)
    BY <1>1
  <2>2. Run(next) = {}
    BY <1>2, <1>3, <2>1 DEF Run
  <2> QED
    BY <2>2, FS_EmptySet
<1>4. ASSUME a.status # "Healthy"
      PROVE  Cardinality(Run(next)) = Cardinality(Run(obs)) + 1
  <2>1. ASSUME NEW i \in 1..n
        PROVE  i \in Run(next) <=> i \in Run(obs)
    <3>1. i..(n + 1) = (i..n) \cup {n + 1}
      BY <1>1
    <3>2. \A j \in i..n : j \in 1..n
      BY <1>1
    <3>3. i \in 1..(n + 1) /\ i \in DOMAIN obs
      BY <1>1
    <3>4. i \in Run(next) <=> \A j \in (i..n) \cup {n + 1} : next[j].status # "Healthy"
      BY <1>2, <3>1, <3>3 DEF Run
    <3>5. i \in Run(obs) <=> \A j \in i..n : obs[j].status # "Healthy"
      BY <3>3 DEF Run, n
    <3> QED
      BY <1>2, <1>4, <3>2, <3>4, <3>5
  <2>2. n + 1 \in Run(next)
    <3>1. \A j \in (n + 1)..(n + 1) : j = n + 1
      BY <1>1
    <3>2. n + 1 \in 1..(n + 1)
      BY <1>1
    <3> QED
      BY <1>2, <1>4, <3>1, <3>2 DEF Run
  <2>3. Run(obs) \subseteq 1..n /\ Run(next) \subseteq 1..(n + 1)
    BY <1>1, <1>2 DEF Run
  <2>4. 1..(n + 1) = (1..n) \cup {n + 1} /\ n + 1 \notin 1..n
    BY <1>1
  <2>5. Run(next) = Run(obs) \cup {n + 1} /\ n + 1 \notin Run(obs)
    BY <2>1, <2>2, <2>3, <2>4
  <2> QED
    BY <2>5, RunIsFinite, FS_AddElement
<1> QED
  BY <1>3, <1>4 DEF next

\* A healthy observation resolves what is open.
LEMMA ReflectsResolve ==
  ASSUME NEW list \in Seq(Alerts), NEW obs \in Seq(Assessments), NEW a \in Assessments,
         a.status = "Healthy"
  PROVE  Reflects(Resolve(list), Append(obs, a))
<1>1. OpenOf(Resolve(list)) = {}
  BY ResolveFits DEF OpenOf
<1>2. Cardinality(Run(Append(obs, a))) = 0
  BY RunAfter
<1> QED
  BY <1>1, <1>2 DEF Reflects

\* Any other one is one more occurrence of the open alert, or opens the next.
LEMMA ReflectsRaise ==
  ASSUME NEW list \in Seq(Alerts), NEW obs \in Seq(Assessments), NEW a \in Assessments,
         a.status # "Healthy", Reflects(list, obs)
  PROVE  Reflects(Raise(list, AlertSeverity(a.status)), Append(obs, a))
<1> DEFINE severity == AlertSeverity(a.status)
           next == Raise(list, severity)
           count == Cardinality(Run(obs))
<1>1. /\ DOMAIN list = 1..Len(list) /\ Len(list) \in Nat
      /\ \A i \in DOMAIN list : list[i] \in Alerts
  BY LenProperties
<1>2. severity \in {"Warning", "Critical"}
  BY AlertSeverityFits
<1>3. /\ Cardinality(Run(Append(obs, a))) = count + 1
      /\ count \in Nat
      /\ Append(obs, a)[Len(Append(obs, a))] = a
  BY RunAfter, RunIsFinite
<1>4. SUFFICES \E i \in DOMAIN next :
                 /\ OpenOf(next) = {i} /\ i = Len(next)
                 /\ next[i].occurrences = count + 1 /\ next[i].severity = severity
  <2>1. Cardinality(Run(Append(obs, a))) # 0
    BY <1>3
  <2> QED
    BY <1>3, <2>1 DEF Reflects
<1>5. CASE count = 0
  <2> DEFINE new == [status |-> "Active", severity |-> severity, occurrences |-> 1]
  <2>1. OpenOf(list) = {}
    BY <1>5 DEF Reflects
  <2>2. next = Append(list, new)
    BY <2>1 DEF Raise, OpenOf
  <2>3. new \in Alerts /\ Open(new) /\ new.occurrences = 1 /\ new.severity = severity
    BY <1>2 DEF Alerts, Open
  <2> HIDE DEF new, next
  <2>4. /\ DOMAIN next = 1..(Len(list) + 1) /\ Len(next) = Len(list) + 1
        /\ next[Len(list) + 1] = new
        /\ \A i \in 1..Len(list) : next[i] = list[i]
    BY <1>1, <2>2, <2>3
  <2>5. /\ 1..(Len(list) + 1) = (1..Len(list)) \cup {Len(list) + 1}
        /\ \A i \in 1..Len(list) : ~Open(list[i])
    BY <1>1, <2>1 DEF OpenOf
  <2>6. OpenOf(next) = {Len(list) + 1}
    BY <2>3, <2>4, <2>5 DEF OpenOf
  <2>7. Len(list) + 1 \in DOMAIN next
    BY <2>4, <2>5
  <2> QED
    BY <1>5, <2>3, <2>4, <2>6, <2>7
<1>6. CASE count # 0
  <2>1. PICK i \in DOMAIN list : /\ OpenOf(list) = {i} /\ i = Len(list)
                                 /\ list[i].occurrences = count
    BY <1>6 DEF Reflects
  <2>2. Open(list[i]) /\ \A j \in DOMAIN list : Open(list[j]) => j = i
    BY <2>1 DEF OpenOf
  <2>3. next = [j \in DOMAIN list |->
                  IF Open(list[j])
                  THEN [list[j] EXCEPT !.severity = severity,
                                       !.occurrences = list[j].occurrences + 1]
                  ELSE list[j]]
    BY <2>2 DEF Raise
  <2>4. next \in Seq(Alerts)
    BY <1>2, RaiseFits
  <2>5. DOMAIN next = DOMAIN list
    BY <2>3
  <2>6. next[i] = [list[i] EXCEPT !.severity = severity,
                                  !.occurrences = list[i].occurrences + 1]
    BY <2>2, <2>3
  <2>7. \A j \in DOMAIN list \ {i} : next[j] = list[j]
    BY <2>2, <2>3
  <2> HIDE DEF next
  <2>8. /\ next[i].status = list[i].status
        /\ next[i].severity = severity
        /\ next[i].occurrences = count + 1
    BY <1>1, <2>1, <2>6 DEF Alerts
  <2>9. OpenOf(next) = {i}
    BY <2>2, <2>5, <2>7, <2>8 DEF OpenOf, Open
  <2>10. Len(next) = Len(list)
    BY <1>1, <2>4, <2>5, LenProperties
  <2> QED
    BY <2>1, <2>5, <2>8, <2>9, <2>10
<1> QED
  BY <1>5, <1>6

\* Acknowledging changes the status of the open alert and leaves it open.
LEMMA ReflectsMark ==
  ASSUME NEW list \in Seq(Alerts), NEW obs, NEW i, Reflects(list, obs)
  PROVE  Reflects([j \in DOMAIN list |->
                     IF j = i /\ Open(list[j])
                     THEN [list[j] EXCEPT !.status = "Acknowledged"] ELSE list[j]], obs)
<1> DEFINE next == [j \in DOMAIN list |->
                     IF j = i /\ Open(list[j])
                     THEN [list[j] EXCEPT !.status = "Acknowledged"] ELSE list[j]]
<1>1. \A j \in DOMAIN list : list[j] \in Alerts
  BY LenProperties
<1>2. \A j \in DOMAIN list :
        LET marked == [list[j] EXCEPT !.status = "Acknowledged"]
        IN  /\ marked \in Alerts /\ marked.status = "Acknowledged"
            /\ marked.occurrences = list[j].occurrences
            /\ marked.severity = list[j].severity
  BY <1>1 DEF Alerts
<1>3. \A j \in DOMAIN list :
        /\ Open(next[j]) <=> Open(list[j])
        /\ next[j].occurrences = list[j].occurrences
        /\ next[j].severity = list[j].severity
  BY <1>2 DEF Open
<1>4. next \in [DOMAIN list -> Alerts]
  BY <1>1, <1>2
<1> HIDE DEF next
<1>5. DOMAIN next = DOMAIN list /\ Len(next) = Len(list)
  BY <1>4, MappedSeq
<1>6. OpenOf(next) = OpenOf(list)
  BY <1>3, <1>5 DEF OpenOf
<1>7. Reflects(next, obs)
  BY <1>3, <1>5, <1>6 DEF Reflects
<1> QED
  BY <1>7 DEF next

LEMMA ReflectsEverywhere ==
  AlertReflectsHistory <=> \A s \in ShelfIds : Reflects(alerts[s], observations[s])
BY DEF AlertReflectsHistory, Reflects, OpenAlerts, OpenOf, UnhealthyRun, Run

LEMMA AlertStep ==
  ASSUME TypeInv, [Next]_vars, \A s \in ShelfIds : Reflects(alerts[s], observations[s])
  PROVE  \A s \in ShelfIds : Reflects(alerts'[s], observations'[s])
<1>1. /\ StoreTypeOK
      /\ alerts \in [ShelfIds -> Seq(Alerts)]
      /\ observations \in [ShelfIds -> Seq(Assessments)]
  BY DEF TypeInv, TypeOK, StoreTypeOK
<1>2. CASE UNCHANGED historyTables
  BY <1>2 DEF historyTables
<1>3. ASSUME NEW r \in Recorders, Record(r)
      PROVE  \A s \in ShelfIds : Reflects(alerts'[s], observations'[s])
  <2> DEFINE s == rec[r].shelf
             a == rec[r].verdict
             next == IF AlertSeverity(a.status) = "None" THEN Resolve(alerts[s])
                     ELSE Raise(alerts[s], AlertSeverity(a.status))
  <2>1. /\ s \in ShelfIds /\ a \in Assessments
        /\ observations'[s] = Append(observations[s], a)
        /\ \A t \in ShelfIds \ {s} : alerts'[t] = alerts[t] /\ observations'[t] = observations[t]
    BY <1>3, RecordStep
  <2>2. alerts' = [alerts EXCEPT ![s] = next]
    BY <1>3 DEF Record, RecordObservation
  <2> HIDE DEF s, a
  <2>3. Reflects(next, Append(observations[s], a))
    <3>1. alerts[s] \in Seq(Alerts) /\ observations[s] \in Seq(Assessments)
      BY <1>1, <2>1
    <3>2. CASE a.status = "Healthy"
      BY <2>1, <3>1, <3>2, ReflectsResolve, AlertSeverityFits
    <3>3. CASE a.status # "Healthy"
      BY <2>1, <3>1, <3>3, ReflectsRaise, AlertSeverityFits
    <3> QED
      BY <3>2, <3>3
  <2> HIDE DEF next
  <2>4. alerts'[s] = next
    BY <1>1, <2>1, <2>2
  <2> QED
    BY <2>1, <2>3, <2>4
<1>4. ASSUME UNCHANGED observations, NEW k \in Acknowledgers, NEW s \in ShelfIds,
             NEW i \in 1..MaxObservations, Acknowledge(k, s, i)
      PROVE  \A t \in ShelfIds : Reflects(alerts'[t], observations'[t])
  <2>1. CASE UNCHANGED alerts
    BY <1>4, <2>1
  <2>2. CASE MarkAcknowledged(s, i)
    <3> DEFINE next == [j \in DOMAIN alerts[s] |->
                          IF j = i /\ Open(alerts[s][j])
                          THEN [alerts[s][j] EXCEPT !.status = "Acknowledged"]
                          ELSE alerts[s][j]]
    <3>1. alerts' = [alerts EXCEPT ![s] = next]
      BY <2>2 DEF MarkAcknowledged
    <3>2. Reflects(next, observations[s])
      BY <1>1, ReflectsMark
    <3> HIDE DEF next
    <3>3. alerts'[s] = next /\ \A t \in ShelfIds \ {s} : alerts'[t] = alerts[t]
      BY <1>1, <3>1
    <3> QED
      BY <1>4, <3>2, <3>3
  <2> QED
    BY <1>4, <2>1, <2>2 DEF Acknowledge
<1> QED
  BY <1>2, <1>3, <1>4, HistorySteps

\* However observation requests interleave with each other, with acknowledgements,
\* aborts and restarts, a shelf has an open alert exactly when its last observation
\* is unhealthy, and that alert counts the observations since the last healthy one
\* (the transaction of RecordAsync, and ON CONFLICT of UpsertOpenAsync).
THEOREM AlertsReflectHistory == Spec => []AlertReflectsHistory
<1> DEFINE Inv == \A s \in ShelfIds : Reflects(alerts[s], observations[s])
<1>1. Init => Inv
  <2> SUFFICES ASSUME Init, NEW s \in ShelfIds
               PROVE  Reflects(alerts[s], observations[s])
    OBVIOUS
  <2>1. alerts[s] = <<>> /\ observations[s] = <<>>
    BY DEF Init, StoreInit
  <2>2. Run(observations[s]) = {} /\ OpenOf(alerts[s]) = {}
    BY <2>1 DEF Run, OpenOf
  <2> QED
    BY <2>2, FS_EmptySet DEF Reflects
<1>2. TypeInv /\ Inv /\ [Next]_vars => Inv'
  BY AlertStep
<1>3. Inv => AlertReflectsHistory
  BY ReflectsEverywhere
<1> QED
  BY <1>1, <1>2, <1>3, InitFits, TypeStep, PTL DEF Spec

-----------------------------------------------------------------------------
(* The steps of a request. *)

\* The request goes on with what it holds, or is over.
Continues(c, d) == d.step \notin {"add", "row", "bindings"} /\ ReadOn(c, d)

\* An answer is a way to go on.
LEMMA AnsweredContinues ==
  ASSUME NEW c \in Commands, NEW a \in Answers
  PROVE  Continues(c, Answered(c, a)) /\ Continues(c, Answered([c EXCEPT !.wrote = TRUE], a))
<1>1. [c EXCEPT !.wrote = TRUE] \in Commands
  BY DEF Commands
<1>2. QED
  BY <1>1, AnsweredFits DEF Continues, ReadOn

\* No step but the two that read a shelf gives a request anything new.
LEMMA AdvanceContinues ==
  ASSUME TypeInv, NEW m \in Managers,
         \/ AddShelf(m) \/ CheckResource(m) \/ ReplaceStep(m) \/ UpdateShelf(m)
         \/ CheckHistory(m) \/ RemoveShelf(m) \/ ListShelves(m) \/ ReadBack(m)
         \/ Abort(m)
  PROVE  \E d : cmd' = [cmd EXCEPT ![m] = d] /\ Continues(cmd[m], d)
<1> DEFINE c == cmd[m]
<1>a. ManagementTypeOK /\ CommandsFit
  BY DEF TypeInv, TypeOK
<1>b. c \in Commands /\ Shape(c)
  BY <1>a, CommandInFlight
<1> HIDE DEF c
<1>c. \A a \in Answers : /\ Continues(c, Answered(c, a))
                         /\ Continues(c, Answered([c EXCEPT !.wrote = TRUE], a))
  BY <1>b, AnsweredContinues
<1>d. {"ok", "notFound", "conflict", "invalid", "aborted"} \subseteq Answers
  BY DEF Answers
<1>e. ASSUME NEW a \in Answers, Answer(m, a)
      PROVE  \E d : cmd' = [cmd EXCEPT ![m] = d] /\ Continues(c, d)
  BY <1>c, <1>e DEF Answer, c
<1>f. ASSUME NEW x \in Steps \ {"add", "row", "bindings"}
      PROVE  Continues(c, [c EXCEPT !.step = x])
  BY <1>b, StepFits DEF Continues, ReadOn
<1>1. CASE AddShelf(m)
  BY <1>1, <1>c, <1>d DEF AddShelf, c
<1>2. CASE CheckResource(m)
  <2> DEFINE e == [c EXCEPT !.left = Tail(@)]
  <2>1. cmd' = [cmd EXCEPT ![m] = e] \/ cmd' = [cmd EXCEPT ![m] = Answered(c, "invalid")]
    BY <1>2 DEF CheckResource, c
  <2>2. c.step = "check"
    BY <1>2 DEF CheckResource, At, c
  <2>3. e.step = c.step /\ e.copy = c.copy /\ e.shelf = c.shelf /\ e.expected = c.expected
    BY <1>b DEF Commands
  <2> HIDE DEF e
  <2>4. Continues(c, e)
    BY <2>2, <2>3 DEF Continues, ReadOn
  <2>5. QED
    BY <1>c, <1>d, <2>1, <2>4 DEF c
<1>3. CASE ReplaceStep(m)
  <2>1. \/ cmd' = [cmd EXCEPT ![m] = Answered(c, "invalid")]
        \/ cmd' = [cmd EXCEPT ![m] = [c EXCEPT !.step = "readBack"]]
        \/ cmd' = [cmd EXCEPT ![m] = [c EXCEPT !.step = "write"]]
    BY <1>3 DEF ReplaceStep, c
  <2>2. QED
    BY <1>c, <1>d, <1>f, <2>1 DEF c, Steps
<1>4. CASE UpdateShelf(m)
  <2>1. CASE HasVersion(c.shelf, c.expected)
    <3>1. cmd' = [cmd EXCEPT ![m] = AfterWrite(c)]
      BY <1>4, <2>1 DEF UpdateShelf, c
    <3>2. c.step = "write" /\ c.op \in {"update", "enable", "configure"}
      BY <1>4, <1>b DEF UpdateShelf, At, c, Shape
    <3>3. CASE c.op = "update"
      BY <1>c, <1>d, <3>1, <3>3 DEF AfterWrite, c
    <3>4. CASE c.op \in {"enable", "configure"}
      <4> DEFINE x == IF c.op = "enable" THEN "list" ELSE "readBack"
                 e == [c EXCEPT !.wrote = TRUE, !.step = x]
      <4>1. e.step = x /\ e.copy = c.copy /\ e.shelf = c.shelf /\ e.expected = c.expected
        BY <1>b DEF Commands, Steps
      <4>2. AfterWrite(c) = e
        BY <3>4 DEF AfterWrite
      <4> HIDE DEF e
      <4>3. Continues(c, e)
        BY <4>1 DEF Continues, ReadOn
      <4>4. QED
        BY <3>1, <4>2, <4>3 DEF c
    <3>5. QED
      BY <3>2, <3>3, <3>4
  <2>2. CASE ~HasVersion(c.shelf, c.expected)
    BY <1>4, <1>d, <1>e, <2>2 DEF UpdateShelf, c
  <2>3. QED
    BY <2>1, <2>2
<1>5. CASE CheckHistory(m)
  <2>1. \/ Answer(m, "conflict")
        \/ cmd' = [cmd EXCEPT ![m] = [c EXCEPT !.step = "remove"]]
    BY <1>5, <1>a DEF CheckHistory, Goto, c, ManagementTypeOK
  <2>2. QED
    BY <1>d, <1>e, <1>f, <2>1 DEF c, Steps
<1>6. CASE RemoveShelf(m)
  BY <1>6, <1>c, <1>d, <1>e DEF RemoveShelf, c
<1>7. CASE ListShelves(m) \/ ReadBack(m) \/ Abort(m)
  BY <1>7, <1>d, <1>e DEF ListShelves, ReadBack, Abort, c
<1>8. QED
  BY <1>1, <1>2, <1>3, <1>4, <1>5, <1>6, <1>7 DEF c

-----------------------------------------------------------------------------
(* The steps of the store, seen from one shelf. *)

Same(s) == shelves'[s] = shelves[s] /\ bindings'[s] = bindings[s]

Gone(s) == shelves'[s] = NoShelf /\ bindings'[s] = {}

Bumped(s) ==
  /\ shelves[s] # NoShelf /\ shelves'[s] # NoShelf
  /\ shelves'[s].version = shelves[s].version + 1
  /\ SingletonsHold(bindings[s]) => SingletonsHold(bindings'[s])

Inserted(s, m) ==
  /\ cmd[m].step = "add" /\ cmd[m].shelf = s
  /\ shelves'[s] # NoShelf /\ bindings'[s] = {}

\* The identifiers of shelves that are being created stay unknown to others.
LEMMA FreshKept ==
  ASSUME TypeInv, FreshIds, NEW m \in Managers, NEW d,
         cmd' = [cmd EXCEPT ![m] = d],
         d.step # "add",
         d.shelf \in {cmd[m].shelf, NoShelf} \cup known,
         \/ known' = known
         \/ known' = known \cup {cmd[m].shelf} /\ cmd[m].step = "add",
         \A s \in ShelfIds : Live(s)' => Live(s) \/ s \in known'
  PROVE  FreshIds'
<1>1. cmd \in [Managers -> Commands] /\ \A k \in Managers : Shape(cmd[k])
  BY DEF TypeInv, TypeOK, ManagementTypeOK, CommandsFit
<1>2. \A s \in ShelfIds : Live(s)' => s \in known'
  BY DEF FreshIds
<1>3. ASSUME NEW k \in Managers, cmd'[k].step = "add"
      PROVE  /\ cmd'[k].shelf \notin known'
             /\ \A j \in Managers : cmd'[j].shelf = cmd'[k].shelf => j = k
  <2>1. k # m /\ cmd'[k] = cmd[k]
    BY <1>1, <1>3
  <2>2. /\ cmd[k].shelf \notin known /\ cmd[k].shelf \in ShelfIds
        /\ \A j \in Managers : cmd[j].shelf = cmd[k].shelf => j = k
    BY <1>1, <1>3, <2>1 DEF FreshIds, Shape
  <2>3. cmd[k].shelf \notin known'
    BY <2>1, <2>2
  <2>4. cmd'[m].shelf # cmd[k].shelf
    BY <1>1, <2>1, <2>2, StoreAssumption
  <2>5. \A j \in Managers \ {m} : cmd'[j] = cmd[j]
    BY <1>1
  <2>6. QED
    BY <2>1, <2>2, <2>3, <2>4, <2>5
<1>4. QED
  BY <1>2, <1>3 DEF FreshIds

\* Whatever one request does to the store, what the others hold is still current
\* or has become old, and their versions are still in order.
LEMMA OthersKept ==
  ASSUME TypeInv, TypeInv', FreshIds, VersionsInOrder, CopyIsCurrent,
         NEW m \in Managers, NEW d,
         cmd' = [cmd EXCEPT ![m] = d],
         Current(d)', InOrder(d)',
         \A s \in ShelfIds : Same(s) \/ Gone(s) \/ Bumped(s) \/ Inserted(s, m)
  PROVE  CopyIsCurrent' /\ VersionsInOrder'
<1>1. /\ cmd \in [Managers -> Commands]
      /\ \A k \in Managers : Shape(cmd[k])
      /\ shelves \in [ShelfIds -> Rows \cup {NoShelf}]
  BY DEF TypeInv, TypeOK, ManagementTypeOK, CommandsFit, StoreTypeOK
<1>2. ASSUME NEW k \in Managers \ {m}
      PROVE  Current(cmd[k])' /\ InOrder(cmd[k])'
  <2> DEFINE c == cmd[k]
  <2>1. /\ cmd'[k] = c /\ c \in Commands /\ Shape(c) /\ Current(c) /\ InOrder(c)
    BY <1>1 DEF CopyIsCurrent, VersionsInOrder
  <2>2. /\ c.expected \in Nat
        /\ Holding(c) => c.copy.version \in Nat
    BY <2>1 DEF Commands, Holding, Shelves
  <2>3. CASE c.step = "idle"
    BY <2>1, <2>3 DEF Shape, Holding, Current, InOrder
  <2>4. CASE c.step # "idle"
    <3>1. c.shelf \in ShelfIds
      BY <2>1, <2>4 DEF Shape
    <3>2. Live(c.shelf) => shelves[c.shelf].version \in Nat
      BY <1>1, <3>1 DEF Live, Rows
    <3> HIDE DEF c
    <3>3. CASE Same(c.shelf)
      BY <2>1, <3>3 DEF Same, Current, InOrder, Holding, Live
    <3>4. CASE Gone(c.shelf)
      <4>1. shelves'[cmd'[k].shelf] = NoShelf
        BY <2>1, <3>4 DEF Gone, Live
      <4>2. Current(cmd[k])'
        BY <4>1 DEF Current, Live
      <4>3. Holding(cmd'[k]) => cmd'[k].expected =< cmd'[k].copy.version
        BY <2>1 DEF InOrder, Holding
      <4>4. InOrder(cmd[k])'
        BY <4>1, <4>3 DEF InOrder, Holding, Live
      <4>5. QED
        BY <4>2, <4>4
    <3>5. CASE Bumped(c.shelf)
      <4>1. /\ Holding(c) => c.expected =< c.copy.version
            /\ Holding(c) => c.copy.version < shelves'[c.shelf].version
            /\ c.step = "row" => c.expected =< shelves'[c.shelf].version
        BY <2>1, <2>2, <3>2, <3>5 DEF Bumped, InOrder, Live
      <4>2. shelves'[c.shelf].version \in Nat
        BY <3>2, <3>5 DEF Bumped, Live
      <4>3. Current(c)'
        BY <2>1, <2>2, <4>1, <4>2 DEF Current, Holding, c
      <4>4. InOrder(c)'
        BY <2>1, <2>2, <4>1, <4>2 DEF InOrder, Holding, c
      <4>5. QED
        BY <4>3, <4>4 DEF c
    <3>6. CASE Inserted(c.shelf, m)
      <4>1. c.shelf # cmd[m].shelf
        BY <3>6 DEF Inserted, FreshIds, c
      <4>2. QED
        BY <3>6, <4>1 DEF Inserted
    <3>7. QED
      BY <3>1, <3>3, <3>4, <3>5, <3>6
  <2>5. QED
    BY <2>3, <2>4
<1>3. cmd'[m] = d
  BY <1>1
<1>4. Current(cmd[m])' /\ InOrder(cmd[m])'
  BY <1>3 DEF Current, InOrder, Holding
<1>5. QED
  BY <1>2, <1>4 DEF CopyIsCurrent, VersionsInOrder

\* Singletons hold after a step of the store when they hold in what it writes.
LEMMA SingletonsKept ==
  ASSUME SingletonBindings, NEW m \in Managers,
         \A s \in ShelfIds : Same(s) \/ Gone(s) \/ Bumped(s) \/ Inserted(s, m)
  PROVE  SingletonBindings'
<1>1. SingletonsHold({})
  BY DEF SingletonsHold
<1>2. ASSUME NEW s \in ShelfIds
      PROVE  SingletonsHold(bindings'[s]) /\ (~Live(s)' => bindings'[s] = {})
  <2>1. CASE Same(s)
    BY <2>1 DEF Same, SingletonBindings, Live
  <2>2. CASE Gone(s) \/ Inserted(s, m)
    BY <1>1, <2>2 DEF Gone, Inserted, Live
  <2>3. CASE Bumped(s)
    BY <2>3 DEF Bumped, SingletonBindings, Live
  <2>4. QED
    BY <2>1, <2>2, <2>3
<1>3. QED
  BY <1>2 DEF SingletonBindings, Live

-----------------------------------------------------------------------------
(* Every step of a management request. *)

Moves(m) == \A s \in ShelfIds : Same(s) \/ Gone(s) \/ Bumped(s) \/ Inserted(s, m)

Preserved ==
  FreshIds /\ VersionsInOrder /\ CopyIsCurrent /\ SingletonBindings

\* A request that goes on holds what it held.
LEMMA ContinuesCurrent ==
  ASSUME NEW c, NEW d, Continues(c, d), NoShelf \notin Shelves,
         Current(c), InOrder(c), c.step # "bindings"
  PROVE  Current(d) /\ InOrder(d)
  BY DEF Continues, ReadOn, Current, InOrder, Holding

\* The write of UpdateAsync: the version that it tests makes the copy current, so
\* the shelf gets one change and the next version.
LEMMA UpdateMoves ==
  ASSUME IInv, NEW m \in Managers, UpdateShelf(m), HasVersion(cmd[m].shelf, cmd[m].expected)
  PROVE  LET c == cmd[m]
         IN  /\ c.shelf \in ShelfIds
             /\ c.copy = Restore(shelves[c.shelf], bindings[c.shelf])
             /\ Bumped(c.shelf)
             /\ \A s \in ShelfIds \ {c.shelf} : Same(s)
<1> DEFINE c == cmd[m]
<1>1. /\ c \in Commands /\ Shape(c) /\ c.step = "write"
      /\ c.shelf \in ShelfIds /\ c.copy \in Shelves
      /\ Current(c) /\ InOrder(c)
  BY CommandInFlight DEF IInv, TypeInv, TypeOK, CopyIsCurrent, VersionsInOrder,
                         UpdateShelf, At
<1>2. /\ shelves \in [ShelfIds -> Rows \cup {NoShelf}]
      /\ bindings \in [ShelfIds -> SUBSET Bindings]
  BY DEF IInv, TypeInv, TypeOK, StoreTypeOK
<1>3. OverwriteShelf(c.shelf, Changed(c))
  BY DEF UpdateShelf
<1>4. Live(c.shelf) /\ shelves[c.shelf].version = c.expected
  BY DEF HasVersion
<1> HIDE DEF c
<1>5. /\ Changed(c) \in Shelves
      /\ Changed(c).version = c.copy.version + 1
      /\ SingletonsHold(c.copy.bindings) => SingletonsHold(Changed(c).bindings)
  BY <1>1, ChangedFits
<1>6. Holding(c)
  BY <1>1, StoreAssumption DEF Holding
<1>7. c.copy.version = shelves[c.shelf].version
  <2>1. c.expected =< c.copy.version /\ c.copy.version =< shelves[c.shelf].version
    BY <1>1, <1>4, <1>6 DEF InOrder
  <2>2. c.copy.version \in Nat /\ c.expected \in Nat
    BY <1>1 DEF Commands, Shelves
  <2>3. QED
    BY <1>4, <2>1, <2>2
<1>8. RowOf(c.copy) = shelves[c.shelf] /\ c.copy.bindings = bindings[c.shelf]
  BY <1>1, <1>4, <1>6, <1>7 DEF Current
<1>9. c.copy = Restore(RowOf(c.copy), c.copy.bindings)
  BY <1>1 DEF Restore, RowOf, Shelves
<1>10. /\ shelves'[c.shelf] = RowOf(Changed(c))
       /\ bindings'[c.shelf] = Changed(c).bindings
       /\ \A s \in ShelfIds \ {c.shelf} : Same(s)
  BY <1>1, <1>2, <1>3 DEF OverwriteShelf, Same
<1>11. Bumped(c.shelf)
  BY <1>4, <1>5, <1>7, <1>8, <1>10, RowOfFits DEF Bumped, Live
<1>12. QED
  BY <1>1, <1>8, <1>9, <1>10, <1>11 DEF c

\* A step without a write, after which the request holds something current.
LEMMA ReadPreserves ==
  ASSUME IInv, TypeInv', NEW m \in Managers, NEW d,
         cmd' = [cmd EXCEPT ![m] = d], UNCHANGED shelfTables,
         Current(d), InOrder(d), d.step # "add",
         d.shelf \in {cmd[m].shelf, NoShelf} \cup known
  PROVE  Preserved' /\ Moves(m)
<1>1. Moves(m)
  BY DEF shelfTables, Moves, Same
<1>2. Current(d)' /\ InOrder(d)'
  BY DEF shelfTables, Current, InOrder, Live, Holding
<1>3. FreshIds'
  BY FreshKept DEF IInv, shelfTables, Live
<1>4. CopyIsCurrent' /\ VersionsInOrder'
  BY <1>1, <1>2, OthersKept DEF IInv, Moves
<1>5. SingletonBindings'
  BY <1>1, SingletonsKept DEF IInv, Moves
<1>6. QED
  BY <1>1, <1>3, <1>4, <1>5 DEF Preserved

\* Requests arrive with versions their clients have seen.
LEMMA SubmitPreserves ==
  ASSUME IInv, TypeInv', NEW m \in Managers, Submit(m)
  PROVE  Preserved' /\ Moves(m)
<1>a. /\ shelves \in [ShelfIds -> Rows \cup {NoShelf}]
      /\ cmd \in [Managers -> Commands]
  BY DEF IInv, TypeInv, TypeOK, StoreTypeOK, ManagementTypeOK
<1>b. UNCHANGED shelfTables
  BY SubmitReads DEF tables
<1>1. PICK s \in ShelfIds :
        \/ \E c \in Configs \cup {Blank} : PostShelf(m, s, c)
        \/ \E v \in SeenVersions(s) :
             \/ \E c \in Configs \cup {Blank} : PutShelf(m, s, v, c)
             \/ \E e \in BOOLEAN : PatchEnabled(m, s, v, e)
             \/ \E w \in BindingLists : PutConfiguration(m, s, v, w)
             \/ DeleteRequest(m, s, v)
  BY DEF Submit
<1>2. ASSUME NEW c \in Configs \cup {Blank}, PostShelf(m, s, c)
      PROVE  Preserved' /\ Moves(m)
  <2>1. CASE c = Blank
    <3> DEFINE i == [Idle EXCEPT !.op = "create"]
               d == Answered(i, "invalid")
    <3>1. i \in Commands
      BY IdleFits DEF Commands, Operations
    <3> HIDE DEF i
    <3>2. d.step = "idle" /\ d.copy = NoShelf /\ d.shelf = NoShelf
      BY <3>1, AnsweredFits DEF Answers
    <3>3. cmd' = [cmd EXCEPT ![m] = d]
      BY <1>2, <2>1 DEF PostShelf, Arrive, i
    <3> HIDE DEF d
    <3>4. Current(d) /\ InOrder(d)
      BY <3>2 DEF Current, InOrder, Holding
    <3>5. QED
      BY <1>b, <3>2, <3>3, <3>4, ReadPreserves
  <2>2. CASE c # Blank
    <3> DEFINE d == [Idle EXCEPT !.step = "add", !.op = "create", !.shelf = s, !.config = c]
    <3>1. d.step = "add" /\ d.shelf = s /\ d.copy = NoShelf
      BY IdleFits DEF Commands
    <3>2. /\ cmd' = [cmd EXCEPT ![m] = d]
          /\ s \notin known
          /\ \A k \in Managers : cmd[k].shelf # s
      BY <1>2, <2>2 DEF PostShelf, Arrive
    <3> HIDE DEF d
    <3>3. Moves(m)
      BY <1>b DEF shelfTables, Moves, Same
    <3>4. Current(d)' /\ InOrder(d)'
      BY <3>1 DEF Current, InOrder, Holding
    <3>5. CopyIsCurrent' /\ VersionsInOrder'
      BY <3>2, <3>3, <3>4, OthersKept DEF IInv, Moves
    <3>6. SingletonBindings'
      BY <3>3, SingletonsKept DEF IInv, Moves
    <3>7. FreshIds'
      <4>1. cmd'[m] = d /\ \A k \in Managers \ {m} : cmd'[k] = cmd[k]
        BY <1>a, <3>2
      <4>2. ASSUME NEW k \in Managers, cmd'[k].step = "add"
            PROVE  /\ cmd'[k].shelf \notin known
                   /\ \A j \in Managers : cmd'[j].shelf = cmd'[k].shelf => j = k
        <5>1. CASE k = m
          BY <3>1, <3>2, <4>1, <5>1
        <5>2. CASE k # m
          BY <3>1, <3>2, <4>1, <4>2, <5>2 DEF IInv, FreshIds
        <5>3. QED
          BY <5>1, <5>2
      <4>3. \A x \in ShelfIds : shelves'[x] # NoShelf => x \in known
        BY <1>b DEF IInv, FreshIds, Live, shelfTables
      <4>4. known' = known
        BY <1>b DEF shelfTables
      <4>5. QED
        BY <4>2, <4>3, <4>4 DEF FreshIds, Live
    <3>8. QED
      BY <3>3, <3>5, <3>6, <3>7 DEF Preserved
  <2>3. QED
    BY <2>1, <2>2
<1>3. ASSUME NEW v \in SeenVersions(s), NEW d, cmd' = [cmd EXCEPT ![m] = d],
             s \in known, d.step = "row", d.shelf = s, d.expected = v, d.copy = NoShelf
      PROVE  Preserved' /\ Moves(m)
  <2>1. Live(s) => v =< shelves[s].version
    <3>1. Live(s) => shelves[s].version \in Nat
      BY <1>a DEF Live, Rows
    <3>2. QED
      BY <3>1 DEF SeenVersions
  <2>2. Current(d) /\ InOrder(d)
    BY <1>3, <2>1 DEF Current, InOrder, Holding
  <2>3. QED
    BY <1>b, <1>3, <2>2, ReadPreserves
<1>4. ASSUME NEW v \in SeenVersions(s), NEW c \in Configs \cup {Blank}, PutShelf(m, s, v, c)
      PROVE  Preserved' /\ Moves(m)
  <2> DEFINE d == [Request("update", s, v) EXCEPT !.config = c]
  <2>1. d.step = "row" /\ d.shelf = s /\ d.expected = v /\ d.copy = NoShelf
    BY DEF Request, Idle
  <2>2. cmd' = [cmd EXCEPT ![m] = d] /\ s \in known
    BY <1>4 DEF PutShelf, Addressable, Arrive
  <2> HIDE DEF d
  <2>3. QED
    BY <1>3, <2>1, <2>2
<1>5. ASSUME NEW v \in SeenVersions(s), NEW e \in BOOLEAN, PatchEnabled(m, s, v, e)
      PROVE  Preserved' /\ Moves(m)
  <2> DEFINE d == [Request("enable", s, v) EXCEPT !.enabled = e]
  <2>1. d.step = "row" /\ d.shelf = s /\ d.expected = v /\ d.copy = NoShelf
    BY DEF Request, Idle
  <2>2. cmd' = [cmd EXCEPT ![m] = d] /\ s \in known
    BY <1>5 DEF PatchEnabled, Addressable, Arrive
  <2> HIDE DEF d
  <2>3. QED
    BY <1>3, <2>1, <2>2
<1>6. ASSUME NEW v \in SeenVersions(s), NEW w \in BindingLists, PutConfiguration(m, s, v, w)
      PROVE  Preserved' /\ Moves(m)
  <2> DEFINE d == [Request("configure", s, v) EXCEPT !.wanted = w]
  <2>1. d.step = "row" /\ d.shelf = s /\ d.expected = v /\ d.copy = NoShelf
    BY DEF Request, Idle
  <2>2. cmd' = [cmd EXCEPT ![m] = d] /\ s \in known
    BY <1>6 DEF PutConfiguration, Addressable, Arrive
  <2> HIDE DEF d
  <2>3. QED
    BY <1>3, <2>1, <2>2
<1>7. ASSUME NEW v \in SeenVersions(s), DeleteRequest(m, s, v)
      PROVE  Preserved' /\ Moves(m)
  <2> DEFINE d == Request("delete", s, v)
  <2>1. d.step = "row" /\ d.shelf = s /\ d.expected = v /\ d.copy = NoShelf
    BY DEF Request, Idle
  <2>2. cmd' = [cmd EXCEPT ![m] = d] /\ s \in known
    BY <1>7 DEF DeleteRequest, Arrive
  <2> HIDE DEF d
  <2>3. QED
    BY <1>3, <2>1, <2>2
<1>8. QED
  BY <1>1, <1>2, <1>4, <1>5, <1>6, <1>7

\* The steps of a request, and its abortion.
LEMMA AdvancePreserves ==
  ASSUME IInv, TypeInv', NEW m \in Managers, Advance(m) \/ Abort(m)
  PROVE  Preserved' /\ Moves(m)
<1> DEFINE c == cmd[m]
<1>a. /\ c \in Commands /\ Shape(c) /\ Current(c) /\ InOrder(c)
      /\ c.step # "idle" => c.shelf \in ShelfIds
      /\ c.step \in {"idle", "add", "row"} => c.copy = NoShelf
      /\ c.step \notin {"idle", "add", "row"} => c.copy \in Shelves
  BY CommandInFlight DEF IInv, TypeInv, TypeOK, CopyIsCurrent, VersionsInOrder
<1>b. /\ shelves \in [ShelfIds -> Rows \cup {NoShelf}]
      /\ bindings \in [ShelfIds -> SUBSET Bindings]
      /\ cmd \in [Managers -> Commands]
  BY DEF IInv, TypeInv, TypeOK, StoreTypeOK, ManagementTypeOK
<1>c. NoShelf \notin Shelves
  BY StoreAssumption
<1>d. \/ AddShelf(m) \/ CheckResource(m) \/ ReplaceStep(m) \/ UpdateShelf(m)
      \/ CheckHistory(m) \/ RemoveShelf(m) \/ ListShelves(m) \/ ReadBack(m)
      \/ Abort(m)
      => \E d : cmd' = [cmd EXCEPT ![m] = d] /\ Continues(c, d)
  BY AdvanceContinues DEF IInv
<1> HIDE DEF c
<1>e. ASSUME UNCHANGED shelfTables, NEW e, NEW d, cmd' = [cmd EXCEPT ![m] = d],
             Continues(e, d), Current(e), InOrder(e), e.shelf = c.shelf,
             e.step # "bindings" \/ d.copy = NoShelf
      PROVE  Preserved' /\ Moves(m)
  <2>1. d.step # "add" /\ d.shelf \in {c.shelf, NoShelf} \cup known
    BY <1>e DEF Continues, ReadOn
  <2>2. Current(d) /\ InOrder(d)
    <3>1. CASE d.copy = NoShelf
      BY <1>e, <3>1 DEF Continues, Current, InOrder, Holding
    <3>2. CASE e.step # "bindings"
      BY <1>c, <1>e, <3>2, ContinuesCurrent
    <3>3. QED
      BY <1>e, <3>1, <3>2
  <2>3. QED
    BY <1>e, <2>1, <2>2, ReadPreserves DEF c
<1>1. CASE CheckResource(m) \/ ReplaceStep(m) \/ CheckHistory(m) \/ ListShelves(m) \/ ReadBack(m)
  <2>1. c.step # "bindings"
    BY <1>1 DEF CheckResource, ReplaceStep, CheckHistory, ListShelves, ReadBack, At, c
  <2>2. UNCHANGED shelfTables
    BY <1>1 DEF CheckResource, ReplaceStep, CheckHistory, ListShelves, ReadBack, tables
  <2>3. QED
    BY <1>1, <1>a, <1>d, <1>e, <2>1, <2>2
<1>2. CASE Abort(m)
  <2>1. cmd' = [cmd EXCEPT ![m] = Answered(c, "aborted")] /\ UNCHANGED shelfTables
    BY <1>2 DEF Abort, Answer, tables, c
  <2>2. Continues(c, Answered(c, "aborted")) /\ Answered(c, "aborted").copy = NoShelf
    BY <1>a, AnsweredContinues, AnsweredFits DEF Answers
  <2>3. QED
    BY <1>a, <1>e, <2>1, <2>2
<1>3. CASE SelectRow(m)
  <2>1. c.step = "row" /\ c.shelf \in ShelfIds /\ UNCHANGED shelfTables
    BY <1>3, <1>a DEF SelectRow, At, c, tables
  <2>2. CASE ~Live(c.shelf)
    <3>1. cmd' = [cmd EXCEPT ![m] = Answered(c, "notFound")]
      BY <1>3, <2>2 DEF SelectRow, c
    <3>2. Continues(c, Answered(c, "notFound"))
      BY <1>a, AnsweredContinues DEF Answers
    <3>3. QED
      BY <1>a, <1>e, <2>1, <3>1, <3>2
  <2>3. CASE Live(c.shelf)
    <3>1. /\ shelves[c.shelf] \in Rows /\ bindings[c.shelf] \in SUBSET Bindings
          /\ shelves[c.shelf].version \in Nat
          /\ c.expected =< shelves[c.shelf].version
      BY <1>a, <1>b, <2>1, <2>3 DEF Live, InOrder, Rows
    <3>2. CASE Provider = "inmemory"
      <4> DEFINE copy == Restore(shelves[c.shelf], bindings[c.shelf])
                 e == [c EXCEPT !.copy = copy]
      <4>1. /\ copy \in Shelves /\ copy.version = shelves[c.shelf].version
            /\ copy.bindings = bindings[c.shelf] /\ RowOf(copy) = shelves[c.shelf]
        BY <3>1, RestoreFits
      <4> HIDE DEF copy
      <4>2. /\ e \in Commands /\ e.copy = copy /\ e.shelf = c.shelf /\ e.op = c.op
            /\ e.expected = c.expected /\ e.step = "row"
        BY <1>a, <2>1, <4>1 DEF Commands
      <4>3. cmd' = [cmd EXCEPT ![m] = AfterRead(e)]
        BY <1>3, <2>3, <3>2 DEF SelectRow, c, copy
      <4> HIDE DEF e
      <4>4. Current(e) /\ InOrder(e)
        BY <3>1, <4>1, <4>2 DEF Current, InOrder, Holding
      <4>5. Continues(e, AfterRead(e))
        BY <1>a, <2>1, <4>1, <4>2, AfterReadFits DEF Continues, Shape
      <4>6. QED
        BY <1>e, <2>1, <4>2, <4>3, <4>4, <4>5
    <3>3. CASE Provider # "inmemory"
      <4> DEFINE copy == Restore(shelves[c.shelf], {})
                 d == [c EXCEPT !.step = "bindings", !.copy = copy]
      <4>1. /\ copy \in Shelves /\ copy.version = shelves[c.shelf].version
            /\ RowOf(copy) = shelves[c.shelf]
        BY <3>1, RestoreFits
      <4> HIDE DEF copy
      <4>2. /\ d.copy = copy /\ d.shelf = c.shelf
            /\ d.expected = c.expected /\ d.step = "bindings"
        BY <1>a, <2>1, <4>1 DEF Commands
      <4>3. cmd' = [cmd EXCEPT ![m] = d]
        BY <1>3, <2>3, <3>3 DEF SelectRow, c, copy
      <4> HIDE DEF d
      <4>4. Current(d) /\ InOrder(d)
        BY <3>1, <4>1, <4>2 DEF Current, InOrder, Holding
      <4>5. QED
        BY <2>1, <4>2, <4>3, <4>4, ReadPreserves DEF c
    <3>4. QED
      BY <3>2, <3>3
  <2>4. QED
    BY <2>2, <2>3
<1>4. CASE SelectBindings(m)
  <2> DEFINE copy == Restore(c.copy, bindings[c.shelf])
             x == [c EXCEPT !.copy = copy]
  <2>1. /\ c.step = "bindings" /\ c.shelf \in ShelfIds /\ c.copy \in Shelves
        /\ UNCHANGED shelfTables
    BY <1>4, <1>a DEF SelectBindings, At, c, tables
  <2>2. bindings[c.shelf] \in SUBSET Bindings
    BY <1>b, <2>1
  <2>3. /\ copy \in Shelves /\ copy.version = c.copy.version
        /\ copy.bindings = bindings[c.shelf] /\ RowOf(copy) = RowOf(c.copy)
    BY <2>1, <2>2 DEF Restore, Shelves, RowOf
  <2> HIDE DEF copy
  <2>4. /\ x \in Commands /\ x.copy = copy /\ x.shelf = c.shelf /\ x.op = c.op
        /\ x.expected = c.expected
    BY <1>a, <2>1, <2>3 DEF Commands
  <2>5. cmd' = [cmd EXCEPT ![m] = AfterRead(x)]
    BY <1>4 DEF SelectBindings, c, copy
  <2> HIDE DEF x
  <2>6. Continues(x, AfterRead(x))
    BY <1>a, <2>1, <2>3, <2>4, AfterReadFits DEF Continues, Shape
  <2>7. Current(AfterRead(x)) /\ InOrder(AfterRead(x))
    <3>1. Holding(c) /\ c.expected =< c.copy.version
      BY <1>a, <1>c, <2>1 DEF Holding, InOrder
    <3>2. Live(c.shelf) => c.copy.version =< shelves[c.shelf].version
      BY <1>a, <3>1 DEF InOrder
    <3>3. Live(c.shelf) /\ c.copy.version = shelves[c.shelf].version
            => RowOf(c.copy) = shelves[c.shelf]
      BY <1>a, <3>1 DEF Current
    <3>4. QED
      BY <2>3, <2>4, <2>6, <3>1, <3>2, <3>3
         DEF Continues, ReadOn, Current, InOrder, Holding
  <2>8. QED
    BY <2>1, <2>4, <2>5, <2>6, <2>7, ReadPreserves DEF Continues, ReadOn, c
<1>5. CASE AddShelf(m)
  <2> DEFINE new == NewShelf(c.config)
  <2>1. PICK d : cmd' = [cmd EXCEPT ![m] = d] /\ Continues(c, d)
    BY <1>5, <1>d
  <2>2. c.step = "add" /\ c.shelf \in ShelfIds /\ c.copy = NoShelf
    BY <1>5, <1>a DEF AddShelf, At, c
  <2>3. /\ new \in Shelves /\ new.bindings = {}
    BY <1>a, NewShelfFits DEF Commands
  <2>4. /\ shelves' = [shelves EXCEPT ![c.shelf] = RowOf(new)]
        /\ bindings' = [bindings EXCEPT ![c.shelf] = new.bindings]
        /\ known' = known \cup {c.shelf}
    BY <1>5 DEF AddShelf, InsertShelf, c
  <2> HIDE DEF new
  <2>5. /\ Inserted(c.shelf, m)
        /\ \A s \in ShelfIds \ {c.shelf} : Same(s)
    BY <1>b, <2>2, <2>3, <2>4, RowOfFits DEF Inserted, Same, c
  <2>6. Moves(m)
    BY <2>5 DEF Moves
  <2>7. Current(d)' /\ InOrder(d)'
    BY <2>1, <2>2 DEF Continues, ReadOn, Current, InOrder, Holding
  <2>8. FreshIds'
    <3>1. \A s \in ShelfIds : Live(s)' => Live(s) \/ s \in known'
      BY <2>4, <2>5 DEF Same, Live
    <3>2. d.step # "add" /\ d.shelf \in {c.shelf, NoShelf} \cup known
      BY <2>1 DEF Continues, ReadOn
    <3>3. QED
      BY <2>1, <2>2, <2>4, <3>1, <3>2, FreshKept DEF IInv, c
  <2>9. CopyIsCurrent' /\ VersionsInOrder'
    BY <2>1, <2>6, <2>7, OthersKept DEF IInv, Moves
  <2>10. SingletonBindings'
    BY <2>6, SingletonsKept DEF IInv, Moves
  <2>11. QED
    BY <2>6, <2>8, <2>9, <2>10 DEF Preserved
<1>6. CASE (UpdateShelf(m) \/ RemoveShelf(m)) /\ ~HasVersion(c.shelf, c.expected)
  <2>1. UNCHANGED shelfTables /\ c.step # "bindings"
    BY <1>6 DEF UpdateShelf, RemoveShelf, At, c
  <2>2. QED
    BY <1>6, <1>a, <1>d, <1>e, <2>1
<1>7. CASE (UpdateShelf(m) \/ RemoveShelf(m)) /\ HasVersion(c.shelf, c.expected)
  <2>1. PICK d : cmd' = [cmd EXCEPT ![m] = d] /\ Continues(c, d)
    BY <1>7, <1>d
  <2>2. /\ c.shelf \in ShelfIds /\ c.copy \in Shelves
        /\ c.step \in {"write", "remove"} /\ c.expected =< c.copy.version
        /\ known' = known
    BY <1>7, <1>a, <1>c DEF UpdateShelf, RemoveShelf, At, c, InOrder, Holding,
                            OverwriteShelf, DeleteShelf
  <2>3. Moves(m) /\ (Gone(c.shelf) \/ Bumped(c.shelf)) /\ \A s \in ShelfIds \ {c.shelf} : Same(s)
    <3>1. CASE UpdateShelf(m)
      BY <1>7, <3>1, UpdateMoves DEF Moves, c
    <3>2. CASE RemoveShelf(m)
      BY <1>7, <1>b, <2>2, <3>2 DEF RemoveShelf, DeleteShelf, Gone, Same, Moves, c
    <3>3. QED
      BY <1>7, <3>1, <3>2
  <2>4. Current(d)' /\ InOrder(d)'
    <3>1. CASE d.copy = NoShelf
      BY <2>1, <3>1 DEF Continues, Current, InOrder, Holding
    <3>2. CASE d.copy # NoShelf
      <4>1. d.copy = c.copy /\ d.shelf = c.shelf /\ d.expected = c.expected
        BY <2>1, <3>2 DEF Continues, ReadOn
      <4>2. CASE Gone(c.shelf)
        BY <2>1, <2>2, <4>1, <4>2 DEF Gone, Continues, Current, InOrder, Holding, Live
      <4>3. CASE Bumped(c.shelf)
        <5>1. shelves[c.shelf].version \in Nat /\ c.copy.version \in Nat
          BY <1>b, <2>2, <4>3 DEF Bumped, Rows, Shelves
        <5>2. c.copy.version =< shelves[c.shelf].version
          BY <1>a, <1>c, <2>2, <4>3 DEF Bumped, InOrder, Holding, Live
        <5>3. c.copy.version < shelves'[c.shelf].version
          BY <4>3, <5>1, <5>2 DEF Bumped
        <5>4. shelves'[c.shelf].version \in Nat
          BY <4>3, <5>1 DEF Bumped
        <5>5. Current(d)'
          BY <4>1, <5>1, <5>3, <5>4 DEF Current
        <5>6. InOrder(d)'
          BY <2>1, <2>2, <4>1, <5>1, <5>3, <5>4 DEF Continues, InOrder
        <5>7. QED
          BY <5>5, <5>6
      <4>4. QED
        BY <2>3, <4>2, <4>3
    <3>3. QED
      BY <3>1, <3>2
  <2>5. FreshIds'
    <3>1. \A s \in ShelfIds : Live(s)' => Live(s) \/ s \in known'
      BY <2>2, <2>3 DEF Same, Gone, Bumped, Live
    <3>2. d.step # "add" /\ d.shelf \in {c.shelf, NoShelf} \cup known
      BY <2>1 DEF Continues, ReadOn
    <3>3. QED
      BY <2>1, <2>2, <3>1, <3>2, FreshKept DEF IInv, c
  <2>6. CopyIsCurrent' /\ VersionsInOrder'
    BY <2>1, <2>3, <2>4, OthersKept DEF IInv, Moves
  <2>7. SingletonBindings'
    BY <2>3, SingletonsKept DEF IInv, Moves
  <2>8. QED
    BY <2>3, <2>5, <2>6, <2>7 DEF Preserved
<1>8. QED
  BY <1>1, <1>2, <1>3, <1>4, <1>5, <1>6, <1>7 DEF Advance

-----------------------------------------------------------------------------
(* The invariant. *)

\* The database the process starts with.
LEMMA InitPreserved == Init => Preserved
<1> SUFFICES ASSUME Init PROVE Preserved
  OBVIOUS
<1>1. \A m \in Managers : cmd[m] = Idle
  BY DEF Init, ManagementInit
<1>2. ASSUME NEW s \in ShelfIds
      PROVE  /\ Live(s) <=> Stock[s] # NoShelf
             /\ bindings[s] = IF Stock[s] = NoShelf THEN {} ELSE Stock[s].bindings
             /\ Live(s) => s \in known
  <2>1. Stock[s] # NoShelf => RowOf(Stock[s]) # NoShelf
    BY RowOfFits, StoreAssumption
  <2>2. QED
    BY <2>1 DEF Init, StoreInit, Live
<1>3. SingletonBindings
  BY <1>2, StoreAssumption DEF SingletonBindings, SingletonsHold
<1>4. FreshIds /\ VersionsInOrder /\ CopyIsCurrent
  BY <1>1, <1>2, IdleFits DEF FreshIds, VersionsInOrder, CopyIsCurrent, InOrder, Current, Holding
<1>5. QED
  BY <1>3, <1>4 DEF Preserved

\* Requests that are not about shelves, and restarts.
LEMMA OthersPreserve ==
  ASSUME IInv, UNCHANGED shelfTables,
         cmd' = cmd \/ cmd' = [m \in Managers |-> Idle]
  PROVE  Preserved'
<1>1. CASE cmd' = cmd
  BY <1>1 DEF IInv, Preserved, FreshIds, VersionsInOrder, CopyIsCurrent,
              SingletonBindings, InOrder, Current, Holding, Live, shelfTables
<1>2. CASE cmd' = [m \in Managers |-> Idle]
  <2>1. \A m \in Managers : cmd'[m] = Idle
    BY <1>2
  <2>2. SingletonBindings'
    BY DEF IInv, SingletonBindings, Live, shelfTables
  <2>3. VersionsInOrder' /\ CopyIsCurrent'
    BY <2>1, IdleFits DEF VersionsInOrder, CopyIsCurrent, InOrder, Current, Holding
  <2>4. FreshIds'
    BY <2>1, IdleFits DEF IInv, FreshIds, Live, shelfTables
  <2>5. QED
    BY <2>2, <2>3, <2>4 DEF Preserved
<1>3. QED
  BY <1>1, <1>2

\* Requests on the history and the catalog, and restarts, leave the shelf tables.
LEMMA OthersLeaveShelves ==
  ASSUME TypeInv,
         RecordingNext \/ CatalogNext \/ Restart \/ UNCHANGED vars
  PROVE  UNCHANGED shelfTables
<1>1. CASE RecordingNext
  BY <1>1 DEF RecordingNext, PostObservation, AdvanceRecording, ReadShelf, ReadBindings,
              Judge, Record, SetLed, AbortRecording, Acknowledge, ReadAcknowledged,
              AbortAck, tables
<1>2. CASE CatalogNext
  BY <1>2, ClerkFits
<1>3. CASE Restart \/ UNCHANGED vars
  BY <1>3 DEF Restart, vars, tables
<1>4. QED
  BY <1>1, <1>2, <1>3

\* A step either belongs to one management request or leaves the shelves alone.
LEMMA StepMoves ==
  ASSUME IInv, [Next]_vars
  PROVE  IInv' /\ (UNCHANGED shelfTables \/ \E m \in Managers : Moves(m))
<1>1. TypeInv'
  BY TypeStep DEF IInv
<1>2. CASE ManagementNext
  <2>1. PICK m \in Managers : Submit(m) \/ Advance(m) \/ Abort(m)
    BY <1>2 DEF ManagementNext
  <2>2. Preserved' /\ Moves(m)
    BY <1>1, <2>1, SubmitPreserves, AdvancePreserves
  <2>3. QED
    BY <1>1, <2>2 DEF IInv, Preserved
<1>3. CASE ~ManagementNext
  <2>1. UNCHANGED shelfTables
    BY <1>3, OthersLeaveShelves DEF Next, IInv
  <2>2. cmd' = cmd \/ cmd' = [m \in Managers |-> Idle]
    BY <1>3 DEF Next, Restart, vars
  <2>3. Preserved'
    BY <2>1, <2>2, OthersPreserve
  <2>4. QED
    BY <1>1, <2>1, <2>3 DEF IInv, Preserved
<1>4. QED
  BY <1>2, <1>3

\* What every request in flight may rely on, at every moment.
THEOREM InductiveInvariant == Spec => []IInv
<1>1. Init => IInv
  BY InitFits, InitPreserved DEF IInv, Preserved
<1>2. IInv /\ [Next]_vars => IInv'
  BY StepMoves
<1>3. QED
  BY <1>1, <1>2, PTL DEF Spec

\* A copy that still has the version of the shelf is the shelf, although the row
\* and the bindings were read by two statements (SqliteShelfRepository).
THEOREM CopiesAreCurrent == Spec => []CopyIsCurrent
<1>1. IInv => CopyIsCurrent
  BY DEF IInv
<1>2. QED
  BY <1>1, InductiveInvariant, PTL

\* The expected version of a request is no newer than the one it read, which is
\* no newer than the stored one.
THEOREM VersionsStayInOrder == Spec => []VersionsInOrder
<1>1. IInv => VersionsInOrder
  BY DEF IInv
<1>2. QED
  BY <1>1, InductiveInvariant, PTL

\* No interleaving of configurations gives a shelf a second controller, camera or
\* LED output.
THEOREM SingletonsStay == Spec => []SingletonBindings
<1>1. IInv => SingletonBindings
  BY DEF IInv
<1>2. QED
  BY <1>1, InductiveInvariant, PTL

\* A version is never used for two different contents of a shelf.
THEOREM VersionsCount == Spec => VersionCountsChanges
<1>1. ASSUME IInv, [Next]_vars
      PROVE  \A s \in ShelfIds :
               Live(s) /\ Live(s)' =>
                 \/ Aggregate(s)' = Aggregate(s)
                 \/ shelves'[s].version = shelves[s].version + 1
  <2>1. CASE UNCHANGED shelfTables
    BY <2>1 DEF shelfTables, Aggregate, Live
  <2>2. ASSUME NEW m \in Managers, Moves(m), NEW s \in ShelfIds, Live(s), Live(s)'
        PROVE  \/ Aggregate(s)' = Aggregate(s)
               \/ shelves'[s].version = shelves[s].version + 1
    <3>1. ~Inserted(s, m)
      <4>1. s \in known
        BY <1>1, <2>2 DEF IInv, FreshIds
      <4>2. cmd[m].step = "add" => cmd[m].shelf \notin known
        BY <1>1 DEF IInv, FreshIds
      <4>3. QED
        BY <4>1, <4>2 DEF Inserted
    <3>2. Same(s) \/ Bumped(s)
      BY <2>2, <3>1 DEF Moves, Gone, Live
    <3>3. QED
      BY <3>2 DEF Same, Bumped, Aggregate, Live
  <2>3. QED
    BY <1>1, <2>1, <2>2, StepMoves
<1>2. QED
  BY <1>1, InductiveInvariant, PTL DEF Spec, VersionCountsChanges

-----------------------------------------------------------------------------
(* What is refused was not written. *)

\* A request in flight has no answer yet, and when a store has committed it only
\* the answer is still to be read.
Pending(c) ==
  c.step # "idle" => c.answer = "none" /\ (c.wrote => c.step \in {"list", "readBack"})

\* The request is over with a refusal although it was committed.
RefusedAfterWrite(c) == c.wrote /\ c.answer \in {"notFound", "conflict", "invalid"}

LEMMA AnsweredPending ==
  ASSUME NEW c, NEW a
  PROVE  /\ Pending(Answered(c, a))
         /\ Answered(c, a).wrote = c.wrote /\ Answered(c, a).answer = a
  BY DEF Pending, Answered, Idle

\* A request that arrives has read nothing yet.
Arriving(c) ==
  Pending(c) /\ c.copy = NoShelf /\ c.step \in {"idle", "add", "row"}

LEMMA SubmitPending ==
  ASSUME NEW m \in Managers, Submit(m)
  PROVE  Free(m) /\ \E d : cmd' = [cmd EXCEPT ![m] = d] /\ Arriving(d)
<1>1. ASSUME NEW d, Arrive(m, d), Arriving(d)
      PROVE  Free(m) /\ \E e : cmd' = [cmd EXCEPT ![m] = e] /\ Arriving(e)
  BY <1>1 DEF Arrive
<1>2. ASSUME NEW op, NEW s, NEW v, NEW config, NEW enabled, NEW wanted
      PROVE  /\ Arriving(Request(op, s, v))
             /\ Arriving([Request(op, s, v) EXCEPT !.config = config])
             /\ Arriving([Request(op, s, v) EXCEPT !.enabled = enabled])
             /\ Arriving([Request(op, s, v) EXCEPT !.wanted = wanted])
             /\ Arriving([Idle EXCEPT !.step = "add", !.op = "create",
                                     !.shelf = s, !.config = config])
  BY DEF Arriving, Pending, Request, Idle
<1>3. PICK s \in ShelfIds :
        \/ \E c \in Configs \cup {Blank} : PostShelf(m, s, c)
        \/ \E v \in SeenVersions(s) :
             \/ \E c \in Configs \cup {Blank} : PutShelf(m, s, v, c)
             \/ \E e \in BOOLEAN : PatchEnabled(m, s, v, e)
             \/ \E w \in BindingLists : PutConfiguration(m, s, v, w)
             \/ DeleteRequest(m, s, v)
  BY DEF Submit
<1>4. ASSUME NEW c \in Configs \cup {Blank}, PostShelf(m, s, c)
      PROVE  Free(m) /\ \E e : cmd' = [cmd EXCEPT ![m] = e] /\ Arriving(e)
  <2>1. CASE c = Blank
    <3>1. Arriving(Answered([Idle EXCEPT !.op = "create"], "invalid"))
      BY DEF Arriving, Pending, Answered, Idle
    <3>2. QED
      BY <1>1, <1>4, <2>1, <3>1 DEF PostShelf
  <2>2. CASE c # Blank
    BY <1>1, <1>2, <1>4, <2>2 DEF PostShelf
  <2>3. QED
    BY <2>1, <2>2
<1>5. QED
  BY <1>1, <1>2, <1>3, <1>4 DEF PutShelf, PatchEnabled, PutConfiguration, DeleteRequest

\* The local part of a handler after its read writes nothing.
LEMMA AfterReadPending ==
  ASSUME NEW c \in Commands, ~c.wrote, c.answer = "none",
         c.op \in {"update", "enable", "configure", "delete"}
  PROVE  Pending(AfterRead(c)) /\ ~AfterRead(c).wrote
<1>1. ASSUME NEW x \in Steps
      PROVE  LET d == [c EXCEPT !.step = x] IN Pending(d) /\ ~d.wrote
  BY DEF Commands, Pending
<1>2. LET d == [c EXCEPT !.step = "check", !.left = c.wanted] IN Pending(d) /\ ~d.wrote
  BY DEF Commands, Pending
<1>3. \/ \E a : AfterRead(c) = Answered(c, a)
      \/ \E x \in Steps : AfterRead(c) = [c EXCEPT !.step = x]
      \/ AfterRead(c) = [c EXCEPT !.step = "check", !.left = c.wanted]
  BY DEF AfterRead, Steps
<1>4. CASE \E a : AfterRead(c) = Answered(c, a)
  BY <1>4, AnsweredPending
<1>5. CASE \E x \in Steps : AfterRead(c) = [c EXCEPT !.step = x]
  BY <1>1, <1>5
<1>6. CASE AfterRead(c) = [c EXCEPT !.step = "check", !.left = c.wanted]
  BY <1>2, <1>6
<1>7. QED
  BY <1>3, <1>4, <1>5, <1>6

\* A handler that goes on, or answers; a refusal of what it has written means that
\* its shelf is gone.
LEMMA AdvancePending ==
  ASSUME TypeInv, NEW m \in Managers, Pending(cmd[m]), Advance(m) \/ Abort(m)
  PROVE  \E d : /\ cmd' = [cmd EXCEPT ![m] = d] /\ Pending(d)
                /\ RefusedAfterWrite(d) => ~Live(cmd[m].shelf)
<1> DEFINE c == cmd[m]
           Goal == \E d : /\ cmd' = [cmd EXCEPT ![m] = d] /\ Pending(d)
                          /\ RefusedAfterWrite(d) => ~Live(c.shelf)
<1>0. SUFFICES Goal
  OBVIOUS
<1>a. c \in Commands /\ Shape(c) /\ Pending(c)
  BY CommandInFlight DEF TypeInv, TypeOK
<1>b. c.copy \in Shelves \cup {NoShelf}
  BY <1>a DEF Commands
<1> HIDE DEF c, Goal
<1>c. ASSUME NEW d, cmd' = [cmd EXCEPT ![m] = d], Pending(d), ~RefusedAfterWrite(d)
      PROVE  Goal
  BY <1>c DEF Goal
<1>d. ASSUME NEW a, Answer(m, a), ~c.wrote \/ a \in {"ok", "aborted"} \/ ~Live(c.shelf)
      PROVE  Goal
  <2>1. cmd' = [cmd EXCEPT ![m] = Answered(c, a)]
    BY <1>d DEF Answer, c
  <2>2. RefusedAfterWrite(Answered(c, a)) => ~Live(c.shelf)
    BY <1>d, AnsweredPending DEF RefusedAfterWrite
  <2>3. QED
    BY <2>1, <2>2, AnsweredPending DEF Goal
<1>e. ASSUME NEW x \in Steps, cmd' = [cmd EXCEPT ![m] = [c EXCEPT !.step = x]],
             c.step # "idle", ~c.wrote
      PROVE  Goal
  <2>1. LET d == [c EXCEPT !.step = x] IN Pending(d) /\ ~RefusedAfterWrite(d)
    BY <1>a, <1>e DEF Commands, Pending, RefusedAfterWrite
  <2>2. QED
    BY <1>c, <1>e, <2>1
<1>f. c.step \notin {"idle", "list", "readBack"} => ~c.wrote
  BY <1>a DEF Pending
<1>1. CASE AddShelf(m)
  <2> DEFINE d == Answered([c EXCEPT !.wrote = TRUE], "ok")
  <2>1. cmd' = [cmd EXCEPT ![m] = d]
    BY <1>1 DEF AddShelf, c
  <2>2. Pending(d) /\ d.answer = "ok"
    BY AnsweredPending
  <2> HIDE DEF d
  <2>3. QED
    BY <1>c, <2>1, <2>2 DEF RefusedAfterWrite
<1>2. CASE SelectRow(m)
  <2>1. c.step = "row" /\ ~c.wrote /\ c.answer = "none"
    BY <1>2, <1>a DEF SelectRow, At, Pending, c
  <2>2. c.op \in {"update", "enable", "configure", "delete"}
    BY <1>a, <2>1 DEF Shape
  <2>3. CASE ~Live(c.shelf)
    <3>1. Answer(m, "notFound")
      BY <1>2, <2>3 DEF SelectRow, Answer, c
    <3>2. QED
      BY <1>d, <2>3, <3>1
  <2>4. CASE Live(c.shelf)
    <3> DEFINE read == Restore(shelves[c.shelf], bindings[c.shelf])
               row == Restore(shelves[c.shelf], {})
               e == [c EXCEPT !.copy = read]
               d == [c EXCEPT !.step = "bindings", !.copy = row]
    <3>1. cmd' = [cmd EXCEPT ![m] = AfterRead(e)] \/ cmd' = [cmd EXCEPT ![m] = d]
      BY <1>2, <2>4 DEF SelectRow, c
    <3>2. read \in Shelves /\ row \in Shelves
      <4>1. c.shelf \in ShelfIds
        BY <1>a, <2>1 DEF Shape
      <4>2. shelves[c.shelf] \in Rows /\ bindings[c.shelf] \in SUBSET Bindings
        BY <2>4, <4>1 DEF TypeInv, TypeOK, StoreTypeOK, Live
      <4>3. QED
        BY <4>2, RestoreFits
    <3> HIDE DEF read, row
    <3>3. e \in Commands /\ ~e.wrote /\ e.answer = "none" /\ e.op = c.op
      BY <1>a, <2>1, <3>2 DEF Commands
    <3>4. Pending(d) /\ ~d.wrote
      BY <1>a, <2>1 DEF Commands, Pending, Steps
    <3> HIDE DEF e, d
    <3>5. Pending(AfterRead(e)) /\ ~AfterRead(e).wrote
      BY <2>2, <3>3, AfterReadPending
    <3>6. QED
      BY <1>c, <3>1, <3>4, <3>5 DEF RefusedAfterWrite
  <2>5. QED
    BY <2>3, <2>4
<1>3. CASE SelectBindings(m)
  <2> DEFINE read == Restore(c.copy, bindings[c.shelf])
             e == [c EXCEPT !.copy = read]
  <2>1. c.step = "bindings" /\ ~c.wrote /\ c.answer = "none"
    BY <1>3, <1>a DEF SelectBindings, At, Pending, c
  <2>2. c.op \in {"update", "enable", "configure", "delete"}
    BY <1>a, <2>1 DEF Shape
  <2>3. cmd' = [cmd EXCEPT ![m] = AfterRead(e)]
    BY <1>3 DEF SelectBindings, c
  <2>4. read \in Shelves
    <3>1. c.shelf \in ShelfIds /\ c.copy \in Shelves
      BY <1>a, <1>b, <2>1 DEF Shape
    <3>2. bindings[c.shelf] \in SUBSET Bindings
      BY <3>1 DEF TypeInv, TypeOK, StoreTypeOK
    <3>3. QED
      BY <3>1, <3>2 DEF Restore, Shelves
  <2> HIDE DEF read
  <2>5. e \in Commands /\ ~e.wrote /\ e.answer = "none" /\ e.op = c.op
    BY <1>a, <2>1, <2>4 DEF Commands
  <2> HIDE DEF e
  <2>6. QED
    BY <1>c, <2>2, <2>3, <2>5, AfterReadPending DEF RefusedAfterWrite
<1>4. CASE CheckResource(m)
  <2> DEFINE e == [c EXCEPT !.left = Tail(@)]
  <2>1. c.step = "check"
    BY <1>4 DEF CheckResource, At, c
  <2>2. cmd' = [cmd EXCEPT ![m] = e] \/ Answer(m, "invalid")
    BY <1>4 DEF CheckResource, Answer, c
  <2>3. Pending(e) /\ ~e.wrote
    BY <1>a, <1>f, <2>1 DEF Commands, Pending
  <2> HIDE DEF e
  <2>4. QED
    BY <1>c, <1>d, <1>f, <2>1, <2>2, <2>3 DEF RefusedAfterWrite
<1>5. CASE ReplaceStep(m)
  <2>1. c.step = "check"
    BY <1>5 DEF ReplaceStep, At, c
  <2>2. \/ Answer(m, "invalid")
        \/ \E x \in Steps : cmd' = [cmd EXCEPT ![m] = [c EXCEPT !.step = x]]
    BY <1>5 DEF ReplaceStep, Answer, Steps, c
  <2>3. QED
    BY <1>d, <1>e, <1>f, <2>1, <2>2
<1>6. CASE UpdateShelf(m)
  <2>1. c.step = "write" /\ c.op \in {"update", "enable", "configure"}
    BY <1>6, <1>a DEF UpdateShelf, At, Shape, c
  <2>2. CASE ~HasVersion(c.shelf, c.expected)
    BY <1>6, <1>d, <1>f, <2>1, <2>2 DEF UpdateShelf, c
  <2>3. CASE HasVersion(c.shelf, c.expected)
    <3> DEFINE d == AfterWrite(c)
    <3>1. cmd' = [cmd EXCEPT ![m] = d]
      BY <1>6, <2>3 DEF UpdateShelf, c
    <3>2. CASE c.op = "update"
      <4>1. d = Answered([c EXCEPT !.wrote = TRUE], "ok")
        BY <3>2 DEF AfterWrite
      <4>2. Pending(d) /\ d.answer = "ok"
        BY <4>1, AnsweredPending
      <4> HIDE DEF d
      <4>3. QED
        BY <1>c, <3>1, <4>2 DEF RefusedAfterWrite
    <3>3. CASE c.op \in {"enable", "configure"}
      <4>1. Pending(d) /\ d.answer = "none"
        BY <1>a, <2>1, <3>3 DEF AfterWrite, Commands, Pending, Steps
      <4> HIDE DEF d
      <4>2. QED
        BY <1>c, <3>1, <4>1 DEF RefusedAfterWrite
    <3>4. QED
      BY <2>1, <3>2, <3>3
  <2>4. QED
    BY <2>2, <2>3
<1>7. CASE CheckHistory(m)
  <2>1. c.step = "history"
    BY <1>7 DEF CheckHistory, At, c
  <2>2. \/ Answer(m, "conflict")
        \/ \E x \in Steps : cmd' = [cmd EXCEPT ![m] = [c EXCEPT !.step = x]]
    BY <1>7 DEF CheckHistory, Goto, Steps, c, TypeInv, TypeOK, ManagementTypeOK
  <2>3. QED
    BY <1>d, <1>e, <1>f, <2>1, <2>2
<1>8. CASE RemoveShelf(m)
  <2> DEFINE d == Answered([c EXCEPT !.wrote = TRUE], "ok")
  <2>1. c.step = "remove"
    BY <1>8 DEF RemoveShelf, At, c
  <2>2. cmd' = [cmd EXCEPT ![m] = d] \/ Answer(m, "conflict")
    BY <1>8 DEF RemoveShelf, c
  <2>3. Pending(d) /\ d.answer = "ok"
    BY AnsweredPending
  <2> HIDE DEF d
  <2>4. QED
    BY <1>c, <1>d, <1>f, <2>1, <2>2, <2>3 DEF RefusedAfterWrite
<1>9. CASE ListShelves(m) \/ ReadBack(m)
  <2>1. Live(c.shelf) => Answer(m, "ok")
    BY <1>9 DEF ListShelves, ReadBack, c
  <2>2. \E a : Answer(m, a)
    BY <1>9 DEF ListShelves, ReadBack
  <2>3. QED
    BY <1>d, <2>1, <2>2
<1>10. CASE Abort(m)
  BY <1>10, <1>d DEF Abort
<1>11. QED
  BY <1>1, <1>2, <1>3, <1>4, <1>5, <1>6, <1>7, <1>8, <1>9, <1>10 DEF Advance, c

\* A request that was committed is refused only when its shelf is gone by the time
\* its answer is read (ListShelves and ReadBack of the API).
THEOREM RefusedOnlyWhenGone == Spec => RefusedMeansUnchangedOrGone
<1> DEFINE PInv == \A m \in Managers : Pending(cmd[m])
           Step == \A m \in Managers :
                     ~Free(m) /\ cmd'[m].wrote
                       /\ cmd'[m].answer \in {"notFound", "conflict", "invalid"}
                       => ~Live(cmd[m].shelf)
<1>1. Init => PInv
  BY IdleFits DEF Init, ManagementInit, Pending
<1>2. ASSUME TypeInv, PInv, [Next]_vars
      PROVE  PInv' /\ Step
  <2>1. cmd \in [Managers -> Commands]
    BY <1>2 DEF TypeInv, TypeOK, ManagementTypeOK
  <2>2. ASSUME NEW m \in Managers, NEW d, cmd' = [cmd EXCEPT ![m] = d], Pending(d),
               Free(m) \/ (RefusedAfterWrite(d) => ~Live(cmd[m].shelf))
        PROVE  PInv' /\ Step
    <3>1. cmd'[m] = d /\ \A k \in Managers \ {m} : cmd'[k] = cmd[k]
      BY <2>1, <2>2
    <3>2. PInv'
      BY <1>2, <2>2, <3>1
    <3>3. \A k \in Managers \ {m} : ~Free(k) => cmd'[k].answer = "none"
      BY <1>2, <3>1 DEF Pending, Free
    <3>4. QED
      BY <2>2, <3>1, <3>2, <3>3 DEF RefusedAfterWrite
  <2>3. CASE ManagementNext
    <3>1. PICK m \in Managers : Submit(m) \/ Advance(m) \/ Abort(m)
      BY <2>3 DEF ManagementNext
    <3>2. CASE Submit(m)
      BY <2>2, <3>2, SubmitPending DEF Arriving
    <3>3. CASE Advance(m) \/ Abort(m)
      BY <1>2, <2>2, <3>3, AdvancePending
    <3>4. QED
      BY <3>1, <3>2, <3>3
  <2>4. CASE cmd' = cmd
    BY <1>2, <2>4 DEF Pending, Free
  <2>5. CASE cmd' = [m \in Managers |-> Idle]
    <3>1. \A m \in Managers : cmd'[m] = Idle
      BY <2>5
    <3>2. Pending(Idle) /\ ~Idle.wrote
      BY DEF Pending, Idle
    <3>3. QED
      BY <3>1, <3>2
  <2>6. QED
    BY <1>2, <2>3, <2>4, <2>5 DEF Next, Restart, vars
<1> HIDE DEF PInv
<1>3. Spec => []PInv
  BY <1>1, <1>2, TypeInvHolds, PTL DEF Spec
<1>4. QED
  BY <1>2, <1>3, TypeInvHolds, PTL DEF Spec, RefusedMeansUnchangedOrGone

-----------------------------------------------------------------------------
(* Resources that are bound. *)

\* Every binding names the kind its resource was created with.
Natural(bound) == \A b \in bound : b.kind = NaturalKind[b.id]

\* What a request that binds resources has looked up (UpdateShelfConfigurationHandler).
BindsNatural(c) ==
  /\ c.copy # NoShelf => Natural(c.copy.bindings)
  /\ c.step = "check" => Natural(Range(c.wanted) \ Range(c.left))
  /\ c.step = "write" /\ c.op = "configure" => Natural(Range(c.wanted))

\* While clients name the kinds resources were created with, so do the tables and
\* the requests; and one lock holds the bound test and the DELETE together.
KindsMatch ==
  /\ \A i \in ResourceIds : catalog[i] \in {"None", NaturalKind[i]}
  /\ \A s \in ShelfIds : Natural(bindings[s])
  /\ \A m \in Managers : BindsNatural(cmd[m])
  /\ \A d \in Clerks : del[d].step # "idle" =>
       del[d].id \in ResourceIds /\ del[d].kind = NaturalKind[del[d].id]
  /\ Provider = "inmemory" => \A d \in Clerks : del[d].step # "delete"

LEMMA AnsweredNatural ==
  ASSUME NEW c, NEW a
  PROVE  BindsNatural(Answered(c, a))
  BY DEF BindsNatural, Answered, Idle

LEMMA AfterReadNatural ==
  ASSUME NEW c \in Commands, Natural(c.copy.bindings),
         c.op \in {"update", "enable", "configure", "delete"}
  PROVE  BindsNatural(AfterRead(c))
<1>1. ASSUME NEW x \in {"list", "history", "write"}, x = "write" => c.op # "configure"
      PROVE  BindsNatural([c EXCEPT !.step = x])
  BY <1>1 DEF Commands, BindsNatural, Steps
<1>2. BindsNatural([c EXCEPT !.step = "check", !.left = c.wanted])
  <2> DEFINE d == [c EXCEPT !.step = "check", !.left = c.wanted]
  <2>1. d.step = "check" /\ d.left = d.wanted /\ d.copy = c.copy
    BY DEF Commands
  <2> HIDE DEF d
  <2>2. BindsNatural(d)
    BY <2>1 DEF BindsNatural, Natural
  <2>3. QED
    BY <2>2 DEF d
<1>3. \/ \E a : AfterRead(c) = Answered(c, a)
      \/ \E x \in {"list", "history", "write"} :
           (x = "write" => c.op # "configure") /\ AfterRead(c) = [c EXCEPT !.step = x]
      \/ AfterRead(c) = [c EXCEPT !.step = "check", !.left = c.wanted]
  BY DEF AfterRead
<1>4. CASE \E a : AfterRead(c) = Answered(c, a)
  BY <1>4, AnsweredNatural
<1>5. QED
  BY <1>1, <1>2, <1>3, <1>4

\* One more resource has been found, of the kind its binding names.
LEMMA LookedUp ==
  ASSUME NEW wanted, NEW left \in Seq(Bindings), left # <<>>,
         Natural(Range(wanted) \ Range(left)), Head(left).kind = NaturalKind[Head(left).id]
  PROVE  Natural(Range(wanted) \ Range(Tail(left)))
<1>1. ASSUME NEW b \in Range(left), b # Head(left)
      PROVE  b \in Range(Tail(left))
  <2>1. PICK i \in 1..Len(left) : b = left[i]
    BY LenProperties DEF Range
  <2>2. i # 1 /\ i - 1 \in 1..Len(Tail(left)) /\ Tail(left)[i - 1] = left[i]
    BY <1>1, <2>1, HeadTailProperties
  <2>3. Tail(left) \in Seq(Bindings)
    BY HeadTailProperties
  <2>4. QED
    BY <2>1, <2>2, <2>3, LenProperties DEF Range
<1>2. QED
  BY <1>1 DEF Natural

\* A handler goes on with bindings of the right kinds, and writes no others.
LEMMA AdvanceNatural ==
  ASSUME TypeInv, KindsMatch, NEW m \in Managers, Advance(m) \/ Abort(m)
  PROVE  /\ \E d : cmd' = [cmd EXCEPT ![m] = d] /\ BindsNatural(d)
         /\ \A s \in ShelfIds : Natural(bindings'[s])
<1> DEFINE c == cmd[m]
           Kept == \A s \in ShelfIds : Natural(bindings'[s])
           Goal == Kept /\ \E d : cmd' = [cmd EXCEPT ![m] = d] /\ BindsNatural(d)
<1>0. SUFFICES Goal
  OBVIOUS
<1>a. c \in Commands /\ Shape(c) /\ BindsNatural(c)
  BY CommandInFlight DEF TypeInv, TypeOK, KindsMatch
<1>b. c.copy \in Shelves \cup {NoShelf} /\ c.wanted \in Seq(Bindings) /\ c.left \in Seq(Bindings)
  BY <1>a DEF Commands
<1>c. StoreTypeOK /\ \A s \in ShelfIds : Natural(bindings[s])
  BY DEF TypeInv, TypeOK, KindsMatch
<1> HIDE DEF c, Goal, Kept
<1>d. ASSUME NEW d, cmd' = [cmd EXCEPT ![m] = d], BindsNatural(d), UNCHANGED bindings
      PROVE  Goal
  BY <1>c, <1>d DEF Goal, Kept
<1>e. ASSUME NEW a, Answer(m, a), UNCHANGED bindings
      PROVE  Goal
  BY <1>d, <1>e, AnsweredNatural DEF Answer
<1>1. CASE AddShelf(m)
  <2> DEFINE d == Answered([c EXCEPT !.wrote = TRUE], "ok")
  <2>1. cmd' = [cmd EXCEPT ![m] = d] /\ BindsNatural(d)
    BY <1>1, AnsweredNatural DEF AddShelf, c
  <2>2. bindings' = [bindings EXCEPT ![c.shelf] = {}]
    BY <1>1 DEF AddShelf, InsertShelf, NewShelf, c
  <2>3. Kept
    BY <1>c, <2>2 DEF Kept, Natural, StoreTypeOK
  <2>4. QED
    BY <2>1, <2>3 DEF Goal
<1>2. CASE SelectRow(m)
  <2>1. c.step = "row" /\ UNCHANGED bindings
    BY <1>2 DEF SelectRow, At, c, tables, shelfTables
  <2>2. c.op \in {"update", "enable", "configure", "delete"} /\ c.shelf \in ShelfIds
    BY <1>a, <2>1 DEF Shape
  <2>3. CASE ~Live(c.shelf)
    <3>1. Answer(m, "notFound")
      BY <1>2, <2>3 DEF SelectRow, Answer, c
    <3>2. QED
      BY <1>e, <2>1, <3>1
  <2>4. CASE Live(c.shelf)
    <3> DEFINE read == Restore(shelves[c.shelf], bindings[c.shelf])
               row == Restore(shelves[c.shelf], {})
               e == [c EXCEPT !.copy = read]
               d == [c EXCEPT !.step = "bindings", !.copy = row]
    <3>1. cmd' = [cmd EXCEPT ![m] = AfterRead(e)] \/ cmd' = [cmd EXCEPT ![m] = d]
      BY <1>2, <2>4 DEF SelectRow, c
    <3>2. /\ read \in Shelves /\ read.bindings = bindings[c.shelf]
          /\ row \in Shelves /\ row.bindings = {}
      <4>1. shelves[c.shelf] \in Rows /\ bindings[c.shelf] \in SUBSET Bindings
        BY <1>c, <2>2, <2>4 DEF StoreTypeOK, Live
      <4>2. QED
        BY <4>1, RestoreFits
    <3> HIDE DEF read, row
    <3>3. e \in Commands /\ e.copy = read /\ e.op = c.op
      BY <1>a, <3>2 DEF Commands
    <3>4. d.copy = row /\ d.step = "bindings"
      BY <1>a DEF Commands
    <3> HIDE DEF e, d
    <3>5. BindsNatural(AfterRead(e))
      BY <1>c, <2>2, <3>2, <3>3, AfterReadNatural
    <3>6. BindsNatural(d)
      BY <3>2, <3>4 DEF BindsNatural, Natural
    <3>7. QED
      BY <1>d, <2>1, <3>1, <3>5, <3>6
  <2>5. QED
    BY <2>3, <2>4
<1>3. CASE SelectBindings(m)
  <2> DEFINE read == Restore(c.copy, bindings[c.shelf])
             e == [c EXCEPT !.copy = read]
  <2>1. /\ c.step = "bindings" /\ UNCHANGED bindings
        /\ cmd' = [cmd EXCEPT ![m] = AfterRead(e)]
    BY <1>3 DEF SelectBindings, At, c, tables, shelfTables
  <2>2. /\ c.op \in {"update", "enable", "configure", "delete"} /\ c.shelf \in ShelfIds
        /\ c.copy \in Shelves
    BY <1>a, <1>b, <2>1 DEF Shape
  <2>3. read \in Shelves /\ read.bindings = bindings[c.shelf]
    <3>1. bindings[c.shelf] \in SUBSET Bindings
      BY <1>c, <2>2 DEF StoreTypeOK
    <3>2. QED
      BY <2>2, <3>1 DEF Restore, Shelves
  <2> HIDE DEF read
  <2>4. e \in Commands /\ e.copy = read /\ e.op = c.op
    BY <1>a, <2>3 DEF Commands
  <2> HIDE DEF e
  <2>5. BindsNatural(AfterRead(e))
    BY <1>c, <2>2, <2>3, <2>4, AfterReadNatural
  <2>6. QED
    BY <1>d, <2>1, <2>5
<1>4. CASE CheckResource(m)
  <2> DEFINE e == [c EXCEPT !.left = Tail(@)]
  <2>1. c.step = "check" /\ c.left # <<>> /\ UNCHANGED bindings
    BY <1>4 DEF CheckResource, At, c, tables, shelfTables
  <2>2. CASE ResourceExists(Head(c.left))
    <3>1. cmd' = [cmd EXCEPT ![m] = e]
      BY <1>4, <2>2 DEF CheckResource, c
    <3>2. e.step = "check" /\ e.left = Tail(c.left) /\ e.wanted = c.wanted /\ e.copy = c.copy
      BY <1>a, <2>1 DEF Commands
    <3> HIDE DEF e
    <3>3. Head(c.left) \in Bindings
      BY <1>b, <2>1
    <3>4. Head(c.left).kind = NaturalKind[Head(c.left).id]
      <4>1. Head(c.left).id \in ResourceIds /\ Head(c.left).kind \in ResourceKinds
        BY <3>3, AggregateAssumption
      <4>2. Head(c.left).kind # "None"
        BY <4>1 DEF ResourceKinds, DeviceKinds
      <4>3. QED
        BY <2>2, <4>1, <4>2 DEF ResourceExists, KindsMatch
    <3>5. Natural(Range(c.wanted) \ Range(Tail(c.left)))
      BY <1>a, <1>b, <2>1, <3>4, LookedUp DEF BindsNatural
    <3>6. BindsNatural(e)
      BY <1>a, <3>2, <3>5 DEF BindsNatural
    <3>7. QED
      BY <1>d, <2>1, <3>1, <3>6
  <2>3. CASE ~ResourceExists(Head(c.left))
    <3>1. Answer(m, "invalid")
      BY <1>4, <2>3 DEF CheckResource, Answer, c
    <3>2. QED
      BY <1>e, <2>1, <3>1
  <2>4. QED
    BY <2>2, <2>3
<1>5. CASE ReplaceStep(m)
  <2>1. c.step = "check" /\ c.left = <<>> /\ UNCHANGED bindings
    BY <1>5 DEF ReplaceStep, At, c, tables, shelfTables
  <2>2. Natural(Range(c.wanted))
    <3>1. Range(c.left) = {}
      BY <2>1 DEF Range
    <3>2. QED
      BY <1>a, <2>1, <3>1 DEF BindsNatural, Natural
  <2>3. \/ Answer(m, "invalid")
        \/ \E x \in {"readBack", "write"} : cmd' = [cmd EXCEPT ![m] = [c EXCEPT !.step = x]]
    BY <1>5 DEF ReplaceStep, Answer, c
  <2>4. ASSUME NEW x \in {"readBack", "write"}
        PROVE  BindsNatural([c EXCEPT !.step = x])
    <3> DEFINE d == [c EXCEPT !.step = x]
    <3>1. d.step = x /\ d.copy = c.copy /\ d.wanted = c.wanted
      BY <1>a DEF Commands
    <3> HIDE DEF d
    <3>2. BindsNatural(d)
      BY <1>a, <2>2, <3>1 DEF BindsNatural
    <3>3. QED
      BY <3>2 DEF d
  <2>5. QED
    BY <1>d, <1>e, <2>1, <2>3, <2>4
<1>6. CASE UpdateShelf(m)
  <2>1. c.step = "write" /\ c.op \in {"update", "enable", "configure"}
    BY <1>6, <1>a DEF UpdateShelf, At, Shape, c
  <2>2. CASE ~HasVersion(c.shelf, c.expected)
    <3>1. Answer(m, "conflict") /\ UNCHANGED bindings
      BY <1>6, <2>2 DEF UpdateShelf, c, shelfTables
    <3>2. QED
      BY <1>e, <3>1
  <2>3. CASE HasVersion(c.shelf, c.expected)
    <3>1. /\ cmd' = [cmd EXCEPT ![m] = AfterWrite(c)]
          /\ bindings' = [bindings EXCEPT ![c.shelf] = Changed(c).bindings]
      BY <1>6, <2>3 DEF UpdateShelf, OverwriteShelf, c
    <3>2. c.copy \in Shelves
      BY <1>a, <1>b, <2>1 DEF Shape
    <3>3. Natural(Changed(c).bindings)
      <4>1. CASE c.op = "update"
        BY <1>a, <2>1, <3>2, <4>1, UpdateConfigurationFits, StoreAssumption
           DEF Changed, BindsNatural, Commands
      <4>2. CASE c.op = "enable"
        BY <1>a, <2>1, <3>2, <4>2, SetEnabledFits, StoreAssumption
           DEF Changed, BindsNatural, Commands
      <4>3. CASE c.op = "configure"
        <5>1. Changed(c) = ReplaceBindings(c.copy, c.wanted) /\ Bindable(c.wanted)
          BY <1>a, <2>1, <4>3 DEF Changed, Shape
        <5>2. Changed(c).bindings = Range(c.wanted)
          BY <1>b, <3>2, <5>1, ReplaceBindingsFits
        <5>3. QED
          BY <1>a, <2>1, <4>3, <5>2 DEF BindsNatural
      <4>4. QED
        BY <2>1, <4>1, <4>2, <4>3
    <3>4. Kept
      BY <1>c, <3>1, <3>3 DEF Kept, StoreTypeOK
    <3>5. BindsNatural(AfterWrite(c))
      <4>1. CASE c.op = "update"
        BY <4>1, AnsweredNatural DEF AfterWrite
      <4>2. CASE c.op \in {"enable", "configure"}
        <5> DEFINE d == AfterWrite(c)
        <5>1. d.copy = c.copy /\ d.step \in {"list", "readBack"}
          BY <1>a, <4>2 DEF AfterWrite, Commands, Steps
        <5> HIDE DEF d
        <5>2. BindsNatural(d)
          BY <1>a, <5>1 DEF BindsNatural
        <5>3. QED
          BY <5>2 DEF d
      <4>3. QED
        BY <2>1, <4>1, <4>2
    <3>6. QED
      BY <3>1, <3>4, <3>5 DEF Goal
  <2>4. QED
    BY <2>2, <2>3
<1>7. CASE CheckHistory(m)
  <2>1. UNCHANGED bindings
    BY <1>7 DEF CheckHistory, tables, shelfTables
  <2>2. Answer(m, "conflict") \/ cmd' = [cmd EXCEPT ![m] = [c EXCEPT !.step = "remove"]]
    BY <1>7 DEF CheckHistory, Goto, c, TypeInv, TypeOK, ManagementTypeOK
  <2>3. BindsNatural([c EXCEPT !.step = "remove"])
    BY <1>a DEF Commands, BindsNatural
  <2>4. QED
    BY <1>d, <1>e, <2>1, <2>2, <2>3
<1>8. CASE RemoveShelf(m)
  <2>1. CASE HasVersion(c.shelf, c.expected)
    <3> DEFINE d == Answered([c EXCEPT !.wrote = TRUE], "ok")
    <3>1. /\ cmd' = [cmd EXCEPT ![m] = d] /\ BindsNatural(d)
          /\ bindings' = [bindings EXCEPT ![c.shelf] = {}]
      BY <1>8, <2>1, AnsweredNatural DEF RemoveShelf, DeleteShelf, c
    <3>2. Kept
      BY <1>c, <3>1 DEF Kept, Natural, StoreTypeOK
    <3>3. QED
      BY <3>1, <3>2 DEF Goal
  <2>2. CASE ~HasVersion(c.shelf, c.expected)
    <3>1. Answer(m, "conflict") /\ UNCHANGED bindings
      BY <1>8, <2>2 DEF RemoveShelf, c, shelfTables
    <3>2. QED
      BY <1>e, <3>1
  <2>3. QED
    BY <2>1, <2>2
<1>9. CASE ListShelves(m) \/ ReadBack(m) \/ Abort(m)
  <2>1. UNCHANGED bindings /\ \E a : Answer(m, a)
    BY <1>9 DEF ListShelves, ReadBack, Abort, tables, shelfTables
  <2>2. QED
    BY <1>e, <2>1
<1>10. QED
  BY <1>1, <1>2, <1>3, <1>4, <1>5, <1>6, <1>7, <1>8, <1>9 DEF Advance

\* A catalog request names the kind its resource was created with, and the lock of
\* the in-memory store keeps its test and its deletion together.
LEMMA CatalogNatural ==
  ASSUME TypeInv, KindsMatch, MatchingKinds, CatalogNext
  PROVE  /\ \A i \in ResourceIds : catalog'[i] \in {"None", NaturalKind[i]}
         /\ \A d \in Clerks : del'[d].step # "idle" =>
              del'[d].id \in ResourceIds /\ del'[d].kind = NaturalKind[del'[d].id]
         /\ Provider = "inmemory" =>
              /\ \A d \in Clerks : del'[d].step # "delete"
              /\ \A s \in ShelfIds : \A b \in bindings[s] :
                   catalog[b.id] # "None" => catalog'[b.id] # "None"
<1> DEFINE Fits(x) == x.step # "idle" => x.id \in ResourceIds /\ x.kind = NaturalKind[x.id]
           Deletable(x) == Provider = "inmemory" => x.step # "delete"
           Kinds == \A i \in ResourceIds : catalog'[i] \in {"None", NaturalKind[i]}
           Stays == Provider = "inmemory" =>
                      \A s \in ShelfIds : \A b \in bindings[s] :
                        catalog[b.id] # "None" => catalog'[b.id] # "None"
           Slots == \A d \in Clerks : Fits(del'[d]) /\ Deletable(del'[d])
<1>0. SUFFICES Kinds /\ Stays /\ Slots
  OBVIOUS
<1>a. /\ catalog \in [ResourceIds -> ResourceKinds \cup {"None"}]
      /\ del \in [Clerks -> Deletions]
      /\ \A s \in ShelfIds : bindings[s] \in SUBSET Bindings
  BY DEF TypeInv, TypeOK, StoreTypeOK, CatalogTypeOK
<1>b. \A d \in Clerks : Fits(del[d]) /\ Deletable(del[d])
  BY DEF KindsMatch
<1>c. \A b \in Bindings : b.id \in ResourceIds /\ b.kind \in ResourceKinds
  BY AggregateAssumption
<1>d. \A i \in ResourceIds : NaturalKind[i] \in ResourceKinds /\ NaturalKind[i] # "None"
  BY CatalogAssumption DEF ResourceKinds, DeviceKinds
<1>e. UNCHANGED catalog => Kinds /\ Stays
  BY DEF KindsMatch
<1>f. PICK d \in Clerks :
        \/ \E i \in ResourceIds : \E k \in NamedKinds(i) :
             \/ RequestDeletion(d, i, k)
             \/ \E b \in RuleBodies : SaveResource(d, i, k, b)
        \/ AdvanceDeletion(d)
        \/ AbortDeletion(d)
  BY DEF CatalogNext
<1>g. ASSUME NEW x, del' = [del EXCEPT ![d] = x], Fits(x), Deletable(x)
      PROVE  Slots
  <2>1. \A e \in Clerks : del'[e] = IF e = d THEN x ELSE del[e]
    BY <1>a, <1>g
  <2>2. QED
    BY <1>b, <1>g, <2>1
<1>h. ASSUME NEW a, FinishDeletion(d, a)
      PROVE  Slots
  <2>1. LET x == [NoDeletion EXCEPT !.answer = a] IN x.step = "idle"
    BY DEF NoDeletion
  <2>2. QED
    BY <1>g, <1>h, <2>1 DEF FinishDeletion
<1>i. UNCHANGED del => Slots
  BY <1>b
<1> HIDE DEF Slots
<1>1. ASSUME NEW i \in ResourceIds, NEW k \in NamedKinds(i), RequestDeletion(d, i, k)
      PROVE  Kinds /\ Stays /\ Slots
  <2> DEFINE x == [NoDeletion EXCEPT !.step = "bound", !.kind = k, !.id = i]
  <2>1. del' = [del EXCEPT ![d] = x] /\ UNCHANGED catalog
    BY <1>1 DEF RequestDeletion, tables, catalogTables
  <2>2. x.step = "bound" /\ x.kind = k /\ x.id = i /\ k = NaturalKind[i]
    BY DEF NoDeletion, NamedKinds
  <2> HIDE DEF x
  <2>3. QED
    BY <1>e, <1>g, <2>1, <2>2
<1>2. ASSUME NEW i \in ResourceIds, NEW k \in NamedKinds(i), NEW b \in RuleBodies,
             SaveResource(d, i, k, b)
      PROVE  Kinds /\ Stays /\ Slots
  <2>1. k = NaturalKind[i] /\ UNCHANGED del /\ catalog' = [catalog EXCEPT ![i] = k]
    BY <1>2 DEF NamedKinds, SaveResource, UpsertResource
  <2>2. \A j \in ResourceIds : catalog'[j] = IF j = i THEN NaturalKind[i] ELSE catalog[j]
    BY <1>a, <2>1
  <2>3. Kinds
    BY <2>2 DEF KindsMatch
  <2>4. Stays
    BY <1>a, <1>c, <1>d, <2>2
  <2>5. QED
    BY <1>i, <2>1, <2>3, <2>4
<1>3. ASSUME DropResource(d), del[d].step # "idle",
             Provider = "inmemory" => ~Bound(del[d].kind, del[d].id)
      PROVE  Kinds /\ Stays /\ Slots
  <2>1. Slots
    BY <1>3, <1>h DEF DropResource
  <2>2. CASE UNCHANGED catalog
    BY <1>e, <2>1, <2>2
  <2>3. CASE catalog' = [catalog EXCEPT ![del[d].id] = "None"]
    <3>1. del[d].id \in ResourceIds /\ del[d].kind = NaturalKind[del[d].id]
      BY <1>3, <1>b
    <3>2. \A j \in ResourceIds : catalog'[j] = IF j = del[d].id THEN "None" ELSE catalog[j]
      BY <1>a, <2>3, <3>1
    <3>3. Kinds
      BY <3>2 DEF KindsMatch
    <3>4. Provider = "inmemory" =>
            \A s \in ShelfIds : \A b \in bindings[s] : b.id # del[d].id
      BY <1>3, <3>1 DEF Bound, KindsMatch, Natural
    <3>5. Stays
      BY <1>a, <1>c, <3>2, <3>4
    <3>6. QED
      BY <2>1, <3>3, <3>5
  <2>4. QED
    BY <1>3, <2>2, <2>3 DEF DropResource
<1>4. CASE TestBound(d)
  <2>1. del[d].step = "bound"
    BY <1>4 DEF TestBound
  <2>2. CASE FinishDeletion(d, "conflict") /\ UNCHANGED catalog
    BY <1>e, <1>h, <2>2
  <2>3. CASE ~Bound(del[d].kind, del[d].id) /\ DropResource(d)
    BY <1>3, <2>1, <2>3
  <2>4. CASE Provider # "inmemory" /\ UNCHANGED catalog /\ del' = [del EXCEPT ![d].step = "delete"]
    <3> DEFINE x == [del[d] EXCEPT !.step = "delete"]
    <3>1. del' = [del EXCEPT ![d] = x]
      BY <1>a, <2>4
    <3>2. x.id = del[d].id /\ x.kind = del[d].kind
      BY <1>a DEF Deletions
    <3> HIDE DEF x
    <3>3. Fits(x) /\ Deletable(x)
      BY <1>b, <2>1, <2>4, <3>2
    <3>4. QED
      BY <1>e, <1>g, <2>4, <3>1, <3>3
  <2>5. QED
    BY <1>4, <2>2, <2>3, <2>4 DEF TestBound
<1>5. CASE DeleteResource(d)
  <2>1. del[d].step = "delete" /\ DropResource(d)
    BY <1>5 DEF DeleteResource
  <2>2. QED
    BY <1>3, <1>b, <2>1
<1>6. CASE AbortDeletion(d)
  BY <1>6, <1>e, <1>h DEF AbortDeletion, tables, catalogTables
<1>7. QED
  BY <1>f, <1>1, <1>2, <1>4, <1>5, <1>6 DEF AdvanceDeletion

LEMMA KindsMatchInit ==
  ASSUME Init, MatchingKinds
  PROVE  KindsMatch
<1>1. \A m \in Managers : cmd[m] = Idle
  BY DEF Init, ManagementInit
<1>2. BindsNatural(Idle)
  BY DEF BindsNatural, Idle
<1>3. \A d \in Clerks : del[d].step = "idle"
  BY DEF Init, CatalogInit, NoDeletion
<1>4. \A i \in ResourceIds : catalog[i] \in {"None", NaturalKind[i]}
  BY CatalogAssumption DEF Init, StoreInit
<1>5. \A s \in ShelfIds : Natural(bindings[s])
  BY CatalogAssumption DEF Init, StoreInit, Natural
<1>6. QED
  BY <1>1, <1>2, <1>3, <1>4, <1>5 DEF KindsMatch

\* No step leaves a binding of another kind behind; in the in-memory store none
\* deletes a resource that is bound.
LEMMA KindsMatchStep ==
  ASSUME TypeInv, KindsMatch, MatchingKinds, [Next]_vars
  PROVE  /\ KindsMatch'
         /\ Provider = "inmemory" =>
              \A s \in ShelfIds : \A b \in bindings[s] :
                catalog[b.id] # "None" => catalog'[b.id] # "None"
<1>1. CASE ManagementNext /\ UNCHANGED del
  <2>1. PICK m \in Managers : Submit(m) \/ Advance(m) \/ Abort(m)
    BY <1>1 DEF ManagementNext
  <2>2. UNCHANGED catalog
    BY <1>1, ManagementLeavesHistory DEF catalogTables
  <2>3. /\ \E d : cmd' = [cmd EXCEPT ![m] = d] /\ BindsNatural(d)
        /\ \A s \in ShelfIds : Natural(bindings'[s])
    <3>1. CASE Submit(m)
      <4>1. UNCHANGED bindings
        BY <3>1, SubmitReads DEF tables, shelfTables
      <4>2. PICK d : cmd' = [cmd EXCEPT ![m] = d] /\ Arriving(d)
        BY <3>1, SubmitPending
      <4>3. BindsNatural(d)
        BY <4>2 DEF Arriving, BindsNatural
      <4>4. QED
        BY <4>1, <4>2, <4>3 DEF KindsMatch
    <3>2. CASE Advance(m) \/ Abort(m)
      BY <3>2, AdvanceNatural
    <3>3. QED
      BY <2>1, <3>1, <3>2
  <2>4. \A k \in Managers : BindsNatural(cmd'[k])
    <3>1. cmd \in [Managers -> Commands]
      BY DEF TypeInv, TypeOK, ManagementTypeOK
    <3>2. QED
      BY <2>3, <3>1 DEF KindsMatch
  <2>5. QED
    BY <1>1, <2>2, <2>3, <2>4 DEF KindsMatch
<1>2. CASE CatalogNext /\ UNCHANGED cmd
  <2>1. UNCHANGED bindings
    BY <1>2, ClerkFits DEF shelfTables
  <2>2. \A m \in Managers : BindsNatural(cmd'[m])
    BY <1>2 DEF KindsMatch
  <2>3. \A s \in ShelfIds : Natural(bindings'[s])
    BY <2>1 DEF KindsMatch
  <2>4. QED
    BY <1>2, <2>2, <2>3, CatalogNatural DEF KindsMatch
<1>3. CASE UNCHANGED <<bindings, catalog>> /\ UNCHANGED <<cmd, del>>
  BY <1>3 DEF KindsMatch
<1>4. CASE Restart
  <2>1. UNCHANGED <<bindings, catalog>>
    BY <1>4 DEF Restart, tables, shelfTables, catalogTables
  <2>2. \A m \in Managers : BindsNatural(cmd'[m])
    <3>1. BindsNatural(Idle)
      BY DEF BindsNatural, Idle
    <3>2. \A m \in Managers : cmd'[m] = Idle
      BY <1>4 DEF Restart
    <3>3. QED
      BY <3>1, <3>2
  <2>3. \A d \in Clerks : del'[d].step = "idle"
    BY <1>4 DEF Restart, NoDeletion
  <2>4. QED
    BY <2>1, <2>2, <2>3 DEF KindsMatch
<1>5. CASE RecordingNext /\ UNCHANGED <<cmd, del>>
  <2>1. UNCHANGED <<bindings, catalog>>
    BY <1>5 DEF RecordingNext, PostObservation, AdvanceRecording, ReadShelf, ReadBindings,
                Judge, Record, SetLed, AbortRecording, Acknowledge, ReadAcknowledged,
                AbortAck, tables, shelfTables, catalogTables
  <2>2. QED
    BY <1>3, <1>5, <2>1
<1>6. CASE UNCHANGED vars
  BY <1>3, <1>6 DEF vars, tables, shelfTables, catalogTables
<1>7. QED
  BY <1>1, <1>2, <1>4, <1>5, <1>6 DEF Next, recordingVars

\* The in-memory store never deletes a resource that a shelf is bound to, as long
\* as clients name the kind the resource was created with (DeleteAsync).
THEOREM BoundResourcesStay ==
  ASSUME MatchingKinds, Provider = "inmemory"
  PROVE  Spec => BoundResourceStays
<1>1. Init => KindsMatch
  BY KindsMatchInit
<1>2. TypeInv /\ KindsMatch /\ [Next]_vars
        => /\ KindsMatch'
           /\ \A s \in ShelfIds : \A b \in bindings[s] :
                catalog[b.id] # "None" => catalog'[b.id] # "None"
  BY KindsMatchStep
<1>3. QED
  BY <1>1, <1>2, TypeInvHolds, PTL DEF Spec, BoundResourceStays

-----------------------------------------------------------------------------
(* The handlers implement the register. *)

abstract == [s \in ShelfIds |-> Aggregate(s)]

\* The register uses the operations of the same aggregate.
LEMMA SameAggregate ==
  /\ Registers!Shelves = Shelves
  /\ \A bound : Registers!SingletonsHold(bound) <=> SingletonsHold(bound)
  /\ \A config : Registers!NewShelf(config) = NewShelf(config)
  /\ \A shelf, config :
       Registers!UpdateConfiguration(shelf, config) = UpdateConfiguration(shelf, config)
  /\ \A shelf, enabled : Registers!SetEnabled(shelf, enabled) = SetEnabled(shelf, enabled)
  BY DEF Registers!Shelves, Shelves, Registers!NewShelf, NewShelf,
         Registers!SingletonsHold, SingletonsHold,
         Registers!SingletonKinds, SingletonKinds,
         Registers!UpdateConfiguration, UpdateConfiguration,
         Registers!SetEnabled, SetEnabled

\* The value of the register after a step that changes one shelf.
LEMMA OneShelf ==
  ASSUME NEW s \in ShelfIds, NEW value,
         value = IF shelves'[s] # NoShelf THEN Restore(shelves'[s], bindings'[s]) ELSE NoShelf,
         \A t \in ShelfIds \ {s} : Same(t)
  PROVE  abstract' = [abstract EXCEPT ![s] = value]
<1>1. \A t \in ShelfIds : abstract'[t] =
        IF shelves'[t] # NoShelf THEN Restore(shelves'[t], bindings'[t]) ELSE NoShelf
  BY DEF abstract, Aggregate, Live
<1>2. \A t \in ShelfIds \ {s} : abstract'[t] = abstract[t]
  BY <1>1 DEF abstract, Aggregate, Live, Same
<1>3. QED
  BY <1>1, <1>2 DEF abstract

\* The shelves of the database are a register to begin with.
LEMMA InitIsRegister == Init => Registers!Init
<1> SUFFICES ASSUME Init PROVE Registers!Init
  OBVIOUS
<1>1. TypeInv /\ SingletonBindings
  BY InitFits, InitPreserved DEF Preserved
<1>2. ASSUME NEW s \in ShelfIds
      PROVE  /\ abstract[s] \in Shelves \cup {NoShelf}
             /\ abstract[s] # NoShelf => SingletonsHold(abstract[s].bindings)
  <2>1. /\ shelves[s] \in Rows \cup {NoShelf} /\ bindings[s] \in SUBSET Bindings
        /\ SingletonsHold(bindings[s])
    BY <1>1 DEF TypeInv, TypeOK, StoreTypeOK, SingletonBindings
  <2>2. CASE Live(s)
    BY <2>1, <2>2, RestoreFits DEF Live, abstract, Aggregate
  <2>3. CASE ~Live(s)
    BY <2>3 DEF abstract, Aggregate
  <2>4. QED
    BY <2>2, <2>3
<1>3. abstract \in [ShelfIds -> Shelves \cup {NoShelf}]
  BY <1>2 DEF abstract
<1>4. QED
  BY <1>2, <1>3, SameAggregate DEF Registers!Init, abstract

\* A write is one operation of the register on the value that is there.
LEMMA WriteIsRegisterStep ==
  ASSUME IInv, IInv', NEW m \in Managers,
         \/ AddShelf(m)
         \/ (UpdateShelf(m) \/ RemoveShelf(m)) /\ HasVersion(cmd[m].shelf, cmd[m].expected)
  PROVE  Registers!Next
<1> DEFINE c == cmd[m]
           s == c.shelf
<1>1. /\ c \in Commands /\ Shape(c)
      /\ c.step # "idle" => s \in ShelfIds
      /\ c.step \notin {"idle", "add", "row"} => c.copy \in Shelves
      /\ c.step = "add" => s \notin known
  BY CommandInFlight DEF IInv, TypeInv, TypeOK, FreshIds
<1>2. /\ shelves \in [ShelfIds -> Rows \cup {NoShelf}]
      /\ bindings \in [ShelfIds -> SUBSET Bindings]
  BY DEF IInv, TypeInv, TypeOK, StoreTypeOK
<1>3. CASE AddShelf(m)
  <2> DEFINE new == NewShelf(c.config)
  <2>1. c.step = "add" /\ s \in ShelfIds /\ s \notin known
    BY <1>1, <1>3 DEF AddShelf, At
  <2>2. c.config \in Configs
    BY <1>1, <2>1 DEF Commands, Shape
  <2>3. new \in Shelves
    BY <2>2, NewShelfFits
  <2>4. /\ shelves' = [shelves EXCEPT ![s] = RowOf(new)]
        /\ bindings' = [bindings EXCEPT ![s] = new.bindings]
    BY <1>3 DEF AddShelf, InsertShelf
  <2>5. new = Restore(RowOf(new), new.bindings)
    BY DEF NewShelf, Restore, RowOf
  <2> HIDE DEF new, c
  <2>6. /\ shelves'[s] = RowOf(new) /\ bindings'[s] = new.bindings
        /\ \A t \in ShelfIds \ {s} : Same(t)
    BY <1>2, <2>1, <2>4 DEF Same
  <2>7. abstract' = [abstract EXCEPT ![s] = new]
    BY <2>1, <2>3, <2>5, <2>6, RowOfFits, OneShelf
  <2>8. abstract[s] = NoShelf
    BY <2>1 DEF abstract, Aggregate, IInv, FreshIds
  <2>9. Registers!Create(s, c.config)
    BY <2>7, <2>8, SameAggregate DEF Registers!Create, Registers!Exists, abstract, new
  <2>10. QED
    BY <2>1, <2>2, <2>9 DEF Registers!Next
<1>4. CASE RemoveShelf(m) /\ HasVersion(s, c.expected)
  <2>1. s \in ShelfIds /\ Live(s)
    BY <1>1, <1>4 DEF RemoveShelf, At, HasVersion
  <2>2. shelves' = [shelves EXCEPT ![s] = NoShelf] /\ bindings' = [bindings EXCEPT ![s] = {}]
    BY <1>4 DEF RemoveShelf, DeleteShelf
  <2> HIDE DEF c
  <2>3. shelves'[s] = NoShelf /\ \A t \in ShelfIds \ {s} : Same(t)
    BY <1>2, <2>1, <2>2 DEF Same
  <2>4. abstract' = [abstract EXCEPT ![s] = NoShelf]
    BY <2>1, <2>3, OneShelf
  <2>5. abstract[s] # NoShelf
    <3>1. Restore(shelves[s], bindings[s]) \in Shelves
      BY <1>2, <2>1, RestoreFits DEF Live
    <3>2. QED
      BY <2>1, <3>1, StoreAssumption DEF abstract, Aggregate
  <2>6. Registers!Remove(s)
    BY <2>4, <2>5 DEF Registers!Remove, Registers!Exists, abstract
  <2>7. QED
    BY <2>1, <2>6 DEF Registers!Next
<1>5. CASE UpdateShelf(m) /\ HasVersion(s, c.expected)
  <2> DEFINE new == Changed(c)
  <2>1. /\ s \in ShelfIds /\ c.copy = Restore(shelves[s], bindings[s])
        /\ \A t \in ShelfIds \ {s} : Same(t)
        /\ c.step = "write" /\ c.copy \in Shelves /\ Live(s)
    BY <1>1, <1>5, UpdateMoves DEF UpdateShelf, At, HasVersion
  <2>2. /\ shelves' = [shelves EXCEPT ![s] = RowOf(new)]
        /\ bindings' = [bindings EXCEPT ![s] = new.bindings]
    BY <1>5 DEF UpdateShelf, OverwriteShelf
  <2>3. new \in Shelves
    BY <1>1, <2>1, ChangedFits
  <2> HIDE DEF new, c
  <2>4. shelves'[s] = RowOf(new) /\ bindings'[s] = new.bindings
    BY <1>2, <2>1, <2>2
  <2>5. new = Restore(RowOf(new), new.bindings)
    BY <2>3 DEF Shelves, Restore, RowOf
  <2>6. abstract' = [abstract EXCEPT ![s] = new]
    BY <2>1, <2>3, <2>4, <2>5, RowOfFits, OneShelf
  <2>7. abstract[s] = c.copy /\ abstract[s] # NoShelf
    BY <2>1, StoreAssumption DEF abstract, Aggregate
  <2>8. CASE c.op = "update"
    <3>1. c.config \in Configs /\ new = UpdateConfiguration(c.copy, c.config)
      BY <1>1, <2>1, <2>8 DEF Commands, Shape, Changed, new
    <3>2. Registers!Rename(s, c.config)
      BY <2>6, <2>7, <3>1, SameAggregate DEF Registers!Rename, Registers!Exists, abstract
    <3>3. QED
      BY <2>1, <3>1, <3>2 DEF Registers!Next
  <2>9. CASE c.op = "enable"
    <3>1. c.enabled \in BOOLEAN /\ new = SetEnabled(c.copy, c.enabled)
      BY <1>1, <2>9 DEF Commands, Changed, new
    <3>2. Registers!Switch(s, c.enabled)
      BY <2>6, <2>7, <3>1, SameAggregate DEF Registers!Switch, Registers!Exists, abstract
    <3>3. QED
      BY <2>1, <3>1, <3>2 DEF Registers!Next
  <2>10. CASE c.op = "configure"
    <3> DEFINE bound == Range(c.wanted)
    <3>1. /\ c.wanted \in Seq(Bindings) /\ Bindable(c.wanted)
          /\ bound # c.copy.bindings /\ new = ReplaceBindings(c.copy, c.wanted)
      BY <1>1, <2>1, <2>10 DEF Commands, Shape, Changed, new
    <3>2. SingletonsHold(bound)
      BY <2>1, <3>1, ReplaceBindingsFits
    <3>3. bound \in SUBSET Bindings
      BY <3>1 DEF Range
    <3>4. new = [c.copy EXCEPT !.bindings = bound, !.version = @ + 1]
      BY <3>1 DEF ReplaceBindings
    <3> HIDE DEF bound
    <3>5. bound # abstract[s].bindings
      BY <2>7, <3>1
    <3>6. abstract' = [abstract EXCEPT ![s] =
                         [abstract[s] EXCEPT !.bindings = bound, !.version = @ + 1]]
      BY <2>6, <2>7, <3>4
    <3>7. Registers!Rebind(s, bound)
      BY <2>7, <3>2, <3>5, <3>6, SameAggregate DEF Registers!Rebind, Registers!Exists, abstract
    <3>8. QED
      BY <2>1, <3>3, <3>7 DEF Registers!Next
  <2>11. QED
    BY <1>1, <2>1, <2>8, <2>9, <2>10 DEF Shape
<1>6. QED
  BY <1>3, <1>4, <1>5

\* Every other step leaves the register as it is.
LEMMA OtherStepsStutter ==
  ASSUME IInv, [Next]_vars,
         \A m \in Managers :
           /\ ~AddShelf(m)
           /\ ~((UpdateShelf(m) \/ RemoveShelf(m)) /\ HasVersion(cmd[m].shelf, cmd[m].expected))
  PROVE  UNCHANGED abstract
<1>1. UNCHANGED shelfTables
  <2>1. CASE ManagementNext
    <3>1. PICK m \in Managers : Submit(m) \/ Advance(m) \/ Abort(m)
      BY <2>1 DEF ManagementNext
    <3>2. CASE Submit(m)
      BY <3>2, SubmitReads DEF tables
    <3>3. CASE UpdateShelf(m) \/ RemoveShelf(m)
      BY <3>3 DEF UpdateShelf, RemoveShelf
    <3>4. CASE \/ SelectRow(m) \/ SelectBindings(m) \/ CheckResource(m) \/ ReplaceStep(m)
               \/ CheckHistory(m) \/ ListShelves(m) \/ ReadBack(m) \/ Abort(m)
      BY <3>4 DEF SelectRow, SelectBindings, CheckResource, ReplaceStep, CheckHistory,
                  ListShelves, ReadBack, Abort, tables
    <3>5. QED
      BY <3>1, <3>2, <3>3, <3>4 DEF Advance
  <2>2. CASE ~ManagementNext
    BY <2>2, OthersLeaveShelves DEF Next, IInv
  <2>3. QED
    BY <2>1, <2>2
<1>2. QED
  BY <1>1 DEF shelfTables, abstract, Aggregate, Live

\* Optimistic concurrency works: with all their reads, checks and awaits, and
\* whatever else runs in between, the handlers of shelf management do to every
\* shelf what one indivisible operation would have done.
THEOREM ShelvesActAsRegister == Spec => ActsAsRegister
<1>1. Init => Registers!Init
  BY InitIsRegister
<1>2. IInv /\ IInv' /\ [Next]_vars => [Registers!Next]_abstract
  BY WriteIsRegisterStep, OtherStepsStutter
<1>3. QED
  BY <1>1, <1>2, InductiveInvariant, PTL DEF Spec, ActsAsRegister, Registers!Spec, abstract
=============================================================================
