-------------------------- MODULE Evaluation_proofs -------------------------
(***************************************************************************)
(* What the judges of an observation return, for every reading and every   *)
(* set of rules, not only for the samples that are model-checked.          *)
(***************************************************************************)
EXTENDS WatchedShelf, FiniteSetTheorems, WellFoundedInduction, TLAPS

\* The simulator's copy of the policy and the server's fallback agree on every
\* reading (EdgeDecisionEngine.Evaluate, ShelfHealthEvaluator.Evaluate).
THEOREM EdgeAgreesOnEveryReading ==
  \A s \in ShelfSignals : EdgeEvaluate(s) = HealthEvaluate(s)
  BY DEF EdgeEvaluate, HealthEvaluate

\* The severities order the statuses, with Healthy at the bottom and no ties.
LEMMA SeverityFits ==
  ASSUME NEW x \in Statuses, NEW y \in Statuses
  PROVE  /\ Severity(x) \in Nat
         /\ Severity(x) >= Severity("Healthy")
         /\ Severity(x) = Severity(y) => x = y
  BY DEF Severity, Statuses

\* Whichever of the winning rules is taken, no matching rule is more severe than
\* it, and all of them say the same status.
THEOREM WinnersAreWorst ==
  ASSUME NEW s, NEW chosen \in SUBSET EvaluationRules, NEW q \in Winners(s, chosen)
  PROVE  /\ \A r \in chosen : Matches(r, s) => Severity(q.result) >= Severity(r.result)
         /\ \A r \in Winners(s, chosen) : r.result = q.result
<1>1. q \in chosen /\ Matches(q, s) /\ q.result \in Statuses
  BY DEF Winners, EvaluationRules
<1>2. ASSUME NEW r \in chosen, Matches(r, s)
      PROVE  Severity(q.result) >= Severity(r.result)
  <2>1. ~Precedes(r, q)
    BY <1>2 DEF Winners
  <2>2. r.result \in Statuses
    BY DEF EvaluationRules
  <2>3. QED
    BY <1>1, <2>1, <2>2, SeverityFits DEF Precedes
<1>3. ASSUME NEW r \in Winners(s, chosen)
      PROVE  r.result = q.result
  <2>1. r \in chosen /\ Matches(r, s) /\ r.result \in Statuses
    BY DEF Winners, EvaluationRules
  <2>2. ~Precedes(q, r)
    BY <1>1 DEF Winners
  <2>3. Severity(r.result) >= Severity(q.result)
    BY <1>1, <2>1, <2>2, SeverityFits DEF Precedes
  <2>4. QED
    BY <1>1, <1>2, <2>1, <2>3, SeverityFits
<1>4. QED
  BY <1>2, <1>3

\* The built-in policy is monotone: with the sensor online, a reading that is no
\* better in any signal is judged no milder.
THEOREM PolicyIsMonotone ==
  ASSUME NEW s \in ShelfSignals, NEW t \in ShelfSignals,
         s.online, t.online, t.inventory =< s.inventory, t.days =< s.days,
         s.expired => t.expired
  PROVE  Severity(HealthEvaluate(t).status) >= Severity(HealthEvaluate(s).status)
<1>1. /\ s.inventory \in Int /\ s.days \in Int /\ s.expired \in BOOLEAN
      /\ t.inventory \in Int /\ t.days \in Int /\ t.expired \in BOOLEAN
  BY DEF ShelfSignals
<1>2. QED
  BY <1>1 DEF HealthEvaluate, Assess, Severity

-----------------------------------------------------------------------------
\* The order of the rules, severity first, is transitive and irreflexive.
LEMMA PrecedesIsStrict ==
  /\ \A q \in EvaluationRules : ~Precedes(q, q)
  /\ \A p, q, r \in EvaluationRules :
       Precedes(p, q) /\ Precedes(q, r) => Precedes(p, r)
<1>1. \A r \in EvaluationRules : Severity(r.result) \in Nat /\ r.priority \in Int
  BY SeverityFits DEF EvaluationRules
<1>2. QED
  BY <1>1 DEF Precedes

\* Among finitely many rules one is preceded by none: OrderByDescending followed
\* by FirstOrDefault finds a rule whenever one matches.
LEMMA FirstRuleExists ==
  ASSUME NEW matching \in SUBSET EvaluationRules, IsFiniteSet(matching), matching # {}
  PROVE  \E r \in matching : \A q \in matching : ~Precedes(q, r)
<1> DEFINE First(S) == \E r \in S : \A q \in S : ~Precedes(q, r)
           Without == {S \in SUBSET matching : S # {} /\ ~First(S)}
<1>1. SUFFICES ASSUME Without # {} PROVE FALSE
  OBVIOUS
<1>2. PICK S \in Without : \A T \in Without : <<T, S>> \notin StrictSubsetOrdering(matching)
  <2>1. IsWellFoundedOn(StrictSubsetOrdering(matching), SUBSET matching)
    BY FS_StrictSubsetOrderingWellFounded, FS_FiniteSubsetsOfFinite
  <2>2. ASSUME NEW X, X \subseteq SUBSET matching, X # {}
        PROVE  \E Y \in X : \A T \in X : <<T, Y>> \notin StrictSubsetOrdering(matching)
    BY <2>1, <2>2, WFMin, Zenon
  <2>3. Without \subseteq SUBSET matching
    OBVIOUS
  <2> HIDE DEF Without
  <2>4. QED
    BY <1>1, <2>2, <2>3
<1>3. PICK x \in S : TRUE
  OBVIOUS
<1>4. CASE S \ {x} = {}
  BY <1>3, <1>4, PrecedesIsStrict
<1>5. CASE S \ {x} # {}
  <2>1. S \ {x} \notin Without
    BY <1>2, <1>3 DEF StrictSubsetOrdering
  <2>2. PICK m \in S \ {x} : \A q \in S \ {x} : ~Precedes(q, m)
    BY <1>5, <2>1
  <2>3. CASE Precedes(x, m)
    <3>1. \A q \in S \ {x} : ~Precedes(q, x)
      BY <1>3, <2>2, <2>3, PrecedesIsStrict
    <3>2. QED
      BY <1>3, <3>1, PrecedesIsStrict
  <2>4. CASE ~Precedes(x, m)
    BY <2>2, <2>4
  <2>5. QED
    BY <2>3, <2>4
<1>6. QED
  BY <1>4, <1>5

\* The readings and the rules stay what they may be (WatchedShelf).
THEOREM WatchedTypeCorrect == Spec => []TypeOK
<1>1. Init => TypeOK
  BY FS_EmptySet DEF Init, TypeOK
<1>2. TypeOK /\ [Next]_vars => TypeOK'
  BY FS_AddElement, FS_RemoveElement
  DEF TypeOK, Next, Read, Connect, Disconnect, vars
<1>3. QED
  BY <1>1, <1>2, PTL DEF Spec

\* Whatever readings arrive, the simulator at the edge and the server's fallback
\* judge them alike (EdgeDecisionEngine, ShelfHealthEvaluator).
THEOREM EdgeAgreesTheorem == Spec => []EdgeAgrees
<1>1. TypeOK => EdgeAgrees
  BY ReadingsAssumption, EdgeAgreesOnEveryReading DEF TypeOK, EdgeAgrees
<1>2. QED
  BY <1>1, WatchedTypeCorrect, PTL

\* Whatever rules are connected and whichever way their ties fall, the status is
\* the most severe result of a match (ShelfRuleEvaluator.Evaluate).
THEOREM StatusIsWorstMatchTheorem == Spec => []StatusIsWorstMatch
<1>1. ASSUME TypeOK, rules # {}
      PROVE  LET matching == {r \in rules : Matches(r, signals)}
             IN  /\ RuleEvaluate(signals, rules) # {}
                 /\ \A a \in RuleEvaluate(signals, rules) :
                      /\ \A r \in matching : Severity(a.status) >= Severity(r.result)
                      /\ a.status = "Healthy" \/ \E r \in matching : a.status = r.result
  <2> DEFINE matching == {r \in rules : Matches(r, signals)}
  <2>1. rules \in SUBSET EvaluationRules /\ IsFiniteSet(matching)
    BY <1>1, RulePoolAssumption, FS_Subset DEF TypeOK
  <2>2. Winners(signals, rules) = {} => matching = {}
    <3>1. ASSUME matching # {}
          PROVE  \E r \in matching : \A q \in matching : ~Precedes(q, r)
      BY <2>1, <3>1, FirstRuleExists
    <3>2. QED
      BY <3>1 DEF Winners
  <2>3. CASE Winners(signals, rules) = {}
    <3>1. RuleEvaluate(signals, rules) = {[status |-> "Healthy", led |-> "Green"]}
      BY <1>1, <2>3 DEF RuleEvaluate, Assess
    <3>2. QED
      BY <2>2, <2>3, <3>1
  <2>4. CASE Winners(signals, rules) # {}
    <3>1. RuleEvaluate(signals, rules)
            = {Assess(r.result, r.led) : r \in Winners(signals, rules)}
      BY <1>1, <2>4 DEF RuleEvaluate
    <3>2. ASSUME NEW q \in Winners(signals, rules)
          PROVE  /\ \A r \in matching : Severity(q.result) >= Severity(r.result)
                 /\ q \in matching
      BY <2>1, WinnersAreWorst DEF Winners
    <3>3. ASSUME NEW a \in RuleEvaluate(signals, rules)
          PROVE  \E q \in matching : /\ a.status = q.result
                                    /\ \A r \in matching : Severity(q.result) >= Severity(r.result)
      BY <3>1, <3>2 DEF Assess
    <3>4. RuleEvaluate(signals, rules) # {}
      BY <2>4, <3>1
    <3>5. QED
      BY <3>3, <3>4
  <2>5. QED
    BY <2>3, <2>4
<1>2. TypeOK => StatusIsWorstMatch
  BY <1>1 DEF StatusIsWorstMatch
<1>3. QED
  BY <1>2, WatchedTypeCorrect, PTL

\* A reading that is worse in every signal is never judged milder by the
\* built-in policy (ShelfHealthEvaluator.Evaluate).
THEOREM WorseNeverMilderTheorem == Spec => WorseReadingNeverMilder
<1> DEFINE Step == (/\ signals.online /\ signals'.online
                    /\ signals'.inventory =< signals.inventory
                    /\ signals'.days =< signals.days
                    /\ signals.expired => signals'.expired)
                     => Severity(HealthEvaluate(signals').status)
                          >= Severity(HealthEvaluate(signals).status)
<1>1. TypeOK /\ TypeOK' => Step
  BY ReadingsAssumption, PolicyIsMonotone DEF TypeOK
<1>2. QED
  BY <1>1, WatchedTypeCorrect, PTL DEF WorseReadingNeverMilder
=============================================================================
