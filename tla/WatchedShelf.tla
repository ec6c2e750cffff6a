---------------------------- MODULE WatchedShelf ----------------------------
(***************************************************************************)
(* One shelf and the judges of Evaluation: the signals of the shelf change *)
(* with each reading, and evaluation rules are connected to it and         *)
(* disconnected from it in any order, so that a property can compare the   *)
(* assessments before and after a change.                                  *)
(***************************************************************************)
EXTENDS Evaluation, FiniteSets

CONSTANTS
  Readings,   \* the readings that may arrive
  RulePool,   \* the rules the operator may connect
  MaxRules    \* bound: how many rules are connected at a time

ASSUME ReadingsAssumption == Readings \subseteq ShelfSignals
ASSUME RulePoolAssumption == RulePool \subseteq EvaluationRules
ASSUME MaxRulesAssumption == MaxRules \in Nat

VARIABLES signals, rules

vars == <<signals, rules>>

Init ==
  /\ signals \in Readings
  /\ rules = {}

Read == signals' \in Readings /\ UNCHANGED rules

Connect ==
  /\ Cardinality(rules) < MaxRules
  /\ \E r \in RulePool \ rules : rules' = rules \cup {r}
  /\ UNCHANGED signals

Disconnect ==
  /\ \E r \in rules : rules' = rules \ {r}
  /\ UNCHANGED signals

Next == Read \/ Connect \/ Disconnect

Spec == Init /\ [][Next]_vars

\* The rules are among those that may be connected, and there are finitely many.
TypeOK ==
  /\ signals \in Readings
  /\ rules \subseteq RulePool
  /\ IsFiniteSet(rules)

-----------------------------------------------------------------------------
\* The simulator at the edge and the server's fallback policy never disagree
\* about a reading (EdgeDecisionEngine against ShelfHealthEvaluator).
EdgeAgrees == EdgeEvaluate(signals) = HealthEvaluate(signals)

\* Whatever order the store lists tied rules in, the status is the same: it is
\* the most severe result among the rules that match, at any priority
\* (OrderByDescending(Severity) then FirstOrDefault).
StatusIsWorstMatch ==
  rules # {} =>
    LET matching == {r \in rules : Matches(r, signals)}
    IN  /\ RuleEvaluate(signals, rules) # {}
        /\ \A a \in RuleEvaluate(signals, rules) :
             /\ \A r \in matching : Severity(a.status) >= Severity(r.result)
             /\ a.status = "Healthy" \/ \E r \in matching : a.status = r.result

\* With the built-in policy, a reading that is worse in every signal (the
\* sensor staying online) is never judged milder.
WorseReadingNeverMilder ==
  [][ (/\ signals.online /\ signals'.online
       /\ signals'.inventory =< signals.inventory
       /\ signals'.days =< signals.days
       /\ signals.expired => signals'.expired)
        => Severity(HealthEvaluate(signals').status)
             >= Severity(HealthEvaluate(signals).status) ]_vars
=============================================================================
