----------------------------- MODULE Evaluation -----------------------------
(***************************************************************************)
(* How an observation of a shelf is judged: the built-in policy            *)
(* (ShelfHealthEvaluator), the operator-defined rules (EvaluationRule,     *)
(* ShelfRuleEvaluator) and the copy of the built-in policy that runs in    *)
(* the device simulator (EdgeDecisionEngine).  Everything here is a pure   *)
(* function: the module has no variables.                                  *)
(*                                                                         *)
(* An assessment keeps the two parts the rest of the system reads, the     *)
(* status and the LED colour; its reason text and confidence are dropped.  *)
(* A rule threshold is a double in the code and an integer here.           *)
(***************************************************************************)
EXTENDS Integers

Statuses  == {"Healthy", "Warning", "Critical", "Offline"}
Colors    == {"Green", "Yellow", "Red", "Blue", "Off"}
Metrics   == {"InventoryPercent", "DaysUntilExpiration",
              "ExpiredProductDetected", "SensorOnline"}
Operators == {"LessThan", "LessThanOrEqual", "Equal",
              "NotEqual", "GreaterThan", "GreaterThanOrEqual"}

\* ShelfSignals, after the handler's check that the inventory is a percentage.
ShelfSignals ==
  [inventory : 0..100, days : Int, expired : BOOLEAN, online : BOOLEAN]

EvaluationRules ==
  [metric : Metrics, operator : Operators, threshold : Int,
   result : Statuses, led : Colors, priority : Int]

Assessments == [status : Statuses, led : Colors]

Assess(status, led) == [status |-> status, led |-> led]

-----------------------------------------------------------------------------
(* The built-in policy. *)

\* A mutant: the milder condition is tested first.
HealthEvaluateWarningFirst(s) ==
  IF ~s.online THEN Assess("Offline", "Blue")
  ELSE IF s.days < 7 \/ s.inventory < 30 THEN Assess("Warning", "Yellow")
  ELSE IF s.expired \/ s.inventory <= 10 THEN Assess("Critical", "Red")
  ELSE Assess("Healthy", "Green")

HealthEvaluate(s) ==
  IF ~s.online THEN Assess("Offline", "Blue")
  ELSE IF s.expired \/ s.inventory <= 10 THEN Assess("Critical", "Red")
  ELSE IF s.days < 7 \/ s.inventory < 30 THEN Assess("Warning", "Yellow")
  ELSE Assess("Healthy", "Green")

\* A mutant: the expiry threshold is inclusive at the edge only.
EdgeEvaluateOffByOne(r) ==
  IF ~r.online THEN Assess("Offline", "Blue")
  ELSE IF r.inventory <= 10 \/ r.expired THEN Assess("Critical", "Red")
  ELSE IF r.inventory < 30 \/ r.days <= 7 THEN Assess("Warning", "Yellow")
  ELSE Assess("Healthy", "Green")

\* The simulator's decision, taken at the edge before the reading is posted.
EdgeEvaluate(r) ==
  IF ~r.online THEN Assess("Offline", "Blue")
  ELSE IF r.inventory <= 10 \/ r.expired THEN Assess("Critical", "Red")
  ELSE IF r.inventory < 30 \/ r.days < 7 THEN Assess("Warning", "Yellow")
  ELSE Assess("Healthy", "Green")

-----------------------------------------------------------------------------
(* Operator-defined rules. *)

MetricValue(metric, s) ==
  CASE metric = "InventoryPercent"       -> s.inventory
    [] metric = "DaysUntilExpiration"    -> s.days
    [] metric = "ExpiredProductDetected" -> IF s.expired THEN 1 ELSE 0
    [] metric = "SensorOnline"           -> IF s.online THEN 1 ELSE 0

\* |a - b| < double.Epsilon holds exactly when a = b.
Matches(rule, s) ==
  LET value == MetricValue(rule.metric, s)
  IN  CASE rule.operator = "LessThan"           -> value < rule.threshold
        [] rule.operator = "LessThanOrEqual"    -> value =< rule.threshold
        [] rule.operator = "Equal"              -> value = rule.threshold
        [] rule.operator = "NotEqual"           -> value # rule.threshold
        [] rule.operator = "GreaterThan"        -> value > rule.threshold
        [] rule.operator = "GreaterThanOrEqual" -> value >= rule.threshold

Severity(status) ==
  CASE status = "Critical" -> 4
    [] status = "Offline"  -> 3
    [] status = "Warning"  -> 2
    [] OTHER               -> 1

\* A mutant: priority is the primary sort key.
PrecedesByPriority(q, r) ==
  \/ q.priority > r.priority
  \/ q.priority = r.priority /\ Severity(q.result) > Severity(r.result)

\* Rule q comes strictly before rule r in the order severity, then priority.
Precedes(q, r) ==
  \/ Severity(q.result) > Severity(r.result)
  \/ Severity(q.result) = Severity(r.result) /\ q.priority > r.priority

\* The matching rules the sort may leave in first place.  Rules that tie on
\* both keys keep the order in which the store returned them, which neither
\* store fixes: any of them may win.
Winners(s, rules) ==
  LET matching == {r \in rules : Matches(r, s)}
  IN  {r \in matching : \A q \in matching : ~Precedes(q, r)}

\* The assessments ShelfRuleEvaluator.Evaluate can return.
RuleEvaluate(s, rules) ==
  IF rules = {} THEN {HealthEvaluate(s)}
  ELSE IF Winners(s, rules) = {} THEN {Assess("Healthy", "Green")}
  ELSE {Assess(r.result, r.led) : r \in Winners(s, rules)}

\* The severity of the alert an assessment raises, "None" when it raises none.
AlertSeverity(status) ==
  CASE status = "Healthy"  -> "None"
    [] status = "Critical" -> "Critical"
    [] OTHER               -> "Warning"
=============================================================================
