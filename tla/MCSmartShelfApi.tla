-------------------------- MODULE MCSmartShelfApi ---------------------------
(***************************************************************************)
(* Small instances of the API for TLC: two devices of each kind that       *)
(* matters and one rule.  The configurations choose which requests run.    *)
(***************************************************************************)
EXTENDS SmartShelfApi, TLC

MCResourceIds == {"dev1", "dev2", "rule1"}

\* A controller, an LED output and a rule; or two LED outputs and a rule, for
\* the binding lists the domain must refuse.
MCKinds == "dev1" :> "Controller" @@ "dev2" :> "LedOutput" @@ "rule1" :> "EvaluationRule"

MCTwoLeds == [MCKinds EXCEPT !["dev1"] = "LedOutput"]

Bind(kind, id) == [kind |-> kind, id |-> id]

MCBindings ==
  {Bind(k, i) : k \in {"Controller", "LedOutput"}, i \in {"dev1", "dev2"}}
    \cup {Bind("EvaluationRule", "rule1")}

\* Nothing, one rule, two LED outputs, a duplicate, a device of another kind.
MCBindingLists ==
  { <<>>, <<Bind("EvaluationRule", "rule1")>>,
    <<Bind("LedOutput", "dev1"), Bind("LedOutput", "dev2")>>,
    <<Bind("LedOutput", "dev1"), Bind("LedOutput", "dev1")>>,
    <<Bind("Controller", "dev1"), Bind("EvaluationRule", "rule1")>> }

\* An empty database, and one with a shelf.
MCEmptyStock == [s \in ShelfIds |-> NoShelf]

MCShelf(bound) ==
  [version |-> 1, config |-> CHOOSE c \in Configs : TRUE, enabled |-> TRUE,
   bindings |-> bound]

MCPlainStock == [s \in ShelfIds |-> MCShelf({})]

MCOneList == { <<Bind("EvaluationRule", "rule1")>> }

\* One rule and nothing else.
MCRuleId == {"rule1"}
MCRuleKind == "rule1" :> "EvaluationRule"
MCRuleBindings == {Bind("EvaluationRule", "rule1")}

MCDeviceLists == { <<Bind("Controller", "dev1")>>, <<>> }

\* A device and a rule, and a shelf bound to one of them or to nothing.
MCTwoIds == {"dev1", "rule1"}
MCTwoKinds == [i \in MCTwoIds |-> MCKinds[i]]
MCTwoBindings == {Bind(MCTwoKinds[i], i) : i \in MCTwoIds}
MCDeviceOrRule == MCDeviceLists \cup MCOneList

LowStock(result, color) ==
  [metric |-> "InventoryPercent", operator |-> "LessThan", threshold |-> 30,
   result |-> result, led |-> color, priority |-> 1]

MCRuleBodies == { LowStock("Warning", "Yellow") }

Reading(inventory) ==
  [inventory |-> inventory, days |-> 30, expired |-> FALSE, online |-> TRUE]

\* Healthy, warning and critical by the built-in policy, and no percentage.
MCSignals == { Reading(80), Reading(20), Reading(5), Reading(101) }

MCOneSignal == { Reading(20) }

RecorderSymmetry == Permutations(Recorders)
=============================================================================
