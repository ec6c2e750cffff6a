---------------------------- MODULE MCEvaluation ----------------------------
(***************************************************************************)
(* Evaluation on bounded inputs: the readings and rules of WatchedShelf.   *)
(***************************************************************************)
EXTENDS WatchedShelf

\* The inventories and days on either side of every comparison of the code.
MCReadings ==
  [inventory : {0, 10, 11, 29, 30}, days : {-1, 6, 7, 8},
   expired : BOOLEAN, online : BOOLEAN]

Rule(metric, operator, threshold, result, led, priority) ==
  [metric |-> metric, operator |-> operator, threshold |-> threshold,
   result |-> result, led |-> led, priority |-> priority]

\* The seeded rules, one rule for every operator, a high-priority rule with a
\* mild result, and ties in both sort keys with different colours.
MCRulePool ==
  { Rule("InventoryPercent", "LessThanOrEqual", 10, "Critical", "Red", 2),
    Rule("InventoryPercent", "LessThan", 30, "Warning", "Yellow", 1),
    Rule("DaysUntilExpiration", "LessThan", 7, "Warning", "Red", 1),
    Rule("SensorOnline", "Equal", 0, "Offline", "Blue", 1),
    Rule("ExpiredProductDetected", "NotEqual", 0, "Critical", "Red", 1),
    Rule("DaysUntilExpiration", "GreaterThan", 7, "Healthy", "Off", 3),
    Rule("InventoryPercent", "GreaterThanOrEqual", 11, "Offline", "Blue", 1),
    Rule("InventoryPercent", "GreaterThanOrEqual", 30, "Healthy", "Green", 1) }
=============================================================================
