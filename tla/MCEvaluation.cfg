CONSTANTS
  MaxRules = 3
  Readings <- MCReadings
  RulePool <- MCRulePool
SPECIFICATION Spec
INVARIANTS EdgeAgrees StatusIsWorstMatch
PROPERTIES WorseReadingNeverMilder
