CONSTANTS
  NoShelf = NoShelf
  Blank = Blank
  Configs = {c1}
  ShelfIds = {s1}
  ResourceIds <- MCRuleId
  Bindings <- MCRuleBindings
  BindingLists <- MCOneList
  NaturalKind <- MCRuleKind
  RuleBodies <- MCRuleBodies
  Stock <- MCPlainStock
  Seed <- MCRuleKind
  Signals <- MCSignals
  Provider = "sqlite"
  MatchingKinds = TRUE
  Managers = {}
  Recorders = {r1, r2}
  Acknowledgers = {a1}
  Clerks = {d1}
  MaxVersion = 2
  MaxObservations = 3
SPECIFICATION Spec
SYMMETRY RecorderSymmetry
INVARIANTS TypeInv AlertReflectsHistory LedShowsStoredDecision
PROPERTIES AlertsMoveForward
