CONSTANTS
  NoShelf = NoShelf
  Blank = Blank
  Configs = {c1}
  ShelfIds = {s1}
  ResourceIds <- MCResourceIds
  Bindings <- MCBindings
  BindingLists <- MCDeviceLists
  NaturalKind <- MCKinds
  RuleBodies <- MCRuleBodies
  Stock <- MCPlainStock
  Seed <- MCKinds
  Signals <- MCOneSignal
  Provider = "sqlite"
  MatchingKinds = TRUE
  Managers = {m1}
  Recorders = {r1}
  Acknowledgers = {}
  Clerks = {}
  MaxVersion = 2
  MaxObservations = 1
SPECIFICATION Spec
INVARIANT HistoryHasShelf
