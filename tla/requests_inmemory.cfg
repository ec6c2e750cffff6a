CONSTANTS
  NoShelf = NoShelf
  Blank = Blank
  Configs = {c1}
  ShelfIds = {s1}
  ResourceIds <- MCTwoIds
  Bindings <- MCTwoBindings
  BindingLists <- MCDeviceOrRule
  NaturalKind <- MCTwoKinds
  RuleBodies <- MCRuleBodies
  Stock <- MCPlainStock
  Seed <- MCTwoKinds
  Signals <- MCOneSignal
  Provider = "inmemory"
  MatchingKinds = TRUE
  Managers = {m1}
  Recorders = {r1}
  Acknowledgers = {a1}
  Clerks = {d1}
  MaxVersion = 3
  MaxObservations = 1
SPECIFICATION Spec
PROPERTIES BoundResourceStays
