CONSTANTS
  NoShelf = NoShelf
  Blank = Blank
  Configs = {c1, c2}
  ShelfIds = {s1}
  ResourceIds <- MCResourceIds
  Bindings <- MCBindings
  BindingLists <- MCBindingLists
  NaturalKind <- MCTwoLeds
  RuleBodies <- MCRuleBodies
  Stock <- MCEmptyStock
  Seed <- MCTwoLeds
  Signals <- MCOneSignal
  Provider = "sqlite"
  MatchingKinds = TRUE
  Managers = {m1, m2}
  Recorders = {}
  Acknowledgers = {}
  Clerks = {}
  MaxVersion = 3
  MaxObservations = 0
SPECIFICATION FairSpec
INVARIANTS CopyIsCurrent VersionsInOrder SingletonBindings
PROPERTIES ActsAsRegister VersionCountsChanges RefusedMeansUnchangedOrGone
PROPERTIES RequestsAreAnswered
