CONSTANTS
  NoShelf = NoShelf
  Blank = Blank
  led1 = led1
  led2 = led2
  Configs = {c1}
  ShelfIds = {s1}
  ResourceIds <- MCResourceIds
  Bindings <- MCLeds
  Stock <- MCNoStock
  Seed <- MCLeds
  Tasks = {t1, t2}
  Mounting = {t1, t2}
  OthersActive = TRUE
  MaxVersion = 2
SPECIFICATION Spec
SYMMETRY PageSymmetry
INVARIANTS ShownIsCurrent NothingUnseenIsOverwritten SendsSingletons
INVARIANTS CleanMeansUnchanged OneSaveRuns
PROPERTIES SaveShowsItsVersion
