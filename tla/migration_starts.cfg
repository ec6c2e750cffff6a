CONSTANTS
  s1 = s1
  s2 = s2
  x1 = x1
  x2 = x2
  Shelves <- MCShelves
  Serials <- MCSerials
  None = None
  MaxStops = 2
  MaxVersion = 2
SPECIFICATION FairSpec
PROPERTIES StartMigratesAll StartKeepsWork DatabaseOpens
CHECK_DEADLOCK FALSE
