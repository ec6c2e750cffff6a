CONSTANTS
  s1 = s1
  s2 = s2
  Shelves <- MCShelves
  None = None
  Times = {1, 2, 3}
  Offsets <- MCOffsets
  Readings = {"low"}
  MaxHistory = 3
  MaxPage = 2
  Limits <- MCLimits
SPECIFICATION Spec
SYMMETRY MCSymmetry
INVARIANTS LatestIsNewest ProvidersAgree OnlyDeletedIsMissing
