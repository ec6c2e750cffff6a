CONSTANTS
  s1 = s1
  t1 = t1
  t2 = t2
  Shelves <- MCShelves
  None = None
  Ok = Ok
  Refused = Refused
  TimedOut = TimedOut
  Clicks <- MCClicks
  MaxVersion = 3
SPECIFICATION FairSpec
PROPERTIES NothingUnseenIsOverwritten SavingEnds
