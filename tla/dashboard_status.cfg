CONSTANTS
  s1 = s1
  s2 = s2
  t1 = t1
  t2 = t2
  Shelves <- MCShelves
  None = None
  Failed = Failed
  TimedOut = TimedOut
  Clicks <- MCClicks
  Timer = Timer
  MaxEvents = 1
  MaxClicks = 2
  MaxLosses = 1
SPECIFICATION FairSpec
PROPERTIES SummariesMoveForward PageCatchesUp HistoryFollowsSelection
CHECK_DEADLOCK FALSE
