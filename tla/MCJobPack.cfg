CONSTANTS
  N = 3
  Leader = "l"
  Members <- MCMembers
  Others <- MCOthers
  Asks <- MCAsks
SPECIFICATION PackLiveSpec
INVARIANTS PackTogether NodeCountsApart
PROPERTIES NoRevival LeaderDecided 
CHECK_DEADLOCK FALSE
