CONSTANTS
  N = 3
  Leader = "l"
  Members <- MCMembers
  Others <- MCOthers
  Asks <- MCAsks
SPECIFICATION PackSpec
INVARIANTS NodeCounts
CHECK_DEADLOCK FALSE
