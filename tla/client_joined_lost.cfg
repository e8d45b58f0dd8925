SPECIFICATION FairSpec
CONSTANTS
  Callers = {c1}
  Intervals = {0}
  MaxJoinedUpdates = 1
  MaxConfigs = 0
  MaxExtras = 0
  LinkMayFail = FALSE
PROPERTY JoinReported
