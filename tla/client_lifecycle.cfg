SPECIFICATION FairSpec
CONSTANTS
  Callers = {c1, c2}
  Intervals = {0, 1}
  MaxJoinedUpdates = 1
  MaxConfigs = 1
  MaxExtras = 1
  LinkMayFail = TRUE
INVARIANT JoinedSeenAfterOnJoined
INVARIANT DisconnectedIsFinal
INVARIANT StatusNamesCause
INVARIANT SingleStatsLoop
INVARIANT DestroyedIsQuiet
PROPERTY ImplementsContract
PROPERTY DeadClientIsInert
PROPERTY DisconnectReported
PROPERTY LeaveDisconnects
PROPERTY ConnectResolves
PROPERTY DestroyCompletes
