SPECIFICATION Spec
CONSTANTS
  None = None
  Malformed = Malformed
  Error = Error
  IdRange = 4
  Ids = {0, 1}
  Entries <- MCEntries
  Persons <- MCPersons
  Sessions <- MCSessions
  Configurations <- MCConfigurations
  Assignments <- MCAssignments
  Requests <- MCRequests
  Reports <- MCReports
  Garbled <- MCGarbled
  Printed = {"audioCsrc","label"}
  Listened = {"media-entries", "participants", "session-control", "media-stats", "video-assignment"}
  MaxUpdates = 2
  MaxGarbled = 1
  MaxRequests = 1
  MaxSteps = 3
INVARIANT ReplicaIsTheServersPast
INVARIANT AnswersReachTheirRequests
INVARIANT RequestsArriveAsAsked
INVARIANT UploadsAreAllowlisted
PROPERTY ReplicaCatchesUp
CHECK_DEADLOCK FALSE
