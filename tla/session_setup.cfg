SPECIFICATION Spec
CONSTANTS
  None = None
  Configurations <- MCConfigurations
  AudioStreams = 3
  MaxVideoStreams = 3
  Answers <- MCAnswers
INVARIANT ClientIsComplete
INVARIANT TeardownOnItsThread
INVARIANT OkMeansConnected
PROPERTY DestroyReturns
CHECK_DEADLOCK FALSE
