SPECIFICATION Spec
CONSTANTS
  Interval = 2
  MaxTime = 3
  Video <- MCVideo
  MaxAudio = 2
INVARIANT PlayoutIsPaced
INVARIANT RecordingIsComplete
PROPERTY MainReturns
