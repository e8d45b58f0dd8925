SPECIFICATION FairSpec
CONSTANTS
  Csrcs = {1}
  Sizes = {a, b}
  Identifiers = {p}
  Gap = 2
  MaxTime = 3
  MaxFrames = 3
  MaxUpdates = 1
  None = None
INVARIANT SegmentsAreStretches
INVARIANT NotifiedOnce
INVARIANT RecordingComplete
PROPERTY DisconnectReleasesWaiter
