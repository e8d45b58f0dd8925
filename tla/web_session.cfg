SPECIFICATION FairSpec
CONSTANTS
  EnableAudio = TRUE
  EnableVideo = TRUE
  Sections = {a}
  MaxConfigs = 2
  MaxUploads = 2
  MaxLayouts = 1
  MaxLeaves = 1
INVARIANT SingleTimer
INVARIANT RequestsSettled
INVARIANT EndIsFinal
PROPERTY NoUploadAfterDisconnected
PROPERTY StatsStop
