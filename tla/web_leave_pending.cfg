SPECIFICATION Spec
CONSTANTS
  EnableAudio = TRUE
  EnableVideo = FALSE
  Sections = {a}
  MaxConfigs = 1
  MaxUploads = 1
  MaxLayouts = 1
  MaxLeaves = 2
INVARIANT LeavesSettled
