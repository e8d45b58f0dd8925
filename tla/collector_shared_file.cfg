SPECIFICATION Spec
CONSTANTS
  Csrcs = {1, 2}
  Sizes = {a}
  Identifiers = {p}
  Gap = 2
  MaxTime = 1
  MaxFrames = 2
  MaxUpdates = 1
  None = None
INVARIANT TemporaryFilesDistinct
