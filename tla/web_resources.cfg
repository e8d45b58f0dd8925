SPECIFICATION Spec
SYMMETRY LayoutSymmetry
CONSTANTS
  Persons = {p, q}
  Named = {p}
  IdsPerPerson = 2
  EntriesPerPerson = 1
  Roles = {"presenter"}
  Audio = {"live"}
  Layouts = {l1, l2}
  Ssrcs = {1}
  AudioTracks = 1
  VideoTracks = 1
  MaxMessages = 4
  MaxBatch = 1
  None = None
INVARIANT MapsAgree
INVARIANT ResourcesListed
INVARIANT SpotlightPresent
INVARIANT LayoutShowsEntry
