SPECIFICATION Spec
SYMMETRY ResourceSymmetry
CONSTANTS
  Sessions = {s1, s2}
  Keys = {k1, k2}
  Ids = {1, 2}
  Csrcs = {1, 2}
  NoStream = 0
  Names = {n1}
  None = None
INVARIANT MediaEntryLookupsOwned
