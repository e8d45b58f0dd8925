SPECIFICATION Spec
SYMMETRY ResourceSymmetry
CONSTANTS
  Sessions = {s1, s2}
  Keys = {k1, k2}
  Ids = {1, 2}
  Csrcs = {0, 1}
  NoStream = 0
  Names = {n1, n2}
  None = None
CHECK_DEADLOCK FALSE
INVARIANT OwnersAreTheResources
INVARIANT ResourcesFound
INVARIANT IdentifierNamesOwner
