SPECIFICATION Spec
CONSTANTS
  Keys = {k1, k2}
  MaxTime = 1
  MaxHistory = 3
  MaxStatements = 2
SYMMETRY KeySymmetry
INVARIANTS
  VerifySound
  VerifyExactWithOneAnchor
  PinnedStaysTrusted
PROPERTIES
  OnlyALaterRevocationAdmits
