SPECIFICATION Spec
CONSTANTS
  Keys = {k1, k2}
  MaxTime = 2
  MaxHistory = 3
  MaxStatements = 2
SYMMETRY KeySymmetry
INVARIANTS
  RevokedSignsNothing
