SPECIFICATION Spec
CONSTANTS
  Sources = 2
  Identities = {v, w}
  Builders = {b, c}
  MaxRuns = 4
  None = None
  Torn = Torn
SYMMETRY Symmetry
INVARIANTS RowsAreOwnText CurrentIsWhole
