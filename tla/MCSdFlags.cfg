SPECIFICATION Spec
CONSTANTS
  Targets = 1
  Managers = {m1, m2}
SYMMETRY Symmetry
INVARIANTS LoneQueryTellsTheTruth RevalidationKept
