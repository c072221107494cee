SPECIFICATION Spec
CONSTANTS
  Ids = {i1, i2}
  Transactions = {t1, t2}
  Devices = {d1}
  Exporters = {x1}
  PageLimit = 1
  MaxRev = 3
  MaxBundles = 1
  MaxRestores = 1
SYMMETRY Symmetry
INVARIANTS ResetWhereNeeded
