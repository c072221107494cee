SPECIFICATION Spec
CONSTANTS
  Ids = {i1, i2}
  Transactions = {t1, t2}
  Devices = {}
  Exporters = {x1}
  PageLimit = 1
  MaxRev = 3
  MaxBundles = 2
  MaxRestores = 2
SYMMETRY Symmetry
CHECK_DEADLOCK FALSE
INVARIANTS TypeOK SequenceCoversRows
