SPECIFICATION FairSpec
CONSTANTS
  Ids = {i1, i2}
  Transactions = {t1, t2}
  Devices = {d1}
  Exporters = {}
  PageLimit = 1
  MaxRev = 4
  MaxBundles = 0
  MaxRestores = 0
INVARIANTS NothingSkipped AcknowledgedIsApplied
PROPERTIES Converges
