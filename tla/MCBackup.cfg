SPECIFICATION BackupSpec
CONSTANTS
  Clerks = {c1}
  Names = {"ann", "bob"}
  CanonicalUsername <- AsTyped
  Invites = {i1, i2}
  MaxUses = {1}
  ValidDays = {1}
  Policies <- Closed
  ManagedRoles = {"user"}
  LastDay = 1
INVARIANT BundleRestores
