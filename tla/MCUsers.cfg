SPECIFICATION UsersSpec
CONSTANTS
  Parts = {"accounts", "enrolment", "limiter"}
  Users = {"root", "user"}
  FirstRole <- FirstRoles
  FirstStatus <- FirstStates
  Handlers = {h1, h2}
  Scanners = {ticker}
  Durations = {0, 1}
  NewRoles = {"admin", "user"}
  ScanLimit = 1
  Budget <- Bounds
  Modes = {TRUE, FALSE}
  Overlap = 1
  MaxDay = 2
  Clerks = {c1, c2}
  Names = {"ann", "Ann", "bob", "cy"}
  CanonicalUsername <- LowerCase
  Invites = {i1}
  MaxUses = {2}
  ValidDays = {1}
  Policies <- Closed
  ManagedRoles = {"user"}
  LastDay = 1
  Addresses = {"a", "b"}
  Waiters = {w1, w2}
  Limit = 2
  Window = 3
  Slack = 1
  Retries = 0
  LastTick = 6
INVARIANTS TypeOK StatusAgrees SerialSessionsEnd AdministratorLeft EnrolmentTypeOK UsesAccountedFor NoOveruse OneAccountPerName FewerThanTwice
PROPERTIES BanHolds ExpiredBansEnd StaleBucketsGo
