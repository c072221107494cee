SPECIFICATION Spec
CONSTANTS
  Users = {"root", "user"}
  FirstRole <- FirstRoles
  FirstStatus <- FirstStates
  Handlers = {h1, h2}
  Scanners = {ticker}
  Durations = {0, 1}
  NewRoles = {"admin"}
  ScanLimit = 1
  Budget <- TwoEach
  Modes = {FALSE}
  Overlap = 2
  MaxDay = 2
INVARIANT SessionsEnd
