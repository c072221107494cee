SPECIFICATION FairSpec
CONSTANTS
  a1 = a1
  a2 = a2
  d1 = d1
  d2 = d2
  b1 = b1
  Actors = {d1, d2, cleanup}
  Cleaner = cleanup
  MaxInt = 8
  Assets = {a1, a2}
  Blobs = {b1}
  Ops = {o1, o2}
  Devices = {d1, d2}
  Handlers = {h1}
  Workers = {w1}
  UploadInputs <- TrashUploads
  Intents <- LeavingIntents
  AckInputs = {5, 6}
  LegacyCount = 0
  Retentions = {1}
  TombstoneDays = 1
  BatchLimit = 1
  MaxId = 2
  MaxRev = 7
  MaxDay = 3
PROPERTIES ExpiredLeaves TombstonesLeave ImplementsLifecycle
