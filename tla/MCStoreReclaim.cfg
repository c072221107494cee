SPECIFICATION Spec
CONSTANTS
  a1 = a1
  a2 = a2
  d1 = d1
  d2 = d2
  b1 = b1
  Actors = {d1, d2, cleanup}
  Cleaner = cleanup
  MaxInt = 8
  Assets = {a1}
  Blobs = {b1}
  Ops = {o1}
  Devices = {d1, d2}
  Handlers = {h1}
  Workers = {w1}
  UploadInputs <- OneUpload
  Intents <- OneDelete
  AckInputs = {0, 1, 2, 3, 4}
  LegacyCount = 0
  Retentions = {1}
  TombstoneDays = 1
  BatchLimit = 1
  MaxId = 1
  MaxRev = 4
  MaxDay = 3
PROPERTY ReclaimOnlyAcknowledged
