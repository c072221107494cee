SPECIFICATION Spec
CONSTANTS
  a1 = a1
  a2 = a2
  d1 = d1
  d2 = d2
  b1 = b1
  Actors = {d1, d2, cleanup}
  Cleaner = cleanup
  MaxInt = 8
  Assets = {a1}
  Blobs = {b1}
  Ops = {o1}
  Devices = {}
  Handlers = {h1, h2}
  Workers = {w1}
  UploadInputs <- MixedUploads
  Intents <- MixedIntents
  AckInputs = {}
  LegacyCount = 1
  Retentions = {1}
  TombstoneDays = 0
  BatchLimit = 1
  MaxId = 3
  MaxRev = 6
  MaxDay = 2
PROPERTY TombstoneNotOverwritten
