SPECIFICATION RotationSpec
CONSTANTS
  a1 = a1
  a2 = a2
  d1 = d1
  d2 = d2
  Actors = {d1, d2, cleanup}
  Cleaner = cleanup
  Signer = d1
  MaxInt = 5
  Assets = {a1, a2}
  Texts = {1, 2}
  Rewriters <- Clients
  Blobs <- AllBlobs
  TextOf <- BlobText
  KeyOf <- BlobKey
  FormatOf <- BlobFormat
  Plans <- OneEach
  Savers = {s1}
  MaxSaves = 1
  Ops = {o1, o2, o3}
  Devices = {}
  Handlers = {h1, h2}
  Workers = {}
  UploadInputs <- Uploads
  Intents <- Requests
  AckInputs = {}
  LegacyCount = 0
  Retentions = {1}
  TombstoneDays = 0
  BatchLimit = 1
  MaxId = 2
  MaxRev = 4
  MaxDay = 1
INVARIANTS RotationTypeOK AtMostOnce RevisionsDistinct
PROPERTIES ClockForward ImplementsLifecycle ReencryptionKeepsContent MigrationKeepsKey RotationCoversAll KeyFence
SYMMETRY Symmetry
