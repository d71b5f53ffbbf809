SPECIFICATION FairSpec
CONSTANTS
  base = base  app = app  appEnc = appEnc  bad = bad  odd = odd  win = win
  cBase = cBase  cApp = cApp  cBad = cBad  cOdd = cOdd  cWin = cWin
  b1 = b1  b2 = b2  b3 = b3  b4 = b4  e2 = e2  e3 = e3
  x1 = x1  x2 = x2  x3 = x3  x4 = x4  x9 = x9
  uBase = uBase  uApp = uApp  uBad = uBad
  rBase = rBase  rMirror = rMirror  rApp = rApp  rBad = rBad
  Urls = {uBase, uApp, uBad}
  Refs = {rBase, rMirror, rApp, rBad}
  Manifests = {base, app, appEnc, bad, odd, win}
  Configs = {cBase, cApp, cBad, cOdd, cWin}
  Digests = {b1, b2, b3, b4, e2, e3}
  DiffIds = {x1, x2, x3, x4, x9}
  TasksOf <- MCTasksOf
  Served <- MCServed
  ConfigOf <- MCConfigOf
  LayersOf <- MCLayersOf
  DiffIdsOf <- MCDiffIdsOf
  BlobOf <- MCBlobOf
  Accepted <- MCAccepted
  Linux = {cBase, cApp, cBad, cOdd}
  Builder = TRUE
  MaxConcurrent = 2
  Faults = {"crash", "stray", "network", "layer", "rollback", "mount", "save", "cancel"}
  MaxLayers = 2
  MaxIndex = 5
  MaxRequests = 2
  NoUrl = NoUrl
  NoRef = NoRef
  NoManifest = NoManifest
INVARIANTS StoredImagesAreRight AnsweredIsSaved LayersUnpackAlone DatabasesAreTrue MountsHoldTheirImage
PROPERTIES RequestsEnd
CHECK_DEADLOCK FALSE
