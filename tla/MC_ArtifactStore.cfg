SPECIFICATION MCFairSpec
CONSTANTS
  f1 = f1
  f2 = f2
  f3 = f3
  a = a
  b = b
  none = none
  torn = torn
  rotten = rotten
  p1 = p1
  p2 = p2
  Files = {f1, f2, f3}
  NameOf <- NameOfDef
  Contents = {a, b}
  None = none
  Torn = torn
  Rotten = rotten
  CanRot = TRUE
  Pids = {p1, p2}
  ReusePids = TRUE
  MaxCrashes = 1
  MaxFailures = 1
  MaxRewrites = 1
INVARIANTS StoreTypeOK BlobsAreWhole VersionsExact LitterIsAccounted
PROPERTIES DamageIsFound ImplementsCatalog EverythingIngested
