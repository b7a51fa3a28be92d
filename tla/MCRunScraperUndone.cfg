SPECIFICATION Spec
CONSTANTS
  Calls = {c1}
  sq = sq
  Squids = {sq, n1, n2}
  Saved = {sq}
  NoSquid = NoSquid
  NewSquid = NewSquid
  r1 = r1
  r2 = r2
  Rows = {r1, r2, empty}
  EmptyRow = empty
  NoRow = NoRow
  k1 = k1
  k2 = k2
  Cfgs = {k1, k2}
  DefaultCfg = k1
  NoCfg = NoCfg
  a1 = a1
  a2 = a2
  Accounts = {}
  Matching = {}
  Healthy = {}
  NoAccount = NoAccount
  NeedsAccount = FALSE
  key1 = key1
  Keys = {key1}
  NoKey = NoKey
  Requests <- MCRowRequests
  FreeRows <- MCFreeRows
  PageCap = 2
  ExplicitTTL = 2
  DerivedTTL = 1
  SharedStore = TRUE
  MaxTime = 0
  MaxFaults = 1
  MaxEdits = 0
INVARIANTS
  RestoredMeansNoRun
