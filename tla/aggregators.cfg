SPECIFICATION BothSpec
CONSTANTS
  k1 = k1  k2 = k2  c1 = c1  c2 = c2  NoCaller = NoCaller
  Keys = {k1, k2}
  Unnamed = {}
  ChunkIds <- Chunks
  Deltas <- Results
  TTL = 2
  MaxTime = 4
  Callers = {c1, c2}
  Given <- WithInvalid
INVARIANTS
  RedisTypeOK
  AggregateOutlivesClaims
  RefusedIsFolded
  MemTypeOK
  StandInAgrees
PROPERTY
  ProgressOnlyGrows
