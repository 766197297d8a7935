SPECIFICATION FairSpec
CONSTANTS
  k1 = k1  m1 = m1  m2 = m2  m3 = m3  m4 = m4  w1 = w1  w2 = w2  NoMsg = NoMsg
  Keys = {k1}
  ChunkIds <- Chunks
  Deltas <- PlanDeltas
  Msgs = {m1, m2}
  Delta <- DeltaOf
  Poison = {}
  Workers = {w1, w2}
  BatchSize = 1
  MaxReceive = 2
  Retention = 1
  PostWindow = 1
  MaxRun = 1
  TTL = 3
  MaxTime = 2
PROPERTIES
  EverySentSettles
  PlanResolves
