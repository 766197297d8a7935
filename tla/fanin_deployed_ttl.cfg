SPECIFICATION Spec
CONSTANTS
  k1 = k1  m1 = m1  m2 = m2  m3 = m3  m4 = m4  w1 = w1  w2 = w2  NoMsg = NoMsg
  Keys = {k1}
  ChunkIds <- Chunks
  Deltas <- PlanDeltas
  Msgs = {m1, m2}
  Delta <- DeltaOf
  Poison = {}
  Workers = {w1, w2}
  BatchSize = 1
  MaxReceive = 3
  Retention = 2
  PostWindow = 0
  MaxRun = 1
  TTL = 2
  MaxTime = 3
INVARIANT
  AppliedOnce
