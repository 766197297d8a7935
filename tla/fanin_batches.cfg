SPECIFICATION Spec
CONSTANTS
  k1 = k1  m1 = m1  m2 = m2  m3 = m3  m4 = m4  w1 = w1  w2 = w2  NoMsg = NoMsg
  Keys = {k1}
  ChunkIds <- Chunks
  Deltas <- PlanDeltas
  Msgs = {m1, m2, m4}
  Delta <- DeltaOf
  Poison = {m4}
  Workers = {w1, w2}
  BatchSize = 2
  MaxReceive = 2
  Retention = 1
  PostWindow = 0
  MaxRun = 1
  TTL = 2
  MaxTime = 3
SYMMETRY WorkerSymmetry
INVARIANTS
  TypeOK
  AckedIsFolded
  CompleteIsWholePlan
