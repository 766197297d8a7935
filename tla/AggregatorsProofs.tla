------------------------- MODULE AggregatorsProofs -------------------------
(***************************************************************************)
(* Proofs about Aggregators: how far the in-memory aggregator answers as   *)
(* Redis does, for any number of goroutines and every set of results, the  *)
(* ones that only Redis takes among them.                                  *)
(***************************************************************************)
EXTENDS Aggregators, RedisAggregatorProofs

\* A caller past the checks has a valid result; one that has claimed its chunk has
\* a copy of the snapshot that nobody has changed since.
CallersInv ==
  \A c \in Callers :
    /\ pc[c] # "idle" => arg[c] \in Deltas /\ Mem!Valid(arg[c])
    /\ pc[c] = "fold" => /\ local[c] = snapshots[arg[c].key]
                         /\ Mem!chunkKey(arg[c]) \in seen

\* Nothing expires before the first time-to-live is over.
NotBeforeTTL ==
  \A k \in Keys : /\ agg[k].expires = 0 \/ agg[k].expires >= TTL
                  /\ \A n \in ChunkIds : claim[k][n] = 0 \/ claim[k][n] >= TTL

BothInv == /\ RedisInv /\ NotBeforeTTL
           /\ MemTypeOK /\ CallersInv
           /\ StandInAgrees

-----------------------------------------------------------------------------

\* The counters are those of Redis, and the sum is the same sum.
LEMMA SameCounters ==
  /\ Mem!Fields = Fields /\ Mem!Counters = Counters /\ Mem!ZeroCounters = ZeroCounters
  /\ \A a, b : Mem!Plus(a, b) = Plus(a, b)
BY DEF Mem!Fields, Fields, Mem!Counters, Counters, Mem!ZeroCounters, ZeroCounters, Mem!Plus, Plus

\* A valid result has a key, a number and counters.
LEMMA DeltaType ==
  ASSUME NEW d \in Deltas, Mem!Valid(d)
  PROVE  /\ d.key \in Keys /\ d.chunk \in ChunkIds /\ d.chunk \in Nat
         /\ d.expected \in Nat /\ d.counters \in Counters /\ d.expected > 0
<1>1. /\ d.key \in Keys /\ d.chunk \in ChunkIds /\ d.expected \in Nat \ {0}
      /\ d.counters \in Counters
  BY RedisAssumption
<1>2. d.chunk \in Int /\ 0 <= d.chunk
  BY <1>1, RedisAssumption DEF Mem!Valid
<1> QED  BY <1>1, <1>2

\* What the in-memory aggregator takes is among what Redis takes.
LEMMA ValidIsDelta ==
  ASSUME NEW d \in Given, Mem!Valid(d)
  PROVE  d \in Deltas
<1>1. d.chunk \in Int /\ d.expected \in Int
  BY GivenAssumption, RedisAssumption
<1> QED  BY <1>1, GivenAssumption DEF Mem!Valid

\* They start in agreement.
LEMMA InitBothInv == BothInit => BothInv
<1> SUFFICES ASSUME BothInit PROVE BothInv  OBVIOUS
<1>1. RedisInv
  BY RedisInitInv DEF BothInit
<1>2. Mem!NoSnapshot \in Mem!Snapshots
  BY SameCounters DEF Mem!NoSnapshot, Mem!Snapshots, ZeroCounters, Counters
<1>3. Mem!NoDelta \in Given
  BY GivenAssumption DEF Mem!NoDelta
<1>4. MemTypeOK
  BY <1>2, <1>3, GivenAssumption DEF BothInit, Mem!MemInit, MemTypeOK, Mem!MutexTypeOK
<1>5. NotBeforeTTL
  BY DEF BothInit, RedisInit, NotBeforeTTL, NoHash
<1>6. CallersInv
  BY DEF BothInit, Mem!MemInit, CallersInv
<1>7. StandInAgrees
  BY SameCounters DEF BothInit, RedisInit, Mem!MemInit, StandInAgrees, Claimed, Hash, Live,
     NoHash, Mem!NoSnapshot, Mem!Pending, Counted
<1> QED  BY <1>1, <1>4, <1>5, <1>6, <1>7 DEF BothInv

-----------------------------------------------------------------------------

\* What a step of the store alone leaves: the callers.
LEMMA RedisUnchanged ==
  ASSUME BothInv, UNCHANGED redisVars
  PROVE  RedisInv' /\ NotBeforeTTL'
BY DEF BothInv, redisVars, RedisInv, RedisTypeOK, ExpiryWithinTTL, AggregateOutlivesClaims,
       RefusedIsFolded, Claimed, Live, NotBeforeTTL

\* Entering the call concerns the caller alone.
LEMMA CallBothInv ==
  ASSUME BothInv, NEW c \in Callers, NEW d \in Given, Mem!Call(c, d),
         UNCHANGED <<redisVars, disputed>>
  PROVE  BothInv'
<1>1. /\ d \in Deltas /\ Mem!Valid(d) /\ pc[c] = "idle"
      /\ pc' = [pc EXCEPT ![c] = "lock"] /\ arg' = [arg EXCEPT ![c] = d]
      /\ UNCHANGED <<mu, seen, snapshots, local>>
  BY ValidIsDelta DEF Mem!Call
<1>2. MemTypeOK'
  BY <1>1 DEF BothInv, MemTypeOK, Mem!MutexTypeOK
<1>3. CallersInv'
  BY <1>1 DEF BothInv, MemTypeOK, Mem!MutexTypeOK, CallersInv
<1>4. \A k \in Keys, n \in ChunkIds : Counted(k, n)' <=> Counted(k, n)
  BY <1>1 DEF BothInv, MemTypeOK, Mem!MutexTypeOK, Mem!Pending, Counted
<1>5. StandInAgrees'
  BY <1>1, <1>4 DEF BothInv, StandInAgrees, redisVars, Claimed, Hash, Live
<1> QED  BY <1>2, <1>3, <1>5, RedisUnchanged DEF BothInv

\* Only one caller gets the mutex.
LEMMA LockBothInv ==
  ASSUME BothInv, NEW c \in Callers, Mem!Lock(c), UNCHANGED <<redisVars, disputed>>
  PROVE  BothInv'
<1>1. /\ pc[c] = "lock" /\ mu = NoCaller /\ mu' = c /\ pc' = [pc EXCEPT ![c] = "locked"]
      /\ UNCHANGED <<seen, snapshots, arg, local>>
  BY DEF Mem!Lock, Mem!Free
<1>2. MemTypeOK'
  BY <1>1, GivenAssumption DEF BothInv, MemTypeOK, Mem!MutexTypeOK
<1>3. CallersInv'
  BY <1>1 DEF BothInv, MemTypeOK, Mem!MutexTypeOK, CallersInv
<1>4. \A k \in Keys, n \in ChunkIds : Counted(k, n)' <=> Counted(k, n)
  BY <1>1 DEF BothInv, MemTypeOK, Mem!MutexTypeOK, Mem!Pending, Counted
<1>5. StandInAgrees'
  BY <1>1, <1>4 DEF BothInv, StandInAgrees, redisVars, Claimed, Hash, Live
<1> QED  BY <1>2, <1>3, <1>5, RedisUnchanged DEF BothInv

\* The chunk is taken as counted once its sum is stored, and Redis agrees meanwhile.
LEMMA ClaimBothInv ==
  ASSUME BothInv, NEW c \in Callers, Mem!Claim(c), UNCHANGED <<redisVars, disputed>>
  PROVE  BothInv'
<1> DEFINE d == arg[c]
<1>1. /\ pc[c] = "locked" /\ mu = c /\ d \in Deltas /\ Mem!Valid(d)
      /\ Mem!chunkKey(d) \notin seen
      /\ seen' = seen \union {Mem!chunkKey(d)}
      /\ local' = [local EXCEPT ![c] = snapshots[d.key]]
      /\ pc' = [pc EXCEPT ![c] = "fold"]
      /\ UNCHANGED <<mu, snapshots, arg>>
  BY DEF Mem!Claim, BothInv, CallersInv, MemTypeOK, Mem!MutexTypeOK
<1>2. d.key \in Keys /\ d.chunk \in Nat
  BY <1>1, DeltaType
<1> HIDE DEF d
<1>3. MemTypeOK'
  BY <1>1, <1>2 DEF BothInv, MemTypeOK, Mem!MutexTypeOK, Mem!chunkKey
<1>4. CallersInv'
  BY <1>1 DEF BothInv, MemTypeOK, Mem!MutexTypeOK, CallersInv, d
<1>5. ASSUME NEW k \in Keys, NEW n \in ChunkIds PROVE Counted(k, n)' <=> Counted(k, n)
  <2>1. \A x \in Callers : pc[x] # "fold"
    BY <1>1 DEF BothInv, MemTypeOK, Mem!MutexTypeOK
  <2>2. Mem!Pending(k, n)' <=> Mem!chunkKey(d) = <<k, n>>
    BY <1>1, <2>1 DEF BothInv, MemTypeOK, Mem!MutexTypeOK, Mem!Pending, Mem!chunkKey, d
  <2>3. ~Mem!Pending(k, n)
    BY <2>1 DEF Mem!Pending
  <2> QED  BY <1>1, <2>2, <2>3 DEF Counted
<1>6. StandInAgrees'
  BY <1>1, <1>5 DEF BothInv, StandInAgrees, redisVars, Claimed, Hash, Live
<1> QED  BY <1>3, <1>4, <1>6, RedisUnchanged DEF BothInv

-----------------------------------------------------------------------------

\* What the script leaves of RedisInv and of the first time-to-live.
LEMMA ScriptKeepsTTL ==
  ASSUME RedisInv, NotBeforeTTL, NEW d \in Deltas, ApplyChunkScript(d), UNCHANGED now
  PROVE  RedisInv' /\ NotBeforeTTL'
<1>1. RedisInv'
  BY ScriptKeepsInv
<1>2. TTL \in Nat /\ now \in Nat /\ d.key \in Keys /\ d.chunk \in ChunkIds
  BY RedisAssumption, DeltaType DEF RedisInv, RedisTypeOK
<1>3. CASE UNCHANGED <<claim, agg, folded>>
  BY <1>1, <1>3 DEF NotBeforeTTL
<1>4. CASE claim' = [claim EXCEPT ![d.key][d.chunk] = now + TTL] /\ Fold(d)
  BY <1>1, <1>2, <1>4 DEF NotBeforeTTL, Fold, NewExpiry, RedisInv, RedisTypeOK
<1> QED  BY <1>3, <1>4 DEF ApplyChunkScript

\* A result that both take goes to the script, and disputes nothing.
LEMMA ValidIsRedis ==
  ASSUME NEW d \in Deltas, Mem!Valid(d), GiveToRedis(d)
  PROVE  ApplyChunkScript(d) /\ UNCHANGED <<now, disputed>>
BY DeltaType DEF GiveToRedis, OnlyRedisTakes, ApplyChunkResult

\* What the in-memory one refuses as a duplicate Redis refuses too.
LEMMA DuplicateBothInv ==
  ASSUME BothInv, NEW c \in Callers, Mem!Duplicate(c), GiveToRedis(arg[c])
  PROVE  BothInv'
<1> DEFINE d == arg[c]
<1>1. /\ pc[c] = "locked" /\ mu = c /\ d \in Deltas /\ Mem!Valid(d)
      /\ Mem!chunkKey(d) \in seen
      /\ mu' = NoCaller /\ pc' = [pc EXCEPT ![c] = "idle"]
      /\ arg' = [arg EXCEPT ![c] = Mem!NoDelta]
      /\ local' = [local EXCEPT ![c] = Mem!NoSnapshot]
      /\ UNCHANGED <<seen, snapshots>>
  BY DEF Mem!Duplicate, Mem!Return, BothInv, CallersInv, MemTypeOK, Mem!MutexTypeOK
<1>0. ApplyChunkScript(d) /\ UNCHANGED <<now, disputed>>
  BY <1>1, ValidIsRedis
<1>2. Mem!NoSnapshot \in Mem!Snapshots /\ Mem!NoDelta \in Given
  BY SameCounters, GivenAssumption
     DEF Mem!NoSnapshot, Mem!Snapshots, ZeroCounters, Counters, Mem!NoDelta
<1>3. MemTypeOK'
  BY <1>1, <1>2, GivenAssumption DEF BothInv, MemTypeOK, Mem!MutexTypeOK
<1>4. CallersInv'
  BY <1>1 DEF BothInv, MemTypeOK, Mem!MutexTypeOK, CallersInv
<1>5. \A x \in Callers : pc[x] # "fold" /\ pc'[x] # "fold"
  BY <1>1 DEF BothInv, MemTypeOK, Mem!MutexTypeOK
<1>6. RedisInv' /\ NotBeforeTTL'
  BY <1>0, <1>1, ScriptKeepsTTL DEF BothInv
<1>7. ASSUME now' < TTL PROVE UNCHANGED <<claim, agg, folded>>
  <2>1. Counted(d.key, d.chunk)
    BY <1>1, <1>5 DEF Mem!chunkKey, Mem!Pending, Counted
  <2>2. Claimed(d.key, d.chunk)
    BY <1>0, <1>1, <1>7, <2>1, DeltaType DEF BothInv, StandInAgrees
  <2> QED  BY <1>0, <2>2 DEF ApplyChunkScript
<1>8. \A k \in Keys, n \in ChunkIds : Counted(k, n)' <=> Counted(k, n)
  BY <1>1, <1>5 DEF Mem!Pending, Counted
<1>9. StandInAgrees'
  BY <1>0, <1>1, <1>7, <1>8 DEF BothInv, StandInAgrees, Claimed, Hash, Live
<1> QED  BY <1>3, <1>4, <1>6, <1>9 DEF BothInv

-----------------------------------------------------------------------------

\* The sum is stored when the script folds the same result into the same hash: the
\* mutex lets no other caller be between its claim and its sum.
LEMMA StoreBothInv ==
  ASSUME BothInv, NEW c \in Callers, Mem!Store(c), GiveToRedis(arg[c])
  PROVE  BothInv'
<1> DEFINE d == arg[c]
           sum == [expected |-> d.expected,
                   completed |-> local[c].completed + 1,
                   counters |-> Plus(local[c].counters, d.counters)]
<1>1. /\ pc[c] = "fold" /\ mu = c /\ d \in Deltas /\ Mem!Valid(d) /\ d \in Given
      /\ local[c] = snapshots[d.key] /\ Mem!chunkKey(d) \in seen
      /\ mu' = NoCaller /\ pc' = [pc EXCEPT ![c] = "idle"]
      /\ arg' = [arg EXCEPT ![c] = Mem!NoDelta]
      /\ local' = [local EXCEPT ![c] = Mem!NoSnapshot]
      /\ snapshots' = [snapshots EXCEPT ![d.key] = sum]
      /\ UNCHANGED seen
  BY SameCounters DEF Mem!Store, Mem!Return, BothInv, CallersInv, MemTypeOK, Mem!MutexTypeOK
<1>0. ApplyChunkScript(d) /\ UNCHANGED <<now, disputed>>
  BY <1>1, ValidIsRedis
<1>2. Mem!NoSnapshot \in Mem!Snapshots /\ Mem!NoDelta \in Given
  BY SameCounters, GivenAssumption
     DEF Mem!NoSnapshot, Mem!Snapshots, ZeroCounters, Counters, Mem!NoDelta
<1>3. d.key \in Keys /\ d.chunk \in ChunkIds /\ d.chunk \in Nat
      /\ d.expected \in Nat /\ d.counters \in Counters
  BY <1>1, DeltaType
<1>4. \A x \in Callers : x # c => pc[x] # "fold"
  BY <1>1 DEF BothInv, MemTypeOK, Mem!MutexTypeOK
<1>5. sum \in Mem!Snapshots
  <2>1. local[c] \in Mem!Snapshots
    BY DEF BothInv, MemTypeOK, Mem!MutexTypeOK
  <2>2. local[c].completed \in Nat /\ local[c].counters \in Counters
    BY <2>1, SameCounters DEF Mem!Snapshots
  <2>3. Plus(local[c].counters, d.counters) \in Counters
    BY <1>3, <2>2, PlusType
  <2> QED  BY <1>3, <2>2, <2>3, SameCounters DEF Mem!Snapshots
<1>6. ApplyChunkScript(d) /\ UNCHANGED <<now, disputed>>
  BY <1>1, ValidIsRedis
<1>7. RedisInv' /\ NotBeforeTTL'
  BY <1>1, <1>6, ScriptKeepsTTL DEF BothInv
<1> HIDE DEF sum
<1>8. MemTypeOK'
  BY <1>1, <1>2, <1>3, <1>4, <1>5, GivenAssumption DEF BothInv, MemTypeOK, Mem!MutexTypeOK
<1>9. CallersInv'
  BY <1>1, <1>4 DEF BothInv, MemTypeOK, Mem!MutexTypeOK, CallersInv
<1>10. ASSUME NEW k \in Keys, NEW n \in ChunkIds
       PROVE  Counted(k, n)' <=> Counted(k, n) \/ (k = d.key /\ n = d.chunk)
  <2>1. ~Mem!Pending(k, n)'
    BY <1>1, <1>4 DEF Mem!Pending, BothInv, MemTypeOK, Mem!MutexTypeOK
  <2>2. Mem!Pending(k, n) <=> k = d.key /\ n = d.chunk
    BY <1>1, <1>4 DEF Mem!Pending, Mem!chunkKey
  <2> QED  BY <1>1, <2>1, <2>2 DEF Counted, Mem!chunkKey
<1>11. ~Counted(d.key, d.chunk)
  BY <1>1 DEF Counted, Mem!Pending, Mem!chunkKey
<1>12. \A k \in Keys : k # d.key => snapshots'[k] = snapshots[k]
  BY <1>1, <1>3 DEF BothInv, MemTypeOK, Mem!MutexTypeOK
<1>13. ASSUME now' < TTL, Claimed(d.key, d.chunk) PROVE StandInAgrees'
  <2>1. UNCHANGED <<now, claim, agg, disputed>>
    BY <1>6, <1>13 DEF ApplyChunkScript
  <2>2. d.key \in disputed
    BY <1>3, <1>11, <1>13, <2>1 DEF BothInv, StandInAgrees
  <2> QED  BY <1>10, <1>12, <1>13, <2>1, <2>2 DEF BothInv, StandInAgrees, Claimed, Hash, Live
<1>14. ASSUME now' < TTL, ~Claimed(d.key, d.chunk) PROVE StandInAgrees'
  <2>1. now < TTL /\ now \in Nat /\ TTL \in Nat /\ now' = now /\ disputed' = disputed
    BY <1>6, <1>14, RedisAssumption DEF BothInv, RedisInv, RedisTypeOK
  <2>2. claim' = [claim EXCEPT ![d.key][d.chunk] = now + TTL] /\ Fold(d)
    BY <1>6, <1>14 DEF ApplyChunkScript
  <2>3. ASSUME NEW k \in Keys, NEW n \in ChunkIds
        PROVE  Claimed(k, n)' <=> Claimed(k, n) \/ (k = d.key /\ n = d.chunk)
    <3>1. claim'[k][n] = IF k = d.key /\ n = d.chunk THEN now + TTL ELSE claim[k][n]
      BY <1>3, <2>2 DEF BothInv, RedisInv, RedisTypeOK
    <3> QED  BY <2>1, <3>1 DEF Claimed
  <2>4. ASSUME NEW k \in Keys \ disputed, NEW f \in {"expected", "completed", "counters"}
        PROVE  Hash(k)'[f] = snapshots'[k][f]
    <3>1. Hash(k)[f] = snapshots[k][f]
      BY <2>1 DEF BothInv, StandInAgrees
    <3>2. CASE k # d.key
      <4>1. agg'[k] = agg[k]
        BY <1>3, <2>2, <3>2 DEF Fold, BothInv, RedisInv, RedisTypeOK
      <4> QED  BY <1>12, <2>1, <3>1, <3>2, <4>1 DEF Hash, Live
    <3>3. CASE k = d.key
      <4>1. snapshots'[k] = sum
        BY <1>1, <1>3, <3>3 DEF BothInv, MemTypeOK, Mem!MutexTypeOK
      <4>2. agg'[k] = [expected |-> d.expected, completed |-> Hash(k).completed + 1,
                       counters |-> Plus(Hash(k).counters, d.counters),
                       expires |-> now + TTL]
        BY <1>3, <2>2, <3>3 DEF Fold, NewExpiry, BothInv, RedisInv, RedisTypeOK
      <4>3. Hash(k)' = agg'[k]
        BY <2>1, <4>2 DEF Hash, Live, RedisInv
      <4>4. /\ Hash(k).completed = local[c].completed
            /\ Hash(k).counters = local[c].counters
        BY <1>1, <2>1, <3>3 DEF BothInv, StandInAgrees
      <4> QED  BY <4>1, <4>2, <4>3, <4>4 DEF sum
    <3> QED  BY <3>2, <3>3
  <2> QED  BY <1>10, <2>1, <2>3, <2>4 DEF BothInv, StandInAgrees
<1>15. StandInAgrees'
  BY <1>13, <1>14 DEF StandInAgrees
<1> QED  BY <1>7, <1>8, <1>9, <1>15 DEF BothInv

\* What only Redis takes adds claims, and sums to an aggregate that is disputed.
LEMMA RefuseBothInv ==
  ASSUME BothInv, NEW c \in Callers, NEW d \in Given, Mem!Refuse(c, d), GiveToRedis(d)
  PROVE  BothInv'
<1>1. UNCHANGED memVars /\ ~Mem!Valid(d) /\ UNCHANGED now
  BY DEF Mem!Refuse, memVars, GiveToRedis
<1>2. MemTypeOK' /\ CallersInv'
  BY <1>1 DEF BothInv, memVars, MemTypeOK, Mem!MutexTypeOK, CallersInv
<1>3. \A k \in Keys, n \in ChunkIds : Counted(k, n)' <=> Counted(k, n)
  BY <1>1 DEF memVars, Counted, Mem!Pending
<1>4. CASE d.expected <= 0
  <2>1. UNCHANGED <<redisVars, disputed>>
    <3>1. ~(d.expected > 0)
      BY <1>4, GivenAssumption
    <3> QED  BY <1>1, <3>1 DEF GiveToRedis, ApplyChunkResult, OnlyRedisTakes, redisVars
  <2>2. StandInAgrees'
    BY <1>1, <1>3, <2>1 DEF BothInv, StandInAgrees, redisVars, memVars, Claimed, Hash, Live
  <2> QED  BY <1>2, <2>1, <2>2, RedisUnchanged DEF BothInv
<1>5. CASE d.expected > 0
  <2>1. d \in Deltas /\ ApplyChunkScript(d) /\ disputed' = disputed \union {d.key}
    <3>1. ~(d.expected <= 0)
      BY <1>5, GivenAssumption
    <3> QED  BY <1>1, <1>5, <3>1, GivenAssumption DEF GiveToRedis, ApplyChunkResult, OnlyRedisTakes
  <2>2. d.key \in Keys /\ d.chunk \in ChunkIds /\ now \in Nat /\ TTL \in Nat
    BY <2>1, RedisAssumption DEF BothInv, RedisInv, RedisTypeOK
  <2>3. RedisInv' /\ NotBeforeTTL'
    BY <1>1, <2>1, ScriptKeepsTTL DEF BothInv
  <2>4. ASSUME NEW k \in Keys, NEW n \in ChunkIds
        PROVE  /\ Claimed(k, n) /\ now < TTL => Claimed(k, n)'
               /\ k # d.key => (Claimed(k, n)' <=> Claimed(k, n))
    <3>1. CASE UNCHANGED <<claim, agg, folded>>
      BY <1>1, <3>1 DEF Claimed
    <3>2. CASE claim' = [claim EXCEPT ![d.key][d.chunk] = now + TTL]
      <4>1. claim'[k][n] = IF k = d.key /\ n = d.chunk THEN now + TTL ELSE claim[k][n]
        BY <2>2, <3>2 DEF BothInv, RedisInv, RedisTypeOK
      <4> QED  BY <1>1, <2>2, <4>1 DEF Claimed
    <3> QED  BY <2>1, <3>1, <3>2 DEF ApplyChunkScript
  <2>5. \A k \in Keys : k # d.key => Hash(k)' = Hash(k)
    <3>1. \A k \in Keys : k # d.key => agg'[k] = agg[k]
      BY <2>1, <2>2 DEF ApplyChunkScript, Fold, BothInv, RedisInv, RedisTypeOK
    <3> QED  BY <1>1, <3>1 DEF Hash, Live
  <2>6. StandInAgrees'
    <3>1. snapshots' = snapshots
      BY <1>1 DEF memVars
    <3> QED  BY <1>1, <1>3, <2>1, <2>4, <2>5, <3>1 DEF BothInv, StandInAgrees
  <2> QED  BY <1>2, <2>3, <2>6 DEF BothInv
<1>6. d.expected <= 0 \/ d.expected > 0
  BY GivenAssumption
<1> QED  BY <1>4, <1>5, <1>6

\* Until the first time-to-live is over, a tick expires nothing.
LEMMA PassTimeBothInv ==
  ASSUME BothInv, PassTime, UNCHANGED <<memVars, disputed>>
  PROVE  BothInv'
<1>1. now' = now + 1 /\ now \in Nat /\ TTL \in Nat /\ UNCHANGED <<claim, agg, folded>>
  BY RedisAssumption DEF PassTime, BothInv, RedisInv, RedisTypeOK
<1>2. RedisInv' /\ NotBeforeTTL'
  BY <1>1, PassTimeKeepsInv DEF BothInv, NotBeforeTTL
<1>3. MemTypeOK' /\ CallersInv'
  BY DEF BothInv, memVars, MemTypeOK, Mem!MutexTypeOK, CallersInv
<1>4. ASSUME now' < TTL PROVE StandInAgrees'
  <2>1. ASSUME NEW k \in Keys, NEW n \in ChunkIds PROVE Claimed(k, n)' <=> Claimed(k, n)
    <3>1. claim[k][n] \in Nat /\ (claim[k][n] = 0 \/ claim[k][n] >= TTL)
      BY DEF BothInv, RedisInv, RedisTypeOK, NotBeforeTTL
    <3> QED  BY <1>1, <1>4, <3>1 DEF Claimed
  <2>2. ASSUME NEW k \in Keys PROVE Hash(k)' = Hash(k)
    <3>1. agg[k].expires \in Nat /\ (agg[k].expires = 0 \/ agg[k].expires >= TTL)
      BY DEF BothInv, RedisInv, RedisTypeOK, NotBeforeTTL, Aggregates
    <3> QED  BY <1>1, <1>4, <3>1 DEF Hash, Live
  <2>3. \A k \in Keys, n \in ChunkIds : Counted(k, n)' <=> Counted(k, n)
    BY DEF memVars, Mem!Pending, Counted
  <2>4. now < TTL
    BY <1>1, <1>4
  <2>5. StandInAgrees
    BY DEF BothInv
  <2>6. disputed' = disputed /\ snapshots' = snapshots
    BY DEF memVars
  <2> QED  BY <2>1, <2>2, <2>3, <2>4, <2>5, <2>6 DEF StandInAgrees
<1>5. StandInAgrees'
  BY <1>4 DEF StandInAgrees
<1> QED  BY <1>2, <1>3, <1>5 DEF BothInv

\* Every step of either store keeps them in agreement.
LEMMA NextBothInv == BothInv /\ [BothNext]_bothVars => BothInv'
<1> SUFFICES ASSUME BothInv, [BothNext]_bothVars PROVE BothInv'  OBVIOUS
<1>1. CASE Inside
  BY <1>1, CallBothInv, LockBothInv, ClaimBothInv DEF Inside
<1>2. CASE Returns
  BY <1>2, DuplicateBothInv, StoreBothInv, RefuseBothInv DEF Returns
<1>3. CASE PassTime /\ UNCHANGED <<memVars, disputed>>
  BY <1>3, PassTimeBothInv
<1>4. CASE UNCHANGED bothVars
  BY <1>4, RedisUnchanged DEF BothInv, bothVars, redisVars, memVars, MemTypeOK, Mem!MutexTypeOK,
     CallersInv, StandInAgrees, Claimed, Hash, Live, Mem!Pending, Counted
<1> QED  BY <1>1, <1>2, <1>3, <1>4 DEF BothNext

\* Claims, sums and expiries agree in every reachable state of the two stores.
THEOREM BothInvariance == BothSpec => []BothInv
<1>1. QED  BY InitBothInv, NextBothInv, PTL DEF BothSpec

\* The in-memory aggregator's state has its types, and at most the caller that holds
\* the mutex is between Lock and Unlock.
THEOREM MutexTypeCorrect == BothSpec => []MemTypeOK
<1>1. BothInv => MemTypeOK  BY DEF BothInv
<1>2. QED  BY <1>1, BothInvariance, PTL

\* Until a time-to-live is over, what the in-memory aggregator refuses as counted Redis
\* refuses too; and for every aggregate that was given no result which only Redis takes
\* (aggregate.go 57-68 against aggregator.go 95), the two hold the same claims and the
\* same sums after the same calls, in whatever order goroutines make them.
THEOREM StandInIsRedis == BothSpec => []StandInAgrees
<1>1. BothInv => StandInAgrees  BY DEF BothInv
<1>2. QED  BY <1>1, BothInvariance, PTL

=============================================================================
