------------------------ MODULE RedisAggregatorProofs ------------------------
(***************************************************************************)
(* Proofs about the aggregate store, for every set of aggregates, every    *)
(* set of results and every time-to-live.                                  *)
(***************************************************************************)
EXTENDS RedisAggregator, TLAPS

\* EXPIRE never reaches further than one time-to-live ahead of the clock, so a
\* later fold can only move an expiry forwards.
ExpiryWithinTTL == \A k \in Keys : agg[k].expires <= now + TTL

RedisInv == /\ RedisTypeOK
            /\ ExpiryWithinTTL
            /\ AggregateOutlivesClaims
            /\ RefusedIsFolded

-----------------------------------------------------------------------------

\* Adding two results field by field gives counters again.
LEMMA PlusType == \A a, b \in Counters : Plus(a, b) \in Counters
BY DEF Plus, Counters

\* The hash at a key, absent or not, is an aggregate.
LEMMA HashType == RedisTypeOK => \A k \in Keys : Hash(k) \in Aggregates
<1>1. NoHash \in Aggregates
  BY DEF NoHash, Aggregates, ZeroCounters, Counters
<1>2. QED
  BY <1>1 DEF RedisTypeOK, Hash

\* The script leaves the types of the store as they are: what it does when it
\* folds a result in.
LEMMA FoldType ==
  ASSUME RedisTypeOK, NEW d \in Deltas, Fold(d), Remember(d)
  PROVE  /\ agg' \in [Keys -> Aggregates]
         /\ folded' \in [Keys -> [ChunkIds -> Nat]]
<1>1. d.key \in Keys /\ d.chunk \in ChunkIds /\ d.expected \in Nat /\ d.counters \in Counters
  BY RedisAssumption
<1>2. Hash(d.key) \in Aggregates
  BY <1>1, HashType
<1>3. Plus(Hash(d.key).counters, d.counters) \in Counters
  BY <1>1, <1>2, PlusType DEF Aggregates
<1>4. NewExpiry(d.key) \in Nat
  BY RedisAssumption DEF RedisTypeOK, NewExpiry
<1>5. [expected |-> d.expected,
       completed |-> Hash(d.key).completed + 1,
       counters |-> Plus(Hash(d.key).counters, d.counters),
       expires |-> NewExpiry(d.key)] \in Aggregates
  BY <1>1, <1>2, <1>3, <1>4 DEF Aggregates
<1>6. agg' \in [Keys -> Aggregates]
  BY <1>1, <1>5 DEF Fold, RedisTypeOK
<1>7. NothingFolded \in [ChunkIds -> Nat]
  BY DEF NothingFolded
<1>8. folded' \in [Keys -> [ChunkIds -> Nat]]
  BY <1>1, <1>7 DEF Remember, FoldedIn, RedisTypeOK
<1>9. QED
  BY <1>6, <1>8

\* One run of the script leaves every variable of the store in its type.
LEMMA ScriptType ==
  ASSUME RedisTypeOK, NEW d \in Deltas, ApplyChunkScript(d), UNCHANGED now
  PROVE  RedisTypeOK'
<1>1. CASE UNCHANGED <<claim, agg, folded>>
  BY <1>1 DEF RedisTypeOK
<1>2. CASE claim' = [claim EXCEPT ![d.key][d.chunk] = now + TTL] /\ Fold(d) /\ Remember(d)
  <2>1. now + TTL \in Nat
    BY RedisAssumption DEF RedisTypeOK
  <2>2. QED
    BY <1>2, <2>1, FoldType DEF RedisTypeOK
<1>3. QED
  BY <1>1, <1>2 DEF ApplyChunkScript

\* One run of the script keeps the invariant of the store, at any instant.
LEMMA ScriptKeepsInv ==
  ASSUME RedisInv, NEW d \in Deltas, ApplyChunkScript(d), UNCHANGED now
  PROVE  RedisInv'
<1>1. CASE UNCHANGED <<claim, agg, folded>>
  BY <1>1 DEF RedisInv, RedisTypeOK, ExpiryWithinTTL, AggregateOutlivesClaims,
              RefusedIsFolded, Claimed, Live
<1>2. CASE /\ ~Claimed(d.key, d.chunk)
           /\ claim' = [claim EXCEPT ![d.key][d.chunk] = now + TTL]
           /\ Fold(d)
           /\ Remember(d)
  <2>1. d.key \in Keys /\ d.chunk \in ChunkIds
    BY RedisAssumption
  <2>2. TTL \in Nat /\ TTL > 0 /\ now \in Nat
    BY RedisAssumption DEF RedisInv, RedisTypeOK
  <2>3. RedisTypeOK'
    BY ScriptType DEF RedisInv
  <2>4. \A k \in Keys : agg'[k].expires = IF k = d.key THEN now + TTL ELSE agg[k].expires
    BY <1>2, <2>1 DEF RedisInv, RedisTypeOK, Fold, NewExpiry
  <2>5. \A k \in Keys, c \in ChunkIds :
          claim'[k][c] = IF k = d.key /\ c = d.chunk THEN now + TTL ELSE claim[k][c]
    BY <1>2, <2>1 DEF RedisInv, RedisTypeOK
  <2>6. ExpiryWithinTTL'
    BY <2>2, <2>4 DEF RedisInv, ExpiryWithinTTL
  <2>7. AggregateOutlivesClaims'
    <3> SUFFICES ASSUME NEW k \in Keys, NEW c \in ChunkIds
                 PROVE  claim'[k][c] <= agg'[k].expires
      BY DEF AggregateOutlivesClaims
    <3>1. claim[k][c] <= agg[k].expires /\ agg[k].expires <= now + TTL
      BY DEF RedisInv, AggregateOutlivesClaims, ExpiryWithinTTL
    <3>2. claim[k][c] \in Nat /\ agg[k].expires \in Nat
      BY DEF RedisInv, RedisTypeOK, Aggregates
    <3>3. QED
      BY <2>2, <2>4, <2>5, <3>1, <3>2
  <2>8. RefusedIsFolded'
    <3> SUFFICES ASSUME NEW k \in Keys, NEW c \in ChunkIds, now < claim'[k][c]
                 PROVE  now < agg'[k].expires /\ folded'[k][c] > 0
      BY DEF RefusedIsFolded, Claimed, Live
    <3>1. folded[k][c] \in Nat /\ folded[d.key][d.chunk] \in Nat /\ claim[k][c] \in Nat
          /\ agg[k].expires \in Nat
      BY <2>1 DEF RedisInv, RedisTypeOK, Aggregates
    <3>2. now < agg'[k].expires
      BY <2>2, <2>4, <2>5, <3>1 DEF RedisInv, RefusedIsFolded, Claimed, Live
    <3>3. CASE k = d.key /\ c = d.chunk
      <4>1. FoldedIn(d.key) \in [ChunkIds -> Nat]
        BY <2>1 DEF FoldedIn, NothingFolded, RedisInv, RedisTypeOK
      <4>2. folded'[k][c] = FoldedIn(d.key)[d.chunk] + 1
        BY <1>2, <2>1, <3>3, <4>1 DEF Remember, RedisInv, RedisTypeOK
      <4>3. QED
        BY <2>1, <3>2, <4>1, <4>2
    <3>4. CASE ~(k = d.key /\ c = d.chunk)
      <4>1. Live(k) /\ folded[k][c] > 0
        BY <2>5, <3>4 DEF RedisInv, RefusedIsFolded, Claimed
      <4>2. folded'[k][c] = folded[k][c]
        BY <1>2, <2>1, <3>4, <4>1 DEF Remember, FoldedIn, RedisInv, RedisTypeOK
      <4>3. QED
        BY <3>2, <4>1, <4>2
    <3>5. QED
      BY <3>2, <3>3, <3>4
  <2>9. QED
    BY <2>3, <2>6, <2>7, <2>8 DEF RedisInv
<1>3. QED
  BY <1>1, <1>2 DEF ApplyChunkScript

\* Time passes: claims and hashes expire together or the claims first.
LEMMA PassTimeKeepsInv == RedisInv /\ PassTime => RedisInv'
<1> SUFFICES ASSUME RedisInv, PassTime PROVE RedisInv'
  OBVIOUS
<1>1. now' = now + 1 /\ now \in Nat /\ TTL \in Nat /\ UNCHANGED <<claim, agg, folded>>
  BY RedisAssumption DEF PassTime, RedisInv, RedisTypeOK
<1>2. RedisTypeOK'
  BY <1>1 DEF RedisInv, RedisTypeOK
<1>3. \A k \in Keys : agg[k].expires \in Nat /\ \A c \in ChunkIds : claim[k][c] \in Nat
  BY DEF RedisInv, RedisTypeOK, Aggregates
<1>4. ExpiryWithinTTL'
  BY <1>1, <1>3 DEF RedisInv, ExpiryWithinTTL
<1>5. AggregateOutlivesClaims'
  BY <1>1 DEF RedisInv, AggregateOutlivesClaims
<1>6. RefusedIsFolded'
  <2> SUFFICES ASSUME NEW k \in Keys, NEW c \in ChunkIds, now + 1 < claim[k][c]
               PROVE  now + 1 < agg[k].expires /\ folded[k][c] > 0
    BY <1>1 DEF RefusedIsFolded, Claimed, Live
  <2>1. now < claim[k][c] /\ claim[k][c] <= agg[k].expires
    BY <1>1, <1>3 DEF RedisInv, AggregateOutlivesClaims
  <2>2. QED
    BY <1>1, <1>3, <2>1 DEF RedisInv, RefusedIsFolded, Claimed
<1>7. QED
  BY <1>2, <1>4, <1>5, <1>6 DEF RedisInv

\* The empty store satisfies the invariant.
LEMMA RedisInitInv == RedisInit => RedisInv
<1> SUFFICES ASSUME RedisInit PROVE RedisInv
  OBVIOUS
<1>1. NoHash \in Aggregates /\ NoHash.expires = 0
  BY DEF NoHash, Aggregates, ZeroCounters, Counters
<1>2. RedisTypeOK
  BY <1>1 DEF RedisInit, RedisTypeOK, NothingFolded
<1>3. QED
  BY <1>1, <1>2, RedisAssumption
  DEF RedisInit, RedisInv, ExpiryWithinTTL, AggregateOutlivesClaims, RefusedIsFolded, Claimed

\* Scripts and the clock keep the invariant.
LEMMA RedisStepInv == RedisInv /\ [RedisNext]_redisVars => RedisInv'
<1> SUFFICES ASSUME RedisInv, [RedisNext]_redisVars PROVE RedisInv'
  OBVIOUS
<1>1. ASSUME NEW d \in Deltas, ApplyChunkScript(d), UNCHANGED now PROVE RedisInv'
  BY <1>1, ScriptKeepsInv
<1>2. CASE PassTime
  BY <1>2, PassTimeKeepsInv
<1>3. CASE UNCHANGED redisVars
  BY <1>3 DEF redisVars, RedisInv, RedisTypeOK, ExpiryWithinTTL, AggregateOutlivesClaims,
              RefusedIsFolded, Claimed, Live
<1>4. QED
  BY <1>1, <1>2, <1>3 DEF RedisNext

\* The inductive invariant of the store holds in every reachable state.
THEOREM RedisInvariance == RedisSpec => []RedisInv
<1>1. QED
  BY RedisInitInv, RedisStepInv, PTL DEF RedisSpec

\* Counters, counts and expiries are natural numbers in every reachable state of the
\* store (aggregator.go 14-58).
THEOREM StoreTypeCorrect == RedisSpec => []RedisTypeOK
<1>1. RedisInv => RedisTypeOK
  BY DEF RedisInv
<1>2. QED
  BY <1>1, RedisInvariance, PTL

\* While a claim makes the script refuse a chunk, the hash that the chunk went
\* into has not expired: aggregates outlive the claims on them.
THEOREM ClaimsExpireFirst == RedisSpec => []AggregateOutlivesClaims
<1>1. RedisInv => AggregateOutlivesClaims
  BY DEF RedisInv
<1>2. QED
  BY <1>1, RedisInvariance, PTL

\* The script drops a result as a duplicate only when the live hash has it.
THEOREM RefusalIsSafe == RedisSpec => []RefusedIsFolded
<1>1. RedisInv => RefusedIsFolded
  BY DEF RedisInv
<1>2. QED
  BY <1>1, RedisInvariance, PTL

\* No script run resets or shortens a live aggregate: its counters and its
\* expiry only grow until it expires.
THEOREM ProgressIsMonotone == RedisSpec => ProgressOnlyGrows
<1> DEFINE Grows(k) == /\ agg'[k].completed >= agg[k].completed
                       /\ \A f \in Fields : agg'[k].counters[f] >= agg[k].counters[f]
                       /\ agg'[k].expires >= agg[k].expires
<1>1. ASSUME RedisInv, [RedisNext]_redisVars, NEW k \in Keys, Live(k)
      PROVE  Grows(k)
  <2>0. agg[k] \in Aggregates /\ agg[k].completed \in Nat /\ agg[k].expires \in Nat
        /\ \A f \in Fields : agg[k].counters[f] \in Nat
    BY <1>1 DEF RedisInv, RedisTypeOK, Aggregates, Counters
  <2>1. CASE agg'[k] = agg[k]
    BY <2>0, <2>1
  <2>2. ASSUME NEW d \in Deltas, Fold(d), d.key = k
        PROVE  Grows(k)
    <3>1. agg'[k] = [expected |-> d.expected,
                     completed |-> agg[k].completed + 1,
                     counters |-> Plus(agg[k].counters, d.counters),
                     expires |-> now + TTL]
      BY <1>1, <2>2 DEF Fold, Hash, NewExpiry, RedisInv, RedisTypeOK
    <3>2. \A f \in Fields : d.counters[f] \in Nat
      BY RedisAssumption DEF Counters
    <3>3. agg[k].expires <= now + TTL /\ now + TTL \in Nat
      BY <1>1, RedisAssumption DEF RedisInv, ExpiryWithinTTL, RedisTypeOK
    <3>4. QED
      BY <2>0, <3>1, <3>2, <3>3 DEF Plus
  <2>3. ASSUME NEW d \in Deltas, ApplyChunkScript(d) PROVE Grows(k)
    <3>1. CASE Fold(d) /\ d.key # k
      BY <1>1, <2>1, <3>1 DEF Fold, RedisInv, RedisTypeOK
    <3>2. QED
      BY <2>1, <2>2, <2>3, <3>1 DEF ApplyChunkScript
  <2>4. QED
    BY <1>1, <2>1, <2>3 DEF RedisNext, PassTime, redisVars
<1>2. RedisInv /\ [RedisNext]_redisVars =>
        [\A k \in Keys : Live(k) => Grows(k)]_redisVars
  BY <1>1
<1>3. QED
  BY <1>2, RedisInvariance, PTL DEF RedisSpec, ProgressOnlyGrows

=============================================================================
