--------------------------- MODULE RedisAggregator ---------------------------
(***************************************************************************)
(* The aggregate store of internal/redisagg: the Lua script that workers   *)
(* EVAL and the hash that the status endpoint reads.  A key with a         *)
(* time-to-live is modelled by the instant it expires: it exists while     *)
(* now < expiry, and 0 is "never set".  Redis runs a script atomically, so *)
(* the script is one action.                                               *)
(***************************************************************************)
EXTENDS Counters, FiniteSets, Integers

CONSTANTS Keys,        \* (hand_id, board_version) pairs: one slot tag each
          ChunkIds,    \* chunk numbers
          Deltas,      \* results that reach the script (worker.AggregateDelta)
          TTL,         \* AGGREGATE_TTL_SECONDS, in ticks of the clock
          MaxTime      \* bound: the clock stops here

ASSUME RedisAssumption ==
  /\ ChunkIds \subseteq Int /\ IsFiniteSet(ChunkIds)
  /\ Deltas \subseteq [key : Keys, chunk : ChunkIds, expected : Nat \ {0}, counters : Counters]
  /\ TTL \in Nat \ {0}
  /\ MaxTime \in Nat

VARIABLES now,         \* the clock of the Redis server
          claim,       \* claim[k][c]: expiry of processed:{k}:c
          agg,         \* agg[k]: the hash aggregate:{k} and its expiry
          folded       \* history: folded[k][c] results of c are in the hash at k

redisVars == <<now, claim, agg, folded>>

Aggregates == [expected : Nat, completed : Nat, counters : Counters, expires : Nat]

NoHash == [expected |-> 0, completed |-> 0, counters |-> ZeroCounters, expires |-> 0]

NothingFolded == [c \in ChunkIds |-> 0]

RedisTypeOK == /\ now \in Nat
               /\ claim \in [Keys -> [ChunkIds -> Nat]]
               /\ agg \in [Keys -> Aggregates]
               /\ folded \in [Keys -> [ChunkIds -> Nat]]

RedisInit == /\ now = 0
             /\ claim = [k \in Keys |-> [c \in ChunkIds |-> 0]]
             /\ agg = [k \in Keys |-> NoHash]
             /\ folded = [k \in Keys |-> NothingFolded]

-----------------------------------------------------------------------------
\* Faulty variants, each a bug the script could have had; no action uses them.
NeverClaimed(k, c) == FALSE                  \* SET without NX
ClaimedForever(k, c) == claim[k][c] > 0      \* SET without EX
Overwritten(k) == NoHash                     \* HSET where HINCRBY is meant
FirstExpiry(k) ==                            \* EXPIRE only when the hash is new
  IF now < agg[k].expires THEN agg[k].expires ELSE now + TTL
NegativeExpiry(k) == now - TTL               \* EXPIRE with a negative time
ReachedOneEarly(k) ==                        \* counts from the chunk under way
  agg[k].expected > 0 /\ agg[k].completed + 1 >= agg[k].expected
-----------------------------------------------------------------------------

Live(k) == now < agg[k].expires

\* SET processed NX finds the key, and the script answers "duplicate".
Claimed(k, c) == now < claim[k][c]

\* What HINCRBY finds at the aggregate's key: an expired hash starts over.
Hash(k) == IF Live(k) THEN agg[k] ELSE NoHash

\* EXPIRE aggregate: every fold restarts the aggregate's time-to-live.
NewExpiry(k) == now + TTL

Fold(d) ==
  agg' = [agg EXCEPT ![d.key] =
            [expected  |-> d.expected,
             completed |-> Hash(d.key).completed + 1,
             counters  |-> Plus(Hash(d.key).counters, d.counters),
             expires   |-> NewExpiry(d.key)]]

\* The results in the hash that Hash(k) is.
FoldedIn(k) == IF Live(k) THEN folded[k] ELSE NothingFolded

Remember(d) ==
  folded' = [folded EXCEPT ![d.key] = [FoldedIn(d.key) EXCEPT ![d.chunk] = @ + 1]]

\* The whole script: refuse a claimed chunk, or claim it and fold it in.
ApplyChunkScript(d) ==
  \/ /\ Claimed(d.key, d.chunk)
     /\ UNCHANGED <<claim, agg, folded>>
  \/ /\ ~Claimed(d.key, d.chunk)
     /\ claim' = [claim EXCEPT ![d.key][d.chunk] = now + TTL]
     /\ Fold(d)
     /\ Remember(d)

\* Aggregator.ApplyChunkResult: all that it checks itself is the size of the plan.
ApplyChunkResult(d) ==
  \/ d.expected <= 0 /\ UNCHANGED <<claim, agg, folded>>
  \/ d.expected > 0 /\ ApplyChunkScript(d)

\* The status endpoint's barrier, over the snapshot that GetSnapshot reads.
BarrierReached(k) == agg[k].expected > 0 /\ agg[k].completed >= agg[k].expected

\* An expired or absent hash has no fields: "not_found", whatever was counted.
Complete(k) == Live(k) /\ BarrierReached(k)

PassTime == /\ now < MaxTime
            /\ now' = now + 1
            /\ UNCHANGED <<claim, agg, folded>>

RedisNext == \/ \E d \in Deltas : ApplyChunkScript(d) /\ UNCHANGED now
             \/ PassTime

RedisSpec == RedisInit /\ [][RedisNext]_redisVars

-----------------------------------------------------------------------------

\* An aggregate outlives every claim on it: while "processed" refuses a chunk
\* the hash that chunk went into is still there.  The script sets a claim's
\* time-to-live once and refreshes the aggregate's on every fold.
AggregateOutlivesClaims ==
  \A k \in Keys, c \in ChunkIds : claim[k][c] <= agg[k].expires

\* A result refused as a duplicate is in the aggregate a reader would see: the
\* script may drop it only because the hash at the key already holds it.
RefusedIsFolded ==
  \A k \in Keys, c \in ChunkIds : Claimed(k, c) => Live(k) /\ folded[k][c] > 0

\* A reader of the hash never sees progress go backwards, and the counters of a
\* live aggregate only grow: until it expires, no script run may reset it.
ProgressOnlyGrows ==
  [][\A k \in Keys : Live(k) =>
        /\ agg'[k].completed >= agg[k].completed
        /\ \A f \in Fields : agg'[k].counters[f] >= agg[k].counters[f]
        /\ agg'[k].expires >= agg[k].expires]_redisVars

=============================================================================
