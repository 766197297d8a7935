---------------------------- MODULE Aggregators ----------------------------
(***************************************************************************)
(* The two implementations of worker.Aggregator side by side: every result *)
(* that a goroutine gives to the in-memory one is, when that call returns, *)
(* given to the Redis one as well, while the clock of Redis goes on.  They *)
(* do not check the same: the in-memory one (aggregate.go 57-68) refuses   *)
(* four kinds of result that the Redis one (aggregator.go 95) folds in.    *)
(***************************************************************************)
EXTENDS RedisAggregator

CONSTANTS Callers, NoCaller, Unnamed, Given

VARIABLES mu, seen, snapshots, pc, arg, local,
          disputed     \* history: aggregates given a result that only Redis takes

Mem == INSTANCE InMemoryAggregator

ASSUME GivenAssumption ==
  /\ Given \subseteq [key : Keys, chunk : ChunkIds, expected : Int, counters : Counters]
  /\ Deltas = {d \in Given : d.expected > 0}
  /\ Given # {} /\ NoCaller \notin Callers

memVars == <<mu, seen, snapshots, pc, arg, local>>

bothVars == <<redisVars, memVars, disputed>>

BothInit == RedisInit /\ Mem!MemInit /\ disputed = {}

\* What the call does before it returns.
Inside == /\ \E c \in Callers : \/ \E d \in Given : Mem!Call(c, d)
                                \/ Mem!Lock(c)
                                \/ Mem!Claim(c)
          /\ UNCHANGED <<redisVars, disputed>>

OnlyRedisTakes(d) == d.expected > 0 /\ ~Mem!Valid(d)

GiveToRedis(d) ==
  /\ ApplyChunkResult(d)
  /\ disputed' = disputed \union {k \in {d.key} : OnlyRedisTakes(d)}
  /\ UNCHANGED now

Returns == \E c \in Callers :
             \/ (Mem!Duplicate(c) \/ Mem!Store(c)) /\ GiveToRedis(arg[c])
             \/ \E d \in Given : Mem!Refuse(c, d) /\ GiveToRedis(d)

BothNext == \/ Inside
            \/ Returns
            \/ PassTime /\ UNCHANGED <<memVars, disputed>>

BothSpec == BothInit /\ [][BothNext]_bothVars

-----------------------------------------------------------------------------

\* The types of the in-memory aggregator, and that between Lock and Unlock there is
\* the one caller that holds the mutex.
MemTypeOK == Mem!MutexTypeOK

\* The in-memory aggregator takes chunk n of k for counted.
Counted(k, n) == <<k, n>> \in seen /\ ~Mem!Pending(k, n)

\* "The included in-memory aggregator behaves like Redis idempotency" (README.md),
\* and how far: until a time-to-live is over, and however the goroutines interleave,
\* a chunk that the one refuses as counted the other refuses too; and the two hold
\* the same claims and the same sums for every aggregate but those that were given a
\* result which only Redis takes, as ChunkMessage.Validate lets no worker do.
StandInAgrees ==
  now < TTL =>
    \A k \in Keys :
      /\ \A n \in ChunkIds : Counted(k, n) => Claimed(k, n)
      /\ k \notin disputed =>
           /\ \A n \in ChunkIds : Claimed(k, n) => Counted(k, n)
           /\ \A f \in {"expected", "completed", "counters"} : Hash(k)[f] = snapshots[k][f]

=============================================================================
