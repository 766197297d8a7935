------------------------- MODULE InMemoryAggregator -------------------------
(***************************************************************************)
(* worker.InMemoryAggregator of internal/worker/aggregate.go, the stand-in *)
(* for Redis in tests and in cmd/worker-local.  Goroutines may call        *)
(* ApplyChunkResult at once: a mutex guards "seen" and "snapshots".        *)
(* Nothing expires.                                                        *)
(***************************************************************************)
EXTENDS Counters

CONSTANTS Callers,     \* goroutines
          NoCaller,
          Keys,        \* (hand id, board version) pairs
          Unnamed,     \* those without a hand id or with a negative version
          Given        \* results callers may pass, invalid ones too

VARIABLES mu, seen, snapshots,
          pc,          \* pc[c]: where c is in ApplyChunkResult
          arg,         \* arg[c]: its delta
          local        \* local[c]: its copy of the snapshot

Snapshots == [expected : Nat, completed : Nat, counters : Counters]

NoSnapshot == [expected |-> 0, completed |-> 0, counters |-> ZeroCounters]

\* A caller outside the function has no locals.
NoDelta == CHOOSE d \in Given : TRUE

MemInit == /\ mu = NoCaller /\ seen = {}
           /\ snapshots = [k \in Keys |-> NoSnapshot]
           /\ pc = [c \in Callers |-> "idle"]
           /\ arg = [c \in Callers |-> NoDelta]
           /\ local = [c \in Callers |-> NoSnapshot]

-----------------------------------------------------------------------------
\* A faulty variant, a bug this code could have had; no action uses it.
NotLocked == TRUE                            \* no a.mu.Lock()
-----------------------------------------------------------------------------

Valid(d) == /\ d.key \notin Unnamed
            /\ 0 <= d.chunk /\ d.chunk < d.expected
            /\ d.counters["iterations"] > 0

chunkKey(d) == <<d.key, d.chunk>>

Call(c, d) ==
  /\ pc[c] = "idle" /\ Valid(d)
  /\ pc' = [pc EXCEPT ![c] = "lock"]
  /\ arg' = [arg EXCEPT ![c] = d]
  /\ UNCHANGED <<mu, seen, snapshots, local>>

\* An invalid delta is refused before the mutex.
Refuse(c, d) ==
  /\ pc[c] = "idle" /\ ~Valid(d)
  /\ UNCHANGED <<mu, seen, snapshots, pc, arg, local>>

Free == mu = NoCaller

Lock(c) ==
  /\ pc[c] = "lock" /\ Free
  /\ mu' = c
  /\ pc' = [pc EXCEPT ![c] = "locked"]
  /\ UNCHANGED <<seen, snapshots, arg, local>>

\* The deferred Unlock.
Return(c) == /\ mu' = NoCaller
             /\ pc' = [pc EXCEPT ![c] = "idle"]
             /\ arg' = [arg EXCEPT ![c] = NoDelta]
             /\ local' = [local EXCEPT ![c] = NoSnapshot]

Duplicate(c) ==
  /\ pc[c] = "locked" /\ chunkKey(arg[c]) \in seen
  /\ Return(c)
  /\ UNCHANGED <<seen, snapshots>>

Claim(c) ==
  /\ pc[c] = "locked" /\ chunkKey(arg[c]) \notin seen
  /\ seen' = seen \union {chunkKey(arg[c])}
  /\ local' = [local EXCEPT ![c] = snapshots[arg[c].key]]
  /\ pc' = [pc EXCEPT ![c] = "fold"]
  /\ UNCHANGED <<mu, snapshots, arg>>

Store(c) ==
  /\ pc[c] = "fold"
  /\ snapshots' = [snapshots EXCEPT ![arg[c].key] =
                     [expected |-> arg[c].expected,
                      completed |-> local[c].completed + 1,
                      counters |-> Plus(local[c].counters, arg[c].counters)]]
  /\ Return(c)
  /\ UNCHANGED seen

-----------------------------------------------------------------------------

\* Claimed by a caller that has not yet stored the sum.
Pending(k, n) == \E c \in Callers : pc[c] = "fold" /\ chunkKey(arg[c]) = <<k, n>>

\* The types, and that between Lock and Unlock there is the one caller that holds
\* the mutex.
MutexTypeOK == /\ mu \in Callers \union {NoCaller}
               /\ seen \subseteq Keys \X Nat
               /\ snapshots \in [Keys -> Snapshots]
               /\ pc \in [Callers -> {"idle", "lock", "locked", "fold"}]
               /\ arg \in [Callers -> Given] /\ local \in [Callers -> Snapshots]
               /\ \A c \in Callers : pc[c] \in {"locked", "fold"} <=> mu = c

=============================================================================
