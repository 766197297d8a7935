---------------------------- MODULE ChunkBarrier ----------------------------
(***************************************************************************)
(* What every aggregator promises (worker.Aggregator), with no clock, no   *)
(* queue and no worker: per aggregate, a set of chunks, each counted once, *)
(* and the sum of their counters.  A chunk that was counted before leaves  *)
(* everything as it was.                                                   *)
(***************************************************************************)
EXTENDS Counters, FiniteSets

CONSTANTS Keys,        \* (hand, board version) pairs
          ChunkIds,    \* chunk numbers
          Deltas       \* the results workers may deliver

VARIABLES counted,     \* [Keys -> SUBSET ChunkIds]
          total        \* [Keys -> Counters]

barrierVars == <<counted, total>>

BarrierInit == /\ counted = [k \in Keys |-> {}]
               /\ total = [k \in Keys |-> ZeroCounters]

Count(d) == /\ d.chunk \notin counted[d.key]
            /\ counted' = [counted EXCEPT ![d.key] = @ \union {d.chunk}]
            /\ total' = [total EXCEPT ![d.key] = Plus(@, d.counters)]

BarrierNext == \E d \in Deltas : Count(d)

BarrierSpec == BarrierInit /\ [][BarrierNext]_barrierVars

=============================================================================
