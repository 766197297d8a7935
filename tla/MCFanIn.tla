------------------------------- MODULE MCFanIn -------------------------------
(***************************************************************************)
(* Small instances of FanIn.  One aggregate with a plan of two chunks:     *)
(* m1 and m2 carry chunks 0 and 1, m3 is chunk 0 sent again by a repeated  *)
(* POST, and m4 a third copy that the processor refuses.                   *)
(***************************************************************************)
EXTENDS FanIn, TLC

CONSTANTS k1, m1, m2, m3, m4, w1, w2

Chunks == 0..1

\* The result of chunk c of a plan of n chunks: different chunks, different sums.
ResultOf(c, n) ==
  [key |-> k1, chunk |-> c, expected |-> n,
   counters |-> [f \in Fields |-> CASE f = "iterations" -> 2
                                    [] f = "wins" -> c + 1
                                    [] f = "losses" -> 1 - c
                                    [] f = "equity_micros" -> 1000000 * (c + 1)
                                    [] OTHER -> 0]]

PlanDeltas == {ResultOf(c, 2) : c \in Chunks}

DeltaOf == [m \in Msgs |-> CASE m = m2 -> ResultOf(1, 2)
                             [] OTHER -> ResultOf(0, 2)]

ASSUME PlanAssumption == OnePlanPerKey

WorkerSymmetry == Permutations(Workers)

=============================================================================
