--------------------------- MODULE MCAggregators ---------------------------
(***************************************************************************)
(* Two aggregates, one with a plan of two chunks and one with a plan of    *)
(* one, called by two goroutines at any time and any number of times while *)
(* the clock passes two times-to-live.  One chunk was computed twice with  *)
(* different sums.  The second aggregate is also given a chunk beyond      *)
(* its plan and a result without iterations, which only Redis takes, and   *)
(* the first a result without a plan, which both refuse.                   *)
(***************************************************************************)
EXTENDS Aggregators, TLC

CONSTANTS k1, k2, c1, c2

Chunks == 0..1

Result(k, c, n, wins) ==
  [key |-> k, chunk |-> c, expected |-> n,
   counters |-> [f \in Fields |-> CASE f \in {"iterations", "wins"} -> wins
                                    [] f = "equity_micros" -> 1000000 * wins
                                    [] OTHER -> 0]]

Valids == {Result(k1, 0, 2, 1), Result(k1, 0, 2, 3), Result(k1, 1, 2, 2), Result(k2, 0, 1, 1)}

OnlyRedis == {Result(k2, 1, 1, 1), Result(k2, 0, 1, 0)}

Results == Valids \union OnlyRedis

WithInvalid == Results \union {Result(k1, 0, 0, 1)}

=============================================================================
