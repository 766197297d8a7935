------------------------------ MODULE Counters ------------------------------
(***************************************************************************)
(* The integer partial result of a chunk: the five counters a worker sends *)
(* to an aggregate (worker.AggregateDelta) and an aggregate accumulates.   *)
(* Cards, boards and seeds never reach an aggregate, so this is all of a   *)
(* simulation result that the fan-in can tell apart.                       *)
(***************************************************************************)
EXTENDS Sums

Fields == {"iterations", "wins", "ties", "losses", "equity_micros"}

Counters == [Fields -> Nat]

ZeroCounters == [f \in Fields |-> 0]

\* MergeResults, and the five HINCRBY of the script: field by field.
Plus(a, b) == [f \in Fields |-> a[f] + b[f]]

\* The results R[x] of the members x of S, merged: each counter is a sum.
Merged(R, S) == [f \in Fields |-> Total([x \in S |-> R[x][f]], S)]

=============================================================================
