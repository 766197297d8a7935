------------------------------ MODULE ChunkPlan ------------------------------
(***************************************************************************)
(* BuildChunkPlan of internal/poker/chunk.go: a request for total          *)
(* iterations, at most per to a chunk, is cut by a loop that counts down   *)
(* "remaining".  Go's int has a width: a sum may wrap, division truncates  *)
(* towards zero, and make panics on a negative capacity.  Only the number  *)
(* of chunks and their sizes are kept, and whether the other fields pass.  *)
(***************************************************************************)
EXTENDS ChunkSizes, Sums, Sequences

CONSTANTS MaxInt,      \* math.MaxInt
          Requested    \* values a request's two numbers may take

ASSUME PlanAssumption == MaxInt \in Nat \ {0} /\ Requested \subseteq -(MaxInt + 1)..MaxInt

VARIABLES total, per,  \* TotalIterations and IterationsPerChunk
          labelled,    \* HandID is not empty, BoardVersion not negative, BaseSeed not 0
          chunkCount, chunkID, remaining,
          sizes,       \* Iterations of the chunks made so far
          stage

request == <<total, per, labelled>>
vars == <<request, chunkCount, chunkID, remaining, sizes, stage>>

Ints == -(MaxInt + 1)..MaxInt

TypeOK == /\ total \in Ints /\ per \in Ints /\ labelled \in BOOLEAN /\ chunkCount \in Ints
          /\ chunkID \in 0..MaxInt /\ remaining \in Ints
          /\ sizes \in Seq(1..MaxInt)
          /\ stage \in {"called", "loop", "done", "invalid", "panic"}

Init == /\ total \in Requested /\ per \in Requested /\ labelled \in BOOLEAN
        /\ chunkCount = 0 /\ chunkID = 0 /\ remaining = 0
        /\ sizes = <<>>
        /\ stage = "called"

\* The int that an out-of-range result wraps round to.
Wrap(x) == ((x + MaxInt + 1) % (2 * (MaxInt + 1))) - (MaxInt + 1)

-----------------------------------------------------------------------------
\* Faulty variants, each a bug the planner could have had; no action uses them.
RoundedDown(x, y) == (x - y + 1) \div y      \* total / per, the tail forgotten
OneMore(x, y) == x \div y + 1                \* a chunk too many
AlwaysPer(r) == per                          \* the last chunk is not cut short
-----------------------------------------------------------------------------

\* Go's x / y for y > 0.
Quotient(x, y) == IF x >= 0 THEN x \div y ELSE -((-x) \div y)

Validate ==
  /\ stage = "called"
  /\ \/ /\ ~labelled \/ total <= 0 \/ per <= 0
        /\ stage' = "invalid"
        /\ UNCHANGED <<chunkCount, remaining>>
     \/ /\ labelled /\ total > 0 /\ per > 0
        /\ chunkCount' = Quotient(Wrap(total + per - 1), per)
        /\ remaining' = total
        /\ stage' = IF chunkCount' < 0 THEN "panic" ELSE "loop"
  /\ UNCHANGED <<request, chunkID, sizes>>

\* iterations, cut to what remains.
NextSize(r) == Least(per, r)

MakeChunk ==
  /\ stage = "loop" /\ chunkID < chunkCount
  /\ sizes' = Append(sizes, NextSize(remaining))
  /\ remaining' = remaining - NextSize(remaining)
  /\ chunkID' = chunkID + 1
  /\ UNCHANGED <<request, chunkCount, stage>>

ReturnPlan ==
  /\ stage = "loop" /\ chunkID >= chunkCount
  /\ stage' = "done"
  /\ UNCHANGED <<request, chunkCount, chunkID, remaining, sizes>>

Finished == stage \in {"done", "invalid", "panic"} /\ UNCHANGED vars

Next == Validate \/ MakeChunk \/ ReturnPlan \/ Finished

Spec == Init /\ [][Next]_vars

-----------------------------------------------------------------------------

\* The request is small enough for the rounding up not to wrap.
Fits == total + per - 1 <= MaxInt

\* A plan covers its request exactly: no iteration is lost in the rounding or done
\* twice, no chunk is empty (a worker would refuse it for ever) or above the limit.
PlanIsWhole ==
  (stage = "done" /\ Fits) =>
    /\ Total(sizes, DOMAIN sizes) = total
    /\ \A i \in DOMAIN sizes : sizes[i] \in 1..per

\* The loop uses the request up and comes to the closed form that Ingestion uses:
\* both producers cut a request into the same chunks.
LoopIsClosedForm ==
  (stage = "done" /\ Fits) =>
    /\ remaining = 0
    /\ sizes = [i \in 1..ChunkCount(total, per) |-> ChunkSize(total, per, i - 1)]

\* Whatever the numbers, a chunk is never made with nothing left to do, and the
\* work that is left is never negative.
NeverOverdrawn == remaining >= 0 /\ (stage = "loop" /\ chunkID < chunkCount => remaining > 0)

=============================================================================
