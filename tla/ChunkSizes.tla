----------------------------- MODULE ChunkSizes -----------------------------
(***************************************************************************)
(* How a request of total iterations is cut into chunks of at most per     *)
(* iterations, in closed form.  Both producers of chunk messages cut alike *)
(* (build_chunk_messages in Python, BuildChunkPlan in Go); ChunkPlan shows *)
(* that their loop over "remaining" comes to these numbers.                *)
(***************************************************************************)
EXTENDS Integers

ChunkCount(total, per) == (total + per - 1) \div per

Least(a, b) == IF a <= b THEN a ELSE b

ChunkSize(total, per, c) == Least(per, total - c * per)

=============================================================================
