-------------------------------- MODULE FanIn --------------------------------
(***************************************************************************)
(* The fan-in of the pipeline: chunk messages on an SQS queue, the worker  *)
(* Lambdas that take them in batches (cmd/worker-lambda), simulate them    *)
(* and EVAL the aggregate script, and the aggregate store that every       *)
(* worker and the status endpoint share.                                   *)
(*                                                                         *)
(* The queue delivers at least once: a message whose visibility lapses is  *)
(* delivered again while an earlier delivery may still be running.  A      *)
(* worker may be killed at any step, a call to Redis may fail after the    *)
(* script ran, and a script whose caller gave up may still run later.      *)
(*                                                                         *)
(* A simulation reads its message and nothing else (processor.go), so its  *)
(* result is the constant Delta[m] and the simulation itself is no step.   *)
(***************************************************************************)
EXTENDS RedisAggregator

CONSTANTS Msgs,        \* messages sent to the queue; a repeat POST sends others
          Delta,       \* Delta[m]: the result of simulating m
          Poison,      \* messages the processor refuses every time
          Workers,     \* concurrent executions of the worker Lambda
          BatchSize,   \* batch_size of the event source mapping
          MaxReceive,  \* maxReceiveCount of the redrive policy
          Retention,   \* message_retention_seconds of the queue, in ticks
          PostWindow,  \* bound: the last instant at which a POST sends a message
          MaxRun,      \* timeout of the worker Lambda, in ticks
          NoMsg

ASSUME FanInAssumption ==
  /\ Delta \in [Msgs -> Deltas] /\ ChunkIds \subseteq Nat
  /\ \A m \in Msgs : Delta[m].chunk < Delta[m].expected      \* ChunkMessage.Validate
  /\ Poison \subseteq Msgs
  /\ BatchSize \in Nat \ {0} /\ MaxReceive \in Nat \ {0}
  /\ Retention \in Nat \ {0} /\ PostWindow \in Nat /\ MaxRun \in Nat
  /\ NoMsg \notin Msgs

\* The setting under which no claim can expire while a delivery of its chunk may
\* still run.  The deployed defaults have TTL = Retention and do not satisfy it.
Horizon == PostWindow + Retention + MaxRun <= TTL

\* All the POSTs of one aggregate cut the same plan: same seed, same sizes.
OnePlanPerKey ==
  \A m, n \in Msgs : Delta[m].key = Delta[n].key =>
    /\ Delta[m].expected = Delta[n].expected
    /\ Delta[m].chunk = Delta[n].chunk => Delta[m] = Delta[n]

VARIABLES queue,       \* queue[m]: where message m is
          sentAt,      \* when it was sent
          receives,    \* its ApproximateReceiveCount
          held,        \* held[w]: the records of w's invocation
          todo,        \* the records its loop has not finished
          failed,      \* its response's BatchItemFailures
          call,        \* its call to Redis
          deadline,    \* when Lambda kills the invocation
          orphans      \* EVALs on the wire that nobody waits for any more

queueVars == <<queue, sentAt, receives>>
workerVars == <<held, todo, failed, call, deadline>>
vars == <<redisVars, queueVars, workerVars, orphans>>

Places == {"unsent", "visible", "inflight", "deleted", "expired", "dlq"}

Idle == [stage |-> "idle", msg |-> NoMsg]

Calls == [stage : {"sent", "done"}, msg : Msgs] \union {Idle}

TypeOK == /\ RedisTypeOK
          /\ queue \in [Msgs -> Places]
          /\ sentAt \in [Msgs -> Nat]
          /\ receives \in [Msgs -> 0..MaxReceive]
          /\ held \in [Workers -> SUBSET Msgs]
          /\ todo \in [Workers -> SUBSET Msgs]
          /\ failed \in [Workers -> SUBSET Msgs]
          /\ call \in [Workers -> Calls]
          /\ deadline \in [Workers -> Nat]
          /\ orphans \subseteq [msg : Msgs, until : Nat]

Init == /\ RedisInit
        /\ queue = [m \in Msgs |-> "unsent"]
        /\ sentAt = [m \in Msgs |-> 0]
        /\ receives = [m \in Msgs |-> 0]
        /\ held = [w \in Workers |-> {}]
        /\ todo = [w \in Workers |-> {}]
        /\ failed = [w \in Workers |-> {}]
        /\ call = [w \in Workers |-> Idle]
        /\ deadline = [w \in Workers |-> 0]
        /\ orphans = {}

OnQueue(m) == queue[m] \in {"visible", "inflight"}

Busy(w) == held[w] # {}

-----------------------------------------------------------------------------
\* Faulty variants, each a bug the worker or the queue's setting could have had;
\* no action uses them.
AllHeld(w) == held[w]                        \* BatchItemFailures is not reported
AnyVisible(m) == queue[m] = "visible"        \* no maxReceiveCount
BuriedOneLate(m) ==                          \* the limit compared with > for >=
  /\ queue[m] = "visible" /\ receives[m] > MaxReceive
  /\ queue' = [queue EXCEPT ![m] = "dlq"]
  /\ UNCHANGED <<redisVars, sentAt, receives, workerVars, orphans>>
-----------------------------------------------------------------------------
\* The queue and its producer.

\* enqueue_chunks; that it may stop half way leaves messages unsent.
EnqueueChunk(m) ==
  /\ queue[m] = "unsent"
  /\ now <= PostWindow
  /\ queue' = [queue EXCEPT ![m] = "visible"]
  /\ sentAt' = [sentAt EXCEPT ![m] = now]
  /\ UNCHANGED <<redisVars, receives, workerVars, orphans>>

Deliverable(m) == queue[m] = "visible" /\ receives[m] < MaxReceive

\* nextInvocation: the mapping hands a batch to an execution that is free.
Poll(w, batch) ==
  /\ ~Busy(w)
  /\ batch # {} /\ Cardinality(batch) <= BatchSize
  /\ \A m \in batch : Deliverable(m)
  /\ queue' = [m \in Msgs |-> IF m \in batch THEN "inflight" ELSE queue[m]]
  /\ receives' = [m \in Msgs |-> IF m \in batch THEN receives[m] + 1 ELSE receives[m]]
  /\ held' = [held EXCEPT ![w] = batch]
  /\ todo' = [todo EXCEPT ![w] = batch]
  /\ deadline' = [deadline EXCEPT ![w] = now + MaxRun]
  /\ UNCHANGED <<redisVars, sentAt, failed, call, orphans>>

\* The visibility timeout lapses, or the queue delivers a duplicate of its own
\* accord: either way m can be received again, wherever it is being processed.
VisibilityTimeout(m) ==
  /\ queue[m] = "inflight"
  /\ queue' = [queue EXCEPT ![m] = "visible"]
  /\ UNCHANGED <<redisVars, sentAt, receives, workerVars, orphans>>

DeadLetter(m) ==
  /\ queue[m] = "visible" /\ receives[m] = MaxReceive
  /\ queue' = [queue EXCEPT ![m] = "dlq"]
  /\ UNCHANGED <<redisVars, sentAt, receives, workerVars, orphans>>

-----------------------------------------------------------------------------
\* The worker: handleInvocation takes the records of the batch one by one.

\* End the call with this outcome for the record it was about.
Finish(w, m, failures) ==
  /\ todo' = [todo EXCEPT ![w] = @ \ {m}]
  /\ failed' = [failed EXCEPT ![w] = @ \union failures]
  /\ call' = [call EXCEPT ![w] = Idle]
  /\ UNCHANGED <<redisVars, queueVars, held, deadline>>

\* ProcessBody refuses the record before the aggregator is called.
RejectBody(w, m) ==
  /\ call[w] = Idle /\ m \in todo[w] /\ m \in Poison
  /\ Finish(w, m, {m})
  /\ UNCHANGED orphans

\* Client.Do writes the EVAL.
StartCall(w, m) ==
  /\ call[w] = Idle /\ m \in todo[w] /\ m \notin Poison
  /\ call' = [call EXCEPT ![w] = [stage |-> "sent", msg |-> m]]
  /\ UNCHANGED <<redisVars, queueVars, held, todo, failed, deadline, orphans>>

RunScript(w) ==
  /\ call[w].stage = "sent"
  /\ ApplyChunkScript(Delta[call[w].msg])
  /\ call' = [call EXCEPT ![w].stage = "done"]
  /\ UNCHANGED <<now, queueVars, held, todo, failed, deadline, orphans>>

AcceptReply(w) ==
  /\ call[w].stage = "done"
  /\ Finish(w, call[w].msg, {})
  /\ UNCHANGED orphans

\* What a caller that gives up leaves behind: an EVAL that Redis may still run.
Abandoned(w) == [msg |-> call[w].msg, until |-> deadline[w]]

\* Do returns an error: no connection, a timeout, or a reply lost on the way.
FailCall(w) ==
  /\ call[w].stage \in {"sent", "done"}
  /\ Finish(w, call[w].msg, {call[w].msg})
  /\ \/ UNCHANGED orphans
     \/ call[w].stage = "sent" /\ orphans' = orphans \union {Abandoned(w)}

RunOrphan(o) ==
  /\ o \in orphans
  /\ ApplyChunkScript(Delta[o.msg])
  /\ orphans' = orphans \ {o}
  /\ UNCHANGED <<now, queueVars, workerVars>>

Release(w) == /\ held' = [held EXCEPT ![w] = {}]
              /\ todo' = [todo EXCEPT ![w] = {}]
              /\ failed' = [failed EXCEPT ![w] = {}]
              /\ call' = [call EXCEPT ![w] = Idle]
              /\ deadline' = [deadline EXCEPT ![w] = 0]

\* The records that the response does not list: the mapping deletes them.
Acknowledged(w) == held[w] \ failed[w]

Respond(w) ==
  /\ Busy(w) /\ todo[w] = {} /\ call[w] = Idle
  /\ queue' = [m \in Msgs |-> IF m \in Acknowledged(w) /\ OnQueue(m)
                                THEN "deleted" ELSE queue[m]]
  /\ Release(w)
  /\ UNCHANGED <<redisVars, sentAt, receives, orphans>>

\* The invocation ends without a response: a crash, log.Fatal, the timeout of
\* the Lambda, or a response (or the delete it causes) that is lost.
Crash(w) ==
  /\ Busy(w)
  /\ Release(w)
  /\ \/ UNCHANGED orphans
     \/ call[w].stage = "sent" /\ orphans' = orphans \union {Abandoned(w)}
  /\ UNCHANGED <<redisVars, queueVars>>

-----------------------------------------------------------------------------

\* The queue drops what has reached its retention.
Retained(m) == now + 1 < sentAt[m] + Retention

\* One tick: no invocation outlives its deadline.
Tick ==
  /\ \A w \in Workers : Busy(w) => now < deadline[w]
  /\ PassTime
  /\ queue' = [m \in Msgs |-> IF OnQueue(m) /\ ~Retained(m) THEN "expired" ELSE queue[m]]
  /\ orphans' = {o \in orphans : now < o.until}
  /\ UNCHANGED <<sentAt, receives, workerVars>>

Settled(m) == queue[m] \in {"deleted", "dlq", "expired"}

\* The system may stop here: the clock has, and there is no work.
Finished ==
  /\ now = MaxTime
  /\ \A m \in Msgs : Settled(m) \/ (queue[m] = "unsent" /\ now > PostWindow)
  /\ \A w \in Workers : ~Busy(w)
  /\ UNCHANGED vars

Handle(w) == \/ \E m \in todo[w] : RejectBody(w, m) \/ StartCall(w, m)
             \/ RunScript(w)
             \/ AcceptReply(w)
             \/ FailCall(w)
             \/ Respond(w)

Next == \/ \E m \in Msgs : EnqueueChunk(m) \/ VisibilityTimeout(m) \/ DeadLetter(m)
        \/ \E w \in Workers, batch \in SUBSET Msgs : Poll(w, batch)
        \/ \E w \in Workers : Handle(w) \/ Crash(w)
        \/ \E o \in orphans : RunOrphan(o)
        \/ Tick
        \/ Finished

Spec == Init /\ [][Next]_vars

\* A call ends within the client's timeout, the loop goes on, the mapping polls
\* while an execution is free, and SQS hides or buries no message for ever.  None
\* of this promises that a call succeeds, that a worker survives or time passes.
Fairness ==
  /\ \A w \in Workers : /\ WF_vars(Handle(w))
                        /\ WF_vars(\E batch \in SUBSET Msgs : Poll(w, batch))
  /\ \A m \in Msgs : WF_vars(VisibilityTimeout(m)) /\ WF_vars(DeadLetter(m))

FairSpec == Spec /\ Fairness

-----------------------------------------------------------------------------

\* No chunk is in an aggregate twice, whatever is redelivered, re-posted,
\* abandoned or crashes: "applied only once through the idempotency claim".
AppliedOnce == \A k \in Keys, c \in ChunkIds : folded[k][c] <= 1

\* The result of m is in its aggregate.
IsFolded(m) == folded[Delta[m].key][Delta[m].chunk] > 0

\* A message leaves the queue by acknowledgement only if its chunk is in the
\* aggregate: neither a poison record nor a record whose call failed is deleted
\* along with the batch it came in.
AckedIsFolded ==
  \A m \in Msgs : queue[m] = "deleted" => m \notin Poison /\ IsFolded(m)

\* The completion barrier: when the status endpoint says complete, the aggregate
\* holds every chunk of the plan exactly once, and no other.
CompleteIsWholePlan ==
  \A k \in Keys : Complete(k) =>
    \A c \in ChunkIds : folded[k][c] = IF c < agg[k].expected THEN 1 ELSE 0

\* The status endpoint may publish equity = micros / iterations of a live
\* aggregate at any moment: its counters are the sum over exactly the chunks
\* folded so far, with no half of a result in it.
CountersAreTheSum ==
  \A k \in Keys : Live(k) =>
    LET parts == {d \in {Delta[m] : m \in Msgs} : d.key = k /\ folded[k][d.chunk] > 0}
    IN  /\ agg[k].counters = Merged([d \in parts |-> d.counters], parts)
        /\ agg[k].completed = Cardinality(parts)

\* Once a status says complete, no late worker, duplicate or orphaned EVAL
\* changes the published result.
CompleteIsFinal ==
  [][\A k \in Keys : Complete(k) => agg'[k] = agg[k]]_vars

\* Seen through its aggregates the whole fan-in is the abstract barrier.
Barrier == INSTANCE ChunkBarrier
             WITH counted <- [k \in Keys |-> {c \in ChunkIds : folded[k][c] > 0}],
                  total <- [k \in Keys |-> agg[k].counters]

ImplementsBarrier == Barrier!BarrierSpec

\* Every message that was sent is finally acknowledged, dead-lettered or expired:
\* no order of crashes, redeliveries and failures leaves one going round.
EverySentSettles == \A m \in Msgs : queue[m] # "unsent" ~> Settled(m)

PlanSent(k) ==
  \E n \in Msgs \ Poison :
    /\ Delta[n].key = k
    /\ \A c \in 0..(Delta[n].expected - 1) : \E m \in Msgs \ Poison :
         Delta[m].key = k /\ Delta[m].chunk = c /\ queue[m] # "unsent"

\* Progress of a request: once all chunks of a plan are on the queue, the barrier
\* is reached (and stays so until the hash expires), unless one of the plan's
\* messages is dead-lettered or expires.
PlanResolves ==
  \A k \in Keys : PlanSent(k) ~>
    \/ BarrierReached(k)
    \/ \E m \in Msgs \ Poison : Delta[m].key = k /\ queue[m] \in {"dlq", "expired"}

=============================================================================
