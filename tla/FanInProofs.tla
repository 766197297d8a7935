----------------------------- MODULE FanInProofs -----------------------------
(***************************************************************************)
(* Proofs about the fan-in: for any number of messages, workers and        *)
(* aggregates and any limits.  The types need nothing more; what is said   *)
(* of counting holds provided the claims outlive the deliveries (Horizon), *)
(* by the argument that every EVAL, even an orphaned one, runs before TTL, *)
(* so that no claim made before it can have expired.                       *)
(***************************************************************************)
EXTENDS FanIn, RedisAggregatorProofs, ArithmeticProofs

\* A message is on the queue only within its retention, from its POST on.
SentInTime ==
  \A m \in Msgs : OnQueue(m) => sentAt[m] <= PostWindow /\ now < sentAt[m] + Retention

\* An invocation runs no longer than its deadline, which is before TTL.
RunsInTime == \A w \in Workers : Busy(w) => now <= deadline[w] /\ deadline[w] < TTL

\* So does an abandoned EVAL.
OrphansInTime == \A o \in orphans : now <= o.until /\ o.until < TTL

\* The loop of handleInvocation: what it has to do, and what it is doing.
LoopInv ==
  \A w \in Workers :
    /\ todo[w] \subseteq held[w] /\ failed[w] \subseteq held[w]
    /\ call[w] # Idle => call[w].msg \in todo[w] /\ call[w].msg \notin Poison

\* Claims and folded chunks are the same chunks, and the claims last till TTL.
ClaimsAreFolds ==
  \A k \in Keys, c \in ChunkIds :
    /\ folded[k][c] = 0 => claim[k][c] = 0
    /\ folded[k][c] > 0 => TTL <= claim[k][c]

\* A reply that arrived tells of a folded chunk, applied now or before.
DoneIsFolded ==
  \A w \in Workers, m \in Msgs : call[w] = [stage |-> "done", msg |-> m] => IsFolded(m)

\* What the loop has finished without a failure is folded.
KeptIsFolded ==
  \A w \in Workers : \A m \in held[w] \ (todo[w] \union failed[w]) :
    m \notin Poison /\ IsFolded(m)

\* The parts of the invariant that only read the store.
StoreInv == RedisInv /\ ClaimsAreFolds /\ AppliedOnce

IInv == /\ TypeOK
        /\ StoreInv
        /\ SentInTime
        /\ RunsInTime
        /\ OrphansInTime
        /\ LoopInv
        /\ DoneIsFolded
        /\ KeptIsFolded
        /\ AckedIsFolded

-----------------------------------------------------------------------------

\* A script that runs before TTL folds its chunk in unless it already is, and
\* touches no other chunk.
LEMMA ScriptBeforeTTL ==
  ASSUME RedisInv, ClaimsAreFolds, AppliedOnce, now < TTL,
         NEW d \in Deltas, ApplyChunkScript(d)
  PROVE  /\ \A k \in Keys, c \in ChunkIds :
              folded'[k][c] = IF k = d.key /\ c = d.chunk THEN 1 ELSE folded[k][c]
         /\ ClaimsAreFolds'
         /\ AppliedOnce'
<1>1. d.key \in Keys /\ d.chunk \in ChunkIds /\ TTL \in Nat /\ TTL > 0
  BY RedisAssumption
<1>2. now \in Nat /\ \A k \in Keys, c \in ChunkIds :
        folded[k][c] \in Nat /\ claim[k][c] \in Nat /\ agg[k].expires \in Nat
  BY DEF RedisInv, RedisTypeOK, Aggregates
<1>3. CASE Claimed(d.key, d.chunk) /\ UNCHANGED <<claim, agg, folded>>
  <2>1. claim[d.key][d.chunk] # 0
    BY <1>1, <1>2, <1>3 DEF Claimed
  <2>2. folded[d.key][d.chunk] = 1
    BY <1>1, <1>2, <2>1 DEF ClaimsAreFolds, AppliedOnce
  <2>3. QED
    BY <1>3, <2>2 DEF ClaimsAreFolds, AppliedOnce
<1>4. CASE /\ ~Claimed(d.key, d.chunk)
           /\ claim' = [claim EXCEPT ![d.key][d.chunk] = now + TTL]
           /\ Fold(d)
           /\ Remember(d)
  <2>1. folded[d.key][d.chunk] = 0
    BY <1>1, <1>2, <1>4 DEF Claimed, ClaimsAreFolds
  <2>2. \A c \in ChunkIds : FoldedIn(d.key)[c] = folded[d.key][c]
    <3>1. CASE Live(d.key)
      BY <3>1 DEF FoldedIn
    <3>2. CASE ~Live(d.key)
      <4>1. \A c \in ChunkIds : claim[d.key][c] < TTL
        BY <1>1, <1>2, <3>2 DEF Live, RedisInv, AggregateOutlivesClaims
      <4>2. \A c \in ChunkIds : folded[d.key][c] = 0
        BY <1>1, <1>2, <4>1 DEF ClaimsAreFolds
      <4>3. QED
        BY <3>2, <4>2 DEF FoldedIn, NothingFolded
    <3>3. QED
      BY <3>1, <3>2
  <2>3. FoldedIn(d.key) \in [ChunkIds -> Nat]
    BY <1>1 DEF FoldedIn, NothingFolded, RedisInv, RedisTypeOK
  <2>4. \A k \in Keys, c \in ChunkIds :
          folded'[k][c] = IF k = d.key /\ c = d.chunk THEN 1 ELSE folded[k][c]
    BY <1>1, <1>4, <2>1, <2>2, <2>3 DEF Remember, RedisInv, RedisTypeOK
  <2>5. \A k \in Keys, c \in ChunkIds :
          claim'[k][c] = IF k = d.key /\ c = d.chunk THEN now + TTL ELSE claim[k][c]
    BY <1>1, <1>4 DEF RedisInv, RedisTypeOK
  <2>6. ClaimsAreFolds'
    BY <1>1, <1>2, <2>4, <2>5 DEF ClaimsAreFolds
  <2>7. AppliedOnce'
    BY <1>1, <1>2, <2>4 DEF AppliedOnce
  <2>8. QED
    BY <2>4, <2>6, <2>7
<1>5. QED
  BY <1>3, <1>4 DEF ApplyChunkScript

\* A worker's results are about chunks of a plan.
LEMMA NumbersOfResults ==
  \A m \in Msgs : Delta[m].chunk \in Nat /\ Delta[m].chunk < Delta[m].expected
                  /\ Delta[m].expected \in Nat
<1>1. \A m \in Msgs : Delta[m] \in Deltas
  BY FanInAssumption
<1>2. QED
  BY <1>1, FanInAssumption, RedisAssumption

\* A step that leaves the store alone keeps what is said of it.
LEMMA StoreUnchanged ==
  StoreInv /\ UNCHANGED redisVars => StoreInv' /\ \A m \in Msgs : IsFolded(m)' = IsFolded(m)
BY DEF StoreInv, redisVars, RedisInv, RedisTypeOK, ExpiryWithinTTL, AggregateOutlivesClaims,
       RefusedIsFolded, Claimed, Live, ClaimsAreFolds, AppliedOnce, IsFolded

\* A script that runs in time keeps the store's invariant, folds the result of
\* its message and takes no other message's result out.
LEMMA StoreScript ==
  ASSUME StoreInv, now < TTL, NEW n \in Msgs, ApplyChunkScript(Delta[n]), UNCHANGED now
  PROVE  StoreInv' /\ IsFolded(n)' /\ \A m \in Msgs : IsFolded(m) => IsFolded(m)'
<1>1. \A m \in Msgs : Delta[m] \in Deltas /\ Delta[m].key \in Keys /\ Delta[m].chunk \in ChunkIds
  BY FanInAssumption, RedisAssumption
<1>2. RedisInv'
  BY <1>1, ScriptKeepsInv DEF StoreInv
<1>3. /\ \A k \in Keys, c \in ChunkIds :
           folded'[k][c] = IF k = Delta[n].key /\ c = Delta[n].chunk THEN 1 ELSE folded[k][c]
      /\ ClaimsAreFolds' /\ AppliedOnce'
  BY <1>1, ScriptBeforeTTL DEF StoreInv
<1>4. QED
  BY <1>1, <1>2, <1>3 DEF StoreInv, IsFolded

-----------------------------------------------------------------------------
\* The types need no setting: claims may expire under a delivery, and hold them still.

\* Everything starts in its type.
LEMMA InitType == Init => TypeOK
<1>1. Init => RedisTypeOK
  BY RedisInitInv DEF Init, RedisInv
<1>2. QED
  BY <1>1, FanInAssumption DEF Init, TypeOK, Places, Calls

\* What the queue does by itself moves messages between its places.
LEMMA QueueType ==
  ASSUME TypeOK, NEW m \in Msgs, EnqueueChunk(m) \/ VisibilityTimeout(m) \/ DeadLetter(m)
  PROVE  TypeOK'
BY DEF TypeOK, RedisTypeOK, redisVars, workerVars, EnqueueChunk, VisibilityTimeout, DeadLetter,
       Places

\* A batch is of messages that may be received once more.
LEMMA PollType ==
  ASSUME TypeOK, NEW w \in Workers, NEW batch \in SUBSET Msgs, Poll(w, batch)
  PROVE  TypeOK'
BY FanInAssumption DEF TypeOK, RedisTypeOK, redisVars, Poll, Places, Deliverable

\* A call that is started is one about a message.
LEMMA StartCallType ==
  ASSUME TypeOK, NEW w \in Workers, NEW m \in todo[w], StartCall(w, m)
  PROVE  TypeOK'
<1>1. m \in Msgs
  BY DEF TypeOK
<1>2. QED
  BY <1>1 DEF TypeOK, RedisTypeOK, redisVars, queueVars, StartCall, Calls

\* The end of a call leaves the worker idle.
LEMMA FinishType ==
  ASSUME TypeOK, NEW w \in Workers, NEW m \in Msgs, NEW fs \in SUBSET {m}, Finish(w, m, fs),
         orphans' \subseteq [msg : Msgs, until : Nat]
  PROVE  TypeOK'
BY DEF TypeOK, RedisTypeOK, redisVars, queueVars, Finish, Calls

\* An EVAL that nobody waits for any more has a message and a deadline.
LEMMA AbandonedType ==
  ASSUME TypeOK, NEW w \in Workers, call[w].stage \in {"sent", "done"}
  PROVE  call[w].msg \in Msgs /\ Abandoned(w) \in [msg : Msgs, until : Nat]
BY DEF TypeOK, Calls, Idle, Abandoned

\* Each step of the loop of handleInvocation, and its response.
LEMMA HandleType ==
  ASSUME TypeOK, NEW w \in Workers, Handle(w)
  PROVE  TypeOK'
<1>1. ASSUME NEW m \in todo[w], RejectBody(w, m) PROVE TypeOK'
  BY <1>1, FinishType DEF RejectBody, TypeOK
<1>2. ASSUME NEW m \in todo[w], StartCall(w, m) PROVE TypeOK'
  BY <1>2, StartCallType
<1>3. CASE RunScript(w)
  <2>1. call[w].msg \in Msgs
    BY <1>3, AbandonedType DEF RunScript
  <2>2. RedisTypeOK'
    BY <1>3, <2>1, ScriptType, FanInAssumption DEF RunScript, TypeOK
  <2>3. [call[w] EXCEPT !.stage = "done"] \in Calls
    BY <1>3 DEF RunScript, TypeOK, Calls, Idle
  <2>4. call' = [call EXCEPT ![w] = [call[w] EXCEPT !.stage = "done"]]
    BY <1>3 DEF RunScript
  <2>5. call' \in [Workers -> Calls]
    BY <2>3, <2>4 DEF TypeOK
  <2>6. QED
    BY <1>3, <2>2, <2>5 DEF TypeOK, queueVars, RunScript
<1>4. CASE AcceptReply(w)
  BY <1>4, AbandonedType, FinishType DEF AcceptReply, TypeOK
<1>5. CASE FailCall(w)
  <2>1. call[w].msg \in Msgs /\ Abandoned(w) \in [msg : Msgs, until : Nat]
    BY <1>5, AbandonedType DEF FailCall
  <2>2. orphans' \subseteq [msg : Msgs, until : Nat]
    BY <1>5, <2>1 DEF FailCall, TypeOK
  <2>3. QED
    BY <1>5, <2>1, <2>2, FinishType DEF FailCall
<1>6. CASE Respond(w)
  BY <1>6 DEF TypeOK, RedisTypeOK, redisVars, Respond, Release, Calls, Places
<1>7. QED
  BY <1>1, <1>2, <1>3, <1>4, <1>5, <1>6 DEF Handle

\* A crash empties the worker's hands.
LEMMA CrashType ==
  ASSUME TypeOK, NEW w \in Workers, Crash(w)
  PROVE  TypeOK'
<1>1. orphans' \subseteq [msg : Msgs, until : Nat]
  BY AbandonedType DEF Crash, TypeOK
<1>2. QED
  BY <1>1 DEF TypeOK, RedisTypeOK, redisVars, queueVars, Crash, Release, Calls

\* So does an EVAL that runs late.
LEMMA RunOrphanType ==
  ASSUME TypeOK, NEW o \in orphans, RunOrphan(o)
  PROVE  TypeOK'
<1>1. Delta[o.msg] \in Deltas
  BY FanInAssumption DEF TypeOK
<1>2. RedisTypeOK'
  BY <1>1, ScriptType DEF RunOrphan, TypeOK
<1>3. QED
  BY <1>2 DEF TypeOK, queueVars, workerVars, RunOrphan

\* Time only moves the clock, and drops messages and late calls.
LEMMA TickType ==
  ASSUME TypeOK, Tick
  PROVE  TypeOK'
BY DEF TypeOK, RedisTypeOK, PassTime, workerVars, Tick, Places

\* Every variable of the fan-in keeps its type and the receive count its limit,
\* whatever the time-to-live, the retention and the timeouts are.
THEOREM TypeCorrect == Spec => []TypeOK
<1>1. ASSUME TypeOK, [Next]_vars PROVE TypeOK'
  <2>1. CASE UNCHANGED vars
    BY <1>1, <2>1 DEF TypeOK, RedisTypeOK, vars, redisVars, queueVars, workerVars
  <2>2. QED
    BY <1>1, <2>1, QueueType, PollType, HandleType, CrashType, RunOrphanType, TickType
       DEF Next, Finished
<1>2. QED
  BY <1>1, InitType, PTL DEF Spec

-----------------------------------------------------------------------------
\* The invariant holds at first, and every action keeps it: one lemma each.

\* The invariant holds before anything is sent.
LEMMA InitIInv == ASSUME Horizon, Init PROVE IInv
<1>1. RedisInv
  BY RedisInitInv DEF Init
<1>2. TypeOK
  BY InitType
<1>3. ClaimsAreFolds /\ AppliedOnce
  BY DEF Init, RedisInit, NothingFolded, ClaimsAreFolds, AppliedOnce
<1>4. SentInTime /\ RunsInTime /\ OrphansInTime /\ LoopInv
  BY DEF Init, SentInTime, OnQueue, RunsInTime, Busy, OrphansInTime, LoopInv
<1>5. DoneIsFolded /\ KeptIsFolded /\ AckedIsFolded
  BY DEF Init, DoneIsFolded, KeptIsFolded, AckedIsFolded, Idle
<1>6. QED
  BY <1>1, <1>2, <1>3, <1>4, <1>5 DEF IInv, StoreInv

\* A chunk is posted early enough for its last delivery to end before the time-to-live.
LEMMA EnqueueChunkInv ==
  ASSUME Horizon, IInv, NEW m \in Msgs, EnqueueChunk(m) PROVE IInv'
<1>1. TypeOK'
  BY QueueType DEF IInv
<1>2. StoreInv' /\ \A n \in Msgs : IsFolded(n)' = IsFolded(n)
  BY StoreUnchanged DEF IInv, EnqueueChunk
<1>3. SentInTime' /\ RunsInTime' /\ OrphansInTime'
  BY FanInAssumption
  DEF IInv, TypeOK, RedisTypeOK, redisVars, workerVars, EnqueueChunk, SentInTime, OnQueue,
      RunsInTime, Busy, OrphansInTime
<1>4. LoopInv' /\ DoneIsFolded' /\ KeptIsFolded' /\ AckedIsFolded'
  BY <1>2 DEF IInv, TypeOK, workerVars, EnqueueChunk, LoopInv, DoneIsFolded, KeptIsFolded,
              AckedIsFolded, Calls, Idle
<1>5. QED
  BY <1>1, <1>2, <1>3, <1>4 DEF IInv

\* A batch is taken from messages that are still kept, and its invocation ends in time.
LEMMA PollInv ==
  ASSUME Horizon, IInv, NEW w \in Workers, NEW batch \in SUBSET Msgs, Poll(w, batch)
  PROVE  IInv'
<1>1. TypeOK'
  BY PollType DEF IInv
<1>2. StoreInv' /\ \A n \in Msgs : IsFolded(n)' = IsFolded(n)
  BY StoreUnchanged DEF IInv, Poll
<1>3. SentInTime' /\ OrphansInTime'
  BY DEF IInv, TypeOK, redisVars, Poll, Deliverable, SentInTime, OnQueue, OrphansInTime
<1>4. now + MaxRun < TTL
  <2>1. PICK m \in batch : m \in Msgs /\ queue[m] = "visible"
    BY DEF Poll, Deliverable
  <2>2. sentAt[m] <= PostWindow /\ now < sentAt[m] + Retention
    BY <2>1 DEF IInv, SentInTime, OnQueue
  <2>3. sentAt[m] \in Nat /\ now \in Nat
    BY <2>1 DEF IInv, TypeOK, RedisTypeOK
  <2>4. QED
    BY <2>2, <2>3, FanInAssumption, RedisAssumption DEF Horizon
<1>5. RunsInTime'
  BY <1>4, FanInAssumption
  DEF IInv, TypeOK, RedisTypeOK, redisVars, Poll, RunsInTime, Busy
<1>6. held[w] = {} /\ call[w] = Idle /\ failed[w] = {}
  BY DEF Poll, Busy, IInv, LoopInv
<1>7. LoopInv'
  BY <1>6 DEF IInv, TypeOK, Poll, LoopInv
<1>8. DoneIsFolded' /\ KeptIsFolded'
  BY <1>2, <1>6 DEF IInv, TypeOK, Poll, DoneIsFolded, KeptIsFolded, Calls, Idle
<1>9. AckedIsFolded'
  BY <1>2 DEF IInv, TypeOK, Poll, AckedIsFolded
<1>10. QED
  BY <1>1, <1>2, <1>3, <1>5, <1>7, <1>8, <1>9 DEF IInv

\* What the queue does by itself leaves workers and store alone.
LEMMA QueueMoveInv ==
  ASSUME Horizon, IInv, NEW m \in Msgs, VisibilityTimeout(m) \/ DeadLetter(m) PROVE IInv'
<1>1. UNCHANGED <<redisVars, sentAt, receives, workerVars, orphans>>
  BY DEF VisibilityTimeout, DeadLetter
<1>2. /\ queue' \in [Msgs -> Places]
      /\ \A n \in Msgs : OnQueue(n)' => OnQueue(n)
      /\ \A n \in Msgs : queue'[n] = "deleted" => queue[n] = "deleted"
  BY DEF IInv, TypeOK, VisibilityTimeout, DeadLetter, OnQueue, Places
<1>3. TypeOK'
  BY QueueType DEF IInv
<1>4. StoreInv' /\ \A n \in Msgs : IsFolded(n)' = IsFolded(n)
  BY <1>1, StoreUnchanged DEF IInv
<1>5. SentInTime' /\ RunsInTime' /\ OrphansInTime'
  BY <1>1, <1>2 DEF IInv, redisVars, workerVars, SentInTime, RunsInTime, Busy, OrphansInTime
<1>6. LoopInv' /\ DoneIsFolded' /\ KeptIsFolded' /\ AckedIsFolded'
  BY <1>1, <1>2, <1>4 DEF IInv, TypeOK, workerVars, LoopInv, DoneIsFolded, KeptIsFolded,
                          AckedIsFolded, Calls, Idle
<1>7. QED
  BY <1>3, <1>4, <1>5, <1>6 DEF IInv

\* A call that is started belongs to the record that the loop is at.
LEMMA StartCallInv ==
  ASSUME Horizon, IInv, NEW w \in Workers, NEW m \in todo[w], StartCall(w, m) PROVE IInv'
<1>0. m \in Msgs
  BY DEF IInv, TypeOK
<1>1. TypeOK'
  BY StartCallType DEF IInv
<1>2. StoreInv' /\ \A n \in Msgs : IsFolded(n)' = IsFolded(n)
  BY StoreUnchanged DEF IInv, StartCall
<1>3. SentInTime' /\ RunsInTime' /\ OrphansInTime'
  BY DEF IInv, redisVars, queueVars, StartCall, SentInTime, OnQueue, RunsInTime, Busy,
         OrphansInTime
<1>4. LoopInv'
  BY DEF IInv, TypeOK, StartCall, LoopInv
<1>5. DoneIsFolded' /\ KeptIsFolded' /\ AckedIsFolded'
  BY <1>2 DEF IInv, TypeOK, queueVars, StartCall, DoneIsFolded, KeptIsFolded, AckedIsFolded,
              Calls, Idle
<1>6. QED
  BY <1>1, <1>2, <1>3, <1>4, <1>5 DEF IInv

\* RejectBody, AcceptReply and FailCall all end in Finish.  A record that is not
\* listed as a failure must be folded.
LEMMA FinishInv ==
  ASSUME Horizon, IInv, NEW w \in Workers, NEW m \in todo[w], NEW fs \in SUBSET {m},
         Finish(w, m, fs),
         fs = {} => m \notin Poison /\ IsFolded(m),
         orphans' \subseteq [msg : Msgs, until : Nat],
         \A o \in orphans' : o \in orphans \/ o.until = deadline[w]
  PROVE  IInv'
<1>0. m \in Msgs /\ m \in held[w] /\ Busy(w)
  BY DEF IInv, TypeOK, LoopInv, Busy
<1>1. TypeOK'
  BY <1>0, FinishType DEF IInv
<1>2. StoreInv' /\ \A n \in Msgs : IsFolded(n)' = IsFolded(n)
  BY StoreUnchanged DEF IInv, Finish
<1>3. SentInTime' /\ RunsInTime'
  BY DEF IInv, redisVars, queueVars, Finish, SentInTime, OnQueue, RunsInTime, Busy
<1>4. OrphansInTime'
  BY <1>0 DEF IInv, redisVars, Finish, RunsInTime, OrphansInTime
<1>5. LoopInv'
  BY <1>0 DEF IInv, TypeOK, Finish, LoopInv
<1>6. DoneIsFolded' /\ AckedIsFolded'
  BY <1>2 DEF IInv, TypeOK, queueVars, Finish, DoneIsFolded, AckedIsFolded, Calls, Idle
<1>7. KeptIsFolded'
  BY <1>0, <1>2 DEF IInv, TypeOK, Finish, KeptIsFolded
<1>8. QED
  BY <1>1, <1>2, <1>3, <1>4, <1>5, <1>6, <1>7 DEF IInv

\* A call that is under way is about a record the loop has not finished.
LEMMA CallInTodo ==
  ASSUME IInv, NEW w \in Workers, call[w].stage \in {"sent", "done"}
  PROVE  /\ call[w] \in [stage : {"sent", "done"}, msg : Msgs]
         /\ call[w].msg \in todo[w] /\ call[w].msg \notin Poison /\ call[w].msg \in Msgs
         /\ Busy(w) /\ deadline[w] \in Nat
BY DEF IInv, TypeOK, LoopInv, Calls, Idle, Busy

\* A handler that answers has dropped from its batch only what was folded or has failed.
LEMMA HandlerEndsInv ==
  ASSUME Horizon, IInv, NEW w \in Workers,
         \/ \E m \in todo[w] : RejectBody(w, m)
         \/ AcceptReply(w)
         \/ FailCall(w)
  PROVE  IInv'
<1>1. ASSUME NEW m \in todo[w], RejectBody(w, m) PROVE IInv'
  BY <1>1, FinishInv DEF RejectBody, IInv, TypeOK
<1>2. CASE AcceptReply(w)
  BY <1>2, CallInTodo, FinishInv DEF AcceptReply, IInv, TypeOK, DoneIsFolded
<1>3. CASE FailCall(w)
  <2>1. Abandoned(w) \in [msg : Msgs, until : Nat] /\ Abandoned(w).until = deadline[w]
    BY <1>3, CallInTodo DEF FailCall, Abandoned
  <2>2. /\ orphans' \subseteq [msg : Msgs, until : Nat]
        /\ \A o \in orphans' : o \in orphans \/ o.until = deadline[w]
    BY <1>3, <2>1 DEF FailCall, IInv, TypeOK
  <2>3. QED
    BY <1>3, <2>2, CallInTodo, FinishInv DEF FailCall
<1>4. QED
  BY <1>1, <1>2, <1>3

\* A script that runs for a live call folds its chunk, or finds it folded.
LEMMA RunScriptInv ==
  ASSUME Horizon, IInv, NEW w \in Workers, RunScript(w) PROVE IInv'
<1>0. PICK n \in Msgs : /\ n = call[w].msg /\ call[w] = [stage |-> "sent", msg |-> n]
                       /\ n \in todo[w] /\ n \notin Poison /\ Busy(w) /\ deadline[w] \in Nat
  BY CallInTodo DEF RunScript
<1>1. now < TTL
  BY <1>0, RedisAssumption DEF IInv, RunsInTime, TypeOK, RedisTypeOK
<1>2. ApplyChunkScript(Delta[n]) /\ UNCHANGED now
  BY <1>0 DEF RunScript
<1>3. StoreInv' /\ IsFolded(n)' /\ \A m \in Msgs : IsFolded(m) => IsFolded(m)'
  BY <1>1, <1>2, StoreScript DEF IInv
<1>4. call' = [call EXCEPT ![w] = [stage |-> "done", msg |-> n]]
  <2>1. call' = [call EXCEPT ![w] = [call[w] EXCEPT !.stage = "done"]]
    BY DEF RunScript
  <2>2. [call[w] EXCEPT !.stage = "done"] = [stage |-> "done", msg |-> n]
    BY <1>0
  <2>3. QED
    BY <2>1, <2>2
<1>5. TypeOK'
  BY HandleType DEF IInv, Handle
<1>6. SentInTime' /\ RunsInTime' /\ OrphansInTime'
  BY DEF IInv, queueVars, RunScript, SentInTime, OnQueue, RunsInTime, Busy, OrphansInTime
<1>7. LoopInv'
  BY <1>0, <1>4 DEF IInv, TypeOK, RunScript, LoopInv
<1>8. DoneIsFolded'
  BY <1>3, <1>4 DEF IInv, TypeOK, DoneIsFolded
<1>9. KeptIsFolded' /\ AckedIsFolded'
  BY <1>3 DEF IInv, TypeOK, queueVars, RunScript, KeptIsFolded, AckedIsFolded
<1>10. QED
  BY <1>3, <1>5, <1>6, <1>7, <1>8, <1>9 DEF IInv

\* A script that runs for a caller that has gone does the same to the store, and nothing else.
LEMMA RunOrphanInv ==
  ASSUME Horizon, IInv, NEW o \in orphans, RunOrphan(o) PROVE IInv'
<1>0. PICK n \in Msgs : n = o.msg /\ o.until \in Nat
  BY DEF IInv, TypeOK
<1>1. now < TTL
  BY <1>0, RedisAssumption DEF IInv, OrphansInTime, TypeOK, RedisTypeOK
<1>2. ApplyChunkScript(Delta[n]) /\ UNCHANGED now
  BY <1>0 DEF RunOrphan
<1>3. StoreInv' /\ \A m \in Msgs : IsFolded(m) => IsFolded(m)'
  BY <1>1, <1>2, StoreScript DEF IInv
<1>4. TypeOK'
  BY RunOrphanType DEF IInv
<1>5. SentInTime' /\ RunsInTime' /\ OrphansInTime'
  BY DEF IInv, queueVars, workerVars, RunOrphan, SentInTime, OnQueue, RunsInTime, Busy,
         OrphansInTime
<1>6. LoopInv'
  BY DEF IInv, workerVars, RunOrphan, LoopInv
<1>7. DoneIsFolded' /\ KeptIsFolded' /\ AckedIsFolded'
  BY <1>3 DEF IInv, TypeOK, queueVars, workerVars, RunOrphan, DoneIsFolded, KeptIsFolded,
              AckedIsFolded
<1>8. QED
  BY <1>3, <1>4, <1>5, <1>6, <1>7 DEF IInv

\* Respond deletes only what the loop has finished without a failure.
LEMMA RespondInv ==
  ASSUME Horizon, IInv, NEW w \in Workers, Respond(w) PROVE IInv'
<1>1. TypeOK'
  BY HandleType DEF IInv, Handle
<1>2. StoreInv' /\ \A n \in Msgs : IsFolded(n)' = IsFolded(n)
  BY StoreUnchanged DEF IInv, Respond
<1>3. SentInTime' /\ RunsInTime' /\ OrphansInTime'
  BY DEF IInv, TypeOK, redisVars, Respond, Release, SentInTime, OnQueue, RunsInTime, Busy,
         OrphansInTime
<1>4. LoopInv'
  BY DEF IInv, TypeOK, Respond, Release, LoopInv
<1>5. DoneIsFolded' /\ KeptIsFolded'
  BY <1>2 DEF IInv, TypeOK, Respond, Release, DoneIsFolded, KeptIsFolded, Calls, Idle
<1>6. \A m \in Acknowledged(w) : m \notin Poison /\ IsFolded(m)
  BY DEF IInv, Respond, Acknowledged, KeptIsFolded
<1>7. AckedIsFolded'
  BY <1>2, <1>6 DEF IInv, TypeOK, Respond, AckedIsFolded
<1>8. QED
  BY <1>1, <1>2, <1>3, <1>4, <1>5, <1>7 DEF IInv

\* A crash hands the call on the wire to the orphans, and nothing was acknowledged.
LEMMA CrashInv ==
  ASSUME Horizon, IInv, NEW w \in Workers, Crash(w) PROVE IInv'
<1>1. \A o \in orphans' : o \in [msg : Msgs, until : Nat]
                           /\ (o \in orphans \/ o.until = deadline[w])
  <2>1. CASE call[w].stage = "sent"
    BY <2>1, CallInTodo DEF Crash, Abandoned, IInv, TypeOK
  <2>2. CASE call[w].stage # "sent"
    BY <2>2 DEF Crash, IInv, TypeOK
  <2>3. QED
    BY <2>1, <2>2
<1>2. TypeOK'
  BY CrashType DEF IInv
<1>3. StoreInv' /\ \A n \in Msgs : IsFolded(n)' = IsFolded(n)
  BY StoreUnchanged DEF IInv, Crash
<1>4. SentInTime' /\ RunsInTime'
  BY DEF IInv, TypeOK, redisVars, queueVars, Crash, Release, SentInTime, OnQueue, RunsInTime,
         Busy
<1>5. OrphansInTime'
  BY <1>1 DEF IInv, redisVars, Crash, RunsInTime, OrphansInTime
<1>6. LoopInv'
  BY DEF IInv, TypeOK, Crash, Release, LoopInv
<1>7. DoneIsFolded' /\ KeptIsFolded' /\ AckedIsFolded'
  BY <1>3 DEF IInv, TypeOK, queueVars, Crash, Release, DoneIsFolded, KeptIsFolded,
              AckedIsFolded, Calls, Idle
<1>8. QED
  BY <1>2, <1>3, <1>4, <1>5, <1>6, <1>7 DEF IInv

\* Time passes no end of an invocation, and drops old messages and late calls.
LEMMA TickInv == ASSUME Horizon, IInv, Tick PROVE IInv'
<1>0. now' = now + 1 /\ now \in Nat /\ UNCHANGED <<claim, agg, folded>>
  BY DEF IInv, TypeOK, RedisTypeOK, Tick, PassTime
<1>1. RedisInv'
  BY PassTimeKeepsInv DEF IInv, StoreInv, Tick
<1>2. StoreInv' /\ \A n \in Msgs : IsFolded(n)' = IsFolded(n)
  BY <1>0, <1>1 DEF IInv, StoreInv, ClaimsAreFolds, AppliedOnce, IsFolded
<1>3. TypeOK'
  BY TickType DEF IInv
<1>4. SentInTime'
  BY <1>0, FanInAssumption DEF IInv, TypeOK, Tick, SentInTime, OnQueue, Retained
<1>5. RunsInTime' /\ OrphansInTime'
  BY <1>0 DEF IInv, TypeOK, workerVars, Tick, RunsInTime, Busy, OrphansInTime
<1>6. LoopInv'
  BY DEF IInv, workerVars, Tick, LoopInv
<1>7. DoneIsFolded' /\ KeptIsFolded' /\ AckedIsFolded'
  BY <1>2 DEF IInv, TypeOK, workerVars, Tick, DoneIsFolded, KeptIsFolded, AckedIsFolded,
              Calls, Idle
<1>8. QED
  BY <1>2, <1>3, <1>4, <1>5, <1>6, <1>7 DEF IInv

\* A step that changes nothing keeps the invariant.
LEMMA StutterInv == ASSUME IInv, UNCHANGED vars PROVE IInv'
<1>1. StoreInv' /\ \A n \in Msgs : IsFolded(n)' = IsFolded(n)
  BY StoreUnchanged DEF IInv, vars
<1>2. TypeOK' /\ SentInTime' /\ RunsInTime' /\ OrphansInTime' /\ LoopInv'
  BY DEF IInv, vars, redisVars, queueVars, workerVars, TypeOK, RedisTypeOK, SentInTime, OnQueue,
         RunsInTime, Busy, OrphansInTime, LoopInv
<1>3. DoneIsFolded' /\ KeptIsFolded' /\ AckedIsFolded'
  BY <1>1 DEF IInv, TypeOK, vars, queueVars, workerVars, DoneIsFolded, KeptIsFolded,
              AckedIsFolded, Calls, Idle
<1>4. QED
  BY <1>1, <1>2, <1>3 DEF IInv

\* Every step of the fan-in keeps the invariant.
LEMMA StepIInv == ASSUME Horizon, IInv, [Next]_vars PROVE IInv'
<1>1. ASSUME NEW m \in Msgs, EnqueueChunk(m) \/ VisibilityTimeout(m) \/ DeadLetter(m)
      PROVE  IInv'
  BY <1>1, EnqueueChunkInv, QueueMoveInv
<1>2. ASSUME NEW w \in Workers, NEW batch \in SUBSET Msgs, Poll(w, batch) PROVE IInv'
  BY <1>2, PollInv
<1>3. ASSUME NEW w \in Workers, Handle(w) PROVE IInv'
  BY <1>3, StartCallInv, HandlerEndsInv, RunScriptInv, RespondInv DEF Handle
<1>4. ASSUME NEW w \in Workers, Crash(w) PROVE IInv'
  BY <1>4, CrashInv
<1>5. ASSUME NEW o \in orphans, RunOrphan(o) PROVE IInv'
  BY <1>5, RunOrphanInv
<1>6. CASE Tick
  BY <1>6, TickInv
<1>7. CASE Finished \/ UNCHANGED vars
  BY <1>7, StutterInv DEF Finished
<1>8. QED
  BY <1>1, <1>2, <1>3, <1>4, <1>5, <1>6, <1>7 DEF Next

\* The inductive invariant holds in every reachable state of the fan-in.
THEOREM Invariance == ASSUME Horizon PROVE Spec => []IInv
<1>1. Init => IInv
  BY InitIInv
<1>2. IInv /\ [Next]_vars => IInv'
  BY StepIInv
<1>3. QED
  BY <1>1, <1>2, PTL DEF Spec

-----------------------------------------------------------------------------
\* No redelivery, repeated POST, crash, lost reply or orphaned EVAL ever counts a
\* chunk twice, as long as the claims outlive the deliveries.
THEOREM AtMostOnce == ASSUME Horizon PROVE Spec => []AppliedOnce
<1>1. IInv => AppliedOnce
  BY DEF IInv, StoreInv
<1>2. QED
  BY <1>1, Invariance, PTL

\* A batch never acknowledges a record whose result the aggregate does not hold.
THEOREM AcknowledgedIsFolded == ASSUME Horizon PROVE Spec => []AckedIsFolded
<1>1. IInv => AckedIsFolded
  BY DEF IInv
<1>2. QED
  BY <1>1, Invariance, PTL

-----------------------------------------------------------------------------
(***************************************************************************)
(* The completion barrier: what "complete" means, that it is final, and    *)
(* that the fan-in implements ChunkBarrier.  This builds on IInv, and on   *)
(* one plan per aggregate where the plan's size matters.                   *)
(***************************************************************************)

FoldedChunks(k) == {c \in ChunkIds : folded[k][c] > 0}

\* A hash that holds no chunk was never written.
EmptyIsUnset == \A k \in Keys : FoldedChunks(k) = {} => agg[k] = NoHash

\* completed_chunks counts the chunks in the hash.
CompletedCounts == \A k \in Keys : agg[k].completed = Cardinality(FoldedChunks(k))

\* The hash's chunks come from messages of the plan whose size it records.
FromOnePlan ==
  \A k \in Keys : \A c \in FoldedChunks(k) : \E m \in Msgs :
    Delta[m].key = k /\ Delta[m].chunk = c /\ Delta[m].expected = agg[k].expected

HashInv == IInv /\ EmptyIsUnset
PlanInv == HashInv /\ CompletedCounts /\ FromOnePlan

-----------------------------------------------------------------------------

\* The chunks of a hash are finitely many.
LEMMA FoldedFinite == \A k \in Keys : IsFiniteSet(FoldedChunks(k))
BY FS_Subset, RedisAssumption DEF FoldedChunks

\* The types of the store, one field at a time.
LEMMA StoreTypes ==
  ASSUME IInv
  PROVE  /\ now \in Nat /\ TTL \in Nat
         /\ \A k \in Keys : /\ agg[k].expected \in Nat /\ agg[k].completed \in Nat
                           /\ agg[k].expires \in Nat
                           /\ \A c \in ChunkIds : claim[k][c] \in Nat /\ folded[k][c] \in Nat
<1>1. TTL \in Nat
  BY RedisAssumption
<1>2. RedisTypeOK
  BY DEF IInv, TypeOK
<1>3. QED
  BY <1>1, <1>2 DEF RedisTypeOK, Aggregates

\* Before TTL no hash that holds a chunk has expired, so what HINCRBY finds is
\* what the history says.
LEMMA HashIsAgg ==
  ASSUME HashInv, now < TTL, NEW k \in Keys PROVE Hash(k) = agg[k]
<1>1. CASE Live(k)
  BY <1>1 DEF Hash
<1>2. CASE ~Live(k)
  <2>1. \A c \in ChunkIds : claim[k][c] < TTL
    BY <1>2, RedisAssumption
    DEF HashInv, IInv, StoreInv, RedisInv, RedisTypeOK, Aggregates, AggregateOutlivesClaims, Live
  <2>2. \A c \in ChunkIds : ~(folded[k][c] > 0)
    BY <2>1, RedisAssumption DEF HashInv, IInv, StoreInv, RedisInv, RedisTypeOK, ClaimsAreFolds
  <2>3. agg[k] = NoHash
    BY <2>2 DEF HashInv, EmptyIsUnset, FoldedChunks
  <2>4. QED
    BY <1>2, <2>3 DEF Hash
<1>3. QED
  BY <1>1, <1>2

\* Every step either leaves the hashes alone or runs one script before TTL.
LEMMA StepIsScript ==
  ASSUME Horizon, IInv, [Next]_vars
  PROVE  \/ UNCHANGED <<claim, agg, folded>>
         \/ /\ now < TTL
            /\ UNCHANGED now
            /\ \E n \in Msgs : ApplyChunkScript(Delta[n])
<1>1. ASSUME NEW w \in Workers, RunScript(w)
      PROVE  now < TTL /\ UNCHANGED now /\ \E n \in Msgs : ApplyChunkScript(Delta[n])
  <2>1. call[w].msg \in Msgs /\ Busy(w) /\ deadline[w] \in Nat
    BY <1>1, CallInTodo DEF RunScript
  <2>2. QED
    BY <1>1, <2>1, RedisAssumption DEF RunScript, IInv, RunsInTime, TypeOK, RedisTypeOK
<1>2. ASSUME NEW o \in orphans, RunOrphan(o)
      PROVE  now < TTL /\ UNCHANGED now /\ \E n \in Msgs : ApplyChunkScript(Delta[n])
  BY <1>2, RedisAssumption DEF RunOrphan, IInv, OrphansInTime, TypeOK, RedisTypeOK
<1>3. ASSUME NEW m \in Msgs, EnqueueChunk(m) \/ VisibilityTimeout(m) \/ DeadLetter(m)
      PROVE  UNCHANGED <<claim, agg, folded>>
  BY <1>3 DEF EnqueueChunk, VisibilityTimeout, DeadLetter, redisVars
<1>4. ASSUME NEW w \in Workers, NEW batch \in SUBSET Msgs, Poll(w, batch)
      PROVE  UNCHANGED <<claim, agg, folded>>
  BY <1>4 DEF Poll, redisVars
<1>5. ASSUME NEW w \in Workers, Crash(w)
      PROVE  UNCHANGED <<claim, agg, folded>>
  BY <1>5 DEF Crash, redisVars
<1>6. ASSUME NEW w \in Workers, Handle(w), ~RunScript(w)
      PROVE  UNCHANGED <<claim, agg, folded>>
  BY <1>6 DEF Handle, RejectBody, StartCall, AcceptReply, FailCall, Respond, Finish, redisVars
<1>7. CASE Tick \/ Finished \/ UNCHANGED vars
  BY <1>7 DEF Tick, PassTime, Finished, vars, redisVars
<1>8. QED
  BY <1>1, <1>2, <1>3, <1>4, <1>5, <1>6, <1>7 DEF Next

\* What one script before TTL does, told without expiry: nothing, or its chunk
\* was not in the hash and is now, on top of everything that was there.
FoldsIn(d) ==
  /\ folded[d.key][d.chunk] = 0
  /\ agg' = [agg EXCEPT ![d.key] =
               [expected  |-> d.expected,
                completed |-> agg[d.key].completed + 1,
                counters  |-> Plus(agg[d.key].counters, d.counters),
                expires   |-> now + TTL]]
  /\ \A k \in Keys, c \in ChunkIds :
       folded'[k][c] = IF k = d.key /\ c = d.chunk THEN 1 ELSE folded[k][c]

\* Before the first time-to-live is over, a script adds its chunk or leaves the store as it is.
LEMMA FoldBeforeTTL ==
  ASSUME HashInv, now < TTL, NEW d \in Deltas, ApplyChunkScript(d)
  PROVE  UNCHANGED <<claim, agg, folded>> \/ FoldsIn(d)
<1>1. d.key \in Keys /\ d.chunk \in ChunkIds
  BY RedisAssumption
<1>2. \A k \in Keys, c \in ChunkIds :
        folded'[k][c] = IF k = d.key /\ c = d.chunk THEN 1 ELSE folded[k][c]
  BY ScriptBeforeTTL DEF HashInv, IInv, StoreInv
<1>3. ASSUME ~Claimed(d.key, d.chunk) PROVE folded[d.key][d.chunk] = 0
  <2>1. /\ claim[d.key][d.chunk] \in Nat /\ folded[d.key][d.chunk] \in Nat
        /\ now \in Nat /\ TTL \in Nat
    BY <1>1, StoreTypes DEF HashInv
  <2>2. claim[d.key][d.chunk] < TTL
    BY <1>3, <2>1 DEF Claimed
  <2>3. folded[d.key][d.chunk] > 0 => TTL <= claim[d.key][d.chunk]
    BY <1>1 DEF HashInv, IInv, StoreInv, ClaimsAreFolds
  <2>4. QED
    BY <2>1, <2>2, <2>3
<1>4. Hash(d.key) = agg[d.key]
  BY <1>1, HashIsAgg
<1>5. CASE ~Claimed(d.key, d.chunk) /\ Fold(d)
  BY <1>2, <1>3, <1>4, <1>5 DEF Fold, NewExpiry, FoldsIn
<1>6. QED
  BY <1>5 DEF ApplyChunkScript

\* The same of a step of the whole system.
LEMMA StepFolds ==
  ASSUME Horizon, HashInv, [Next]_vars
  PROVE  UNCHANGED <<claim, agg, folded>> \/ \E n \in Msgs : FoldsIn(Delta[n]) /\ now < TTL
BY StepIsScript, FoldBeforeTTL, FanInAssumption DEF HashInv

\* A fold adds its chunk to those of its hash and leaves the other hashes.
LEMMA FoldedAfter ==
  ASSUME HashInv, NEW n \in Msgs, FoldsIn(Delta[n])
  PROVE  /\ Delta[n].chunk \notin FoldedChunks(Delta[n].key)
         /\ FoldedChunks(Delta[n].key)' = FoldedChunks(Delta[n].key) \union {Delta[n].chunk}
         /\ \A k \in Keys \ {Delta[n].key} :
              agg'[k] = agg[k] /\ FoldedChunks(k)' = FoldedChunks(k)
         /\ agg'[Delta[n].key].expected = Delta[n].expected
         /\ agg'[Delta[n].key].completed = agg[Delta[n].key].completed + 1
         /\ agg'[Delta[n].key].counters = Plus(agg[Delta[n].key].counters, Delta[n].counters)
<1>1. Delta[n].key \in Keys /\ Delta[n].chunk \in ChunkIds
  BY FanInAssumption, RedisAssumption
<1>2. agg \in [Keys -> Aggregates]
  BY DEF HashInv, IInv, TypeOK, RedisTypeOK
<1>3. agg'[Delta[n].key] =
        [expected  |-> Delta[n].expected,
         completed |-> agg[Delta[n].key].completed + 1,
         counters  |-> Plus(agg[Delta[n].key].counters, Delta[n].counters),
         expires   |-> now + TTL]
  BY <1>1, <1>2 DEF FoldsIn
<1>4. \A k \in Keys \ {Delta[n].key} : agg'[k] = agg[k] /\ FoldedChunks(k)' = FoldedChunks(k)
  BY <1>1, <1>2 DEF FoldsIn, FoldedChunks
<1>5. /\ Delta[n].chunk \notin FoldedChunks(Delta[n].key)
      /\ FoldedChunks(Delta[n].key)' = FoldedChunks(Delta[n].key) \union {Delta[n].chunk}
  BY <1>1 DEF FoldsIn, FoldedChunks
<1>6. QED
  BY <1>3, <1>4, <1>5

\* Every step of the fan-in keeps what is known of the hashes.
LEMMA StepHashInv == ASSUME Horizon, HashInv, [Next]_vars PROVE HashInv'
<1>1. IInv'
  BY StepIInv DEF HashInv
<1>2. CASE UNCHANGED <<claim, agg, folded>>
  BY <1>1, <1>2 DEF HashInv, EmptyIsUnset, FoldedChunks
<1>3. ASSUME NEW n \in Msgs, FoldsIn(Delta[n]) PROVE EmptyIsUnset'
  BY <1>3, FoldedAfter DEF HashInv, EmptyIsUnset
<1>4. QED
  BY <1>1, <1>2, <1>3, StepFolds DEF HashInv

\* The count in the hash is the number of chunks counted, in every reachable state.
THEOREM HashInvariance == ASSUME Horizon PROVE Spec => []HashInv
<1>1. Init => HashInv
  BY InitIInv DEF HashInv, EmptyIsUnset, Init, RedisInit
<1>2. HashInv /\ [Next]_vars => HashInv'
  BY StepHashInv
<1>3. QED
  BY <1>1, <1>2, PTL DEF Spec

-----------------------------------------------------------------------------
\* One plan per aggregate.

\* Before anything is sent no aggregate has a plan.
LEMMA InitPlanInv == ASSUME Horizon, Init PROVE PlanInv
<1>1. HashInv
  BY InitIInv DEF HashInv, EmptyIsUnset, Init, RedisInit
<1>2. \A k \in Keys : FoldedChunks(k) = {} /\ agg[k].completed = 0
  BY DEF Init, RedisInit, NothingFolded, FoldedChunks, NoHash
<1>3. QED
  BY <1>1, <1>2, FS_EmptySet DEF PlanInv, CompletedCounts, FromOnePlan

\* Every step keeps the chunks of an aggregate in one plan.
LEMMA StepPlanInv ==
  ASSUME Horizon, OnePlanPerKey, PlanInv, [Next]_vars PROVE PlanInv'
<1>1. HashInv /\ HashInv'
  BY StepHashInv DEF PlanInv
<1>2. CASE UNCHANGED <<claim, agg, folded>>
  BY <1>1, <1>2 DEF PlanInv, CompletedCounts, FromOnePlan, FoldedChunks
<1>3. ASSUME NEW n \in Msgs, FoldsIn(Delta[n]) PROVE CompletedCounts' /\ FromOnePlan'
  <2>1. Delta[n].key \in Keys
    BY FanInAssumption, RedisAssumption
  <2>2. /\ Delta[n].chunk \notin FoldedChunks(Delta[n].key)
        /\ FoldedChunks(Delta[n].key)' = FoldedChunks(Delta[n].key) \union {Delta[n].chunk}
        /\ agg'[Delta[n].key].completed = agg[Delta[n].key].completed + 1
        /\ agg'[Delta[n].key].expected = Delta[n].expected
        /\ \A k \in Keys \ {Delta[n].key} : agg'[k] = agg[k] /\ FoldedChunks(k)' = FoldedChunks(k)
    BY <1>1, <1>3, FoldedAfter
  <2>3. Cardinality(FoldedChunks(Delta[n].key)') = Cardinality(FoldedChunks(Delta[n].key)) + 1
    BY <2>1, <2>2, FoldedFinite, FS_AddElement
  <2>4. \A k \in Keys : agg'[k].completed = Cardinality(FoldedChunks(k)')
    BY <2>1, <2>2, <2>3 DEF PlanInv, CompletedCounts
  <2>5. \A k \in Keys : \A c \in FoldedChunks(k)' : \E m \in Msgs :
          Delta[m].key = k /\ Delta[m].chunk = c /\ Delta[m].expected = agg'[k].expected
    <3> SUFFICES ASSUME NEW k \in Keys, NEW c \in FoldedChunks(k)'
                 PROVE  \E m \in Msgs : /\ Delta[m].key = k /\ Delta[m].chunk = c
                                        /\ Delta[m].expected = agg'[k].expected
      OBVIOUS
    <3>1. CASE k = Delta[n].key /\ c = Delta[n].chunk
      BY <2>2, <3>1
    <3>2. CASE k = Delta[n].key /\ c # Delta[n].chunk
      <4>1. PICK m \in Msgs : Delta[m].key = k /\ Delta[m].chunk = c
        BY <2>2, <3>2 DEF PlanInv, FromOnePlan
      <4>2. Delta[m].expected = Delta[n].expected
        BY <3>2, <4>1 DEF OnePlanPerKey
      <4>3. QED
        BY <2>2, <3>2, <4>1, <4>2
    <3>3. CASE k # Delta[n].key
      BY <2>2, <3>3 DEF PlanInv, FromOnePlan
    <3>4. QED
      BY <3>1, <3>2, <3>3
  <2>6. QED
    BY <2>4, <2>5 DEF CompletedCounts, FromOnePlan
<1>4. QED
  BY <1>1, <1>2, <1>3, StepFolds DEF PlanInv

\* All that is in an aggregate comes from one plan, in every reachable state.
THEOREM PlanInvariance == ASSUME Horizon, OnePlanPerKey PROVE Spec => []PlanInv
<1>1. Init => PlanInv
  BY InitPlanInv
<1>2. PlanInv /\ [Next]_vars => PlanInv'
  BY StepPlanInv
<1>3. QED
  BY <1>1, <1>2, PTL DEF Spec

\* The barrier is reached only by the whole plan: as many chunks as the plan has,
\* all of them of the plan, are all the chunks of the plan.
LEMMA ReachedIsWhole ==
  ASSUME PlanInv, NEW k \in Keys, BarrierReached(k)
  PROVE  /\ FoldedChunks(k) = 0..(agg[k].expected - 1)
         /\ \E m \in Msgs : Delta[m].key = k /\ Delta[m].expected = agg[k].expected
<1> DEFINE e == agg[k].expected
           Plan == 0..(e - 1)
<1>1. e \in Nat /\ e > 0 /\ agg[k].completed >= e
  BY DEF BarrierReached, PlanInv, HashInv, IInv, TypeOK, RedisTypeOK, Aggregates
<1>2. \A c \in FoldedChunks(k) : c \in Nat /\ c < e
  <2> SUFFICES ASSUME NEW c \in FoldedChunks(k) PROVE c \in Nat /\ c < e
    OBVIOUS
  <2>1. PICK m \in Msgs : Delta[m].chunk = c /\ Delta[m].expected = e
    BY DEF PlanInv, FromOnePlan
  <2>2. QED
    BY <2>1, NumbersOfResults
<1>3. FoldedChunks(k) \in SUBSET Plan
  BY <1>1, <1>2
<1>4. IsFiniteSet(Plan) /\ Cardinality(Plan) = e
  <2>1. 0 \in Int /\ e - 1 \in Int /\ ~(0 > e - 1) /\ (e - 1) - 0 + 1 = e
    BY <1>1
  <2>2. QED
    BY <2>1, FS_Interval
<1>5. Cardinality(FoldedChunks(k)) >= e
  BY <1>1 DEF PlanInv, CompletedCounts
<1>6. Cardinality(FoldedChunks(k)) <= e /\ Cardinality(FoldedChunks(k)) \in Nat
  BY <1>3, <1>4, FS_Subset, FS_CardinalityType
<1>7. Cardinality(FoldedChunks(k)) = Cardinality(Plan)
  BY <1>1, <1>4, <1>5, <1>6
<1>8. FoldedChunks(k) = Plan
  BY <1>3, <1>4, <1>7, FS_Subset
<1>9. 0 \in FoldedChunks(k)
  BY <1>1, <1>8
<1>10. QED
  BY <1>8, <1>9 DEF PlanInv, FromOnePlan

\* When the status endpoint says complete, the aggregate holds every chunk of the
\* plan exactly once, and no other.
THEOREM CompleteIsWhole ==
  ASSUME Horizon, OnePlanPerKey PROVE Spec => []CompleteIsWholePlan
<1>1. ASSUME PlanInv PROVE CompleteIsWholePlan
  <2> SUFFICES ASSUME NEW k \in Keys, Complete(k), NEW c \in ChunkIds
               PROVE  folded[k][c] = IF c < agg[k].expected THEN 1 ELSE 0
    BY DEF CompleteIsWholePlan
  <2>1. FoldedChunks(k) = 0..(agg[k].expected - 1)
    BY <1>1, ReachedIsWhole DEF Complete
  <2>2. c \in Nat /\ agg[k].expected \in Nat /\ folded[k][c] \in Nat
    BY <1>1, FanInAssumption DEF PlanInv, HashInv, IInv, TypeOK, RedisTypeOK, Aggregates
  <2>3. folded[k][c] <= 1
    BY <1>1 DEF PlanInv, HashInv, IInv, StoreInv, AppliedOnce
  <2>4. folded[k][c] > 0 <=> c < agg[k].expected
    BY <2>1, <2>2 DEF FoldedChunks
  <2>5. QED
    BY <2>2, <2>3, <2>4
<1>2. QED
  BY <1>1, PlanInvariance, PTL

\* A published complete result is final: no late worker, duplicate or orphaned
\* EVAL changes the hash.
THEOREM CompleteStays ==
  ASSUME Horizon, OnePlanPerKey PROVE Spec => CompleteIsFinal
<1>1. ASSUME PlanInv, [Next]_vars, NEW k \in Keys, Complete(k) PROVE agg'[k] = agg[k]
  <2>1. /\ FoldedChunks(k) = 0..(agg[k].expected - 1)
        /\ \E m \in Msgs : Delta[m].key = k /\ Delta[m].expected = agg[k].expected
    BY <1>1, ReachedIsWhole DEF Complete
  <2>2. ASSUME NEW n \in Msgs, FoldsIn(Delta[n]) PROVE Delta[n].key # k
    <3>1. Delta[n].chunk \notin FoldedChunks(Delta[n].key)
      BY <1>1, <2>2, FoldedAfter DEF PlanInv
    <3>2. Delta[n].chunk \in Nat /\ Delta[n].chunk < Delta[n].expected /\ Delta[n].expected \in Nat
      BY NumbersOfResults
    <3>3. Delta[n].key = k => Delta[n].expected = agg[k].expected
      BY <2>1 DEF OnePlanPerKey
    <3>4. QED
      BY <2>1, <3>1, <3>2, <3>3
  <2>3. QED
    BY <1>1, <2>2, StepFolds, FoldedAfter DEF PlanInv
<1>2. PlanInv /\ [Next]_vars => [\A k \in Keys : Complete(k) => agg'[k] = agg[k]]_vars
  BY <1>1
<1>3. QED
  BY <1>2, PlanInvariance, PTL DEF Spec, CompleteIsFinal

-----------------------------------------------------------------------------
\* What is published is a sum.

\* The results in the hash, among those that any message can give.
Parts(k) == {d \in {Delta[m] : m \in Msgs} : d.key = k /\ folded[k][d.chunk] > 0}

\* The counters are the sum of the parts, expired or not.
SumsUp ==
  \A k \in Keys : /\ IsFiniteSet(Parts(k))
                  /\ agg[k].counters = Merged([d \in Parts(k) |-> d.counters], Parts(k))
                  /\ agg[k].completed = Cardinality(Parts(k))

SumInv == PlanInv /\ SumsUp

\* Before anything is sent there is nothing to add up.
LEMMA InitSumInv == ASSUME Horizon, Init PROVE SumInv
<1>1. \A k \in Keys : Parts(k) = {} /\ agg[k] = NoHash
  BY FanInAssumption, RedisAssumption DEF Init, RedisInit, NothingFolded, Parts
<1>2. SumsUp
  BY <1>1, MergedOfNone, FS_EmptySet DEF SumsUp, NoHash
<1> QED  BY <1>2, InitPlanInv DEF SumInv

\* A fold adds one part, which was not there: a chunk has one result (OnePlanPerKey).
LEMMA FoldAddsPart ==
  ASSUME OnePlanPerKey, PlanInv, NEW n \in Msgs, FoldsIn(Delta[n])
  PROVE  /\ Delta[n] \notin Parts(Delta[n].key)
         /\ Parts(Delta[n].key)' = Parts(Delta[n].key) \union {Delta[n]}
         /\ \A k \in Keys \ {Delta[n].key} : Parts(k)' = Parts(k)
<1> DEFINE k == Delta[n].key
<1>1. \A m \in Msgs : Delta[m].key \in Keys /\ Delta[m].chunk \in ChunkIds
  BY FanInAssumption, RedisAssumption
<1>2. /\ folded[k][Delta[n].chunk] = 0
      /\ \A j \in Keys, c \in ChunkIds :
           folded'[j][c] = IF j = k /\ c = Delta[n].chunk THEN 1 ELSE folded[j][c]
  BY DEF FoldsIn
<1>3. Delta[n] \notin Parts(k)
  BY <1>2 DEF Parts
<1>4. Parts(k)' = Parts(k) \union {Delta[n]}
  <2>1. ASSUME NEW m \in Msgs, Delta[m].key = k
        PROVE  folded'[k][Delta[m].chunk] > 0
                 <=> folded[k][Delta[m].chunk] > 0 \/ Delta[m] = Delta[n]
    <3>1. CASE Delta[m].chunk = Delta[n].chunk
      <4>1. Delta[m] = Delta[n]
        BY <2>1, <3>1 DEF OnePlanPerKey
      <4> QED  BY <1>1, <1>2, <4>1
    <3>2. CASE Delta[m].chunk # Delta[n].chunk
      BY <1>1, <1>2, <3>2
    <3> QED  BY <3>1, <3>2
  <2> QED  BY <2>1 DEF Parts
<1>5. \A j \in Keys \ {k} : Parts(j)' = Parts(j)
  BY <1>1, <1>2 DEF Parts
<1> QED  BY <1>3, <1>4, <1>5

\* Every step keeps the counters of an aggregate the sum of its chunks.
LEMMA StepSumInv ==
  ASSUME Horizon, OnePlanPerKey, SumInv, [Next]_vars PROVE SumInv'
<1>1. PlanInv /\ PlanInv' /\ HashInv
  BY StepPlanInv DEF SumInv, PlanInv
<1>2. CASE UNCHANGED <<claim, agg, folded>>
  BY <1>1, <1>2 DEF SumInv, SumsUp, Parts
<1>3. ASSUME NEW n \in Msgs, FoldsIn(Delta[n]) PROVE SumsUp'
  <2> DEFINE k == Delta[n].key
             P == Parts(k)
             R == [d \in P |-> d.counters]
             Q == [d \in P \union {Delta[n]} |-> d.counters]
  <2>1. k \in Keys /\ Delta[n].counters \in Counters /\ \A d \in P : d.counters \in Counters
    BY FanInAssumption, RedisAssumption DEF Parts
  <2>2. /\ Delta[n] \notin P /\ P' = P \union {Delta[n]}
        /\ \A j \in Keys \ {k} : Parts(j)' = Parts(j) /\ agg'[j] = agg[j]
        /\ agg'[k].completed = agg[k].completed + 1
        /\ agg'[k].counters = Plus(agg[k].counters, Delta[n].counters)
    BY <1>1, <1>3, FoldAddsPart, FoldedAfter
  <2>3. /\ IsFiniteSet(P) /\ agg[k].counters = Merged(R, P)
        /\ agg[k].completed = Cardinality(P)
    BY <2>1 DEF SumInv, SumsUp
  <2>4. /\ IsFiniteSet(P \union {Delta[n]})
        /\ Cardinality(P \union {Delta[n]}) = Cardinality(P) + 1
    <3> HIDE DEF P
    <3> QED  BY <2>2, <2>3, FS_AddElement
  <2>5. agg'[k].counters = Merged(Q, P \union {Delta[n]})
    <3>1. /\ \A d \in P : R[d] \in Counters /\ Q[d] = R[d]
          /\ Q[Delta[n]] = Delta[n].counters /\ Q[Delta[n]] \in Counters
      BY <2>1
    <3> HIDE DEF P, Q, R
    <3>2. Merged(Q, P \union {Delta[n]}) = Plus(Merged(R, P), Q[Delta[n]])
      BY <2>2, <2>3, <3>1, MergedAdd
    <3> QED  BY <2>2, <2>3, <3>1, <3>2
  <2>6. agg'[k].counters = Merged([d \in P' |-> d.counters], P')
    BY <2>2, <2>5
  <2>7. \A j \in Keys \ {k} :
          /\ IsFiniteSet(Parts(j)') /\ agg'[j].completed = Cardinality(Parts(j)')
          /\ agg'[j].counters = Merged([d \in Parts(j)' |-> d.counters], Parts(j)')
    BY <2>2 DEF SumInv, SumsUp
  <2>8. /\ IsFiniteSet(Parts(k)') /\ agg'[k].completed = Cardinality(Parts(k)')
        /\ agg'[k].counters = Merged([d \in Parts(k)' |-> d.counters], Parts(k)')
    BY <2>2, <2>3, <2>4, <2>6
  <2> HIDE DEF k
  <2> QED  BY <2>7, <2>8 DEF SumsUp
<1> QED  BY <1>1, <1>2, <1>3, StepFolds DEF SumInv

\* At any moment, whatever was redelivered, orphaned or crashed, the counters that
\* the status endpoint divides are the sum of the results of the folded chunks and
\* their number is the completed count (apply_chunk.lua, status-lambda main.go).
THEOREM PublishedIsASum ==
  ASSUME Horizon, OnePlanPerKey PROVE Spec => []CountersAreTheSum
<1>1. Init => SumInv
  BY InitSumInv
<1>2. SumInv /\ [Next]_vars => SumInv'
  BY StepSumInv
<1>3. SumInv => CountersAreTheSum
  BY DEF SumInv, SumsUp, Parts, CountersAreTheSum
<1> QED  BY <1>1, <1>2, <1>3, PTL DEF Spec

-----------------------------------------------------------------------------
\* The fan-in implements the abstract barrier.

\* Queue, workers and store together count as ChunkBarrier does: a script run that
\* folds is a Count, every other step leaves the totals alone.
THEOREM FanInImplementsBarrier == ASSUME Horizon PROVE Spec => ImplementsBarrier
<1> DEFINE counted == [k \in Keys |-> {c \in ChunkIds : folded[k][c] > 0}]
           total == [k \in Keys |-> agg[k].counters]
<1>1. Init => Barrier!BarrierInit
  BY DEF Init, RedisInit, NothingFolded, NoHash, Barrier!BarrierInit, Barrier!ZeroCounters,
         Barrier!Fields, ZeroCounters, Fields
<1>2. HashInv /\ [Next]_vars => [Barrier!BarrierNext]_Barrier!barrierVars
  <2> SUFFICES ASSUME HashInv, [Next]_vars PROVE [Barrier!BarrierNext]_Barrier!barrierVars
    OBVIOUS
  <2>1. CASE UNCHANGED <<claim, agg, folded>>
    BY <2>1 DEF Barrier!barrierVars
  <2>2. ASSUME NEW n \in Msgs, FoldsIn(Delta[n]) PROVE Barrier!Count(Delta[n])
    <3>1. Delta[n] \in Deltas /\ Delta[n].key \in Keys /\ Delta[n].chunk \in ChunkIds
      BY FanInAssumption, RedisAssumption
    <3>2. /\ Delta[n].chunk \notin FoldedChunks(Delta[n].key)
          /\ FoldedChunks(Delta[n].key)' = FoldedChunks(Delta[n].key) \union {Delta[n].chunk}
          /\ agg'[Delta[n].key].counters = Plus(agg[Delta[n].key].counters, Delta[n].counters)
          /\ \A k \in Keys \ {Delta[n].key} : agg'[k] = agg[k] /\ FoldedChunks(k)' = FoldedChunks(k)
      BY <2>2, FoldedAfter
    <3>3. Delta[n].chunk \notin counted[Delta[n].key]
      BY <3>1, <3>2 DEF FoldedChunks
    <3>4. counted' = [counted EXCEPT ![Delta[n].key] = @ \union {Delta[n].chunk}]
      BY <3>1, <3>2 DEF FoldedChunks
    <3>5. total' = [total EXCEPT ![Delta[n].key] = Plus(@, Delta[n].counters)]
      BY <3>1, <3>2
    <3>6. QED
      BY <3>3, <3>4, <3>5 DEF Barrier!Count, Barrier!Plus, Plus, Barrier!Fields, Fields
  <2>3. QED
    BY <2>1, <2>2, StepFolds, FanInAssumption DEF Barrier!BarrierNext
<1>3. QED
  BY <1>1, <1>2, HashInvariance, PTL DEF Spec, ImplementsBarrier, Barrier!BarrierSpec

=============================================================================
