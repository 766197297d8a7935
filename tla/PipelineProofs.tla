--------------------------- MODULE PipelineProofs ---------------------------
(***************************************************************************)
(* Proofs about Ingestion, for every number of executions that race, every *)
(* set of requests, stale reads and expiring sessions included; and, for   *)
(* requests that come one after the other, about the plans of one hand.    *)
(* Then about Pipeline: what ingestion proves of its messages is what a    *)
(* worker asks of them, and what a worker stores is part of one plan.      *)
(***************************************************************************)
EXTENDS Pipeline, ArithmeticProofs

Types == /\ session \in [Hands -> Plans \union {NoSession}]
         /\ previous \in [Hands -> Plans \union {NoSession}]
         /\ written \subseteq Plans /\ accepted \subseteq Plans
         /\ issued \subseteq UUIDs /\ requests \in 0..MaxRequests
         /\ stage \in [Executions -> {"idle", "read", "put", "enqueue"}]
         /\ hand \in [Executions -> Hands \union {NoHand}]
         /\ asked \in [Executions -> Bodies \union {Absent}]
         /\ plan \in [Executions -> Plans \union {NoSession}]
         /\ next \in [Executions -> Nat]

\* A request that is being served has a hand and a body, and begins its plan at the
\* first chunk.
RequestsKnown ==
  \A e \in Executions : /\ stage[e] # "idle" => hand[e] \in Hands /\ asked[e] \in Bodies
                        /\ stage[e] # "enqueue" => next[e] = 0

\* What is written or about to be was validated, by whichever session it was read.
WrittenIsValid == \A p \in written : Valid(p)

PlanIsValid ==
  \A e \in Executions : stage[e] \in {"put", "enqueue"} => plan[e] \in Plans /\ Valid(plan[e])

\* An execution between two batches has stored its plan, and all before "next" is sent.
EnqueuedSoFar ==
  \A e \in Executions : stage[e] = "enqueue" =>
    /\ plan[e] \in written
    /\ \A c \in 0..(Least(next[e], Count(plan[e])) - 1) : Message(plan[e], c) \in sent

IInv == /\ Types /\ RequestsKnown /\ WrittenIsValid /\ PlanIsValid
        /\ EnqueuedSoFar /\ WorkHasSession /\ AcceptedIsQueued

-----------------------------------------------------------------------------

\* A valid plan has a first chunk.
LEMMA CountType ==
  ASSUME NEW p \in Plans, Valid(p)
  PROVE  /\ Count(p) \in Nat \ {0}
         /\ p.settings["total_iterations"] \in Nat \ {0}
         /\ p.settings["iterations_per_chunk"] \in Nat \ {0}
<1>1. /\ p.settings["total_iterations"] \in Int /\ p.settings["total_iterations"] > 0
      /\ p.settings["iterations_per_chunk"] \in Int /\ p.settings["iterations_per_chunk"] > 0
  BY DEF Plans, Settings, SettingNames, Valid, ValidSettings
<1> QED  BY <1>1, RoundingUp DEF Count

\* The first conditions of validate_cards.
LEMMA CardsBounded ==
  ASSUME NEW hero, NEW board, ValidCards(hero, board)
  PROVE  Len(hero) = 2 /\ Len(board) <= 5
<1> DEFINE distinct == LET cards == hero \o board
                       IN  /\ \A i \in DOMAIN cards : cards[i] \in Deck
                           /\ \A i, j \in DOMAIN cards : cards[i] = cards[j] => i = j
<1>1. ValidCards(hero, board) = (Len(hero) = 2 /\ Len(board) <= 5 /\ distinct)
  BY Zenon DEF ValidCards
<1> HIDE DEF distinct
<1> QED  BY <1>1

\* The cards of a hand that validate_cards lets pass are cards of the deck.
LEMMA CardsType ==
  ASSUME NEW S, NEW T, NEW hero \in Seq(S), NEW board \in Seq(T), ValidCards(hero, board)
  PROVE  hero \in Cards /\ board \in Cards
<1>1. \A i \in DOMAIN hero : hero[i] \in Deck
  <2> SUFFICES ASSUME NEW i \in DOMAIN hero PROVE hero[i] \in Deck  OBVIOUS
  <2>1. i \in DOMAIN (hero \o board) /\ (hero \o board)[i] = hero[i]  OBVIOUS
  <2> QED  BY <2>1 DEF ValidCards
<1>2. \A i \in DOMAIN board : board[i] \in Deck
  <2> SUFFICES ASSUME NEW i \in DOMAIN board PROVE board[i] \in Deck  OBVIOUS
  <2>1. /\ Len(hero) + i \in DOMAIN (hero \o board)
        /\ (hero \o board)[Len(hero) + i] = board[i]
    OBVIOUS
  <2> QED  BY <2>1 DEF ValidCards
<1> QED  BY <1>1, <1>2 DEF Cards

\* A request that is let through becomes a plan, from its own values, the session's
\* and the defaults.
LEMMA ResolvedType ==
  ASSUME NEW h \in Hands, NEW body \in Bodies, NEW existing \in Plans \union {NoSession},
         Continues(body, existing), Valid(Resolved(h, body, existing))
  PROVE  Resolved(h, body, existing) \in Plans
<1> DEFINE p == Resolved(h, body, existing)
<1>1. \E S : p.hero \in Seq(S)
  <2>1. CASE body.hero = Absent
    BY <2>1 DEF Resolved, Continues, Plans, Cards
  <2>2. CASE body.hero # Absent
    BY <2>2, IngestionAssumption DEF Resolved, IsList
  <2> QED  BY <2>1, <2>2
<1>2. \E T : p.board \in Seq(T)
  <2>1. CASE body.board = Absent
    <3>1. <<>> \in Seq(Deck)  OBVIOUS
    <3> QED  BY <2>1, <3>1 DEF Resolved, Plans, Cards
  <2>2. CASE body.board # Absent
    BY <2>2, IngestionAssumption DEF Resolved, IsList
  <2> QED  BY <2>1, <2>2
<1>3. p.hero \in Cards /\ p.board \in Cards
  <2>1. PICK S : p.hero \in Seq(S)  BY <1>1
  <2>2. PICK T : p.board \in Seq(T)  BY <1>2
  <2> QED  BY <2>1, <2>2, CardsType DEF Valid
<1>4. p.settings \in Settings
  <2>1. \A f \in SettingNames : ResolveSetting(body, existing, f) \in Int
    BY IngestionAssumption DEF ResolveSetting, Plans, Settings
  <2> QED  BY <2>1 DEF Resolved, Settings
<1> QED  BY <1>3, <1>4 DEF Resolved, Plans

\* The entries of a batch are messages of the plan.
LEMMA BatchIsPlanned ==
  ASSUME Types, PlanIsValid, NEW e \in Executions, stage[e] = "enqueue"
  PROVE  Batch(e) \subseteq Messages(plan[e])
<1>1. Count(plan[e]) \in Nat /\ next[e] \in Nat /\ MaxEntries \in Nat
  BY CountType, IngestionAssumption DEF Types, PlanIsValid
<1>2. next[e]..(Least(next[e] + MaxEntries, Count(plan[e])) - 1) \subseteq 0..(Count(plan[e]) - 1)
  BY <1>1 DEF Least
<1> QED  BY <1>2 DEF Batch, Messages

-----------------------------------------------------------------------------

\* Nothing is written, sent or under way at the start.
LEMMA InitIInv == Init => IInv
<1> SUFFICES ASSUME Init PROVE IInv  OBVIOUS
<1>1. Types  BY IngestionAssumption DEF Init, Types
<1> QED  BY <1>1 DEF Init, IInv, RequestsKnown, WrittenIsValid, PlanIsValid, EnqueuedSoFar,
                     WorkHasSession, AcceptedIsQueued

\* The request under way ends with nothing else changed: a refusal, a call that
\* raises, an execution that is killed.
LEMMA ReturnIInv ==
  ASSUME IInv, NEW e \in Executions, Return(e), UNCHANGED <<table, history, sent>>,
         accepted' = accepted
  PROVE  IInv'
<1>1. Types'
  BY DEF IInv, Types, Return, table, history
<1> QED
  BY <1>1 DEF IInv, Types, RequestsKnown, WrittenIsValid, PlanIsValid, EnqueuedSoFar,
              WorkHasSession, AcceptedIsQueued, Return, table, history

\* A request that arrives starts with a hand and a body.
LEMMA ReceiveIInv ==
  ASSUME IInv, NEW e \in Executions, NEW body \in Bodies, Receive(e, body)
  PROVE  IInv'
<1>1. Types'
  BY IngestionAssumption DEF IInv, Types, Receive, table
<1>2. RequestsKnown'
  BY DEF IInv, Types, RequestsKnown, Receive
<1> QED
  BY <1>1, <1>2 DEF IInv, Types, WrittenIsValid, PlanIsValid, EnqueuedSoFar,
              WorkHasSession, AcceptedIsQueued, Receive, table

\* Whatever session was read, stale or gone, only a valid plan gets past it.
LEMMA ReadSessionIInv ==
  ASSUME IInv, NEW e \in Executions, ReadSession(e)
  PROVE  IInv'
<1>1. hand[e] \in Hands /\ asked[e] \in Bodies
  BY DEF IInv, RequestsKnown, ReadSession
<1>2. PICK existing \in Readable(hand[e]) :
        LET resolved == Resolved(hand[e], asked[e], existing)
        IN  \/ /\ Continues(asked[e], existing) /\ Valid(resolved)
               /\ plan' = [plan EXCEPT ![e] = resolved]
               /\ stage' = [stage EXCEPT ![e] = AfterResolve]
               /\ UNCHANGED <<hand, asked, next>>
            \/ Return(e)
  BY DEF ReadSession, IsPlanned
<1>3. existing \in Plans \union {NoSession}
  BY <1>1, <1>2 DEF Readable, IInv, Types
<1> DEFINE resolved == Resolved(hand[e], asked[e], existing)
<1>4. CASE /\ Continues(asked[e], existing) /\ Valid(resolved)
           /\ plan' = [plan EXCEPT ![e] = resolved]
           /\ stage' = [stage EXCEPT ![e] = AfterResolve]
           /\ UNCHANGED <<hand, asked, next>>
  <2>1. resolved \in Plans /\ Valid(resolved)
    BY <1>1, <1>3, <1>4, ResolvedType
  <2> HIDE DEF resolved
  <2>2. Types'
    BY <1>4, <2>1 DEF IInv, Types, ReadSession, table, history, AfterResolve
  <2>3. PlanIsValid'
    BY <1>4, <2>1 DEF IInv, Types, PlanIsValid, AfterResolve
  <2>4. EnqueuedSoFar'
    BY <1>4 DEF IInv, Types, EnqueuedSoFar, ReadSession, table, AfterResolve
  <2>5. RequestsKnown'
    BY <1>1, <1>4 DEF IInv, Types, RequestsKnown, ReadSession, AfterResolve
  <2>6. UNCHANGED <<written, sent, accepted>>
    BY DEF ReadSession, table
  <2> QED
    BY <2>2, <2>3, <2>4, <2>5, <2>6 DEF IInv, WrittenIsValid, WorkHasSession, AcceptedIsQueued
<1>5. CASE Return(e)
  BY <1>5, ReturnIInv DEF ReadSession
<1> QED  BY <1>2, <1>4, <1>5

\* The plan is written before its first batch, whoever wrote the item meanwhile.
LEMMA PutSessionIInv ==
  ASSUME IInv, NEW e \in Executions, PutSession(e)
  PROVE  IInv'
<1>1. plan[e] \in Plans /\ Valid(plan[e]) /\ hand[e] \in Hands
  BY DEF IInv, PlanIsValid, RequestsKnown, PutSession
<1>2. Types'
  BY <1>1 DEF IInv, Types, PutSession, history
<1>3. EnqueuedSoFar'
  <2>1. next[e] = 0 /\ Count(plan[e]) \in Nat
    BY <1>1, CountType DEF IInv, RequestsKnown, PutSession
  <2>2. 0..(Least(next[e], Count(plan[e])) - 1) = {}
    BY <2>1 DEF Least
  <2> QED
    BY <2>2 DEF IInv, Types, EnqueuedSoFar, PutSession
<1> QED
  BY <1>1, <1>2, <1>3 DEF IInv, Types, RequestsKnown, WrittenIsValid, PlanIsValid,
     WorkHasSession, AcceptedIsQueued, PutSession

\* A batch that goes through moves "next" over exactly the chunks it sent.
LEMMA SendBatchIInv ==
  ASSUME IInv, NEW e \in Executions, SendBatch(e)
  PROVE  IInv'
<1>1. /\ stage[e] = "enqueue" /\ plan[e] \in written /\ Batch(e) \subseteq Messages(plan[e])
      /\ Count(plan[e]) \in Nat /\ next[e] \in Nat /\ MaxEntries \in Nat
  BY BatchIsPlanned, CountType, IngestionAssumption
     DEF IInv, Types, PlanIsValid, EnqueuedSoFar, SendBatch
<1>2. PICK lost \in SUBSET Batch(e) :
        /\ sent' = sent \union (Batch(e) \ lost)
        /\ \/ /\ NoneFailed(e, lost)
              /\ next' = [next EXCEPT ![e] = @ + MaxEntries]
              /\ UNCHANGED <<stage, hand, asked, plan>>
           \/ /\ ~NoneFailed(e, lost)
              /\ Return(e)
  BY DEF SendBatch
<1>3. sent \subseteq sent' /\ UNCHANGED <<table, history, accepted>>
  BY <1>2 DEF SendBatch
<1>4. Types' /\ RequestsKnown' /\ WrittenIsValid' /\ PlanIsValid'
  <2>1. CASE Return(e)
    BY <1>3, <2>1 DEF IInv, Types, RequestsKnown, WrittenIsValid, PlanIsValid, Return, table, history
  <2>2. CASE /\ next' = [next EXCEPT ![e] = @ + MaxEntries]
             /\ UNCHANGED <<stage, hand, asked, plan>>
    BY <1>1, <1>3, <2>2
       DEF IInv, Types, RequestsKnown, WrittenIsValid, PlanIsValid, table, history
  <2> QED  BY <1>2, <2>1, <2>2
<1>5. WorkHasSession' /\ AcceptedIsQueued'
  BY <1>1, <1>2, <1>3 DEF IInv, WorkHasSession, AcceptedIsQueued, table
<1>6. EnqueuedSoFar'
  <2>1. CASE Return(e)
    BY <1>3, <2>1 DEF IInv, Types, EnqueuedSoFar, Return, table
  <2>2. CASE /\ NoneFailed(e, lost)
             /\ next' = [next EXCEPT ![e] = @ + MaxEntries]
             /\ UNCHANGED <<stage, hand, asked, plan>>
    <3>1. Batch(e) \subseteq sent'
      BY <1>2, <2>2 DEF NoneFailed
    <3>2. next'[e] = next[e] + MaxEntries /\ plan'[e] = plan[e]
      BY <2>2 DEF IInv, Types
    <3>3. ASSUME NEW c \in 0..(Least(next'[e], Count(plan[e])) - 1)
          PROVE  Message(plan[e], c) \in sent'
      <4>1. CASE c < next[e]
        <5>1. c \in 0..(Least(next[e], Count(plan[e])) - 1)
          BY <1>1, <3>2, <4>1 DEF Least
        <5> QED  BY <1>1, <1>3, <5>1 DEF IInv, EnqueuedSoFar
      <4>2. CASE c >= next[e]
        <5>1. c \in next[e]..(Least(next[e] + MaxEntries, Count(plan[e])) - 1)
          BY <1>1, <3>2, <4>2 DEF Least
        <5> QED  BY <3>1, <5>1 DEF Batch
      <4> QED  BY <1>1, <4>1, <4>2
    <3>4. \A x \in Executions : x # e => next'[x] = next[x]
      BY <2>2 DEF IInv, Types
    <3> QED
      BY <1>1, <1>3, <2>2, <3>2, <3>3, <3>4 DEF IInv, EnqueuedSoFar, table
  <2> QED  BY <1>2, <2>1, <2>2
<1> QED  BY <1>4, <1>5, <1>6 DEF IInv

\* The loop ends when "next" has passed the last chunk, and then all are sent.
LEMMA AcceptIInv ==
  ASSUME IInv, NEW e \in Executions, Accept(e)
  PROVE  IInv'
<1>1. plan[e] \in Plans /\ plan[e] \in written /\ Count(plan[e]) \in Nat
  BY CountType DEF IInv, PlanIsValid, EnqueuedSoFar, Accept
<1>2. Least(next[e], Count(plan[e])) = Count(plan[e])
  BY <1>1 DEF Accept, Least, IInv, Types
<1>3. Messages(plan[e]) \subseteq sent
  BY <1>2 DEF Messages, IInv, EnqueuedSoFar, Accept
<1>4. accepted' = accepted \union {plan[e]} /\ Return(e) /\ UNCHANGED <<table, history, sent>>
  BY DEF Accept
<1>5. Types'
  BY <1>1, <1>4 DEF IInv, Types, Return, table, history
<1>6. AcceptedIsQueued'
  BY <1>3, <1>4 DEF IInv, AcceptedIsQueued
<1> QED
  BY <1>4, <1>5, <1>6 DEF IInv, Types, RequestsKnown, WrittenIsValid, PlanIsValid, EnqueuedSoFar,
     WorkHasSession, Return, table

\* An item that expires takes nothing back from the queue.
LEMMA ExpireIInv ==
  ASSUME IInv, NEW h \in Hands, Expire(h)
  PROVE  IInv'
<1>1. Types'
  BY DEF IInv, Types, Expire, history, locals
<1> QED
  BY <1>1 DEF IInv, RequestsKnown, WrittenIsValid, PlanIsValid, EnqueuedSoFar,
     WorkHasSession, AcceptedIsQueued, Expire, locals

\* Every step keeps the invariant.
LEMMA NextIInv == IInv /\ [Next]_vars => IInv'
<1> SUFFICES ASSUME IInv, [Next]_vars PROVE IInv'  OBVIOUS
<1>1. ASSUME NEW e \in Executions, NEW body \in Bodies, Receive(e, body) PROVE IInv'
  BY <1>1, ReceiveIInv
<1>2. ASSUME NEW e \in Executions, ReadSession(e) PROVE IInv'
  BY <1>2, ReadSessionIInv
<1>3. ASSUME NEW e \in Executions, PutSession(e) PROVE IInv'
  BY <1>3, PutSessionIInv
<1>4. ASSUME NEW e \in Executions, SendBatch(e) PROVE IInv'
  BY <1>4, SendBatchIInv
<1>5. ASSUME NEW e \in Executions, Accept(e) PROVE IInv'
  BY <1>5, AcceptIInv
<1>6. ASSUME NEW e \in Executions, Abort(e) PROVE IInv'
  BY <1>6, ReturnIInv DEF Abort
<1>7. ASSUME NEW h \in Hands, Expire(h) PROVE IInv'
  BY <1>7, ExpireIInv
<1>8. CASE UNCHANGED vars
  BY <1>8 DEF IInv, Types, RequestsKnown, WrittenIsValid, PlanIsValid, EnqueuedSoFar,
     WorkHasSession, AcceptedIsQueued, vars, table, history, locals
<1> QED
  BY <1>1, <1>2, <1>3, <1>4, <1>5, <1>6, <1>7, <1>8 DEF Next, Finished

\* The inductive invariant holds in every reachable state of the ingestion Lambda.
THEOREM IngestionInvariance == Spec => []IInv
<1> QED  BY InitIInv, NextIInv, PTL DEF Spec

-----------------------------------------------------------------------------

\* A message on the queue was cut from a valid plan: its numbers are in range.
LEMMA SentIsValid ==
  ASSUME IInv, NEW m \in sent
  PROVE  \E p \in Plans : /\ Valid(p)
                         /\ \E c \in 0..(Count(p) - 1) : m = Message(p, c)
BY DEF IInv, Types, WrittenIsValid, WorkHasSession, Messages

\* Every size of chunk is positive, for the plan of a message.
LEMMA MessageType ==
  ASSUME NEW p \in Plans, Valid(p), NEW c \in 0..(Count(p) - 1)
  PROVE  /\ Message(p, c).chunk \in 0..(Message(p, c).expected - 1)
         /\ Message(p, c).iterations > 0
         /\ Message(p, c).version \in 0..5
         /\ Message(p, c).opponents > 0
<1>1. ChunkSize(p.settings["total_iterations"], p.settings["iterations_per_chunk"], c) > 0
  BY CountType, ChunkIsPositive DEF Count
<1>2. Len(p.board) \in 0..5
  <2>1. p.board \in Seq(Deck)  BY DEF Plans, Cards
  <2>2. Len(p.board) \in Nat  BY <2>1
  <2>3. ValidCards(p.hero, p.board)  BY DEF Valid
  <2>4. Len(p.board) <= 5  BY <2>3, CardsBounded
  <2> DEFINE n == Len(p.board)
  <2>5. n \in Nat /\ n <= 5  BY <2>2, <2>4
  <2> HIDE DEF n
  <2>6. n \in 0..5  BY <2>5
  <2> QED  BY <2>6 DEF n
<1>3. p.settings["opponents"] > 0
  BY DEF Valid, ValidSettings
<1> QED  BY <1>1, <1>2, <1>3 DEF Message

\* The table, the queue and every execution keep their types, and no message has a
\* number that a worker would refuse, whatever requests race (app.py 37-101).
THEOREM IngestionTypeCorrect == Spec => []TypeOK
<1>1. IInv => TypeOK
  <2> SUFFICES ASSUME IInv PROVE TypeOK  OBVIOUS
  <2>1. \A m \in sent : /\ m.chunk \in 0..(m.expected - 1) /\ m.iterations > 0
                       /\ m.version \in 0..5 /\ m.opponents > 0
    BY SentIsValid, MessageType
  <2> QED  BY <2>1 DEF IInv, Types, TypeOK
<1> QED  BY <1>1, IngestionInvariance, PTL

\* 202 is a promise kept, for any number of executions and whatever fails (app.py
\* 228-235).
THEOREM AcceptedStaysQueued == Spec => []AcceptedIsQueued
<1>1. IInv => AcceptedIsQueued  BY DEF IInv
<1> QED  BY <1>1, IngestionInvariance, PTL

\* No message without its stored session, for any number of executions (app.py 78-91).
THEOREM WorkFollowsSession == Spec => []WorkHasSession
<1>1. IInv => WorkHasSession  BY DEF IInv
<1> QED  BY <1>1, IngestionInvariance, PTL

-----------------------------------------------------------------------------
(***************************************************************************)
(* One request after the other: what FanIn asks of its producer.           *)
(***************************************************************************)

\* Plan p continues plan q of the same hand.
Follows(p, q) == p.hero = q.hero /\ p.settings = q.settings /\ Extends(p.board, q.board)

\* The item of a hand is the newest of what was ever written for it.
SessionIsNewest ==
  \A p \in written : session[p.hand] # NoSession /\ Follows(session[p.hand], p)

\* An id that uuid4 may still return has no item.
IdsAreIssued ==
  /\ \A h \in UUIDs : session[h] # NoSession => h \in issued
  /\ \A e \in Executions : (stage[e] # "idle" /\ hand[e] \in UUIDs) => hand[e] \in issued
  /\ \A e \in Executions :
       (stage[e] = "read" /\ asked[e].hand = NoHand) => session[hand[e]] = NoSession

\* What is about to be written continues what it will replace.
PlanFollows ==
  \A e \in Executions :
    /\ stage[e] \in {"put", "enqueue"} => plan[e].hand = hand[e]
    /\ (stage[e] = "put" /\ session[hand[e]] # NoSession) => Follows(plan[e], session[hand[e]])

OneInv == IInv /\ SessionIsNewest /\ IdsAreIssued /\ PlanFollows

-----------------------------------------------------------------------------

\* Extends compares card by card.
LEMMA ExtendsPointwise ==
  ASSUME NEW a \in Cards, NEW b \in Cards
  PROVE  Extends(a, b) <=> Len(b) <= Len(a) /\ \A i \in 1..Len(b) : a[i] = b[i]
<1>1. Len(a) \in Nat /\ Len(b) \in Nat
  BY DEF Cards
<1>2. ASSUME Len(b) <= Len(a), \A i \in 1..Len(b) : a[i] = b[i]
      PROVE  SubSeq(a, 1, Len(b)) = b
  <2>1. SubSeq(a, 1, Len(b)) = [i \in 1..Len(b) |-> a[i]]
    BY <1>1, <1>2 DEF Cards
  <2>2. b = [i \in 1..Len(b) |-> b[i]]
    BY DEF Cards
  <2> QED  BY <1>2, <2>1, <2>2
<1>3. ASSUME Len(b) <= Len(a), SubSeq(a, 1, Len(b)) = b
      PROVE  \A i \in 1..Len(b) : a[i] = b[i]
  <2>1. SubSeq(a, 1, Len(b)) = [i \in 1..Len(b) |-> a[i]]
    BY <1>1, <1>3 DEF Cards
  <2> QED  BY <1>3, <2>1
<1> QED  BY <1>2, <1>3 DEF Extends

\* A plan continues itself, and what its predecessor continues.
LEMMA FollowsIsOrder ==
  /\ \A p \in Plans : Follows(p, p)
  /\ \A p, q, r \in Plans : Follows(p, q) /\ Follows(q, r) => Follows(p, r)
<1>1. ASSUME NEW p \in Plans PROVE Follows(p, p)
  <2>1. p.board \in Cards /\ Len(p.board) \in Nat
    BY DEF Plans, Cards
  <2> QED  BY <2>1, ExtendsPointwise DEF Follows
<1>2. ASSUME NEW p \in Plans, NEW q \in Plans, NEW r \in Plans, Follows(p, q), Follows(q, r)
      PROVE  Follows(p, r)
  <2>1. p.board \in Cards /\ q.board \in Cards /\ r.board \in Cards
    BY DEF Plans
  <2>2. Len(p.board) \in Nat /\ Len(q.board) \in Nat /\ Len(r.board) \in Nat
    BY <2>1 DEF Cards
  <2>3. /\ Len(q.board) <= Len(p.board) /\ \A i \in 1..Len(q.board) : p.board[i] = q.board[i]
        /\ Len(r.board) <= Len(q.board) /\ \A i \in 1..Len(r.board) : q.board[i] = r.board[i]
    BY <1>2, <2>1, ExtendsPointwise DEF Follows
  <2>4. Len(r.board) <= Len(p.board) /\ \A i \in 1..Len(r.board) : p.board[i] = r.board[i]
    BY <2>2, <2>3
  <2> QED  BY <1>2, <2>1, <2>4, ExtendsPointwise DEF Follows
<1> QED  BY <1>1, <1>2

\* Two plans that one plan continues are the same if their boards are as long.
LEMMA SameVersionSamePlan ==
  ASSUME NEW s \in Plans, NEW p \in Plans, NEW q \in Plans, Follows(s, p), Follows(s, q),
         p.hand = q.hand, Len(p.board) = Len(q.board)
  PROVE  p = q
<1>1. p.board \in Cards /\ q.board \in Cards /\ s.board \in Cards
  BY DEF Plans
<1>2. p.board = q.board
  BY <1>1 DEF Follows, Extends
<1>3. p.hero = q.hero /\ p.settings = q.settings
  BY DEF Follows
<1>4. \A x \in Plans : x = [hand |-> x.hand, hero |-> x.hero, board |-> x.board, settings |-> x.settings]
  BY DEF Plans
<1> QED  BY <1>2, <1>3, <1>4

\* A continuation that sets nothing is resolved to one of the session's plan.
LEMMA ResolvedFollows ==
  ASSUME NEW h \in Hands, NEW body \in Bodies, NEW existing \in Plans,
         DOMAIN body.settings = {}, NoSession \notin Plans,
         Continues(body, existing), Resolved(h, body, existing) \in Plans
  PROVE  Follows(Resolved(h, body, existing), existing)
<1> DEFINE p == Resolved(h, body, existing)
<1>1. p.settings = existing.settings
  <2>1. \A f \in SettingNames : ResolveSetting(body, existing, f) = existing.settings[f]
    BY DEF ResolveSetting
  <2>2. existing.settings = [f \in SettingNames |-> existing.settings[f]]
    BY DEF Plans, Settings
  <2> QED  BY <2>1, <2>2 DEF Resolved
<1>2. p.hero = existing.hero
  BY DEF Resolved, Continues
<1>3. Extends(p.board, existing.board)
  <2>1. CASE body.board = Absent
    <3>1. p.board = existing.board
      BY <2>1 DEF Resolved
    <3>2. existing.board \in Cards /\ Len(existing.board) \in Nat
      BY DEF Plans, Cards
    <3> QED  BY <3>1, <3>2, ExtendsPointwise
  <2>2. CASE body.board # Absent
    BY <2>2 DEF Resolved, Continues
  <2> QED  BY <2>1, <2>2
<1> QED  BY <1>1, <1>2, <1>3 DEF Follows

-----------------------------------------------------------------------------

\* Nothing is written or issued at the start.
LEMMA InitOneInv == Init => OneInv
<1> SUFFICES ASSUME Init PROVE OneInv  OBVIOUS
<1>1. \A h \in UUIDs : session[h] = NoSession
  BY IngestionAssumption DEF Init
<1> QED
  BY <1>1, InitIInv DEF Init, OneInv, SessionIsNewest, IdsAreIssued, PlanFollows

\* The request under way is over.
LEMMA ReturnOneInv ==
  ASSUME OneInv, IInv', NEW e \in Executions, Return(e),
         UNCHANGED <<session, written, issued>>
  PROVE  OneInv'
<1>1. \A x \in Executions : stage'[x] # "idle" =>
        stage'[x] = stage[x] /\ hand'[x] = hand[x] /\ asked'[x] = asked[x] /\ plan'[x] = plan[x]
  BY DEF OneInv, IInv, Types, Return
<1> QED
  BY <1>1 DEF OneInv, SessionIsNewest, IdsAreIssued, PlanFollows

\* An id that is generated was never given to an item.
LEMMA ReceiveOneInv ==
  ASSUME OneInv, IInv', NEW e \in Executions, NEW body \in Bodies, Receive(e, body)
  PROVE  OneInv'
<1>1. PICK h \in Hands :
        /\ \/ body.hand = h /\ (h \in UUIDs => h \in issued) /\ UNCHANGED issued
           \/ body.hand = NoHand /\ h \in UUIDs \ issued /\ issued' = issued \union {h}
        /\ hand' = [hand EXCEPT ![e] = h]
  BY DEF Receive
<1>2. /\ UNCHANGED <<session, written, plan>> /\ issued \subseteq issued'
      /\ stage'[e] = "read" /\ hand'[e] = h /\ asked'[e] = body
      /\ \A x \in Executions : x # e =>
           stage'[x] = stage[x] /\ hand'[x] = hand[x] /\ asked'[x] = asked[x]
  BY <1>1 DEF OneInv, IInv, Types, Receive, table
<1>3. h \in UUIDs => h \in issued'
  BY <1>1
<1>4. body.hand = NoHand => session[h] = NoSession
  BY <1>1, IngestionAssumption DEF OneInv, IdsAreIssued
<1>5. SessionIsNewest'
  BY <1>2 DEF OneInv, SessionIsNewest
<1>6. IdsAreIssued'
  BY <1>2, <1>3, <1>4 DEF OneInv, IdsAreIssued
<1>7. PlanFollows'
  BY <1>2 DEF OneInv, PlanFollows
<1> QED  BY <1>5, <1>6, <1>7 DEF OneInv

\* What is read is the newest item, and the plan continues it.
LEMMA ReadSessionOneInv ==
  ASSUME OneByOne, OneInv, IInv', NEW e \in Executions, ReadSession(e)
  PROVE  OneInv'
<1> DEFINE existing == session[hand[e]]
           resolved == Resolved(hand[e], asked[e], existing)
<1>1. Readable(hand[e]) = {existing} /\ hand[e] \in Hands /\ asked[e] \in Bodies
  BY DEF Readable, OneByOne, OneInv, IInv, RequestsKnown, ReadSession
<1>2. \/ /\ Continues(asked[e], existing) /\ Valid(resolved)
         /\ plan' = [plan EXCEPT ![e] = resolved]
         /\ stage' = [stage EXCEPT ![e] = AfterResolve]
         /\ UNCHANGED <<hand, asked, next>>
      \/ Return(e)
  BY <1>1 DEF ReadSession, IsPlanned
<1>3. CASE /\ Continues(asked[e], existing) /\ Valid(resolved)
           /\ plan' = [plan EXCEPT ![e] = resolved]
           /\ stage' = [stage EXCEPT ![e] = AfterResolve]
           /\ UNCHANGED <<hand, asked, next>>
  <2>1. existing \in Plans \union {NoSession}
    BY <1>1 DEF OneInv, IInv, Types
  <2>2. resolved \in Plans
    BY <1>1, <1>3, <2>1, ResolvedType
  <2>3. ASSUME existing # NoSession PROVE Follows(resolved, existing)
    <3>1. asked[e].hand # NoHand
      BY <2>3 DEF OneInv, IdsAreIssued, ReadSession
    <3>2. DOMAIN asked[e].settings = {} /\ NoSession \notin Plans
      BY <1>1, <3>1 DEF OneByOne
    <3>3. existing \in Plans
      BY <2>1, <2>3
    <3> HIDE DEF existing
    <3> QED  BY <1>1, <1>3, <2>2, <3>2, <3>3, ResolvedFollows
  <2>4. plan'[e].hand = hand[e] /\ plan'[e] = resolved /\ hand' = hand /\ asked' = asked
    BY <1>3 DEF OneInv, IInv, Types, Resolved
  <2>5. /\ UNCHANGED <<session, written, issued>> /\ stage'[e] = "put"
        /\ \A x \in Executions : x # e => stage'[x] = stage[x] /\ plan'[x] = plan[x]
    BY <1>3 DEF OneInv, IInv, Types, ReadSession, table, history, AfterResolve
  <2> HIDE DEF existing, resolved
  <2>6. IdsAreIssued'
    BY <2>4, <2>5 DEF OneInv, IdsAreIssued, ReadSession
  <2>7. PlanFollows'
    BY <2>3, <2>4, <2>5 DEF OneInv, PlanFollows, existing
  <2> QED
    BY <2>5, <2>6, <2>7 DEF OneInv, SessionIsNewest
<1>4. CASE Return(e)
  BY <1>4, ReturnOneInv DEF ReadSession, table, history
<1> QED  BY <1>2, <1>3, <1>4

\* The item that is written continues all before it, and no other request is under way.
LEMMA PutSessionOneInv ==
  ASSUME OneByOne, OneInv, IInv', NEW e \in Executions, PutSession(e)
  PROVE  OneInv'
<1> DEFINE h == hand[e]
           p == plan[e]
<1>1. p \in Plans /\ h \in Hands /\ p.hand = h /\ p # NoSession /\ written \subseteq Plans
  BY DEF OneByOne, OneInv, IInv, Types, PlanIsValid, RequestsKnown, PlanFollows, PutSession
<1>2. /\ session'[h] = p /\ \A k \in Hands : k # h => session'[k] = session[k]
      /\ written' = written \union {p} /\ stage'[e] = "enqueue"
      /\ UNCHANGED <<issued, hand, asked, plan>>
  BY <1>1 DEF OneInv, IInv, Types, PutSession, history
<1>3. ASSUME NEW q \in written PROVE session'[q.hand] # NoSession /\ Follows(session'[q.hand], q)
  <2>1. q \in Plans /\ q.hand \in Hands
    BY <1>1 DEF Plans
  <2>2. session[q.hand] # NoSession /\ Follows(session[q.hand], q)
    BY DEF OneInv, SessionIsNewest
  <2>3. CASE q.hand = h
    <3>1. Follows(p, session[h]) /\ session[h] \in Plans
      BY <1>1, <2>2, <2>3 DEF OneInv, IInv, Types, PlanFollows, PutSession
    <3> QED  BY <1>1, <1>2, <2>1, <2>2, <2>3, <3>1, FollowsIsOrder
  <2>4. CASE q.hand # h
    BY <1>2, <2>1, <2>2, <2>4
  <2> QED  BY <2>3, <2>4
<1>4. session'[p.hand] # NoSession /\ Follows(session'[p.hand], p)
  BY <1>1, <1>2, FollowsIsOrder
<1> HIDE DEF p, h
<1>5. SessionIsNewest'
  BY <1>2, <1>3, <1>4 DEF SessionIsNewest
<1>6. \A x \in Executions : x = e
  BY DEF OneByOne
<1>7. IdsAreIssued'
  <2>1. h \in UUIDs => h \in issued
    BY DEF OneInv, IdsAreIssued, PutSession, h
  <2>2. \A k \in UUIDs : session'[k] # NoSession => k \in issued
    BY <1>2, <2>1, IngestionAssumption DEF OneInv, IdsAreIssued
  <2> QED  BY <1>2, <1>6, <2>1, <2>2 DEF IdsAreIssued, h
<1>8. PlanFollows'
  BY <1>1, <1>2, <1>6 DEF PlanFollows, h, p
<1> QED  BY <1>5, <1>7, <1>8 DEF OneInv

\* Every step keeps the invariant.
LEMMA NextOneInv == ASSUME OneByOne, OneInv, [Next]_vars PROVE OneInv'
<1>0. IInv'
  BY NextIInv DEF OneInv
<1>1. ASSUME NEW e \in Executions, NEW body \in Bodies, Receive(e, body) PROVE OneInv'
  BY <1>0, <1>1, ReceiveOneInv
<1>2. ASSUME NEW e \in Executions, ReadSession(e) PROVE OneInv'
  BY <1>0, <1>2, ReadSessionOneInv
<1>3. ASSUME NEW e \in Executions, PutSession(e) PROVE OneInv'
  BY <1>0, <1>3, PutSessionOneInv
<1>4. ASSUME NEW e \in Executions, SendBatch(e) PROVE OneInv'
  <2>1. UNCHANGED <<session, written, issued>> /\ (UNCHANGED <<stage, hand, asked, plan>> \/ Return(e))
    BY <1>4 DEF SendBatch, table, history
  <2>2. CASE Return(e)
    BY <1>0, <2>1, <2>2, ReturnOneInv
  <2>3. CASE UNCHANGED <<stage, hand, asked, plan>>
    BY <1>0, <2>1, <2>3 DEF OneInv, SessionIsNewest, IdsAreIssued, PlanFollows
  <2> QED  BY <2>1, <2>2, <2>3
<1>5. ASSUME NEW e \in Executions, Accept(e) \/ Abort(e) PROVE OneInv'
  BY <1>0, <1>5, ReturnOneInv DEF Accept, Abort, table, history
<1>6. ASSUME NEW h \in Hands, Expire(h) PROVE OneInv'
  BY <1>6 DEF Expire, OneByOne
<1>7. CASE UNCHANGED vars
  BY <1>0, <1>7 DEF OneInv, SessionIsNewest, IdsAreIssued, PlanFollows, vars, table, history, locals
<1> QED
  BY <1>1, <1>2, <1>3, <1>4, <1>5, <1>6, <1>7 DEF Next, Finished

\* The invariant of one client holds in every state.
THEOREM OneInvariance == ASSUME OneByOne PROVE Spec => []OneInv
<1>1. Init => OneInv
  BY InitOneInv
<1>2. OneInv /\ [Next]_vars => OneInv'
  BY NextOneInv
<1> QED  BY <1>1, <1>2, PTL DEF Spec

\* All messages of one hand and board version belong to one plan, retries and
\* half-sent plans included (app.py 37-101).
THEOREM OneClientOnePlan == ASSUME OneByOne PROVE Spec => []OnePlanPerKey
<1>1. ASSUME OneInv, NEW m \in sent, NEW n \in sent, m.hand = n.hand, m.version = n.version
      PROVE  m.expected = n.expected /\ (m.chunk = n.chunk => m = n)
  <2>1. PICK p \in written : \E c \in 0..(Count(p) - 1) : m = Message(p, c)
    BY <1>1 DEF OneInv, IInv, WorkHasSession, Messages
  <2>2. PICK q \in written : \E d \in 0..(Count(q) - 1) : n = Message(q, d)
    BY <1>1 DEF OneInv, IInv, WorkHasSession, Messages
  <2>3. p.hand = q.hand /\ Len(p.board) = Len(q.board)
    BY <1>1, <2>1, <2>2 DEF Message
  <2>4. p \in Plans /\ q \in Plans /\ p.hand \in Hands
    BY <1>1 DEF OneInv, IInv, Types, Plans
  <2>5. session[p.hand] \in Plans /\ Follows(session[p.hand], p) /\ Follows(session[p.hand], q)
    BY <1>1, <2>3, <2>4 DEF OneInv, IInv, Types, SessionIsNewest
  <2>6. p = q
    BY <2>3, <2>4, <2>5, SameVersionSamePlan
  <2>7. PICK c \in 0..(Count(p) - 1) : m = Message(p, c)
    BY <2>1
  <2>8. PICK d \in 0..(Count(q) - 1) : n = Message(q, d)
    BY <2>2
  <2>9. m.chunk = c /\ n.chunk = d /\ m.expected = Count(p) /\ n.expected = Count(q)
    BY <2>7, <2>8 DEF Message
  <2> QED  BY <2>6, <2>7, <2>8, <2>9
<1>2. OneInv => OnePlanPerKey
  BY <1>1 DEF OnePlanPerKey
<1> QED  BY <1>2, OneInvariance, PTL

\* A hand's board only grows and its hero stays, for clients that post one request
\* after another (app.py 123-147).
THEOREM OneClientBoardGrows == ASSUME OneByOne PROVE Spec => BoardOnlyMovesForward
<1>1. ASSUME OneInv, [Next]_vars, NEW h \in Hands, session[h] # NoSession, session'[h] # NoSession
      PROVE  Follows(session'[h], session[h])
  <2>1. session[h] \in Plans
    BY <1>1 DEF OneInv, IInv, Types
  <2>2. ASSUME NEW e \in Executions, PutSession(e), hand[e] = h PROVE Follows(session'[h], session[h])
    <3>1. session'[h] = plan[e] /\ stage[e] = "put"
      BY <1>1, <2>2 DEF PutSession, OneInv, IInv, Types
    <3> QED  BY <1>1, <2>2, <3>1 DEF OneInv, PlanFollows
  <2>3. ASSUME NEW e \in Executions, PutSession(e), hand[e] # h PROVE session'[h] = session[h]
    BY <1>1, <2>3 DEF PutSession, OneInv, IInv, Types
  <2>4. CASE UNCHANGED session
    BY <2>1, <2>4, FollowsIsOrder
  <2>5. ASSUME NEW e \in Executions,
               \/ \E body \in Bodies : Receive(e, body)
               \/ ReadSession(e) \/ SendBatch(e) \/ Accept(e) \/ Abort(e)
        PROVE  UNCHANGED session
    BY <2>5 DEF Receive, ReadSession, SendBatch, Accept, Abort, table
  <2>6. ASSUME NEW e \in Executions, PutSession(e) PROVE Follows(session'[h], session[h])
    BY <2>1, <2>2, <2>3, <2>6, FollowsIsOrder
  <2>7. UNCHANGED vars \/ Finished => UNCHANGED session
    BY DEF Finished, vars, table
  <2>8. \A k \in Hands : ~Expire(k)
    BY DEF Expire, OneByOne
  <2> QED
    BY <1>1, <2>4, <2>5, <2>6, <2>7, <2>8 DEF Next
<1>2. OneInv /\ [Next]_vars =>
        [\A h \in Hands : (session[h] # NoSession /\ session'[h] # NoSession) =>
            /\ Extends(session'[h].board, session[h].board)
            /\ session'[h].hero = session[h].hero]_vars
  BY <1>1 DEF Follows
<1> QED
  BY <1>2, OneInvariance, PTL DEF Spec, BoardOnlyMovesForward

-----------------------------------------------------------------------------
(***************************************************************************)
(* The whole pipeline, of which the ingestion is one part.                 *)
(***************************************************************************)

\* validate_cards compares all cards at once, parseCardList one list at a time.
LEMMA ListsAreUnique ==
  ASSUME NEW hero \in Seq(Deck), NEW board \in Seq(Deck), Unique(hero \o board)
  PROVE  Unique(hero) /\ Unique(board)
<1> DEFINE both == hero \o board
<1>1. Unique(hero)
  <2> SUFFICES ASSUME NEW i \in DOMAIN hero, NEW j \in DOMAIN hero, hero[i] = hero[j]
               PROVE  i = j
    BY DEF Unique
  <2>1. i \in DOMAIN both /\ j \in DOMAIN both /\ both[i] = hero[i] /\ both[j] = hero[j]
    OBVIOUS
  <2> QED  BY <2>1 DEF Unique
<1>2. Unique(board)
  <2> SUFFICES ASSUME NEW i \in DOMAIN board, NEW j \in DOMAIN board, board[i] = board[j]
               PROVE  i = j
    BY DEF Unique
  <2> DEFINE x == Len(hero) + i
             y == Len(hero) + j
  <2>1. x \in DOMAIN both /\ y \in DOMAIN both /\ both[x] = board[i] /\ both[y] = board[j]
    OBVIOUS
  <2>2. x = y  BY <2>1 DEF Unique
  <2>3. i \in Nat /\ j \in Nat /\ Len(hero) \in Nat  OBVIOUS
  <2> QED  BY <2>2, <2>3
<1> QED  BY <1>1, <1>2

\* A message cut from a valid plan passes every check of the worker but those of its
\* numbers: twice the opponents of a table that is not crowded do not wrap.
LEMMA OnlyNumbersRefuse ==
  ASSUME NEW p \in Plans, Valid(p), NEW c \in 0..(Count(p) - 1),
         Decodes(Message(p, c)), ~Crowded(Message(p, c))
  PROVE  Simulates(Message(p, c))
<1> DEFINE m == Message(p, c)
<1>1. m.hero = p.hero /\ m.board = p.board
  BY DEF Message
<1>2. p.hero \in Seq(Deck) /\ p.board \in Seq(Deck)
  BY DEF Plans, Cards
<1>3. ValidCards(p.hero, p.board)
  BY DEF Valid
<1>4. Unique(p.hero \o p.board)
  BY <1>3, Zenon DEF ValidCards, Unique
<1>5. ParsesCards(m.hero) /\ ParsesCards(m.board) /\ Unique(m.hero \o m.board)
  <2>1. \A i \in DOMAIN p.hero : p.hero[i] \in Deck  BY <1>2
  <2>2. \A i \in DOMAIN p.board : p.board[i] \in Deck  BY <1>2
  <2> HIDE DEF m
  <2> QED  BY <1>1, <1>2, <1>4, <2>1, <2>2, ListsAreUnique DEF ParsesCards
<1>6. ValidMessage(m)
  <2>1. Len(m.hero) = 2 /\ Len(m.board) <= 5
    BY <1>1, <1>3, CardsBounded
  <2>2. /\ m.chunk \in 0..(m.expected - 1) /\ m.iterations > 0 /\ m.opponents > 0
    BY MessageType
  <2>3. m.expected \in Nat
    BY CountType DEF Message
  <2> HIDE DEF m
  <2> QED  BY <2>1, <2>2, <2>3 DEF ValidMessage
<1>7. EnoughCards(m)
  <2>1. /\ Len(m.hero) = 2 /\ Len(m.board) \in Nat /\ Len(m.board) <= 5
        /\ m.opponents \in Int /\ m.opponents > 0
    <3>1. Len(m.hero) = 2 /\ Len(m.board) <= 5 /\ Len(m.board) \in Nat
      BY <1>1, <1>2, <1>3, CardsBounded
    <3>2. m.opponents \in Int /\ m.opponents > 0
      BY DEF Message, Valid, ValidSettings, Plans, Settings, SettingNames
    <3> QED  BY <3>1, <3>2
  <2>2. Cardinality(Deck) \in Nat /\ Cardinality(Deck) <= MaxInt /\ MaxInt \in Nat
    BY FS_CardinalityType, PipelineAssumption, IngestionAssumption
  <2>3. ~Crowded(m)
    OBVIOUS
  <2> HIDE DEF m
  <2> DEFINE h == Len(m.hero)
             b == Len(m.board)
             d == Cardinality(Deck)
             o == m.opponents
  <2>4. CardsNeeded(m) = 2 * o + 5 - b /\ CardsLeft(m) = d - h - b
    BY DEF CardsNeeded, CardsLeft
  <2>5. /\ h = 2 /\ b \in Nat /\ b <= 5 /\ o \in Int /\ o > 0
        /\ d \in Nat /\ d <= MaxInt /\ MaxInt \in Nat
    BY <2>1, <2>2
  <2> HIDE DEF h, b, d, o
  <2>6. CardsNeeded(m) \in Int /\ CardsLeft(m) \in Int
    BY <2>4, <2>5
  <2>7. CardsNeeded(m) <= CardsLeft(m)
    BY <2>3, <2>6 DEF Crowded
  <2>8. FitsInt64(CardsNeeded(m))
    BY <2>4, <2>5, <2>7 DEF FitsInt64
  <2> QED  BY <2>7, <2>8 DEF EnoughCards
<1> QED  BY <1>5, <1>6, <1>7 DEF Simulates

-----------------------------------------------------------------------------

\* Workers leave ingestion alone.
LEMMA PipelineIsIngestion == PipeSpec => Spec
<1>1. PipeInit => Init
  BY DEF PipeInit
<1>2. [PipeNext]_pipeVars => [Next]_vars
  BY DEF PipeNext, Ingest, Work, GiveUp, pipeVars
<1> QED  BY <1>1, <1>2, PTL DEF PipeSpec, Spec

\* A message that ingestion queues and a worker refuses has too many opponents for
\* the deck or a number that is no int64, and nothing else wrong with it (app.py
\* 56-64 against message.go 24-64, 93-108 and simulate.go 42-50).
THEOREM OnlyNumbersAreRefused == PipeSpec => []OnlyNumbersFail
<1>1. IInv => OnlyNumbersFail
  <2> SUFFICES ASSUME IInv, NEW m \in sent, Decodes(m), ~Crowded(m) PROVE Simulates(m)
    BY DEF OnlyNumbersFail
  <2>1. PICK p \in Plans : Valid(p) /\ \E c \in 0..(Count(p) - 1) : m = Message(p, c)
    BY SentIsValid
  <2> QED  BY <2>1, OnlyNumbersRefuse
<1> QED  BY <1>1, PipelineIsIngestion, IngestionInvariance, PTL

-----------------------------------------------------------------------------
(***************************************************************************)
(* What is published, for clients whose requests come one after the other. *)
(***************************************************************************)

\* Simulating a message gives counters (what LocalSimProofs proves of Simulate).
ResultsAreCounters ==
  \A p \in Plans : Valid(p) => \A m \in Messages(p) : Simulated(m) \in Counters

\* A plan asks for settings that some client sends or that are the defaults.
AskedFor(p) == \A f \in SettingNames : p.settings[f] \in Values(f)

\* Whatever is read, written or under way was asked for.
SettingsInv ==
  /\ \A h \in Hands : /\ session[h] = NoSession \/ AskedFor(session[h])
                      /\ previous[h] = NoSession \/ AskedFor(previous[h])
  /\ \A e \in Executions : stage[e] \in {"put", "enqueue"} => AskedFor(plan[e])
  /\ \A p \in written : AskedFor(p)

\* The messages of plan p that are in the aggregate at k.
Counted(k, p) == {m \in Messages(p) : Claimed(k, m.chunk)}

\* The store has never heard of the aggregate at k.
HoldsNothing(k) == agg[k] = NoHash /\ \A c \in ChunkIds : claim[k][c] = 0

\* The aggregate at k is a part of plan p.
Holds(k, p) == /\ Key(p) = k /\ Live(k)
               /\ agg[k].expected = Count(p)
               /\ agg[k].completed = Cardinality(Counted(k, p))
               /\ agg[k].counters = SumOfResults(Counted(k, p))

\* Nothing has expired, and what is stored is a part of one plan that was written.
StoreInv == /\ now = 0
            /\ DOMAIN agg = Keys /\ claim \in [Keys -> [ChunkIds -> Nat]]
            /\ \A k \in Keys : HoldsNothing(k) \/ \E p \in written : Holds(k, p)

WholeInv == OneInv /\ SettingsInv /\ StoreInv

-----------------------------------------------------------------------------

\* A plan has as many messages as chunks.
LEMMA MessagesAreCount ==
  ASSUME NEW p \in Plans, Valid(p)
  PROVE  IsFiniteSet(Messages(p)) /\ Cardinality(Messages(p)) = Count(p)
<1> DEFINE n == Count(p)
           S == 0..(n - 1)
           f == [c \in S |-> Message(p, c)]
<1>1. n \in Nat \ {0}
  BY CountType
<1>2. IsFiniteSet(S) /\ Cardinality(S) = n
  <2> HIDE DEF n
  <2>1. 0 \in Int /\ n - 1 \in Int /\ ~(0 > n - 1) /\ (n - 1) - 0 + 1 = n
    BY <1>1
  <2> QED  BY <2>1, FS_Interval
<1>3. f \in Surjection(S, Messages(p))
  BY DEF Surjection, Messages
<1>4. f \in Injection(S, Messages(p))
  <2>1. \A c, d \in S : f[c] = f[d] => c = d
    BY DEF Message
  <2> QED  BY <2>1, <1>3 DEF Injection, Surjection, IsInjective
<1> HIDE DEF f, S, n
<1>5. IsFiniteSet(Messages(p)) /\ Cardinality(Messages(p)) = Cardinality(S)
  BY <1>2, <1>3, <1>4, FS_Surjection
<1> QED  BY <1>2, <1>5 DEF n

\* All that is resolved comes from a body, from an earlier plan or from the defaults.
LEMMA ResolvedIsAskedFor ==
  ASSUME NEW h, NEW body \in Bodies, NEW existing, existing = NoSession \/ AskedFor(existing)
  PROVE  AskedFor(Resolved(h, body, existing))
<1> SUFFICES ASSUME NEW f \in SettingNames PROVE ResolveSetting(body, existing, f) \in Values(f)
  BY DEF AskedFor, Resolved
<1> QED  BY DEF ResolveSetting, Values, AskedFor

\* Every step of the ingestion keeps the settings among those that can be asked for.
LEMMA NextSettingsInv == ASSUME IInv, SettingsInv, [Next]_vars PROVE SettingsInv'
<1>0. /\ \A h \in Hands : /\ session[h] = NoSession \/ AskedFor(session[h])
                          /\ previous[h] = NoSession \/ AskedFor(previous[h])
      /\ Types /\ RequestsKnown
  BY DEF IInv, SettingsInv
<1>1. ASSUME UNCHANGED <<table, plan>>,
             \A x \in Executions : stage'[x] \in {"put", "enqueue"} => stage[x] \in {"put", "enqueue"}
      PROVE  SettingsInv'
  BY <1>1 DEF SettingsInv, table, AskedFor
<1>2. ASSUME NEW e \in Executions, Return(e), UNCHANGED table PROVE SettingsInv'
  <2>1. \A x \in Executions : stage'[x] \in {"put", "enqueue"} =>
          stage[x] \in {"put", "enqueue"} /\ plan'[x] = plan[x]
    BY <1>0, <1>2 DEF Return, Types
  <2> QED  BY <1>2, <2>1 DEF SettingsInv, table, AskedFor
<1>3. ASSUME NEW e \in Executions, NEW body \in Bodies, Receive(e, body) PROVE SettingsInv'
  <2>1. UNCHANGED <<table, plan>> /\ stage' = [stage EXCEPT ![e] = "read"]
    BY <1>3 DEF Receive
  <2> QED  BY <1>0, <1>1, <2>1 DEF Types
<1>4. ASSUME NEW e \in Executions, ReadSession(e) PROVE SettingsInv'
  <2>1. hand[e] \in Hands /\ asked[e] \in Bodies /\ UNCHANGED table
    BY <1>0, <1>4 DEF RequestsKnown, ReadSession
  <2>2. PICK existing \in Readable(hand[e]) :
          \/ /\ plan' = [plan EXCEPT ![e] = Resolved(hand[e], asked[e], existing)]
             /\ stage' = [stage EXCEPT ![e] = AfterResolve]
          \/ Return(e)
    BY <1>4 DEF ReadSession
  <2>3. AskedFor(Resolved(hand[e], asked[e], existing))
    <3>1. existing = NoSession \/ AskedFor(existing)
      BY <1>0, <2>1, <2>2 DEF Readable
    <3> QED  BY <2>1, <3>1, ResolvedIsAskedFor
  <2>4. CASE /\ plan' = [plan EXCEPT ![e] = Resolved(hand[e], asked[e], existing)]
             /\ stage' = [stage EXCEPT ![e] = AfterResolve]
    <3> DEFINE r == Resolved(hand[e], asked[e], existing)
    <3>1. /\ plan'[e] = r /\ AskedFor(r)
          /\ \A x \in Executions : x # e => stage'[x] = stage[x] /\ plan'[x] = plan[x]
      BY <1>0, <2>3, <2>4 DEF Types
    <3> HIDE DEF r
    <3> QED  BY <2>1, <3>1 DEF SettingsInv, table, AskedFor
  <2> QED  BY <1>2, <2>1, <2>2, <2>4
<1>5. ASSUME NEW e \in Executions, PutSession(e) PROVE SettingsInv'
  <2>1. /\ AskedFor(plan[e]) /\ hand[e] \in Hands
        /\ session[hand[e]] = NoSession \/ AskedFor(session[hand[e]])
    BY <1>0, <1>5 DEF PutSession, SettingsInv, RequestsKnown
  <2>2. /\ \A h \in Hands : session'[h] \in {session[h], plan[e]} /\ previous'[h] \in {previous[h], session[h]}
        /\ written' = written \union {plan[e]} /\ plan' = plan
        /\ \A x \in Executions : stage'[x] \in {"put", "enqueue"} => stage[x] \in {"put", "enqueue"}
    BY <1>0, <1>5 DEF PutSession, Types
  <2> QED  BY <1>0, <2>1, <2>2 DEF SettingsInv, AskedFor
<1>6. ASSUME NEW e \in Executions, SendBatch(e) \/ Accept(e) \/ Abort(e) PROVE SettingsInv'
  <2>1. UNCHANGED table /\ (Return(e) \/ UNCHANGED <<stage, plan>>)
    BY <1>6 DEF SendBatch, Accept, Abort
  <2> QED  BY <1>1, <1>2, <2>1
<1>7. ASSUME NEW h \in Hands, Expire(h) PROVE SettingsInv'
  <2>1. /\ \A k \in Hands : session'[k] \in {session[k], NoSession} /\ previous'[k] \in {previous[k], session[k]}
        /\ UNCHANGED <<written, plan, stage>>
    BY <1>0, <1>7 DEF Expire, Types, locals
  <2> QED  BY <1>0, <2>1 DEF SettingsInv, AskedFor
<1>8. CASE UNCHANGED vars
  BY <1>1, <1>8 DEF vars, locals
<1> QED  BY <1>3, <1>4, <1>5, <1>6, <1>7, <1>8 DEF Next, Finished

\* The plan of a chunk message and the aggregate it goes to.
LEMMA SentHasPlace ==
  ASSUME ChunksAreEnough, OneInv, SettingsInv, NEW q \in written
  PROVE  /\ q \in Plans /\ Valid(q) /\ Key(q) \in Keys
         /\ \A m \in Messages(q) : /\ m.chunk \in ChunkIds /\ m.expected = Count(q)
                                   /\ <<m.hand, m.version>> = Key(q)
         /\ \A m, n \in Messages(q) : m.chunk = n.chunk => m = n
<1>1. q \in Plans /\ Valid(q) /\ AskedFor(q)
  BY DEF OneInv, IInv, Types, WrittenIsValid, SettingsInv
<1>2. q.hand \in Hands /\ Len(q.board) \in 0..5
  <2>1. 0 \in 0..(Count(q) - 1)
    BY <1>1, CountType
  <2> QED  BY <1>1, <2>1, MessageType DEF Plans, Message
<1>3. Key(q) \in Keys
  BY <1>2, PipelineAssumption DEF Key
<1>4. 0..(Count(q) - 1) \subseteq ChunkIds
  <2>1. /\ q.settings["total_iterations"] \in Values("total_iterations")
        /\ q.settings["iterations_per_chunk"] \in Values("iterations_per_chunk")
    BY <1>1 DEF AskedFor, SettingNames
  <2>2. q.settings["total_iterations"] > 0 /\ q.settings["iterations_per_chunk"] > 0
    BY <1>1 DEF Valid, ValidSettings
  <2> QED  BY <2>1, <2>2 DEF ChunksAreEnough, Count
<1>5. \A m \in Messages(q) : \E c \in 0..(Count(q) - 1) : m = Message(q, c) /\ m.chunk = c
  BY DEF Messages, Message
<1>6. \A m \in Messages(q) : m.expected = Count(q) /\ <<m.hand, m.version>> = Key(q)
  BY DEF Messages, Message, Key
<1> QED  BY <1>1, <1>3, <1>4, <1>5, <1>6

\* Plans of the same aggregate are the same plan.
LEMMA OnePlanAtKey ==
  ASSUME OneInv, NEW p \in written, NEW q \in written, Key(p) = Key(q) PROVE p = q
<1>1. p \in Plans /\ q \in Plans /\ p.hand = q.hand /\ Len(p.board) = Len(q.board) /\ p.hand \in Hands
  BY DEF OneInv, IInv, Types, Plans, Key
<1>2. session[p.hand] \in Plans /\ Follows(session[p.hand], p) /\ Follows(session[p.hand], q)
  BY <1>1 DEF OneInv, IInv, Types, SessionIsNewest
<1> QED  BY <1>1, <1>2, SameVersionSamePlan

\* What is in the store follows the claims and the aggregates only.
LEMMA StoreStays ==
  ASSUME StoreInv, UNCHANGED <<now, claim, agg>>, written \subseteq written' PROVE StoreInv'
<1>1. /\ now' = 0 /\ DOMAIN agg' = Keys /\ claim' \in [Keys -> [ChunkIds -> Nat]]
      /\ \A j \in Keys : HoldsNothing(j) \/ \E p \in written : Holds(j, p)
  BY DEF StoreInv
<1>2. ASSUME NEW j, HoldsNothing(j) PROVE HoldsNothing(j)'
  BY <1>2 DEF HoldsNothing
<1>3. ASSUME NEW j, NEW p, Holds(j, p) PROVE Holds(j, p)'
  <2>1. Counted(j, p)' = Counted(j, p)
    BY DEF Counted, Claimed
  <2> QED  BY <1>3, <2>1 DEF Holds, Live
<1> QED  BY <1>1, <1>2, <1>3 DEF StoreInv

\* A worker adds its message to what its aggregate holds, unless it is there.
LEMMA WorkStoreInv ==
  ASSUME ResultsAreCounters, ChunksAreEnough, WholeInv, NEW m \in sent, Work(m)
  PROVE  StoreInv'
<1>1. OneInv /\ SettingsInv /\ StoreInv
  BY DEF WholeInv
<1>2. PICK q \in written : m \in Messages(q)
  BY <1>1 DEF OneInv, IInv, WorkHasSession
<1> DEFINE k == Key(q)
           c == m.chunk
           P == Counted(k, q)
<1>3. /\ q \in Plans /\ Valid(q) /\ k \in Keys /\ c \in ChunkIds
      /\ \A n \in Messages(q) : n.chunk \in ChunkIds /\ (n.chunk = c => n = m)
      /\ \A n \in Messages(q) : Simulated(n) \in Counters
  BY <1>1, <1>2, SentHasPlace DEF ResultsAreCounters
<1>4. Delta(m) = [key |-> k, chunk |-> c, expected |-> Count(q), counters |-> Simulated(m)]
  BY <1>1, <1>2, SentHasPlace DEF Delta
<1>5. /\ now = 0 /\ now' = 0 /\ written' = written /\ TTL \in Nat \ {0}
      /\ DOMAIN agg = Keys /\ claim \in [Keys -> [ChunkIds -> Nat]]
      /\ \A j \in Keys : HoldsNothing(j) \/ \E p \in written : Holds(j, p)
  BY <1>1, RedisAssumption DEF StoreInv, Work, vars, table
<1>6. CASE UNCHANGED <<claim, agg>>
  BY <1>1, <1>5, <1>6, StoreStays
<1>7. CASE /\ ~Claimed(k, c)
           /\ claim' = [claim EXCEPT ![k][c] = now + TTL]
           /\ agg' = [agg EXCEPT ![k] = [expected  |-> Count(q),
                                         completed |-> Hash(k).completed + 1,
                                         counters  |-> Plus(Hash(k).counters, Simulated(m)),
                                         expires   |-> now + TTL]]
  <2> HIDE DEF k, c
  <2>1. /\ claim' \in [Keys -> [ChunkIds -> Nat]] /\ DOMAIN agg' = Keys
        /\ \A j \in Keys, x \in ChunkIds :
             claim'[j][x] = IF j = k /\ x = c THEN TTL ELSE claim[j][x]
        /\ \A j \in Keys \ {k} : agg'[j] = agg[j] /\ claim'[j] = claim[j]
    BY <1>3, <1>5, <1>7
  <2>2. /\ agg'[k].expected = Count(q) /\ agg'[k].completed = Hash(k).completed + 1
        /\ agg'[k].counters = Plus(Hash(k).counters, Simulated(m)) /\ agg'[k].expires = TTL
    BY <1>3, <1>5, <1>7
  <2>3. Hash(k).completed = Cardinality(P) /\ Hash(k).counters = SumOfResults(P)
    <3>1. CASE HoldsNothing(k)
      <4>1. Hash(k) = NoHash
        BY <3>1 DEF HoldsNothing, Hash
      <4>2. P = {}
        BY <1>3, <1>5, <3>1 DEF HoldsNothing, Counted, Claimed
      <4>3. SumOfResults(P) = ZeroCounters
        BY <4>2, MergedOfNone DEF SumOfResults
      <4> QED  BY <4>1, <4>2, <4>3, FS_EmptySet DEF NoHash
    <3>2. CASE \E p \in written : Holds(k, p)
      <4>1. PICK p \in written : Holds(k, p)
        BY <3>2
      <4>2. p = q
        BY <1>1, <4>1, OnePlanAtKey DEF Holds, k
      <4> QED  BY <4>1, <4>2 DEF Holds, Hash
    <3> QED  BY <1>3, <1>5, <3>1, <3>2
  <2>4. Counted(k, q)' = P \union {m} /\ m \notin P
    <3>1. \A n \in Messages(q) : Claimed(k, n.chunk)' <=> Claimed(k, n.chunk) \/ n = m
      BY <1>3, <1>5, <2>1 DEF Claimed, c
    <3> QED  BY <1>2, <1>7, <3>1 DEF Counted, c
  <2>5. IsFiniteSet(P) /\ P \in SUBSET Messages(q)
    <3>1. P \in SUBSET Messages(q)
      BY DEF Counted
    <3> QED  BY <1>3, <3>1, MessagesAreCount, FS_Subset
  <2>6. Cardinality(P \union {m}) = Cardinality(P) + 1
    <3> HIDE DEF P
    <3> QED  BY <2>4, <2>5, FS_AddElement
  <2>7. SumOfResults(P \union {m}) = Plus(SumOfResults(P), Simulated(m))
    <3> DEFINE R == [n \in P |-> Simulated(n)]
               Q == [n \in P \union {m} |-> Simulated(n)]
    <3>1. /\ \A n \in P : R[n] \in Counters /\ Q[n] = R[n]
          /\ Q[m] = Simulated(m) /\ Q[m] \in Counters
      BY <1>2, <1>3, <2>5
    <3>2. SumOfResults(P) = Merged(R, P) /\ SumOfResults(P \union {m}) = Merged(Q, P \union {m})
      BY DEF SumOfResults
    <3> HIDE DEF P, Q, R
    <3>3. Merged(Q, P \union {m}) = Plus(Merged(R, P), Q[m])
      BY <2>4, <2>5, <3>1, MergedAdd
    <3> QED  BY <3>1, <3>2, <3>3
  <2>8. Holds(k, q)'
    <3>1. Live(k)'
      BY <1>5, <2>2 DEF Live
    <3>2. SumOfResults(Counted(k, q)') = SumOfResults(Counted(k, q))'
      BY DEF SumOfResults, Merged
    <3> QED  BY <2>2, <2>3, <2>4, <2>6, <2>7, <3>1, <3>2 DEF Holds, k
  <2>9. ASSUME NEW j \in Keys \ {k} PROVE HoldsNothing(j)' \/ \E p \in written : Holds(j, p)'
    <3>1. CASE HoldsNothing(j)
      BY <2>1, <3>1 DEF HoldsNothing
    <3>2. ASSUME NEW p \in written, Holds(j, p) PROVE Holds(j, p)'
      <4>1. Counted(j, p)' = Counted(j, p)
        BY <1>5, <2>1 DEF Counted, Claimed
      <4> QED  BY <1>5, <2>1, <3>2, <4>1 DEF Holds, Live
    <3> QED  BY <1>5, <3>1, <3>2
  <2> QED  BY <1>2, <1>3, <1>5, <2>1, <2>8, <2>9 DEF StoreInv
<1> QED
  <2>1. ApplyChunkScript(Delta(m))
    BY DEF Work
  <2>2. /\ Delta(m).key = k /\ Delta(m).chunk = c /\ Delta(m).expected = Count(q)
        /\ Delta(m).counters = Simulated(m)
    BY <1>4
  <2> HIDE DEF k, c
  <2> QED  BY <1>6, <1>7, <2>1, <2>2 DEF ApplyChunkScript, Fold, NewExpiry

\* History only grows.
LEMMA WrittenGrows == [Next]_vars => written \subseteq written'
BY DEF Next, Receive, ReadSession, PutSession, SendBatch, Accept, Abort, Expire, Finished, vars, table

\* At the start nothing is stored, nothing claimed and nothing counted.
LEMMA InitWholeInv == ASSUME OneByOne, PipeInit PROVE WholeInv
<1>1. OneInv
  BY InitOneInv DEF PipeInit
<1>2. SettingsInv
  BY DEF PipeInit, Init, SettingsInv
<1>3. StoreInv
  BY DEF PipeInit, RedisInit, StoreInv, HoldsNothing
<1> QED  BY <1>1, <1>2, <1>3 DEF WholeInv

\* The ingestion leaves the store alone, a worker the sessions, and each keeps its part.
LEMMA NextWholeInv ==
  ASSUME OneByOne, ResultsAreCounters, ChunksAreEnough, WholeInv, [PipeNext]_pipeVars
  PROVE  WholeInv'
<1>1. ASSUME [Next]_vars PROVE OneInv' /\ SettingsInv' /\ written \subseteq written'
  BY <1>1, NextOneInv, NextSettingsInv, WrittenGrows DEF WholeInv, OneInv
<1>2. ASSUME UNCHANGED redisVars, written \subseteq written' PROVE StoreInv'
  <2>1. UNCHANGED <<now, claim, agg>>
    BY <1>2 DEF redisVars
  <2> QED  BY <1>2, <2>1, StoreStays DEF WholeInv
<1>3. CASE Ingest
  BY <1>1, <1>2, <1>3 DEF Ingest, WholeInv
<1>4. ASSUME NEW m \in sent, Work(m) PROVE WholeInv'
  <2>1. [Next]_vars
    BY <1>4 DEF Work
  <2> QED  BY <1>1, <1>4, <2>1, WorkStoreInv DEF WholeInv
<1>5. ASSUME NEW m \in sent, GiveUp(m) PROVE WholeInv'
  BY <1>1, <1>2, <1>5 DEF GiveUp, WholeInv
<1>6. CASE UNCHANGED pipeVars
  BY <1>1, <1>2, <1>6 DEF pipeVars, WholeInv
<1> QED  BY <1>3, <1>4, <1>5, <1>6 DEF PipeNext

\* What the status endpoint publishes is at any moment the sum of the results of
\* some chunks of one plan that was written for that hand and board, and "complete"
\* says that they are all (app.py 37-101, apply_chunk.lua, status-lambda main.go).
THEOREM PublishedIsOfOnePlan ==
  ASSUME OneByOne, ResultsAreCounters, ChunksAreEnough PROVE PipeSpec => []PublishedIsWritten
<1>1. ASSUME WholeInv, NEW k \in Keys, Live(k)
      PROVE  \E p \in written :
               LET counted == {m \in Messages(p) : Claimed(k, m.chunk)}
               IN  /\ Key(p) = k
                   /\ agg[k].expected = Count(p)
                   /\ agg[k].completed = Cardinality(counted)
                   /\ agg[k].counters = SumOfResults(counted)
                   /\ Status(k) = "complete" <=> counted = Messages(p)
  <2>1. OneInv /\ StoreInv
    BY <1>1 DEF WholeInv
  <2>2. PICK p \in written : Holds(k, p)
    BY <1>1, <2>1 DEF StoreInv, HoldsNothing, Live, NoHash
  <2>3. p \in Plans /\ Valid(p)
    BY <2>1 DEF OneInv, IInv, Types, WrittenIsValid
  <2> DEFINE C == Counted(k, p)
  <2>4. /\ IsFiniteSet(Messages(p)) /\ Cardinality(Messages(p)) = Count(p) /\ Count(p) \in Nat \ {0}
        /\ C \in SUBSET Messages(p)
    BY <2>3, MessagesAreCount, CountType DEF Counted
  <2>5. Cardinality(C) \in Nat /\ Cardinality(C) <= Count(p)
        /\ (Cardinality(C) = Count(p) <=> C = Messages(p))
    <3> HIDE DEF C
    <3> QED  BY <2>4, FS_Subset, FS_CardinalityType
  <2>6. Status(k) = "complete" <=> Cardinality(C) >= Count(p)
    BY <1>1, <2>2, <2>4 DEF Status, BarrierReached, Holds
  <2>7. Status(k) = "complete" <=> C = Messages(p)
    BY <2>4, <2>5, <2>6
  <2> QED  BY <2>2, <2>7 DEF Holds, Counted
<1>2. WholeInv => PublishedIsWritten
  BY <1>1 DEF PublishedIsWritten
<1>3. PipeInit => WholeInv
  BY InitWholeInv
<1>4. WholeInv /\ [PipeNext]_pipeVars => WholeInv'
  BY NextWholeInv
<1> QED  BY <1>2, <1>3, <1>4, PTL DEF PipeSpec

=============================================================================
