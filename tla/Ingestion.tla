------------------------------ MODULE Ingestion ------------------------------
(***************************************************************************)
(* The ingestion Lambda (cmd/ingestion-lambda/app.py): POST /hands reads   *)
(* the hand's session from DynamoDB, resolves and validates the request    *)
(* against it, writes the session back and puts one message per chunk on   *)
(* the queue.  Several executions of the Lambda serve requests at once, and *)
(* the read, the write and the batches of messages are separate calls: no  *)
(* condition ties the write to what was read, and a call may fail between. *)
(***************************************************************************)
EXTENDS ChunkSizes, Sequences, FiniteSets

CONSTANTS Executions,    \* concurrent executions of the Lambda
          Hands,         \* hand ids
          UUIDs,         \* those that uuid4 may still return
          Deck,          \* the cards validate_cards knows
          Bodies,        \* request bodies clients may send
          Default,       \* Default[f]: the value of setting f for a new hand
          MaxEntries,    \* entries of one send_message_batch (10 in the code)
          StaleReads,    \* get_item may return the item before the last
          SessionsExpire,\* DynamoDB may delete an item (its TTL)
          MaxRequests,   \* bound: requests served
          MaxInt,        \* the largest int64: Python's ints have no bound
          Absent, NoHand, NoSession

SettingNames == {"opponents", "total_iterations", "iterations_per_chunk", "base_seed"}

Settings == [SettingNames -> Int]

Cards == Seq(Deck)

IsList(x) == x \in Seq({x[i] : i \in DOMAIN x})

ASSUME IngestionAssumption ==
  /\ UUIDs \subseteq Hands /\ NoHand \notin Hands
  /\ Default \in Settings
  /\ MaxEntries \in Nat \ {0} /\ MaxRequests \in Nat /\ MaxInt \in Nat
  /\ StaleReads \in BOOLEAN /\ SessionsExpire \in BOOLEAN
  /\ \A b \in Bodies : /\ b.hand \in Hands \union {NoHand}
                       /\ b.hero = Absent \/ IsList(b.hero)
                       /\ b.board = Absent \/ IsList(b.board)
                       /\ \A f \in DOMAIN b.settings : b.settings[f] \in Int

VARIABLES session,    \* session[h]: the item of hand h, or NoSession
          previous,   \* previous[h]: what it was before the last write
          written,    \* history: every item ever written
          issued,     \* hand ids generated so far
          sent,       \* the chunk messages on the queue, by content
          accepted,   \* history: plans answered with 202
          requests,   \* how many requests there have been
          stage,      \* stage[e]: where execution e is
          hand,       \* hand[e]: the hand id of its request
          asked,      \* asked[e]: the body of its request
          plan,       \* plan[e]: the request as resolved
          next        \* next[e]: the first chunk of its next batch

table == <<session, previous, written>>
history == <<issued, requests>>
locals == <<stage, hand, asked, plan, next>>
vars == <<table, history, sent, accepted, locals>>

Plans == [hand : Hands, hero : Cards, board : Cards, settings : Settings]

Count(p) == ChunkCount(p.settings["total_iterations"], p.settings["iterations_per_chunk"])

\* The message of chunk c: its seed is a hash of exactly these four.
Message(p, c) ==
  [hand |-> p.hand, version |-> Len(p.board), chunk |-> c, expected |-> Count(p),
   hero |-> p.hero, board |-> p.board, opponents |-> p.settings["opponents"],
   iterations |-> ChunkSize(p.settings["total_iterations"], p.settings["iterations_per_chunk"], c),
   seed |-> <<p.hand, Len(p.board), c, p.settings["base_seed"]>>]

Messages(p) == {Message(p, c) : c \in 0..(Count(p) - 1)}

TypeOK ==
  /\ \A h \in Hands : /\ session[h] = NoSession \/ session[h] \in Plans
                      /\ previous[h] = NoSession \/ previous[h] \in Plans
  /\ written \subseteq Plans /\ accepted \subseteq Plans
  /\ issued \subseteq UUIDs /\ requests \in 0..MaxRequests
  /\ \A m \in sent : /\ m.chunk \in 0..(m.expected - 1) /\ m.iterations > 0
                     /\ m.version \in 0..5 /\ m.opponents > 0
  /\ stage \in [Executions -> {"idle", "read", "put", "enqueue"}]
  /\ hand \in [Executions -> Hands \union {NoHand}]
  /\ \A e \in Executions : /\ asked[e] = Absent \/ asked[e] \in Bodies
                           /\ plan[e] = NoSession \/ plan[e] \in Plans
  /\ next \in [Executions -> Nat]

Init == /\ session = [h \in Hands |-> NoSession]
        /\ previous = [h \in Hands |-> NoSession]
        /\ written = {} /\ issued = {} /\ sent = {} /\ accepted = {}
        /\ requests = 0
        /\ stage = [e \in Executions |-> "idle"]
        /\ hand = [e \in Executions |-> NoHand]
        /\ asked = [e \in Executions |-> Absent]
        /\ plan = [e \in Executions |-> NoSession]
        /\ next = [e \in Executions |-> 0]

-----------------------------------------------------------------------------
\* Faulty variants, each a bug the handler could have had; no action uses them.
OnlyLonger(body, existing) ==                          \* prefix not compared
  /\ body.hero = Absent => existing # NoSession
  /\ (body.hero # Absent /\ existing # NoSession) => body.hero = existing.hero
  /\ (body.board # Absent /\ existing # NoSession) => Len(body.board) >= Len(existing.board)
AnyHero(body, existing) ==                             \* hero not compared
  /\ body.hero = Absent => existing # NoSession
  /\ (body.board # Absent /\ existing # NoSession) =>
       /\ Len(existing.board) <= Len(body.board)
       /\ SubSeq(body.board, 1, Len(existing.board)) = existing.board
Ignored(e, lost) == TRUE                               \* "Failed" not looked at
EnqueueFirst == "enqueue"                              \* enqueue_chunks before put_session
NotChecked(s) == TRUE                                  \* settings not validated
AnyCards(hero, board) ==                               \* duplicates not looked for
  /\ Len(hero) = 2 /\ Len(board) <= 5
  /\ \A i \in 1..2 : hero[i] \in Deck
  /\ \A i \in DOMAIN board : board[i] \in Deck
-----------------------------------------------------------------------------
\* Resolving a request against the session that was read.

Extends(new, old) == Len(old) <= Len(new) /\ SubSeq(new, 1, Len(old)) = old

ResolveSetting(body, existing, f) ==
  IF f \in DOMAIN body.settings THEN body.settings[f]
  ELSE IF existing # NoSession THEN existing.settings[f] ELSE Default[f]

Resolved(h, body, existing) ==
  [hand |-> h,
   hero |-> IF body.hero # Absent THEN body.hero ELSE existing.hero,
   board |-> IF body.board # Absent THEN body.board
             ELSE IF existing # NoSession THEN existing.board ELSE <<>>,
   settings |-> [f \in SettingNames |-> ResolveSetting(body, existing, f)]]

\* resolve_hero and resolve_board: what the session forbids.
Continues(body, existing) ==
  /\ body.hero = Absent => existing # NoSession
  /\ (body.hero # Absent /\ existing # NoSession) => body.hero = existing.hero
  /\ (body.board # Absent /\ existing # NoSession) => Extends(body.board, existing.board)

\* validate_cards.
ValidCards(hero, board) ==
  LET cards == hero \o board
  IN  /\ Len(hero) = 2 /\ Len(board) <= 5
      /\ \A i \in DOMAIN cards : cards[i] \in Deck
      /\ \A i, j \in DOMAIN cards : cards[i] = cards[j] => i = j

ValidSettings(s) ==
  /\ s["opponents"] > 0 /\ s["total_iterations"] > 0
  /\ s["iterations_per_chunk"] > 0 /\ s["base_seed"] # 0

Valid(p) == ValidCards(p.hero, p.board) /\ ValidSettings(p.settings)

FitsInt64(n) == -MaxInt - 1 <= n /\ n <= MaxInt

\* derive_chunk_seed packs these as int64, and raises if they do not fit.  (No other
\* setting is held to a width before a worker decodes it.)
Packs(p) == FitsInt64(p.settings["base_seed"]) /\ FitsInt64(Count(p) - 1)

\* The request becomes a plan.
IsPlanned(body, existing, resolved) ==
  Continues(body, existing) /\ Valid(resolved) /\ Packs(resolved)

-----------------------------------------------------------------------------

\* The handler is back, whatever it answered.
Return(e) == /\ stage' = [stage EXCEPT ![e] = "idle"]
             /\ hand' = [hand EXCEPT ![e] = NoHand]
             /\ asked' = [asked EXCEPT ![e] = Absent]
             /\ plan' = [plan EXCEPT ![e] = NoSession]
             /\ next' = [next EXCEPT ![e] = 0]

\* parse_body, and body.get("hand_id") or uuid4.
Receive(e, body) ==
  /\ stage[e] = "idle" /\ requests < MaxRequests
  /\ requests' = requests + 1
  /\ \E h \in Hands :
       /\ \/ body.hand = h /\ (h \in UUIDs => h \in issued) /\ UNCHANGED issued
          \/ body.hand = NoHand /\ h \in UUIDs \ issued /\ issued' = issued \union {h}
       /\ hand' = [hand EXCEPT ![e] = h]
  /\ asked' = [asked EXCEPT ![e] = body]
  /\ stage' = [stage EXCEPT ![e] = "read"]
  /\ UNCHANGED <<table, sent, accepted, plan, next>>

\* An eventually consistent get_item.
Readable(h) == {session[h]} \union IF StaleReads THEN {previous[h]} ELSE {}

AfterResolve == "put"

\* get_session, then everything up to put_session, which touches no shared state:
\* the request is refused with 400, or 500 if it does not pack, or becomes a plan.
ReadSession(e) ==
  /\ stage[e] = "read"
  /\ \E existing \in Readable(hand[e]) :
       LET resolved == Resolved(hand[e], asked[e], existing)
       IN  \/ /\ IsPlanned(asked[e], existing, resolved)
              /\ plan' = [plan EXCEPT ![e] = resolved]
              /\ stage' = [stage EXCEPT ![e] = AfterResolve]
              /\ UNCHANGED <<hand, asked, next>>
           \/ /\ ~IsPlanned(asked[e], existing, resolved)
              /\ Return(e)
  /\ UNCHANGED <<table, history, sent, accepted>>

\* put_session: the whole item, unconditionally.
PutSession(e) ==
  /\ stage[e] = "put"
  /\ session' = [session EXCEPT ![hand[e]] = plan[e]]
  /\ previous' = [previous EXCEPT ![hand[e]] = session[hand[e]]]
  /\ written' = written \union {plan[e]}
  /\ stage' = [stage EXCEPT ![e] = "enqueue"]
  /\ UNCHANGED <<history, sent, accepted, hand, asked, plan, next>>

\* The entries of the next send_message_batch.
Batch(e) == {Message(plan[e], c) :
               c \in next[e]..(Least(next[e] + MaxEntries, Count(plan[e])) - 1)}

\* result["Failed"] is empty.
NoneFailed(e, lost) == lost = {}

\* One round of enqueue_chunks: the queue refuses some of the entries, and any
\* refusal ends the handler with 500.
SendBatch(e) ==
  /\ stage[e] = "enqueue" /\ next[e] < Count(plan[e])
  /\ \E lost \in SUBSET Batch(e) :
       /\ sent' = sent \union (Batch(e) \ lost)
       /\ \/ /\ NoneFailed(e, lost)
             /\ next' = [next EXCEPT ![e] = @ + MaxEntries]
             /\ UNCHANGED <<stage, hand, asked, plan>>
          \/ /\ ~NoneFailed(e, lost)
             /\ Return(e)
  /\ UNCHANGED <<table, history, accepted>>

\* 202, with "enqueued_chunks" the length of the plan.
Accept(e) ==
  /\ stage[e] = "enqueue" /\ next[e] >= Count(plan[e])
  /\ accepted' = accepted \union {plan[e]}
  /\ Return(e)
  /\ UNCHANGED <<table, history, sent>>

\* A call raises, or the execution is killed.
Abort(e) ==
  /\ stage[e] # "idle"
  /\ Return(e)
  /\ UNCHANGED <<table, history, sent, accepted>>

\* DynamoDB deletes an item past expires_at.
Expire(h) ==
  /\ SessionsExpire /\ session[h] # NoSession
  /\ session' = [session EXCEPT ![h] = NoSession]
  /\ previous' = [previous EXCEPT ![h] = session[h]]
  /\ UNCHANGED <<written, history, sent, accepted, locals>>

Finished ==
  /\ requests = MaxRequests
  /\ \A e \in Executions : stage[e] = "idle"
  /\ UNCHANGED vars

Next == \/ \E e \in Executions :
             \/ \E body \in Bodies : Receive(e, body)
             \/ ReadSession(e)
             \/ PutSession(e) \/ SendBatch(e) \/ Accept(e) \/ Abort(e)
        \/ \E h \in Hands : Expire(h)
        \/ Finished

Spec == Init /\ [][Next]_vars

-----------------------------------------------------------------------------

\* 202 is a promise: every chunk of the accepted plan is on the queue, whatever
\* batch failed before, and however many executions work on the hand.
AcceptedIsQueued == \A p \in accepted : Messages(p) \subseteq sent

\* A worker never computes for a hand the table has not heard of: the session of
\* exactly this plan was stored before its first message, so a crash between the
\* two leaves a session without work and never work without a session.
WorkHasSession == \A m \in sent : \E p \in written : m \in Messages(p)

\* Requests come one after the other, read their own writes, find the session alive,
\* and set nothing for a hand that they name.
OneByOne ==
  /\ \A e, f \in Executions : e = f
  /\ ~StaleReads /\ ~SessionsExpire /\ NoSession \notin Plans
  /\ \A b \in Bodies : b.hand # NoHand => DOMAIN b.settings = {}

\* What FanIn asks of its producer (OnePlanPerKey): all messages of one hand and
\* board version belong to one plan, chunk by chunk.  It holds for requests of a
\* hand that come one after the other, read their own writes, set nothing anew
\* and find the session alive; retries after a 500 included.
OnePlanPerKey ==
  \A m, n \in sent :
    (m.hand = n.hand /\ m.version = n.version) =>
      m.expected = n.expected /\ (m.chunk = n.chunk => m = n)

\* A hand's board never loses or exchanges a card that was known ("may only move
\* forward"), and its hero never changes.
BoardOnlyMovesForward ==
  [][\A h \in Hands : (session[h] # NoSession /\ session'[h] # NoSession) =>
        /\ Extends(session'[h].board, session[h].board)
        /\ session'[h].hero = session[h].hero]_vars

=============================================================================
