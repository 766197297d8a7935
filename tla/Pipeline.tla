------------------------------ MODULE Pipeline ------------------------------
(***************************************************************************)
(* From POST /hands to GET /hands/{id}: the ingestion Lambda puts messages *)
(* on the queue, workers take any of them any number of times and in any   *)
(* order (what FanIn refines), and what they fold into Redis is what the   *)
(* status Lambda publishes.  One lifetime of the aggregates: the clock of  *)
(* Redis stands still, so that no claim and no aggregate expires.          *)
(***************************************************************************)
EXTENDS Ingestion, RedisAggregator

CONSTANTS Simulated(_),  \* the counters that simulating a message gives
          Beaten(_),     \* whether an opponent who has cards beats the hero, each deal
          MaxGivenUp     \* bound: messages given up that a worker could simulate

ASSUME PipelineAssumption ==
  /\ Keys = Hands \X (0..5)
  /\ IsFiniteSet(Deck) /\ Cardinality(Deck) <= MaxInt

VARIABLES dead           \* the messages given up: dead-lettered, or expired

pipeVars == <<vars, redisVars, dead>>

PipeInit == Init /\ RedisInit /\ dead = {}

Key(p) == <<p.hand, Len(p.board)>>

Unique(cards) == \A i, j \in DOMAIN cards : cards[i] = cards[j] => i = j

\* ChunkMessage.Validate.
ValidMessage(m) ==
  /\ 0 <= m.chunk /\ m.chunk < m.expected
  /\ Len(m.hero) = 2 /\ Len(m.board) <= 5
  /\ m.opponents > 0 /\ m.iterations > 0

\* parseCardList.
ParsesCards(cards) == (\A i \in DOMAIN cards : cards[i] \in Deck) /\ Unique(cards)

\* json.Unmarshal into ints (the seed is masked to 63 bits).
Decodes(m) == /\ FitsInt64(m.version) /\ FitsInt64(m.chunk) /\ FitsInt64(m.expected)
              /\ FitsInt64(m.opponents) /\ FitsInt64(m.iterations)

CardsLeft(m) == Cardinality(Deck) - Len(m.hero) - Len(m.board)

\* The missing board cards and two for every opponent.
CardsNeeded(m) == 2 * m.opponents + 5 - Len(m.board)

Crowded(m) == CardsNeeded(m) > CardsLeft(m)

\* The code's comparison, in which twice the opponents may wrap, once.
EnoughCards(m) ==
  LET needed == IF FitsInt64(CardsNeeded(m)) THEN CardsNeeded(m)
                ELSE CardsNeeded(m) - 2 * (MaxInt + 1)
  IN  needed <= CardsLeft(m)

\* ProcessMessage comes to ApplyChunkResult.  At a crowded table that passes the
\* comparison, it does so if no deal gets past the cards, for the rest of the
\* opponents are not looked at once one is better; else it panics.
Simulates(m) == /\ Decodes(m) /\ ValidMessage(m)
                /\ ParsesCards(m.hero) /\ ParsesCards(m.board)
                /\ Unique(m.hero \o m.board)
                /\ EnoughCards(m)
                /\ Crowded(m) => Beaten(m)

Delta(m) == [key |-> <<m.hand, m.version>>, chunk |-> m.chunk, expected |-> m.expected,
             counters |-> Simulated(m)]

\* A delivery that a worker processes, the first one or another, of a message that
\* was given up, too: its script may still be on the wire.
Work(m) ==
  /\ Simulates(m)
  /\ ApplyChunkScript(Delta(m))
  /\ UNCHANGED <<vars, now, dead>>

\* The queue gives a message up: its last receive failed, because every worker
\* refuses it or because of crashes, timeouts or Redis, or a day is over.
GiveUp(m) ==
  /\ Simulates(m) => Cardinality({n \in dead : Simulates(n)}) < MaxGivenUp
  /\ dead' = dead \union {m}
  /\ UNCHANGED <<vars, redisVars>>

Ingest == Next /\ UNCHANGED <<redisVars, dead>>

PipeNext == Ingest \/ \E m \in sent : Work(m) \/ GiveUp(m)

\* What the status endpoint answers for a hand and a board version.
Status(k) == IF ~Live(k) THEN "not_found" ELSE IF BarrierReached(k) THEN "complete" ELSE "running"

\* A message that is neither counted nor given up will be one or the other: a queue
\* offers it again until then.  Nothing is assumed of the clients, nor that any
\* execution of the ingestion Lambda finishes.
Unsettled(m) == m \notin dead /\ ~Claimed(Delta(m).key, m.chunk)

Fairness == WF_pipeVars(\E m \in sent : Unsettled(m) /\ (Work(m) \/ GiveUp(m)))

PipeSpec == PipeInit /\ [][PipeNext]_pipeVars /\ Fairness

-----------------------------------------------------------------------------

\* The sum of what a set of messages simulates to.
SumOfResults(messages) == Merged([m \in messages |-> Simulated(m)], messages)

\* The values that setting f of a plan can have: only the default and what some
\* client sends.
Values(f) ==
  {Default[f]} \union {b.settings[f] : b \in {x \in Bodies : f \in DOMAIN x.settings}}

\* ChunkIds, which is finite, has the chunks of every plan that can be asked for.
ChunksAreEnough ==
  \A t \in Values("total_iterations"), i \in Values("iterations_per_chunk") :
    (t > 0 /\ i > 0) => 0..(ChunkCount(t, i) - 1) \subseteq ChunkIds

\* Whatever the status endpoint publishes, at any moment, is the partial sum of one
\* plan that was written for that hand and that board: never a mixture of plans, of
\* boards or of heroes, and "complete" is the whole of it.
PublishedIsWritten ==
  \A k \in Keys : Live(k) =>
    \E p \in written :
      LET counted == {m \in Messages(p) : Claimed(k, m.chunk)}
      IN  /\ Key(p) = k
          /\ agg[k].expected = Count(p)
          /\ agg[k].completed = Cardinality(counted)
          /\ agg[k].counters = SumOfResults(counted)
          /\ Status(k) = "complete" <=> counted = Messages(p)

\* The two validations agree on cards and chunks: a worker refuses a message that
\* ingestion let onto the queue only for its numbers, which app.py does not bound.
\* They do not fit in Go's ints, or the deck has no cards for so many opponents.
OnlyNumbersFail == \A m \in sent : Simulates(m) \/ ~Decodes(m) \/ Crowded(m)

\* 202 is answered: a plan that was accepted is in the end published as complete,
\* unless the queue gave one of its messages up.
AcceptedIsAnswered ==
  []<>(\A p \in accepted : Status(Key(p)) = "complete" \/ Messages(p) \cap dead # {})

=============================================================================
