# A TLA+ model of the distributed Monte Carlo poker engine

The engine splits the estimate of a poker hand's equity into chunks, spreads the chunks over
Lambda workers through a queue, and adds the workers' integer results up in Redis. This
directory holds TLA+ models of that pipeline, TLC configurations that check them on small
instances, and TLAPS proofs of what matters most for every size of instance.

Start with `FanIn.tla` and the section "The fan-in" below; the rest stands beside it.

## 1. The system

| Part | Source | State it keeps | Operations |
|---|---|---|---|
| Ingestion Lambda | `cmd/ingestion-lambda/app.py` | a session per hand in DynamoDB | `POST /hands`: read session, resolve and validate, write session, enqueue chunks |
| Work queue | external (SQS), set up in `infra/terraform/main.tf` | messages, their visibility and receive counts | send, receive in batches, delete, redrive to the dead-letter queue, expire |
| Worker Lambda | `cmd/worker-lambda`, `internal/worker` | the batch in hand, the failures so far | decode, validate, simulate, apply, answer with the failed records |
| Aggregate store | `internal/redisagg/aggregator.go` | claims `processed:{h:v}:c`, hashes `aggregate:{h:v}`, each with a time-to-live | the Lua script, `HGETALL` |
| Redis client | `internal/redisagg/client.go` | one connection under a mutex | `Do` |
| Status Lambda | `cmd/status-lambda` | none | `GET /hands/{id}/results` |
| In-memory aggregator | `internal/worker/aggregate.go` | `seen`, `snapshots` under a mutex | `ApplyChunkResult` |
| Chunk planner | `internal/poker/chunk.go`, `build_chunk_messages` in `app.py` | none | cut a request into chunks, derive seeds |
| Simulator | `internal/poker/simulate.go` | none | `Simulate`, `MergeResults` |
| Evaluator | `internal/poker/evaluator.go` | none | `Evaluate` |
| Cards | `internal/poker/card.go` | none | parse, format, deck |
| Command lines | `cmd/sim`, `cmd/worker-local` | none | drive the planner and simulator, or one worker message |

How they interact: ingestion calls DynamoDB and SQS one call at a time; SQS calls workers,
at least once per message; a worker calls the store through its client, synchronously; the
status Lambda reads the store. Nothing calls back. Workers and the status Lambda share only
the store, ingestion and workers only the queue.

What is hard here:

* a message delivered twice, or again while its first delivery runs; a worker killed after it
  applied a result and before it answered; a client that gives up on a script that runs later;
* three clocks that run independently: the queue's retention, the claim's time-to-live, the
  aggregate's (restarted by every chunk), and the session's besides;
* a batch that mixes records which succeed, fail and can never succeed;
* a read and an unconditional write with nothing between two requests for one hand;
* a reply that carries no request number, on a connection used by the next call;
* the aggregate's key not naming the plan that its chunks were cut from.

What makes each part correct: ingestion hands out one plan per hand and board, and says 202
only when all of it is queued; the queue and the workers lose no result they acknowledge; the
store counts a chunk once and reports complete for whole plans only; the client pairs replies
with requests; the planner covers its request exactly; the evaluator ranks by the best five
cards; the simulator deals every deal equally often and pays each pot once; the aggregator used
in tests answers as Redis does; what is published for a hand is a sum of one plan that was written
for it. `PROJECT.json` lists the hazards line by line with the properties that watch them.

## 2. The modules

| Module | Models | Uses |
|---|---|---|
| `Sums` | the sum of a function over a finite set | |
| `Counters` | the five counters of a result, `MergeResults` | `Sums` |
| `ChunkBarrier` | abstract: each chunk counted once, totals are sums | `Counters` |
| `RedisAggregator` | the Lua script and both keys' expiry | `Counters` |
| `FanIn` | queue, workers, calls to Redis, over the store; implements `ChunkBarrier` | `RedisAggregator` |
| `Rpc` | abstract: an at-most-once call | |
| `RedisClient` | `Client.Do` and its connections; implements `Rpc` | |
| `ChunkSizes` | number and sizes of chunks in closed form | |
| `ChunkPlan` | the loop of `BuildChunkPlan` over ints of a given width | `ChunkSizes`, `Sums` |
| `Ingestion` | the ingestion Lambda on several executions | `ChunkSizes` |
| `Evaluator`, `HandRanking` | `Evaluate`; the rules of poker as its reference | |
| `Simulation` | `Simulate`, deck and shuffle, showdown and counters | `Evaluator`, `Counters` |
| `LocalSim` | `cmd/sim`: plan, simulate each chunk, merge, print | `ChunkPlan`, `Simulation` |
| `InMemoryAggregator` | `ApplyChunkResult` under its mutex | `Counters` |
| `Aggregators` | the Redis script and the in-memory aggregator given the same results | `RedisAggregator`, `InMemoryAggregator` |
| `Pipeline` | ingestion, workers, store and status, from POST to GET | `Ingestion`, `RedisAggregator` |
| `RedisAggregatorProofs`, `AggregatorsProofs`, `FanInProofs`, `RedisClientProofs`, `PipelineProofs` (ingestion, then the pipeline), `LocalSimProofs` (planner, simulator and program), `HandRankingProofs` (evaluator) | proofs | the module they are about |
| `ArithmeticProofs` | what the other proofs share: rounding up, finite sums, merged results, enumerating a set by an order | `Counters`, `ChunkSizes` |
| `MC*` | the small instances that TLC checks | |

Each component has a short block of "faulty variants": operators no action uses, each the code
with one plausible bug in it. They serve to show that a property can fail: with the variant in
place of the definition it imitates, TLC finds the property violated (`mutants` in `PROJECT.json`).

### The fan-in (`RedisAggregator`, `FanIn`)

State against code:

| Variable | Stands for |
|---|---|
| `now` | the clock of the Redis server and of everything else, in ticks |
| `claim[k][c]` | expiry of `processed:{k}:c`; it exists while `now < claim[k][c]` |
| `agg[k]` | fields and expiry of the hash `aggregate:{k}` |
| `folded[k][c]` | history: how often chunk `c` is in the hash that is at `k` |
| `queue`, `sentAt`, `receives` | where a message is, since when, its receive count |
| `held`, `todo`, `failed` | a worker's batch, what its loop has not done, `BatchItemFailures` |
| `call` | its `Client.Do`: written ("sent") or run and not yet answered ("done") |
| `deadline` | when Lambda kills the invocation |
| `orphans` | EVALs on the wire whose caller has gone |

| Action | Code |
|---|---|
| `EnqueueChunk` | one entry of `enqueue_chunks` |
| `Poll` | the event source mapping, `nextInvocation` |
| `RejectBody` | `ProcessBody` fails before the aggregator is called |
| `StartCall`, `RunScript`, `AcceptReply`, `FailCall` | `ApplyChunkResult`, cut where it can be interrupted |
| `Respond` | `postInvocationResponse`, and the deletes it causes |
| `Crash` | exit, timeout, `log.Fatal`, lost response |
| `RunOrphan` | Redis runs a script whose caller gave up |
| `VisibilityTimeout`, `DeadLetter`, `Tick` | SQS and time |

Redis runs a script atomically, so the whole script is one action (`ApplyChunkScript`), its
claim, its seven hash commands and its `EXPIRE` together. A simulation depends on its message
alone, so its result is the constant `Delta[m]`. A record's place in its batch is not kept: the
loop may take the records in any order. An orphan may run until the deadline of the invocation
that left it; the client's own timeout (2 s) is far shorter than the Lambda's (120 s).

`Horizon` says that the last post, the queue's retention and one invocation together fit in the
time-to-live. It is an assumption of most results and **not** true of the deployed defaults,
which have retention and time-to-live both at 86400 s; see the findings.

### The Redis client (`RedisClient`, `Rpc`)

`pc[c]` follows a caller through `Do`: waiting for the mutex, dialling, writing AUTH, reading
its reply, writing the command, reading the reply. `wire[k]` and `answers[k]` are the two
directions of connection `k`; a connection that the client has closed may still carry its last
request to the server. A reply is the request it answers and whether it is an error; RESP framing
is not modelled (any framing error is an `IOError`). The two Lambdas each use their client from
one goroutine: the mutex serves other uses, the pairing of replies matters even to one caller,
whose next record follows a call that timed out. `Rpc` is what `FanIn` assumes of a call. In both, `ran[r]`
counts how often the server ran request `r`: a client that sent a request again on a new connection would run it
twice, which is no step of `Rpc`.

### Ingestion (`Ingestion`, `ChunkSizes`)

`stage[e]` is "read" before `get_session`, "put" before `put_session`, "enqueue" inside
`enqueue_chunks`. All that happens between two calls to AWS is one action: `ReadSession` reads,
resolves, validates and builds the plan. `SendBatch` lets the queue refuse any subset of a batch;
`Abort` ends a request anywhere. A message is a record of its fields and its seed the tuple that
is hashed. A write that Lambda kills is taken to have landed before or never. Three constants
name what the environment may do: `Executions` (how many requests overlap), `StaleReads` (the
default, eventually consistent `get_item`), `SessionsExpire` (DynamoDB's time-to-live). Cards
are compared as written (`"as"` and `"As"` are different to `resolve_hero`, too). Python's ints have no
bound and `validate_settings` looks at signs only. `MaxInt` is the largest int of 64 bits, a small number in the runs. Its one
effect in ingestion is that `struct.pack` raises in `derive_chunk_seed` (`Packs`) when a number of the
seed does not fit, so that the request fails before anything is written.

### Planner and evaluator

`ChunkPlan` validates the request (`labelled` stands for its hand id, version and seed being set) and runs the loop of `BuildChunkPlan` step by step over two's complement ints, with Go's
truncating division and the panic of `make` on a negative capacity. The Python producer has no
width; it cuts as `ChunkSizes`, which `LoopIsClosedForm` relates to the loop. `Evaluator` keeps
the structure of `Evaluate`, masks as sets of ranks; `HandRanking` deals every hand of a deck,
so that hands are states, and defines the value of five cards independently from the shape of their ranks.

### Simulation and `cmd/sim` (`Simulation`, `LocalSim`)

| Variable | Stands for |
|---|---|
| `req`, `result`, `scratch` | the locals of the same names of `Simulate` |
| `draws` | history: what `rng.Intn` chose in this iteration |
| `base`, `partials`, `printed` | the base request, `partialResults` and what `printResult` is given |
| `stage`, `remaining`, `sizes` | `BuildChunkPlan`, as in `ChunkPlan` |

One `Swap` is one round of `partialShuffle`; its random number is any position it may choose.
`Settle` is the rest of an iteration: the values of all seats, the comparison, the counters and
the fresh copy of the deck. Nothing is said of probabilities directly. Instead `EachDealOnce`
computes, from the cards dealt, the choices that must have led to them: if that is a function, each
deal has exactly one sequence of choices, all sequences being equally likely, so the estimate is
unbiased. `PotIsShared` takes each player as the hero of the same deal and adds up what they would be credited.
`LocalSim` runs planner, simulator and merge in the order of `main`; any error is `log.Fatal`.
A card is its number, as in the code; a string that is not a card is a number outside `Cards`.

### The two aggregators (`InMemoryAggregator`, `Aggregators`)

The README of the repository calls the in-memory aggregator a stand-in for Redis. It cuts
`ApplyChunkResult` into the check before the mutex, `Lock`, the claim in `seen` together with
the copy of the snapshot, and the store of the sum with the deferred `Unlock`. In `Aggregators` each
call that returns is given to the script as well, in the same order, and time passes for Redis
only. A caller between its claim and its sum has not answered yet, so its chunk counts as not yet claimed.

The two do not check the same. `aggregate.go:57-68` refuses a result without a hand id or with a
negative version (`Unnamed`), with a chunk id outside the plan, or without iterations; `aggregator.go:95` asks only for a
positive number of chunks. `Given` has both kinds, a call that is refused (`Refuse`) is given to Redis all the
same (`GiveToRedis`), and `disputed` is the set of aggregates that were given a result which only Redis takes. `StandInAgrees` says
until when and how far the two agree: before the first time-to-live is over, what the in-memory aggregator
counts Redis counts, for every aggregate; and they hold the same for every aggregate that is not disputed. No
worker makes one disputed: `ChunkMessage.Validate` (`message.go:33-64`) and `SimulateChunk` come before either
aggregator and let no such result through.

### From POST to GET (`Pipeline`)

`Pipeline` composes `Ingestion`, the store and the view of the status endpoint, with what `FanIn` refines: a
message on the queue is worked any number of times in any order (`Work`), or given up (`GiveUp`): dead-lettered
after its last receive or expired, whether every worker refuses it or three deliveries of a good message crashed
(`main.tf:125-131`). One that was given up may still be worked, for its script may be on the wire.

`Simulates` collects what a worker asks of a message, in the order of the code:

* `Decodes`: `json.Unmarshal` into Go's ints (`message.go:24`), which Python's ints may exceed;
* `ValidMessage`, `ParsesCards` and the duplicates between the lists: `Validate`, `parseCardList`, `Simulate`;
* `EnoughCards`: the count of the deck, where twice the opponents may wrap (`simulate.go:47`). A crowded table that
  passes it panics on a card that is not there, unless an early opponent is better in every deal; `Beaten`, a
  constant, says for which messages that is so, and these publish a result.

The result of a message is the constant `Simulated`, a function of the message. This module answers what `FanIn`
assumes: whether messages of one key come from one plan, and what that means to a reader.
It covers one lifetime of an aggregate: the clock of Redis stands still, and no claim or aggregate expires.

## 3. What the runs show

States and times are of two TLC workers.

| Run | Shows | States | Bounds |
|---|---|---|---|
| `aggregators` | the script refuses a chunk only if the live aggregate has it, no script run resets one, and the in-memory aggregator holds the same until something expires, but for aggregates that were given a result which only Redis takes | 2.1 M, 120 s | 2 goroutines, 2 aggregates, 4 results, 2 that only Redis takes and 1 that neither takes, 2 times-to-live |
| `fanin_batches` | batches that mix poison and good records, on two workers: acknowledged means folded, complete means the whole plan | 1.2 M, 80 s | 3 messages, batches of 2, 2 receives |
| `fanin_repost` | a chunk sent twice beside redelivery and orphans: counted once, counters are the sum of what is counted, complete is final, refinement of `ChunkBarrier` | 0.5 M, 90 s | 3 messages, batches of 1, 2 receives |
| `fanin_liveness` | every message settles, every plan reaches its barrier or loses a message | 110 K, 100 s | posts at instants 0 and 1, batches of 1 |
| `client` | no reply is taken for another's, no request runs twice, no command before AUTH, a pooled connection is clean, refinement of `Rpc`, every call returns | 52 K, 20 s | 2 callers, 2 calls each, 3 connections |
| `pipeline` | requests one after another with refused entries, crashes and retries, beside workers and redelivery: one plan per hand and board, boards only grow, what is published is a partial sum of one written plan, workers refuse for numbers only, every accepted plan is answered unless the queue gave one of its messages up | 158 K, 150 s | 3 requests of 11 bodies for two kinds of id, 1 execution, a deck of 9, ints up to 9, at most 1 good message given up |
| `ingestion_faults` | overlapping requests, stale reads, expiry: 202 means all is queued, no work without its session | 46 K | 2 executions, 3 requests, batches of 2 |
| `local_sim` | plans are exact for every request that fits, the loop is the closed form, nothing is overdrawn even if it wraps; every deal from exactly one sequence of choices, each pot paid once, the printed result is of the whole request | 40 K, 28 s | 5-bit ints, all of them; 6 of the requests on 7 tables of a 13-card deck |
| `evaluate` | `Evaluate` is the best five cards of every hand but for two kinds, exactly characterised | 63 K, 50 s | a deck of 18 cards |

Why the bounds are enough. In `FanIn` each hazard takes at most two deliveries of a chunk and one
other chunk: a redelivery that overlaps, an orphan beside a retry, a poison batch peer. Two
workers and two receives give all of these (`fanin_deployed_ttl` uses three receives), and `Horizon` leaves
two or three ticks to post, wait and run; the proofs lift the bound. A batch of more than two records
adds no new relation between records. The clock stops at `MaxTime`, later than any message lives.
In `RedisClient` a mispaired reply needs one caller that gives up and one that follows; three
connections let an abandoned request run after its replacement. In `Ingestion` a batch of one or two
stands for ten, so that plans of two or three chunks take one to three batches. The deck of 18 cards holds
every category, five to seven suited cards, wheels below and beside higher straights, two threes
of a kind, three pairs, and fours of a kind with single cards above and below a pair.
In `local_sim` every request of five-bit ints is planned, which takes the sum at `chunk.go:46` past
the largest int in both directions; those followed into `Simulate` have one chunk, several, a
smaller last one, the default number of iterations, and an empty plan from a sum that wraps. The tables have a full board, a
flop (so that four cards are drawn in turn), a board that plays for all, more opponents than
cards, a duplicate, and a card that does not parse. A bias of the shuffle shows with two draws.
The pipeline's deck of nine has cards for one opponent and not for two. Its ints end at nine, the least that
counts the deck: five opponents wrap (one hero loses to the first of them, the other's simulation panics), and a plan of
eleven iterations in chunks of ten has one chunk that does not decode and one that is counted. A seed of ten does not
pack. One good message given up (`MaxGivenUp`) leaves a plan of two chunks running; a second adds nothing to it. A batch is one entry there, so
that a plan can be left half sent by a refusal; three requests give a failure, its retry and a continuation.
The `aggregators` clock passes two times-to-live, so that a claim can expire beside a live
aggregate and the aggregate after it. Of the results that only Redis takes there are a chunk beyond the plan and one without iterations;
negative chunk ids and unnamed aggregates are in the theorem only, where `Given` is any set of results.
Every run has the clock at a few ticks only; posts at different instants are in `fanin_liveness`, and
in the proofs, which place no bound on any of these constants.

### Disagreements found

Each is a run that TLC must find violated.

* `fanin_deployed_ttl`. A claim's time-to-live starts when its chunk is applied and is not
  refreshed; the aggregate's is refreshed by every chunk. With time-to-live and retention equal, as
  deployed, a message applied at once, never acknowledged and received again at the end of its
  retention finds its claim gone and its aggregate alive, and counts twice.
* `ingestion_race`. `put_session` is unconditional: of two overlapping requests the second may take
  a hand's board back, or exchange it.
* `evaluate_best_five`. With an ace in play a straight from two to six is valued as the wheel.
  `evaluate` shows that there is one more kind of hand, and only one, whose value is not that of
  its best five cards: the kicker of four of a kind is the highest single card even when a pair is
  higher. On a board of four sevens and a two, a pair of aces loses to king-queen.

One thing is assumed rather than checked. `FanIn` asks for `OnePlanPerKey`, and `pipeline`
shows (`OneClientOnePlan` proves) that ingestion provides it for requests that come one after another,
leave the stored settings alone and find
their session alive. A continuation that sends other settings is accepted (`app.py:44-54`, although
`docs/architecture.md:58` says that continuations load them from DynamoDB); keys do not name the
plan and the script overwrites `expected_chunks` (`aggregator.go:39`), so its chunks mix with those
of the first plan, or are refused as duplicates of them. The same happens to a hand that is posted again under
its old id after its session has expired and before its claims have. Both are listed among the hazards with no property.

### Fairness

`FanIn!Fairness` is weak fairness of a worker's steps (its loop and the client's timeouts go on),
of polling (the mapping polls while an execution is free), and of SQS's visibility timeout and
redrive. No action that is a success is fair by itself: a call may fail each time, a worker may crash
each time, the clock may stand still, and the receive limit alone makes messages settle. For the
client, `WF` of a caller's steps comes from the deadline set on every call (`client.go:67-71`),
and `SF` of `Lock` from Go's mutex, which hands over to a waiter after 1 ms of starvation.
`Pipeline!Fairness` says that a message which is neither counted nor given up will be one or the other, as long as there are any:
weak fairness of "some unsettled message is worked or given up", not of any one message nor of success. That is
what `EverySentSettles` of `FanIn` bears out: SQS offers a message again until it is acknowledged, has had its
last receive, or has expired. So `AcceptedIsAnswered` has the escape that `PlanResolves` has: a plan one of whose messages
was given up may stay running for ever. Nothing is assumed of clients, and none of the
ingestion Lambda: a plan half sent stays so, and is not `accepted`.

## 4. What is proved

`tlapm` proves the following for all values of the constants that satisfy the modules' assumptions.

| Theorem | Assuming | States |
|---|---|---|
| `StoreTypeCorrect`, `ClaimsExpireFirst`, `RefusalIsSafe`, `ProgressIsMonotone` | | the four properties of the store in `aggregators`, for any time-to-live |
| `StandInIsRedis`, `MutexTypeCorrect` | | until a time-to-live is over, what the in-memory aggregator counts Redis counts, and they hold the same for every aggregate that was given nothing which only Redis takes, for any set of results; the mutex excludes |
| `TypeCorrect` | | `TypeOK` of `FanIn`, for any time-to-live |
| `AtMostOnce` | `Horizon` | no chunk counts twice |
| `AcknowledgedIsFolded` | `Horizon` | what leaves the queue by acknowledgement is in the aggregate |
| `CompleteIsWhole`, `CompleteStays` | `Horizon`, `OnePlanPerKey` | complete means the whole plan, once, and never changes |
| `FanInImplementsBarrier` | `Horizon` | the fan-in implements `ChunkBarrier` |
| `ClientTypeCorrect`, `CommandsFollowAuth`, `PoolStaysClean` | | the three invariants of `client`, for any number of goroutines, calls and broken connections |
| `ClientImplementsRpc` | | the client implements `Rpc`, the call that `FanIn` assumes: no reply is taken for another's and no request runs twice |
| `PublishedIsASum` | `Horizon`, `OnePlanPerKey` | the counters of an aggregate are the sum of its chunks' results, each once |
| `PlannerTypeCorrect`, `PlansAreWhole`, `LoopMakesClosedForm`, `LoopNeverOverdraws` | | the four properties of the planner, for ints of any width |
| `ProgramRunsPlanner` | | `cmd/sim` implements the planner: `RunSpec => Spec` |
| `SimTypeCorrect`, `DealsAreUnbiased`, `PotIsPaidOnce` | | the three properties of the simulator, for any part of the deck, any table and any number of iterations |
| `PrintedIsWhole` | | what `cmd/sim` prints is a result of the whole request, however it is cut |
| `IngestionTypeCorrect`, `AcceptedStaysQueued`, `WorkFollowsSession` | | the three properties of `ingestion_faults`, for any number of executions that race, stale reads and expiry included |
| `OneClientOnePlan`, `OneClientBoardGrows` | `OneByOne` | one plan per hand and board, and boards only grow, for requests one after another |
| `OnlyNumbersAreRefused` | | what ingestion accepts, workers can simulate, but for numbers that are no int or a table with more players than cards |
| `PublishedIsOfOnePlan` | no aggregate expires, `OneByOne`, `ResultsAreCounters`, `ChunksAreEnough` | what is published is a partial sum of one plan that was written, and complete is all of it |
| `OnlyTheseAreMisjudged`, `EvaluateIsBestUnlessMisjudged` | | every hand of five to seven cards, of any deck, has the value of its best five, but for exactly the two kinds of hand of section 3; no value is too high |

The store by itself needs no assumption on time: `RedisInv` says that claims expire no later than
their hash and that an unexpired claim's chunk is folded. That a chunk counts *once* does need it: the
argument is that under `Horizon` every script runs before instant `TTL`, when no claim can have expired.
The invariant `IInv` of `FanInProofs` therefore bounds, beside the store, when messages are sent and
still queued (`SentInTime`), when invocations end (`RunsInTime`) and orphans vanish (`OrphansInTime`);
`LoopInv`, `DoneIsFolded` and `KeptIsFolded` then carry "processed without failure" from the
script's run through the loop to the response, where `AckedIsFolded` needs it. None is inductive
alone: a crash hands a call to `orphans`, a `Respond` depends on what the loop dropped from `todo`.
`PlanInv` adds that an aggregate's count is the number of its chunks and that
they come from one plan; complete is then a matter of cardinalities. `SumsUp` adds that the counters are the
sum over those chunks (`Parts`): a script that is not refused adds a result that is not among them. The refinement shows that a
script run is a `Count` or a stutter and that no other step touches the store.

For the client, `CInv` says that a connection, pooled, in use or given up, carries at most one
message, in one direction (`OneAtATime`), and that what is on the pooled one is the mutex holder's
(`CallerAt`): so the reply that is read is the reply of the request that was written. `WrittenOnce` says that a
request that a connection still carries, a broken one too, has not run and is on no other, and `NotYetWritten` that one which
is about to be written is on none and has not run: so each runs once at most. This needs to know that no new connection is an old one (`NewIsQuiet`).

For the planner, `LoopInv` gives `remaining` in closed form, and as what the sizes so far leave of the total; the
lemmas `RoundingUp` (all chunks reach the total, all but the last do not) and `Wrapping` do the arithmetic.

For the simulator, `SimInv` says that a deck `scratch` is reached by the swaps recorded in `draws`: some history `h`
starts with what `RemoveKnown` left and goes from each deck to the next by one swap of a position with one not
before it (`Shuffles`). Every such deck is an order of the free cards (`SwapIsOrder`), and position `i` is never
touched after draw `i`. `DealDetermines` then goes through the draws in turn: the deck before draw `i` is known, the card
that was dealt lies at one place in it, and that place is the draw. `PotIsShared` comes from the set of the best
hands at the table: exactly its members are credited, `Pot \div n` each for `n` of them (`WinnersArePaid`), whatever
`Evaluate` returns as long as it is a number (`EvaluateType`). For the program, `Sound` says what a result of `n`
iterations has to be; it holds of nothing, of one outcome, and of a sum (`SoundPlus`), so it passes from the
iterations to a chunk and from the chunks to what is printed. `RunInv` has the sum of the partial results sound for the sum
of the sizes of their chunks, and `PlansAreWhole` makes that sum the total.

For ingestion, neither theorem is inductive: a message is on the queue in the middle of a plan,
while other executions write and overwrite the session. `EnqueuedSoFar` says that an execution
between two batches has written its plan and that every chunk before `next` is sent; `PlanIsValid` and
`WrittenIsValid` carry "validated" from `ReadSession` to the messages, and `RequestsKnown` has every
plan begin at chunk 0. The lemma `ChunkIsPositive` (from `RoundingUp`, shared with the planner) shows that no
message has zero iterations. Nothing in the argument depends on which session was read.

The two properties of one client do depend on it. `OneByOne` asks for one execution, consistent
reads, no expiry, and no settings for a hand that the client names. `SessionIsNewest` says that the stored item
continues (`Follows`) every item that was ever written for its hand; two of these whose boards are as long are
then equal. It needs `PlanFollows` between read and write, and `IdsAreIssued`: an id that uuid4
returns has no item, so that a request with settings of its own is always the first of its hand.

`PipelineProofs` uses that invariant: `OnlyNumbersRefuse` shows that for a message of a valid plan every check
of the worker but those of its numbers follows from those of `app.py`, though the two compare the cards
differently (all at once; list by list, then together).

`PublishedIsOfOnePlan` joins this to `OneClientOnePlan`. Its invariant says of every aggregate that nothing was ever heard of it
or it `Holds` a part of a plan that was written; the lemma `OnePlanAtKey` (from `SessionIsNewest`) makes a worker's message one of that same plan,
and `MessagesAreCount` makes "complete" mean all of them. The hypotheses are those of the run: `ResultsAreCounters` is what
`SimTypeCorrect` shows of `Simulate`; `ChunksAreEnough` says that the finite set `ChunkIds` has the chunks of every plan that the clients' settings
can ask for (`SettingsInv` carries that to the plans). TLC evaluates `OneByOne` and `ChunksAreEnough` for the instance of `pipeline`.

For the aggregators, the two halves of `StandInAgrees` are kept apart, since a result that only Redis takes may break the second.
Each needs three things beside it: `CallersInv` (the copy of the snapshot is
still the snapshot), the mutex (the one caller that has claimed and not stored is the one that
stores), and `NotBeforeTTL` (every expiry ever set is at or after the end of the first time-to-live). `ValidIsDelta` says
that Redis takes whatever the in-memory aggregator takes.

`OnePlanPerKey` is what `FanIn` asks of its producer, and `OneClientOnePlan` proves the property of the
same name of the messages of `Ingestion`. `ingestion_race` shows that without `OneByOne` boards do not only grow.

A word on sums. The theorems of the library that argue by induction on a set take an operator as a parameter and cannot be used here.
`TotalAdd` (a sum over one element more) is proved without them: that the function inside
`MapThenSumSet` exists and meets its recursion comes from the well-foundedness of proper subsets of a finite set, with the least
counterexample taken from a *set* of subsets. All other facts on sums (`TotalType`, `TotalRemove`, `MergedAdd` and
so on) are proved the same way or from it.

For the evaluator (`HandRankingProofs`), the deck is any part of the 52 cards and the only invariant is that a hand is at most
seven of its cards; the whole of it is the function. The reference looks at 21 fives of a hand, and no prover will: the argument
goes through what the cards *make*. `IsMade` says by counts of ranks and by suits alone that a category and its ranks can be had
from some cards, whether five or seven; it never asks for the best.

1. Five cards make what they are worth (`FiveMake`), and what five of the cards make, the cards make (`MoreCardsMake`).
2. Whatever the cards make, some five of them are worth at least that (`WorthAsMuch`): at least, because the five
   suited cards that are picked for a flush may be a straight flush. So the best five are worth the highest score that is made (`BestIsMade`).
3. `encode` orders scores by category, then by each rank in turn (the lemmas on `Num`, ranks as digits of base 16), and `topRanks`
   gives the highest ranks in order (`TopRanks`, from its closed form `Descending`).
4. The branches of `Evaluate` are taken from the highest category down. The chain `NoStraightFlush` to `NoPair` carries
   `NoneAbove`, that nothing above a category is made, from each branch that is not taken to the next.
5. One lemma for each branch shows that its score is made and that nothing made in its category exceeds it, or, for the wheel and for the kicker of
   four of a kind, that something made does exactly when `Misjudged` says so.

That there are no more than seven cards matters in 5. Neither five suited cards nor the six ranks from ace to six leave room for four of a kind,
so the two kinds of misjudged hand exclude each other (`RoomBesideLowSix`), and beside four of a kind a pair leaves room for one more card
only, so that the kicker that is missed is that pair (`RoomForTwo`, `RoomForThree`).

Only model-checked: `EverySentSettles`, `PlanResolves`, `EveryCallReturns` and `AcceptedIsAnswered`, since liveness needs fairness and `ENABLED`, which are
outside the prover. Every invariant and every action property that a passing run checks is proved.

## 5. What is not modelled

* Seeds and the random source: a choice is any choice, hashes are opaque tuples. The two producers
  hash with different functions (FNV-1a and BLAKE2b), so a local plan does not reproduce a deployed
  one; no property speaks of it.
* Parsing and formatting of JSON, RESP, cards and HTTP, beyond whether they fail. Of
  `status-lambda` this leaves only what it answers for a key (`Status`); its request parsing, its codes and its
  invocation loop, which has no state, are left out.
* Lua's doubles and Redis's 64-bit counters: a million chunks of ten thousand iterations
  stay far below 2^53.
* A chunk result of a table so large that twice its opponents wrap (`simulate.go:47`): `Pipeline` has that it is published, not
  what it is worth, and `LocalSim` assumes that twice the opponents of a table fit in an int.
* Cancelled contexts and negative counters in the in-memory aggregator: nothing calls it with either.
* `Equity`, the quotient that is printed: it is a function of two counters.
* How long a simulation takes: a worker that runs into its timeout is a `Crash` of `FanIn`.
* `cmd/worker-local`, which processes one message in one process, `MessagesFromPlan`, which copies
  fields, and the infrastructure other than the limits that are constants of `FanIn`.
* The expiry of sessions and aggregates together, and overrides of settings, in one model: see the
  end of section 3.

## 6. Plan

Done: the fan-in, the store, the client, ingestion, planner, aggregators, pipeline, the simulator with `cmd/sim`, and the evaluator,
each with proofs of all the safety properties that its runs check. What would come next:

1. `StatusView`: what successive reads of one client may show, across expiry and re-posts, with
   the pipeline's clock running and settings overridden: two of the three hazards that have no property (the third is how long a chunk takes).
2. One theorem from `LocalSim` to `Pipeline`: that `Simulated` may be any result of `Simulate` (its hypothesis
   `ResultsAreCounters` is what `SimTypeCorrect` proves).
