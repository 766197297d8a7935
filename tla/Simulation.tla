----------------------------- MODULE Simulation -----------------------------
(***************************************************************************)
(* Simulate of internal/poker/simulate.go, with the cards of card.go: the  *)
(* known cards leave the deck, and every iteration deals the rest of the   *)
(* board and two cards per opponent by a partial shuffle, compares the     *)
(* hands and adds to the counters.  The random source is any choice of     *)
(* swap; what the choices are worth as probabilities is EachDealOnce.      *)
(***************************************************************************)
EXTENDS Evaluator, Counters, Functions

CONSTANTS Cards,             \* the cards in play, by number: 0..51 in the code
          DefaultIterations  \* 100_000 in the code

ASSUME CardsAssumption == Cards \subseteq 0..51 /\ DefaultIterations \in Nat \ {0}

VARIABLES req,       \* the SimulationRequest
          scratch,   \* the copy of the deck that is being shuffled
          draws,     \* what rng.Intn chose in this iteration, as positions
          result,    \* the SimulationResult
          sim        \* "idle", "running", "failed" or "done"

simVars == <<req, scratch, draws, result, sim>>

\* The whole pot, in micros.
Pot == 1000000

Rank(card) == (card % 13) + 2

Suit(card) == card \div 13

Value(cards) == Evaluate({<<Rank(card), Suit(card)>> : card \in cards})

\* The cards of S in the order of the deck, which is that of their numbers.
InOrder(S) ==
  [i \in 1..Cardinality(S) |-> CHOOSE card \in S : Cardinality({c \in S : c < card}) = i - 1]

NewDeck == InOrder(Cards)

Known(r) == r.hero \o r.board

\* What is left keeps its order.
RemoveKnown(r) == InOrder(Range(NewDeck) \ Range(Known(r)))

Opponents(r) == IF r.opponents <= 0 THEN 1 ELSE r.opponents

MissingBoard(r) == 5 - Len(r.board)

\* Go's int; LocalSim has it fit.
Needed(r) == 2 * Opponents(r) + MissingBoard(r)

Refused(r) ==
  \/ Len(r.hero) # 2 \/ Len(r.board) > 5
  \/ Cardinality(Range(Known(r))) < Len(Known(r))
  \/ Needed(r) > Len(RemoveKnown(r))

SimInit == /\ req = [hero |-> <<>>, board |-> <<>>, opponents |-> 0, iterations |-> 0]
           /\ scratch = <<>> /\ draws = <<>>
           /\ result = ZeroCounters
           /\ sim = "idle"

-----------------------------------------------------------------------------
\* Faulty variants, each a bug the simulator could have had; no action uses them.
WholeDeck(i) == 1..Len(scratch)              \* rng.Intn(len(cards)), for every i
CopiedOver(a, i, j) == [a EXCEPT ![i] = a[j]]  \* cards[i] = cards[j] alone
ShareOfTied(tied) == Pot \div tied       \* the hero not counted among the tied
-----------------------------------------------------------------------------

\* The top of Simulate; r.iterations <= 0 asks for the default.
Enter(r, refused) ==
  /\ sim = "idle"
  /\ req' = [r EXCEPT !.iterations = IF @ <= 0 THEN DefaultIterations ELSE @]
  /\ result' = ZeroCounters
  /\ draws' = <<>>
  /\ \/ refused /\ sim' = "failed" /\ scratch' = <<>>
     \/ ~refused /\ sim' = "running" /\ scratch' = RemoveKnown(r)

Swapped(a, i, j) == [a EXCEPT ![i] = a[j], ![j] = a[i]]

\* i + rng.Intn(len(cards) - i)
Picks(i) == i..Len(scratch)

Looping == sim = "running" /\ result["iterations"] < req.iterations

\* One round of partialShuffle.
Swap ==
  /\ Looping /\ Len(draws) < Needed(req)
  /\ LET i == Len(draws) + 1
     IN  \E j \in Picks(i) : /\ scratch' = Swapped(scratch, i, j)
                               /\ draws' = Append(draws, j)
  /\ UNCHANGED <<req, result, sim>>

\* A deal is complete: seat 0 is the hero, the others draw after the board.
Dealt == Looping /\ Len(draws) = Needed(req)

Board == Range(req.board) \union {scratch[i] : i \in 1..MissingBoard(req)}

Seats == 0..Opponents(req)

Hole(seat) ==
  LET first == MissingBoard(req) + 2 * seat - 1
  IN  IF seat = 0 THEN Range(req.hero) ELSE {scratch[first], scratch[first + 1]}

HandValue(seat) == Value(Hole(seat) \union Board)

\* A tie's share of the pot, in whole micros.
Share(tied) == Pot \div (tied + 1)

\* What an iteration adds for the player at this seat: the loop over opponents.
Outcome(seat) ==
  LET mine == HandValue(seat)
      others == Seats \ {seat}
      tied == Cardinality({o \in others : HandValue(o) = mine})
      Add(field, micros) ==
        [f \in Fields |-> IF f \in {"iterations", field} THEN 1
                          ELSE IF f = "equity_micros" THEN micros ELSE 0]
  IN  IF \E o \in others : HandValue(o) > mine THEN Add("losses", 0)
      ELSE IF tied > 0 THEN Add("ties", Share(tied))
      ELSE Add("wins", Pot)

\* The rest of the iteration, and the copy of the deck for the next one.
Settle ==
  /\ Dealt
  /\ result' = Plus(result, Outcome(0))
  /\ scratch' = RemoveKnown(req) /\ draws' = <<>>
  /\ UNCHANGED <<req, sim>>

ReturnResult ==
  /\ sim = "running" /\ result["iterations"] >= req.iterations
  /\ sim' = "done"
  /\ UNCHANGED <<req, scratch, draws, result>>

Simulate == Swap \/ Settle \/ ReturnResult

-----------------------------------------------------------------------------

\* The types, and that shuffling loses and invents no card: scratch always is an
\* order of exactly the cards that are not known.
SimTypeOK ==
  /\ sim \in {"idle", "running", "failed", "done"}
  /\ result \in Counters
  /\ draws \in Seq(1..Cardinality(Cards))
  /\ sim = "running" =>
       /\ Len(scratch) = Cardinality(Cards) - Len(Known(req))
       /\ Range(scratch) = Cards \ Range(Known(req))

\* The choices that lead to a deal, read off the cards in the order they were dealt.
DrawsOf(deal) ==
  LET Position(a, card) == CHOOSE j \in DOMAIN a : a[j] = card
      After[i \in 0..Len(deal)] ==
        IF i = 0 THEN RemoveKnown(req)
        ELSE Swapped(After[i - 1], i, Position(After[i - 1], deal[i]))
  IN  [i \in DOMAIN deal |-> Position(After[i - 1], deal[i])]

\* The estimate is unbiased: the deal determines the random choices that made it,
\* so that among equally likely choices every deal has one and all deals are
\* equally likely.  (A swap with any card of the deck, the classic mistake, also
\* deals distinct cards, but some deals more often.)
EachDealOnce == Dealt => DrawsOf(SubSeq(scratch, 1, Needed(req))) = draws

\* The pot is paid once: what an iteration would credit to the players, each taken
\* as the hero, adds up to the whole pot but for the rounding of a tie, which loses
\* fewer micros than there are players.
PotIsShared ==
  Dealt =>
    LET paid == Total([seat \in Seats |-> Outcome(seat)["equity_micros"]], Seats)
    IN  Pot - Cardinality(Seats) < paid /\ paid <= Pot

=============================================================================
