----------------------------- MODULE HandRanking -----------------------------
(***************************************************************************)
(* The reference for Evaluator: what the rules of poker say five cards are *)
(* worth, by the shape of their ranks, and that more cards are worth their *)
(* best five.  Hands are dealt card by card from Deck, so that every hand  *)
(* of up to seven of its cards is a state.                                 *)
(***************************************************************************)
EXTENDS Evaluator

CONSTANT Deck          \* the cards in play: pairs <<rank, suit>>

ASSUME DeckAssumption == IsFiniteSet(Deck) /\ Deck \subseteq (2..14) \X (1..4)

VARIABLE hand

Init == hand = {}

Deal(c) == Cardinality(hand) < 7 /\ c \notin hand /\ hand' = hand \union {c}

Finished == Cardinality(hand) = 7 /\ UNCHANGED hand

Next == (\E c \in Deck : Deal(c)) \/ Finished

Spec == Init /\ [][Next]_hand

-----------------------------------------------------------------------------

\* Ranks with how often they occur, the most frequent first, then the highest.
Groups(five) ==
  Descending({16 * Cardinality({c \in five : c[1] = r}) + r : r \in Ranks(five)})

IsFlush(five) == Cardinality({c[2] : c \in five}) = 1

Wheel == {14, 2, 3, 4, 5}

IsStraight(five) ==
  Ranks(five) = Wheel \/ \E low \in 2..10 : Ranks(five) = low..(low + 4)

CategoryOf(five) ==
  LET groups == Groups(five)
      shape == [i \in DOMAIN groups |-> groups[i] \div 16]
  IN  CASE IsStraight(five) -> IF IsFlush(five) THEN StraightFlush ELSE Straight
        [] ~IsStraight(five) /\ IsFlush(five) -> Flush
        [] shape = <<4, 1>> -> Quads
        [] shape = <<3, 2>> -> FullHouse
        [] shape = <<3, 1, 1>> -> Trips
        [] shape = <<2, 2, 1>> -> TwoPair
        [] shape = <<2, 1, 1, 1>> -> OnePair
        [] OTHER -> HighCard

\* Value of five cards: the category, then the ranks in the order of Groups.
FiveCardValue(five) ==
  LET groups == Groups(five)
      ranks == [i \in DOMAIN groups |-> groups[i] % 16]
      high == IF Ranks(five) = Wheel THEN 5 ELSE Highest(Ranks(five))
  IN  encode(CategoryOf(five), IF IsStraight(five) THEN <<high>> ELSE ranks)

FivesOf(cards) == {five \in SUBSET cards : Cardinality(five) = 5}

BestFive(cards) == Highest({FiveCardValue(five) : five \in FivesOf(cards)})

\* A hand is worth its best five cards.
EvaluateIsBestFive == Cardinality(hand) >= 5 => Evaluate(hand) = BestFive(hand)

\* The hands whose value is not that of their best five.  A straight from two to
\* six counts as the wheel if there is an ace as well; a pair beside four of a
\* kind is passed over for a lower single card.
LowSix == {14, 2, 3, 4, 5, 6}

WheelHidesStraight(cards) ==
  \/ \E s \in 1..4 : LowSix \subseteq suitMask(cards, s)
  \/ /\ LowSix \subseteq Ranks(cards)
     /\ \A s \in 1..4 : Cardinality(suitMask(cards, s)) < 5

SingleHidesPair(cards) ==
  /\ OfCount(cards, 4) # {}
  /\ \E p \in OfCount(cards, 2), single \in OfCount(cards, 1) : p > single

\* Exactly these are misjudged; every other hand of five, six or seven cards, with
\* its kickers, second three of a kind, third pair, six suited cards or wheel, has
\* the value of its best five cards.
OnlyTheseMisjudged ==
  Cardinality(hand) >= 5 =>
    (Evaluate(hand) = BestFive(hand) <=> ~(WheelHidesStraight(hand) \/ SingleHidesPair(hand)))

=============================================================================
