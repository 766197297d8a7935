------------------------------ MODULE Evaluator ------------------------------
(***************************************************************************)
(* Evaluate of internal/poker/evaluator.go: the value of five to seven     *)
(* cards, compared to decide a showdown.  A card is <<rank, suit>> with    *)
(* rank 2..14; a bit mask of ranks is the set of ranks.                    *)
(***************************************************************************)
EXTENDS Integers, FiniteSets, Sequences

HighCard == 0
OnePair == 1
TwoPair == 2
Trips == 3
Straight == 4
Flush == 5
FullHouse == 6
Quads == 7
StraightFlush == 8

Highest(S) == CHOOSE r \in S : \A q \in S : q <= r

\* The elements of S, largest first.
Descending(S) ==
  [i \in 1..Cardinality(S) |-> CHOOSE r \in S : Cardinality({q \in S : q > r}) = i - 1]

topRanks(S, n) == SubSeq(Descending(S), 1, IF Cardinality(S) < n THEN Cardinality(S) ELSE n)

\* The category above five digits of four bits, missing ranks being zero.
encode(category, ranks) ==
  LET digit(i) == IF i <= Len(ranks) THEN ranks[i] ELSE 0
  IN  category * 1048576 + digit(1) * 65536 + digit(2) * 4096 + digit(3) * 256
        + digit(4) * 16 + digit(5)

-----------------------------------------------------------------------------
\* Faulty variants, each a bug the evaluator could have had; nothing uses them.
NoWheel(mask) ==                             \* the wheel forgotten
  LET highs == {h \in 6..14 : (h - 4)..h \subseteq mask}
  IN  IF highs # {} THEN Highest(highs) ELSE 0
TripsOverPair(trips, pairs) ==               \* a second three of a kind forgotten
  IF pairs # {} THEN Highest(pairs) ELSE 0
-----------------------------------------------------------------------------

straightHigh(mask) ==
  LET highs == {h \in 6..14 : (h - 4)..h \subseteq mask}
  IN  IF {14, 2, 3, 4, 5} \subseteq mask THEN 5
      ELSE IF highs # {} THEN Highest(highs) ELSE 0

\* The first rank of the first group that has one.
firstRankNot(singles, pairs, trips) ==
  IF singles # {} THEN Highest(singles)
  ELSE IF pairs # {} THEN Highest(pairs)
  ELSE IF trips # {} THEN Highest(trips) ELSE 0

\* The pair of a full house may be a second three of a kind.
pairRank(trips, pairs) ==
  Highest({0} \union pairs \union (trips \ {Highest(trips)}))

Ranks(cards) == {c[1] : c \in cards}

suitMask(cards, s) == {c[1] : c \in {x \in cards : x[2] = s}}

OfCount(cards, n) == {r \in Ranks(cards) : Cardinality({c \in cards : c[1] = r}) = n}

Evaluate(cards) ==
  LET rankMask == Ranks(cards)
      flushes == {suitMask(cards, s) : s \in {c[2] : c \in cards}}
      suited == {m \in flushes : Cardinality(m) >= 5}
      straights == {straightHigh(m) : m \in suited} \ {0}
      quads == OfCount(cards, 4)
      trips == OfCount(cards, 3)
      pairs == OfCount(cards, 2)
      singles == OfCount(cards, 1)
      two == topRanks(pairs, 2)
  IN  IF straights # {} THEN encode(StraightFlush, <<Highest(straights)>>)
      ELSE IF quads # {}
        THEN encode(Quads, <<Highest(quads), firstRankNot(singles, pairs, trips)>>)
      ELSE IF trips # {} /\ (pairs # {} \/ Cardinality(trips) > 1)
        THEN encode(FullHouse, <<Highest(trips), pairRank(trips, pairs)>>)
      ELSE IF suited # {} THEN encode(Flush, topRanks(CHOOSE m \in suited : TRUE, 5))
      ELSE IF straightHigh(rankMask) > 0 THEN encode(Straight, <<straightHigh(rankMask)>>)
      ELSE IF trips # {}
        THEN encode(Trips, <<Highest(trips)>> \o topRanks(rankMask \ {Highest(trips)}, 2))
      ELSE IF Cardinality(pairs) >= 2
        THEN encode(TwoPair, two \o topRanks(rankMask \ {two[1], two[2]}, 1))
      ELSE IF pairs # {} THEN encode(OnePair, two \o topRanks(rankMask \ pairs, 3))
      ELSE encode(HighCard, topRanks(rankMask, 5))

=============================================================================
