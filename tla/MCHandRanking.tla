---------------------------- MODULE MCHandRanking ----------------------------
(***************************************************************************)
(* Decks small enough to deal every hand of seven.                         *)
(***************************************************************************)
EXTENDS HandRanking

\* Aces to sixes in two suits, a seven, a king, and more twos, threes and aces: wheels
\* and overlapping straights, suited ones too, six and seven of a suit, four of a kind
\* beside pairs above and below a single card, two threes of a kind, three pairs.
SmallDeck == ({14, 2, 3, 4, 5, 6} \X {1, 2})
            \union {<<7, 1>>, <<13, 1>>, <<2, 3>>, <<2, 4>>, <<3, 3>>, <<14, 3>>}

\* Hands on which the code and the rules of poker part.
OddDeck == ({7} \X (1..4)) \union ({14} \X {1, 2})
             \union {<<2, 1>>, <<3, 2>>, <<4, 3>>, <<5, 4>>, <<6, 1>>}

=============================================================================
