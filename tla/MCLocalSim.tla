----------------------------- MODULE MCLocalSim -----------------------------
(***************************************************************************)
(* cmd/sim with every request over ints of five bits, and tables over a   *)
(* deck of thirteen cards: a full board, a board that plays for all three  *)
(* players, a flop (so that the turn, the river and two cards are dealt),  *)
(* too many opponents, a card known twice, and hands that do not parse.    *)
(***************************************************************************)
EXTENDS LocalSim

AllInts == -16..15

\* 2c 3c 4c 5c 6c 7c, Tc Jc Qc Kc Ac, 2d 3d
Deck == {0, 1, 2, 3, 4, 5, 8, 9, 10, 11, 12, 13, 14}

Table(hero, board, opponents) == [hero |-> hero, board |-> board, opponents |-> opponents]

Royal == <<8, 9, 10, 11, 12>>

Tabled == {Table(<<13, 5>>, <<0, 1, 14, 9, 12>>, 0),
           Table(<<0, 13>>, Royal, 2),
           Table(<<13, 5>>, <<2, 3, 14>>, 1),
           Table(<<13, 5>>, <<0, 1, 14, 9, 12>>, 4),
           Table(<<0, 13>>, <<0, 1, 14>>, 1),
           Table(<<0, -1>>, Royal, 1),
           Table(<<0, 0>>, Royal, 1)}

Asked == {<<2, 0>>, <<3, 2>>, <<15, 15>>, <<0, -1>>, <<2, 15>>, <<0, 2>>}

=============================================================================
