----------------------------- MODULE MCPipeline -----------------------------
(***************************************************************************)
(* The pipeline with the hands, heroes and boards of MCIngestion, requests *)
(* one after the other that leave the settings of a hand alone.  Of those  *)
(* that begin one, one is for more opponents than the deck of nine has     *)
(* cards for, two for so many that twice their number is no int, and one   *)
(* cuts a chunk whose iterations are none.                                 *)
(***************************************************************************)
EXTENDS Pipeline, TLC

CONSTANTS mine, fresh, h1, h2, h3, a, b, spare1, spare2, spare3, spare4, e1

DefaultSettings ==
  [f \in SettingNames |-> CASE f = "total_iterations" -> 3
                            [] f = "iterations_per_chunk" -> 2
                            [] OTHER -> 1]

Body(h, hero, board, settings) ==
  [hand |-> h, hero |-> hero, board |-> board, settings |-> settings]

Requests ==
  {Body(mine, <<h1, h2>>, board, <<>>) : board \in {<<a>>, <<b>>}}
  \union {Body(mine, <<h1, h3>>, <<a, b>>, <<>>), Body(mine, Absent, <<a, b>>, <<>>)}
  \union {Body(NoHand, hero, <<a>>, "opponents" :> n @@ "total_iterations" :> 2) :
            <<hero, n>> \in {<<<<h1, h2>>, 2>>, <<<<h1, h2>>, 5>>, <<<<h1, h3>>, 5>>}}
  \union {Body(NoHand, <<h1, h2>>, <<a>>, "total_iterations" :> 11 @@ "iterations_per_chunk" :> 10),
          Body(NoHand, <<h1, h2>>, <<a>>, "base_seed" :> 10),
          Body(NoHand, <<h1, h2>>, <<a, h1>>, <<>>),
          Body(fresh, Absent, <<a, b>>, <<>>)}

HandsAndVersions == Hands \X (0..5)

SixChunks == 0..5

\* The results are those of the messages, so none need be listed.
None == {}

\* One hero loses every iteration, the other wins, and ties on boards of two cards.
Played(m) ==
  LET good == IF m.hero = <<h1, h2>> THEN m.iterations ELSE 0
      tied == IF m.version = 2 THEN good ELSE 0
      won == good - tied
  IN  [f \in Fields |-> CASE f = "iterations" -> m.iterations
                          [] f = "wins" -> won
                          [] f = "ties" -> tied
                          [] f = "losses" -> m.iterations - won - tied
                          [] f = "equity_micros" -> 1000000 * won + 500000 * tied]

\* The hero that loses loses to the first.
Loses(m) == m.hero # <<h1, h2>>

ASSUME ClientAssumption == OneByOne

ASSUME ChunksAssumption == ChunksAreEnough

=============================================================================
