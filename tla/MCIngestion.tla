----------------------------- MODULE MCIngestion -----------------------------
(***************************************************************************)
(* Small instances of Ingestion: one hand the client names, one that uuid4 *)
(* names, two heroes, boards of at most two cards, two values of the       *)
(* number of iterations.                                                   *)
(***************************************************************************)
EXTENDS Ingestion, TLC

CONSTANTS mine, fresh, h1, h2, h3, a, b, joker, e1, e2

DefaultSettings ==
  [f \in SettingNames |-> CASE f = "total_iterations" -> 3
                            [] f = "iterations_per_chunk" -> 2
                            [] OTHER -> 1]

Body(h, hero, board, settings) ==
  [hand |-> h, hero |-> hero, board |-> board, settings |-> settings]

Kept == <<>>

Total(n) == [f \in {"total_iterations"} |-> n]

Heroes == {Absent, <<h1, h2>>, <<h1, h3>>}

Boards == {Absent, <<>>, <<a>>, <<b>>, <<a, b>>, <<a, h1>>}

\* Requests that leave the settings alone.
PlainBodies ==
  {Body(h, hero, board, Kept) : h \in {mine, NoHand}, hero \in Heroes, board \in Boards}

\* A few requests that matter when executions race, one of them invalid twice
\* over, one with a setting out of range.
RacingBodies ==
  {Body(mine, <<h1, h2>>, <<a>>, Kept), Body(mine, <<h1, h2>>, <<b>>, Kept),
   Body(mine, Absent, <<a, b>>, Total(5)), Body(fresh, Absent, Absent, Kept),
   Body(NoHand, <<h1, h3>>, <<>>, [f \in {"opponents"} |-> 0]), Body(NoHand, <<h1, h1>>, <<joker>>, Kept),
   Body(NoHand, <<h1, h3>>, <<>>, Kept)}

=============================================================================
