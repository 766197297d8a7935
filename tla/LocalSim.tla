------------------------------ MODULE LocalSim ------------------------------
(***************************************************************************)
(* cmd/sim: with a chunk size the request is cut by BuildChunkPlan, each   *)
(* chunk is simulated and the partial results are merged; without one the  *)
(* request is simulated as a whole.  Any error ends the program.           *)
(***************************************************************************)
EXTENDS ChunkPlan, Simulation

CONSTANTS Tables,      \* hero, board and opponents on the command line
          Followed     \* bound: the <<total, per>> that are followed past the plan

\* Twice the opponents do not wrap (simulate.go:47).
ASSUME TablesAssumption ==
  /\ Tables \subseteq [hero : Seq(Int), board : Seq(Int), opponents : Int]
  /\ \A t \in Tables : 2 * t.opponents + 5 <= MaxInt

VARIABLES base,        \* the base request
          partials,    \* partialResults
          program,     \* "parsing", "working", "panic", "fatal" or "printed"
          printed      \* the result that is printed

runVars == <<vars, simVars, base, partials, program, printed>>

follows == <<total, per>> \in Followed

\* ParseCards refuses what is not a card and a card that is there twice.
ParseCards(cards) ==
  /\ \A i \in DOMAIN cards : cards[i] \in Cards
  /\ \A i, j \in DOMAIN cards : cards[i] = cards[j] => i = j

RunInit == /\ Init /\ SimInit
           /\ base \in Tables
           /\ \/ follows
              \/ base = CHOOSE t \in Tables : ParseCards(t.hero) /\ ParseCards(t.board)
           /\ partials = <<>> /\ printed = ZeroCounters
           /\ program = "parsing"

-----------------------------------------------------------------------------
\* Faulty variants, each a bug the program could have had; no action uses them.
TotalAgain(c) == total                       \* base.Iterations kept for every chunk
-----------------------------------------------------------------------------

ReadArguments ==
  /\ program = "parsing"
  /\ program' = IF ParseCards(base.hero) /\ ParseCards(base.board) THEN "working" ELSE "fatal"
  /\ UNCHANGED <<vars, simVars, base, partials, printed>>

BuildPlan ==
  /\ program = "working" /\ per > 0
  /\ Validate \/ MakeChunk \/ ReturnPlan
  /\ program' = CASE stage' = "invalid" -> "fatal" [] stage' = "panic" -> "panic" [] OTHER -> program
  /\ UNCHANGED <<simVars, base, partials, printed>>

Planned == program = "working" /\ per > 0 /\ stage = "done" /\ follows

Request(n) == [hero |-> base.hero, board |-> base.board, opponents |-> base.opponents,
               iterations |-> n]

ChunkIterations(c) == sizes[c]

SimulateChunk ==
  /\ Planned /\ Len(partials) < Len(sizes)
  /\ LET r == Request(ChunkIterations(Len(partials) + 1))
     IN  Enter(r, r.iterations <= 0 \/ Refused(r))
  /\ UNCHANGED <<vars, base, partials, program, printed>>

Collect ==
  /\ Planned /\ sim = "done"
  /\ partials' = Append(partials, result)
  /\ sim' = "idle"
  /\ UNCHANGED <<vars, req, scratch, draws, result, base, program, printed>>

MergeResults(results) == Merged(results, DOMAIN results)

PrintMerged ==
  /\ Planned /\ sim = "idle" /\ Len(partials) = Len(sizes)
  /\ printed' = MergeResults(partials)
  /\ program' = "printed"
  /\ UNCHANGED <<vars, simVars, base, partials>>

Whole == program = "working" /\ per <= 0 /\ follows

SimulateWhole ==
  /\ Whole /\ Enter(Request(total), Refused(Request(total)))
  /\ UNCHANGED <<vars, base, partials, program, printed>>

PrintWhole ==
  /\ Whole /\ sim = "done"
  /\ printed' = result
  /\ program' = "printed"
  /\ UNCHANGED <<vars, simVars, base, partials>>

SimulationStep ==
  /\ program = "working" /\ Simulate
  /\ UNCHANGED <<vars, base, partials, program, printed>>

\* log.Fatal, with nothing printed of the chunks that were done.
Fatal ==
  /\ program = "working" /\ sim = "failed"
  /\ program' = "fatal"
  /\ UNCHANGED <<vars, simVars, base, partials, printed>>

\* The end of the program, and of what is followed of it.
Ended ==
  /\ program \in {"panic", "fatal", "printed"} \/ (~follows /\ (stage = "done" \/ per <= 0))
  /\ UNCHANGED runVars

RunNext ==
  \/ ReadArguments \/ BuildPlan
  \/ SimulateChunk \/ Collect \/ PrintMerged
  \/ SimulateWhole \/ PrintWhole
  \/ SimulationStep \/ Fatal \/ Ended

RunSpec == RunInit /\ [][RunNext]_runVars

-----------------------------------------------------------------------------

\* What is printed is a result of the request as it was asked for: every iteration
\* was played once, in whichever chunk, won, tied or lost, and the equity is what
\* the wins and the ties are worth.  (A request that wraps in the planner prints a
\* result of no iterations at all.)
RunIsWhole ==
  (program = "printed" /\ (per > 0 => Fits)) =>
    LET wins == printed["wins"]
        ties == printed["ties"]
        micros == printed["equity_micros"] - Pot * wins
    IN  /\ printed["iterations"] = IF total <= 0 THEN DefaultIterations ELSE total
        /\ wins + ties + printed["losses"] = printed["iterations"]
        /\ (Pot \div Cardinality(Seats)) * ties <= micros
        /\ micros <= (Pot \div 2) * ties

=============================================================================
