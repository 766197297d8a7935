---------------------------- MODULE LocalSimProofs ----------------------------
(***************************************************************************)
(* Proofs about cmd/sim: the planner for every width of int and every      *)
(* request, the shuffle and the showdown for every deck and table, and the *)
(* merge of the partial results.                                           *)
(***************************************************************************)
EXTENDS LocalSim, ArithmeticProofs

\* A sequence over a set is one over a larger set.
LEMMA SequenceOfMore ==
  ASSUME NEW S, NEW T, S \in SUBSET T, NEW s \in Seq(S) PROVE s \in Seq(T)
<1>1. Len(s) \in Nat /\ s \in [1..Len(s) -> S]
  OBVIOUS
<1>2. s \in [1..Len(s) -> T]
  BY <1>1
<1> QED  BY <1>1, <1>2

\* What Append does to a sum over all the entries of a sequence.
LEMMA TotalAppend ==
  ASSUME NEW s \in Seq(Nat), NEW x \in Nat
  PROVE  Total(Append(s, x), DOMAIN Append(s, x)) = Total(s, DOMAIN s) + x
<1> DEFINE n == Len(s)
           a == Append(s, x)
<1>1. /\ n \in Nat /\ DOMAIN s = 1..n /\ DOMAIN a = (1..n) \union {n + 1} /\ n + 1 \notin 1..n
      /\ \A i \in 1..n : s[i] \in Nat /\ a[i] = s[i]
      /\ a[n + 1] = x
  <2>1. n \in Nat /\ DOMAIN s = 1..n /\ \A i \in 1..n : s[i] \in Nat
    OBVIOUS
  <2>2. DOMAIN a = 1..(n + 1) /\ a[n + 1] = x /\ \A i \in 1..n : a[i] = s[i]
    OBVIOUS
  <2> HIDE DEF a, n
  <2>3. 1..(n + 1) = (1..n) \union {n + 1}
    BY <2>1
  <2> QED  BY <2>1, <2>2, <2>3
<1>2. IsFiniteSet(1..n)
  BY <1>1, FS_Interval
<1> HIDE DEF a, n
<1>3. Total(a, (1..n) \union {n + 1}) = Total(a, 1..n) + x
  <2> DEFINE S == 1..n
             y == n + 1
  <2>1. IsFiniteSet(S) /\ y \notin S /\ a[y] = x /\ a[y] \in Nat /\ \A i \in S : a[i] \in Nat
    BY <1>1, <1>2
  <2> HIDE DEF S, y
  <2>2. Total(a, S \union {y}) = Total(a, S) + a[y]
    BY <2>1, TotalAdd
  <2> QED  BY <2>1, <2>2 DEF S, y
<1>4. Total(a, 1..n) = Total(s, 1..n)
  BY <1>1, <1>2, TotalOfEqual
<1> QED  BY <1>1, <1>3, <1>4 DEF a

\* The same of merged results.
LEMMA MergedAppend ==
  ASSUME NEW s \in Seq(Counters), NEW x \in Counters
  PROVE  Merged(Append(s, x), DOMAIN Append(s, x)) = Plus(Merged(s, DOMAIN s), x)
<1> DEFINE n == Len(s)
           a == Append(s, x)
<1>1. /\ n \in Nat /\ DOMAIN s = 1..n /\ DOMAIN a = (1..n) \union {n + 1} /\ n + 1 \notin 1..n
      /\ \A i \in 1..n : s[i] \in Counters /\ a[i] = s[i]
      /\ a[n + 1] = x
  <2>1. n \in Nat /\ DOMAIN s = 1..n /\ \A i \in 1..n : s[i] \in Counters
    OBVIOUS
  <2>2. DOMAIN a = 1..(n + 1) /\ a[n + 1] = x /\ \A i \in 1..n : a[i] = s[i]
    OBVIOUS
  <2> HIDE DEF a, n
  <2>3. 1..(n + 1) = (1..n) \union {n + 1}
    BY <2>1
  <2> QED  BY <2>1, <2>2, <2>3
<1>2. IsFiniteSet(1..n)
  BY <1>1, FS_Interval
<1> HIDE DEF a, n
<1>3. Merged(a, (1..n) \union {n + 1}) = Plus(Merged(s, 1..n), x)
  <2> DEFINE S == 1..n
             y == n + 1
  <2>1. /\ IsFiniteSet(S) /\ y \notin S /\ a[y] = x /\ a[y] \in Counters
        /\ \A i \in S : s[i] \in Counters /\ a[i] = s[i]
    BY <1>1, <1>2
  <2> HIDE DEF S, y
  <2>2. Merged(a, S \union {y}) = Plus(Merged(s, S), a[y])
    BY <2>1, MergedAdd
  <2> QED  BY <2>1, <2>2 DEF S, y
<1> QED  BY <1>1, <1>3 DEF a

-----------------------------------------------------------------------------
\* The planner.

\* A quotient is no larger than its numerator.
LEMMA DivAtMost ==
  ASSUME NEW x \in Nat, NEW y \in Nat \ {0}
  PROVE  x \div y \in Nat /\ x \div y <= x
<1>1. /\ x \div y \in Nat /\ (x \div y) * y <= x  BY DivBounds
<1>2. 1 * (x \div y) <= y * (x \div y)  BY <1>1, TimesMonotone
<1>3. y * (x \div y) = (x \div y) * y  BY <1>1
<1> QED  BY <1>1, <1>2, <1>3

\* A sum of two ints comes out right if it fits, and negative if it does not.
LEMMA Wrapping ==
  ASSUME NEW x \in 1..(2 * MaxInt)
  PROVE  /\ x <= MaxInt => Wrap(x) = x
         /\ x > MaxInt => Wrap(x) = x - 2 * (MaxInt + 1) /\ Wrap(x) < 0
<1> DEFINE n == 2 * (MaxInt + 1)
<1>1. MaxInt \in Nat \ {0} /\ n \in Nat \ {0} /\ x \in Nat  BY PlanAssumption
<1>2. CASE x <= MaxInt
  <2>1. x + MaxInt + 1 \in 0..(n - 1)  BY <1>1, <1>2
  <2>2. \A y \in 0..(n - 1) : y % n = y  BY <1>1
  <2> QED  BY <1>1, <1>2, <2>1, <2>2 DEF Wrap
<1>3. CASE x > MaxInt
  <2>1. x + MaxInt + 1 - n \in 0..(n - 1)  BY <1>1, <1>3
  <2>2. \A y \in 0..(n - 1) : (y + n) % n = y  BY <1>1
  <2>3. (x + MaxInt + 1) % n = x + MaxInt + 1 - n  BY <1>1, <2>1, <2>2
  <2> QED  BY <1>1, <1>3, <2>3 DEF Wrap
<1> QED  BY <1>1, <1>2, <1>3

-----------------------------------------------------------------------------

\* What is left when c chunks have been made.
Left(c) == IF c < chunkCount THEN total - c * per ELSE IF Fits THEN 0 ELSE total

\* In the loop the plan so far is the closed form and the count is exact, or the
\* rounding up wrapped and the loop does nothing.
LoopInv ==
  /\ total \in 1..MaxInt /\ per \in 1..MaxInt
  /\ IF Fits THEN chunkCount = ChunkCount(total, per) ELSE chunkCount <= 0
  /\ chunkID = 0 \/ chunkID <= chunkCount
  /\ remaining = Left(chunkID) /\ remaining >= 0
  /\ sizes = [i \in 1..chunkID |-> ChunkSize(total, per, i - 1)]
  /\ Total(sizes, DOMAIN sizes) = total - remaining
  /\ stage = "done" => chunkID >= chunkCount

IInv ==
  /\ TypeOK
  /\ stage \in {"loop", "done"} => LoopInv
  /\ stage \notin {"loop", "done"} => chunkID = 0 /\ sizes = <<>> /\ remaining >= 0

\* At the start a plan has been asked for and none begun.
LEMMA InitIInv == Init => IInv
<1> SUFFICES ASSUME Init PROVE IInv  OBVIOUS
<1>1. MaxInt \in Nat \ {0} /\ total \in Ints /\ per \in Ints  BY PlanAssumption DEF Init, Ints
<1>2. sizes = <<>> /\ sizes \in Seq(1..MaxInt)  BY DEF Init
<1> QED  BY <1>1, <1>2 DEF Init, IInv, TypeOK, Ints

\* A request that passes the checks of BuildChunkPlan starts an empty plan.
LEMMA ValidateIInv == IInv /\ Validate => IInv'
<1> SUFFICES ASSUME IInv, Validate PROVE IInv'  OBVIOUS
<1> USE PlanAssumption
<1>0. /\ TypeOK /\ stage = "called" /\ chunkID = 0 /\ sizes = <<>>
      /\ UNCHANGED <<total, per, labelled, chunkID, sizes>>
  BY DEF IInv, Validate, request
<1>1. CASE ~labelled \/ total <= 0 \/ per <= 0
  BY <1>0, <1>1 DEF IInv, Validate, TypeOK, Ints
<1>2. CASE labelled /\ total > 0 /\ per > 0
  <2> DEFINE x == total + per - 1
  <2>0. Total(sizes', DOMAIN sizes') = 0
    <3>1. sizes' = <<>> /\ DOMAIN sizes' = {}  BY <1>0
    <3> QED  BY <3>1, TotalOfNone
  <2>1. total \in 1..MaxInt /\ per \in 1..MaxInt /\ x \in 1..(2 * MaxInt)
    BY <1>0, <1>2 DEF TypeOK, Ints
  <2>2. /\ chunkCount' = Quotient(Wrap(x), per) /\ remaining' = total
        /\ stage' = IF chunkCount' < 0 THEN "panic" ELSE "loop"
    BY <1>2, <1>0, <2>1 DEF Validate
  <2>3. CASE Fits
    <3>1. chunkCount' = ChunkCount(total, per)
      BY <2>1, <2>2, <2>3, Wrapping DEF Fits, Quotient, ChunkCount
    <3>2. /\ ChunkCount(total, per) \in Nat \ {0}
          /\ (ChunkCount(total, per) - 1) * per < total
      <4>1. total \in Nat \ {0} /\ per \in Nat \ {0}  BY <2>1
      <4> QED  BY <4>1, RoundingUp
    <3>3. 1 * (ChunkCount(total, per) - 1) <= per * (ChunkCount(total, per) - 1)
      BY <2>1, <3>2, TimesMonotone
    <3>4. chunkCount' \in Ints /\ chunkCount' > 0
      BY <2>1, <3>1, <3>2, <3>3 DEF Ints
    <3>5. LoopInv'
      <4>1. sizes' = [i \in 1..chunkID' |-> ChunkSize(total, per, i - 1)']
        BY <1>0
      <4> QED  BY <1>0, <2>0, <2>1, <2>2, <2>3, <3>1, <3>4, <4>1 DEF LoopInv, Left, Fits
    <3> QED  BY <1>0, <2>1, <2>2, <3>4, <3>5 DEF IInv, TypeOK, Ints
  <2>4. CASE ~Fits
    <3>1. Wrap(x) = x - 2 * (MaxInt + 1) /\ Wrap(x) < 0
      BY <2>1, <2>4, Wrapping DEF Fits
    <3>2. -Wrap(x) \in Nat /\ -Wrap(x) <= MaxInt + 1  BY <2>1, <2>4, <3>1 DEF Fits
    <3>3. (-Wrap(x)) \div per \in Nat /\ (-Wrap(x)) \div per <= -Wrap(x)
      BY <2>1, <3>2, DivAtMost
    <3>4. chunkCount' \in Ints /\ chunkCount' <= 0
      BY <2>1, <2>2, <3>1, <3>2, <3>3 DEF Quotient, Ints
    <3>5. stage' = "loop" => LoopInv'
      BY <1>0, <2>0, <2>1, <2>2, <2>4, <3>4 DEF LoopInv, Left, Fits
    <3> QED  BY <1>0, <2>1, <2>2, <3>4, <3>5 DEF IInv, TypeOK, Ints
  <2> QED  BY <2>3, <2>4
<1> QED  BY <1>0, <1>1, <1>2 DEF TypeOK, Ints

\* One turn of the loop appends the chunk of its number.
LEMMA MakeChunkIInv == IInv /\ MakeChunk => IInv'
<1> SUFFICES ASSUME IInv, MakeChunk PROVE IInv'  OBVIOUS
<1> USE PlanAssumption
<1> DEFINE n == ChunkCount(total, per)
<1>1. /\ TypeOK /\ LoopInv /\ stage = "loop" /\ chunkID < chunkCount
      /\ chunkID' = chunkID + 1 /\ remaining' = remaining - NextSize(remaining)
      /\ sizes' = Append(sizes, NextSize(remaining))
      /\ UNCHANGED <<total, per, labelled, chunkCount, stage>>
  BY DEF IInv, MakeChunk, request
<1>2. /\ total \in 1..MaxInt /\ per \in 1..MaxInt /\ chunkID \in Nat
      /\ Fits /\ chunkCount = n /\ remaining = total - chunkID * per
  BY <1>1 DEF LoopInv, TypeOK, Left
<1>3. n \in Nat \ {0} /\ (n - 1) * per < total /\ total <= n * per
  BY <1>2, RoundingUp
<1>4. chunkID * per <= (n - 1) * per
  <2>1. chunkID \in Int /\ n - 1 \in Int /\ per \in Nat /\ chunkID <= n - 1
    BY <1>1, <1>2, <1>3
  <2> QED  BY <2>1, TimesMonotone
<1>5. remaining \in 1..MaxInt
  <2>1. chunkID * per \in Nat  BY <1>2
  <2> QED  BY <1>2, <1>3, <1>4, <2>1
<1>6. (chunkID + 1) * per = chunkID * per + per  BY <1>2
<1>7. NextSize(remaining) \in 1..per /\ NextSize(remaining) = ChunkSize(total, per, chunkID)
  BY <1>2, <1>5 DEF NextSize, ChunkSize, Least
<1>8. remaining' = Left(chunkID)' /\ remaining' \in 0..MaxInt
  <2>1. CASE chunkID + 1 < n
    <3>1. (chunkID + 1) * per <= (n - 1) * per  BY <1>2, <1>3, <2>1, TimesMonotone
    <3>2. remaining > per  BY <1>2, <1>3, <1>6, <3>1
    <3> QED  BY <1>1, <1>2, <1>5, <1>6, <2>1, <3>2 DEF NextSize, Least, Left
  <2>2. CASE chunkID + 1 = n
    <3>1. remaining <= per  BY <1>2, <1>3, <1>6, <2>2
    <3> QED  BY <1>1, <1>2, <1>5, <2>2, <3>1 DEF NextSize, Least, Left, Fits
  <2> QED  BY <1>1, <1>2, <1>3, <2>1, <2>2
<1>9. sizes' = [i \in 1..chunkID' |-> ChunkSize(total, per, i - 1)']
  <2>1. sizes = [i \in 1..chunkID |-> ChunkSize(total, per, i - 1)]  BY <1>1 DEF LoopInv
  <2>2. sizes \in Seq(1..MaxInt) /\ Len(sizes) = chunkID  BY <1>1, <1>2, <2>1 DEF TypeOK
  <2> QED  BY <1>1, <1>2, <1>7, <2>1, <2>2
<1>10. Total(sizes', DOMAIN sizes') = total - remaining'
  <2>1. sizes \in Seq(Nat) /\ NextSize(remaining) \in Nat
    BY <1>1, <1>2, <1>7 DEF TypeOK
  <2>2. Total(sizes', DOMAIN sizes') = Total(sizes, DOMAIN sizes) + NextSize(remaining)
    BY <1>1, <2>1, TotalAppend
  <2>3. Total(sizes, DOMAIN sizes) = total - remaining  BY <1>1 DEF LoopInv
  <2> QED  BY <1>1, <1>2, <1>5, <2>1, <2>2, <2>3
<1>11. TypeOK'
  <2>1. sizes' \in Seq(1..MaxInt)  BY <1>1, <1>2, <1>7 DEF TypeOK
  <2>2. chunkID' \in 0..MaxInt  BY <1>1, <1>2 DEF TypeOK, Ints
  <2> QED  BY <1>1, <1>8, <2>1, <2>2 DEF TypeOK, Ints
<1>12. LoopInv'
  BY <1>1, <1>2, <1>3, <1>8, <1>9, <1>10 DEF LoopInv, Fits
<1> QED  BY <1>1, <1>11, <1>12 DEF IInv

\* Every step of the planner keeps the invariant.
LEMMA NextIInv == IInv /\ [Next]_vars => IInv'
<1> SUFFICES ASSUME IInv, [Next]_vars PROVE IInv'  OBVIOUS
<1>1. CASE Validate  BY <1>1, ValidateIInv
<1>2. CASE MakeChunk  BY <1>2, MakeChunkIInv
<1>3. CASE ReturnPlan
  BY <1>3 DEF ReturnPlan, IInv, TypeOK, LoopInv, Left, Fits, Ints, request
<1>4. CASE UNCHANGED vars
  BY <1>4 DEF vars, request, IInv, TypeOK, LoopInv, Left, Fits, Ints
<1> QED  BY <1>1, <1>2, <1>3, <1>4 DEF Next, Finished

\* The planner's inductive invariant.
THEOREM PlannerInvariance == Spec => []IInv
<1> QED  BY InitIInv, NextIInv, PTL DEF Spec

\* No int of the planner leaves its range and no chunk is empty (chunk.go 46-62).
THEOREM PlannerTypeCorrect == Spec => []TypeOK
<1>1. IInv => TypeOK  BY DEF IInv
<1> QED  BY <1>1, PlannerInvariance, PTL

\* The Go loop makes the chunks of the closed form, which is also how the Python
\* producer cuts: for every request whose rounding up does not wrap.
THEOREM LoopMakesClosedForm == Spec => []LoopIsClosedForm
<1>1. IInv => LoopIsClosedForm
  <2> SUFFICES ASSUME IInv, stage = "done", Fits
               PROVE  /\ remaining = 0
                      /\ sizes = [i \in 1..ChunkCount(total, per) |-> ChunkSize(total, per, i - 1)]
    BY DEF LoopIsClosedForm
  <2>1. /\ LoopInv /\ chunkCount = ChunkCount(total, per) /\ chunkID >= chunkCount
        /\ chunkID \in Nat /\ ChunkCount(total, per) \in Nat \ {0}
    BY RoundingUp DEF IInv, LoopInv, TypeOK
  <2>2. chunkID = ChunkCount(total, per)  BY <2>1 DEF LoopInv
  <2> QED  BY <2>1, <2>2 DEF LoopInv, Left
<1> QED  BY <1>1, PlannerInvariance, PTL

\* The loop never makes a chunk with nothing left and never counts below zero,
\* whether the request fits or not (chunk.go 48-62).
THEOREM LoopNeverOverdraws == Spec => []NeverOverdrawn
<1>1. IInv => NeverOverdrawn
  <2> SUFFICES ASSUME IInv PROVE NeverOverdrawn  OBVIOUS
  <2>1. remaining >= 0  BY DEF IInv, LoopInv
  <2>2. ASSUME stage = "loop", chunkID < chunkCount PROVE remaining > 0
    <3> DEFINE n == ChunkCount(total, per)
    <3>1. /\ total \in Nat \ {0} /\ per \in Nat \ {0} /\ chunkID \in Nat
          /\ chunkCount = n /\ remaining = total - chunkID * per
      BY <2>2, PlanAssumption DEF IInv, LoopInv, TypeOK, Left, Ints
    <3>2. n \in Nat /\ (n - 1) * per < total  BY <3>1, RoundingUp
    <3>3. chunkID * per <= (n - 1) * per  BY <2>2, <3>1, <3>2, TimesMonotone
    <3> QED  BY <3>1, <3>2, <3>3
  <2> QED  BY <2>1, <2>2 DEF NeverOverdrawn
<1> QED  BY <1>1, PlannerInvariance, PTL

\* A plan that was made is whole: the sizes of its chunks add up to the request
\* and none is empty or above the limit (chunk.go 46-62).
LEMMA MadePlanIsWhole == IInv => PlanIsWhole
<1> SUFFICES ASSUME IInv, stage = "done", Fits
             PROVE  /\ Total(sizes, DOMAIN sizes) = total
                    /\ \A i \in DOMAIN sizes : sizes[i] \in 1..per
  BY DEF PlanIsWhole
<1> DEFINE n == ChunkCount(total, per)
<1>1. /\ TypeOK /\ LoopInv /\ chunkCount = n /\ chunkID >= n /\ chunkID \in Nat
      /\ total \in Nat \ {0} /\ per \in Nat \ {0}
  BY PlanAssumption DEF IInv, LoopInv, TypeOK
<1>2. n \in Nat \ {0}
  BY <1>1, RoundingUp
<1>3. chunkID = n /\ remaining = 0
  BY <1>1, <1>2 DEF LoopInv, Left
<1>4. Total(sizes, DOMAIN sizes) = total
  BY <1>1, <1>3 DEF LoopInv
<1>5. ASSUME NEW i \in DOMAIN sizes PROVE sizes[i] \in 1..per
  <2>1. i \in 1..n /\ sizes[i] = ChunkSize(total, per, i - 1)
    BY <1>1, <1>3 DEF LoopInv
  <2>2. i - 1 \in 0..(n - 1) /\ i \in Int
    BY <1>2, <2>1
  <2> DEFINE c == i - 1
  <2>3. c * per \in Int
    BY <1>1, <2>2
  <2>4. ChunkSize(total, per, c) \in Nat \ {0}
    BY <1>1, <2>2, ChunkIsPositive
  <2> HIDE DEF c
  <2>5. ChunkSize(total, per, c) <= per
    BY <1>1, <2>3 DEF ChunkSize, Least
  <2> QED  BY <1>1, <2>1, <2>4, <2>5 DEF c
<1> QED  BY <1>4, <1>5

\* A plan covers its request exactly, whatever the request and the width of int.
THEOREM PlansAreWhole == Spec => []PlanIsWhole
<1> QED  BY MadePlanIsWhole, PlannerInvariance, PTL

-----------------------------------------------------------------------------
\* The program around it.

\* A step of the program is a step of the planner or leaves the planner alone.
LEMMA RunNextIsNext == [RunNext]_runVars => [Next]_vars
BY DEF RunNext, ReadArguments, BuildPlan, SimulateChunk, Collect, PrintMerged, SimulateWhole,
       PrintWhole, SimulationStep, Fatal, Ended, Next, runVars

\* cmd/sim runs the planner and does nothing else to its state: all that is
\* proved of a plan holds in the program.
THEOREM ProgramRunsPlanner == RunSpec => Spec
<1>1. RunInit => Init
  BY DEF RunInit
<1> QED  BY <1>1, RunNextIsNext, PTL DEF RunSpec, Spec

-----------------------------------------------------------------------------
\* The deck.

\* The orders in which the cards of S can lie.
Orders(S) ==
  {a \in [1..Cardinality(S) -> S] :
     /\ \A i, j \in 1..Cardinality(S) : a[i] = a[j] => i = j
     /\ \A x \in S : \E i \in 1..Cardinality(S) : a[i] = x}

\* Such an order is a sequence of exactly the cards of S.
LEMMA OrderIsSequence ==
  ASSUME NEW S, IsFiniteSet(S), NEW a \in Orders(S)
  PROVE  /\ a \in Seq(S) /\ Len(a) = Cardinality(S) /\ DOMAIN a = 1..Len(a) /\ Range(a) = S
<1>1. Cardinality(S) \in Nat /\ a \in [1..Cardinality(S) -> S]
  BY FS_CardinalityType DEF Orders
<1>2. a \in Seq(S) /\ Len(a) = Cardinality(S) /\ DOMAIN a = 1..Len(a)
  BY <1>1
<1>3. Range(a) = S
  BY <1>1 DEF Orders, Range
<1> QED  BY <1>2, <1>3

\* The order of the deck is one.
LEMMA InOrderIsOrder ==
  ASSUME NEW S \in SUBSET Int, IsFiniteSet(S) PROVE InOrder(S) \in Orders(S)
<1> DEFINE Less == {p \in S \X S : p[1] < p[2]}
           Before(x) == Cardinality({c \in S : c < x})
           n == Cardinality(S)
           o == InOrder(S)
<1>1. \A x \in S : {c \in S : <<c, x>> \in Less} = {c \in S : c < x}
  OBVIOUS
<1>2. /\ Less \in SUBSET (S \X S)
      /\ \A x \in S : <<x, x>> \notin Less
      /\ \A x, y \in S : x # y => <<x, y>> \in Less \/ <<y, x>> \in Less
      /\ \A x, y, z \in S : <<x, y>> \in Less /\ <<y, z>> \in Less => <<x, z>> \in Less
  OBVIOUS
<1>3. /\ \A x, y \in S : Before(x) = Before(y) => x = y
      /\ \A i \in 1..n : \E x \in S : Before(x) = i - 1
      /\ \A x \in S : \E i \in 1..n : Before(x) = i - 1
  <2> HIDE DEF Less, n
  <2>1. /\ \A x, y \in S : Ahead(x, Less, S) = Ahead(y, Less, S) => x = y
        /\ \A i \in 1..n : \E x \in S : Ahead(x, Less, S) = i - 1
        /\ \A x \in S : \E i \in 1..n : Ahead(x, Less, S) = i - 1
    BY <1>2, Enumeration DEF n
  <2> QED  BY <1>1, <2>1 DEF Ahead
<1>4. o = [i \in 1..n |-> CHOOSE x \in S : Before(x) = i - 1] /\ n \in Nat
  BY FS_CardinalityType DEF InOrder
<1> HIDE DEF Before, n, o
<1>5. \A i \in 1..n : o[i] \in S /\ Before(o[i]) = i - 1
  BY <1>3, <1>4
<1>6. o \in [1..n -> S]
  BY <1>4, <1>5
<1>7. \A i, j \in 1..n : o[i] = o[j] => i = j
  <2> SUFFICES ASSUME NEW i \in 1..n, NEW j \in 1..n, o[i] = o[j] PROVE i = j
    OBVIOUS
  <2>1. i - 1 = j - 1 /\ i \in Int /\ j \in Int
    BY <1>4, <1>5
  <2> QED  BY <2>1
<1>8. \A x \in S : \E i \in 1..n : o[i] = x
  <2> SUFFICES ASSUME NEW x \in S PROVE \E i \in 1..n : o[i] = x
    OBVIOUS
  <2>1. PICK i \in 1..n : Before(x) = i - 1
    BY <1>3
  <2>2. o[i] \in S /\ Before(o[i]) = Before(x)
    BY <1>5, <2>1
  <2> QED  BY <1>3, <2>2
<1> QED  BY <1>6, <1>7, <1>8 DEF Orders, n, o

\* A swap reorders the cards and moves no other.
LEMMA SwapIsOrder ==
  ASSUME NEW S, IsFiniteSet(S), NEW a \in Orders(S),
         NEW i \in 1..Cardinality(S), NEW j \in 1..Cardinality(S)
  PROVE  /\ Swapped(a, i, j) \in Orders(S)
         /\ Swapped(a, i, j)[i] = a[j]
         /\ \A k \in 1..Cardinality(S) : k # i /\ k # j => Swapped(a, i, j)[k] = a[k]
<1> DEFINE n == Cardinality(S)
           b == Swapped(a, i, j)
           other == [k \in 1..n |-> IF k = i THEN j ELSE IF k = j THEN i ELSE k]
<1>1. a \in [1..n -> S] /\ n \in Nat
  BY FS_CardinalityType DEF Orders
<1>2. b \in [1..n -> S] /\ \A k \in 1..n : b[k] = a[other[k]] /\ other[k] \in 1..n
  BY <1>1 DEF Swapped
<1>3. \A k \in 1..n : other[other[k]] = k
  OBVIOUS
<1>4. /\ \A k, l \in 1..n : a[k] = a[l] => k = l
      /\ \A x \in S : \E k \in 1..n : a[k] = x
  BY DEF Orders
<1>5. other[i] = j /\ \A k \in 1..n : k # i /\ k # j => other[k] = k
  OBVIOUS
<1>6. \A k, l \in 1..n : b[k] = b[l] => k = l
  <2> SUFFICES ASSUME NEW k \in 1..n, NEW l \in 1..n, b[k] = b[l] PROVE k = l
    OBVIOUS
  <2> HIDE DEF b, other, n
  <2>1. other[k] = other[l]
    BY <1>2, <1>4
  <2>2. other[other[k]] = k /\ other[other[l]] = l
    BY <1>3
  <2> QED  BY <2>1, <2>2
<1>7. \A x \in S : \E k \in 1..n : b[k] = x
  <2> SUFFICES ASSUME NEW x \in S PROVE \E k \in 1..n : b[k] = x
    OBVIOUS
  <2>1. PICK l \in 1..n : a[l] = x
    BY <1>4
  <2> HIDE DEF b, other, n
  <2>2. other[l] \in 1..n /\ b[other[l]] = a[other[other[l]]]
    BY <1>2
  <2> QED  BY <1>3, <2>1, <2>2
<1>8. b \in Orders(S)
  <2> HIDE DEF b
  <2> QED  BY <1>2, <1>6, <1>7 DEF Orders
<1> QED  BY <1>2, <1>5, <1>8

\* The cards that a request leaves in the deck.
Free(r) == Cards \ Range(Known(r))

\* The deck is a finite set of integers.
LEMMA CardsAreFinite == IsFiniteSet(Cards) /\ Cards \in SUBSET Int /\ Cardinality(Cards) \in Nat
<1>1. IsFiniteSet(0..51) /\ Cards \in SUBSET (0..51)
  <2>1. 0 \in Int /\ 51 \in Int
    OBVIOUS
  <2>2. IsFiniteSet(0..51)
    BY <2>1, FS_Interval
  <2> QED  BY <2>2, CardsAssumption
<1>2. IsFiniteSet(Cards)
  BY <1>1, FS_Subset
<1> QED  BY <1>1, <1>2, FS_CardinalityType

\* RemoveKnown returns them in an order.
LEMMA DeckOfRequest ==
  \A r : IsFiniteSet(Free(r)) /\ Cardinality(Free(r)) \in 0..Cardinality(Cards)
        /\ RemoveKnown(r) \in Orders(Free(r))
<1> SUFFICES ASSUME NEW r
             PROVE  /\ IsFiniteSet(Free(r)) /\ Cardinality(Free(r)) \in 0..Cardinality(Cards)
                    /\ RemoveKnown(r) \in Orders(Free(r))
  OBVIOUS
<1>1. Range(NewDeck) = Cards
  BY CardsAreFinite, InOrderIsOrder, OrderIsSequence DEF NewDeck
<1>2. Free(r) \in SUBSET Cards
  BY DEF Free
<1>3. IsFiniteSet(Free(r)) /\ Cardinality(Free(r)) <= Cardinality(Cards)
  BY <1>2, CardsAreFinite, FS_Subset
<1>4. Cardinality(Free(r)) \in Nat
  BY <1>3, FS_CardinalityType
<1>5. RemoveKnown(r) = InOrder(Free(r)) /\ Free(r) \in SUBSET Int
  BY <1>1, <1>2, CardsAreFinite DEF RemoveKnown, Free
<1> QED  BY <1>3, <1>4, <1>5, CardsAreFinite, InOrderIsOrder

\* A request that was let in: what ParseCards and Refused leave.
Seated(r) ==
  /\ r \in [hero : Seq(Cards), board : Seq(Cards), opponents : Int, iterations : Nat \ {0}]
  /\ Len(r.hero) = 2 /\ Len(r.board) <= 5
  /\ Len(Known(r)) <= Cardinality(Range(Known(r)))
  /\ Needed(r) <= Cardinality(Free(r))

\* Its known cards are all different and the others are enough.
LEMMA SeatedCounts ==
  ASSUME NEW r, Seated(r)
  PROVE  /\ Cardinality(Free(r)) = Cardinality(Cards) - Len(Known(r))
         /\ Opponents(r) \in Nat \ {0} /\ MissingBoard(r) \in 0..5
         /\ Needed(r) = 2 * Opponents(r) + MissingBoard(r)
<1> DEFINE k == Known(r)
<1>1. k \in Seq(Cards) /\ Len(r.board) \in Nat
  BY DEF Seated, Known
<1>2. IsFiniteSet(1..Len(k)) /\ Cardinality(1..Len(k)) = Len(k) /\ Len(k) \in Nat
  <2> DEFINE n == Len(k)
  <2>1. n \in Nat /\ 1 \in Int /\ n \in Int
    BY <1>1
  <2> HIDE DEF n
  <2>2. IsFiniteSet(1..n) /\ Cardinality(1..n) = IF 1 > n THEN 0 ELSE n - 1 + 1
    BY <2>1, FS_Interval
  <2>3. Cardinality(1..n) = n
    BY <2>1, <2>2
  <2> QED  BY <2>1, <2>2, <2>3 DEF n
<1>3. k \in Surjection(1..Len(k), Range(k))
  BY <1>1 DEF Surjection, Range
<1>4. Range(k) \in SUBSET Cards
  BY <1>1 DEF Range
<1>5. IsFiniteSet(Range(k)) /\ Cardinality(Range(k)) = Len(k)
  <2> HIDE DEF k
  <2>1. IsFiniteSet(Range(k)) /\ Cardinality(Range(k)) <= Len(k)
    BY <1>2, <1>3, FS_Surjection
  <2>2. Cardinality(Range(k)) \in Nat
    BY <2>1, FS_CardinalityType
  <2> QED  BY <1>2, <2>1, <2>2 DEF Seated, k
<1>6. Cardinality(Cards \ Range(k)) = Cardinality(Cards) - Cardinality(Range(k))
  <2>1. Cards \cap Range(k) = Range(k)
    BY <1>4
  <2> QED  BY <2>1, CardsAreFinite, FS_Difference
<1>7. Opponents(r) \in Nat \ {0} /\ MissingBoard(r) \in 0..5
  <2>1. r.opponents \in Int /\ Len(r.board) <= 5
    BY DEF Seated
  <2>2. Opponents(r) \in Nat \ {0}
    BY <2>1 DEF Opponents
  <2> DEFINE n == Len(r.board)
  <2>3. n \in Nat /\ n <= 5
    BY <1>1, <2>1
  <2> HIDE DEF n
  <2>4. 5 - n \in 0..5
    BY <2>3
  <2> QED  BY <2>2, <2>4 DEF MissingBoard, n
<1> QED  BY <1>5, <1>6, <1>7 DEF Free, Needed

\* h is how the deck of request r lay after each of the draws d, up to the order a.
Shuffles(r, h, d, a) ==
  /\ h \in [0..Len(d) -> Orders(Free(r))]
  /\ h[0] = RemoveKnown(r) /\ h[Len(d)] = a
  /\ \A i \in 1..Len(d) : /\ d[i] \in i..Cardinality(Free(r))
                          /\ h[i] = Swapped(h[i - 1], i, d[i])
                          /\ a[i] = h[i][i]

\* One more swap: positions that were dealt stay as they were.
LEMMA OneMoreSwap ==
  ASSUME NEW r, NEW d \in Seq(Int), NEW h, NEW a, Shuffles(r, h, d, a),
         Len(d) < Cardinality(Free(r)), NEW j \in (Len(d) + 1)..Cardinality(Free(r))
  PROVE  \E g : Shuffles(r, g, Append(d, j), Swapped(a, Len(d) + 1, j))
<1> DEFINE N == Cardinality(Free(r))
           n == Len(d)
           b == Swapped(a, n + 1, j)
           e == Append(d, j)
           g == [k \in 0..(n + 1) |-> IF k = n + 1 THEN b ELSE h[k]]
<1>1. IsFiniteSet(Free(r)) /\ N \in Nat /\ n \in Nat /\ n + 1 \in 1..N /\ j \in 1..N
  BY DeckOfRequest
<1>2. a \in Orders(Free(r)) /\ h \in [0..n -> Orders(Free(r))] /\ h[n] = a
  BY <1>1 DEF Shuffles
<1>3. /\ b \in Orders(Free(r)) /\ b[n + 1] = a[j]
      /\ \A k \in 1..N : k # n + 1 /\ k # j => b[k] = a[k]
  <2> HIDE DEF N, n
  <2> QED  BY <1>1, <1>2, SwapIsOrder DEF N
<1>4. Len(e) = n + 1 /\ e[n + 1] = j /\ \A i \in 1..n : e[i] = d[i]
  OBVIOUS
<1>5. g \in [0..(n + 1) -> Orders(Free(r))] /\ g[0] = RemoveKnown(r) /\ g[n + 1] = b
  <2> HIDE DEF b, N
  <2> QED  BY <1>1, <1>2, <1>3 DEF Shuffles
<1>6. ASSUME NEW i \in 1..(n + 1)
      PROVE  e[i] \in i..N /\ g[i] = Swapped(g[i - 1], i, e[i]) /\ b[i] = g[i][i]
  <2>1. CASE i = n + 1
    <3>1. g[i] = b /\ g[i - 1] = h[n] /\ e[i] = j
      BY <1>1, <1>4, <2>1
    <3> QED  BY <1>1, <1>2, <2>1, <3>1
  <2>2. CASE i # n + 1
    <3>1. i \in 1..n /\ i \in 1..N /\ i # j
      BY <1>1, <2>2
    <3>2. g[i] = h[i] /\ g[i - 1] = h[i - 1] /\ e[i] = d[i]
      BY <1>1, <1>4, <3>1
    <3>3. d[i] \in i..N /\ h[i] = Swapped(h[i - 1], i, d[i]) /\ a[i] = h[i][i]
      BY <3>1 DEF Shuffles
    <3>4. b[i] = a[i]
      <4> HIDE DEF b, N, n
      <4> QED  BY <1>3, <2>2, <3>1
    <3> QED  BY <3>2, <3>3, <3>4
  <2> QED  BY <2>1, <2>2
<1> HIDE DEF b, e, g
<1>7. Shuffles(r, g, e, b)
  BY <1>4, <1>5, <1>6 DEF Shuffles
<1> QED  BY <1>7 DEF b, e

-----------------------------------------------------------------------------
\* Results.

\* The pot is a natural number.
LEMMA PotType == Pot \in Nat
BY SMT DEF Pot

\* What a result r of n iterations at a table of p players has to be.
Sound(r, n, p) ==
  /\ r \in Counters
  /\ r["iterations"] = n
  /\ r["wins"] + r["ties"] + r["losses"] = n
  /\ (Pot \div p) * r["ties"] <= r["equity_micros"] - Pot * r["wins"]
  /\ r["equity_micros"] - Pot * r["wins"] <= (Pot \div 2) * r["ties"]

\* The result before the first iteration.
LEMMA SoundZero == \A p \in Nat \ {0} : Sound(ZeroCounters, 0, p)
<1> SUFFICES ASSUME NEW p \in Nat \ {0} PROVE Sound(ZeroCounters, 0, p)
  OBVIOUS
<1>1. Pot \div p \in Nat
  BY PotType, DivBounds
<1> QED  BY <1>1, PotType DEF Sound, ZeroCounters, Counters, Fields

\* Results of the same table add up.
LEMMA SoundPlus ==
  ASSUME NEW a, NEW b, NEW m \in Int, NEW n \in Int, NEW p \in Nat \ {0},
         Sound(a, m, p), Sound(b, n, p)
  PROVE  Sound(Plus(a, b), m + n, p)
<1> DEFINE c == Plus(a, b)
           l == Pot \div p
<1>1. l \in Nat
  BY PotType, DivBounds
<1>2. a \in Counters /\ b \in Counters
  BY DEF Sound
<1>3. \A f \in Fields : a[f] \in Nat /\ b[f] \in Nat /\ c[f] = a[f] + b[f]
  BY <1>2 DEF Counters, Plus
<1>4. c \in Counters
  BY <1>2 DEF Counters, Plus
<1>5. l * c["ties"] = l * a["ties"] + l * b["ties"]
  BY <1>1, <1>3 DEF Fields
<1>6. l * a["ties"] \in Nat /\ l * b["ties"] \in Nat
  BY <1>1, <1>3 DEF Fields
<1>7. /\ a["iterations"] = m /\ a["wins"] + a["ties"] + a["losses"] = m
      /\ b["iterations"] = n /\ b["wins"] + b["ties"] + b["losses"] = n
      /\ l * a["ties"] <= a["equity_micros"] - Pot * a["wins"]
      /\ a["equity_micros"] - Pot * a["wins"] <= (Pot \div 2) * a["ties"]
      /\ l * b["ties"] <= b["equity_micros"] - Pot * b["wins"]
      /\ b["equity_micros"] - Pot * b["wins"] <= (Pot \div 2) * b["ties"]
  BY DEF Sound
<1>8. {"iterations", "wins", "ties", "losses", "equity_micros"} \subseteq Fields
  BY DEF Fields
<1> HIDE DEF c, l
<1>9. /\ c["iterations"] = m + n
      /\ c["wins"] + c["ties"] + c["losses"] = m + n
  BY <1>3, <1>7, <1>8
<1>10. l * c["ties"] <= c["equity_micros"] - Pot * c["wins"]
  BY <1>3, <1>5, <1>6, <1>7, <1>8, PotType
<1>11. c["equity_micros"] - Pot * c["wins"] <= (Pot \div 2) * c["ties"]
  BY <1>3, <1>7, <1>8, PotType
<1> QED  BY <1>4, <1>9, <1>10, <1>11 DEF Sound, c, l

\* There is one seat more than there are opponents.
LEMMA SeatsAreFinite ==
  ASSUME Opponents(req) \in Nat \ {0}
  PROVE  IsFiniteSet(Seats) /\ Cardinality(Seats) = Opponents(req) + 1
<1> DEFINE n == Opponents(req)
<1>1. 0 \in Int /\ n \in Int /\ ~(0 > n) /\ n - 0 + 1 = n + 1
  OBVIOUS
<1> HIDE DEF n
<1>2. IsFiniteSet(0..n) /\ Cardinality(0..n) = n + 1
  BY <1>1, FS_Interval
<1> QED  BY <1>2 DEF Seats, n

\* So is what one iteration adds: one win, tie or loss, and a tie is worth between
\* a half and an equal part of the pot.
LEMMA OutcomeIsSound ==
  ASSUME Seated(req), NEW seat \in Seats
  PROVE  Sound(Outcome(seat), 1, Opponents(req) + 1)
<1> DEFINE p == Opponents(req) + 1
           others == Seats \ {seat}
           equals == {o \in others : HandValue(o) = HandValue(seat)}
           tied == Cardinality(equals)
           Add(field, micros) ==
             [f \in Fields |-> IF f \in {"iterations", field} THEN 1
                               ELSE IF f = "equity_micros" THEN micros ELSE 0]
<1>1. Opponents(req) \in Nat \ {0} /\ p \in Nat \ {0}
  BY SeatedCounts
<1>2. Pot \div p \in Nat
  BY <1>1, PotType, DivBounds
<1>3. tied \in 0..(p - 1)
  <2>1. IsFiniteSet(Seats) /\ Cardinality(Seats) = p
    BY <1>1, SeatsAreFinite
  <2>2. IsFiniteSet(others) /\ Cardinality(others) = p - 1
    BY <2>1, FS_RemoveElement
  <2>3. equals \in SUBSET others
    OBVIOUS
  <2> HIDE DEF equals, others
  <2>4. IsFiniteSet(equals) /\ tied <= p - 1
    BY <2>2, <2>3, FS_Subset
  <2>5. tied \in Nat
    BY <2>4, FS_CardinalityType
  <2> QED  BY <1>1, <2>4, <2>5
<1>4. Outcome(seat) =
        IF \E o \in others : HandValue(o) > HandValue(seat) THEN Add("losses", 0)
        ELSE IF tied > 0 THEN Add("ties", Share(tied))
        ELSE Add("wins", Pot)
  BY DEF Outcome
<1> HIDE DEF tied, p, others
<1>5. Sound(Add("losses", 0), 1, p) /\ Sound(Add("wins", Pot), 1, p)
  BY <1>2, PotType DEF Sound, Counters, Fields
<1>6. ASSUME tied > 0 PROVE Sound(Add("ties", Share(tied)), 1, p)
  <2>1. /\ tied + 1 \in Nat \ {0} /\ 2 \in Nat \ {0} /\ 2 <= tied + 1 /\ tied + 1 <= p
        /\ Pot \in Nat
    BY <1>1, <1>3, <1>6, PotType
  <2> DEFINE t == tied + 1
  <2> HIDE DEF t
  <2>2. Pot \div t \in Nat
    BY <2>1, DivBounds DEF t
  <2>3. Pot \div p <= Pot \div t
    BY <1>1, <2>1, DivAntitone DEF t
  <2>4. Pot \div t <= Pot \div 2
    BY <2>1, DivAntitone DEF t
  <2>5. Share(tied) = Pot \div t
    BY DEF Share, t
  <2> DEFINE x == Share(tied)
             r == Add("ties", x)
  <2>6. x \in Nat /\ Pot \div p <= x /\ x <= Pot \div 2
    BY <2>2, <2>3, <2>4, <2>5
  <2> HIDE DEF x
  <2>7. /\ r["iterations"] = 1 /\ r["wins"] = 0 /\ r["ties"] = 1 /\ r["losses"] = 0
        /\ r["equity_micros"] = x /\ r \in Counters
    BY <2>6 DEF Counters, Fields
  <2> HIDE DEF r
  <2>8. Sound(r, 1, p)
    BY <1>2, <2>6, <2>7, PotType DEF Sound
  <2> QED  BY <2>8 DEF r, x
<1> QED  BY <1>4, <1>5, <1>6 DEF p

-----------------------------------------------------------------------------
\* The value of a hand is a number.

\* Ranks are finitely many, and the highest of some is one of them.
LEMMA RanksAreFinite ==
  ASSUME NEW S \in SUBSET (0..14)
  PROVE  IsFiniteSet(S) /\ S \in SUBSET Int /\ (S # {} => Highest(S) \in S)
<1>1. IsFiniteSet(0..14)
  <2>1. 0 \in Int /\ 14 \in Int  OBVIOUS
  <2> QED  BY <2>1, FS_Interval
<1>2. IsFiniteSet(S)
  BY <1>1, FS_Subset
<1>3. S \in SUBSET Int
  OBVIOUS
<1>4. S # {} => \E x \in S : \A y \in S : y <= x
  BY <1>2, <1>3, HasExtremes
<1> QED  BY <1>2, <1>3, <1>4 DEF Highest

\* The highest ranks are a sequence of integers.
LEMMA TopRanksType ==
  ASSUME NEW S \in SUBSET (0..14), NEW n \in Nat PROVE topRanks(S, n) \in Seq(Int)
<1> DEFINE m == Cardinality(S)
           Less == {p \in S \X S : p[1] > p[2]}
           d == Descending(S)
<1>1. IsFiniteSet(S) /\ S \in SUBSET Int /\ m \in Nat
  BY RanksAreFinite, FS_CardinalityType
<1>2. \A x \in S : {c \in S : <<c, x>> \in Less} = {c \in S : c > x}
  OBVIOUS
<1>3. /\ Less \in SUBSET (S \X S)
      /\ \A x \in S : <<x, x>> \notin Less
      /\ \A x, y \in S : x # y => <<x, y>> \in Less \/ <<y, x>> \in Less
      /\ \A x, y, z \in S : <<x, y>> \in Less /\ <<y, z>> \in Less => <<x, z>> \in Less
  BY <1>1
<1>4. \A i \in 1..m : \E x \in S : Cardinality({c \in S : c > x}) = i - 1
  <2> HIDE DEF Less
  <2>1. /\ \A x, y \in S : Ahead(x, Less, S) = Ahead(y, Less, S) => x = y
        /\ \A i \in 1..Cardinality(S) : \E x \in S : Ahead(x, Less, S) = i - 1
        /\ \A x \in S : \E i \in 1..Cardinality(S) : Ahead(x, Less, S) = i - 1
    BY <1>1, <1>3, Enumeration
  <2> QED  BY <1>2, <2>1 DEF Ahead
<1>5. d = [i \in 1..m |-> CHOOSE x \in S : Cardinality({c \in S : c > x}) = i - 1]
  BY DEF Descending
<1> HIDE DEF m, d
<1>6. \A i \in 1..m : d[i] \in Int
  BY <1>1, <1>4, <1>5
<1>7. d \in Seq(Int) /\ Len(d) = m
  <2>1. d \in [1..m -> Int]
    BY <1>5, <1>6
  <2> QED  BY <1>1, <2>1
<1> QED  BY <1>1, <1>7 DEF topRanks, m, d

\* An encoded score is an int, also when a category has fewer than five ranks to tell.
LEMMA EncodeType ==
  ASSUME NEW category \in Nat, NEW ranks \in Seq(Int) PROVE encode(category, ranks) \in Int
<1> DEFINE digit(i) == IF i <= Len(ranks) THEN ranks[i] ELSE 0
<1>1. digit(1) \in Int /\ digit(2) \in Int /\ digit(3) \in Int /\ digit(4) \in Int /\ digit(5) \in Int
  OBVIOUS
<1>2. encode(category, ranks) =
        category * 1048576 + digit(1) * 65536 + digit(2) * 4096 + digit(3) * 256
          + digit(4) * 16 + digit(5)
  BY SMT DEF encode
<1> DEFINE d1 == digit(1)
           d2 == digit(2)
           d3 == digit(3)
           d4 == digit(4)
           d5 == digit(5)
<1> HIDE DEF d1, d2, d3, d4, d5
<1>3. d1 \in Int /\ d2 \in Int /\ d3 \in Int /\ d4 \in Int /\ d5 \in Int
  BY <1>1 DEF d1, d2, d3, d4, d5
<1>4. category * 1048576 + d1 * 65536 + d2 * 4096 + d3 * 256 + d4 * 16 + d5 \in Int
  BY <1>3, SMT
<1> QED  BY <1>2, <1>4, SMT DEF d1, d2, d3, d4, d5

\* The high card of a straight is a rank, or zero when there is none.
LEMMA StraightHighType ==
  ASSUME NEW mask \in SUBSET (0..14) PROVE straightHigh(mask) \in 0..14
<1> DEFINE highs == {h \in 6..14 : (h - 4)..h \subseteq mask}
<1>1. highs \in SUBSET (0..14)
  OBVIOUS
<1>2. straightHigh(mask) = IF {14, 2, 3, 4, 5} \subseteq mask THEN 5
                           ELSE IF highs # {} THEN Highest(highs) ELSE 0
  BY DEF straightHigh
<1> HIDE DEF highs
<1>3. highs # {} => Highest(highs) \in 0..14
  BY <1>1, RanksAreFinite
<1> QED  BY <1>2, <1>3

\* Evaluate returns an int for every hand (evaluator.go).
LEMMA EvaluateType ==
  ASSUME NEW cards \in SUBSET ((0..14) \X (0..14)) PROVE Evaluate(cards) \in Int
<1> DEFINE rankMask == Ranks(cards)
           flushes == {suitMask(cards, s) : s \in {c[2] : c \in cards}}
           suited == {m \in flushes : Cardinality(m) >= 5}
           straights == {straightHigh(m) : m \in suited} \ {0}
           quads == OfCount(cards, 4)
           trips == OfCount(cards, 3)
           pairs == OfCount(cards, 2)
           singles == OfCount(cards, 1)
           two == topRanks(pairs, 2)
           R == SUBSET (0..14)
<1>1. /\ rankMask \in R /\ quads \in R /\ trips \in R /\ pairs \in R /\ singles \in R
      /\ \A m \in flushes : m \in R
  BY DEF Ranks, suitMask, OfCount
<1>2. \A S \in R : S # {} => Highest(S) \in Int
  BY RanksAreFinite
<1>3. straights \in R
  BY <1>1, StraightHighType
<1>4. straightHigh(rankMask) \in Int
  BY <1>1, StraightHighType
<1>5. Evaluate(cards) =
      IF straights # {} THEN encode(StraightFlush, <<Highest(straights)>>)
      ELSE IF quads # {}
        THEN encode(Quads, <<Highest(quads), firstRankNot(singles, pairs, trips)>>)
      ELSE IF trips # {} /\ (pairs # {} \/ Cardinality(trips) > 1)
        THEN encode(FullHouse, <<Highest(trips), pairRank(trips, pairs)>>)
      ELSE IF suited # {} THEN encode(Flush, topRanks(CHOOSE m \in suited : TRUE, 5))
      ELSE IF straightHigh(rankMask) > 0 THEN encode(Straight, <<straightHigh(rankMask)>>)
      ELSE IF trips # {}
        THEN encode(Trips, <<Highest(trips)>> \o topRanks(rankMask \ {Highest(trips)}, 2))
      ELSE IF Cardinality(pairs) >= 2
        THEN encode(TwoPair, two \o topRanks(rankMask \ {two[1], two[2]}, 1))
      ELSE IF pairs # {} THEN encode(OnePair, two \o topRanks(rankMask \ pairs, 3))
      ELSE encode(HighCard, topRanks(rankMask, 5))
  BY DEF Evaluate
<1>6. firstRankNot(singles, pairs, trips) \in Int
  BY <1>1, <1>2 DEF firstRankNot
<1>7. pairRank(trips, pairs) \in Int
  <2> DEFINE S == {0} \union pairs \union (trips \ {Highest(trips)})
  <2>1. S \in R /\ S # {}
    BY <1>1
  <2> HIDE DEF S
  <2>2. Highest(S) \in Int
    BY <1>2, <2>1
  <2> QED  BY <2>2 DEF pairRank, S
<1>8. suited # {} => (CHOOSE m \in suited : TRUE) \in R
  BY <1>1
<1>9. \A S \in R : /\ topRanks(S, 1) \in Seq(Int) /\ topRanks(S, 2) \in Seq(Int)
                   /\ topRanks(S, 3) \in Seq(Int) /\ topRanks(S, 5) \in Seq(Int)
  BY TopRanksType
<1>10. /\ StraightFlush \in Nat /\ Quads \in Nat /\ FullHouse \in Nat /\ Flush \in Nat
       /\ Straight \in Nat /\ Trips \in Nat /\ TwoPair \in Nat /\ OnePair \in Nat
       /\ HighCard \in Nat
  BY DEF StraightFlush, Quads, FullHouse, Flush, Straight, Trips, TwoPair, OnePair, HighCard
<1> HIDE DEF rankMask, flushes, suited, straights, quads, trips, pairs, singles, two, R
<1>11. \A x, y \in Int : <<x>> \in Seq(Int) /\ <<x, y>> \in Seq(Int)
  OBVIOUS
<1>12. \A x, y \in Seq(Int) : x \o y \in Seq(Int)
  OBVIOUS
<1>13. two \in Seq(Int) /\ \A S \in R : \A T : S \ T \in R
  <2>1. two \in Seq(Int)
    BY <1>1, <1>9 DEF two
  <2> QED  BY <2>1 DEF R
<1>14. \A c \in Nat, s \in Seq(Int) : encode(c, s) \in Int
  BY EncodeType
<1>15. straights # {} => encode(StraightFlush, <<Highest(straights)>>) \in Int
  BY <1>2, <1>3, <1>10, <1>11, <1>14
<1>16. quads # {} => encode(Quads, <<Highest(quads), firstRankNot(singles, pairs, trips)>>) \in Int
  BY <1>1, <1>2, <1>6, <1>10, <1>11, <1>14
<1>17. trips # {} => encode(FullHouse, <<Highest(trips), pairRank(trips, pairs)>>) \in Int
  BY <1>1, <1>2, <1>7, <1>10, <1>11, <1>14
<1>18. suited # {} => encode(Flush, topRanks(CHOOSE m \in suited : TRUE, 5)) \in Int
  BY <1>8, <1>9, <1>10, <1>14
<1>19. encode(Straight, <<straightHigh(rankMask)>>) \in Int
  BY <1>4, <1>10, <1>11, <1>14
<1>20. trips # {} =>
         encode(Trips, <<Highest(trips)>> \o topRanks(rankMask \ {Highest(trips)}, 2)) \in Int
  BY <1>1, <1>2, <1>9, <1>10, <1>11, <1>12, <1>13, <1>14
<1>21. encode(TwoPair, two \o topRanks(rankMask \ {two[1], two[2]}, 1)) \in Int
  BY <1>1, <1>9, <1>10, <1>12, <1>13, <1>14
<1>22. encode(OnePair, two \o topRanks(rankMask \ pairs, 3)) \in Int
  BY <1>1, <1>9, <1>10, <1>12, <1>13, <1>14
<1>23. encode(HighCard, topRanks(rankMask, 5)) \in Int
  BY <1>1, <1>9, <1>10, <1>14
<1> QED  BY <1>5, <1>15, <1>16, <1>17, <1>18, <1>19, <1>20, <1>21, <1>22, <1>23

-----------------------------------------------------------------------------
\* The showdown.

\* The board and a seat's hole cards are cards of the deck, and their value a number.
LEMMA HandValueType ==
  ASSUME Seated(req), scratch \in Orders(Free(req)), NEW seat \in Seats
  PROVE  HandValue(seat) \in Int
<1> DEFINE N == Cardinality(Free(req))
           M == MissingBoard(req)
           K == Opponents(req)
<1>1. K \in Nat \ {0} /\ M \in 0..5 /\ 2 * K + M <= N /\ N \in Nat /\ seat \in 0..K
  BY SeatedCounts, DeckOfRequest DEF Seated, Seats
<1>2. \A i \in 1..N : scratch[i] \in Cards
  BY DEF Orders, Free
<1>3. Range(req.hero) \in SUBSET Cards /\ Range(req.board) \in SUBSET Cards
  BY DEF Seated, Range
<1> HIDE DEF N, M, K
<1>4. \A i \in 1..M : i \in 1..N
  BY <1>1
<1>5. Board \in SUBSET Cards
  BY <1>2, <1>3, <1>4 DEF Board, M
<1>6. Hole(seat) \in SUBSET Cards
  <2>1. CASE seat = 0
    BY <1>3, <2>1 DEF Hole
  <2>2. CASE seat # 0
    <3>1. M + 2 * seat - 1 \in 1..N /\ M + 2 * seat - 1 + 1 \in 1..N
      BY <1>1, <2>2
    <3>2. Hole(seat) = {scratch[M + 2 * seat - 1], scratch[M + 2 * seat - 1 + 1]}
      BY <2>2 DEF Hole, M
    <3> QED  BY <1>2, <3>1, <3>2
  <2> QED  BY <2>1, <2>2
<1> DEFINE cards == Hole(seat) \union Board
           hand == {<<Rank(card), Suit(card)>> : card \in cards}
<1>7. cards \in SUBSET Cards
  BY <1>5, <1>6
<1>8. \A card \in Cards : Rank(card) \in 0..14 /\ Suit(card) \in 0..14
  <2> SUFFICES ASSUME NEW card \in 0..51 PROVE Rank(card) \in 0..14 /\ Suit(card) \in 0..14
    BY CardsAssumption
  <2> QED  BY SMT DEF Rank, Suit
<1> HIDE DEF cards
<1>9. hand \in SUBSET ((0..14) \X (0..14))
  BY <1>7, <1>8
<1>10. HandValue(seat) = Evaluate(hand)
  BY DEF HandValue, Value, cards
<1> HIDE DEF hand
<1> QED  BY <1>9, <1>10, EvaluateType

\* Those with the best hand are paid, and equally; the others get nothing.
LEMMA WinnersArePaid ==
  ASSUME Seated(req), scratch \in Orders(Free(req))
  PROVE  \E W \in SUBSET Seats :
           /\ W # {}
           /\ \A seat \in Seats : Outcome(seat)["equity_micros"] =
                                    IF seat \in W THEN Pot \div Cardinality(W) ELSE 0
<1> DEFINE V == {HandValue(seat) : seat \in Seats}
<1>1. IsFiniteSet(Seats) /\ 0 \in Seats
  BY SeatsAreFinite, SeatedCounts DEF Seats
<1>2. \A seat \in Seats : HandValue(seat) \in Int
  BY HandValueType
<1>3. PICK best \in V : \A v \in V : v <= best
  <2>1. V \in SUBSET Int /\ V # {}
    BY <1>1, <1>2
  <2> DEFINE f == [seat \in Seats |-> HandValue(seat)]
  <2>2. f \in Surjection(Seats, V)
    BY DEF Surjection
  <2> HIDE DEF f
  <2>3. IsFiniteSet(V)
    BY <1>1, <2>2, FS_Surjection
  <2> HIDE DEF V
  <2> QED  BY <2>1, <2>3, HasExtremes
<1> DEFINE W == {seat \in Seats : HandValue(seat) = best}
           n == Cardinality(W)
<1>4. W # {} /\ IsFiniteSet(W) /\ best \in Int
  BY <1>1, <1>2, <1>3, FS_Subset
<1>5. n \in Nat \ {0}
  BY <1>4, FS_CardinalityType, FS_EmptySet
<1>6. ASSUME NEW seat \in Seats
      PROVE  Outcome(seat)["equity_micros"] = IF seat \in W THEN Pot \div n ELSE 0
  <2> DEFINE others == Seats \ {seat}
             tied == Cardinality({o \in others : HandValue(o) = HandValue(seat)})
             beaten == \E o \in others : HandValue(o) > HandValue(seat)
  <2>1. Outcome(seat)["equity_micros"] =
          IF beaten THEN 0 ELSE IF tied > 0 THEN Share(tied) ELSE Pot
    BY DEF Outcome, Fields
  <2>2. CASE seat \in W
    <3>1. ~beaten
      BY <1>2, <1>3, <2>2
    <3>2. {o \in others : HandValue(o) = HandValue(seat)} = W \ {seat}
      BY <2>2
    <3> HIDE DEF W, beaten, others
    <3>3. tied = n - 1
      BY <1>4, <2>2, <3>2, FS_RemoveElement
    <3> HIDE DEF tied, n
    <3>4. CASE n = 1
      <4>1. Pot \div 1 = Pot
        BY PotType
      <4> QED  BY <2>1, <2>2, <3>1, <3>3, <3>4, <4>1
    <3>5. CASE n # 1
      <4>1. tied > 0 /\ tied + 1 = n
        BY <1>5, <3>3, <3>5
      <4> QED  BY <2>1, <2>2, <3>1, <4>1 DEF Share
    <3> QED  BY <3>4, <3>5
  <2>3. CASE seat \notin W
    <3>1. PICK o \in Seats : HandValue(o) = best
      BY <1>3
    <3>2. HandValue(seat) # best /\ HandValue(seat) <= best /\ o # seat
      BY <1>3, <2>3, <3>1
    <3>3. beaten
      BY <1>2, <1>4, <3>1, <3>2
    <3> QED  BY <2>1, <2>3, <3>3
  <2> QED  BY <2>2, <2>3
<1> HIDE DEF W
<1> QED
  <2>1. W \in SUBSET Seats
    BY DEF W
  <2> QED  BY <1>4, <1>6, <2>1

\* So the pot is paid once, whatever the deck and however many there are at the table.
LEMMA PotSplits ==
  ASSUME Seated(req), scratch \in Orders(Free(req)) PROVE PotIsShared
<1> DEFINE F == [seat \in Seats |-> Outcome(seat)["equity_micros"]]
           paid == Total(F, Seats)
<1>1. PICK W \in SUBSET Seats :
        /\ W # {}
        /\ \A seat \in Seats : F[seat] = IF seat \in W THEN Pot \div Cardinality(W) ELSE 0
  BY WinnersArePaid
<1>2. /\ IsFiniteSet(Seats) /\ IsFiniteSet(W) /\ Cardinality(W) \in Nat \ {0}
      /\ Cardinality(W) <= Cardinality(Seats) /\ Cardinality(Seats) \in Nat
  BY <1>1, SeatedCounts, SeatsAreFinite, FS_Subset, FS_CardinalityType, FS_EmptySet
<1> DEFINE n == Cardinality(W)
           q == Pot \div n
<1>3. q \in Nat /\ q * n <= Pot /\ Pot < (q + 1) * n
  BY <1>2, PotType, DivBounds
<1> HIDE DEF F
<1>4. paid = q * n
  BY <1>1, <1>2, <1>3, TotalOfConstant
<1>5. Pot - Cardinality(Seats) < paid /\ paid <= Pot
  <2> HIDE DEF q, n, paid
  <2>1. n \in Nat /\ n <= Cardinality(Seats)
    BY <1>2 DEF n
  <2>2. (q + 1) * n = q * n + n /\ q * n \in Nat
    BY <1>3, <2>1
  <2> QED  BY <1>2, <1>3, <1>4, <2>1, <2>2, PotType
<1> QED  BY <1>5 DEF PotIsShared, F

-----------------------------------------------------------------------------
\* The deal.

\* Where a card lies.
Position(a, card) == CHOOSE j \in DOMAIN a : a[j] = card

\* t is what the deck was before and after each swap, read off the deal.
Retraces(t, deal) ==
  t = [i \in 0..Len(deal) |->
         IF i = 0 THEN RemoveKnown(req)
         ELSE Swapped(t[i - 1], i, Position(t[i - 1], deal[i]))]

\* The choices that a deal is traced back to, in terms of decks retraced.
LEMMA DrawsAreRetraced ==
  \A deal :
    DrawsOf(deal) =
      [i \in DOMAIN deal |-> Position((CHOOSE t : Retraces(t, deal))[i - 1], deal[i])]
BY DEF DrawsOf, Retraces, Position

\* The deal determines the choices: the cards that were dealt, in their order, say
\* where each of them lay before it was swapped.
LEMMA DealDetermines ==
  ASSUME Seated(req), draws \in Seq(Int), Len(draws) = Needed(req),
         NEW h, Shuffles(req, h, draws, scratch)
  PROVE  DrawsOf(SubSeq(scratch, 1, Needed(req))) = draws
<1> DEFINE N == Cardinality(Free(req))
           n == Needed(req)
           deal == SubSeq(scratch, 1, n)
<1>1. IsFiniteSet(Free(req)) /\ N \in Nat /\ n \in Nat /\ n <= N
  BY SeatedCounts, DeckOfRequest DEF Seated
<1>2. /\ h \in [0..n -> Orders(Free(req))] /\ h[0] = RemoveKnown(req) /\ h[n] = scratch
      /\ \A i \in 1..n : /\ draws[i] \in i..N
                         /\ h[i] = Swapped(h[i - 1], i, draws[i])
                         /\ scratch[i] = h[i][i]
  BY DEF Shuffles
<1>3. scratch \in Seq(Free(req)) /\ Len(scratch) = N
  BY <1>1, <1>2, OrderIsSequence
<1>4. Len(deal) = n /\ DOMAIN deal = 1..n /\ \A i \in 1..n : deal[i] = scratch[i]
  <2> HIDE DEF n, N
  <2> QED  BY <1>1, <1>3
<1> HIDE DEF deal
<1>5. ASSUME NEW i \in 1..n PROVE Position(h[i - 1], deal[i]) = draws[i]
  <2> DEFINE b == h[i - 1]
             j == draws[i]
  <2>1. i - 1 \in 0..n /\ i \in 1..N /\ j \in 1..N /\ b \in Orders(Free(req))
    <3> HIDE DEF n, N
    <3>1. i - 1 \in 0..n /\ i \in 1..N /\ draws[i] \in i..N
      BY <1>1, <1>2
    <3> QED  BY <1>1, <1>2, <3>1
  <2>2. deal[i] = Swapped(b, i, j)[i]
    BY <1>2, <1>4
  <2> HIDE DEF b, j
  <2>3. deal[i] = b[j]
    BY <1>1, <2>1, <2>2, SwapIsOrder
  <2>4. DOMAIN b = 1..N /\ \A k \in 1..N : b[k] = b[j] => k = j
    BY <2>1 DEF Orders
  <2> HIDE DEF N
  <2>5. Position(b, deal[i]) = j
    BY <2>1, <2>3, <2>4 DEF Position
  <2> QED  BY <2>5 DEF b, j
<1>6. Retraces(h, deal)
  <2>1. ASSUME NEW i \in 0..n
        PROVE  h[i] = IF i = 0 THEN RemoveKnown(req)
                      ELSE Swapped(h[i - 1], i, Position(h[i - 1], deal[i]))
    <3>1. CASE i = 0
      BY <1>2, <3>1
    <3>2. CASE i # 0
      <4>1. i \in 1..n
        BY <1>1, <3>2
      <4> QED  BY <1>2, <1>5, <3>2, <4>1
    <3> QED  BY <3>1, <3>2
  <2> HIDE DEF n
  <2> QED  BY <1>2, <1>4, <2>1 DEF Retraces
<1> DEFINE t == CHOOSE u : Retraces(u, deal)
<1>7. DrawsOf(deal) = [i \in DOMAIN deal |-> Position(t[i - 1], deal[i])]
  BY DrawsAreRetraced
<1>8. Retraces(t, deal)
  BY <1>6
<1> HIDE DEF t
<1>9. \A i \in 0..n : t[i] = h[i]
  <2> DEFINE Good == {i \in 0..n : t[i] = h[i]}
  <2>1. /\ t[0] = RemoveKnown(req)
        /\ \A i \in 1..n : t[i] = Swapped(t[i - 1], i, Position(t[i - 1], deal[i]))
    <3> HIDE DEF n
    <3>1. \A i \in 0..n : t[i] = IF i = 0 THEN RemoveKnown(req)
                                 ELSE Swapped(t[i - 1], i, Position(t[i - 1], deal[i]))
      BY <1>4, <1>8 DEF Retraces
    <3>2. 0 \in 0..n /\ \A i \in 1..n : i \in 0..n /\ i # 0
      BY <1>1
    <3> QED  BY <3>1, <3>2
  <2>2. /\ h[0] = RemoveKnown(req)
        /\ \A i \in 1..n : h[i] = Swapped(h[i - 1], i, Position(h[i - 1], deal[i]))
    BY <1>2, <1>5
  <2> HIDE DEF n
  <2>3. 0 \in Good
    BY <1>1, <2>1, <2>2
  <2>4. \A i \in 1..n : i - 1 \in Good => i \in Good
    BY <1>1, <2>1, <2>2
  <2> HIDE DEF Good
  <2>5. \A i \in 0..n : i \in Good
    BY <1>1, <2>3, <2>4, UpTo
  <2> QED  BY <2>5 DEF Good
<1>10. \A i \in 1..n : Position(t[i - 1], deal[i]) = draws[i]
  <2>1. \A i \in 1..n : t[i - 1] = h[i - 1]
    BY <1>1, <1>9
  <2> QED  BY <1>5, <2>1
<1>11. draws = [i \in 1..n |-> draws[i]]
  OBVIOUS
<1> HIDE DEF n
<1>12. DrawsOf(deal) = [i \in 1..n |-> Position(t[i - 1], deal[i])]
  BY <1>4, <1>7
<1>13. DrawsOf(deal) = draws
  BY <1>10, <1>11, <1>12
<1> QED  BY <1>13 DEF deal, n

-----------------------------------------------------------------------------
\* A simulation.

Shuffled ==
  /\ Len(draws) <= Needed(req)
  /\ \E h : Shuffles(req, h, draws, scratch)

\* In a simulation the deck is what the draws so far made of it, and the result is
\* a sound one of the iterations so far.
SimInv ==
  /\ sim \in {"idle", "running", "failed", "done"}
  /\ result \in Counters
  /\ draws \in Seq(1..Cardinality(Cards))
  /\ sim \in {"running", "done"} =>
       /\ Seated(req)
       /\ Sound(result, result["iterations"], Opponents(req) + 1)
       /\ result["iterations"] <= req.iterations
  /\ sim = "running" => Shuffled
  /\ sim = "done" => result["iterations"] = req.iterations

\* Before the first swap the deck lies as RemoveKnown left it.
LEMMA NothingDrawn == \A r : \E h : Shuffles(r, h, <<>>, RemoveKnown(r))
<1> SUFFICES ASSUME NEW r PROVE \E h : Shuffles(r, h, <<>>, RemoveKnown(r))
  OBVIOUS
<1> DEFINE h == [i \in 0..0 |-> RemoveKnown(r)]
<1>1. Len(<<>>) = 0 /\ h[0] = RemoveKnown(r) /\ h \in [0..0 -> Orders(Free(r))]
  BY DeckOfRequest
<1>2. \A i \in 1..0 : FALSE
  OBVIOUS
<1> HIDE DEF h
<1>3. Shuffles(r, h, <<>>, RemoveKnown(r))
  BY <1>1, <1>2 DEF Shuffles
<1> QED  BY <1>3

\* In a running simulation the deck is an order of the cards that are free.
LEMMA ShuffledIsOrder ==
  ASSUME SimInv, sim = "running"
  PROVE  scratch \in Orders(Free(req)) /\ Len(draws) \in Nat
<1>1. Len(draws) \in Nat
  BY DEF SimInv
<1> QED  BY <1>1 DEF SimInv, Shuffled, Shuffles

\* A swap of the shuffle keeps the invariant of the simulation.
LEMMA SwapSimInv == ASSUME SimInv, Swap PROVE SimInv'
<1> DEFINE N == Cardinality(Free(req))
           i == Len(draws) + 1
<1>1. /\ sim = "running" /\ Len(draws) < Needed(req) /\ UNCHANGED <<req, result, sim>>
      /\ \E j \in Picks(i) : /\ scratch' = Swapped(scratch, i, j)
                             /\ draws' = Append(draws, j)
  BY DEF Swap, Looping
<1>2. /\ Seated(req) /\ N \in 0..Cardinality(Cards) /\ Needed(req) \in Nat /\ Needed(req) <= N
      /\ Cardinality(Cards) \in Nat /\ IsFiniteSet(Free(req))
  <2>1. Seated(req)
    BY <1>1 DEF SimInv
  <2>2. N \in 0..Cardinality(Cards) /\ Cardinality(Cards) \in Nat /\ IsFiniteSet(Free(req))
    BY DeckOfRequest, CardsAreFinite
  <2>3. Needed(req) \in Nat
    BY <2>1, SeatedCounts
  <2>4. Needed(req) <= N
    BY <2>1 DEF Seated
  <2> QED  BY <2>1, <2>2, <2>3, <2>4
<1>3. scratch \in Orders(Free(req)) /\ draws \in Seq(1..Cardinality(Cards)) /\ Len(draws) \in Nat
  BY <1>1, ShuffledIsOrder DEF SimInv
<1>4. Len(scratch) = N
  <2>1. IsFiniteSet(Free(req)) /\ scratch \in Orders(Free(req))
    BY <1>2, <1>3
  <2> QED  BY <2>1, OrderIsSequence
<1>5. PICK j \in i..N : scratch' = Swapped(scratch, i, j) /\ draws' = Append(draws, j)
  BY <1>1, <1>4 DEF Picks
<1>6. PICK h : Shuffles(req, h, draws, scratch)
  BY <1>1 DEF SimInv, Shuffled
<1>7. \E g : Shuffles(req, g, Append(draws, j), Swapped(scratch, i, j))
  <2>1. draws \in Seq(Int) /\ Len(draws) < Cardinality(Free(req))
        /\ j \in (Len(draws) + 1)..Cardinality(Free(req))
    <3>1. draws \in Seq(Int)
      <4> DEFINE P == 1..Cardinality(Cards)
      <4>1. P \in SUBSET Int
        BY <1>2
      <4>2. draws \in Seq(P)
        BY <1>3
      <4> HIDE DEF P
      <4> QED  BY <4>1, <4>2, SequenceOfMore
    <3> DEFINE k == Len(draws)
    <3>2. k < N
      <4> HIDE DEF k, N
      <4>1. k < Needed(req)
        BY <1>1 DEF k
      <4> QED  BY <1>2, <1>3, <4>1 DEF k
    <3> QED  BY <3>1, <3>2
  <2> HIDE DEF N
  <2> QED  BY <1>6, <2>1, OneMoreSwap
<1>8. draws' \in Seq(1..Cardinality(Cards)) /\ Len(draws') = Len(draws) + 1
  <2> HIDE DEF N
  <2>1. j \in 1..Cardinality(Cards)
    BY <1>2, <1>3
  <2> QED  BY <1>3, <1>5, <2>1
<1>9. Shuffled'
  <2>1. Len(draws') <= Needed(req')
    BY <1>1, <1>2, <1>3, <1>8
  <2> QED  BY <1>1, <1>5, <1>7, <2>1 DEF Shuffled
<1> QED  BY <1>1, <1>8, <1>9 DEF SimInv

\* So does the end of an iteration, the deal settled.
LEMMA SettleSimInv == ASSUME SimInv, Settle PROVE SimInv'
<1> DEFINE n == result["iterations"]
           p == Opponents(req) + 1
           gain == Outcome(0)
<1>1. /\ sim = "running" /\ n < req.iterations /\ UNCHANGED <<req, sim>>
      /\ result' = Plus(result, gain) /\ scratch' = RemoveKnown(req) /\ draws' = <<>>
  BY DEF Settle, Dealt, Looping
<1>2. Seated(req) /\ Sound(result, n, p)
  BY <1>1 DEF SimInv
<1>3. p \in Nat \ {0} /\ 0 \in Seats /\ Needed(req) \in Nat
  BY <1>2, SeatedCounts DEF Seats
<1>4. Sound(gain, 1, p)
  BY <1>2, <1>3, OutcomeIsSound
<1>5. n \in Nat /\ req.iterations \in Nat
  BY <1>2 DEF Sound, Counters, Fields, Seated
<1> HIDE DEF n, p, gain
<1>6. Sound(result', n + 1, p)
  BY <1>1, <1>2, <1>3, <1>4, <1>5, SoundPlus
<1>7. result' \in Counters /\ result'["iterations"] = n + 1 /\ n + 1 <= req.iterations
  BY <1>1, <1>5, <1>6 DEF Sound
<1>8. Shuffled'
  BY <1>1, <1>3, NothingDrawn DEF Shuffled
<1>9. draws' \in Seq(1..Cardinality(Cards))
  BY <1>1
<1> QED  BY <1>1, <1>2, <1>6, <1>7, <1>8, <1>9 DEF SimInv, p

\* So does the return of the result.
LEMMA ReturnSimInv == ASSUME SimInv, ReturnResult PROVE SimInv'
<1>1. /\ sim = "running" /\ result["iterations"] >= req.iterations /\ sim' = "done"
      /\ UNCHANGED <<req, scratch, draws, result>>
  BY DEF ReturnResult
<1>2. result["iterations"] \in Nat /\ req.iterations \in Nat
  BY <1>1 DEF SimInv, Seated, Counters, Fields
<1> QED  BY <1>1, <1>2 DEF SimInv

\* A step of the loop.
LEMMA SimulateSimInv ==
  ASSUME SimInv, Simulate
  PROVE  SimInv' /\ req' = req /\ sim = "running" /\ sim' \in {"running", "done"}
<1>1. SimInv'
  BY SwapSimInv, SettleSimInv, ReturnSimInv DEF Simulate
<1> QED  BY <1>1 DEF Simulate, Swap, Settle, ReturnResult, Dealt, Looping

\* Only requests that can be dealt are let in.
LEMMA EnterSimInv ==
  ASSUME SimInv, NEW r, NEW refused,
         r \in [hero : Seq(Cards), board : Seq(Cards), opponents : Int, iterations : Int],
         Refused(r) => refused, Enter(r, refused)
  PROVE  /\ SimInv' /\ sim = "idle" /\ sim' \in {"running", "failed"}
         /\ req'.opponents = r.opponents
         /\ req'.iterations = IF r.iterations <= 0 THEN DefaultIterations ELSE r.iterations
<1> DEFINE q == [r EXCEPT !.iterations = IF @ <= 0 THEN DefaultIterations ELSE @]
<1>1. /\ sim = "idle" /\ req' = q /\ result' = ZeroCounters /\ draws' = <<>>
      /\ \/ refused /\ sim' = "failed"
         \/ ~refused /\ sim' = "running" /\ scratch' = RemoveKnown(r)
  BY DEF Enter
<1>2. /\ q \in [hero : Seq(Cards), board : Seq(Cards), opponents : Int, iterations : Nat \ {0}]
      /\ q.hero = r.hero /\ q.board = r.board /\ q.opponents = r.opponents
      /\ q.iterations = IF r.iterations <= 0 THEN DefaultIterations ELSE r.iterations
  BY CardsAssumption
<1> HIDE DEF q
<1>3. /\ Known(q) = Known(r) /\ Free(q) = Free(r) /\ Needed(q) = Needed(r)
      /\ RemoveKnown(q) = RemoveKnown(r)
  BY <1>2 DEF Known, Free, Needed, RemoveKnown, Opponents, MissingBoard
<1>4. result' \in Counters /\ draws' \in Seq(1..Cardinality(Cards)) /\ result'["iterations"] = 0
  BY <1>1 DEF ZeroCounters, Counters, Fields
<1>5. ASSUME ~refused PROVE Seated(q)
  <2>1. /\ Len(r.hero) = 2 /\ ~(Len(r.board) > 5)
        /\ ~(Cardinality(Range(Known(r))) < Len(Known(r)))
        /\ ~(Needed(r) > Len(RemoveKnown(r)))
    BY <1>5 DEF Refused
  <2>2. Known(r) \in Seq(Cards) /\ Len(r.board) \in Nat /\ Len(Known(r)) \in Nat
    BY DEF Known
  <2>3. Cardinality(Range(Known(r))) \in Nat
    <3>1. Range(Known(r)) \in SUBSET Cards
      BY <2>2 DEF Range
    <3> QED  BY <3>1, CardsAreFinite, FS_Subset, FS_CardinalityType
  <2>4. Len(RemoveKnown(r)) = Cardinality(Free(r)) /\ Cardinality(Free(r)) \in Nat
    BY DeckOfRequest, OrderIsSequence, CardsAreFinite
  <2>5. Needed(r) \in Int
    BY <2>2 DEF Needed, Opponents, MissingBoard
  <2> QED  BY <1>2, <1>3, <2>1, <2>2, <2>3, <2>4, <2>5 DEF Seated
<1>6. ASSUME ~refused PROVE Shuffled'
  <2>1. scratch' = RemoveKnown(q) /\ req' = q /\ draws' = <<>>
    BY <1>1, <1>3, <1>6
  <2>2. Needed(q) \in Nat
    BY <1>5, <1>6, SeatedCounts
  <2> QED  BY <2>1, <2>2, NothingDrawn DEF Shuffled
<1>7. ASSUME ~refused PROVE Sound(result', 0, Opponents(q) + 1) /\ 0 <= q.iterations
  <2>1. Opponents(q) + 1 \in Nat \ {0}
    BY <1>5, <1>7, SeatedCounts
  <2> QED  BY <1>1, <1>2, <2>1, SoundZero, CardsAssumption
<1>8. SimInv'
  BY <1>1, <1>4, <1>5, <1>6, <1>7 DEF SimInv
<1> QED  BY <1>1, <1>2, <1>8

-----------------------------------------------------------------------------
\* The program.

Parsed == ParseCards(base.hero) /\ ParseCards(base.board)

\* The iterations of the simulation that is running or done.
Asked == IF per > 0 THEN sizes[Len(partials) + 1]
         ELSE IF total <= 0 THEN DefaultIterations ELSE total

\* How many share the pot.
Players == Opponents(base) + 1

\* The results so far are sound ones of the chunks so far, in the order of the plan.
ProgramInv ==
  /\ base \in Tables /\ (program = "working" => Parsed)
  /\ partials \in Seq(Counters) /\ Len(partials) <= Len(sizes)
  /\ Sound(Merged(partials, DOMAIN partials), Total(sizes, 1..Len(partials)), Players)
  /\ partials # <<>> => stage = "done"
  /\ sim # "idle" => per <= 0 \/ (stage = "done" /\ Len(partials) < Len(sizes))
  /\ partials # <<>> \/ sim # "idle" => req.opponents = base.opponents
  /\ sim \in {"running", "done"} => req.iterations = Asked
  /\ program = "printed" =>
       IF per > 0 THEN stage = "done" /\ Len(partials) = Len(sizes) /\ printed = MergeResults(partials)
       ELSE sim = "done" /\ printed = result

RunInv == IInv /\ SimInv /\ ProgramInv

\* At the table sit the hero and at least one opponent.
LEMMA PlayersAreMany ==
  ASSUME base \in Tables PROVE base.opponents \in Int /\ Players \in Nat \ {0}
<1>1. base.opponents \in Int
  BY TablesAssumption
<1> QED  BY <1>1 DEF Players, Opponents

\* What the program is given has been parsed: its cards are cards of the deck.
LEMMA RequestType ==
  ASSUME base \in Tables, Parsed, NEW n \in Int
  PROVE  /\ Request(n) \in [hero : Seq(Cards), board : Seq(Cards), opponents : Int, iterations : Int]
         /\ Request(n).opponents = base.opponents /\ Request(n).iterations = n
<1>1. base \in [hero : Seq(Int), board : Seq(Int), opponents : Int]
  BY TablesAssumption
<1>2. ASSUME NEW s \in Seq(Int), ParseCards(s) PROVE s \in Seq(Cards)
  <2>1. /\ Len(s) \in Nat /\ s = [i \in 1..Len(s) |-> s[i]]
        /\ \A i \in 1..Len(s) : s[i] \in Cards
    BY <1>2 DEF ParseCards
  <2> QED  BY <2>1
<1>3. base.hero \in Seq(Cards) /\ base.board \in Seq(Cards)
  BY <1>1, <1>2 DEF Parsed
<1> QED  BY <1>1, <1>3 DEF Request

\* An empty list of partial results.
LEMMA NothingMerged ==
  ASSUME base \in Tables
  PROVE  \A s : Sound(Merged(<<>>, DOMAIN <<>>), Total(s, 1..0), Players)
<1>1. DOMAIN <<>> = {} /\ 1..0 = {}
  OBVIOUS
<1> QED  BY <1>1, MergedOfNone, TotalOfNone, SoundZero, PlayersAreMany

\* The program starts with nothing planned or simulated.
LEMMA InitRunInv == RunInit => RunInv
<1> SUFFICES ASSUME RunInit PROVE RunInv
  OBVIOUS
<1>1. IInv
  BY InitIInv DEF RunInit
<1>2. SimInv
  <2>1. /\ result = ZeroCounters /\ draws = <<>> /\ sim = "idle"
    BY DEF RunInit, SimInit
  <2> QED  BY <2>1 DEF SimInv, ZeroCounters, Counters, Fields
<1>3. /\ base \in Tables /\ partials = <<>> /\ program = "parsing" /\ sim = "idle" /\ sizes = <<>>
  BY DEF RunInit, SimInit, Init
<1>4. Len(partials) = 0 /\ Len(sizes) = 0 /\ partials \in Seq(Counters)
  BY <1>3
<1>5. Sound(Merged(partials, DOMAIN partials), Total(sizes, 1..Len(partials)), Players)
  BY <1>3, <1>4, NothingMerged
<1>6. ProgramInv
  BY <1>3, <1>4, <1>5 DEF ProgramInv
<1> QED  BY <1>1, <1>2, <1>6 DEF RunInv

\* Reading the arguments keeps the invariant of the program.
LEMMA ReadArgumentsInv == ASSUME RunInv, ReadArguments PROVE ProgramInv' /\ SimInv'
<1>1. /\ program' \in {"working", "fatal"} /\ (program' = "working" => Parsed)
      /\ UNCHANGED <<vars, simVars, base, partials, printed>>
  BY DEF ReadArguments, Parsed
<1> QED  BY <1>1 DEF RunInv, ProgramInv, SimInv, Shuffled, Parsed, Asked, Players, simVars, vars, request

\* So does building the plan.
LEMMA BuildPlanInv == ASSUME RunInv, BuildPlan PROVE ProgramInv' /\ SimInv'
<1>1. /\ program = "working" /\ per > 0 /\ stage \in {"called", "loop"} /\ per' = per
      /\ program' \in {"fatal", "panic", "working"}
      /\ UNCHANGED <<simVars, base, partials, printed>>
  BY DEF BuildPlan, Validate, MakeChunk, ReturnPlan, request
<1>2. IInv /\ SimInv /\ ProgramInv
  BY DEF RunInv
<1>3. sim = "idle" /\ partials = <<>> /\ base \in Tables /\ Parsed
  <2>1. per \in Int
    BY <1>2 DEF IInv, TypeOK, Ints
  <2> QED  BY <1>1, <1>2, <2>1 DEF ProgramInv
<1>4. SimInv'
  BY <1>1, <1>2 DEF SimInv, Shuffled, simVars
<1>5. sizes' \in Seq(1..MaxInt) /\ Len(sizes') \in Nat
  <2>1. [Next]_vars
    BY <1>1 DEF BuildPlan, Next
  <2> QED  BY <1>2, <2>1, NextIInv DEF IInv, TypeOK
<1>6. Len(partials') = 0 /\ partials' = <<>> /\ partials' \in Seq(Counters)
  BY <1>1, <1>3
<1>7. Sound(Merged(<<>>, DOMAIN <<>>), Total(sizes', 1..0), Players)
  BY <1>3, NothingMerged
<1>8. Players' = Players /\ Parsed' /\ base' = base /\ sim' = "idle"
  BY <1>1, <1>3 DEF Players, Parsed, simVars
<1>9. Sound(Merged(partials', DOMAIN partials'), Total(sizes', 1..Len(partials')), Players')
  BY <1>6, <1>7, <1>8
<1>10. ProgramInv'
  BY <1>1, <1>3, <1>5, <1>6, <1>8, <1>9 DEF ProgramInv
<1> QED  BY <1>4, <1>10

\* So does taking the result of a chunk.
LEMMA SimulateChunkInv == ASSUME RunInv, SimulateChunk PROVE ProgramInv' /\ SimInv'
<1> DEFINE n == sizes[Len(partials) + 1]
           r == Request(n)
<1>1. /\ program = "working" /\ per > 0 /\ stage = "done" /\ Len(partials) < Len(sizes)
      /\ Enter(r, r.iterations <= 0 \/ Refused(r))
      /\ UNCHANGED <<vars, base, partials, program, printed>>
  BY DEF SimulateChunk, Planned, ChunkIterations
<1>2. /\ IInv /\ SimInv /\ ProgramInv
      /\ base \in Tables /\ Parsed
  BY <1>1 DEF RunInv, ProgramInv
<1>3. n \in 1..MaxInt
  <2>1. Len(partials) \in Nat /\ sizes \in Seq(1..MaxInt)
    BY <1>2 DEF ProgramInv, IInv, TypeOK
  <2>2. Len(partials) + 1 \in 1..Len(sizes)
    BY <1>1, <2>1
  <2> DEFINE P == 1..MaxInt
  <2> HIDE DEF P
  <2>3. sizes \in Seq(P)
    BY <2>1 DEF P
  <2>4. n \in P
    BY <2>2, <2>3
  <2> QED  BY <2>4 DEF P
<1>4. /\ r \in [hero : Seq(Cards), board : Seq(Cards), opponents : Int, iterations : Int]
      /\ r.opponents = base.opponents /\ r.iterations = n
  <2>1. n \in Int
    BY <1>3, PlanAssumption
  <2> HIDE DEF n
  <2> QED  BY <1>2, <2>1, RequestType
<1> HIDE DEF r
<1>5. /\ SimInv' /\ sim = "idle" /\ sim' \in {"running", "failed"}
      /\ req'.opponents = r.opponents
      /\ req'.iterations = IF r.iterations <= 0 THEN DefaultIterations ELSE r.iterations
  <2> DEFINE refused == r.iterations <= 0 \/ Refused(r)
  <2>1. Refused(r) => refused
    OBVIOUS
  <2>2. Enter(r, refused)
    BY <1>1
  <2> HIDE DEF refused
  <2> QED  BY <1>2, <1>4, <2>1, <2>2, EnterSimInv
<1>6. req'.iterations = n
  <2>1. ~(n <= 0)
    BY <1>3, PlanAssumption
  <2> QED  BY <1>4, <1>5, <2>1
<1>7. ProgramInv'
  <2>1. /\ per' = per /\ sizes' = sizes /\ partials' = partials /\ stage' = stage /\ base' = base
        /\ total' = total /\ program' = program
    BY <1>1 DEF vars, request
  <2>2. Players' = Players /\ Parsed' /\ Asked' = n
    BY <1>1, <1>2, <2>1 DEF Players, Parsed, Asked
  <2> HIDE DEF n
  <2> QED  BY <1>1, <1>2, <1>4, <1>5, <1>6, <2>1, <2>2 DEF ProgramInv
<1> QED  BY <1>5, <1>7

\* So does taking the result of all iterations in one go.
LEMMA SimulateWholeInv == ASSUME RunInv, SimulateWhole PROVE ProgramInv' /\ SimInv'
<1> DEFINE r == Request(total)
<1>1. /\ program = "working" /\ per <= 0 /\ Enter(r, Refused(r))
      /\ UNCHANGED <<vars, base, partials, program, printed>>
  BY DEF SimulateWhole, Whole
<1>2. /\ IInv /\ SimInv /\ ProgramInv
      /\ base \in Tables /\ Parsed /\ total \in Int /\ per \in Int
  BY <1>1, PlanAssumption DEF RunInv, ProgramInv, IInv, TypeOK, Ints
<1>3. /\ r \in [hero : Seq(Cards), board : Seq(Cards), opponents : Int, iterations : Int]
      /\ r.opponents = base.opponents /\ r.iterations = total
  BY <1>2, RequestType
<1> HIDE DEF r
<1>4. /\ SimInv' /\ sim = "idle" /\ sim' \in {"running", "failed"}
      /\ req'.opponents = r.opponents
      /\ req'.iterations = IF r.iterations <= 0 THEN DefaultIterations ELSE r.iterations
  BY <1>1, <1>2, <1>3, EnterSimInv
<1>5. ProgramInv'
  <2>1. /\ per' = per /\ sizes' = sizes /\ partials' = partials /\ stage' = stage /\ base' = base
        /\ total' = total /\ program' = program
    BY <1>1 DEF vars, request
  <2>2. Players' = Players /\ Parsed' /\ ~(per > 0)
    BY <1>1, <1>2, <2>1 DEF Players, Parsed
  <2>3. Asked' = IF total <= 0 THEN DefaultIterations ELSE total
    BY <2>1, <2>2 DEF Asked
  <2> QED  BY <1>1, <1>2, <1>3, <1>4, <2>1, <2>2, <2>3 DEF ProgramInv
<1> QED  BY <1>4, <1>5

\* A chunk's result joins the others, and its size theirs.
LEMMA CollectInv == ASSUME RunInv, Collect PROVE ProgramInv' /\ SimInv'
<1> DEFINE k == Len(partials)
           n == sizes[k + 1]
<1>1. /\ program = "working" /\ per > 0 /\ stage = "done" /\ sim = "done"
      /\ partials' = Append(partials, result) /\ sim' = "idle"
      /\ UNCHANGED <<vars, req, scratch, draws, result, base, program, printed>>
  BY DEF Collect, Planned
<1>2. /\ IInv /\ SimInv /\ ProgramInv
      /\ base \in Tables /\ Parsed /\ per \in Int
      /\ partials \in Seq(Counters) /\ result \in Counters /\ k \in Nat
  BY <1>1, PlanAssumption DEF RunInv, ProgramInv, SimInv, IInv, TypeOK, Ints
<1>3. /\ per' = per /\ sizes' = sizes /\ stage' = stage /\ base' = base /\ total' = total
      /\ program' = program /\ req' = req /\ result' = result
      /\ Players' = Players /\ Parsed'
  BY <1>1, <1>2 DEF vars, request, Players, Parsed
<1>4. SimInv'
  BY <1>1, <1>2 DEF SimInv
<1>5. k + 1 \in 1..Len(sizes) /\ sizes \in Seq(Nat)
  <2>1. sizes \in Seq(1..MaxInt) /\ k < Len(sizes)
    BY <1>1, <1>2 DEF ProgramInv, IInv, TypeOK
  <2> DEFINE P == 1..MaxInt
  <2>2. P \in SUBSET Nat
    OBVIOUS
  <2>3. sizes \in Seq(P)
    BY <2>1
  <2> HIDE DEF P
  <2>4. sizes \in Seq(Nat)
    BY <2>2, <2>3, SequenceOfMore
  <2> QED  BY <1>2, <2>1, <2>4
<1>6. n \in Nat /\ \A i \in 1..k : sizes[i] \in Nat
  <2> DEFINE l == Len(sizes)
  <2>1. l \in Nat /\ \A i \in 1..l : sizes[i] \in Nat
    BY <1>5
  <2> HIDE DEF l, k
  <2>2. k + 1 \in 1..l /\ k \in Nat
    BY <1>2, <1>5 DEF l
  <2> QED  BY <2>1, <2>2
<1>7. Sound(result, n, Players)
  <2>1. req.opponents = base.opponents /\ req.iterations = n
    BY <1>1, <1>2 DEF ProgramInv, Asked
  <2>2. Opponents(req) + 1 = Players
    BY <2>1 DEF Opponents, Players
  <2> QED  BY <1>1, <1>2, <2>1, <2>2 DEF SimInv
<1>8. Total(sizes, 1..(k + 1)) = Total(sizes, 1..k) + n /\ Total(sizes, 1..k) \in Nat
  <2> DEFINE S == 1..k
             y == k + 1
  <2>1. S \union {y} = 1..(k + 1) /\ y \notin S
    BY <1>2
  <2>2. IsFiniteSet(S)
    BY <1>2, FS_Interval
  <2>3. sizes[y] \in Nat /\ \A i \in S : sizes[i] \in Nat
    BY <1>6
  <2> HIDE DEF S, y
  <2>4. Total(sizes, S \union {y}) = Total(sizes, S) + sizes[y]
    BY <2>1, <2>2, <2>3, TotalAdd
  <2>5. Total(sizes, S) \in Nat
    BY <2>2, <2>3, TotalType
  <2> QED  BY <2>1, <2>4, <2>5 DEF S, y
<1>9. Len(partials') = k + 1 /\ partials' \in Seq(Counters)
  BY <1>1, <1>2
<1>10. Merged(partials', DOMAIN partials') = Plus(Merged(partials, DOMAIN partials), result)
  BY <1>1, <1>2, MergedAppend
<1>11. Sound(Merged(partials', DOMAIN partials'), Total(sizes, 1..(k + 1)), Players)
  <2>1. Sound(Merged(partials, DOMAIN partials), Total(sizes, 1..k), Players)
    BY <1>2 DEF ProgramInv
  <2> HIDE DEF k, n
  <2>2. Players \in Nat \ {0}
    BY <1>2, PlayersAreMany
  <2> QED  BY <1>6, <1>7, <1>8, <1>10, <2>1, <2>2, SoundPlus
<1>12. ProgramInv'
  <2>1. k + 1 <= Len(sizes) /\ req.opponents = base.opponents
    BY <1>1, <1>2, <1>5 DEF ProgramInv
  <2> HIDE DEF k, n
  <2> QED  BY <1>1, <1>2, <1>3, <1>9, <1>11, <2>1 DEF ProgramInv
<1> QED  BY <1>4, <1>12

\* The steps that only end the program.
LEMMA EndingInv ==
  ASSUME RunInv, PrintMerged \/ PrintWhole \/ Fatal \/ Ended PROVE ProgramInv' /\ SimInv'
<1>1. /\ UNCHANGED <<vars, simVars, base, partials>>
      /\ program' # "printed" \/ (IF per > 0 THEN /\ stage = "done" /\ Len(partials) = Len(sizes)
                                                  /\ printed' = MergeResults(partials)
                                  ELSE sim = "done" /\ printed' = result)
      /\ program' = "working" => program = "working"
  <2>1. IInv /\ ProgramInv /\ per \in Int
    BY PlanAssumption DEF RunInv, IInv, TypeOK, Ints
  <2>2. CASE PrintMerged  BY <2>2 DEF PrintMerged, Planned
  <2>3. CASE PrintWhole  BY <2>1, <2>3 DEF PrintWhole, Whole
  <2>4. CASE Fatal  BY <2>4 DEF Fatal
  <2>5. CASE Ended  BY <2>1, <2>5 DEF Ended, runVars, ProgramInv
  <2> QED  BY <2>2, <2>3, <2>4, <2>5
<1>2. MergeResults(partials)' = MergeResults(partials)
  BY <1>1 DEF MergeResults
<1>3. SimInv'
  BY <1>1 DEF RunInv, SimInv, Shuffled, simVars
<1>4. ProgramInv'
  BY <1>1, <1>2 DEF RunInv, ProgramInv, Parsed, Asked, Players, simVars, vars, request
<1> QED  BY <1>3, <1>4

\* So does a step inside a simulation.
LEMMA SimulationStepInv == ASSUME RunInv, SimulationStep PROVE ProgramInv' /\ SimInv'
<1>1. program = "working" /\ Simulate /\ UNCHANGED <<vars, base, partials, program, printed>>
  BY DEF SimulationStep
<1>2. SimInv' /\ req' = req /\ sim = "running" /\ sim' \in {"running", "done"}
  BY <1>1, SimulateSimInv DEF RunInv
<1>3. ProgramInv'
  BY <1>1, <1>2 DEF RunInv, ProgramInv, Parsed, Asked, Players, vars, request
<1> QED  BY <1>2, <1>3

\* Every step of the program keeps the whole invariant.
LEMMA NextRunInv == RunInv /\ [RunNext]_runVars => RunInv'
<1> SUFFICES ASSUME RunInv, [RunNext]_runVars PROVE RunInv'
  OBVIOUS
<1>1. IInv'
  BY NextIInv, RunNextIsNext DEF RunInv
<1>2. CASE RunNext
  BY <1>1, <1>2, ReadArgumentsInv, BuildPlanInv, SimulateChunkInv, CollectInv, SimulateWholeInv,
     SimulationStepInv, EndingInv DEF RunNext, RunInv
<1>3. CASE UNCHANGED runVars
  BY <1>1, <1>3 DEF runVars, RunInv, ProgramInv, SimInv, Shuffled, Parsed, Asked, Players,
                    MergeResults, simVars, vars, request
<1> QED  BY <1>2, <1>3

\* The inductive invariant of cmd/sim.
THEOREM RunInvariance == RunSpec => []RunInv
<1> QED  BY InitRunInv, NextRunInv, PTL DEF RunSpec

\* Shuffling loses and invents no card and the counters are counters: for every
\* deck, every table and every request (simulate.go 59-104, 125-130).
THEOREM SimTypeCorrect == RunSpec => []SimTypeOK
<1>1. RunInv => SimTypeOK
  <2> SUFFICES ASSUME RunInv PROVE SimTypeOK
    OBVIOUS
  <2>1. SimInv
    BY DEF RunInv
  <2>2. ASSUME sim = "running"
        PROVE  /\ Len(scratch) = Cardinality(Cards) - Len(Known(req))
               /\ Range(scratch) = Cards \ Range(Known(req))
    <3>1. Seated(req) /\ scratch \in Orders(Free(req))
      BY <2>1, <2>2, ShuffledIsOrder DEF SimInv
    <3>2. Cardinality(Free(req)) = Cardinality(Cards) - Len(Known(req)) /\ IsFiniteSet(Free(req))
      BY <3>1, SeatedCounts, DeckOfRequest
    <3>3. Len(scratch) = Cardinality(Free(req)) /\ Range(scratch) = Free(req)
      BY <3>1, <3>2, OrderIsSequence
    <3> QED  BY <3>2, <3>3 DEF Free
  <2> QED  BY <2>1, <2>2 DEF SimInv, SimTypeOK
<1> QED  BY <1>1, RunInvariance, PTL

\* The estimate is unbiased: whatever the deck, the known cards and the number of
\* opponents, a deal has been made by one series of choices only (simulate.go 125-130).
THEOREM DealsAreUnbiased == RunSpec => []EachDealOnce
<1>1. RunInv => EachDealOnce
  <2> SUFFICES ASSUME RunInv, Dealt PROVE DrawsOf(SubSeq(scratch, 1, Needed(req))) = draws
    BY DEF EachDealOnce
  <2>1. SimInv /\ sim = "running" /\ Len(draws) = Needed(req)
    BY DEF RunInv, Dealt, Looping
  <2>2. PICK h : Shuffles(req, h, draws, scratch)
    BY <2>1 DEF SimInv, Shuffled
  <2>3. Seated(req)
    BY <2>1 DEF SimInv
  <2>4. draws \in Seq(Int)
    <3> DEFINE P == 1..Cardinality(Cards)
    <3>1. P \in SUBSET Int /\ draws \in Seq(P)
      BY <2>1, CardsAreFinite DEF SimInv
    <3> HIDE DEF P
    <3> QED  BY <3>1, SequenceOfMore
  <2> QED  BY <2>1, <2>2, <2>3, <2>4, DealDetermines
<1> QED  BY <1>1, RunInvariance, PTL

\* The pot of every deal is paid once, whoever is taken as the hero, but for less
\* than a micro for each player (simulate.go 75-103).
THEOREM PotIsPaidOnce == RunSpec => []PotIsShared
<1>1. RunInv => PotIsShared
  <2> SUFFICES ASSUME RunInv PROVE PotIsShared
    OBVIOUS
  <2>1. CASE Dealt
    <3>1. Seated(req) /\ scratch \in Orders(Free(req))
      BY <2>1, ShuffledIsOrder DEF RunInv, SimInv, Dealt, Looping
    <3> QED  BY <3>1, PotSplits
  <2>2. CASE ~Dealt
    BY <2>2 DEF PotIsShared
  <2> QED  BY <2>1, <2>2
<1> QED  BY <1>1, RunInvariance, PTL

\* What cmd/sim prints is a result of the request as it was asked for, however it
\* was cut into chunks (sim/main.go 46-80, simulate.go 110-123).
THEOREM PrintedIsWhole == RunSpec => []RunIsWhole
<1>1. RunInv => RunIsWhole
  <2> DEFINE asked == IF total <= 0 THEN DefaultIterations ELSE total
  <2> SUFFICES ASSUME RunInv, program = "printed", per > 0 => Fits
               PROVE  LET wins == printed["wins"]
                          ties == printed["ties"]
                          micros == printed["equity_micros"] - Pot * wins
                      IN  /\ printed["iterations"] = asked
                          /\ wins + ties + printed["losses"] = printed["iterations"]
                          /\ (Pot \div Cardinality(Seats)) * ties <= micros
                          /\ micros <= (Pot \div 2) * ties
    BY DEF RunIsWhole
  <2>1. IInv /\ SimInv /\ ProgramInv /\ total \in Int /\ per \in Int
    BY PlanAssumption DEF RunInv, IInv, TypeOK, Ints
  <2>2. base \in Tables /\ Opponents(base) \in Nat \ {0}
    <3>1. base \in Tables
      BY <2>1 DEF ProgramInv
    <3> QED  BY <3>1, PlayersAreMany DEF Opponents
  <2>3. Sound(printed, asked, Players) /\ req.opponents = base.opponents
    <3>1. CASE per > 0
      <4>1. /\ stage = "done" /\ Len(partials) = Len(sizes) /\ printed = MergeResults(partials)
            /\ Sound(Merged(partials, DOMAIN partials), Total(sizes, 1..Len(partials)), Players)
        BY <2>1, <3>1 DEF ProgramInv
      <4>2. Total(sizes, DOMAIN sizes) = total /\ DOMAIN sizes = 1..Len(sizes)
        BY <2>1, <3>1, <4>1, MadePlanIsWhole DEF PlanIsWhole, IInv, TypeOK
      <4>3. ~(total <= 0)
        BY <2>1, <4>1, PlanAssumption DEF IInv, LoopInv
      <4>4. partials # <<>>
        <5>1. SUFFICES ASSUME partials = <<>> PROVE FALSE
          OBVIOUS
        <5>2. Len(sizes) = 0 /\ DOMAIN sizes = {}
          BY <4>1, <4>2, <5>1
        <5> QED  BY <2>1, <4>2, <4>3, <5>2, TotalOfNone
      <4>5. req.opponents = base.opponents
        BY <2>1, <4>4 DEF ProgramInv
      <4> QED  BY <4>1, <4>2, <4>3, <4>5 DEF MergeResults
    <3>2. CASE ~(per > 0)
      <4>1. sim = "done" /\ printed = result /\ req.iterations = asked /\ req.opponents = base.opponents
        BY <2>1, <3>2 DEF ProgramInv, Asked
      <4>2. Opponents(req) + 1 = Players
        BY <4>1 DEF Opponents, Players
      <4> QED  BY <2>1, <4>1, <4>2 DEF SimInv
    <3> QED  BY <3>1, <3>2
  <2>4. Cardinality(Seats) = Players
    <3>1. Opponents(req) = Opponents(base)
      BY <2>3 DEF Opponents
    <3> QED  BY <2>2, <3>1, SeatsAreFinite DEF Players
  <2> QED  BY <2>3, <2>4 DEF Sound
<1> QED  BY <1>1, RunInvariance, PTL

=============================================================================
