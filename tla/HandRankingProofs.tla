--------------------------- MODULE HandRankingProofs ---------------------------
(***************************************************************************)
(* Evaluate against the rules of poker for every deck: the value of five   *)
(* cards by the shape of their ranks, what more cards can make out of      *)
(* five, and which hands Evaluate does not give the value of their best.   *)
(***************************************************************************)
EXTENDS HandRanking, ArithmeticProofs

AllCards == (2..14) \X (1..4)

-----------------------------------------------------------------------------
\* Small sets.

\* The size of a set written out.
LEMMA SizeOf1 == \A a : IsFiniteSet({a}) /\ Cardinality({a}) = 1
BY FS_Singleton

\* Two different things make a set of two.
LEMMA SizeOf2 ==
  ASSUME NEW a, NEW b, a # b
  PROVE  IsFiniteSet({a, b}) /\ Cardinality({a, b}) = 2
<1>1. {a, b} = {a} \union {b} /\ b \notin {a}  OBVIOUS
<1>2. IsFiniteSet({a}) /\ Cardinality({a}) = 1  BY SizeOf1
<1> QED  BY <1>1, <1>2, FS_AddElement

\* Three different things make a set of three.
LEMMA SizeOf3 ==
  ASSUME NEW a, NEW b, NEW c, a # b, c \notin {a, b}
  PROVE  IsFiniteSet({a, b, c}) /\ Cardinality({a, b, c}) = 3
<1>1. {a, b, c} = {a, b} \union {c}  OBVIOUS
<1>2. IsFiniteSet({a, b}) /\ Cardinality({a, b}) = 2  BY SizeOf2
<1> QED  BY <1>1, <1>2, FS_AddElement

\* Four different things make a set of four.
LEMMA SizeOf4 ==
  ASSUME NEW a, NEW b, NEW c, NEW d, a # b, c \notin {a, b}, d \notin {a, b, c}
  PROVE  IsFiniteSet({a, b, c, d}) /\ Cardinality({a, b, c, d}) = 4
<1>1. {a, b, c, d} = {a, b, c} \union {d}  OBVIOUS
<1>2. IsFiniteSet({a, b, c}) /\ Cardinality({a, b, c}) = 3  BY SizeOf3
<1> QED  BY <1>1, <1>2, FS_AddElement

\* Five different things make a set of five.
LEMMA SizeOf5 ==
  ASSUME NEW a, NEW b, NEW c, NEW d, NEW e,
         a # b, c \notin {a, b}, d \notin {a, b, c}, e \notin {a, b, c, d}
  PROVE  IsFiniteSet({a, b, c, d, e}) /\ Cardinality({a, b, c, d, e}) = 5
<1>1. {a, b, c, d, e} = {a, b, c, d} \union {e}  OBVIOUS
<1>2. IsFiniteSet({a, b, c, d}) /\ Cardinality({a, b, c, d}) = 4  BY SizeOf4
<1> QED  BY <1>1, <1>2, FS_AddElement

\* The size of an interval that is not empty.
LEMMA SizeOfInterval ==
  ASSUME NEW a \in Int, NEW b \in Int, a <= b
  PROVE  IsFiniteSet(a..b) /\ Cardinality(a..b) = b - a + 1
BY FS_Interval

\* A set with so many members has that many different ones.
LEMMA OneOf ==
  ASSUME NEW S, IsFiniteSet(S), Cardinality(S) >= 1
  PROVE  \E x \in S : IsFiniteSet(S \ {x}) /\ Cardinality(S \ {x}) = Cardinality(S) - 1
<1>1. S # {}  BY FS_EmptySet
<1>2. PICK x \in S : TRUE  BY <1>1
<1> QED  BY <1>2, FS_RemoveElement

\* A set of at least two has two different members.
LEMMA TwoOf ==
  ASSUME NEW S, IsFiniteSet(S), Cardinality(S) >= 2
  PROVE  \E x, y \in S : x # y
<1>0. Cardinality(S) \in Nat  BY FS_CardinalityType
<1>1. PICK x \in S : IsFiniteSet(S \ {x}) /\ Cardinality(S \ {x}) = Cardinality(S) - 1
  BY <1>0, OneOf
<1>2. PICK y \in S \ {x} : TRUE  BY <1>0, <1>1, OneOf
<1> QED  BY <1>2

\* A set of at least three has three different members.
LEMMA ThreeOf ==
  ASSUME NEW S, IsFiniteSet(S), Cardinality(S) >= 3
  PROVE  \E x, y, z \in S : x # y /\ z \notin {x, y}
<1>0. Cardinality(S) \in Nat  BY FS_CardinalityType
<1>1. PICK x \in S : IsFiniteSet(S \ {x}) /\ Cardinality(S \ {x}) = Cardinality(S) - 1
  BY <1>0, OneOf
<1>2. PICK y, z \in S \ {x} : y # z  BY <1>0, <1>1, TwoOf
<1> QED  BY <1>2

\* A set of at least four has four different members.
LEMMA FourOf ==
  ASSUME NEW S, IsFiniteSet(S), Cardinality(S) >= 4
  PROVE  \E x, y, z, w \in S : x # y /\ z \notin {x, y} /\ w \notin {x, y, z}
<1>0. Cardinality(S) \in Nat  BY FS_CardinalityType
<1>1. PICK x \in S : IsFiniteSet(S \ {x}) /\ Cardinality(S \ {x}) = Cardinality(S) - 1
  BY <1>0, OneOf
<1>2. PICK y, z, w \in S \ {x} : y # z /\ w \notin {y, z}  BY <1>0, <1>1, ThreeOf
<1> QED  BY <1>2

\* A set that holds so many different things has at least that many members.
LEMMA HoldsTwo ==
  ASSUME NEW S, IsFiniteSet(S), NEW a \in S, NEW b \in S, a # b
  PROVE  Cardinality(S) >= 2
<1>1. {a, b} \in SUBSET S /\ Cardinality({a, b}) = 2  BY SizeOf2
<1>2. Cardinality({a, b}) <= Cardinality(S)  BY <1>1, FS_Subset
<1>3. Cardinality(S) \in Nat  BY FS_CardinalityType
<1> QED  BY <1>1, <1>2, <1>3

\* A set with three different members has at least three.
LEMMA HoldsThree ==
  ASSUME NEW S, IsFiniteSet(S), NEW a \in S, NEW b \in S, NEW c \in S, a # b, c \notin {a, b}
  PROVE  Cardinality(S) >= 3
<1>1. {a, b, c} \in SUBSET S /\ Cardinality({a, b, c}) = 3  BY SizeOf3
<1>2. Cardinality({a, b, c}) <= Cardinality(S)  BY <1>1, FS_Subset
<1>3. Cardinality(S) \in Nat  BY FS_CardinalityType
<1> QED  BY <1>1, <1>2, <1>3

\* A set with four different members has at least four.
LEMMA HoldsFour ==
  ASSUME NEW S, IsFiniteSet(S), NEW a \in S, NEW b \in S, NEW c \in S, NEW d \in S,
         a # b, c \notin {a, b}, d \notin {a, b, c}
  PROVE  Cardinality(S) >= 4
<1>1. {a, b, c, d} \in SUBSET S /\ Cardinality({a, b, c, d}) = 4  BY SizeOf4
<1>2. Cardinality({a, b, c, d}) <= Cardinality(S)  BY <1>1, FS_Subset
<1>3. Cardinality(S) \in Nat  BY FS_CardinalityType
<1> QED  BY <1>1, <1>2, <1>3

\* A set with five different members has at least five.
LEMMA HoldsFive ==
  ASSUME NEW S, IsFiniteSet(S), NEW a \in S, NEW b \in S, NEW c \in S, NEW d \in S, NEW e \in S,
         a # b, c \notin {a, b}, d \notin {a, b, c}, e \notin {a, b, c, d}
  PROVE  Cardinality(S) >= 5
<1>1. {a, b, c, d, e} \in SUBSET S /\ Cardinality({a, b, c, d, e}) = 5  BY SizeOf5
<1>2. Cardinality({a, b, c, d, e}) <= Cardinality(S)  BY <1>1, FS_Subset
<1>3. Cardinality(S) \in Nat  BY FS_CardinalityType
<1> QED  BY <1>1, <1>2, <1>3

-----------------------------------------------------------------------------
\* Sets of ranks, largest first.

\* Descending lists the members of a finite set of numbers, each once, in order.
LEMMA DescendingOrders ==
  ASSUME NEW S \in SUBSET Int, IsFiniteSet(S)
  PROVE  /\ Cardinality(S) \in Nat
         /\ Descending(S) \in [1..Cardinality(S) -> S]
         /\ \A i, j \in 1..Cardinality(S) : i < j => Descending(S)[i] > Descending(S)[j]
         /\ \A x \in S : \E i \in 1..Cardinality(S) : Descending(S)[i] = x
<1> DEFINE m == Cardinality(S)
           Less == {p \in S \X S : p[1] > p[2]}
           d == Descending(S)
           Above(x) == {q \in S : q > x}
<1>1. m \in Nat  BY FS_CardinalityType
<1>2. \A x \in S : {c \in S : <<c, x>> \in Less} = Above(x)
  OBVIOUS
<1>3. /\ Less \in SUBSET (S \X S)
      /\ \A x \in S : <<x, x>> \notin Less
      /\ \A x, y \in S : x # y => <<x, y>> \in Less \/ <<y, x>> \in Less
      /\ \A x, y, z \in S : <<x, y>> \in Less /\ <<y, z>> \in Less => <<x, z>> \in Less
  OBVIOUS
<1>4. /\ \A x, y \in S : Cardinality(Above(x)) = Cardinality(Above(y)) => x = y
      /\ \A i \in 1..m : \E x \in S : Cardinality(Above(x)) = i - 1
      /\ \A x \in S : \E i \in 1..m : Cardinality(Above(x)) = i - 1
  <2> HIDE DEF Less, Above
  <2>1. /\ \A x, y \in S : Ahead(x, Less, S) = Ahead(y, Less, S) => x = y
        /\ \A i \in 1..Cardinality(S) : \E x \in S : Ahead(x, Less, S) = i - 1
        /\ \A x \in S : \E i \in 1..Cardinality(S) : Ahead(x, Less, S) = i - 1
    BY <1>3, Enumeration
  <2> QED  BY <1>2, <2>1 DEF Ahead
<1>5. d = [i \in 1..m |-> CHOOSE x \in S : Cardinality(Above(x)) = i - 1]
  BY DEF Descending
<1>6. \A x, y \in S : x <= y => /\ Above(y) \in SUBSET Above(x)
                                /\ IsFiniteSet(Above(x))
  <2>1. \A x \in S : Above(x) \in SUBSET S  OBVIOUS
  <2>2. \A x, y \in S : x <= y => Above(y) \in SUBSET Above(x)
    <3> SUFFICES ASSUME NEW x \in S, NEW y \in S, x <= y, NEW q \in S, q > y PROVE q > x
      OBVIOUS
    <3>1. x \in Int /\ y \in Int /\ q \in Int  OBVIOUS
    <3> QED  BY <3>1
  <2> HIDE DEF Above
  <2> QED  BY <2>1, <2>2, FS_Subset
<1>7. \A x, y \in S : x <= y => Cardinality(Above(y)) <= Cardinality(Above(x))
  <2> HIDE DEF Above
  <2> QED  BY <1>6, FS_Subset
<1> HIDE DEF m, d, Less, Above
<1>8. \A i \in 1..m : d[i] \in S /\ Cardinality(Above(d[i])) = i - 1
  BY <1>4, <1>5
<1>9. \A i, j \in 1..m : i < j => d[i] > d[j]
  <2> SUFFICES ASSUME NEW i \in 1..m, NEW j \in 1..m, i < j, ~(d[i] > d[j]) PROVE FALSE
    OBVIOUS
  <2>1. d[i] \in Int /\ d[j] \in Int  BY <1>8
  <2>2. j - 1 <= i - 1  BY <1>7, <1>8, <2>1
  <2> QED  BY <1>1, <2>2
<1>10. \A x \in S : \E i \in 1..m : d[i] = x
  <2> SUFFICES ASSUME NEW x \in S PROVE \E i \in 1..m : d[i] = x  OBVIOUS
  <2>1. PICK i \in 1..m : Cardinality(Above(x)) = i - 1  BY <1>4
  <2> QED  BY <1>4, <1>8, <2>1
<1> QED  BY <1>1, <1>5, <1>8, <1>9, <1>10 DEF m, d

\* The highest ranks when there are enough: in order, and nothing else is as high.
LEMMA TopRanks ==
  ASSUME NEW S \in SUBSET Int, IsFiniteSet(S), NEW n \in Nat \ {0}, Cardinality(S) >= n
  PROVE  \E f \in [1..n -> S] :
           /\ topRanks(S, n) = f
           /\ \A i, j \in 1..n : i < j => f[i] > f[j]
           /\ \A z \in S : (\E i \in 1..n : z = f[i]) \/ z < f[n]
<1> DEFINE m == Cardinality(S)
           d == Descending(S)
           f == [i \in 1..n |-> d[i]]
<1>1. /\ m \in Nat /\ d \in [1..m -> S]
      /\ \A i, j \in 1..m : i < j => d[i] > d[j]
      /\ \A x \in S : \E i \in 1..m : d[i] = x
  BY DescendingOrders
<1>2. m >= n  OBVIOUS
<1>3. topRanks(S, n) = SubSeq(d, 1, n)
  BY <1>1, <1>2 DEF topRanks
<1> HIDE DEF m, d
<1>4. \A i \in 1..n : i \in 1..m  BY <1>1, <1>2
<1>5. f \in [1..n -> S] /\ \A i \in 1..n : f[i] = d[i]  BY <1>1, <1>4
<1>6. SubSeq(d, 1, n) = f
  BY <1>1, <1>2, SMT
<1>7. \A i, j \in 1..n : i < j => f[i] > f[j]  BY <1>1, <1>4, <1>5
<1>8. \A z \in S : (\E i \in 1..n : z = f[i]) \/ z < f[n]
  <2> SUFFICES ASSUME NEW z \in S PROVE (\E i \in 1..n : z = f[i]) \/ z < f[n]  OBVIOUS
  <2>1. PICK i \in 1..m : d[i] = z  BY <1>1
  <2>2. CASE i \in 1..n  BY <1>5, <2>1, <2>2
  <2>3. CASE i \notin 1..n
    <3>1. n < i /\ n \in 1..m /\ n \in 1..n  BY <1>1, <1>2, <2>3
    <3> QED  BY <1>1, <1>5, <2>1, <3>1
  <2> QED  BY <2>2, <2>3
<1> HIDE DEF f
<1> QED  BY <1>3, <1>5, <1>6, <1>7, <1>8

-----------------------------------------------------------------------------
\* Scores.

\* A category above five ranks.
Num(k, a, b, c, d, e) == k * 1048576 + a * 65536 + b * 4096 + c * 256 + d * 16 + e

Digits == 0..14

\* What encode gives for one to five ranks (encode in evaluator.go).
LEMMA Encode1 ==
  ASSUME NEW k \in Nat, NEW a \in Digits
  PROVE  encode(k, <<a>>) = Num(k, a, 0, 0, 0, 0)
BY SMT DEF encode, Num, Digits

\* The code of two ranks.
LEMMA Encode2 ==
  ASSUME NEW k \in Nat, NEW a \in Digits, NEW b \in Digits
  PROVE  encode(k, <<a, b>>) = Num(k, a, b, 0, 0, 0)
BY SMT DEF encode, Num, Digits

\* The code of three ranks.
LEMMA Encode3 ==
  ASSUME NEW k \in Nat, NEW a \in Digits, NEW b \in Digits, NEW c \in Digits
  PROVE  encode(k, <<a, b, c>>) = Num(k, a, b, c, 0, 0)
BY SMT DEF encode, Num, Digits

\* The code of four ranks.
LEMMA Encode4 ==
  ASSUME NEW k \in Nat, NEW a \in Digits, NEW b \in Digits, NEW c \in Digits, NEW d \in Digits
  PROVE  encode(k, <<a, b, c, d>>) = Num(k, a, b, c, d, 0)
BY SMT DEF encode, Num, Digits

\* The code of five ranks, all that encode keeps.
LEMMA Encode5 ==
  ASSUME NEW k \in Nat, NEW a \in Digits, NEW b \in Digits, NEW c \in Digits, NEW d \in Digits,
         NEW e \in Digits
  PROVE  encode(k, <<a, b, c, d, e>>) = Num(k, a, b, c, d, e)
BY SMT DEF encode, Num, Digits

\* The range of scores.
Scores == {n \in Nat : n < 9 * 1048576}

\* A category and five digits make a score in range.
LEMMA ScoreIsScore ==
  ASSUME NEW k \in 0..8, NEW a \in Digits, NEW b \in Digits, NEW c \in Digits, NEW d \in Digits,
         NEW e \in Digits
  PROVE  Num(k, a, b, c, d, e) \in Scores
BY SMT DEF Num, Digits, Scores

\* There are finitely many scores, so that one of some scores is the highest.
LEMMA ScoresAreFinite == IsFiniteSet(Scores) /\ Scores \subseteq Nat
<1> DEFINE m == 9 * 1048576
<1>1. m \in Int /\ Scores = {n \in Nat : n < m}  BY SMT DEF Scores
<1> HIDE DEF m
<1>2. IsFiniteSet(0..m)
  <2>1. 0 \in Int  OBVIOUS
  <2> QED  BY <1>1, <2>1, FS_Interval
<1>3. Scores \in SUBSET (0..m) /\ Scores \subseteq Nat  BY <1>1
<1> QED  BY <1>2, <1>3, FS_Subset

\* The order in which two hands of a category compare: rank by rank.
NoHigher(a, b, c, d, e, v, w, x, y, z) ==
  \/ a < v
  \/ a = v /\ b < w
  \/ a = v /\ b = w /\ c < x
  \/ a = v /\ b = w /\ c = x /\ d < y
  \/ a = v /\ b = w /\ c = x /\ d = y /\ e <= z

\* Within a category the ranks decide, the first that differs.
LEMMA ScoreByRanks ==
  ASSUME NEW k \in 0..8,
         NEW a \in Digits, NEW b \in Digits, NEW c \in Digits, NEW d \in Digits, NEW e \in Digits,
         NEW v \in Digits, NEW w \in Digits, NEW x \in Digits, NEW y \in Digits, NEW z \in Digits,
         NoHigher(a, b, c, d, e, v, w, x, y, z)
  PROVE  Num(k, a, b, c, d, e) <= Num(k, v, w, x, y, z)
BY SMT DEF Num, Digits, NoHigher

\* A better category beats every hand of a worse one.
LEMMA ScoreByCategory ==
  ASSUME NEW k \in 0..8, NEW l \in 0..8, k < l,
         NEW a \in Digits, NEW b \in Digits, NEW c \in Digits, NEW d \in Digits, NEW e \in Digits,
         NEW v \in Digits, NEW w \in Digits, NEW x \in Digits, NEW y \in Digits, NEW z \in Digits
  PROVE  Num(k, a, b, c, d, e) < Num(l, v, w, x, y, z)
BY SMT DEF Num, Digits

-----------------------------------------------------------------------------
\* Straights.

\* The ranks of the straight whose highest card is a, the ace being low in the wheel.
Run(a) == IF a = 5 THEN Wheel ELSE (a - 4)..a

\* Its five ranks.
LEMMA RunRanks ==
  ASSUME NEW a \in 5..14
  PROVE  Run(a) = {a, a - 1, a - 2, a - 3, IF a = 5 THEN 14 ELSE a - 4}
<1>1. CASE a = 5  BY <1>1 DEF Run, Wheel
<1>2. CASE a # 5
  <2>1. Run(a) = (a - 4)..a  BY <1>2 DEF Run
  <2>2. (a - 4)..a = {a, a - 1, a - 2, a - 3, a - 4}  BY <1>2
  <2> QED  BY <1>2, <2>1, <2>2
<1> QED  BY <1>1, <1>2

\* straightHigh finds a straight if there is one: the wheel if that is there, else
\* the highest (straightHigh in evaluator.go).
LEMMA StraightHighFinds ==
  ASSUME NEW mask \in SUBSET (2..14)
  PROVE  /\ straightHigh(mask) # 0 => straightHigh(mask) \in 5..14 /\ Run(straightHigh(mask)) \subseteq mask
         /\ Wheel \subseteq mask => straightHigh(mask) = 5
         /\ ~(Wheel \subseteq mask) =>
              \A a \in 5..14 : Run(a) \subseteq mask => a <= straightHigh(mask)
<1> DEFINE highs == {h \in 6..14 : (h - 4)..h \subseteq mask}
<1>1. highs \in SUBSET Int /\ IsFiniteSet(highs)
  <2>1. IsFiniteSet(6..14)
    <3>1. 6 \in Int /\ 14 \in Int  OBVIOUS
    <3> QED  BY <3>1, FS_Interval
  <2> QED  BY <2>1, FS_Subset
<1>2. highs # {} => \E x \in highs : \A y \in highs : y <= x
  <2> HIDE DEF highs
  <2> QED  BY <1>1, HasExtremes
<1>3. highs # {} => Highest(highs) \in highs /\ \A y \in highs : y <= Highest(highs)
  <2> HIDE DEF highs
  <2> QED  BY <1>2 DEF Highest
<1>4. straightHigh(mask) = IF {14, 2, 3, 4, 5} \subseteq mask THEN 5
                           ELSE IF highs # {} THEN Highest(highs) ELSE 0
  BY DEF straightHigh
<1>5. Wheel \subseteq mask => straightHigh(mask) = 5
  BY <1>4 DEF Wheel
<1>6. ASSUME ~(Wheel \subseteq mask)
      PROVE  /\ straightHigh(mask) = IF highs # {} THEN Highest(highs) ELSE 0
             /\ \A a \in 5..14 : Run(a) \subseteq mask => a \in highs
  <2>1. straightHigh(mask) = IF highs # {} THEN Highest(highs) ELSE 0
    BY <1>4, <1>6 DEF Wheel
  <2>2. \A a \in 5..14 : Run(a) \subseteq mask => a \in highs
    BY <1>6 DEF Run
  <2> QED  BY <2>1, <2>2
<1>7. \A h \in highs : h \in 6..14 /\ Run(h) \subseteq mask
  BY DEF Run
<1> HIDE DEF highs
<1>8. CASE Wheel \subseteq mask
  <2>1. straightHigh(mask) = 5 /\ Run(5) = Wheel /\ 5 \in 5..14  BY <1>5, <1>8 DEF Run
  <2> QED  BY <1>8, <2>1
<1>9. CASE ~(Wheel \subseteq mask)
  <2>1. /\ straightHigh(mask) = IF highs # {} THEN Highest(highs) ELSE 0
        /\ \A a \in 5..14 : Run(a) \subseteq mask => a \in highs
    BY <1>6, <1>9
  <2>2. CASE highs = {}  BY <1>9, <2>1, <2>2
  <2>3. CASE highs # {}
    <3>1. /\ straightHigh(mask) = Highest(highs) /\ Highest(highs) \in highs
          /\ \A y \in highs : y <= Highest(highs)
      BY <1>3, <2>1, <2>3
    <3> QED  BY <1>7, <1>9, <2>1, <3>1
  <2> QED  BY <2>2, <2>3
<1> QED  BY <1>8, <1>9

\* With at most seven ranks the wheel hides a higher straight only if that goes up to six.
LEMMA WheelBesideStraight ==
  ASSUME NEW mask \in SUBSET (2..14), Cardinality(mask) <= 7, Wheel \subseteq mask,
         NEW a \in 6..14, Run(a) \subseteq mask
  PROVE  LowSix \subseteq mask
<1>0. IsFiniteSet(mask)
  <2>1. IsFiniteSet(2..14)
    <3>1. 2 \in Int /\ 14 \in Int  OBVIOUS
    <3> QED  BY <3>1, FS_Interval
  <2> QED  BY <2>1, FS_Subset
<1>1. a \in 5..14 /\ {a, a - 1, a - 2, a - 3, a - 4} \subseteq mask
  BY RunRanks
<1>2. {14, 2, 3, 4, 5} \subseteq mask  BY DEF Wheel
<1>3. SUFFICES 6 \in mask
  BY <1>2 DEF LowSix
<1>4. SUFFICES ASSUME a >= 11 PROVE FALSE
  BY <1>1
<1> DEFINE T == (2..5) \union {14}
           U == (a - 3)..(a - 1)
<1>5. Cardinality(T) = 5 /\ IsFiniteSet(T)
  <2> DEFINE I == 2..5
  <2>1. IsFiniteSet(I) /\ Cardinality(I) = 4 /\ 14 \notin I
    <3>1. PICK x \in Int, y \in Int : x = 2 /\ y = 5  OBVIOUS
    <3>2. IsFiniteSet(x..y) /\ Cardinality(x..y) = y - x + 1
      <4>1. x <= y  BY <3>1
      <4> QED  BY <4>1, SizeOfInterval
    <3>3. I = x..y /\ 14 \notin I /\ y - x + 1 = 4  BY <3>1
    <3> HIDE DEF I
    <3> QED  BY <3>2, <3>3
  <2> HIDE DEF I
  <2>2. IsFiniteSet(I \union {14}) /\ Cardinality(I \union {14}) = 5  BY <2>1, FS_AddElement
  <2> QED  BY <2>2 DEF I
<1>6. Cardinality(U) = 3 /\ IsFiniteSet(U)
  <2>1. PICK x \in Int, y \in Int : x = a - 3 /\ y = a - 1  OBVIOUS
  <2>2. IsFiniteSet(x..y) /\ Cardinality(x..y) = y - x + 1
    <3>1. x <= y  BY <2>1
    <3> QED  BY <3>1, SizeOfInterval
  <2>3. y - x + 1 = 3  BY <2>1
  <2> QED  BY <2>1, <2>2, <2>3
<1>7. T \cap U = {}  BY <1>4
<1>8. Cardinality(T \union U) = 8
  <2> HIDE DEF T, U
  <2>1. Cardinality(T \union U) = Cardinality(T) + Cardinality(U) - Cardinality(T \cap U)
    BY <1>5, <1>6, FS_Union DEF T
  <2>2. Cardinality({}) = 0  BY FS_EmptySet
  <2> QED  BY <1>5, <1>6, <1>7, <2>1, <2>2 DEF T
<1>9. T \union U \in SUBSET mask
  <2>1. 2..5 = {2, 3, 4, 5} /\ U = {a - 3, a - 2, a - 1}  OBVIOUS
  <2> QED  BY <1>1, <1>2, <2>1
<1> HIDE DEF T, U
<1>10. Cardinality(T \union U) <= Cardinality(mask)  BY <1>0, <1>9, FS_Subset
<1>11. Cardinality(mask) \in Nat  BY <1>0, FS_CardinalityType
<1> QED  BY <1>8, <1>10, <1>11

-----------------------------------------------------------------------------
\* Counting the cards of a hand by rank and by suit.

\* The cards of one rank, of the other ranks, and of one suit.
Of(cards, r) == {c \in cards : c[1] = r}
Without(cards, r) == {c \in cards : c[1] # r}
OfSuit(cards, s) == {c \in cards : c[2] = s}

Count(cards, r) == Cardinality(Of(cards, r))

\* There are no more ranks than cards, and no more of a suit than cards of that suit.
LEMMA RanksOfCards ==
  ASSUME NEW cards \in SUBSET AllCards, IsFiniteSet(cards)
  PROVE  /\ Ranks(cards) \in SUBSET (2..14) /\ IsFiniteSet(Ranks(cards))
         /\ Cardinality(cards) \in Nat /\ Cardinality(Ranks(cards)) \in Nat
         /\ Cardinality(Ranks(cards)) <= Cardinality(cards)
<1> DEFINE f == [c \in cards |-> c[1]]
<1>1. Ranks(cards) \in SUBSET (2..14)  BY DEF Ranks, AllCards
<1>2. f \in Surjection(cards, Ranks(cards))  BY DEF Surjection, Ranks
<1>3. IsFiniteSet(Ranks(cards)) /\ Cardinality(Ranks(cards)) <= Cardinality(cards)
  BY <1>2, FS_Surjection
<1> QED  BY <1>1, <1>3, FS_CardinalityType

\* The ranks of one suit are among all ranks, and no more than the cards of the suit.
LEMMA SuitsOfCards ==
  ASSUME NEW cards \in SUBSET AllCards, IsFiniteSet(cards), NEW s
  PROVE  /\ suitMask(cards, s) \in SUBSET Ranks(cards) /\ IsFiniteSet(suitMask(cards, s))
         /\ suitMask(cards, s) \in SUBSET (2..14)
         /\ Cardinality(suitMask(cards, s)) \in Nat
         /\ Cardinality(suitMask(cards, s)) <= Cardinality(Ranks(cards))
         /\ Cardinality(suitMask(cards, s)) <= Cardinality(OfSuit(cards, s))
<1>1. OfSuit(cards, s) \in SUBSET AllCards /\ OfSuit(cards, s) \in SUBSET cards  BY DEF OfSuit
<1>2. IsFiniteSet(OfSuit(cards, s))  BY <1>1, FS_Subset
<1>3. suitMask(cards, s) = Ranks(OfSuit(cards, s))  BY DEF suitMask, Ranks, OfSuit
<1>4. suitMask(cards, s) \in SUBSET Ranks(cards)  BY DEF suitMask, Ranks
<1>5. /\ IsFiniteSet(suitMask(cards, s)) /\ Cardinality(suitMask(cards, s)) \in Nat
      /\ suitMask(cards, s) \in SUBSET (2..14)
      /\ Cardinality(suitMask(cards, s)) <= Cardinality(OfSuit(cards, s))
  BY <1>1, <1>2, <1>3, RanksOfCards
<1>6. IsFiniteSet(Ranks(cards))  BY RanksOfCards
<1> QED  BY <1>4, <1>5, <1>6, FS_Subset

\* There are four cards of a rank, and some of each rank that occurs.
LEMMA CountOfRank ==
  ASSUME NEW cards \in SUBSET AllCards, IsFiniteSet(cards), NEW r
  PROVE  /\ IsFiniteSet(Of(cards, r)) /\ Count(cards, r) \in 0..4
         /\ r \in Ranks(cards) <=> Count(cards, r) >= 1
         /\ \A n : r \in OfCount(cards, n) <=> r \in Ranks(cards) /\ Count(cards, r) = n
<1> DEFINE f == [c \in Of(cards, r) |-> c[2]]
<1>1. f \in Injection(Of(cards, r), 1..4)
  BY DEF Injection, IsInjective, Of, AllCards
<1>2. IsFiniteSet(1..4) /\ Cardinality(1..4) = 4
  <2>1. PICK x \in Int, y \in Int : x = 1 /\ y = 4  OBVIOUS
  <2>2. IsFiniteSet(x..y) /\ Cardinality(x..y) = y - x + 1
    <3>1. x <= y  BY <2>1
    <3> QED  BY <3>1, SizeOfInterval
  <2> QED  BY <2>1, <2>2
<1> HIDE DEF f
<1>3. IsFiniteSet(Of(cards, r)) /\ Count(cards, r) <= 4
  BY <1>1, <1>2, FS_Injection DEF Count
<1>4. Count(cards, r) \in Nat  BY <1>3, FS_CardinalityType DEF Count
<1>5. Of(cards, r) # {} <=> r \in Ranks(cards)  BY DEF Of, Ranks
<1>6. Count(cards, r) = 0 <=> Of(cards, r) = {}  BY <1>3, FS_EmptySet DEF Count
<1>7. \A n : r \in OfCount(cards, n) <=> r \in Ranks(cards) /\ Count(cards, r) = n
  BY DEF OfCount, Count, Of
<1> QED  BY <1>3, <1>4, <1>5, <1>6, <1>7

\* The cards of one rank and the others.
LEMMA SplitByRank ==
  ASSUME NEW cards \in SUBSET AllCards, IsFiniteSet(cards), NEW r
  PROVE  /\ Without(cards, r) \in SUBSET AllCards /\ IsFiniteSet(Without(cards, r))
         /\ Cardinality(cards) = Count(cards, r) + Cardinality(Without(cards, r))
         /\ Ranks(Without(cards, r)) = Ranks(cards) \ {r}
         /\ \A q : q # r => Count(Without(cards, r), q) = Count(cards, q)
<1>1. Without(cards, r) \in SUBSET cards /\ Of(cards, r) \in SUBSET cards
  BY DEF Without, Of
<1>2. IsFiniteSet(Without(cards, r)) /\ IsFiniteSet(Of(cards, r))  BY <1>1, FS_Subset
<1>3. /\ Without(cards, r) \union Of(cards, r) = cards
      /\ Without(cards, r) \cap Of(cards, r) = {}
  BY DEF Without, Of
<1>4. Cardinality(cards) = Count(cards, r) + Cardinality(Without(cards, r))
  <2>1. Cardinality({}) = 0  BY FS_EmptySet
  <2>2. Cardinality(Without(cards, r)) \in Nat /\ Cardinality(Of(cards, r)) \in Nat
    BY <1>2, FS_CardinalityType
  <2>3. Cardinality(Without(cards, r) \union Of(cards, r)) =
          Cardinality(Without(cards, r)) + Cardinality(Of(cards, r))
            - Cardinality(Without(cards, r) \cap Of(cards, r))
    BY <1>2, FS_Union
  <2>4. /\ Cardinality(Without(cards, r) \union Of(cards, r)) = Cardinality(cards)
        /\ Cardinality(Without(cards, r) \cap Of(cards, r)) = 0
    BY <1>3, <2>1
  <2> QED  BY <2>2, <2>3, <2>4 DEF Count
<1>5. Ranks(Without(cards, r)) = Ranks(cards) \ {r}  BY DEF Ranks, Without
<1>6. \A q : q # r => Of(Without(cards, r), q) = Of(cards, q)  BY DEF Of, Without
<1> QED  BY <1>1, <1>2, <1>4, <1>5, <1>6 DEF Count

\* A hand has room for the cards of some ranks and one of each of the others.
LEMMA RoomForOne ==
  ASSUME NEW cards \in SUBSET AllCards, IsFiniteSet(cards), NEW r
  PROVE  /\ Cardinality(Ranks(cards) \ {r}) \in Nat
         /\ Count(cards, r) + Cardinality(Ranks(cards) \ {r}) <= Cardinality(cards)
<1> DEFINE rest == Without(cards, r)
<1>1. /\ rest \in SUBSET AllCards /\ IsFiniteSet(rest)
      /\ Cardinality(cards) = Count(cards, r) + Cardinality(rest)
      /\ Ranks(rest) = Ranks(cards) \ {r}
  BY SplitByRank
<1>2. Count(cards, r) \in 0..4  BY CountOfRank
<1> HIDE DEF rest
<1>3. /\ Cardinality(rest) \in Nat /\ Cardinality(Ranks(rest)) \in Nat
      /\ Cardinality(Ranks(rest)) <= Cardinality(rest)
  BY <1>1, RanksOfCards
<1> QED  BY <1>1, <1>2, <1>3

\* The cards of two ranks and one of every other rank are not more than all cards.
LEMMA RoomForTwo ==
  ASSUME NEW cards \in SUBSET AllCards, IsFiniteSet(cards), NEW r, NEW q, q # r
  PROVE  /\ Cardinality(Ranks(cards) \ {r, q}) \in Nat
         /\ Count(cards, r) + Count(cards, q) + Cardinality(Ranks(cards) \ {r, q})
              <= Cardinality(cards)
<1> DEFINE rest == Without(cards, r)
<1>1. /\ rest \in SUBSET AllCards /\ IsFiniteSet(rest)
      /\ Cardinality(cards) = Count(cards, r) + Cardinality(rest)
      /\ Ranks(rest) = Ranks(cards) \ {r} /\ Count(rest, q) = Count(cards, q)
  BY SplitByRank
<1>2. Count(cards, r) \in 0..4 /\ Count(cards, q) \in 0..4  BY CountOfRank
<1> HIDE DEF rest
<1>3. /\ Cardinality(Ranks(rest) \ {q}) \in Nat /\ Cardinality(rest) \in Nat
      /\ Count(rest, q) + Cardinality(Ranks(rest) \ {q}) <= Cardinality(rest)
  BY <1>1, RoomForOne, RanksOfCards
<1>4. Ranks(rest) \ {q} = Ranks(cards) \ {r, q}  BY <1>1
<1> QED  BY <1>1, <1>2, <1>3, <1>4

\* The same for three ranks.
LEMMA RoomForThree ==
  ASSUME NEW cards \in SUBSET AllCards, IsFiniteSet(cards), NEW r, NEW q, NEW p,
         q # r, p \notin {r, q}
  PROVE  /\ Cardinality(Ranks(cards) \ {r, q, p}) \in Nat
         /\ Count(cards, r) + Count(cards, q) + Count(cards, p)
              + Cardinality(Ranks(cards) \ {r, q, p}) <= Cardinality(cards)
<1> DEFINE rest == Without(cards, r)
<1>1. /\ rest \in SUBSET AllCards /\ IsFiniteSet(rest)
      /\ Cardinality(cards) = Count(cards, r) + Cardinality(rest)
      /\ Ranks(rest) = Ranks(cards) \ {r}
      /\ Count(rest, q) = Count(cards, q) /\ Count(rest, p) = Count(cards, p)
  BY SplitByRank
<1>2. Count(cards, r) \in 0..4 /\ Count(cards, q) \in 0..4 /\ Count(cards, p) \in 0..4
  BY CountOfRank
<1> HIDE DEF rest
<1>3. /\ Cardinality(Ranks(rest) \ {q, p}) \in Nat /\ Cardinality(rest) \in Nat
      /\ Count(rest, q) + Count(rest, p) + Cardinality(Ranks(rest) \ {q, p}) <= Cardinality(rest)
  BY <1>1, RoomForTwo, RanksOfCards
<1>4. Cardinality(Ranks(rest) \ {q, p}) = Cardinality(Ranks(cards) \ {r, q, p})
  <2>1. Ranks(rest) \ {q, p} = Ranks(cards) \ {r, q, p}  BY <1>1
  <2> QED  BY <2>1
<1> QED  BY <1>1, <1>2, <1>3, <1>4

\* Seven cards have five of at most one suit.
LEMMA OneFlushSuit ==
  ASSUME NEW cards \in SUBSET AllCards, IsFiniteSet(cards), Cardinality(cards) <= 7, NEW s, NEW t,
         Cardinality(suitMask(cards, s)) >= 5, Cardinality(suitMask(cards, t)) >= 5
  PROVE  s = t
<1> SUFFICES ASSUME s # t PROVE FALSE  OBVIOUS
<1> DEFINE A == OfSuit(cards, s)
           B == OfSuit(cards, t)
<1>1. A \in SUBSET cards /\ B \in SUBSET cards /\ A \union B \in SUBSET cards /\ A \cap B = {}
  BY DEF OfSuit
<1>2. /\ Cardinality(suitMask(cards, s)) <= Cardinality(A)
      /\ Cardinality(suitMask(cards, t)) <= Cardinality(B)
      /\ Cardinality(suitMask(cards, s)) \in Nat /\ Cardinality(suitMask(cards, t)) \in Nat
  BY SuitsOfCards
<1> HIDE DEF A, B
<1>3. IsFiniteSet(A) /\ IsFiniteSet(B) /\ IsFiniteSet(A \union B)  BY <1>1, FS_Subset
<1>4. /\ Cardinality(A) \in Nat /\ Cardinality(B) \in Nat /\ Cardinality(cards) \in Nat
      /\ Cardinality(A \union B) \in Nat
  BY <1>3, FS_CardinalityType
<1>5. Cardinality(A \union B) = Cardinality(A) + Cardinality(B)
  <2>1. Cardinality(A \union B) = Cardinality(A) + Cardinality(B) - Cardinality(A \cap B)
    BY <1>3, FS_Union
  <2>2. Cardinality(A \cap B) = 0  BY <1>1, FS_EmptySet
  <2> QED  BY <1>4, <2>1, <2>2
<1>6. Cardinality(A \union B) <= Cardinality(cards)  BY <1>1, FS_Subset
<1> QED  BY <1>2, <1>4, <1>5, <1>6

-----------------------------------------------------------------------------
\* The value of five cards, shape by shape.

\* A decreasing sequence is what Descending makes of its members.
LEMMA DecreasingSize ==
  ASSUME NEW n \in Nat, NEW s \in [1..n -> Int],
         \A i, j \in 1..n : i < j => s[i] > s[j],
         NEW m \in 0..n
  PROVE  IsFiniteSet({s[i] : i \in 1..m}) /\ Cardinality({s[i] : i \in 1..m}) = m
<1> DEFINE f == [i \in 1..m |-> s[i]]
           S == {s[i] : i \in 1..m}
<1>1. f \in Surjection(1..m, S)  BY DEF Surjection
<1>2. f \in Injection(1..m, S)
  <2>1. \A i, j \in 1..m : i # j => f[i] # f[j]
    <3> SUFFICES ASSUME NEW i \in 1..m, NEW j \in 1..m, i # j PROVE s[i] # s[j]  OBVIOUS
    <3>1. i \in 1..n /\ j \in 1..n /\ s[i] \in Int /\ s[j] \in Int /\ (i < j \/ j < i)  OBVIOUS
    <3> QED  BY <3>1
  <2> QED  BY <2>1 DEF Injection, IsInjective
<1>3. IsFiniteSet(1..m) /\ Cardinality(1..m) = m
  <2>1. m \in Int /\ 1 \in Int  OBVIOUS
  <2>2. IsFiniteSet(1..m) /\ Cardinality(1..m) = IF 1 > m THEN 0 ELSE m - 1 + 1
    BY <2>1, FS_Interval
  <2> QED  BY <2>1, <2>2
<1> HIDE DEF f, S
<1>4. IsFiniteSet(S) /\ Cardinality(S) = m  BY <1>1, <1>2, <1>3, FS_Surjection
<1> QED  BY <1>4 DEF S

\* A sequence that decreases is the set of its members in descending order.
LEMMA DescendingIs ==
  ASSUME NEW n \in Nat, NEW s \in [1..n -> Int],
         \A i, j \in 1..n : i < j => s[i] > s[j],
         NEW S, S = {s[i] : i \in 1..n}
  PROVE  Descending(S) = s /\ IsFiniteSet(S) /\ Cardinality(S) = n
<1> DEFINE Above(x) == {q \in S : q > x}
<1>1. IsFiniteSet(S) /\ Cardinality(S) = n
  <2>1. n \in 0..n  OBVIOUS
  <2> QED  BY <2>1, DecreasingSize
<1>2. ASSUME NEW i \in 1..n PROVE Cardinality(Above(s[i])) = i - 1
  <2>1. i - 1 \in 0..n  OBVIOUS
  <2>2. Above(s[i]) = {s[j] : j \in 1..(i - 1)}
    <3>1. ASSUME NEW j \in 1..n PROVE s[j] > s[i] <=> j \in 1..(i - 1)
      <4>1. s[i] \in Int /\ s[j] \in Int /\ (j < i \/ j = i \/ i < j)  OBVIOUS
      <4> QED  BY <4>1
    <3> QED  BY <3>1
  <2> DEFINE T == {s[j] : j \in 1..(i - 1)}
  <2>3. Cardinality(T) = i - 1
    <3> DEFINE k == i - 1
    <3>1. k \in 0..n  BY <2>1
    <3> HIDE DEF k
    <3>2. Cardinality({s[j] : j \in 1..k}) = k  BY <3>1, DecreasingSize
    <3> QED  BY <3>2 DEF k
  <2> QED  BY <2>2, <2>3
<1>3. Descending(S) = [i \in 1..n |-> CHOOSE r \in S : Cardinality(Above(r)) = i - 1]
  BY <1>1 DEF Descending
<1> HIDE DEF Above
<1>4. ASSUME NEW i \in 1..n
      PROVE  (CHOOSE r \in S : Cardinality(Above(r)) = i - 1) = s[i]
  <2>1. s[i] \in S /\ Cardinality(Above(s[i])) = i - 1  BY <1>2
  <2>2. \A r \in S : Cardinality(Above(r)) = i - 1 => r = s[i]
    <3> SUFFICES ASSUME NEW j \in 1..n, Cardinality(Above(s[j])) = i - 1 PROVE s[j] = s[i]
      OBVIOUS
    <3>1. j - 1 = i - 1  BY <1>2
    <3>2. j = i  BY <3>1
    <3> QED  BY <3>2
  <2> QED  BY <2>1, <2>2
<1> QED  BY <1>1, <1>3, <1>4

\* Five different cards.
AreFive(five, u, v, w, x, y) ==
  /\ five = {u, v, w, x, y} /\ five \subseteq AllCards
  /\ u # v /\ w \notin {u, v} /\ x \notin {u, v, w} /\ y \notin {u, v, w, x}

\* The ranks of a straight are five.
LEMMA StraightHasFiveRanks ==
  ASSUME NEW five, IsStraight(five) PROVE Cardinality(Ranks(five)) = 5
<1>1. Cardinality(Wheel) = 5
  <2> DEFINE I == 2..5
  <2>1. IsFiniteSet(I) /\ Cardinality(I) = 4 /\ 14 \notin I
    <3>1. PICK x \in Int, y \in Int : x = 2 /\ y = 5  OBVIOUS
    <3>2. IsFiniteSet(x..y) /\ Cardinality(x..y) = y - x + 1
      <4>1. x <= y  BY <3>1
      <4> QED  BY <4>1, SizeOfInterval
    <3>3. I = x..y /\ 14 \notin I /\ y - x + 1 = 4  BY <3>1
    <3> HIDE DEF I
    <3> QED  BY <3>2, <3>3
  <2>2. I \union {14} = Wheel  BY DEF Wheel
  <2> HIDE DEF I
  <2>3. Cardinality(I \union {14}) = 5  BY <2>1, FS_AddElement
  <2> QED  BY <2>2, <2>3
<1>2. ASSUME NEW low \in 2..10, Ranks(five) = low..(low + 4) PROVE Cardinality(Ranks(five)) = 5
  <2>1. PICK x \in Int, y \in Int : x = low /\ y = low + 4  OBVIOUS
  <2>2. Cardinality(x..y) = y - x + 1
    <3>1. x <= y  BY <2>1
    <3> QED  BY <3>1, SizeOfInterval
  <2> QED  BY <1>2, <2>1, <2>2
<1> QED  BY <1>1, <1>2 DEF IsStraight

\* Cards of one suit are a flush, two of one rank are not.
LEMMA FlushIsOneSuit ==
  ASSUME NEW five \in SUBSET AllCards, five # {}
  PROVE  IsFlush(five) <=> \E s \in 1..4 : \A c \in five : c[2] = s
<1> DEFINE S == {c[2] : c \in five}
<1>1. S \in SUBSET (1..4)  BY DEF AllCards
<1>2. IsFlush(five) <=> Cardinality(S) = 1  BY DEF IsFlush
<1>3. \A s : S = {s} <=> \A c \in five : c[2] = s  OBVIOUS
<1> HIDE DEF S
<1>4. IsFiniteSet(S)
  <2>1. IsFiniteSet(1..4)
    <3>1. 1 \in Int /\ 4 \in Int  OBVIOUS
    <3> QED  BY <3>1, FS_Interval
  <2> QED  BY <1>1, <2>1, FS_Subset
<1>5. Cardinality(S) = 1 <=> \E s : S = {s}  BY <1>4, FS_Singleton
<1>6. \A s : S = {s} => s \in 1..4  BY <1>1
<1> QED  BY <1>2, <1>3, <1>5, <1>6

\* Two cards of one rank differ in suit, so a hand with a pair is no flush.
LEMMA PairIsNoFlush ==
  ASSUME NEW five \in SUBSET AllCards, NEW u \in five, NEW v \in five, u # v, u[1] = v[1]
  PROVE  ~IsFlush(five)
<1>1. u \in AllCards /\ v \in AllCards  OBVIOUS
<1>2. u[2] # v[2]  BY <1>1 DEF AllCards
<1> QED  BY <1>2, FlushIsOneSuit

\* The category by how often the ranks occur.
ShapeCategory(shape) ==
  CASE shape = <<4, 1>> -> Quads
    [] shape = <<3, 2>> -> FullHouse
    [] shape = <<3, 1, 1>> -> Trips
    [] shape = <<2, 2, 1>> -> TwoPair
    [] shape = <<2, 1, 1, 1>> -> OnePair
    [] OTHER -> HighCard

\* The cards are grouped by rank: so many of each, in the order of Groups.
GroupedAs(five, n, shape, ranks) ==
  /\ n \in 1..5 /\ shape \in [1..n -> 1..4] /\ ranks \in [1..n -> 2..14]
  /\ Ranks(five) = {ranks[i] : i \in 1..n} /\ Cardinality(Ranks(five)) = n
  /\ \A i \in 1..n : Count(five, ranks[i]) = shape[i]
  /\ \A i, j \in 1..n : i < j => 16 * shape[i] + ranks[i] > 16 * shape[j] + ranks[j]

\* What Groups gives for them.
LEMMA GroupsAre ==
  ASSUME NEW five, NEW n, NEW shape, NEW ranks, GroupedAs(five, n, shape, ranks)
  PROVE  Groups(five) = [i \in 1..n |-> 16 * shape[i] + ranks[i]]
<1>0. /\ n \in 1..5 /\ shape \in [1..n -> 1..4] /\ ranks \in [1..n -> 2..14]
      /\ Ranks(five) = {ranks[i] : i \in 1..n}
      /\ \A i \in 1..n : Count(five, ranks[i]) = shape[i]
      /\ \A i, j \in 1..n : i < j => 16 * shape[i] + ranks[i] > 16 * shape[j] + ranks[j]
  BY DEF GroupedAs
<1> DEFINE s == [i \in 1..n |-> 16 * shape[i] + ranks[i]]
           S == {16 * Count(five, r) + r : r \in Ranks(five)}
<1>1. Groups(five) = Descending(S)  BY DEF Groups, Count, Of
<1>2. S = {16 * Count(five, ranks[i]) + ranks[i] : i \in 1..n}  BY <1>0
<1>3. \A i \in 1..n : s[i] = 16 * Count(five, ranks[i]) + ranks[i]  BY <1>0
<1>4. S = {s[i] : i \in 1..n}  BY <1>2, <1>3
<1>5. s \in [1..n -> Int] /\ n \in Nat /\ \A i, j \in 1..n : i < j => s[i] > s[j]
  <2>1. \A i \in 1..n : s[i] \in Int
    <3> SUFFICES ASSUME NEW i \in 1..n PROVE 16 * shape[i] + ranks[i] \in Int  OBVIOUS
    <3>1. shape[i] \in 1..4 /\ ranks[i] \in 2..14  BY <1>0
    <3> QED  BY <3>1
  <2> QED  BY <1>0, <2>1
<1> HIDE DEF s, S
<1>6. Descending(S) = s  BY <1>4, <1>5, DescendingIs
<1> QED  BY <1>1, <1>6 DEF s

\* The shape and the ranks that come out of Groups.
LEMMA GroupsGive ==
  ASSUME NEW five, NEW n, NEW shape, NEW ranks, GroupedAs(five, n, shape, ranks)
  PROVE  /\ [i \in DOMAIN Groups(five) |-> Groups(five)[i] \div 16] = shape
         /\ [i \in DOMAIN Groups(five) |-> Groups(five)[i] % 16] = ranks
<1> DEFINE g == Groups(five)
<1>0. g = [i \in 1..n |-> 16 * shape[i] + ranks[i]]  BY GroupsAre
<1>1. /\ DOMAIN g = 1..n /\ \A i \in 1..n : g[i] = 16 * shape[i] + ranks[i]
      /\ shape \in [1..n -> 1..4] /\ ranks \in [1..n -> 2..14]
  BY <1>0 DEF GroupedAs
<1>2. \A m \in 1..4, r \in 2..14 : (16 * m + r) \div 16 = m /\ (16 * m + r) % 16 = r
  OBVIOUS
<1> HIDE DEF g
<1>3. \A i \in 1..n : g[i] \div 16 = shape[i] /\ g[i] % 16 = ranks[i]
  <2> SUFFICES ASSUME NEW i \in 1..n PROVE g[i] \div 16 = shape[i] /\ g[i] % 16 = ranks[i]
    OBVIOUS
  <2>1. shape[i] \in 1..4 /\ ranks[i] \in 2..14 /\ g[i] = 16 * shape[i] + ranks[i]  BY <1>1
  <2> QED  BY <1>2, <2>1
<1>4. /\ [i \in DOMAIN g |-> g[i] \div 16] = shape
      /\ [i \in DOMAIN g |-> g[i] % 16] = ranks
  BY <1>1, <1>3
<1> QED  BY <1>4 DEF g

\* Of cards that are neither straight nor flush the shape decides.
LEMMA CategoryByShape ==
  ASSUME NEW five, ~IsStraight(five), ~IsFlush(five),
         NEW n, NEW shape, NEW ranks, GroupedAs(five, n, shape, ranks)
  PROVE  CategoryOf(five) = ShapeCategory(shape)
<1> DEFINE sh == [i \in DOMAIN Groups(five) |-> Groups(five)[i] \div 16]
<1>1. CategoryOf(five) =
        CASE IsStraight(five) -> IF IsFlush(five) THEN StraightFlush ELSE Straight
          [] ~IsStraight(five) /\ IsFlush(five) -> Flush
          [] sh = <<4, 1>> -> Quads
          [] sh = <<3, 2>> -> FullHouse
          [] sh = <<3, 1, 1>> -> Trips
          [] sh = <<2, 2, 1>> -> TwoPair
          [] sh = <<2, 1, 1, 1>> -> OnePair
          [] OTHER -> HighCard
  BY Zenon DEF CategoryOf
<1>2. sh = shape  BY GroupsGive
<1> HIDE DEF sh
<1>3. CategoryOf(five) = ShapeCategory(sh)
  BY <1>1 DEF ShapeCategory
<1> QED  BY <1>2, <1>3

\* Five different ranks are a straight, a flush, both or neither.
LEMMA CategoryOfFiveRanks ==
  ASSUME NEW five, NEW ranks, GroupedAs(five, 5, <<1, 1, 1, 1, 1>>, ranks)
  PROVE  CategoryOf(five) =
           IF IsStraight(five) THEN IF IsFlush(five) THEN StraightFlush ELSE Straight
           ELSE IF IsFlush(five) THEN Flush ELSE HighCard
<1> DEFINE sh == [i \in DOMAIN Groups(five) |-> Groups(five)[i] \div 16]
<1>1. CategoryOf(five) =
        CASE IsStraight(five) -> IF IsFlush(five) THEN StraightFlush ELSE Straight
          [] ~IsStraight(five) /\ IsFlush(five) -> Flush
          [] sh = <<4, 1>> -> Quads
          [] sh = <<3, 2>> -> FullHouse
          [] sh = <<3, 1, 1>> -> Trips
          [] sh = <<2, 2, 1>> -> TwoPair
          [] sh = <<2, 1, 1, 1>> -> OnePair
          [] OTHER -> HighCard
  BY Zenon DEF CategoryOf
<1>2. sh = <<1, 1, 1, 1, 1>>  BY GroupsGive
<1> HIDE DEF sh
<1>3. /\ sh # <<4, 1>> /\ sh # <<3, 2>> /\ sh # <<3, 1, 1>>
      /\ sh # <<2, 2, 1>> /\ sh # <<2, 1, 1, 1>>
  BY <1>2
<1> QED  BY <1>1, <1>3

\* Five cards of fewer than five ranks, by their groups.
LEMMA ValueByGroups ==
  ASSUME NEW five, NEW u, NEW v, NEW w, NEW x, NEW y, AreFive(five, u, v, w, x, y), u[1] = v[1],
         NEW n, NEW shape, NEW ranks, GroupedAs(five, n, shape, ranks), n # 5
  PROVE  FiveCardValue(five) = encode(ShapeCategory(shape), ranks)
<1>1. five \in SUBSET AllCards /\ u \in five /\ v \in five /\ u # v  BY DEF AreFive
<1>2. ~IsFlush(five)  BY <1>1, PairIsNoFlush
<1>3. ~IsStraight(five)  BY StraightHasFiveRanks DEF GroupedAs
<1>4. CategoryOf(five) = ShapeCategory(shape)  BY <1>2, <1>3, CategoryByShape
<1> DEFINE rk == [i \in DOMAIN Groups(five) |-> Groups(five)[i] % 16]
<1>5. rk = ranks  BY GroupsGive
<1>6. FiveCardValue(five) = encode(CategoryOf(five), rk)  BY <1>3, Zenon DEF FiveCardValue
<1> QED  BY <1>4, <1>5, <1>6

\* How many cards of a rank there are, when they are known.
LEMMA CountIs1 ==
  ASSUME NEW cards, NEW r, NEW a, Of(cards, r) = {a} PROVE Count(cards, r) = 1
BY SizeOf1 DEF Count

\* A rank of which two cards are there occurs twice.
LEMMA CountIs2 ==
  ASSUME NEW cards, NEW r, NEW a, NEW b, a # b, Of(cards, r) = {a, b} PROVE Count(cards, r) = 2
BY SizeOf2 DEF Count

\* A rank of which three cards are there occurs three times.
LEMMA CountIs3 ==
  ASSUME NEW cards, NEW r, NEW a, NEW b, NEW c, a # b, c \notin {a, b}, Of(cards, r) = {a, b, c}
  PROVE  Count(cards, r) = 3
BY SizeOf3 DEF Count

\* A rank of which four cards are there occurs four times.
LEMMA CountIs4 ==
  ASSUME NEW cards, NEW r, NEW a, NEW b, NEW c, NEW d, a # b, c \notin {a, b}, d \notin {a, b, c},
         Of(cards, r) = {a, b, c, d}
  PROVE  Count(cards, r) = 4
<1>1. Cardinality({a, b, c, d}) = 4  BY SizeOf4
<1> QED  BY <1>1 DEF Count

\* The size of a set that is known member by member.
LEMMA SizeIs2 ==
  ASSUME NEW S, NEW a, NEW b, a # b, S = {a, b} PROVE Cardinality(S) = 2
<1>1. Cardinality({a, b}) = 2  BY SizeOf2
<1> QED  BY <1>1

\* A set that is given by three different members has three.
LEMMA SizeIs3 ==
  ASSUME NEW S, NEW a, NEW b, NEW c, a # b, c \notin {a, b}, S = {a, b, c}
  PROVE  Cardinality(S) = 3
<1>1. Cardinality({a, b, c}) = 3  BY SizeOf3
<1> QED  BY <1>1

\* A set that is given by four different members has four.
LEMMA SizeIs4 ==
  ASSUME NEW S, NEW a, NEW b, NEW c, NEW d, a # b, c \notin {a, b}, d \notin {a, b, c},
         S = {a, b, c, d}
  PROVE  Cardinality(S) = 4
<1>1. Cardinality({a, b, c, d}) = 4  BY SizeOf4
<1> QED  BY <1>1

\* A set that is given by five different members has five.
LEMMA SizeIs5 ==
  ASSUME NEW S, NEW a, NEW b, NEW c, NEW d, NEW e,
         a # b, c \notin {a, b}, d \notin {a, b, c}, e \notin {a, b, c, d}, S = {a, b, c, d, e}
  PROVE  Cardinality(S) = 5
<1>1. Cardinality({a, b, c, d, e}) = 5  BY SizeOf5
<1> QED  BY <1>1

-----------------------------------------------------------------------------
\* What cards make: a category with the ranks that decide within it.

InOrder(S, a, b, c, d, e) == {a, b, c, d, e} \subseteq S /\ a > b /\ b > c /\ c > d /\ d > e

MakesStraightFlush(cards, a) == \E s \in 1..4 : Run(a) \subseteq suitMask(cards, s)

MakesQuads(cards, a, b) == Count(cards, a) >= 4 /\ b \in Ranks(cards) \ {a}

MakesFullHouse(cards, a, b) == Count(cards, a) >= 3 /\ Count(cards, b) >= 2 /\ a # b

MakesFlush(cards, a, b, c, d, e) == \E s \in 1..4 : InOrder(suitMask(cards, s), a, b, c, d, e)

MakesStraight(cards, a) == Run(a) \subseteq Ranks(cards)

MakesTrips(cards, a, b, c) == Count(cards, a) >= 3 /\ {b, c} \subseteq Ranks(cards) \ {a} /\ b > c

MakesTwoPair(cards, a, b, c) ==
  Count(cards, a) >= 2 /\ Count(cards, b) >= 2 /\ a > b /\ c \in Ranks(cards) \ {a, b}

MakesPair(cards, a, b, c, d) ==
  Count(cards, a) >= 2 /\ {b, c, d} \subseteq Ranks(cards) \ {a} /\ b > c /\ c > d

\* The scores of everything they make.
Rank == 2..14

Makes(cards, v) ==
  \/ \E a \in 5..14 : MakesStraightFlush(cards, a) /\ v = Num(StraightFlush, a, 0, 0, 0, 0)
  \/ \E a, b \in Rank : MakesQuads(cards, a, b) /\ v = Num(Quads, a, b, 0, 0, 0)
  \/ \E a, b \in Rank : MakesFullHouse(cards, a, b) /\ v = Num(FullHouse, a, b, 0, 0, 0)
  \/ \E a, b, c, d, e \in Rank :
       MakesFlush(cards, a, b, c, d, e) /\ v = Num(Flush, a, b, c, d, e)
  \/ \E a \in 5..14 : MakesStraight(cards, a) /\ v = Num(Straight, a, 0, 0, 0, 0)
  \/ \E a, b, c \in Rank : MakesTrips(cards, a, b, c) /\ v = Num(Trips, a, b, c, 0, 0)
  \/ \E a, b, c \in Rank : MakesTwoPair(cards, a, b, c) /\ v = Num(TwoPair, a, b, c, 0, 0)
  \/ \E a, b, c, d \in Rank : MakesPair(cards, a, b, c, d) /\ v = Num(OnePair, a, b, c, d, 0)
  \/ \E a, b, c, d, e \in Rank :
       InOrder(Ranks(cards), a, b, c, d, e) /\ v = Num(HighCard, a, b, c, d, e)

\* Four of a kind.
LEMMA ValueOfQuads ==
  ASSUME NEW five, NEW u, NEW v, NEW w, NEW x, NEW y, AreFive(five, u, v, w, x, y), NEW q, NEW k,
         u[1] = q, v[1] = q, w[1] = q, x[1] = q, y[1] = k, q # k
  PROVE  /\ FiveCardValue(five) = Num(Quads, q, k, 0, 0, 0)
         /\ MakesQuads(five, q, k)
         /\ Makes(five, FiveCardValue(five))
<1>0. q \in 2..14 /\ k \in 2..14
  BY DEF AreFive, AllCards
<1>1. Ranks(five) = {q, k} /\ q # k
  BY DEF AreFive, Ranks
<1>2. Of(five, q) = {u, v, w, x} /\ Of(five, k) = {y}  BY DEF AreFive, Of
<1>3. Count(five, q) = 4 /\ Count(five, k) = 1
  <2>1. u # v /\ w \notin {u, v} /\ x \notin {u, v, w}  BY DEF AreFive
  <2>2. Count(five, q) = 4  BY <1>2, <2>1, CountIs4
  <2>3. Count(five, k) = 1  BY <1>2, CountIs1
  <2> QED  BY <2>2, <2>3
<1> DEFINE shape == <<4, 1>>
           ranks == <<q, k>>
<1>4. GroupedAs(five, 2, shape, ranks)
  <2>1. 2 \in 1..5 /\ shape \in [1..2 -> 1..4] /\ ranks \in [1..2 -> 2..14]  BY <1>0
  <2>2. Ranks(five) = {ranks[i] : i \in 1..2}  BY <1>1
  <2>3. \A i \in 1..2 : Count(five, ranks[i]) = shape[i]  BY <1>3
  <2>4. \A i, j \in 1..2 : i < j => 16 * shape[i] + ranks[i] > 16 * shape[j] + ranks[j]  BY <1>0
  <2>5. Cardinality(Ranks(five)) = 2  BY <1>1, SizeIs2
  <2> QED  BY <2>1, <2>2, <2>3, <2>4, <2>5 DEF GroupedAs
<1>5. ShapeCategory(shape) = Quads  BY DEF ShapeCategory
<1> HIDE DEF shape, ranks
<1>6. FiveCardValue(five) = encode(ShapeCategory(shape), ranks)
  <2>1. u[1] = v[1] /\ 2 # 5  OBVIOUS
  <2> QED  BY <1>4, <2>1, ValueByGroups
<1>7. encode(Quads, ranks) = Num(Quads, q, k, 0, 0, 0)
  <2>1. q \in Digits /\ k \in Digits /\ Quads \in Nat  BY <1>0 DEF Digits, Quads
  <2> QED  BY <2>1, Encode2 DEF ranks
<1>8. MakesQuads(five, q, k)  BY <1>0, <1>1, <1>3 DEF MakesQuads
<1>9. FiveCardValue(five) = Num(Quads, q, k, 0, 0, 0)  BY <1>5, <1>6, <1>7
<1>10. \E g, h \in Rank : MakesQuads(five, g, h) /\ FiveCardValue(five) = Num(Quads, g, h, 0, 0, 0)
  <2>1. q \in Rank /\ k \in Rank  BY <1>0 DEF Rank
  <2> QED  BY <1>8, <1>9, <2>1, Zenon
<1> QED  BY <1>8, <1>9, <1>10, Zenon DEF Makes

\* Three of a kind and a pair.
LEMMA ValueOfFullHouse ==
  ASSUME NEW five, NEW u, NEW v, NEW w, NEW x, NEW y, AreFive(five, u, v, w, x, y),
         NEW t, NEW p, t # p,
         u[1] = t, v[1] = t, w[1] = t, x[1] = p, y[1] = p
  PROVE  /\ FiveCardValue(five) = Num(FullHouse, t, p, 0, 0, 0)
         /\ MakesFullHouse(five, t, p)
         /\ Makes(five, FiveCardValue(five))
<1>0. t \in 2..14 /\ p \in 2..14
  BY DEF AreFive, AllCards
<1>1. Ranks(five) = {t, p} /\ t # p
  BY <1>0 DEF AreFive, Ranks
<1>2. Of(five, t) = {u, v, w} /\ Of(five, p) = {x, y}
  BY <1>1 DEF AreFive, Of
<1>3. Count(five, t) = 3 /\ Count(five, p) = 2
  <2>1. u # v /\ w \notin {u, v} /\ x \notin {u, v, w} /\ y \notin {u, v, w, x}  BY DEF AreFive
  <2>2. Count(five, t) = 3  BY <1>2, <2>1, CountIs3
  <2>3. Count(five, p) = 2
    <3>1. x # y  BY <2>1
    <3> QED  BY <1>2, <3>1, CountIs2
  <2> QED  BY <2>2, <2>3
<1> DEFINE shape == <<3, 2>>
           ranks == <<t, p>>
<1>4. GroupedAs(five, 2, shape, ranks)
  <2>1. 2 \in 1..5 /\ shape \in [1..2 -> 1..4] /\ ranks \in [1..2 -> 2..14]  BY <1>0
  <2>2. Ranks(five) = {ranks[i] : i \in 1..2}  BY <1>1
  <2>3. \A i \in 1..2 : Count(five, ranks[i]) = shape[i]  BY <1>3
  <2>4. \A i, j \in 1..2 : i < j => 16 * shape[i] + ranks[i] > 16 * shape[j] + ranks[j]  BY <1>0
  <2>5. Cardinality(Ranks(five)) = 2  BY <1>1, SizeIs2
  <2> QED  BY <2>1, <2>2, <2>3, <2>4, <2>5 DEF GroupedAs
<1>5. ShapeCategory(shape) = FullHouse  BY DEF ShapeCategory
<1> HIDE DEF shape, ranks
<1>6. FiveCardValue(five) = encode(ShapeCategory(shape), ranks)
  <2>1. u[1] = v[1] /\ 2 # 5  OBVIOUS
  <2> QED  BY <1>4, <2>1, ValueByGroups
<1>7. encode(FullHouse, ranks) = Num(FullHouse, t, p, 0, 0, 0)
  <2>1. t \in Digits /\ p \in Digits /\ FullHouse \in Nat  BY <1>0 DEF Digits, FullHouse
  <2> QED  BY <2>1, Encode2 DEF ranks
<1>8. MakesFullHouse(five, t, p)  BY <1>0, <1>1, <1>3 DEF MakesFullHouse
<1>9. FiveCardValue(five) = Num(FullHouse, t, p, 0, 0, 0)  BY <1>5, <1>6, <1>7
<1>10. \E g, h \in Rank : MakesFullHouse(five, g, h) /\ FiveCardValue(five) = Num(FullHouse, g, h, 0, 0, 0)
  <2>1. t \in Rank /\ p \in Rank  BY <1>0 DEF Rank
  <2> QED  BY <1>8, <1>9, <2>1, Zenon
<1> QED  BY <1>8, <1>9, <1>10, Zenon DEF Makes

\* Three of a kind and two others.
LEMMA ValueOfTrips ==
  ASSUME NEW five, NEW u, NEW v, NEW w, NEW x, NEW y, AreFive(five, u, v, w, x, y),
         NEW t, NEW a, NEW b, t # a, t # b, a > b,
         u[1] = t, v[1] = t, w[1] = t, x[1] = a, y[1] = b
  PROVE  /\ FiveCardValue(five) = Num(Trips, t, a, b, 0, 0)
         /\ MakesTrips(five, t, a, b)
         /\ Makes(five, FiveCardValue(five))
<1>0. t \in 2..14 /\ a \in 2..14 /\ b \in 2..14
  BY DEF AreFive, AllCards
<1>1. Ranks(five) = {t, a, b} /\ t # a /\ b \notin {t, a}
  BY <1>0 DEF AreFive, Ranks
<1>2. Of(five, t) = {u, v, w} /\ Of(five, a) = {x} /\ Of(five, b) = {y}
  BY <1>1 DEF AreFive, Of
<1>3. Count(five, t) = 3 /\ Count(five, a) = 1 /\ Count(five, b) = 1
  <2>1. u # v /\ w \notin {u, v} /\ x \notin {u, v, w} /\ y \notin {u, v, w, x}  BY DEF AreFive
  <2>2. Count(five, t) = 3  BY <1>2, <2>1, CountIs3
  <2>3. Count(five, a) = 1  BY <1>2, CountIs1
  <2>4. Count(five, b) = 1  BY <1>2, CountIs1
  <2> QED  BY <2>2, <2>3, <2>4
<1> DEFINE shape == <<3, 1, 1>>
           ranks == <<t, a, b>>
<1>4. GroupedAs(five, 3, shape, ranks)
  <2>1. 3 \in 1..5 /\ shape \in [1..3 -> 1..4] /\ ranks \in [1..3 -> 2..14]  BY <1>0
  <2>2. Ranks(five) = {ranks[i] : i \in 1..3}  BY <1>1
  <2>3. \A i \in 1..3 : Count(five, ranks[i]) = shape[i]  BY <1>3
  <2>4. \A i, j \in 1..3 : i < j => 16 * shape[i] + ranks[i] > 16 * shape[j] + ranks[j]  BY <1>0
  <2>5. Cardinality(Ranks(five)) = 3  BY <1>1, SizeIs3
  <2> QED  BY <2>1, <2>2, <2>3, <2>4, <2>5 DEF GroupedAs
<1>5. ShapeCategory(shape) = Trips  BY DEF ShapeCategory
<1> HIDE DEF shape, ranks
<1>6. FiveCardValue(five) = encode(ShapeCategory(shape), ranks)
  <2>1. u[1] = v[1] /\ 3 # 5  OBVIOUS
  <2> QED  BY <1>4, <2>1, ValueByGroups
<1>7. encode(Trips, ranks) = Num(Trips, t, a, b, 0, 0)
  <2>1. t \in Digits /\ a \in Digits /\ b \in Digits /\ Trips \in Nat  BY <1>0 DEF Digits, Trips
  <2> QED  BY <2>1, Encode3 DEF ranks
<1>8. MakesTrips(five, t, a, b)  BY <1>0, <1>1, <1>3 DEF MakesTrips
<1>9. FiveCardValue(five) = Num(Trips, t, a, b, 0, 0)  BY <1>5, <1>6, <1>7
<1>10. \E g, h, i \in Rank : MakesTrips(five, g, h, i) /\ FiveCardValue(five) = Num(Trips, g, h, i, 0, 0)
  <2>1. t \in Rank /\ a \in Rank /\ b \in Rank  BY <1>0 DEF Rank
  <2> QED  BY <1>8, <1>9, <2>1, Zenon
<1> QED  BY <1>8, <1>9, <1>10, Zenon DEF Makes

\* Two pairs and another.
LEMMA ValueOfTwoPair ==
  ASSUME NEW five, NEW u, NEW v, NEW w, NEW x, NEW y, AreFive(five, u, v, w, x, y),
         NEW p, NEW q, NEW a, p > q, a # p, a # q,
         u[1] = p, v[1] = p, w[1] = q, x[1] = q, y[1] = a
  PROVE  /\ FiveCardValue(five) = Num(TwoPair, p, q, a, 0, 0)
         /\ MakesTwoPair(five, p, q, a)
         /\ Makes(five, FiveCardValue(five))
<1>0. p \in 2..14 /\ q \in 2..14 /\ a \in 2..14
  BY DEF AreFive, AllCards
<1>1. Ranks(five) = {p, q, a} /\ p # q /\ a \notin {p, q}
  BY <1>0 DEF AreFive, Ranks
<1>2. Of(five, p) = {u, v} /\ Of(five, q) = {w, x} /\ Of(five, a) = {y}
  BY <1>1 DEF AreFive, Of
<1>3. Count(five, p) = 2 /\ Count(five, q) = 2 /\ Count(five, a) = 1
  <2>1. u # v /\ w \notin {u, v} /\ x \notin {u, v, w} /\ y \notin {u, v, w, x}  BY DEF AreFive
  <2>2. Count(five, p) = 2
    <3>1. u # v  BY <2>1
    <3> QED  BY <1>2, <3>1, CountIs2
  <2>3. Count(five, q) = 2
    <3>1. w # x  BY <2>1
    <3> QED  BY <1>2, <3>1, CountIs2
  <2>4. Count(five, a) = 1  BY <1>2, CountIs1
  <2> QED  BY <2>2, <2>3, <2>4
<1> DEFINE shape == <<2, 2, 1>>
           ranks == <<p, q, a>>
<1>4. GroupedAs(five, 3, shape, ranks)
  <2>1. 3 \in 1..5 /\ shape \in [1..3 -> 1..4] /\ ranks \in [1..3 -> 2..14]  BY <1>0
  <2>2. Ranks(five) = {ranks[i] : i \in 1..3}  BY <1>1
  <2>3. \A i \in 1..3 : Count(five, ranks[i]) = shape[i]  BY <1>3
  <2>4. \A i, j \in 1..3 : i < j => 16 * shape[i] + ranks[i] > 16 * shape[j] + ranks[j]  BY <1>0
  <2>5. Cardinality(Ranks(five)) = 3  BY <1>1, SizeIs3
  <2> QED  BY <2>1, <2>2, <2>3, <2>4, <2>5 DEF GroupedAs
<1>5. ShapeCategory(shape) = TwoPair  BY DEF ShapeCategory
<1> HIDE DEF shape, ranks
<1>6. FiveCardValue(five) = encode(ShapeCategory(shape), ranks)
  <2>1. u[1] = v[1] /\ 3 # 5  OBVIOUS
  <2> QED  BY <1>4, <2>1, ValueByGroups
<1>7. encode(TwoPair, ranks) = Num(TwoPair, p, q, a, 0, 0)
  <2>1. p \in Digits /\ q \in Digits /\ a \in Digits /\ TwoPair \in Nat  BY <1>0 DEF Digits, TwoPair
  <2> QED  BY <2>1, Encode3 DEF ranks
<1>8. MakesTwoPair(five, p, q, a)  BY <1>0, <1>1, <1>3 DEF MakesTwoPair
<1>9. FiveCardValue(five) = Num(TwoPair, p, q, a, 0, 0)  BY <1>5, <1>6, <1>7
<1>10. \E g, h, i \in Rank : MakesTwoPair(five, g, h, i) /\ FiveCardValue(five) = Num(TwoPair, g, h, i, 0, 0)
  <2>1. p \in Rank /\ q \in Rank /\ a \in Rank  BY <1>0 DEF Rank
  <2> QED  BY <1>8, <1>9, <2>1, Zenon
<1> QED  BY <1>8, <1>9, <1>10, Zenon DEF Makes

\* A pair and three others.
LEMMA ValueOfPair ==
  ASSUME NEW five, NEW u, NEW v, NEW w, NEW x, NEW y, AreFive(five, u, v, w, x, y),
         NEW p, NEW a, NEW b, NEW c, p # a, p # b, p # c, a > b, b > c,
         u[1] = p, v[1] = p, w[1] = a, x[1] = b, y[1] = c
  PROVE  /\ FiveCardValue(five) = Num(OnePair, p, a, b, c, 0)
         /\ MakesPair(five, p, a, b, c)
         /\ Makes(five, FiveCardValue(five))
<1>0. p \in 2..14 /\ a \in 2..14 /\ b \in 2..14 /\ c \in 2..14
  BY DEF AreFive, AllCards
<1>1. Ranks(five) = {p, a, b, c} /\ p # a /\ b \notin {p, a} /\ c \notin {p, a, b}
  BY <1>0 DEF AreFive, Ranks
<1>2. Of(five, p) = {u, v} /\ Of(five, a) = {w} /\ Of(five, b) = {x} /\ Of(five, c) = {y}
  BY <1>1 DEF AreFive, Of
<1>3. Count(five, p) = 2 /\ Count(five, a) = 1 /\ Count(five, b) = 1 /\ Count(five, c) = 1
  <2>1. u # v /\ w \notin {u, v} /\ x \notin {u, v, w} /\ y \notin {u, v, w, x}  BY DEF AreFive
  <2>2. Count(five, p) = 2
    <3>1. u # v  BY <2>1
    <3> QED  BY <1>2, <3>1, CountIs2
  <2>3. Count(five, a) = 1  BY <1>2, CountIs1
  <2>4. Count(five, b) = 1  BY <1>2, CountIs1
  <2>5. Count(five, c) = 1  BY <1>2, CountIs1
  <2> QED  BY <2>2, <2>3, <2>4, <2>5
<1> DEFINE shape == <<2, 1, 1, 1>>
           ranks == <<p, a, b, c>>
<1>4. GroupedAs(five, 4, shape, ranks)
  <2>1. 4 \in 1..5 /\ shape \in [1..4 -> 1..4] /\ ranks \in [1..4 -> 2..14]  BY <1>0
  <2>2. Ranks(five) = {ranks[i] : i \in 1..4}  BY <1>1
  <2>3. \A i \in 1..4 : Count(five, ranks[i]) = shape[i]  BY <1>3
  <2>4. \A i, j \in 1..4 : i < j => 16 * shape[i] + ranks[i] > 16 * shape[j] + ranks[j]  BY <1>0
  <2>5. Cardinality(Ranks(five)) = 4  BY <1>1, SizeIs4
  <2> QED  BY <2>1, <2>2, <2>3, <2>4, <2>5 DEF GroupedAs
<1>5. ShapeCategory(shape) = OnePair  BY DEF ShapeCategory
<1> HIDE DEF shape, ranks
<1>6. FiveCardValue(five) = encode(ShapeCategory(shape), ranks)
  <2>1. u[1] = v[1] /\ 4 # 5  OBVIOUS
  <2> QED  BY <1>4, <2>1, ValueByGroups
<1>7. encode(OnePair, ranks) = Num(OnePair, p, a, b, c, 0)
  <2>1. p \in Digits /\ a \in Digits /\ b \in Digits /\ c \in Digits /\ OnePair \in Nat  BY <1>0 DEF Digits, OnePair
  <2> QED  BY <2>1, Encode4 DEF ranks
<1>8. MakesPair(five, p, a, b, c)  BY <1>0, <1>1, <1>3 DEF MakesPair
<1>9. FiveCardValue(five) = Num(OnePair, p, a, b, c, 0)  BY <1>5, <1>6, <1>7
<1>10. \E g, h, i, j \in Rank : MakesPair(five, g, h, i, j) /\ FiveCardValue(five) = Num(OnePair, g, h, i, j, 0)
  <2>1. p \in Rank /\ a \in Rank /\ b \in Rank /\ c \in Rank  BY <1>0 DEF Rank
  <2> QED  BY <1>8, <1>9, <2>1, Zenon
<1> QED  BY <1>8, <1>9, <1>10, Zenon DEF Makes

\* Five cards of five ranks are a straight if these are a run, the ace low in the wheel.
LEMMA StraightIsRun ==
  ASSUME NEW five
  PROVE  IsStraight(five) <=> \E h \in 5..14 : Ranks(five) = Run(h)
<1>1. ASSUME NEW low \in 2..10 PROVE low + 4 \in 5..14 /\ Run(low + 4) = low..(low + 4)
  BY DEF Run
<1>2. ASSUME NEW h \in 6..14 PROVE h - 4 \in 2..10 /\ Run(h) = (h - 4)..((h - 4) + 4)
  BY DEF Run
<1>3. 5 \in 5..14 /\ Run(5) = Wheel  BY DEF Run
<1>4. ASSUME IsStraight(five) PROVE \E h \in 5..14 : Ranks(five) = Run(h)
  <2>1. CASE Ranks(five) = Wheel  BY <1>3, <2>1
  <2>2. CASE \E low \in 2..10 : Ranks(five) = low..(low + 4)  BY <1>1, <2>2
  <2> QED  BY <1>4, <2>1, <2>2 DEF IsStraight
<1>5. ASSUME NEW h \in 5..14, Ranks(five) = Run(h) PROVE IsStraight(five)
  <2>1. CASE h = 5  BY <1>3, <1>5, <2>1 DEF IsStraight
  <2>2. CASE h # 5
    <3>1. h \in 6..14  BY <2>2
    <3>2. h - 4 \in 2..10 /\ Ranks(five) = (h - 4)..((h - 4) + 4)  BY <1>2, <1>5, <3>1
    <3> QED  BY <3>2 DEF IsStraight
  <2> QED  BY <2>1, <2>2
<1> QED  BY <1>4, <1>5

\* Its highest card is that of the run.
LEMMA HighOfRun ==
  ASSUME NEW h \in 5..14
  PROVE  (IF Run(h) = Wheel THEN 5 ELSE Highest(Run(h))) = h
<1>1. CASE h = 5  BY <1>1 DEF Run
<1>2. CASE h # 5
  <2>1. Run(h) = (h - 4)..h  BY <1>2 DEF Run
  <2>2. Run(h) # Wheel
    <3>1. 2 \in Wheel /\ 14 \in Wheel  BY DEF Wheel
    <3> QED  BY <2>1, <3>1
  <2>3. h \in Run(h) /\ \A q \in Run(h) : q <= h /\ q \in Int  BY <2>1
  <2>4. Highest(Run(h)) = h  BY <2>3 DEF Highest
  <2> QED  BY <2>2, <2>4
<1> QED  BY <1>1, <1>2

\* Five cards of five ranks.
LEMMA ValueOfFiveRanks ==
  ASSUME NEW five, NEW u, NEW v, NEW w, NEW x, NEW y, AreFive(five, u, v, w, x, y),
         NEW a, NEW b, NEW c, NEW d, NEW e, a > b, b > c, c > d, d > e,
         u[1] = a, v[1] = b, w[1] = c, x[1] = d, y[1] = e
  PROVE  /\ Ranks(five) = {a, b, c, d, e}
         /\ \A h \in 5..14 : Ranks(five) = Run(h) =>
              FiveCardValue(five) =
                Num(IF IsFlush(five) THEN StraightFlush ELSE Straight, h, 0, 0, 0, 0)
         /\ (\A h \in 5..14 : Ranks(five) # Run(h)) =>
              FiveCardValue(five) = Num(IF IsFlush(five) THEN Flush ELSE HighCard, a, b, c, d, e)
<1>0. a \in 2..14 /\ b \in 2..14 /\ c \in 2..14 /\ d \in 2..14 /\ e \in 2..14
  BY DEF AreFive, AllCards
<1>1. /\ Ranks(five) = {a, b, c, d, e}
      /\ a # b /\ c \notin {a, b} /\ d \notin {a, b, c} /\ e \notin {a, b, c, d}
  BY <1>0 DEF AreFive, Ranks
<1>2. /\ Of(five, a) = {u} /\ Of(five, b) = {v} /\ Of(five, c) = {w}
      /\ Of(five, d) = {x} /\ Of(five, e) = {y}
  BY <1>1 DEF AreFive, Of
<1>3. /\ Count(five, a) = 1 /\ Count(five, b) = 1 /\ Count(five, c) = 1
      /\ Count(five, d) = 1 /\ Count(five, e) = 1
  BY <1>2, CountIs1
<1> DEFINE shape == <<1, 1, 1, 1, 1>>
           ranks == <<a, b, c, d, e>>
<1>4. GroupedAs(five, 5, shape, ranks)
  <2>1. 5 \in 1..5 /\ shape \in [1..5 -> 1..4] /\ ranks \in [1..5 -> 2..14]  BY <1>0
  <2>2. Ranks(five) = {ranks[i] : i \in 1..5}  BY <1>1
  <2>3. \A i \in 1..5 : Count(five, ranks[i]) = shape[i]  BY <1>3
  <2>4. \A i, j \in 1..5 : i < j => 16 * shape[i] + ranks[i] > 16 * shape[j] + ranks[j]  BY <1>0
  <2>5. Cardinality(Ranks(five)) = 5
    BY <1>1, SizeIs5
  <2> QED  BY <2>1, <2>2, <2>3, <2>4, <2>5 DEF GroupedAs
<1> DEFINE rk == [i \in DOMAIN Groups(five) |-> Groups(five)[i] % 16]
           high == IF Ranks(five) = Wheel THEN 5 ELSE Highest(Ranks(five))
<1>5. rk = ranks  BY <1>4, GroupsGive
<1>6. FiveCardValue(five) = encode(CategoryOf(five), IF IsStraight(five) THEN <<high>> ELSE rk)
  BY Zenon DEF FiveCardValue
<1>7. CategoryOf(five) =
        IF IsStraight(five) THEN IF IsFlush(five) THEN StraightFlush ELSE Straight
        ELSE IF IsFlush(five) THEN Flush ELSE HighCard
  BY <1>4, CategoryOfFiveRanks
<1> HIDE DEF rk, shape, high
<1>8. ASSUME NEW h \in 5..14, Ranks(five) = Run(h)
      PROVE  FiveCardValue(five) =
               Num(IF IsFlush(five) THEN StraightFlush ELSE Straight, h, 0, 0, 0, 0)
  <2>1. IsStraight(five)  BY <1>8, StraightIsRun
  <2>2. high = h  BY <1>8, HighOfRun DEF high
  <2> DEFINE k == IF IsFlush(five) THEN StraightFlush ELSE Straight
  <2>3. FiveCardValue(five) = encode(k, <<h>>)  BY <1>6, <1>7, <2>1, <2>2
  <2>4. k \in Nat /\ h \in Digits  BY DEF StraightFlush, Straight, Digits
  <2> HIDE DEF k
  <2>5. encode(k, <<h>>) = Num(k, h, 0, 0, 0, 0)  BY <2>4, Encode1
  <2> QED  BY <2>3, <2>5 DEF k
<1>9. ASSUME \A h \in 5..14 : Ranks(five) # Run(h)
      PROVE  FiveCardValue(five) = Num(IF IsFlush(five) THEN Flush ELSE HighCard, a, b, c, d, e)
  <2>1. ~IsStraight(five)  BY <1>9, StraightIsRun
  <2> DEFINE k == IF IsFlush(five) THEN Flush ELSE HighCard
  <2>2. FiveCardValue(five) = encode(k, ranks)  BY <1>5, <1>6, <1>7, <2>1
  <2>3. /\ k \in Nat
        /\ a \in Digits /\ b \in Digits /\ c \in Digits /\ d \in Digits /\ e \in Digits
    BY <1>0 DEF Flush, HighCard, Digits
  <2> HIDE DEF k
  <2>4. encode(k, ranks) = Num(k, a, b, c, d, e)  BY <2>3, Encode5
  <2> QED  BY <2>2, <2>4 DEF k
<1> QED  BY <1>1, <1>8, <1>9

-----------------------------------------------------------------------------
\* What any five cards are worth they make.

\* Five cards of five ranks.
LEMMA FiveRanksMake ==
  ASSUME NEW five, NEW u, NEW v, NEW w, NEW x, NEW y, AreFive(five, u, v, w, x, y),
         u[1] > v[1], v[1] > w[1], w[1] > x[1], x[1] > y[1]
  PROVE  Makes(five, FiveCardValue(five))
<1> DEFINE a == u[1]  b == v[1]  c == w[1]  d == x[1]  e == y[1]
<1>0. a \in Rank /\ b \in Rank /\ c \in Rank /\ d \in Rank /\ e \in Rank
  BY DEF AreFive, AllCards, Rank
<1>1. u[1] = a /\ v[1] = b /\ w[1] = c /\ x[1] = d /\ y[1] = e /\ a > b /\ b > c /\ c > d /\ d > e
  OBVIOUS
<1> HIDE DEF a, b, c, d, e
<1>2. /\ Ranks(five) = {a, b, c, d, e}
      /\ \A h \in 5..14 : Ranks(five) = Run(h) =>
           FiveCardValue(five) =
             Num(IF IsFlush(five) THEN StraightFlush ELSE Straight, h, 0, 0, 0, 0)
      /\ (\A h \in 5..14 : Ranks(five) # Run(h)) =>
           FiveCardValue(five) = Num(IF IsFlush(five) THEN Flush ELSE HighCard, a, b, c, d, e)
  BY <1>1, ValueOfFiveRanks
<1>3. five \in SUBSET AllCards /\ five # {}  BY DEF AreFive
<1>4. ASSUME IsFlush(five) PROVE \E s \in 1..4 : suitMask(five, s) = Ranks(five)
  <2>1. PICK s \in 1..4 : \A c1 \in five : c1[2] = s  BY <1>3, <1>4, FlushIsOneSuit
  <2>2. suitMask(five, s) = Ranks(five)  BY <2>1 DEF suitMask, Ranks
  <2> QED  BY <2>2
<1>5. CASE \E h \in 5..14 : Ranks(five) = Run(h)
  <2>1. PICK h \in 5..14 : Ranks(five) = Run(h)  BY <1>5
  <2>2. CASE IsFlush(five)
    <3>1. FiveCardValue(five) = Num(StraightFlush, h, 0, 0, 0, 0)  BY <1>2, <2>1, <2>2
    <3>2. MakesStraightFlush(five, h)  BY <1>4, <2>1, <2>2 DEF MakesStraightFlush
    <3> QED  BY <3>1, <3>2, Zenon DEF Makes
  <2>3. CASE ~IsFlush(five)
    <3>1. FiveCardValue(five) = Num(Straight, h, 0, 0, 0, 0)  BY <1>2, <2>1, <2>3
    <3>2. MakesStraight(five, h)  BY <2>1 DEF MakesStraight
    <3> QED  BY <3>1, <3>2, Zenon DEF Makes
  <2> QED  BY <2>2, <2>3
<1>6. CASE ~(\E h \in 5..14 : Ranks(five) = Run(h))
  <2>1. InOrder(Ranks(five), a, b, c, d, e)  BY <1>1, <1>2 DEF InOrder
  <2>2. CASE IsFlush(five)
    <3>1. FiveCardValue(five) = Num(Flush, a, b, c, d, e)  BY <1>2, <1>6, <2>2
    <3>2. MakesFlush(five, a, b, c, d, e)  BY <1>4, <2>1, <2>2 DEF MakesFlush
    <3> QED  BY <1>0, <3>1, <3>2, Zenon DEF Makes
  <2>3. CASE ~IsFlush(five)
    <3>1. FiveCardValue(five) = Num(HighCard, a, b, c, d, e)  BY <1>2, <1>6, <2>3
    <3> QED  BY <1>0, <2>1, <3>1, Zenon DEF Makes
  <2> QED  BY <2>2, <2>3
<1> QED  BY <1>5, <1>6

\* Among cards there is one of the highest rank.
LEMMA HighestCard ==
  ASSUME NEW S \in SUBSET AllCards, IsFiniteSet(S), Cardinality(S) >= 1
  PROVE  \E x \in S : \A y \in S : y[1] <= x[1]
<1>1. Ranks(S) \in SUBSET (2..14) /\ IsFiniteSet(Ranks(S))  BY RanksOfCards
<1>2. Ranks(S) \in SUBSET Int /\ Ranks(S) # {}
  <2>1. S # {}  BY FS_EmptySet
  <2> QED  BY <1>1, <2>1 DEF Ranks
<1>3. PICK r \in Ranks(S) : \A q \in Ranks(S) : q <= r  BY <1>1, <1>2, HasExtremes
<1> QED  BY <1>3 DEF Ranks

\* Five cards can be put in the order of their ranks.
LEMMA FiveSorted ==
  ASSUME NEW five \in SUBSET AllCards, IsFiniteSet(five), Cardinality(five) = 5
  PROVE  \E u, v, w, x, y : /\ AreFive(five, u, v, w, x, y)
                            /\ u[1] >= v[1] /\ v[1] >= w[1] /\ w[1] >= x[1] /\ x[1] >= y[1]
<1>1. PICK u \in five : \A c \in five : c[1] <= u[1]  BY HighestCard
<1> DEFINE A == five \ {u}
<1>2. A \in SUBSET AllCards /\ IsFiniteSet(A) /\ Cardinality(A) = 4  BY FS_RemoveElement
<1>3. PICK v \in A : \A c \in A : c[1] <= v[1]
  <2> HIDE DEF A
  <2> QED  BY <1>2, HighestCard
<1> DEFINE B == A \ {v}
<1>4. B \in SUBSET AllCards /\ IsFiniteSet(B) /\ Cardinality(B) = 3
  <2> HIDE DEF A
  <2> QED  BY <1>2, <1>3, FS_RemoveElement
<1>5. PICK w \in B : \A c \in B : c[1] <= w[1]
  <2> HIDE DEF B
  <2> QED  BY <1>4, HighestCard
<1> DEFINE C == B \ {w}
<1>6. C \in SUBSET AllCards /\ IsFiniteSet(C) /\ Cardinality(C) = 2
  <2> HIDE DEF B
  <2> QED  BY <1>4, <1>5, FS_RemoveElement
<1>7. PICK x \in C : \A c \in C : c[1] <= x[1]
  <2> HIDE DEF C
  <2> QED  BY <1>6, HighestCard
<1> DEFINE D == C \ {x}
<1>8. IsFiniteSet(D) /\ Cardinality(D) = 1
  <2> HIDE DEF C
  <2> QED  BY <1>6, <1>7, FS_RemoveElement
<1>9. PICK y : D = {y}
  <2> HIDE DEF D
  <2> QED  BY <1>8, FS_Singleton
<1>10. five = {u, v, w, x, y}  BY <1>1, <1>3, <1>5, <1>7, <1>9
<1>11. u # v /\ w \notin {u, v} /\ x \notin {u, v, w} /\ y \notin {u, v, w, x}
  BY <1>3, <1>5, <1>7, <1>9
<1>12. AreFive(five, u, v, w, x, y)  BY <1>10, <1>11 DEF AreFive
<1>13. v \in five /\ w \in A /\ x \in B /\ y \in C  BY <1>3, <1>5, <1>7, <1>9
<1>14. /\ u \in AllCards /\ v \in AllCards /\ w \in AllCards /\ x \in AllCards /\ y \in AllCards
       /\ v[1] <= u[1] /\ w[1] <= v[1] /\ x[1] <= w[1] /\ y[1] <= x[1]
  <2> HIDE DEF A, B, C, D
  <2>1. v[1] <= u[1] /\ w[1] <= v[1] /\ x[1] <= w[1] /\ y[1] <= x[1]
    BY <1>1, <1>3, <1>5, <1>7, <1>13
  <2> QED  BY <1>12, <2>1 DEF AreFive
<1>15. u[1] >= v[1] /\ v[1] >= w[1] /\ w[1] >= x[1] /\ x[1] >= y[1]
  BY <1>14 DEF AllCards
<1> QED  BY <1>12, <1>15

\* The same five cards in the orders in which a shape may lie among them.
LEMMA FiveReordered ==
  ASSUME NEW five, NEW u, NEW v, NEW w, NEW x, NEW y, AreFive(five, u, v, w, x, y)
  PROVE  /\ AreFive(five, v, w, x, y, u) /\ AreFive(five, w, x, y, u, v)
         /\ AreFive(five, v, w, x, u, y) /\ AreFive(five, u, v, x, y, w)
         /\ AreFive(five, v, w, u, x, y) /\ AreFive(five, w, x, u, v, y)
         /\ AreFive(five, x, y, u, v, w)
<1>1. AreFive(five, v, w, x, y, u)  BY DEF AreFive
<1>2. AreFive(five, w, x, y, u, v)  BY DEF AreFive
<1>3. AreFive(five, v, w, x, u, y)  BY DEF AreFive
<1>4. AreFive(five, u, v, x, y, w)  BY DEF AreFive
<1>5. AreFive(five, v, w, u, x, y)  BY DEF AreFive
<1>6. AreFive(five, w, x, u, v, y)  BY DEF AreFive
<1>7. AreFive(five, x, y, u, v, w)  BY DEF AreFive
<1> QED  BY <1>1, <1>2, <1>3, <1>4, <1>5, <1>6, <1>7

\* There are no five cards of one rank.
LEMMA NoFiveOfARank ==
  ASSUME NEW five, NEW u, NEW v, NEW w, NEW x, NEW y, AreFive(five, u, v, w, x, y),
         IsFiniteSet(five)
  PROVE  ~(u[1] = v[1] /\ v[1] = w[1] /\ w[1] = x[1] /\ x[1] = y[1])
<1> SUFFICES ASSUME u[1] = v[1], v[1] = w[1], w[1] = x[1], x[1] = y[1] PROVE FALSE  OBVIOUS
<1> DEFINE r == u[1]
<1>1. five \in SUBSET AllCards  BY DEF AreFive
<1>2. IsFiniteSet(Of(five, r)) /\ Count(five, r) \in 0..4  BY <1>1, CountOfRank
<1>3. /\ u \in Of(five, r) /\ v \in Of(five, r) /\ w \in Of(five, r) /\ x \in Of(five, r)
      /\ y \in Of(five, r)
  BY DEF Of, AreFive
<1>4. u # v /\ w \notin {u, v} /\ x \notin {u, v, w} /\ y \notin {u, v, w, x}  BY DEF AreFive
<1> HIDE DEF r
<1>5. Cardinality(Of(five, r)) >= 5  BY <1>2, <1>3, <1>4, HoldsFive
<1> QED  BY <1>2, <1>5 DEF Count

\* Five cards in order make what they are worth.
LEMMA SortedFiveMake ==
  ASSUME NEW five, NEW u, NEW v, NEW w, NEW x, NEW y, AreFive(five, u, v, w, x, y),
         IsFiniteSet(five),
         u[1] >= v[1], v[1] >= w[1], w[1] >= x[1], x[1] >= y[1]
  PROVE  Makes(five, FiveCardValue(five))
<1> DEFINE a == u[1]  b == v[1]  c == w[1]  d == x[1]  e == y[1]
<1>0. a \in 2..14 /\ b \in 2..14 /\ c \in 2..14 /\ d \in 2..14 /\ e \in 2..14
  BY DEF AreFive, AllCards
<1>1. u[1] = a /\ v[1] = b /\ w[1] = c /\ x[1] = d /\ y[1] = e
  OBVIOUS
<1>2. a >= b /\ b >= c /\ c >= d /\ d >= e  OBVIOUS
<1>3. ~(a = b /\ b = c /\ c = d /\ d = e)  BY NoFiveOfARank
<1>4. a > b /\ b > c /\ c > d /\ d > e => Makes(five, FiveCardValue(five))  BY FiveRanksMake
<1> HIDE DEF a, b, c, d, e
<1>5. CASE a = b /\ b = c /\ c = d /\ d > e
  <2>1. u[1] = a /\ v[1] = a /\ w[1] = a /\ x[1] = a /\ y[1] = e /\ a # e  BY <1>0, <1>1, <1>5
  <2> QED  BY <2>1, ValueOfQuads
<1>6. CASE a > b /\ b = c /\ c = d /\ d = e
  <2>1. v[1] = b /\ w[1] = b /\ x[1] = b /\ y[1] = b /\ u[1] = a /\ b # a  BY <1>0, <1>1, <1>6
  <2> QED  BY <2>1, FiveReordered, ValueOfQuads
<1>7. CASE a = b /\ b = c /\ c > d /\ d = e
  <2>1. u[1] = a /\ v[1] = a /\ w[1] = a /\ x[1] = d /\ y[1] = d /\ a # d  BY <1>0, <1>1, <1>7
  <2> QED  BY <2>1, ValueOfFullHouse
<1>8. CASE a = b /\ b > c /\ c = d /\ d = e
  <2>1. w[1] = c /\ x[1] = c /\ y[1] = c /\ u[1] = a /\ v[1] = a /\ c # a  BY <1>0, <1>1, <1>8
  <2> QED  BY <2>1, FiveReordered, ValueOfFullHouse
<1>9. CASE a = b /\ b = c /\ c > d /\ d > e
  <2>1. /\ u[1] = a /\ v[1] = a /\ w[1] = a /\ x[1] = d /\ y[1] = e
        /\ a # d /\ a # e /\ d > e
    BY <1>0, <1>1, <1>9
  <2> QED  BY <2>1, ValueOfTrips
<1>10. CASE a > b /\ b = c /\ c = d /\ d > e
  <2>1. /\ v[1] = b /\ w[1] = b /\ x[1] = b /\ u[1] = a /\ y[1] = e
        /\ b # a /\ b # e /\ a > e
    BY <1>0, <1>1, <1>10
  <2> QED  BY <2>1, FiveReordered, ValueOfTrips
<1>11. CASE a > b /\ b > c /\ c = d /\ d = e
  <2>1. /\ w[1] = c /\ x[1] = c /\ y[1] = c /\ u[1] = a /\ v[1] = b
        /\ c # a /\ c # b /\ a > b
    BY <1>0, <1>1, <1>11
  <2> QED  BY <2>1, FiveReordered, ValueOfTrips
<1>12. CASE a = b /\ b > c /\ c = d /\ d > e
  <2>1. /\ u[1] = a /\ v[1] = a /\ w[1] = c /\ x[1] = c /\ y[1] = e
        /\ a > c /\ e # a /\ e # c
    BY <1>0, <1>1, <1>12
  <2> QED  BY <2>1, ValueOfTwoPair
<1>13. CASE a = b /\ b > c /\ c > d /\ d = e
  <2>1. /\ u[1] = a /\ v[1] = a /\ x[1] = d /\ y[1] = d /\ w[1] = c
        /\ a > d /\ c # a /\ c # d
    BY <1>0, <1>1, <1>13
  <2> QED  BY <2>1, FiveReordered, ValueOfTwoPair
<1>14. CASE a > b /\ b = c /\ c > d /\ d = e
  <2>1. /\ v[1] = b /\ w[1] = b /\ x[1] = d /\ y[1] = d /\ u[1] = a
        /\ b > d /\ a # b /\ a # d
    BY <1>0, <1>1, <1>14
  <2> QED  BY <2>1, FiveReordered, ValueOfTwoPair
<1>15. CASE a = b /\ b > c /\ c > d /\ d > e
  <2>1. /\ u[1] = a /\ v[1] = a /\ w[1] = c /\ x[1] = d /\ y[1] = e
        /\ a # c /\ a # d /\ a # e /\ c > d /\ d > e
    BY <1>0, <1>1, <1>15
  <2> QED  BY <2>1, ValueOfPair
<1>16. CASE a > b /\ b = c /\ c > d /\ d > e
  <2>1. /\ v[1] = b /\ w[1] = b /\ u[1] = a /\ x[1] = d /\ y[1] = e
        /\ b # a /\ b # d /\ b # e /\ a > d /\ d > e
    BY <1>0, <1>1, <1>16
  <2> QED  BY <2>1, FiveReordered, ValueOfPair
<1>17. CASE a > b /\ b > c /\ c = d /\ d > e
  <2>1. /\ w[1] = c /\ x[1] = c /\ u[1] = a /\ v[1] = b /\ y[1] = e
        /\ c # a /\ c # b /\ c # e /\ a > b /\ b > e
    BY <1>0, <1>1, <1>17
  <2> QED  BY <2>1, FiveReordered, ValueOfPair
<1>18. CASE a > b /\ b > c /\ c > d /\ d = e
  <2>1. /\ x[1] = d /\ y[1] = d /\ u[1] = a /\ v[1] = b /\ w[1] = c
        /\ d # a /\ d # b /\ d # c /\ a > b /\ b > c
    BY <1>0, <1>1, <1>18
  <2> QED  BY <2>1, FiveReordered, ValueOfPair
<1>19. CASE a > b /\ b > c /\ c > d /\ d > e  BY <1>4, <1>19
<1>20. (a = b \/ a > b) /\ (b = c \/ b > c) /\ (c = d \/ c > d) /\ (d = e \/ d > e)
  BY <1>0, <1>2
<1> QED
  BY <1>3, <1>5, <1>6, <1>7, <1>8, <1>9, <1>10, <1>11, <1>12, <1>13, <1>14, <1>15, <1>16, <1>17,
     <1>18, <1>19, <1>20

\* Five cards make what they are worth.
LEMMA FiveMake ==
  ASSUME NEW five \in SUBSET AllCards, IsFiniteSet(five), Cardinality(five) = 5
  PROVE  Makes(five, FiveCardValue(five))
<1>1. PICK u, v, w, x, y : /\ AreFive(five, u, v, w, x, y)
                           /\ u[1] >= v[1] /\ v[1] >= w[1] /\ w[1] >= x[1] /\ x[1] >= y[1]
  BY FiveSorted
<1> QED  BY <1>1, SortedFiveMake

\* What some of the cards make, all of them make.
LEMMA MoreCardsMake ==
  ASSUME NEW cards \in SUBSET AllCards, IsFiniteSet(cards), NEW some \in SUBSET cards, NEW v,
         Makes(some, v)
  PROVE  Makes(cards, v)
<1>1. Ranks(some) \subseteq Ranks(cards)  BY DEF Ranks
<1>2. \A s : suitMask(some, s) \subseteq suitMask(cards, s)  BY DEF suitMask
<1>3. ASSUME NEW r
      PROVE  Count(some, r) \in Int /\ Count(cards, r) \in Int /\ Count(some, r) <= Count(cards, r)
  <2>1. Of(some, r) \in SUBSET Of(cards, r)  BY DEF Of
  <2>2. some \in SUBSET AllCards /\ IsFiniteSet(some)  BY FS_Subset
  <2>3. IsFiniteSet(Of(cards, r)) /\ Count(cards, r) \in 0..4 /\ Count(some, r) \in 0..4
    BY <2>2, CountOfRank
  <2> QED  BY <2>1, <2>3, FS_Subset DEF Count
<1>4. \A r, n : n \in {2, 3, 4} /\ Count(some, r) >= n => Count(cards, r) >= n
  BY <1>3
<1>5. \A a, b : MakesQuads(some, a, b) => MakesQuads(cards, a, b)
  BY <1>1, <1>4 DEF MakesQuads
<1>6. \A a, b : MakesFullHouse(some, a, b) => MakesFullHouse(cards, a, b)
  BY <1>4 DEF MakesFullHouse
<1>7. \A a, b, c : MakesTrips(some, a, b, c) => MakesTrips(cards, a, b, c)
  BY <1>1, <1>4 DEF MakesTrips
<1>8. \A a, b, c : MakesTwoPair(some, a, b, c) => MakesTwoPair(cards, a, b, c)
  BY <1>1, <1>4 DEF MakesTwoPair
<1>9. \A a, b, c, d : MakesPair(some, a, b, c, d) => MakesPair(cards, a, b, c, d)
  BY <1>1, <1>4 DEF MakesPair
<1>10. \A S, T, a, b, c, d, e : S \subseteq T /\ InOrder(S, a, b, c, d, e) => InOrder(T, a, b, c, d, e)
  BY DEF InOrder
<1>11. \A a, b, c, d, e : MakesFlush(some, a, b, c, d, e) => MakesFlush(cards, a, b, c, d, e)
  BY <1>2, <1>10, Zenon DEF MakesFlush
<1>12. \A a, b, c, d, e : InOrder(Ranks(some), a, b, c, d, e) => InOrder(Ranks(cards), a, b, c, d, e)
  BY <1>1, <1>10
<1>13. \A a : MakesStraight(some, a) => MakesStraight(cards, a)
  BY <1>1 DEF MakesStraight
<1>14. \A a : MakesStraightFlush(some, a) => MakesStraightFlush(cards, a)
  BY <1>2 DEF MakesStraightFlush
<1> QED
  BY <1>5, <1>6, <1>7, <1>8, <1>9, <1>11, <1>12, <1>13, <1>14, Zenon DEF Makes

-----------------------------------------------------------------------------
\* What cards make, five of them are worth.

\* Five different cards of a hand are one of its fives.
LEMMA FiveOfCards ==
  ASSUME NEW cards, NEW five, NEW u, NEW v, NEW w, NEW x, NEW y, AreFive(five, u, v, w, x, y),
         five \subseteq cards
  PROVE  five \in FivesOf(cards)
<1>1. Cardinality(five) = 5  BY SizeIs5 DEF AreFive
<1> QED  BY <1>1 DEF FivesOf

\* Some five cards are worth four of a kind and a card beside it.
LEMMA QuadsAreWorth ==
  ASSUME NEW cards \in SUBSET AllCards, IsFiniteSet(cards), NEW a, NEW b, MakesQuads(cards, a, b)
  PROVE  \E five \in FivesOf(cards) : FiveCardValue(five) = Num(Quads, a, b, 0, 0, 0)
<1>1. IsFiniteSet(Of(cards, a)) /\ Cardinality(Of(cards, a)) >= 4
  BY CountOfRank DEF MakesQuads, Count
<1>2. PICK u, v, w, x \in Of(cards, a) : u # v /\ w \notin {u, v} /\ x \notin {u, v, w}
  BY <1>1, FourOf
<1>3. PICK y \in cards : y[1] = b /\ b # a  BY DEF MakesQuads, Ranks
<1> DEFINE five == {u, v, w, x, y}
<1>4. /\ u \in cards /\ v \in cards /\ w \in cards /\ x \in cards
      /\ u[1] = a /\ v[1] = a /\ w[1] = a /\ x[1] = a
  BY <1>2 DEF Of
<1>5. AreFive(five, u, v, w, x, y) /\ five \subseteq cards  BY <1>2, <1>3, <1>4 DEF AreFive
<1> HIDE DEF five
<1> QED  BY <1>3, <1>4, <1>5, FiveOfCards, ValueOfQuads

\* Some five cards are worth a full house of the two ranks.
LEMMA FullHouseIsWorth ==
  ASSUME NEW cards \in SUBSET AllCards, IsFiniteSet(cards), NEW a, NEW b, MakesFullHouse(cards, a, b)
  PROVE  \E five \in FivesOf(cards) : FiveCardValue(five) = Num(FullHouse, a, b, 0, 0, 0)
<1>1. /\ IsFiniteSet(Of(cards, a)) /\ Cardinality(Of(cards, a)) >= 3
      /\ IsFiniteSet(Of(cards, b)) /\ Cardinality(Of(cards, b)) >= 2 /\ a # b
  BY CountOfRank DEF MakesFullHouse, Count
<1>2. PICK u, v, w \in Of(cards, a) : u # v /\ w \notin {u, v}  BY <1>1, ThreeOf
<1>3. PICK x, y \in Of(cards, b) : x # y  BY <1>1, TwoOf
<1> DEFINE five == {u, v, w, x, y}
<1>4. /\ u \in cards /\ v \in cards /\ w \in cards /\ x \in cards /\ y \in cards
      /\ u[1] = a /\ v[1] = a /\ w[1] = a /\ x[1] = b /\ y[1] = b
  BY <1>2, <1>3 DEF Of
<1>5. AreFive(five, u, v, w, x, y) /\ five \subseteq cards  BY <1>1, <1>2, <1>3, <1>4 DEF AreFive
<1> HIDE DEF five
<1> QED  BY <1>1, <1>4, <1>5, FiveOfCards, ValueOfFullHouse

\* Some five cards are worth three of a kind and two cards beside it.
LEMMA TripsAreWorth ==
  ASSUME NEW cards \in SUBSET AllCards, IsFiniteSet(cards), NEW a, NEW b, NEW c,
         MakesTrips(cards, a, b, c)
  PROVE  \E five \in FivesOf(cards) : FiveCardValue(five) = Num(Trips, a, b, c, 0, 0)
<1>1. IsFiniteSet(Of(cards, a)) /\ Cardinality(Of(cards, a)) >= 3
  BY CountOfRank DEF MakesTrips, Count
<1>2. PICK u, v, w \in Of(cards, a) : u # v /\ w \notin {u, v}  BY <1>1, ThreeOf
<1>3. PICK x, y \in cards : x[1] = b /\ y[1] = c  BY DEF MakesTrips, Ranks
<1> DEFINE five == {u, v, w, x, y}
<1>4. /\ u \in cards /\ v \in cards /\ w \in cards
      /\ u[1] = a /\ v[1] = a /\ w[1] = a /\ a # b /\ a # c /\ b > c
  BY <1>2 DEF Of, MakesTrips
<1>5. b # c  BY <1>3, <1>4 DEF AllCards
<1>6. AreFive(five, u, v, w, x, y) /\ five \subseteq cards  BY <1>2, <1>3, <1>4, <1>5 DEF AreFive
<1> HIDE DEF five
<1> QED  BY <1>3, <1>4, <1>6, FiveOfCards, ValueOfTrips

\* Some five cards are worth two pairs and a card beside them.
LEMMA TwoPairIsWorth ==
  ASSUME NEW cards \in SUBSET AllCards, IsFiniteSet(cards), NEW a, NEW b, NEW c,
         MakesTwoPair(cards, a, b, c)
  PROVE  \E five \in FivesOf(cards) : FiveCardValue(five) = Num(TwoPair, a, b, c, 0, 0)
<1>1. /\ IsFiniteSet(Of(cards, a)) /\ Cardinality(Of(cards, a)) >= 2
      /\ IsFiniteSet(Of(cards, b)) /\ Cardinality(Of(cards, b)) >= 2 /\ a > b
  BY CountOfRank DEF MakesTwoPair, Count
<1>2. PICK u, v \in Of(cards, a) : u # v  BY <1>1, TwoOf
<1>3. PICK w, x \in Of(cards, b) : w # x  BY <1>1, TwoOf
<1>4. PICK y \in cards : y[1] = c /\ c # a /\ c # b  BY DEF MakesTwoPair, Ranks
<1> DEFINE five == {u, v, w, x, y}
<1>5. /\ u \in cards /\ v \in cards /\ w \in cards /\ x \in cards
      /\ u[1] = a /\ v[1] = a /\ w[1] = b /\ x[1] = b
  BY <1>2, <1>3 DEF Of
<1>6. a # b  BY <1>1, <1>5 DEF AllCards
<1>7. AreFive(five, u, v, w, x, y) /\ five \subseteq cards
  BY <1>2, <1>3, <1>4, <1>5, <1>6 DEF AreFive
<1> HIDE DEF five
<1> QED  BY <1>1, <1>4, <1>5, <1>7, FiveOfCards, ValueOfTwoPair

\* Some five cards are worth a pair and three cards beside it.
LEMMA PairIsWorth ==
  ASSUME NEW cards \in SUBSET AllCards, IsFiniteSet(cards), NEW a, NEW b, NEW c, NEW d,
         MakesPair(cards, a, b, c, d)
  PROVE  \E five \in FivesOf(cards) : FiveCardValue(five) = Num(OnePair, a, b, c, d, 0)
<1>1. IsFiniteSet(Of(cards, a)) /\ Cardinality(Of(cards, a)) >= 2
  BY CountOfRank DEF MakesPair, Count
<1>2. PICK u, v \in Of(cards, a) : u # v  BY <1>1, TwoOf
<1>3. PICK w, x, y \in cards : w[1] = b /\ x[1] = c /\ y[1] = d  BY DEF MakesPair, Ranks
<1> DEFINE five == {u, v, w, x, y}
<1>4. /\ u \in cards /\ v \in cards /\ u[1] = a /\ v[1] = a
      /\ a # b /\ a # c /\ a # d /\ b > c /\ c > d
  BY <1>2 DEF Of, MakesPair
<1>5. b # c /\ c # d /\ b # d  BY <1>3, <1>4 DEF AllCards
<1>6. AreFive(five, u, v, w, x, y) /\ five \subseteq cards  BY <1>2, <1>3, <1>4, <1>5 DEF AreFive
<1> HIDE DEF five
<1> QED  BY <1>3, <1>4, <1>6, FiveOfCards, ValueOfPair

\* Cards of five ranks among some cards.
LEMMA FiveOfRanks ==
  ASSUME NEW some \in SUBSET AllCards, NEW a, NEW b, NEW c, NEW d, NEW e,
         InOrder(Ranks(some), a, b, c, d, e)
  PROVE  \E five \in SUBSET some, u, v, w, x, y \in some :
           /\ AreFive(five, u, v, w, x, y)
           /\ u[1] = a /\ v[1] = b /\ w[1] = c /\ x[1] = d /\ y[1] = e
<1>1. PICK u, v, w, x, y \in some : u[1] = a /\ v[1] = b /\ w[1] = c /\ x[1] = d /\ y[1] = e
  BY DEF InOrder, Ranks
<1>2. /\ a \in 2..14 /\ b \in 2..14 /\ c \in 2..14 /\ d \in 2..14 /\ e \in 2..14
      /\ a > b /\ b > c /\ c > d /\ d > e
  BY <1>1 DEF InOrder, AllCards
<1>3. a # b /\ c \notin {a, b} /\ d \notin {a, b, c} /\ e \notin {a, b, c, d}  BY <1>2
<1>4. u # v /\ w \notin {u, v} /\ x \notin {u, v, w} /\ y \notin {u, v, w, x}  BY <1>1, <1>3
<1> DEFINE five == {u, v, w, x, y}
<1>5. five \in SUBSET some /\ AreFive(five, u, v, w, x, y)  BY <1>4 DEF AreFive
<1> HIDE DEF five
<1> QED  BY <1>1, <1>5

\* Five cards in a run, and of one suit.
LEMMA RunInOrder ==
  ASSUME NEW h \in 5..14
  PROVE  \E a, b, c, d, e : Run(h) = {a, b, c, d, e} /\ a > b /\ b > c /\ c > d /\ d > e
<1>1. Run(h) = {h, h - 1, h - 2, h - 3, IF h = 5 THEN 14 ELSE h - 4}  BY RunRanks
<1>2. CASE h = 5
  <2>1. Run(h) = {14, 5, 4, 3, 2}  BY <1>1, <1>2
  <2>2. 14 > 5 /\ 5 > 4 /\ 4 > 3 /\ 3 > 2  OBVIOUS
  <2> QED  BY <2>1, <2>2
<1>3. CASE h # 5
  <2>1. Run(h) = {h, h - 1, h - 2, h - 3, h - 4}  BY <1>1, <1>3
  <2>2. h > h - 1 /\ h - 1 > h - 2 /\ h - 2 > h - 3 /\ h - 3 > h - 4  OBVIOUS
  <2> QED  BY <2>1, <2>2
<1> QED  BY <1>2, <1>3

\* Some five of the cards that a run is among are worth a straight to its top, or a straight flush.
LEMMA RunIsWorth ==
  ASSUME NEW cards \in SUBSET AllCards, NEW some \in SUBSET cards, NEW h \in 5..14,
         Run(h) \subseteq Ranks(some)
  PROVE  \E five \in FivesOf(cards) :
           /\ five \subseteq some
           /\ FiveCardValue(five) =
                Num(IF IsFlush(five) THEN StraightFlush ELSE Straight, h, 0, 0, 0, 0)
<1>1. PICK a, b, c, d, e : Run(h) = {a, b, c, d, e} /\ a > b /\ b > c /\ c > d /\ d > e
  BY RunInOrder
<1>2. InOrder(Ranks(some), a, b, c, d, e)  BY <1>1 DEF InOrder
<1>3. some \in SUBSET AllCards  OBVIOUS
<1>4. PICK five \in SUBSET some, u, v, w, x, y \in some :
        /\ AreFive(five, u, v, w, x, y)
        /\ u[1] = a /\ v[1] = b /\ w[1] = c /\ x[1] = d /\ y[1] = e
  BY <1>2, <1>3, FiveOfRanks
<1>5. AreFive(five, u, v, w, x, y) /\ five \subseteq some /\ five \subseteq cards  BY <1>4
<1>6. five \in FivesOf(cards)  BY <1>5, FiveOfCards
<1>7. /\ Ranks(five) = {a, b, c, d, e}
      /\ \A i \in 5..14 : Ranks(five) = Run(i) =>
           FiveCardValue(five) =
             Num(IF IsFlush(five) THEN StraightFlush ELSE Straight, i, 0, 0, 0, 0)
  BY <1>1, <1>4, <1>5, ValueOfFiveRanks
<1> QED  BY <1>1, <1>5, <1>6, <1>7

\* Some five cards of five descending ranks are worth those ranks, or a straight.
LEMMA RanksAreWorth ==
  ASSUME NEW cards \in SUBSET AllCards, NEW some \in SUBSET cards,
         NEW a, NEW b, NEW c, NEW d, NEW e, InOrder(Ranks(some), a, b, c, d, e)
  PROVE  \E five \in FivesOf(cards) :
           /\ five \subseteq some
           /\ \/ \E h \in 5..14 : FiveCardValue(five) =
                   Num(IF IsFlush(five) THEN StraightFlush ELSE Straight, h, 0, 0, 0, 0)
              \/ FiveCardValue(five) = Num(IF IsFlush(five) THEN Flush ELSE HighCard, a, b, c, d, e)
<1>1. a > b /\ b > c /\ c > d /\ d > e  BY DEF InOrder
<1>3. some \in SUBSET AllCards  OBVIOUS
<1>4. PICK five \in SUBSET some, u, v, w, x, y \in some :
        /\ AreFive(five, u, v, w, x, y)
        /\ u[1] = a /\ v[1] = b /\ w[1] = c /\ x[1] = d /\ y[1] = e
  BY <1>3, FiveOfRanks
<1>5. AreFive(five, u, v, w, x, y) /\ five \subseteq some /\ five \subseteq cards  BY <1>4
<1>6. five \in FivesOf(cards)  BY <1>5, FiveOfCards
<1>7. /\ \A i \in 5..14 : Ranks(five) = Run(i) =>
           FiveCardValue(five) =
             Num(IF IsFlush(five) THEN StraightFlush ELSE Straight, i, 0, 0, 0, 0)
      /\ (\A h \in 5..14 : Ranks(five) # Run(h)) =>
           FiveCardValue(five) = Num(IF IsFlush(five) THEN Flush ELSE HighCard, a, b, c, d, e)
  BY <1>1, <1>4, <1>5, ValueOfFiveRanks
<1> QED  BY <1>5, <1>6, <1>7

\* Fives of a suit are flushes.
LEMMA SuitIsFlush ==
  ASSUME NEW cards \in SUBSET AllCards, NEW s \in 1..4, NEW five \in FivesOf(cards),
         five \subseteq OfSuit(cards, s)
  PROVE  IsFlush(five)
<1>1. five \in SUBSET AllCards /\ \A c \in five : c[2] = s  BY DEF FivesOf, OfSuit
<1>2. five # {}
  <2>1. Cardinality({}) = 0 /\ Cardinality(five) = 5  BY FS_EmptySet DEF FivesOf
  <2> QED  BY <2>1
<1> QED  BY <1>1, <1>2, FlushIsOneSuit

\* Zero fills the places of the ranks that do not count.
LEMMA RanksAreDigits == \A r : r \in Rank \/ r \in 5..14 \/ r = 0 => r \in Digits
BY DEF Rank, Digits

\* Whatever cards make, some five of them are worth at least as much.
LEMMA WorthAsMuch ==
  ASSUME NEW cards \in SUBSET AllCards, IsFiniteSet(cards), NEW v, Makes(cards, v)
  PROVE  v \in Nat /\ \E five \in FivesOf(cards) : FiveCardValue(five) \in Nat /\ v <= FiveCardValue(five)
<1> DEFINE Goal == v \in Nat /\ \E five \in FivesOf(cards) :
                                  FiveCardValue(five) \in Nat /\ v <= FiveCardValue(five)
<1>0. ASSUME v \in Nat, NEW five \in FivesOf(cards), FiveCardValue(five) = v
      PROVE  Goal
  BY <1>0
<1>k. /\ StraightFlush = 8 /\ Quads = 7 /\ FullHouse = 6 /\ Flush = 5 /\ Straight = 4
      /\ Trips = 3 /\ TwoPair = 2 /\ OnePair = 1 /\ HighCard = 0
  BY DEF StraightFlush, Quads, FullHouse, Flush, Straight, Trips, TwoPair, OnePair, HighCard
<1>n. ASSUME NEW k \in 0..8, NEW a \in Digits, NEW b \in Digits, NEW c \in Digits,
             NEW d \in Digits, NEW e \in Digits
      PROVE  Num(k, a, b, c, d, e) \in Nat
  <2>1. Num(k, a, b, c, d, e) \in Scores  BY <1>n, ScoreIsScore
  <2> QED  BY <2>1, ScoresAreFinite
<1>c. ASSUME NEW h \in 5..14, NEW a \in Rank, NEW b \in Rank, NEW c \in Rank,
             NEW d \in Rank, NEW e \in Rank
      PROVE  /\ Num(HighCard, a, b, c, d, e) < Num(Straight, h, 0, 0, 0, 0)
             /\ Num(Flush, a, b, c, d, e) < Num(StraightFlush, h, 0, 0, 0, 0)
             /\ Num(HighCard, a, b, c, d, e) < Num(StraightFlush, h, 0, 0, 0, 0)
             /\ Num(HighCard, a, b, c, d, e) < Num(Flush, a, b, c, d, e)
             /\ Num(Straight, h, 0, 0, 0, 0) < Num(StraightFlush, h, 0, 0, 0, 0)
  <2>1. /\ a \in Digits /\ b \in Digits /\ c \in Digits /\ d \in Digits /\ e \in Digits
        /\ h \in Digits /\ 0 \in Digits
    BY RanksAreDigits
  <2>2. HighCard < Straight /\ Flush < StraightFlush /\ HighCard < StraightFlush
        /\ HighCard < Flush /\ Straight < StraightFlush
        /\ HighCard \in 0..8 /\ Straight \in 0..8 /\ Flush \in 0..8 /\ StraightFlush \in 0..8
    BY <1>k
  <2> QED  BY <2>1, <2>2, ScoreByCategory
<1>d. 0 \in Digits  BY DEF Digits
<1>r. ASSUME NEW h \in 5..14
      PROVE  Num(StraightFlush, h, 0, 0, 0, 0) \in Nat /\ Num(Straight, h, 0, 0, 0, 0) \in Nat
  <2>1. h \in Digits  BY DEF Digits
  <2>2. StraightFlush \in 0..8 /\ Straight \in 0..8  BY <1>k
  <2> QED  BY <1>n, <1>d, <2>1, <2>2
<1> HIDE DEF Goal
<1>1. ASSUME NEW h \in 5..14, MakesStraightFlush(cards, h), v = Num(StraightFlush, h, 0, 0, 0, 0)
      PROVE  Goal
  <2>1. PICK s \in 1..4 : Run(h) \subseteq suitMask(cards, s)  BY <1>1 DEF MakesStraightFlush
  <2>2. OfSuit(cards, s) \in SUBSET cards /\ suitMask(cards, s) = Ranks(OfSuit(cards, s))
    BY DEF OfSuit, suitMask, Ranks
  <2>3. PICK five \in FivesOf(cards) :
          /\ five \subseteq OfSuit(cards, s)
          /\ FiveCardValue(five) =
               Num(IF IsFlush(five) THEN StraightFlush ELSE Straight, h, 0, 0, 0, 0)
    BY <2>1, <2>2, RunIsWorth
  <2>4. FiveCardValue(five) = v  BY <1>1, <2>3, SuitIsFlush
  <2>5. v \in Nat  BY <1>1, <1>r
  <2> QED  BY <1>0, <2>4, <2>5
<1>2. ASSUME NEW a \in Rank, NEW b \in Rank, MakesQuads(cards, a, b), v = Num(Quads, a, b, 0, 0, 0)
      PROVE  Goal
  <2>1. v \in Nat  BY <1>2, <1>k, <1>n, <1>d, RanksAreDigits
  <2> QED  BY <1>0, <1>2, <2>1, QuadsAreWorth
<1>3. ASSUME NEW a \in Rank, NEW b \in Rank, MakesFullHouse(cards, a, b),
             v = Num(FullHouse, a, b, 0, 0, 0)
      PROVE  Goal
  <2>1. v \in Nat  BY <1>3, <1>k, <1>n, <1>d, RanksAreDigits
  <2> QED  BY <1>0, <1>3, <2>1, FullHouseIsWorth
<1>4. ASSUME NEW a \in Rank, NEW b \in Rank, NEW c \in Rank, NEW d \in Rank, NEW e \in Rank,
             MakesFlush(cards, a, b, c, d, e), v = Num(Flush, a, b, c, d, e)
      PROVE  Goal
  <2>1. PICK s \in 1..4 : InOrder(suitMask(cards, s), a, b, c, d, e)  BY <1>4 DEF MakesFlush
  <2>2. OfSuit(cards, s) \in SUBSET cards /\ suitMask(cards, s) = Ranks(OfSuit(cards, s))
    BY DEF OfSuit, suitMask, Ranks
  <2>3. PICK five \in FivesOf(cards) :
          /\ five \subseteq OfSuit(cards, s)
          /\ \/ \E h \in 5..14 : FiveCardValue(five) =
                  Num(IF IsFlush(five) THEN StraightFlush ELSE Straight, h, 0, 0, 0, 0)
             \/ FiveCardValue(five) = Num(IF IsFlush(five) THEN Flush ELSE HighCard, a, b, c, d, e)
    BY <2>1, <2>2, RanksAreWorth
  <2>4. IsFlush(five)  BY <2>3, SuitIsFlush
  <2>5. v \in Nat  BY <1>4, <1>k, <1>n, RanksAreDigits
  <2>6. CASE FiveCardValue(five) = v  BY <1>0, <2>5, <2>6
  <2>7. CASE FiveCardValue(five) # v
    <3>1. PICK h \in 5..14 : FiveCardValue(five) = Num(StraightFlush, h, 0, 0, 0, 0)
      BY <1>4, <2>3, <2>4, <2>7
    <3>2. v < FiveCardValue(five)  BY <1>4, <1>c, <3>1
    <3>3. FiveCardValue(five) \in Nat  BY <3>1, <1>r
    <3>4. v <= FiveCardValue(five)  BY <2>5, <3>2, <3>3
    <3> QED  BY <2>5, <3>3, <3>4 DEF Goal
  <2> QED  BY <2>6, <2>7
<1>5. ASSUME NEW h \in 5..14, MakesStraight(cards, h), v = Num(Straight, h, 0, 0, 0, 0)
      PROVE  Goal
  <2>1. PICK five \in FivesOf(cards) :
          FiveCardValue(five) =
            Num(IF IsFlush(five) THEN StraightFlush ELSE Straight, h, 0, 0, 0, 0)
    BY <1>5, RunIsWorth DEF MakesStraight
  <2>2. v \in Nat /\ Num(StraightFlush, h, 0, 0, 0, 0) \in Nat
    BY <1>5, <1>r
  <2>3. v < Num(StraightFlush, h, 0, 0, 0, 0)
    <3>1. 2 \in Rank  BY DEF Rank
    <3> QED  BY <1>5, <1>c, <3>1
  <2>4. FiveCardValue(five) \in Nat /\ v <= FiveCardValue(five)  BY <1>5, <2>1, <2>2, <2>3
  <2> QED  BY <2>2, <2>4 DEF Goal
<1>6. ASSUME NEW a \in Rank, NEW b \in Rank, NEW c \in Rank, MakesTrips(cards, a, b, c),
             v = Num(Trips, a, b, c, 0, 0)
      PROVE  Goal
  <2>1. v \in Nat  BY <1>6, <1>k, <1>n, <1>d, RanksAreDigits
  <2> QED  BY <1>0, <1>6, <2>1, TripsAreWorth
<1>7. ASSUME NEW a \in Rank, NEW b \in Rank, NEW c \in Rank, MakesTwoPair(cards, a, b, c),
             v = Num(TwoPair, a, b, c, 0, 0)
      PROVE  Goal
  <2>1. v \in Nat  BY <1>7, <1>k, <1>n, <1>d, RanksAreDigits
  <2> QED  BY <1>0, <1>7, <2>1, TwoPairIsWorth
<1>8. ASSUME NEW a \in Rank, NEW b \in Rank, NEW c \in Rank, NEW d \in Rank,
             MakesPair(cards, a, b, c, d), v = Num(OnePair, a, b, c, d, 0)
      PROVE  Goal
  <2>1. v \in Nat  BY <1>8, <1>k, <1>n, <1>d, RanksAreDigits
  <2> QED  BY <1>0, <1>8, <2>1, PairIsWorth
<1>9. ASSUME NEW a \in Rank, NEW b \in Rank, NEW c \in Rank, NEW d \in Rank, NEW e \in Rank,
             InOrder(Ranks(cards), a, b, c, d, e), v = Num(HighCard, a, b, c, d, e)
      PROVE  Goal
  <2>1. PICK five \in FivesOf(cards) :
          \/ \E h \in 5..14 : FiveCardValue(five) =
               Num(IF IsFlush(five) THEN StraightFlush ELSE Straight, h, 0, 0, 0, 0)
          \/ FiveCardValue(five) = Num(IF IsFlush(five) THEN Flush ELSE HighCard, a, b, c, d, e)
    BY <1>9, RanksAreWorth
  <2>2. v \in Nat /\ Num(Flush, a, b, c, d, e) \in Nat
    BY <1>9, <1>k, <1>n, RanksAreDigits
  <2>3. CASE FiveCardValue(five) = v  BY <1>0, <2>2, <2>3
  <2>4. CASE FiveCardValue(five) = Num(Flush, a, b, c, d, e)
    <3>1. FiveCardValue(five) \in Nat /\ v < FiveCardValue(five)
      <4>1. 5 \in 5..14  OBVIOUS
      <4> QED  BY <1>9, <1>c, <2>2, <2>4, <4>1
    <3>2. v <= FiveCardValue(five)  BY <2>2, <3>1
    <3> QED  BY <2>2, <3>1, <3>2 DEF Goal
  <2>5. CASE \E h \in 5..14 : FiveCardValue(five) =
               Num(IF IsFlush(five) THEN StraightFlush ELSE Straight, h, 0, 0, 0, 0)
    <3>1. PICK h \in 5..14 : FiveCardValue(five) =
                Num(IF IsFlush(five) THEN StraightFlush ELSE Straight, h, 0, 0, 0, 0)
      BY <2>5
    <3>2. Num(StraightFlush, h, 0, 0, 0, 0) \in Nat /\ Num(Straight, h, 0, 0, 0, 0) \in Nat
      BY <1>r
    <3>3. v < Num(StraightFlush, h, 0, 0, 0, 0) /\ v < Num(Straight, h, 0, 0, 0, 0)
      BY <1>9, <1>c
    <3>4. FiveCardValue(five) \in Nat /\ v < FiveCardValue(five)  BY <3>1, <3>2, <3>3
    <3>5. v <= FiveCardValue(five)  BY <2>2, <3>4
    <3> QED  BY <2>2, <3>4, <3>5 DEF Goal
  <2> QED  BY <1>9, <2>1, <2>3, <2>4, <2>5
<1>10. Goal
  BY <1>1, <1>2, <1>3, <1>4, <1>5, <1>6, <1>7, <1>8, <1>9, Zenon DEF Makes
<1> QED  BY <1>10 DEF Goal

-----------------------------------------------------------------------------
\* The best that cards make.

\* One thing that they make: its category and the ranks that decide within it.
IsMade(cards, k, a, b, c, d, e) ==
  \/ k = StraightFlush /\ a \in 5..14 /\ MakesStraightFlush(cards, a) /\ <<b, c, d, e>> = <<0, 0, 0, 0>>
  \/ k = Quads /\ {a, b} \subseteq Rank /\ MakesQuads(cards, a, b) /\ <<c, d, e>> = <<0, 0, 0>>
  \/ k = FullHouse /\ {a, b} \subseteq Rank /\ MakesFullHouse(cards, a, b) /\ <<c, d, e>> = <<0, 0, 0>>
  \/ k = Flush /\ {a, b, c, d, e} \subseteq Rank /\ MakesFlush(cards, a, b, c, d, e)
  \/ k = Straight /\ a \in 5..14 /\ MakesStraight(cards, a) /\ <<b, c, d, e>> = <<0, 0, 0, 0>>
  \/ k = Trips /\ {a, b, c} \subseteq Rank /\ MakesTrips(cards, a, b, c) /\ <<d, e>> = <<0, 0>>
  \/ k = TwoPair /\ {a, b, c} \subseteq Rank /\ MakesTwoPair(cards, a, b, c) /\ <<d, e>> = <<0, 0>>
  \/ k = OnePair /\ {a, b, c, d} \subseteq Rank /\ MakesPair(cards, a, b, c, d) /\ e = 0
  \/ k = HighCard /\ {a, b, c, d, e} \subseteq Rank /\ InOrder(Ranks(cards), a, b, c, d, e)

\* The categories in the order of evaluator.go 8-16.
LEMMA CategoryNumbers ==
  /\ StraightFlush = 8 /\ Quads = 7 /\ FullHouse = 6 /\ Flush = 5 /\ Straight = 4
  /\ Trips = 3 /\ TwoPair = 2 /\ OnePair = 1 /\ HighCard = 0
BY DEF StraightFlush, Quads, FullHouse, Flush, Straight, Trips, TwoPair, OnePair, HighCard

\* Its category and ranks are in their ranges.
LEMMA MadeOfDigits ==
  ASSUME NEW cards, NEW k, NEW a, NEW b, NEW c, NEW d, NEW e, IsMade(cards, k, a, b, c, d, e)
  PROVE  /\ k \in 0..8
         /\ a \in Digits /\ b \in Digits /\ c \in Digits /\ d \in Digits /\ e \in Digits
<1>1. k \in 0..8  BY CategoryNumbers DEF IsMade
<1>2. \A r : r \in Rank \/ r \in 5..14 \/ r = 0 => r \in Digits  BY RanksAreDigits
<1> QED  BY <1>1, <1>2, Zenon DEF IsMade

\* The scores that Makes lists are those of the things made.
LEMMA MakesIsMade ==
  ASSUME NEW cards, NEW v
  PROVE  Makes(cards, v) <=>
           \E k, a, b, c, d, e : IsMade(cards, k, a, b, c, d, e) /\ v = Num(k, a, b, c, d, e)
<1>1. ASSUME Makes(cards, v)
      PROVE  \E k, a, b, c, d, e : IsMade(cards, k, a, b, c, d, e) /\ v = Num(k, a, b, c, d, e)
  BY <1>1, Zenon DEF Makes, IsMade
<1>2. ASSUME NEW k, NEW a, NEW b, NEW c, NEW d, NEW e, IsMade(cards, k, a, b, c, d, e)
      PROVE  Makes(cards, Num(k, a, b, c, d, e))
  BY <1>2, Zenon DEF Makes, IsMade
<1> QED  BY <1>1, <1>2

\* A score made that no other exceeds.
IsBest(cards, v) == Makes(cards, v) /\ \A w : Makes(cards, w) => w <= v

\* Five cards can be taken from five or more.
LEMMA SomeFive ==
  ASSUME NEW cards \in SUBSET AllCards, IsFiniteSet(cards), Cardinality(cards) >= 5
  PROVE  FivesOf(cards) # {}
<1>0. Cardinality(cards) \in Nat  BY FS_CardinalityType
<1>1. PICK u \in cards : IsFiniteSet(cards \ {u}) /\ Cardinality(cards \ {u}) = Cardinality(cards) - 1
  BY <1>0, OneOf
<1>2. PICK v, w, x, y \in cards \ {u} : v # w /\ x \notin {v, w} /\ y \notin {v, w, x}
  BY <1>0, <1>1, FourOf
<1> DEFINE five == {u, v, w, x, y}
<1>3. AreFive(five, u, v, w, x, y) /\ five \subseteq cards  BY <1>1, <1>2 DEF AreFive
<1> HIDE DEF five
<1> QED  BY <1>3, FiveOfCards

\* The best five cards are worth the best that the cards make: the rule of the game,
\* which chooses among fives, in terms of what Evaluate counts.
LEMMA BestIsMade ==
  ASSUME NEW cards \in SUBSET AllCards, IsFiniteSet(cards), Cardinality(cards) >= 5
  PROVE  BestFive(cards) \in Nat /\ IsBest(cards, BestFive(cards))
<1> DEFINE V == {FiveCardValue(five) : five \in FivesOf(cards)}
<1>1. ASSUME NEW five \in FivesOf(cards) PROVE Makes(cards, FiveCardValue(five))
  <2>1. five \in SUBSET cards /\ five \in SUBSET AllCards /\ Cardinality(five) = 5
    BY DEF FivesOf
  <2>2. IsFiniteSet(five)  BY <2>1, FS_Subset
  <2>3. Makes(five, FiveCardValue(five))  BY <2>1, <2>2, FiveMake
  <2> QED  BY <2>1, <2>3, MoreCardsMake
<1>2. ASSUME NEW v, Makes(cards, v) PROVE v \in Scores
  <2>1. PICK k, a, b, c, d, e : IsMade(cards, k, a, b, c, d, e) /\ v = Num(k, a, b, c, d, e)
    BY <1>2, MakesIsMade
  <2>2. /\ k \in 0..8
        /\ a \in Digits /\ b \in Digits /\ c \in Digits /\ d \in Digits /\ e \in Digits
    BY <2>1, MadeOfDigits
  <2> QED  BY <2>1, <2>2, ScoreIsScore
<1>3. V \in SUBSET Int /\ V # {} /\ V \in SUBSET Scores
  <2>1. FivesOf(cards) # {}  BY SomeFive
  <2>2. V \in SUBSET Scores /\ V # {}  BY <1>1, <1>2, <2>1
  <2>3. Scores \subseteq Int  BY ScoresAreFinite
  <2> HIDE DEF V
  <2> QED  BY <2>2, <2>3
<1>4. IsFiniteSet(V)
  <2> HIDE DEF V
  <2> QED  BY <1>3, ScoresAreFinite, FS_Subset
<1>5. BestFive(cards) = Highest(V)  BY DEF BestFive
<1>6. Highest(V) \in V /\ \A y \in V : y <= Highest(V)
  <2> HIDE DEF V
  <2>1. \E x \in V : \A y \in V : y <= x  BY <1>3, <1>4, HasExtremes
  <2> QED  BY <2>1 DEF Highest
<1>7. BestFive(cards) \in Nat /\ Makes(cards, BestFive(cards))
  <2>1. BestFive(cards) \in V  BY <1>5, <1>6
  <2>2. Makes(cards, BestFive(cards))  BY <1>1, <2>1
  <2>3. BestFive(cards) \in Scores  BY <1>2, <2>2
  <2> QED  BY <2>2, <2>3, ScoresAreFinite
<1>8. ASSUME NEW w, Makes(cards, w) PROVE w <= BestFive(cards)
  <2>1. PICK five \in FivesOf(cards) : FiveCardValue(five) \in Nat /\ w <= FiveCardValue(five)
    BY <1>8, WorthAsMuch
  <2>2. w \in Nat  BY <1>8, WorthAsMuch
  <2>3. FiveCardValue(five) <= BestFive(cards)  BY <1>5, <1>6
  <2> QED  BY <1>7, <2>1, <2>2, <2>3
<1> QED  BY <1>7, <1>8 DEF IsBest

\* So a score is that of the best five if it is made and nothing made exceeds it,
\* and is not if something made does.
LEMMA JudgedRight ==
  ASSUME NEW cards \in SUBSET AllCards, IsFiniteSet(cards), Cardinality(cards) >= 5,
         NEW v, IsBest(cards, v)
  PROVE  v = BestFive(cards)
<1>1. BestFive(cards) \in Nat /\ IsBest(cards, BestFive(cards))  BY BestIsMade
<1>2. v \in Nat  BY WorthAsMuch DEF IsBest
<1>3. v <= BestFive(cards) /\ BestFive(cards) <= v  BY <1>1 DEF IsBest
<1> QED  BY <1>1, <1>2, <1>3

\* A score below something that the cards make is not that of their best five.
LEMMA JudgedWrong ==
  ASSUME NEW cards \in SUBSET AllCards, IsFiniteSet(cards), Cardinality(cards) >= 5,
         NEW v \in Nat, NEW w \in Nat, Makes(cards, w), v < w
  PROVE  v # BestFive(cards)
<1>1. BestFive(cards) \in Nat /\ IsBest(cards, BestFive(cards))  BY BestIsMade
<1>2. w <= BestFive(cards)  BY <1>1 DEF IsBest
<1> QED  BY <1>1, <1>2

\* Nothing made is of a better category.
NoneAbove(cards, k) == \A l, a, b, c, d, e : IsMade(cards, l, a, b, c, d, e) => l <= k

\* The best is the best of the best category.
LEMMA BestOfCategory ==
  ASSUME NEW cards, NEW k, NEW v, NEW w, NEW x, NEW y, NEW z,
         IsMade(cards, k, v, w, x, y, z), NoneAbove(cards, k),
         \A a, b, c, d, e : IsMade(cards, k, a, b, c, d, e) => NoHigher(a, b, c, d, e, v, w, x, y, z)
  PROVE  IsBest(cards, Num(k, v, w, x, y, z))
<1>1. Makes(cards, Num(k, v, w, x, y, z))  BY MakesIsMade
<1>2. /\ k \in 0..8
      /\ v \in Digits /\ w \in Digits /\ x \in Digits /\ y \in Digits /\ z \in Digits
  BY MadeOfDigits
<1>3. ASSUME NEW u, Makes(cards, u) PROVE u <= Num(k, v, w, x, y, z)
  <2>1. PICK l, a, b, c, d, e : IsMade(cards, l, a, b, c, d, e) /\ u = Num(l, a, b, c, d, e)
    BY <1>3, MakesIsMade
  <2>2. /\ l \in 0..8
        /\ a \in Digits /\ b \in Digits /\ c \in Digits /\ d \in Digits /\ e \in Digits
    BY <2>1, MadeOfDigits
  <2>3. l <= k  BY <2>1 DEF NoneAbove
  <2>4. CASE l = k
    <3>1. NoHigher(a, b, c, d, e, v, w, x, y, z)  BY <2>1, <2>4
    <3> QED  BY <1>2, <2>1, <2>2, <2>4, <3>1, ScoreByRanks
  <2>5. CASE l # k
    <3>1. l < k  BY <1>2, <2>2, <2>3, <2>5
    <3>2. Num(l, a, b, c, d, e) < Num(k, v, w, x, y, z)  BY <1>2, <2>2, <3>1, ScoreByCategory
    <3>3. Num(l, a, b, c, d, e) \in Nat /\ Num(k, v, w, x, y, z) \in Nat
      BY <1>2, <2>2, ScoreIsScore, ScoresAreFinite
    <3> QED  BY <2>1, <3>2, <3>3
  <2> QED  BY <2>4, <2>5
<1> QED  BY <1>1, <1>3 DEF IsBest

\* Of a category only its own hands are made.
LEMMA MadeInCategory ==
  ASSUME NEW cards, NEW k, NEW a, NEW b, NEW c, NEW d, NEW e, IsMade(cards, k, a, b, c, d, e)
  PROVE  /\ k = 8 => a \in 5..14 /\ MakesStraightFlush(cards, a) /\ b = 0 /\ c = 0 /\ d = 0 /\ e = 0
         /\ k = 7 => {a, b} \subseteq Rank /\ MakesQuads(cards, a, b) /\ c = 0 /\ d = 0 /\ e = 0
         /\ k = 6 => {a, b} \subseteq Rank /\ MakesFullHouse(cards, a, b) /\ c = 0 /\ d = 0 /\ e = 0
         /\ k = 5 => {a, b, c, d, e} \subseteq Rank /\ MakesFlush(cards, a, b, c, d, e)
         /\ k = 4 => a \in 5..14 /\ MakesStraight(cards, a) /\ b = 0 /\ c = 0 /\ d = 0 /\ e = 0
         /\ k = 3 => {a, b, c} \subseteq Rank /\ MakesTrips(cards, a, b, c) /\ d = 0 /\ e = 0
         /\ k = 2 => {a, b, c} \subseteq Rank /\ MakesTwoPair(cards, a, b, c) /\ d = 0 /\ e = 0
         /\ k = 1 => {a, b, c, d} \subseteq Rank /\ MakesPair(cards, a, b, c, d) /\ e = 0
         /\ k = 0 => {a, b, c, d, e} \subseteq Rank /\ InOrder(Ranks(cards), a, b, c, d, e)
<1>1. /\ <<b, c, d, e>> = <<0, 0, 0, 0>> => b = 0 /\ c = 0 /\ d = 0 /\ e = 0
      /\ <<c, d, e>> = <<0, 0, 0>> => c = 0 /\ d = 0 /\ e = 0
      /\ <<d, e>> = <<0, 0>> => d = 0 /\ e = 0
  OBVIOUS
<1> QED  BY <1>1, CategoryNumbers DEF IsMade

\* The same from the hand that is made.
LEMMA HandIsMade ==
  ASSUME NEW cards, NEW a, NEW b, NEW c, NEW d, NEW e
  PROVE  /\ a \in 5..14 /\ MakesStraightFlush(cards, a) => IsMade(cards, 8, a, 0, 0, 0, 0)
         /\ {a, b} \subseteq Rank /\ MakesQuads(cards, a, b) => IsMade(cards, 7, a, b, 0, 0, 0)
         /\ {a, b} \subseteq Rank /\ MakesFullHouse(cards, a, b) => IsMade(cards, 6, a, b, 0, 0, 0)
         /\ {a, b, c, d, e} \subseteq Rank /\ MakesFlush(cards, a, b, c, d, e) =>
              IsMade(cards, 5, a, b, c, d, e)
         /\ a \in 5..14 /\ MakesStraight(cards, a) => IsMade(cards, 4, a, 0, 0, 0, 0)
         /\ {a, b, c} \subseteq Rank /\ MakesTrips(cards, a, b, c) => IsMade(cards, 3, a, b, c, 0, 0)
         /\ {a, b, c} \subseteq Rank /\ MakesTwoPair(cards, a, b, c) => IsMade(cards, 2, a, b, c, 0, 0)
         /\ {a, b, c, d} \subseteq Rank /\ MakesPair(cards, a, b, c, d) => IsMade(cards, 1, a, b, c, d, 0)
         /\ {a, b, c, d, e} \subseteq Rank /\ InOrder(Ranks(cards), a, b, c, d, e) =>
              IsMade(cards, 0, a, b, c, d, e)
BY CategoryNumbers, Zenon DEF IsMade

\* If nothing is made of a category either, nothing is above the next.
LEMMA NoneOfCategory ==
  ASSUME NEW cards, NEW k \in 0..8, NoneAbove(cards, k),
         \A a, b, c, d, e : ~IsMade(cards, k, a, b, c, d, e)
  PROVE  NoneAbove(cards, k - 1)
<1> SUFFICES ASSUME NEW l, NEW a, NEW b, NEW c, NEW d, NEW e, IsMade(cards, l, a, b, c, d, e)
             PROVE  l <= k - 1
  BY DEF NoneAbove
<1>1. l \in 0..8  BY MadeOfDigits
<1>2. l <= k /\ l # k  BY DEF NoneAbove
<1> QED  BY <1>1, <1>2

-----------------------------------------------------------------------------
\* What Evaluate looks at.

\* The ranks of a suit with five or more cards, and the straights in them.
Suited(cards) == {m \in {suitMask(cards, s) : s \in {c[2] : c \in cards}} : Cardinality(m) >= 5}

Straights(cards) == {straightHigh(m) : m \in Suited(cards)} \ {0}

\* Evaluate, with these names.
LEMMA EvaluateIs ==
  ASSUME NEW cards
  PROVE  Evaluate(cards) =
    IF Straights(cards) # {} THEN encode(StraightFlush, <<Highest(Straights(cards))>>)
    ELSE IF OfCount(cards, 4) # {}
      THEN encode(Quads, <<Highest(OfCount(cards, 4)),
                           firstRankNot(OfCount(cards, 1), OfCount(cards, 2), OfCount(cards, 3))>>)
    ELSE IF OfCount(cards, 3) # {} /\ (OfCount(cards, 2) # {} \/ Cardinality(OfCount(cards, 3)) > 1)
      THEN encode(FullHouse, <<Highest(OfCount(cards, 3)),
                               pairRank(OfCount(cards, 3), OfCount(cards, 2))>>)
    ELSE IF Suited(cards) # {} THEN encode(Flush, topRanks(CHOOSE m \in Suited(cards) : TRUE, 5))
    ELSE IF straightHigh(Ranks(cards)) > 0 THEN encode(Straight, <<straightHigh(Ranks(cards))>>)
    ELSE IF OfCount(cards, 3) # {}
      THEN encode(Trips, <<Highest(OfCount(cards, 3))>>
                           \o topRanks(Ranks(cards) \ {Highest(OfCount(cards, 3))}, 2))
    ELSE IF Cardinality(OfCount(cards, 2)) >= 2
      THEN encode(TwoPair, topRanks(OfCount(cards, 2), 2)
             \o topRanks(Ranks(cards) \ {topRanks(OfCount(cards, 2), 2)[1],
                                         topRanks(OfCount(cards, 2), 2)[2]}, 1))
    ELSE IF OfCount(cards, 2) # {}
      THEN encode(OnePair, topRanks(OfCount(cards, 2), 2)
                             \o topRanks(Ranks(cards) \ OfCount(cards, 2), 3))
    ELSE encode(HighCard, topRanks(Ranks(cards), 5))
BY Zenon DEF Evaluate, Suited, Straights

\* A finite set of numbers that is not empty has its highest member in it.
LEMMA HighestIs ==
  ASSUME NEW S \in SUBSET Int, IsFiniteSet(S), S # {}
  PROVE  Highest(S) \in S /\ \A y \in S : y <= Highest(S)
<1>1. \E x \in S : \A y \in S : y <= x  BY HasExtremes
<1> QED  BY <1>1 DEF Highest

\* Ranks by how often they occur.
LEMMA RanksByCount ==
  ASSUME NEW cards \in SUBSET AllCards, IsFiniteSet(cards)
  PROVE  /\ \A n : /\ OfCount(cards, n) \in SUBSET Ranks(cards) /\ OfCount(cards, n) \in SUBSET Rank
                   /\ OfCount(cards, n) \in SUBSET Int
                   /\ IsFiniteSet(OfCount(cards, n)) /\ Cardinality(OfCount(cards, n)) \in Nat
         /\ \A r, n : n \in 1..4 => (r \in OfCount(cards, n) <=> Count(cards, r) = n)
         /\ \A r : Count(cards, r) \in 0..4 /\ (r \in Ranks(cards) <=> Count(cards, r) >= 1)
<1>1. Ranks(cards) \in SUBSET (2..14) /\ IsFiniteSet(Ranks(cards))  BY RanksOfCards
<1>2. \A n : /\ OfCount(cards, n) \in SUBSET Ranks(cards) /\ OfCount(cards, n) \in SUBSET Rank
             /\ OfCount(cards, n) \in SUBSET Int
  BY <1>1 DEF OfCount, Rank
<1>3. \A n : IsFiniteSet(OfCount(cards, n)) /\ Cardinality(OfCount(cards, n)) \in Nat
  BY <1>1, <1>2, FS_Subset, FS_CardinalityType
<1>4. \A r : /\ Count(cards, r) \in 0..4 /\ (r \in Ranks(cards) <=> Count(cards, r) >= 1)
             /\ \A n : r \in OfCount(cards, n) <=> r \in Ranks(cards) /\ Count(cards, r) = n
  BY CountOfRank
<1>5. \A r, n : n \in 1..4 => (r \in OfCount(cards, n) <=> Count(cards, r) = n)
  BY <1>4
<1> QED  BY <1>2, <1>3, <1>4, <1>5

\* Suits of five or more.
LEMMA SuitedMasks ==
  ASSUME NEW cards \in SUBSET AllCards, IsFiniteSet(cards)
  PROVE  /\ \A m \in Suited(cards) : \E s \in 1..4 : m = suitMask(cards, s) /\ Cardinality(m) >= 5
         /\ \A s : Cardinality(suitMask(cards, s)) >= 5 => suitMask(cards, s) \in Suited(cards)
         /\ \A m \in Suited(cards) : m \in SUBSET Rank /\ m \in SUBSET Ranks(cards) /\ IsFiniteSet(m)
         /\ Cardinality(cards) <= 7 => \A m, n \in Suited(cards) : m = n
<1>1. \A m \in Suited(cards) : \E s \in 1..4 : m = suitMask(cards, s) /\ Cardinality(m) >= 5
  BY DEF Suited, AllCards
<1>2. ASSUME NEW s, Cardinality(suitMask(cards, s)) >= 5 PROVE suitMask(cards, s) \in Suited(cards)
  <2>1. suitMask(cards, s) # {}
    <3>1. Cardinality({}) = 0  BY FS_EmptySet
    <3> QED  BY <1>2, <3>1
  <2>2. s \in {c[2] : c \in cards}  BY <2>1 DEF suitMask
  <2> QED  BY <1>2, <2>2 DEF Suited
<1>3. \A m \in Suited(cards) : m \in SUBSET Rank /\ m \in SUBSET Ranks(cards) /\ IsFiniteSet(m)
  BY <1>1, SuitsOfCards DEF Rank
<1>4. Cardinality(cards) <= 7 => \A m, n \in Suited(cards) : m = n
  BY <1>1, OneFlushSuit
<1> QED  BY <1>1, <1>2, <1>3, <1>4

\* The ranks of five different ones in order are at least five.
LEMMA InOrderIsFive ==
  ASSUME NEW S \in SUBSET Int, IsFiniteSet(S), NEW a, NEW b, NEW c, NEW d, NEW e,
         InOrder(S, a, b, c, d, e)
  PROVE  Cardinality(S) >= 5
<1>1. a \in S /\ b \in S /\ c \in S /\ d \in S /\ e \in S /\ a > b /\ b > c /\ c > d /\ d > e
  BY DEF InOrder
<1>2. a \in Int /\ b \in Int /\ c \in Int /\ d \in Int /\ e \in Int  BY <1>1
<1>3. a # b /\ c \notin {a, b} /\ d \notin {a, b, c} /\ e \notin {a, b, c, d}  BY <1>1, <1>2
<1> QED  BY <1>1, <1>3, HoldsFive

\* Ranks with a run among them are at least five.
LEMMA RunIsFive ==
  ASSUME NEW S \in SUBSET Int, IsFiniteSet(S), NEW h \in 5..14, Run(h) \subseteq S
  PROVE  Cardinality(S) >= 5
<1>1. PICK a, b, c, d, e : Run(h) = {a, b, c, d, e} /\ a > b /\ b > c /\ c > d /\ d > e
  BY RunInOrder
<1>2. InOrder(S, a, b, c, d, e)  BY <1>1 DEF InOrder
<1> QED  BY <1>2, InOrderIsFive

-----------------------------------------------------------------------------
\* What each condition of Evaluate rules out, in its order.

\* With no straight in one suit nothing above four of a kind is made.
LEMMA NoStraightFlush ==
  ASSUME NEW cards \in SUBSET AllCards, IsFiniteSet(cards), Straights(cards) = {}
  PROVE  NoneAbove(cards, 7)
<1>1. NoneAbove(cards, 8)
  <2>1. \A l : l \in 0..8 => l <= 8  OBVIOUS
  <2> QED  BY <2>1, MadeOfDigits DEF NoneAbove
<1>2. ASSUME NEW a, NEW b, NEW c, NEW d, NEW e, IsMade(cards, 8, a, b, c, d, e) PROVE FALSE
  <2>1. a \in 5..14 /\ MakesStraightFlush(cards, a)  BY <1>2, MadeInCategory
  <2>2. PICK s \in 1..4 : Run(a) \subseteq suitMask(cards, s)  BY <2>1 DEF MakesStraightFlush
  <2> DEFINE m == suitMask(cards, s)
  <2>3. m \in SUBSET (2..14) /\ IsFiniteSet(m) /\ m \in SUBSET Int  BY SuitsOfCards
  <2>4. Run(a) \subseteq m  BY <2>2
  <2>5. m \in Suited(cards)
    <3>1. Cardinality(m) >= 5
      <4> HIDE DEF m
      <4> QED  BY <2>1, <2>3, <2>4, RunIsFive
    <3> QED  BY <3>1, SuitedMasks
  <2> HIDE DEF m
  <2>6. straightHigh(m) = 0  BY <2>5 DEF Straights
  <2>7. CASE Wheel \subseteq m
    <3>1. straightHigh(m) = 5  BY <2>3, <2>7, StraightHighFinds
    <3> QED  BY <2>6, <3>1
  <2>8. CASE ~(Wheel \subseteq m)
    <3>1. a <= straightHigh(m)  BY <2>1, <2>3, <2>4, <2>8, StraightHighFinds
    <3> QED  BY <2>1, <2>6, <3>1
  <2> QED  BY <2>7, <2>8
<1>3. NoneAbove(cards, 8 - 1)
  <2>1. 8 \in 0..8  OBVIOUS
  <2> QED  BY <1>1, <1>2, <2>1, NoneOfCategory
<1> QED  BY <1>3

\* With no rank four times nothing above a full house is made.
LEMMA NoQuads ==
  ASSUME NEW cards \in SUBSET AllCards, IsFiniteSet(cards), NoneAbove(cards, 7),
         OfCount(cards, 4) = {}
  PROVE  NoneAbove(cards, 6)
<1>1. ASSUME NEW a, NEW b, NEW c, NEW d, NEW e, IsMade(cards, 7, a, b, c, d, e) PROVE FALSE
  <2>1. MakesQuads(cards, a, b)  BY <1>1, MadeInCategory
  <2>2. Count(cards, a) >= 4  BY <2>1 DEF MakesQuads
  <2>3. Count(cards, a) \in 0..4 /\ \A n \in 1..4 : a \in OfCount(cards, n) <=> Count(cards, a) = n
    BY RanksByCount
  <2> QED  BY <2>2, <2>3
<1>2. NoneAbove(cards, 7 - 1)
  <2>1. 7 \in 0..8  OBVIOUS
  <2> QED  BY <1>1, <2>1, NoneOfCategory
<1> QED  BY <1>2

\* With no three of a kind beside another pair nothing above a flush is made.
LEMMA NoFullHouse ==
  ASSUME NEW cards \in SUBSET AllCards, IsFiniteSet(cards), NoneAbove(cards, 6),
         OfCount(cards, 4) = {},
         ~(OfCount(cards, 3) # {} /\ (OfCount(cards, 2) # {} \/ Cardinality(OfCount(cards, 3)) > 1))
  PROVE  NoneAbove(cards, 5)
<1>1. ASSUME NEW a, NEW b, NEW c, NEW d, NEW e, IsMade(cards, 6, a, b, c, d, e) PROVE FALSE
  <2>1. MakesFullHouse(cards, a, b)  BY <1>1, MadeInCategory
  <2>2. Count(cards, a) >= 3 /\ Count(cards, b) >= 2 /\ a # b  BY <2>1 DEF MakesFullHouse
  <2>3. /\ Count(cards, a) \in 0..4 /\ \A n \in 1..4 : a \in OfCount(cards, n) <=> Count(cards, a) = n
        /\ Count(cards, b) \in 0..4 /\ \A n \in 1..4 : b \in OfCount(cards, n) <=> Count(cards, b) = n
    BY RanksByCount
  <2>4. a \in OfCount(cards, 3)  BY <2>2, <2>3
  <2>5. b \in OfCount(cards, 3) \/ b \in OfCount(cards, 2)  BY <2>2, <2>3
  <2>6. b \in OfCount(cards, 3)  BY <2>4, <2>5
  <2>7. IsFiniteSet(OfCount(cards, 3)) /\ Cardinality(OfCount(cards, 3)) \in Nat  BY RanksByCount
  <2>8. Cardinality(OfCount(cards, 3)) >= 2  BY <2>2, <2>4, <2>6, <2>7, HoldsTwo
  <2> QED  BY <2>4, <2>7, <2>8
<1>2. NoneAbove(cards, 6 - 1)
  <2>1. 6 \in 0..8  OBVIOUS
  <2> QED  BY <1>1, <2>1, NoneOfCategory
<1> QED  BY <1>2

\* With less than five of every suit nothing above a straight is made.
LEMMA NoFlush ==
  ASSUME NEW cards \in SUBSET AllCards, IsFiniteSet(cards), NoneAbove(cards, 5), Suited(cards) = {}
  PROVE  NoneAbove(cards, 4)
<1>1. ASSUME NEW a, NEW b, NEW c, NEW d, NEW e, IsMade(cards, 5, a, b, c, d, e) PROVE FALSE
  <2>1. MakesFlush(cards, a, b, c, d, e)  BY <1>1, MadeInCategory
  <2>2. PICK s \in 1..4 : InOrder(suitMask(cards, s), a, b, c, d, e)  BY <2>1 DEF MakesFlush
  <2>3. IsFiniteSet(suitMask(cards, s)) /\ suitMask(cards, s) \in SUBSET Int  BY SuitsOfCards
  <2>4. Cardinality(suitMask(cards, s)) >= 5  BY <2>2, <2>3, InOrderIsFive
  <2> QED  BY <2>4, SuitedMasks
<1>2. NoneAbove(cards, 5 - 1)
  <2>1. 5 \in 0..8  OBVIOUS
  <2> QED  BY <1>1, <2>1, NoneOfCategory
<1> QED  BY <1>2

\* With no run among all ranks nothing above three of a kind is made.
LEMMA NoStraight ==
  ASSUME NEW cards \in SUBSET AllCards, IsFiniteSet(cards), NoneAbove(cards, 4),
         ~(straightHigh(Ranks(cards)) > 0)
  PROVE  NoneAbove(cards, 3)
<1>1. ASSUME NEW a, NEW b, NEW c, NEW d, NEW e, IsMade(cards, 4, a, b, c, d, e) PROVE FALSE
  <2> DEFINE m == Ranks(cards)
  <2>1. a \in 5..14 /\ Run(a) \subseteq m  BY <1>1, MadeInCategory DEF MakesStraight
  <2>2. m \in SUBSET (2..14)  BY RanksOfCards
  <2>3. ~(straightHigh(m) > 0)  OBVIOUS
  <2> HIDE DEF m
  <2>4. CASE Wheel \subseteq m
    <3>1. straightHigh(m) = 5  BY <2>2, <2>4, StraightHighFinds
    <3> QED  BY <2>3, <3>1
  <2>5. CASE ~(Wheel \subseteq m)
    <3>1. a <= straightHigh(m)  BY <2>1, <2>2, <2>5, StraightHighFinds
    <3>2. straightHigh(m) = 0 \/ straightHigh(m) \in 5..14  BY <2>2, StraightHighFinds
    <3> QED  BY <2>1, <2>3, <3>1, <3>2
  <2> QED  BY <2>4, <2>5
<1>2. NoneAbove(cards, 4 - 1)
  <2>1. 4 \in 0..8  OBVIOUS
  <2> QED  BY <1>1, <2>1, NoneOfCategory
<1> QED  BY <1>2

\* With no rank three times nothing above two pairs is made.
LEMMA NoTrips ==
  ASSUME NEW cards \in SUBSET AllCards, IsFiniteSet(cards), NoneAbove(cards, 3),
         OfCount(cards, 4) = {}, OfCount(cards, 3) = {}
  PROVE  NoneAbove(cards, 2)
<1>1. ASSUME NEW a, NEW b, NEW c, NEW d, NEW e, IsMade(cards, 3, a, b, c, d, e) PROVE FALSE
  <2>1. MakesTrips(cards, a, b, c)  BY <1>1, MadeInCategory
  <2>2. Count(cards, a) >= 3  BY <2>1 DEF MakesTrips
  <2>3. Count(cards, a) \in 0..4 /\ \A n \in 1..4 : a \in OfCount(cards, n) <=> Count(cards, a) = n
    BY RanksByCount
  <2> QED  BY <2>2, <2>3
<1>2. NoneAbove(cards, 3 - 1)
  <2>1. 3 \in 0..8  OBVIOUS
  <2> QED  BY <1>1, <2>1, NoneOfCategory
<1> QED  BY <1>2

\* With at most one pair nothing above a pair is made.
LEMMA NoTwoPair ==
  ASSUME NEW cards \in SUBSET AllCards, IsFiniteSet(cards), NoneAbove(cards, 2),
         OfCount(cards, 4) = {}, OfCount(cards, 3) = {}, ~(Cardinality(OfCount(cards, 2)) >= 2)
  PROVE  NoneAbove(cards, 1)
<1>1. ASSUME NEW a, NEW b, NEW c, NEW d, NEW e, IsMade(cards, 2, a, b, c, d, e) PROVE FALSE
  <2>1. MakesTwoPair(cards, a, b, c) /\ a \in Rank /\ b \in Rank  BY <1>1, MadeInCategory
  <2>2. Count(cards, a) >= 2 /\ Count(cards, b) >= 2 /\ a > b  BY <2>1 DEF MakesTwoPair
  <2>3. /\ Count(cards, a) \in 0..4 /\ \A n \in 1..4 : a \in OfCount(cards, n) <=> Count(cards, a) = n
        /\ Count(cards, b) \in 0..4 /\ \A n \in 1..4 : b \in OfCount(cards, n) <=> Count(cards, b) = n
    BY RanksByCount
  <2>4. a \in OfCount(cards, 2) /\ b \in OfCount(cards, 2)  BY <2>2, <2>3
  <2>5. a # b  BY <2>1, <2>2 DEF Rank
  <2>6. IsFiniteSet(OfCount(cards, 2))  BY RanksByCount
  <2> QED  BY <2>4, <2>5, <2>6, HoldsTwo
<1>2. NoneAbove(cards, 2 - 1)
  <2>1. 2 \in 0..8  OBVIOUS
  <2> QED  BY <1>1, <2>1, NoneOfCategory
<1> QED  BY <1>2

\* With no pair nothing but the high cards is made.
LEMMA NoPair ==
  ASSUME NEW cards \in SUBSET AllCards, IsFiniteSet(cards), NoneAbove(cards, 1),
         OfCount(cards, 4) = {}, OfCount(cards, 3) = {}, OfCount(cards, 2) = {}
  PROVE  NoneAbove(cards, 0)
<1>1. ASSUME NEW a, NEW b, NEW c, NEW d, NEW e, IsMade(cards, 1, a, b, c, d, e) PROVE FALSE
  <2>1. MakesPair(cards, a, b, c, d)  BY <1>1, MadeInCategory
  <2>2. Count(cards, a) >= 2  BY <2>1 DEF MakesPair
  <2>3. Count(cards, a) \in 0..4 /\ \A n \in 1..4 : a \in OfCount(cards, n) <=> Count(cards, a) = n
    BY RanksByCount
  <2> QED  BY <2>2, <2>3
<1>2. NoneAbove(cards, 1 - 1)
  <2>1. 1 \in 0..8  OBVIOUS
  <2> QED  BY <1>1, <2>1, NoneOfCategory
<1> QED  BY <1>2

-----------------------------------------------------------------------------
\* The ranks that are left to decide.

\* Without a straight or better there are enough ranks for the kickers.
LEMMA EnoughRanks ==
  ASSUME NEW cards \in SUBSET AllCards, IsFiniteSet(cards), Cardinality(cards) >= 5
  PROVE  /\ NoneAbove(cards, 3) => Cardinality(Ranks(cards)) >= 3
         /\ NoneAbove(cards, 1) => Cardinality(Ranks(cards)) >= 4
         /\ NoneAbove(cards, 0) => Cardinality(Ranks(cards)) >= 5
<1>1. PICK k, a, b, c, d, e : IsMade(cards, k, a, b, c, d, e)
  <2>1. Makes(cards, BestFive(cards))  BY BestIsMade DEF IsBest
  <2> QED  BY <2>1, MakesIsMade
<1>2. k \in 0..8  BY <1>1, MadeOfDigits
<1>3. /\ Ranks(cards) \in SUBSET Int /\ IsFiniteSet(Ranks(cards)) /\ Cardinality(Ranks(cards)) \in Nat
      /\ \A r : r \in Ranks(cards) <=> Count(cards, r) >= 1
      /\ \A r : Count(cards, r) \in 0..4
  <2>1. Ranks(cards) \in SUBSET (2..14)  BY RanksOfCards
  <2> QED  BY <2>1, RanksOfCards, RanksByCount
<1>4. k = 0 => Cardinality(Ranks(cards)) >= 5
  <2>1. k = 0 => InOrder(Ranks(cards), a, b, c, d, e)  BY <1>1, MadeInCategory
  <2> QED  BY <1>3, <2>1, InOrderIsFive
<1>5. k = 1 => Cardinality(Ranks(cards)) >= 4
  <2> SUFFICES ASSUME k = 1 PROVE Cardinality(Ranks(cards)) >= 4  OBVIOUS
  <2>1. MakesPair(cards, a, b, c, d)  BY <1>1, MadeInCategory
  <2>2. /\ a \in Ranks(cards) /\ b \in Ranks(cards) /\ c \in Ranks(cards) /\ d \in Ranks(cards)
        /\ a \notin {b, c, d} /\ b > c /\ c > d
    BY <1>3, <2>1 DEF MakesPair
  <2>3. a # b /\ c \notin {a, b} /\ d \notin {a, b, c}  BY <1>3, <2>2
  <2> QED  BY <1>3, <2>2, <2>3, HoldsFour
<1>6. k = 2 => Cardinality(Ranks(cards)) >= 3
  <2> SUFFICES ASSUME k = 2 PROVE Cardinality(Ranks(cards)) >= 3  OBVIOUS
  <2>1. MakesTwoPair(cards, a, b, c)  BY <1>1, MadeInCategory
  <2>2. a \in Ranks(cards) /\ b \in Ranks(cards) /\ c \in Ranks(cards) /\ c \notin {a, b} /\ a > b
    BY <1>3, <2>1 DEF MakesTwoPair
  <2>3. a # b  BY <1>3, <2>2
  <2> QED  BY <1>3, <2>2, <2>3, HoldsThree
<1>7. k = 3 => Cardinality(Ranks(cards)) >= 3
  <2> SUFFICES ASSUME k = 3 PROVE Cardinality(Ranks(cards)) >= 3  OBVIOUS
  <2>1. MakesTrips(cards, a, b, c)  BY <1>1, MadeInCategory
  <2>2. a \in Ranks(cards) /\ b \in Ranks(cards) /\ c \in Ranks(cards) /\ a \notin {b, c} /\ b > c
    BY <1>3, <2>1 DEF MakesTrips
  <2>3. a # b /\ c \notin {a, b}  BY <1>3, <2>2
  <2> QED  BY <1>3, <2>2, <2>3, HoldsThree
<1>8. \A n : NoneAbove(cards, n) => k <= n  BY <1>1 DEF NoneAbove
<1> QED  BY <1>2, <1>3, <1>4, <1>5, <1>6, <1>7, <1>8

\* The ranks of the group before those of the kickers.
LEMMA JoinOneTwo ==
  ASSUME NEW t \in Int, NEW x \in Int, NEW y \in Int
  PROVE  <<t>> \o <<x, y>> = <<t, x, y>>
<1> DEFINE s == <<t>> \o <<x, y>>
<1>1. /\ <<t>> \in Seq(Int) /\ <<x, y>> \in Seq(Int)
      /\ Len(<<t>>) = 1 /\ Len(<<x, y>>) = 2
  OBVIOUS
<1>2. DOMAIN s = 1..3  BY <1>1
<1>3. s[1] = t /\ s[2] = x /\ s[3] = y  BY <1>1
<1>4. s = [i \in 1..3 |-> s[i]]  BY <1>1, <1>2
<1> HIDE DEF s
<1>5. \A i \in 1..3 : s[i] = <<t, x, y>>[i]
  <2>1. \A i \in 1..3 : i = 1 \/ i = 2 \/ i = 3  OBVIOUS
  <2> QED  BY <1>3, <2>1
<1>6. <<t, x, y>> = [i \in 1..3 |-> <<t, x, y>>[i]]  OBVIOUS
<1>7. s = <<t, x, y>>  BY <1>4, <1>5, <1>6
<1> QED  BY <1>7 DEF s

\* Two ranks and one beside them, joined.
LEMMA JoinTwoOne ==
  ASSUME NEW p \in Int, NEW q \in Int, NEW x \in Int
  PROVE  <<p, q>> \o <<x>> = <<p, q, x>>
<1> DEFINE s == <<p, q>> \o <<x>>
<1>1. /\ <<p, q>> \in Seq(Int) /\ <<x>> \in Seq(Int)
      /\ Len(<<p, q>>) = 2 /\ Len(<<x>>) = 1
  OBVIOUS
<1>2. DOMAIN s = 1..3  BY <1>1
<1>3. s[1] = p /\ s[2] = q /\ s[3] = x  BY <1>1
<1>4. s = [i \in 1..3 |-> s[i]]  BY <1>1, <1>2
<1> HIDE DEF s
<1>5. \A i \in 1..3 : s[i] = <<p, q, x>>[i]
  <2>1. \A i \in 1..3 : i = 1 \/ i = 2 \/ i = 3  OBVIOUS
  <2> QED  BY <1>3, <2>1
<1>6. <<p, q, x>> = [i \in 1..3 |-> <<p, q, x>>[i]]  OBVIOUS
<1>7. s = <<p, q, x>>  BY <1>4, <1>5, <1>6
<1> QED  BY <1>7 DEF s

\* One rank and three beside it, joined.
LEMMA JoinOneThree ==
  ASSUME NEW p \in Int, NEW x \in Int, NEW y \in Int, NEW z \in Int
  PROVE  <<p>> \o <<x, y, z>> = <<p, x, y, z>>
<1> DEFINE s == <<p>> \o <<x, y, z>>
<1>1. /\ <<p>> \in Seq(Int) /\ <<x, y, z>> \in Seq(Int)
      /\ Len(<<p>>) = 1 /\ Len(<<x, y, z>>) = 3
  OBVIOUS
<1>2. DOMAIN s = 1..4  BY <1>1
<1>3. s[1] = p /\ s[2] = x /\ s[3] = y /\ s[4] = z  BY <1>1
<1>4. s = [i \in 1..4 |-> s[i]]  BY <1>1, <1>2
<1> HIDE DEF s
<1>5. \A i \in 1..4 : s[i] = <<p, x, y, z>>[i]
  <2>1. \A i \in 1..4 : i = 1 \/ i = 2 \/ i = 3 \/ i = 4  OBVIOUS
  <2> QED  BY <1>3, <2>1
<1>6. <<p, x, y, z>> = [i \in 1..4 |-> <<p, x, y, z>>[i]]  OBVIOUS
<1>7. s = <<p, x, y, z>>  BY <1>4, <1>5, <1>6
<1> QED  BY <1>7 DEF s

\* The top one, two, three and five of enough ranks, and that no others are higher.
LEMMA TopOne ==
  ASSUME NEW S \in SUBSET Int, IsFiniteSet(S), Cardinality(S) >= 1
  PROVE  \E x \in S : topRanks(S, 1) = <<x>> /\ \A z \in S : z <= x
<1>1. 1 \in Nat \ {0}  OBVIOUS
<1>2. PICK f \in [1..1 -> S] : topRanks(S, 1) = f /\ \A z \in S : (\E i \in 1..1 : z = f[i]) \/ z < f[1]
  BY <1>1, TopRanks
<1>3. f[1] \in S /\ f = <<f[1]>>  OBVIOUS
<1>4. PICK x \in S : f[1] = x  BY <1>3
<1>5. \A z \in S : z = x \/ z < x
  <2>1. 1..1 = {1}  OBVIOUS
  <2> QED  BY <1>2, <1>4, <2>1
<1>6. \A z \in S : z <= x
  <2> SUFFICES ASSUME NEW z \in S PROVE z <= x  OBVIOUS
  <2>1. z \in Int /\ x \in Int  OBVIOUS
  <2> QED  BY <1>5, <2>1
<1> QED  BY <1>2, <1>3, <1>4, <1>6

\* The two highest of at least two ranks.
LEMMA TopTwo ==
  ASSUME NEW S \in SUBSET Int, IsFiniteSet(S), Cardinality(S) >= 2
  PROVE  \E x, y \in S : /\ topRanks(S, 2) = <<x, y>> /\ x > y
                         /\ \A z \in S : z = x \/ z = y \/ z < y
<1>1. 2 \in Nat \ {0}  OBVIOUS
<1>2. PICK f \in [1..2 -> S] :
        /\ topRanks(S, 2) = f
        /\ \A i, j \in 1..2 : i < j => f[i] > f[j]
        /\ \A z \in S : (\E i \in 1..2 : z = f[i]) \/ z < f[2]
  BY <1>1, TopRanks
<1>3. f[1] \in S /\ f[2] \in S /\ f = <<f[1], f[2]>>  OBVIOUS
<1>4. f[1] > f[2]  BY <1>2
<1>5. \A z \in S : z = f[1] \/ z = f[2] \/ z < f[2]
  <2>1. 1..2 = {1, 2}  OBVIOUS
  <2> QED  BY <1>2, <2>1
<1> QED  BY <1>2, <1>3, <1>4, <1>5

\* The three highest of at least three ranks.
LEMMA TopThree ==
  ASSUME NEW S \in SUBSET Int, IsFiniteSet(S), Cardinality(S) >= 3
  PROVE  \E x, y, u \in S : /\ topRanks(S, 3) = <<x, y, u>> /\ x > y /\ y > u
                            /\ \A z \in S : z = x \/ z = y \/ z = u \/ z < u
<1>1. 3 \in Nat \ {0}  OBVIOUS
<1>2. PICK f \in [1..3 -> S] :
        /\ topRanks(S, 3) = f
        /\ \A i, j \in 1..3 : i < j => f[i] > f[j]
        /\ \A z \in S : (\E i \in 1..3 : z = f[i]) \/ z < f[3]
  BY <1>1, TopRanks
<1>3. f[1] \in S /\ f[2] \in S /\ f[3] \in S /\ f = <<f[1], f[2], f[3]>>  OBVIOUS
<1>4. f[1] > f[2] /\ f[2] > f[3]  BY <1>2
<1>5. \A z \in S : z = f[1] \/ z = f[2] \/ z = f[3] \/ z < f[3]
  <2>1. 1..3 = {1, 2, 3}  OBVIOUS
  <2> QED  BY <1>2, <2>1
<1> QED  BY <1>2, <1>3, <1>4, <1>5

\* The five highest of at least five ranks.
LEMMA TopFive ==
  ASSUME NEW S \in SUBSET Int, IsFiniteSet(S), Cardinality(S) >= 5
  PROVE  \E v, w, x, y, z \in S :
           /\ topRanks(S, 5) = <<v, w, x, y, z>> /\ InOrder(S, v, w, x, y, z)
           /\ \A a, b, c, d, e :
                InOrder(S, a, b, c, d, e) => NoHigher(a, b, c, d, e, v, w, x, y, z)
<1>1. 5 \in Nat \ {0}  OBVIOUS
<1>2. PICK f \in [1..5 -> S] :
        /\ topRanks(S, 5) = f
        /\ \A i, j \in 1..5 : i < j => f[i] > f[j]
        /\ \A r \in S : (\E i \in 1..5 : r = f[i]) \/ r < f[5]
  BY <1>1, TopRanks
<1>3. /\ f[1] \in S /\ f[2] \in S /\ f[3] \in S /\ f[4] \in S /\ f[5] \in S
      /\ f = <<f[1], f[2], f[3], f[4], f[5]>>
  OBVIOUS
<1>4. f[1] > f[2] /\ f[2] > f[3] /\ f[3] > f[4] /\ f[4] > f[5]  BY <1>2
<1>5. \A r \in S : r = f[1] \/ r = f[2] \/ r = f[3] \/ r = f[4] \/ r = f[5] \/ r < f[5]
  <2>1. 1..5 = {1, 2, 3, 4, 5}  OBVIOUS
  <2> QED  BY <1>2, <2>1
<1>6. PICK v, w, x, y, z \in S : f[1] = v /\ f[2] = w /\ f[3] = x /\ f[4] = y /\ f[5] = z
  BY <1>3
<1>7. /\ topRanks(S, 5) = <<v, w, x, y, z>> /\ v > w /\ w > x /\ x > y /\ y > z
      /\ \A r \in S : r = v \/ r = w \/ r = x \/ r = y \/ r = z \/ r < z
  BY <1>2, <1>3, <1>4, <1>5, <1>6
<1>8. InOrder(S, v, w, x, y, z)  BY <1>7 DEF InOrder
<1>9. ASSUME NEW a, NEW b, NEW c, NEW d, NEW e, InOrder(S, a, b, c, d, e)
      PROVE  NoHigher(a, b, c, d, e, v, w, x, y, z)
  <2>1. a \in S /\ b \in S /\ c \in S /\ d \in S /\ e \in S /\ a > b /\ b > c /\ c > d /\ d > e
    BY <1>9 DEF InOrder
  <2>2. /\ a \in Int /\ b \in Int /\ c \in Int /\ d \in Int /\ e \in Int
        /\ v \in Int /\ w \in Int /\ x \in Int /\ y \in Int /\ z \in Int
    BY <2>1
  <2>3. /\ a = v \/ a = w \/ a = x \/ a = y \/ a = z \/ a < z
        /\ b = v \/ b = w \/ b = x \/ b = y \/ b = z \/ b < z
        /\ c = v \/ c = w \/ c = x \/ c = y \/ c = z \/ c < z
        /\ d = v \/ d = w \/ d = x \/ d = y \/ d = z \/ d < z
        /\ e = v \/ e = w \/ e = x \/ e = y \/ e = z \/ e < z
    BY <1>7, <2>1
  <2> QED  BY <1>7, <2>1, <2>2, <2>3 DEF NoHigher
<1> QED  BY <1>7, <1>8, <1>9

-----------------------------------------------------------------------------
\* Evaluate, branch by branch.

\* Five, six or seven cards.
Dealt(cards) ==
  /\ cards \in SUBSET AllCards /\ IsFiniteSet(cards)
  /\ Cardinality(cards) \in Nat /\ Cardinality(cards) >= 5 /\ Cardinality(cards) <= 7

\* The two kinds of hand that are misjudged.
Misjudged(cards) == WheelHidesStraight(cards) \/ SingleHidesPair(cards)

\* Evaluate gives the best that is made, or the hand is one of those and more is made.
Settled(cards) ==
  \/ ~Misjudged(cards) /\ IsBest(cards, Evaluate(cards))
  \/ /\ Misjudged(cards) /\ Evaluate(cards) \in Nat
     /\ \E w \in Nat : Makes(cards, w) /\ Evaluate(cards) < w

\* The best of its category settles it, where the hand is not one of those.
LEMMA SettledRight ==
  ASSUME NEW cards, ~Misjudged(cards), NEW k, NEW v, NEW w, NEW x, NEW y, NEW z,
         Evaluate(cards) = Num(k, v, w, x, y, z),
         IsMade(cards, k, v, w, x, y, z), NoneAbove(cards, k),
         \A a, b, c, d, e : IsMade(cards, k, a, b, c, d, e) => NoHigher(a, b, c, d, e, v, w, x, y, z)
  PROVE  Settled(cards)
<1>1. IsBest(cards, Num(k, v, w, x, y, z))  BY BestOfCategory
<1> QED  BY <1>1 DEF Settled

\* More of its category, where it is.
LEMMA SettledWrong ==
  ASSUME NEW cards, Misjudged(cards), NEW k, NEW v, NEW w, NEW x, NEW y,
         Evaluate(cards) = Num(k, v, w, 0, 0, 0),
         IsMade(cards, k, v, w, 0, 0, 0), IsMade(cards, k, x, y, 0, 0, 0),
         v < x \/ (v = x /\ w < y)
  PROVE  Settled(cards)
<1>1. /\ k \in 0..8 /\ v \in Digits /\ w \in Digits /\ x \in Digits /\ y \in Digits /\ 0 \in Digits
  BY MadeOfDigits DEF Digits
<1>2. Num(k, v, w, 0, 0, 0) \in Nat /\ Num(k, x, y, 0, 0, 0) \in Nat
  BY <1>1, ScoreIsScore, ScoresAreFinite
<1>3. Num(k, v, w, 0, 0, 0) < Num(k, x, y, 0, 0, 0)  BY <1>1, SMT DEF Num, Digits
<1>4. Makes(cards, Num(k, x, y, 0, 0, 0))  BY MakesIsMade
<1> QED  BY <1>2, <1>3, <1>4 DEF Settled

\* Ace to six leave room for one more card.
LEMMA RoomBesideLowSix ==
  ASSUME NEW cards, Dealt(cards), LowSix \subseteq Ranks(cards), NEW r
  PROVE  Count(cards, r) <= 2
<1>0. /\ cards \in SUBSET AllCards /\ IsFiniteSet(cards)
      /\ Cardinality(cards) \in Nat /\ Cardinality(cards) <= 7
  BY DEF Dealt
<1>1. /\ Cardinality(Ranks(cards) \ {r}) \in Nat
      /\ Count(cards, r) + Cardinality(Ranks(cards) \ {r}) <= Cardinality(cards)
      /\ Count(cards, r) \in 0..4
  BY <1>0, RoomForOne, CountOfRank
<1>2. Ranks(cards) \ {r} \in SUBSET Int /\ IsFiniteSet(Ranks(cards) \ {r})
  <2>1. Ranks(cards) \in SUBSET (2..14) /\ IsFiniteSet(Ranks(cards))  BY <1>0, RanksOfCards
  <2> QED  BY <2>1, FS_Subset
<1>3. \E a, b, c, d, e : InOrder(Ranks(cards) \ {r}, a, b, c, d, e)
  <2>0. {14, 6, 5, 4, 3, 2} \subseteq Ranks(cards)  BY DEF LowSix
  <2>1. CASE r = 14
    <3>1. InOrder(Ranks(cards) \ {r}, 6, 5, 4, 3, 2)  BY <2>0, <2>1 DEF InOrder
    <3> QED  BY <3>1
  <2>2. CASE r = 6
    <3>1. InOrder(Ranks(cards) \ {r}, 14, 5, 4, 3, 2)  BY <2>0, <2>2 DEF InOrder
    <3> QED  BY <3>1
  <2>3. CASE r = 5
    <3>1. InOrder(Ranks(cards) \ {r}, 14, 6, 4, 3, 2)  BY <2>0, <2>3 DEF InOrder
    <3> QED  BY <3>1
  <2>4. CASE r = 4
    <3>1. InOrder(Ranks(cards) \ {r}, 14, 6, 5, 3, 2)  BY <2>0, <2>4 DEF InOrder
    <3> QED  BY <3>1
  <2>5. CASE r = 3
    <3>1. InOrder(Ranks(cards) \ {r}, 14, 6, 5, 4, 2)  BY <2>0, <2>5 DEF InOrder
    <3> QED  BY <3>1
  <2>6. CASE r \notin {14, 6, 5, 4, 3}
    <3>1. InOrder(Ranks(cards) \ {r}, 14, 6, 5, 4, 3)  BY <2>0, <2>6 DEF InOrder
    <3> QED  BY <3>1
  <2> QED  BY <2>1, <2>2, <2>3, <2>4, <2>5, <2>6
<1>4. Cardinality(Ranks(cards) \ {r}) >= 5  BY <1>2, <1>3, InOrderIsFive
<1> QED  BY <1>0, <1>1, <1>4

\* A hidden straight is seen as the wheel: as a straight flush, or, where no suit has
\* five, as a straight.
LEMMA HiddenIsWheel ==
  ASSUME NEW cards, Dealt(cards), WheelHidesStraight(cards)
  PROVE  Straights(cards) # {} \/ (Suited(cards) = {} /\ LowSix \subseteq Ranks(cards))
<1>0. cards \in SUBSET AllCards /\ IsFiniteSet(cards)  BY DEF Dealt
<1>1. CASE \E s \in 1..4 : LowSix \subseteq suitMask(cards, s)
  <2>1. PICK s \in 1..4 : LowSix \subseteq suitMask(cards, s)  BY <1>1
  <2> DEFINE m == suitMask(cards, s)
  <2>2. m \in SUBSET (2..14) /\ IsFiniteSet(m) /\ m \in SUBSET Int  BY <1>0, SuitsOfCards
  <2>3. Wheel \subseteq m /\ Run(5) \subseteq m /\ 5 \in 5..14  BY <2>1 DEF LowSix, Wheel, Run
  <2>4. m \in Suited(cards)
    <3>1. Cardinality(m) >= 5
      <4> HIDE DEF m
      <4> QED  BY <2>2, <2>3, RunIsFive
    <3> QED  BY <1>0, <3>1, SuitedMasks
  <2> HIDE DEF m
  <2>5. straightHigh(m) = 5  BY <2>2, <2>3, StraightHighFinds
  <2> QED  BY <2>4, <2>5 DEF Straights
<1>2. CASE /\ LowSix \subseteq Ranks(cards)
           /\ \A s \in 1..4 : Cardinality(suitMask(cards, s)) < 5
  <2>1. ASSUME NEW m \in Suited(cards) PROVE FALSE
    <3>1. PICK s \in 1..4 : m = suitMask(cards, s) /\ Cardinality(m) >= 5  BY <1>0, SuitedMasks
    <3>2. Cardinality(m) \in Nat  BY <1>0, <3>1, SuitsOfCards
    <3> QED  BY <1>2, <3>1, <3>2
  <2> QED  BY <1>2, <2>1
<1> QED  BY <1>1, <1>2 DEF WheelHidesStraight

\* A straight flush: the highest, unless six cards from the ace up are one.
LEMMA StraightFlushSettled ==
  ASSUME NEW cards, Dealt(cards), Straights(cards) # {}
  PROVE  Settled(cards)
<1>0. cards \in SUBSET AllCards /\ IsFiniteSet(cards) /\ Cardinality(cards) <= 7
      /\ Cardinality(cards) \in Nat
  BY DEF Dealt
<1>1. PICK m \in Suited(cards) : straightHigh(m) # 0  BY DEF Straights
<1>2. PICK s \in 1..4 : m = suitMask(cards, s) /\ Cardinality(m) >= 5  BY <1>0, SuitedMasks
<1>3. /\ m \in SUBSET (2..14) /\ m \in SUBSET Int /\ IsFiniteSet(m) /\ Cardinality(m) \in Nat
      /\ m \in SUBSET Ranks(cards) /\ Cardinality(m) <= 7
      /\ IsFiniteSet(Ranks(cards)) /\ Ranks(cards) \in SUBSET (2..14)
  <2>1. /\ Cardinality(m) <= Cardinality(Ranks(cards)) /\ Cardinality(m) \in Nat
        /\ m \in SUBSET (2..14) /\ IsFiniteSet(m) /\ m \in SUBSET Ranks(cards)
    BY <1>0, <1>2, SuitsOfCards
  <2>2. /\ Cardinality(Ranks(cards)) <= Cardinality(cards) /\ Cardinality(Ranks(cards)) \in Nat
        /\ IsFiniteSet(Ranks(cards)) /\ Ranks(cards) \in SUBSET (2..14)
    BY <1>0, RanksOfCards
  <2>3. m \in SUBSET Int  BY <2>1
  <2>4. Cardinality(m) <= 7  BY <1>0, <2>1, <2>2
  <2> QED  BY <2>1, <2>2, <2>3, <2>4
<1>4. \A n \in Suited(cards) : n = m  BY <1>0, SuitedMasks
<1> DEFINE h == straightHigh(m)
<1>5. h \in 5..14 /\ Run(h) \subseteq m  BY <1>1, <1>3, StraightHighFinds
<1>6. Straights(cards) = {h}  BY <1>1, <1>4 DEF Straights
<1>7. Highest({h}) = h
  <2>1. {h} \in SUBSET Int /\ {h} # {}  BY <1>5
  <2>2. IsFiniteSet({h})  BY SizeOf1
  <2> HIDE DEF h
  <2> QED  BY <2>1, <2>2, HighestIs
<1> HIDE DEF h
<1>8. Evaluate(cards) = Num(8, h, 0, 0, 0, 0)
  <2>1. Evaluate(cards) = encode(StraightFlush, <<h>>)  BY <1>6, <1>7, EvaluateIs
  <2>2. h \in Digits /\ StraightFlush = 8  BY <1>5, RanksAreDigits, CategoryNumbers
  <2> QED  BY <2>1, <2>2, Encode1
<1>9. IsMade(cards, 8, h, 0, 0, 0, 0)
  <2>1. MakesStraightFlush(cards, h)  BY <1>2, <1>5 DEF MakesStraightFlush
  <2> QED  BY <1>5, <2>1, HandIsMade
<1>10. NoneAbove(cards, 8)
  <2>1. \A l : l \in 0..8 => l <= 8  OBVIOUS
  <2> QED  BY <2>1, MadeOfDigits DEF NoneAbove
<1>11. ASSUME NEW a, NEW b, NEW c, NEW d, NEW e, IsMade(cards, 8, a, b, c, d, e)
       PROVE  a \in 5..14 /\ Run(a) \subseteq m /\ b = 0 /\ c = 0 /\ d = 0 /\ e = 0
  <2>1. a \in 5..14 /\ MakesStraightFlush(cards, a) /\ b = 0 /\ c = 0 /\ d = 0 /\ e = 0
    BY <1>11, MadeInCategory
  <2>2. PICK t \in 1..4 : Run(a) \subseteq suitMask(cards, t)  BY <2>1 DEF MakesStraightFlush
  <2>3. suitMask(cards, t) \in SUBSET Int /\ IsFiniteSet(suitMask(cards, t))
    BY <1>0, SuitsOfCards
  <2>4. Cardinality(suitMask(cards, t)) >= 5  BY <2>1, <2>2, <2>3, RunIsFive
  <2>5. suitMask(cards, t) = m  BY <1>0, <1>4, <2>4, SuitedMasks
  <2> QED  BY <2>1, <2>2, <2>5
<1>12. ~SingleHidesPair(cards)
  <2> SUFFICES ASSUME SingleHidesPair(cards) PROVE FALSE  OBVIOUS
  <2>1. PICK q : q \in OfCount(cards, 4)  BY DEF SingleHidesPair
  <2>2. Count(cards, q) = 4
    <3>1. 4 \in 1..4  OBVIOUS
    <3> QED  BY <1>0, <2>1, <3>1, RanksByCount
  <2>3. /\ Cardinality(Ranks(cards) \ {q}) \in Nat
        /\ Count(cards, q) + Cardinality(Ranks(cards) \ {q}) <= Cardinality(cards)
    BY <1>0, RoomForOne
  <2>4. IsFiniteSet(m \ {q}) /\ Cardinality(m \ {q}) \in Nat /\ Cardinality(m \ {q}) >= 4
    <3>1. CASE q \in m
      <4>1. IsFiniteSet(m \ {q}) /\ Cardinality(m \ {q}) = Cardinality(m) - 1
        BY <1>3, <3>1, FS_RemoveElement
      <4> QED  BY <1>2, <1>3, <4>1
    <3>2. CASE q \notin m
      <4>1. m \ {q} = m  BY <3>2
      <4> QED  BY <1>2, <1>3, <4>1
    <3> QED  BY <3>1, <3>2
  <2>5. IsFiniteSet(Ranks(cards) \ {q}) /\ m \ {q} \in SUBSET (Ranks(cards) \ {q})
    BY <1>3, FS_Subset
  <2>6. Cardinality(m \ {q}) <= Cardinality(Ranks(cards) \ {q})  BY <2>5, FS_Subset
  <2> QED  BY <1>0, <2>2, <2>3, <2>4, <2>6
<1>13. CASE Misjudged(cards)
  <2>1. \E t \in 1..4 : LowSix \subseteq suitMask(cards, t)
    <3>1. WheelHidesStraight(cards)  BY <1>12, <1>13 DEF Misjudged
    <3>2. ~(\A t \in 1..4 : Cardinality(suitMask(cards, t)) < 5)  BY <1>2, <1>3
    <3> QED  BY <3>1, <3>2 DEF WheelHidesStraight
  <2>2. PICK t \in 1..4 : LowSix \subseteq suitMask(cards, t)  BY <2>1
  <2>3. Wheel \subseteq suitMask(cards, t) /\ Run(6) \subseteq suitMask(cards, t) /\ 6 \in 5..14
    BY <2>2 DEF LowSix, Wheel, Run
  <2>4. IsMade(cards, 8, 6, 0, 0, 0, 0)
    <3>1. MakesStraightFlush(cards, 6)  BY <2>3 DEF MakesStraightFlush
    <3> QED  BY <2>3, <3>1, HandIsMade
  <2>5. suitMask(cards, t) = m
    <3>1. suitMask(cards, t) \in SUBSET Int /\ IsFiniteSet(suitMask(cards, t))
      BY <1>0, SuitsOfCards
    <3>2. Cardinality(suitMask(cards, t)) >= 5  BY <2>3, <3>1, RunIsFive
    <3> QED  BY <1>0, <1>4, <3>2, SuitedMasks
  <2>6. h = 5  BY <1>3, <2>3, <2>5, StraightHighFinds DEF h
  <2>7. h < 6 \/ (h = 6 /\ 0 < 0)  BY <2>6
  <2> QED  BY <1>8, <1>9, <1>13, <2>4, <2>7, SettledWrong
<1>14. CASE ~Misjudged(cards)
  <2>1. ASSUME NEW a, NEW b, NEW c, NEW d, NEW e, IsMade(cards, 8, a, b, c, d, e)
        PROVE  NoHigher(a, b, c, d, e, h, 0, 0, 0, 0)
    <3>1. a \in 5..14 /\ Run(a) \subseteq m /\ b = 0 /\ c = 0 /\ d = 0 /\ e = 0  BY <1>11, <2>1
    <3>2. a <= h
      <4>1. CASE Wheel \subseteq m
        <5>1. h = 5  BY <1>3, <4>1, StraightHighFinds DEF h
        <5>2. a \notin 6..14
          <6>1. ASSUME a \in 6..14 PROVE FALSE
            <7>1. LowSix \subseteq m  BY <1>3, <3>1, <4>1, <6>1, WheelBesideStraight
            <7> QED  BY <1>2, <1>14, <7>1 DEF Misjudged, WheelHidesStraight
          <6> QED  BY <6>1
        <5> QED  BY <3>1, <5>1, <5>2
      <4>2. CASE ~(Wheel \subseteq m)  BY <1>3, <3>1, <4>2, StraightHighFinds DEF h
      <4> QED  BY <4>1, <4>2
    <3>3. a < h \/ a = h  BY <1>5, <3>1, <3>2
    <3> QED  BY <3>1, <3>3 DEF NoHigher
  <2> QED  BY <1>8, <1>9, <1>10, <1>14, <2>1, SettledRight
<1> QED  BY <1>13, <1>14

\* The card beside four of a kind is of a rank that occurs, and the highest of them
\* except where a pair is passed over for a single card.
LEMMA QuadsKicker ==
  ASSUME NEW cards, Dealt(cards), NEW q \in OfCount(cards, 4),
         NEW k, k = firstRankNot(OfCount(cards, 1), OfCount(cards, 2), OfCount(cards, 3))
  PROVE  /\ k \in Ranks(cards) \ {q}
         /\ SingleHidesPair(cards) => \E p \in Ranks(cards) \ {q} : k < p
         /\ ~SingleHidesPair(cards) => \A r \in Ranks(cards) \ {q} : r <= k
<1> DEFINE singles == OfCount(cards, 1)
           pairs == OfCount(cards, 2)
           trips == OfCount(cards, 3)
<1>0. /\ cards \in SUBSET AllCards /\ IsFiniteSet(cards) /\ Cardinality(cards) \in Nat
      /\ Cardinality(cards) >= 5 /\ Cardinality(cards) <= 7
  BY DEF Dealt
<1>1. /\ \A n \in 1..4 : \A r : r \in OfCount(cards, n) <=> Count(cards, r) = n
      /\ \A r : Count(cards, r) \in 0..4 /\ (r \in Ranks(cards) <=> Count(cards, r) >= 1)
      /\ \A n : /\ OfCount(cards, n) \in SUBSET Rank /\ OfCount(cards, n) \in SUBSET Int
                /\ IsFiniteSet(OfCount(cards, n))
  BY <1>0, RanksByCount
<1>2. /\ \A r : r \in singles <=> Count(cards, r) = 1
      /\ \A r : r \in pairs <=> Count(cards, r) = 2
      /\ \A r : r \in trips <=> Count(cards, r) = 3
      /\ Count(cards, q) = 4
  <2>1. 1 \in 1..4 /\ 2 \in 1..4 /\ 3 \in 1..4 /\ 4 \in 1..4  OBVIOUS
  <2> QED  BY <1>1, <2>1
<1>3. ASSUME NEW r, r # q
      PROVE  /\ Count(cards, r) <= 3
             /\ \A o : o \notin {r, q} /\ o \in Ranks(cards) => Count(cards, r) <= 2
             /\ \A o : o \notin {r, q} /\ Count(cards, r) = 2 /\ o \in Ranks(cards) =>
                  Count(cards, o) = 1 /\ Ranks(cards) = {r, q, o}
  <2> DEFINE rest == Ranks(cards) \ {q, r}
  <2>1. /\ Cardinality(rest) \in Nat
        /\ Count(cards, q) + Count(cards, r) + Cardinality(rest) <= Cardinality(cards)
    BY <1>0, <1>3, RoomForTwo
  <2>2. IsFiniteSet(rest)
    <3>1. IsFiniteSet(Ranks(cards))  BY <1>0, RanksOfCards
    <3> QED  BY <3>1, FS_Subset
  <2>3. Count(cards, r) \in 0..4  BY <1>1
  <2>4. Count(cards, r) <= 3  BY <1>0, <1>2, <2>1, <2>3
  <2>5. ASSUME NEW o, o \notin {r, q}, o \in Ranks(cards) PROVE Count(cards, r) <= 2
    <3>1. o \in rest  BY <2>5
    <3> HIDE DEF rest
    <3>2. Cardinality(rest) # 0  BY <2>2, <3>1, FS_EmptySet
    <3> QED  BY <1>0, <1>2, <2>1, <2>3, <3>2
  <2>6. ASSUME NEW o, o \notin {r, q}, Count(cards, r) = 2, o \in Ranks(cards)
        PROVE  Count(cards, o) = 1 /\ Ranks(cards) = {r, q, o}
    <3> DEFINE more == Ranks(cards) \ {q, r, o}
    <3>1. /\ Cardinality(more) \in Nat
          /\ Count(cards, q) + Count(cards, r) + Count(cards, o) + Cardinality(more)
               <= Cardinality(cards)
      BY <1>0, <1>3, <2>6, RoomForThree
    <3>2. Count(cards, o) \in 0..4 /\ Count(cards, o) >= 1  BY <1>1, <2>6
    <3>3. Count(cards, o) = 1 /\ Cardinality(more) = 0  BY <1>0, <1>2, <2>6, <3>1, <3>2
    <3>4. IsFiniteSet(more)
      <4>1. IsFiniteSet(Ranks(cards))  BY <1>0, RanksOfCards
      <4> QED  BY <4>1, FS_Subset
    <3>5. more = {}
      <4> HIDE DEF more
      <4> QED  BY <3>3, <3>4, FS_EmptySet
    <3>6. r \in Ranks(cards) /\ q \in Ranks(cards)  BY <1>1, <1>2, <2>6
    <3> QED  BY <2>6, <3>3, <3>5, <3>6
  <2> QED  BY <2>4, <2>5, <2>6
<1>4. \A r \in Ranks(cards) \ {q} : r \in singles \/ r \in pairs \/ r \in trips
  <2> SUFFICES ASSUME NEW r \in Ranks(cards) \ {q}
               PROVE  r \in singles \/ r \in pairs \/ r \in trips
    OBVIOUS
  <2>1. Count(cards, r) \in 0..4 /\ Count(cards, r) >= 1 /\ Count(cards, r) <= 3  BY <1>1, <1>3
  <2> HIDE DEF singles, pairs, trips
  <2> QED  BY <1>2, <2>1
<1>5. \A r : r \in singles \/ r \in pairs \/ r \in trips => r \in Ranks(cards) \ {q}
  <2> HIDE DEF singles, pairs, trips
  <2> QED  BY <1>1, <1>2
<1>6. /\ singles \in SUBSET Int /\ pairs \in SUBSET Int /\ trips \in SUBSET Int
      /\ IsFiniteSet(singles) /\ IsFiniteSet(pairs) /\ IsFiniteSet(trips)
  BY <1>1
<1>7. Ranks(cards) \ {q} # {}
  <2>1. /\ Cardinality(cards) = Count(cards, q) + Cardinality(Without(cards, q))
        /\ Ranks(Without(cards, q)) = Ranks(cards) \ {q}
    BY <1>0, SplitByRank
  <2>2. Without(cards, q) # {}
    <3>1. Cardinality({}) = 0  BY FS_EmptySet
    <3>2. Count(cards, q) = 4  BY <1>2
    <3>3. ASSUME Without(cards, q) = {} PROVE Cardinality(cards) = 4
      <4>1. Cardinality(Without(cards, q)) = 0  BY <3>1, <3>3
      <4> QED  BY <2>1, <3>2, <4>1
    <3> QED  BY <1>0, <3>3
  <2>3. Ranks(Without(cards, q)) # {}  BY <2>2 DEF Ranks
  <2> QED  BY <2>1, <2>3
<1>8. SingleHidesPair(cards) <=> \E p \in pairs, single \in singles : p > single
  BY Zenon DEF SingleHidesPair
<1>9. ASSUME NEW r \in trips, NEW o \in Ranks(cards) \ {q} PROVE o = r
  <2>1. r # q /\ Count(cards, r) = 3  BY <1>2, <1>5
  <2> HIDE DEF trips
  <2> QED  BY <1>3, <2>1
<1>10. ASSUME NEW p \in pairs, NEW o \in singles PROVE Ranks(cards) = {p, q, o}
  <2>1. p # q /\ Count(cards, p) = 2 /\ o \notin {p, q} /\ o \in Ranks(cards)
    <3>1. Count(cards, o) = 1  BY <1>2
    <3>2. Count(cards, p) = 2  BY <1>2
    <3> QED  BY <1>2, <1>5, <3>1, <3>2
  <2> QED  BY <1>3, <2>1
<1>11. \A r \in trips : r \notin singles /\ r \notin pairs
  <2> HIDE DEF singles, pairs, trips
  <2> QED  BY <1>2
<1>12. \A r \in pairs : r \notin singles
  <2> HIDE DEF singles, pairs, trips
  <2> QED  BY <1>2
<1>13. k = IF singles # {} THEN Highest(singles)
           ELSE IF pairs # {} THEN Highest(pairs)
           ELSE IF trips # {} THEN Highest(trips) ELSE 0
  BY DEF firstRankNot
<1> HIDE DEF singles, pairs, trips
<1>14. CASE singles # {}
  <2>1. k \in singles /\ \A y \in singles : y <= k  BY <1>6, <1>13, <1>14, HighestIs
  <2>2. \A r \in Ranks(cards) \ {q} : r \in singles \/ r \in pairs  BY <1>4, <1>9, <1>11, <2>1, <1>5
  <2>3. ASSUME NEW p \in pairs, NEW single \in singles, p > single
        PROVE  \E r \in Ranks(cards) \ {q} : k < r
    <3>1. Ranks(cards) = {p, q, single}  BY <1>10
    <3>2. k = single  BY <1>5, <1>12, <2>1, <3>1
    <3>3. k < p  BY <1>6, <2>3, <3>2
    <3> QED  BY <1>5, <3>3
  <2>4. ASSUME ~SingleHidesPair(cards), NEW r \in Ranks(cards) \ {q} PROVE r <= k
    <3>1. CASE r \in singles  BY <2>1, <3>1
    <3>2. CASE r \in pairs
      <4>1. ~(r > k)  BY <1>8, <2>1, <2>4, <3>2
      <4>2. r \in Int /\ k \in Int  BY <1>6, <2>1, <3>2
      <4> QED  BY <4>1, <4>2
    <3> QED  BY <2>2, <3>1, <3>2
  <2> QED  BY <1>5, <1>8, <2>1, <2>3, <2>4
<1>15. CASE singles = {} /\ pairs # {}
  <2>1. k \in pairs /\ \A y \in pairs : y <= k  BY <1>6, <1>13, <1>15, HighestIs
  <2>2. \A r \in Ranks(cards) \ {q} : r \in pairs  BY <1>4, <1>5, <1>9, <1>11, <1>15, <2>1
  <2> QED  BY <1>5, <1>8, <1>15, <2>1, <2>2
<1>16. CASE singles = {} /\ pairs = {}
  <2>1. trips # {}  BY <1>4, <1>7, <1>16
  <2>2. k \in trips /\ \A y \in trips : y <= k  BY <1>6, <1>13, <1>16, <2>1, HighestIs
  <2>3. \A r \in Ranks(cards) \ {q} : r \in trips  BY <1>4, <1>16
  <2> QED  BY <1>5, <1>8, <1>16, <2>2, <2>3
<1> QED  BY <1>14, <1>15, <1>16

\* Four of a kind.
LEMMA QuadsSettled ==
  ASSUME NEW cards, Dealt(cards), Straights(cards) = {}, OfCount(cards, 4) # {}
  PROVE  Settled(cards)
<1>0. /\ cards \in SUBSET AllCards /\ IsFiniteSet(cards) /\ Cardinality(cards) \in Nat
      /\ Cardinality(cards) <= 7
  BY DEF Dealt
<1> DEFINE quads == OfCount(cards, 4)
           q == Highest(quads)
           k == firstRankNot(OfCount(cards, 1), OfCount(cards, 2), OfCount(cards, 3))
<1>1. quads \in SUBSET Rank /\ quads \in SUBSET Int /\ IsFiniteSet(quads) /\ Ranks(cards) \in SUBSET Rank
  BY <1>0, RanksByCount, RanksOfCards DEF Rank
<1>2. q \in quads
  <2> HIDE DEF quads
  <2> QED  BY <1>1, HighestIs DEF quads
<1>3. /\ k \in Ranks(cards) \ {q}
      /\ SingleHidesPair(cards) => \E p \in Ranks(cards) \ {q} : k < p
      /\ ~SingleHidesPair(cards) => \A r \in Ranks(cards) \ {q} : r <= k
  <2> HIDE DEF q
  <2> QED  BY <1>2, QuadsKicker
<1>4. \A r : Count(cards, r) >= 4 <=> r \in quads
  <2>1. 4 \in 1..4  OBVIOUS
  <2>2. \A r : (r \in quads <=> Count(cards, r) = 4) /\ Count(cards, r) \in 0..4
    BY <1>0, <2>1, RanksByCount
  <2> HIDE DEF quads
  <2> QED  BY <2>2
<1>5. Evaluate(cards) = encode(Quads, <<q, k>>)
  BY EvaluateIs
<1> HIDE DEF q, k, quads
<1>6. q \in Rank /\ k \in Rank  BY <1>1, <1>2, <1>3
<1>7. Evaluate(cards) = Num(7, q, k, 0, 0, 0)
  <2>1. q \in Digits /\ k \in Digits /\ Quads = 7  BY <1>6, RanksAreDigits, CategoryNumbers
  <2> QED  BY <1>5, <2>1, Encode2
<1>8. \A r \in Ranks(cards) \ {q} : IsMade(cards, 7, q, r, 0, 0, 0)
  <2> SUFFICES ASSUME NEW r \in Ranks(cards) \ {q} PROVE IsMade(cards, 7, q, r, 0, 0, 0)  OBVIOUS
  <2>1. MakesQuads(cards, q, r) /\ {q, r} \subseteq Rank  BY <1>1, <1>2, <1>4, <1>6 DEF MakesQuads
  <2> QED  BY <2>1, HandIsMade
<1>9. NoneAbove(cards, 7)  BY <1>0, NoStraightFlush
<1>10. ~WheelHidesStraight(cards)
  <2> SUFFICES ASSUME WheelHidesStraight(cards) PROVE FALSE  OBVIOUS
  <2>1. LowSix \subseteq Ranks(cards)  BY HiddenIsWheel
  <2>2. Count(cards, q) <= 2  BY <2>1, RoomBesideLowSix
  <2>3. Count(cards, q) >= 4 /\ Count(cards, q) \in 0..4  BY <1>0, <1>2, <1>4, RanksByCount
  <2> QED  BY <2>2, <2>3
<1>11. CASE SingleHidesPair(cards)
  <2>1. PICK p \in Ranks(cards) \ {q} : k < p  BY <1>3, <1>11
  <2>2. IsMade(cards, 7, q, k, 0, 0, 0) /\ IsMade(cards, 7, q, p, 0, 0, 0)  BY <1>3, <1>8
  <2>3. q < q \/ (q = q /\ k < p)  BY <2>1
  <2>4. Misjudged(cards)  BY <1>11 DEF Misjudged
  <2> QED  BY <1>7, <2>2, <2>3, <2>4, SettledWrong
<1>12. CASE ~SingleHidesPair(cards)
  <2>1. ASSUME NEW a, NEW b, NEW c, NEW d, NEW e, IsMade(cards, 7, a, b, c, d, e)
        PROVE  NoHigher(a, b, c, d, e, q, k, 0, 0, 0)
    <3>1. MakesQuads(cards, a, b) /\ {a, b} \subseteq Rank /\ c = 0 /\ d = 0 /\ e = 0
      BY <2>1, MadeInCategory
    <3>2. a = q
      <4> SUFFICES ASSUME a # q PROVE FALSE  OBVIOUS
      <4>1. /\ Cardinality(Ranks(cards) \ {a, q}) \in Nat
            /\ Count(cards, a) + Count(cards, q) + Cardinality(Ranks(cards) \ {a, q})
                 <= Cardinality(cards)
        BY <1>0, RoomForTwo
      <4>2. /\ Count(cards, a) >= 4 /\ Count(cards, q) >= 4
            /\ Count(cards, a) \in 0..4 /\ Count(cards, q) \in 0..4
        BY <1>0, <1>2, <1>4, <3>1, RanksByCount DEF MakesQuads
      <4> QED  BY <1>0, <4>1, <4>2
    <3>3. b \in Ranks(cards) \ {q}  BY <3>1, <3>2 DEF MakesQuads
    <3>4. b <= k  BY <1>3, <1>12, <3>3
    <3>5. b < k \/ b = k  BY <1>6, <3>1, <3>4 DEF Rank
    <3> QED  BY <3>1, <3>2, <3>5 DEF NoHigher
  <2>2. ~Misjudged(cards)  BY <1>10, <1>12 DEF Misjudged
  <2>3. IsMade(cards, 7, q, k, 0, 0, 0)  BY <1>3, <1>8
  <2> QED  BY <1>7, <1>9, <2>1, <2>2, <2>3, SettledRight
<1> QED  BY <1>11, <1>12

\* Without four of a kind nothing is passed over for a single card, and a straight is
\* hidden only where it is what Evaluate finds.
LEMMA NotMisjudged ==
  ASSUME NEW cards, Dealt(cards), Straights(cards) = {}, OfCount(cards, 4) = {},
         Suited(cards) # {} \/ ~(LowSix \subseteq Ranks(cards))
  PROVE  ~Misjudged(cards)
BY HiddenIsWheel DEF Misjudged, SingleHidesPair

\* A full house: the second rank is the highest of the pairs and other threes.
LEMMA FullHouseSettled ==
  ASSUME NEW cards, Dealt(cards), Straights(cards) = {}, OfCount(cards, 4) = {},
         OfCount(cards, 3) # {}, OfCount(cards, 2) # {} \/ Cardinality(OfCount(cards, 3)) > 1
  PROVE  Settled(cards)
<1> DEFINE trips == OfCount(cards, 3)
           pairs == OfCount(cards, 2)
           t == Highest(trips)
           others == pairs \union (trips \ {t})
           p == pairRank(trips, pairs)
<1>0. cards \in SUBSET AllCards /\ IsFiniteSet(cards)  BY DEF Dealt
<1>1. /\ trips \in SUBSET Rank /\ pairs \in SUBSET Rank /\ trips \in SUBSET Int
      /\ IsFiniteSet(trips) /\ IsFiniteSet(pairs) /\ Cardinality(trips) \in Nat
  BY <1>0, RanksByCount
<1>2. /\ \A r : r \in trips <=> Count(cards, r) = 3
      /\ \A r : r \in pairs <=> Count(cards, r) = 2
      /\ \A r : Count(cards, r) \in 0..4 /\ Count(cards, r) # 4
  <2>1. 2 \in 1..4 /\ 3 \in 1..4 /\ 4 \in 1..4  OBVIOUS
  <2>2. /\ \A r : r \in trips <=> Count(cards, r) = 3
        /\ \A r : r \in pairs <=> Count(cards, r) = 2
        /\ \A r : Count(cards, r) \in 0..4
        /\ \A r : r \in OfCount(cards, 4) <=> Count(cards, r) = 4
    BY <1>0, <2>1, RanksByCount
  <2> HIDE DEF trips, pairs
  <2> QED  BY <2>2
<1>3. t \in trips /\ \A y \in trips : y <= t
  <2>1. trips # {}  OBVIOUS
  <2> HIDE DEF trips
  <2> QED  BY <1>1, <2>1, HighestIs
<1>4. p = Highest({0} \union others)
  <2>1. p = Highest({0} \union pairs \union (trips \ {t}))  BY DEF pairRank
  <2>2. {0} \union pairs \union (trips \ {t}) = {0} \union others  OBVIOUS
  <2> HIDE DEF p, others, trips, pairs
  <2> QED  BY <2>1, <2>2
<1>5. others # {}
  <2>1. pairs # {} \/ Cardinality(trips) > 1  OBVIOUS
  <2> HIDE DEF trips, pairs, t
  <2>2. CASE pairs # {}  BY <2>2
  <2>3. CASE Cardinality(trips) > 1
    <3>1. Cardinality(trips \ {t}) = Cardinality(trips) - 1 /\ IsFiniteSet(trips \ {t})
      BY <1>1, <1>3, FS_RemoveElement
    <3>2. trips \ {t} # {}
      <4>1. Cardinality({}) = 0  BY FS_EmptySet
      <4>2. ASSUME trips \ {t} = {} PROVE Cardinality(trips) - 1 = 0  BY <3>1, <4>1, <4>2
      <4> QED  BY <1>1, <2>3, <4>2
    <3> QED  BY <3>2
  <2> QED  BY <2>1, <2>2, <2>3
<1> HIDE DEF trips, pairs, t, p
<1>6. others \in SUBSET Rank /\ IsFiniteSet({0} \union others) /\ {0} \union others \in SUBSET Int
  <2>1. others \in SUBSET Rank  BY <1>1
  <2>2. IsFiniteSet(trips \ {t})  BY <1>1, FS_Subset
  <2>3. IsFiniteSet(others)  BY <1>1, <2>2, FS_Union
  <2>4. IsFiniteSet({0})  BY SizeOf1
  <2> HIDE DEF others
  <2> QED  BY <2>1, <2>3, <2>4, FS_Union DEF Rank
<1>7. \A r : r \in others <=> r # t /\ (Count(cards, r) = 2 \/ Count(cards, r) = 3)
  <2>1. Count(cards, t) = 3  BY <1>2, <1>3
  <2> QED  BY <1>2, <2>1
<1> HIDE DEF others
<1>8. p \in others /\ \A r \in others : r <= p
  <2>1. {0} \union others # {}  OBVIOUS
  <2>2. p \in {0} \union others /\ \A y \in {0} \union others : y <= p
    BY <1>4, <1>6, <2>1, HighestIs
  <2>3. PICK r \in others : TRUE  BY <1>5
  <2>4. r \in Rank /\ r <= p  BY <1>6, <2>2, <2>3
  <2>5. p # 0  BY <2>4 DEF Rank
  <2> QED  BY <2>2, <2>5
<1>9. t \in Rank /\ p \in Rank  BY <1>1, <1>3, <1>6, <1>8
<1>10. Evaluate(cards) = Num(6, t, p, 0, 0, 0)
  <2>1. Evaluate(cards) = encode(FullHouse, <<t, p>>)  BY EvaluateIs DEF t, p, trips, pairs
  <2>2. t \in Digits /\ p \in Digits /\ FullHouse = 6  BY <1>9, RanksAreDigits, CategoryNumbers
  <2> QED  BY <2>1, <2>2, Encode2
<1>11. IsMade(cards, 6, t, p, 0, 0, 0)
  <2>1. Count(cards, t) = 3 /\ t # p /\ (Count(cards, p) = 2 \/ Count(cards, p) = 3)
    BY <1>2, <1>3, <1>7, <1>8
  <2>2. MakesFullHouse(cards, t, p) /\ {t, p} \subseteq Rank  BY <1>9, <2>1 DEF MakesFullHouse
  <2> QED  BY <2>2, HandIsMade
<1>12. NoneAbove(cards, 6)  BY <1>0, NoStraightFlush, NoQuads
<1>13. ~Misjudged(cards)
  <2>1. Count(cards, t) = 3  BY <1>2, <1>3
  <2>2. ~(LowSix \subseteq Ranks(cards))
    <3>1. ~(Count(cards, t) <= 2)  BY <2>1
    <3> QED  BY <3>1, RoomBesideLowSix
  <2> QED  BY <2>2, NotMisjudged
<1>14. ASSUME NEW a, NEW b, NEW c, NEW d, NEW e, IsMade(cards, 6, a, b, c, d, e)
       PROVE  NoHigher(a, b, c, d, e, t, p, 0, 0, 0)
  <2>1. MakesFullHouse(cards, a, b) /\ {a, b} \subseteq Rank /\ c = 0 /\ d = 0 /\ e = 0
    BY <1>14, MadeInCategory
  <2>2. Count(cards, a) >= 3 /\ Count(cards, b) >= 2 /\ a # b  BY <2>1 DEF MakesFullHouse
  <2>3. /\ Count(cards, a) \in 0..4 /\ Count(cards, b) \in 0..4
        /\ Count(cards, a) # 4 /\ Count(cards, b) # 4
    BY <1>2
  <2>4. Count(cards, a) = 3 /\ (Count(cards, b) = 2 \/ Count(cards, b) = 3)  BY <2>2, <2>3
  <2>5. a <= t  BY <1>2, <1>3, <2>4
  <2>6. a = t => b <= p  BY <1>7, <1>8, <2>2, <2>4
  <2>7. a < t \/ (a = t /\ (b < p \/ b = p))  BY <1>9, <2>1, <2>5, <2>6 DEF Rank
  <2> QED  BY <2>1, <2>7 DEF NoHigher
<1> QED  BY <1>10, <1>11, <1>12, <1>13, <1>14, SettledRight

\* A flush: the five highest of the suit.
LEMMA FlushSettled ==
  ASSUME NEW cards, Dealt(cards), Straights(cards) = {}, OfCount(cards, 4) = {},
         ~(OfCount(cards, 3) # {} /\ (OfCount(cards, 2) # {} \/ Cardinality(OfCount(cards, 3)) > 1)),
         Suited(cards) # {}
  PROVE  Settled(cards)
<1>0. cards \in SUBSET AllCards /\ IsFiniteSet(cards) /\ Cardinality(cards) <= 7  BY DEF Dealt
<1> DEFINE m == CHOOSE n \in Suited(cards) : TRUE
<1>1. m \in Suited(cards)  OBVIOUS
<1>2. Evaluate(cards) = encode(Flush, topRanks(m, 5))  BY EvaluateIs, Zenon
<1> HIDE DEF m
<1>3. /\ m \in SUBSET Rank /\ IsFiniteSet(m) /\ \A n \in Suited(cards) : n = m
      /\ \A s : Cardinality(suitMask(cards, s)) >= 5 => suitMask(cards, s) = m
  BY <1>0, <1>1, SuitedMasks
<1>4. PICK s \in 1..4 : m = suitMask(cards, s) /\ Cardinality(m) >= 5  BY <1>0, <1>1, SuitedMasks
<1>5. m \in SUBSET Int  BY <1>3 DEF Rank
<1>6. PICK v, w, x, y, z \in m :
        /\ topRanks(m, 5) = <<v, w, x, y, z>> /\ InOrder(m, v, w, x, y, z)
        /\ \A a, b, c, d, e : InOrder(m, a, b, c, d, e) => NoHigher(a, b, c, d, e, v, w, x, y, z)
  BY <1>3, <1>4, <1>5, TopFive
<1>7. v \in Rank /\ w \in Rank /\ x \in Rank /\ y \in Rank /\ z \in Rank  BY <1>3
<1>8. Evaluate(cards) = Num(5, v, w, x, y, z)
  <2>1. /\ v \in Digits /\ w \in Digits /\ x \in Digits /\ y \in Digits /\ z \in Digits
        /\ Flush = 5 /\ Flush \in Nat
    BY <1>7, RanksAreDigits, CategoryNumbers
  <2> QED  BY <1>2, <1>6, <2>1, Encode5
<1>9. IsMade(cards, 5, v, w, x, y, z)
  <2>1. MakesFlush(cards, v, w, x, y, z)  BY <1>4, <1>6, Zenon DEF MakesFlush
  <2>2. {v, w, x, y, z} \subseteq Rank  BY <1>7
  <2> QED  BY <2>1, <2>2, HandIsMade
<1>10. NoneAbove(cards, 5)  BY <1>0, NoStraightFlush, NoQuads, NoFullHouse
<1>11. ~Misjudged(cards)  BY NotMisjudged
<1>12. ASSUME NEW a, NEW b, NEW c, NEW d, NEW e, IsMade(cards, 5, a, b, c, d, e)
       PROVE  NoHigher(a, b, c, d, e, v, w, x, y, z)
  <2>1. MakesFlush(cards, a, b, c, d, e)  BY <1>12, MadeInCategory
  <2>2. PICK t \in 1..4 : InOrder(suitMask(cards, t), a, b, c, d, e)  BY <2>1 DEF MakesFlush
  <2>3. suitMask(cards, t) \in SUBSET Int /\ IsFiniteSet(suitMask(cards, t))
    BY <1>0, SuitsOfCards
  <2>4. Cardinality(suitMask(cards, t)) >= 5  BY <2>2, <2>3, InOrderIsFive
  <2>5. InOrder(m, a, b, c, d, e)  BY <1>3, <2>2, <2>4
  <2> QED  BY <1>6, <2>5
<1> QED  BY <1>8, <1>9, <1>10, <1>11, <1>12, SettledRight

\* A straight: the highest, unless the wheel is there as well.
LEMMA StraightSettled ==
  ASSUME NEW cards, Dealt(cards), Straights(cards) = {}, OfCount(cards, 4) = {},
         ~(OfCount(cards, 3) # {} /\ (OfCount(cards, 2) # {} \/ Cardinality(OfCount(cards, 3)) > 1)),
         Suited(cards) = {}, straightHigh(Ranks(cards)) > 0
  PROVE  Settled(cards)
<1> DEFINE m == Ranks(cards)
           h == straightHigh(m)
<1>0. /\ cards \in SUBSET AllCards /\ IsFiniteSet(cards) /\ Cardinality(cards) <= 7
      /\ Cardinality(cards) \in Nat
  BY DEF Dealt
<1>1. m \in SUBSET (2..14) /\ IsFiniteSet(m) /\ Cardinality(m) <= 7
  <2>1. /\ m \in SUBSET (2..14) /\ IsFiniteSet(m)
        /\ Cardinality(m) \in Nat /\ Cardinality(m) <= Cardinality(cards)
    BY <1>0, RanksOfCards
  <2> QED  BY <1>0, <2>1
<1>2. Evaluate(cards) = encode(Straight, <<h>>)
  BY EvaluateIs
<1>3. h > 0  OBVIOUS
<1> HIDE DEF h, m
<1>4. h \in 5..14 /\ Run(h) \subseteq m
  <2>1. h # 0  BY <1>3
  <2> QED  BY <1>1, <2>1, StraightHighFinds DEF h
<1>5. Evaluate(cards) = Num(4, h, 0, 0, 0, 0)
  <2>1. h \in Digits /\ Straight = 4  BY <1>4, RanksAreDigits, CategoryNumbers
  <2> QED  BY <1>2, <2>1, Encode1
<1>6. \A a \in 5..14 : Run(a) \subseteq m => IsMade(cards, 4, a, 0, 0, 0, 0)
  BY HandIsMade DEF MakesStraight, m
<1>7. NoneAbove(cards, 4)  BY <1>0, NoStraightFlush, NoQuads, NoFullHouse, NoFlush
<1>8. Misjudged(cards) <=> LowSix \subseteq m
  <2>1. Misjudged(cards) => LowSix \subseteq m  BY NotMisjudged DEF m
  <2>2. ASSUME LowSix \subseteq m PROVE Misjudged(cards)
    <3>1. ASSUME NEW s \in 1..4 PROVE Cardinality(suitMask(cards, s)) < 5
      <4>1. ~(Cardinality(suitMask(cards, s)) >= 5)  BY <1>0, SuitedMasks
      <4>2. Cardinality(suitMask(cards, s)) \in Nat  BY <1>0, SuitsOfCards
      <4> QED  BY <4>1, <4>2
    <3> QED  BY <2>2, <3>1 DEF Misjudged, WheelHidesStraight, m
  <2> QED  BY <2>1, <2>2
<1>9. CASE LowSix \subseteq m
  <2>1. Wheel \subseteq m /\ Run(6) \subseteq m /\ 6 \in 5..14  BY <1>9 DEF LowSix, Wheel, Run
  <2>2. h = 5  BY <1>1, <2>1, StraightHighFinds DEF h
  <2>3. h < 6 \/ (h = 6 /\ 0 < 0)  BY <2>2
  <2>4. IsMade(cards, 4, h, 0, 0, 0, 0) /\ IsMade(cards, 4, 6, 0, 0, 0, 0)  BY <1>4, <1>6, <2>1
  <2>5. Misjudged(cards)  BY <1>8, <1>9
  <2> QED  BY <1>5, <2>3, <2>4, <2>5, SettledWrong
<1>10. CASE ~(LowSix \subseteq m)
  <2>1. ASSUME NEW a, NEW b, NEW c, NEW d, NEW e, IsMade(cards, 4, a, b, c, d, e)
        PROVE  NoHigher(a, b, c, d, e, h, 0, 0, 0, 0)
    <3>1. a \in 5..14 /\ Run(a) \subseteq m /\ b = 0 /\ c = 0 /\ d = 0 /\ e = 0
      BY <2>1, MadeInCategory DEF MakesStraight, m
    <3>2. a <= h
      <4>1. CASE Wheel \subseteq m
        <5>1. h = 5  BY <1>1, <4>1, StraightHighFinds DEF h
        <5>2. a \notin 6..14  BY <1>1, <1>10, <3>1, <4>1, WheelBesideStraight
        <5> QED  BY <3>1, <5>1, <5>2
      <4>2. CASE ~(Wheel \subseteq m)  BY <1>1, <3>1, <4>2, StraightHighFinds DEF h
      <4> QED  BY <4>1, <4>2
    <3>3. a < h \/ a = h  BY <1>4, <3>1, <3>2
    <3> QED  BY <3>1, <3>3 DEF NoHigher
  <2>2. IsMade(cards, 4, h, 0, 0, 0, 0)  BY <1>4, <1>6
  <2>3. ~Misjudged(cards)  BY <1>8, <1>10
  <2> QED  BY <1>5, <1>7, <2>1, <2>2, <2>3, SettledRight
<1> QED  BY <1>9, <1>10

\* Where there is no straight nothing is hidden.
LEMMA NoStraightHidden ==
  ASSUME NEW cards, Dealt(cards), Straights(cards) = {}, OfCount(cards, 4) = {},
         ~(straightHigh(Ranks(cards)) > 0)
  PROVE  ~Misjudged(cards)
<1> SUFFICES ASSUME LowSix \subseteq Ranks(cards) PROVE FALSE  BY NotMisjudged
<1>1. Ranks(cards) \in SUBSET (2..14)  BY RanksOfCards DEF Dealt
<1>2. Wheel \subseteq Ranks(cards)  BY DEF Wheel, LowSix
<1>3. straightHigh(Ranks(cards)) = 5  BY <1>1, <1>2, StraightHighFinds
<1> QED  BY <1>3

\* Three of a kind and the two highest others.
LEMMA TripsSettled ==
  ASSUME NEW cards, Dealt(cards), Straights(cards) = {}, OfCount(cards, 4) = {},
         ~(OfCount(cards, 3) # {} /\ (OfCount(cards, 2) # {} \/ Cardinality(OfCount(cards, 3)) > 1)),
         Suited(cards) = {}, ~(straightHigh(Ranks(cards)) > 0), OfCount(cards, 3) # {}
  PROVE  Settled(cards)
<1> DEFINE trips == OfCount(cards, 3)
           t == Highest(trips)
           rest == Ranks(cards) \ {t}
<1>0. cards \in SUBSET AllCards /\ IsFiniteSet(cards) /\ Cardinality(cards) >= 5  BY DEF Dealt
<1>1. trips \in SUBSET Int /\ IsFiniteSet(trips) /\ Cardinality(trips) \in Nat /\ trips \in SUBSET Ranks(cards)
  BY <1>0, RanksByCount
<1>2. \A r : Count(cards, r) >= 3 <=> r \in trips
  <2>1. 3 \in 1..4 /\ 4 \in 1..4  OBVIOUS
  <2>2. \A r : /\ Count(cards, r) \in 0..4 /\ (r \in trips <=> Count(cards, r) = 3)
               /\ (r \in OfCount(cards, 4) <=> Count(cards, r) = 4)
    BY <1>0, <2>1, RanksByCount
  <2> HIDE DEF trips
  <2> QED  BY <2>2
<1>3. t \in trips
  <2>1. trips # {}  OBVIOUS
  <2> HIDE DEF trips
  <2> QED  BY <1>1, <2>1, HighestIs
<1>4. \A r \in trips : r = t
  <2>1. ~(Cardinality(trips) > 1)  OBVIOUS
  <2> HIDE DEF trips, t
  <2> SUFFICES ASSUME NEW r \in trips, r # t PROVE FALSE  OBVIOUS
  <2>2. Cardinality(trips) >= 2  BY <1>1, <1>3, HoldsTwo
  <2> QED  BY <1>1, <2>1, <2>2
<1>5. Evaluate(cards) = encode(Trips, <<t>> \o topRanks(rest, 2))  BY EvaluateIs
<1> HIDE DEF t, trips
<1>6. NoneAbove(cards, 3)  BY <1>0, NoStraightFlush, NoQuads, NoFullHouse, NoFlush, NoStraight
<1>7. Ranks(cards) \in SUBSET (2..14) /\ IsFiniteSet(Ranks(cards)) /\ Cardinality(Ranks(cards)) \in Nat
  BY <1>0, RanksOfCards
<1>8. Cardinality(Ranks(cards)) >= 3  BY <1>0, <1>6, EnoughRanks
<1>9. rest \in SUBSET Int /\ IsFiniteSet(rest) /\ Cardinality(rest) >= 2
  <2>1. IsFiniteSet(rest) /\ Cardinality(rest) = Cardinality(Ranks(cards)) - 1
    BY <1>1, <1>3, <1>7, FS_RemoveElement
  <2>2. rest \in SUBSET Int  BY <1>7
  <2> QED  BY <1>7, <1>8, <2>1, <2>2
<1>10. PICK x, y \in rest : /\ topRanks(rest, 2) = <<x, y>> /\ x > y
                            /\ \A r \in rest : r = x \/ r = y \/ r < y
  <2> HIDE DEF rest
  <2> QED  BY <1>9, TopTwo
<1>11. t \in Rank /\ x \in Rank /\ y \in Rank  BY <1>1, <1>3, <1>7 DEF Rank
<1>12. Evaluate(cards) = Num(3, t, x, y, 0, 0)
  <2>1. /\ t \in Digits /\ x \in Digits /\ y \in Digits /\ Trips = 3 /\ Trips \in Nat
    BY <1>11, RanksAreDigits, CategoryNumbers
  <2>2. <<t>> \o <<x, y>> = <<t, x, y>>  BY <1>11, JoinOneTwo DEF Rank
  <2> QED  BY <1>5, <1>10, <2>1, <2>2, Encode3
<1>13. IsMade(cards, 3, t, x, y, 0, 0)
  <2>1. MakesTrips(cards, t, x, y)  BY <1>2, <1>3, <1>10 DEF MakesTrips
  <2>2. {t, x, y} \subseteq Rank  BY <1>11
  <2> QED  BY <2>1, <2>2, HandIsMade
<1>14. ~Misjudged(cards)  BY NoStraightHidden
<1>15. ASSUME NEW a, NEW b, NEW c, NEW d, NEW e, IsMade(cards, 3, a, b, c, d, e)
       PROVE  NoHigher(a, b, c, d, e, t, x, y, 0, 0)
  <2>1. MakesTrips(cards, a, b, c) /\ {a, b, c} \subseteq Rank /\ d = 0 /\ e = 0
    BY <1>15, MadeInCategory
  <2>2. a = t  BY <1>2, <1>4, <2>1 DEF MakesTrips
  <2>3. b \in rest /\ c \in rest /\ b > c  BY <2>1, <2>2 DEF MakesTrips
  <2>4. (b = x \/ b = y \/ b < y) /\ (c = x \/ c = y \/ c < y)  BY <1>10, <2>3
  <2>5. b < x \/ (b = x /\ (c < y \/ c = y))  BY <1>10, <1>11, <2>1, <2>3, <2>4 DEF Rank
  <2> QED  BY <2>1, <2>2, <2>5 DEF NoHigher
<1> QED  BY <1>6, <1>12, <1>13, <1>14, <1>15, SettledRight

\* Two pairs, the highest ones, and the highest other.
LEMMA TwoPairSettled ==
  ASSUME NEW cards, Dealt(cards), Straights(cards) = {}, OfCount(cards, 4) = {},
         Suited(cards) = {}, ~(straightHigh(Ranks(cards)) > 0), OfCount(cards, 3) = {},
         Cardinality(OfCount(cards, 2)) >= 2
  PROVE  Settled(cards)
<1> DEFINE pairs == OfCount(cards, 2)
<1>0. cards \in SUBSET AllCards /\ IsFiniteSet(cards) /\ Cardinality(cards) >= 5  BY DEF Dealt
<1>1. pairs \in SUBSET Int /\ IsFiniteSet(pairs) /\ pairs \in SUBSET Ranks(cards)
  BY <1>0, RanksByCount
<1>2. \A r : Count(cards, r) >= 2 <=> r \in pairs
  <2>1. 2 \in 1..4 /\ 3 \in 1..4 /\ 4 \in 1..4  OBVIOUS
  <2>2. \A r : /\ Count(cards, r) \in 0..4 /\ (r \in pairs <=> Count(cards, r) = 2)
               /\ (r \in OfCount(cards, 3) <=> Count(cards, r) = 3)
               /\ (r \in OfCount(cards, 4) <=> Count(cards, r) = 4)
    BY <1>0, <2>1, RanksByCount
  <2> HIDE DEF pairs
  <2> QED  BY <2>2
<1>3. PICK p, q \in pairs : /\ topRanks(pairs, 2) = <<p, q>> /\ p > q
                            /\ \A r \in pairs : r = p \/ r = q \/ r < q
  <2>1. Cardinality(pairs) >= 2  OBVIOUS
  <2> HIDE DEF pairs
  <2> QED  BY <1>1, <2>1, TopTwo
<1> DEFINE rest == Ranks(cards) \ {p, q}
<1>4. Evaluate(cards) = encode(TwoPair, <<p, q>> \o topRanks(rest, 1))
  <2>1. Evaluate(cards) = encode(TwoPair, topRanks(pairs, 2)
             \o topRanks(Ranks(cards) \ {topRanks(pairs, 2)[1], topRanks(pairs, 2)[2]}, 1))
    BY EvaluateIs
  <2>2. <<p, q>>[1] = p /\ <<p, q>>[2] = q  OBVIOUS
  <2> HIDE DEF pairs
  <2> QED  BY <1>3, <2>1, <2>2
<1> HIDE DEF pairs
<1>5. NoneAbove(cards, 3) /\ NoneAbove(cards, 2)
  <2>1. NoneAbove(cards, 3)  BY <1>0, NoStraightFlush, NoQuads, NoFullHouse, NoFlush, NoStraight
  <2> QED  BY <1>0, <2>1, NoTrips
<1>6. Ranks(cards) \in SUBSET (2..14) /\ IsFiniteSet(Ranks(cards)) /\ Cardinality(Ranks(cards)) \in Nat
  BY <1>0, RanksOfCards
<1>7. Cardinality(Ranks(cards)) >= 3  BY <1>0, <1>5, EnoughRanks
<1>8. p \in Rank /\ q \in Rank /\ p # q /\ p \in Ranks(cards) /\ q \in Ranks(cards)
  BY <1>1, <1>3, <1>6 DEF Rank
<1>9. rest \in SUBSET Int /\ IsFiniteSet(rest) /\ Cardinality(rest) >= 1
  <2> DEFINE less == Ranks(cards) \ {p}
  <2>1. IsFiniteSet(less) /\ Cardinality(less) = Cardinality(Ranks(cards)) - 1 /\ q \in less
    BY <1>6, <1>8, FS_RemoveElement
  <2>2. less \ {q} = rest  OBVIOUS
  <2>3. IsFiniteSet(rest) /\ Cardinality(rest) = Cardinality(less) - 1
    <3> HIDE DEF less, rest
    <3> QED  BY <2>1, <2>2, FS_RemoveElement
  <2>4. rest \in SUBSET Int  BY <1>6
  <2> HIDE DEF less, rest
  <2> QED  BY <1>6, <1>7, <2>1, <2>3, <2>4
<1>10. PICK x \in rest : topRanks(rest, 1) = <<x>> /\ \A r \in rest : r <= x
  <2> HIDE DEF rest
  <2> QED  BY <1>9, TopOne
<1>11. x \in Rank  BY <1>6, <1>10 DEF Rank
<1>12. Evaluate(cards) = Num(2, p, q, x, 0, 0)
  <2>1. /\ p \in Digits /\ q \in Digits /\ x \in Digits /\ TwoPair = 2 /\ TwoPair \in Nat
    BY <1>8, <1>11, RanksAreDigits, CategoryNumbers
  <2>2. <<p, q>> \o <<x>> = <<p, q, x>>  BY <1>8, <1>11, JoinTwoOne DEF Rank
  <2> QED  BY <1>4, <1>10, <2>1, <2>2, Encode3
<1>13. IsMade(cards, 2, p, q, x, 0, 0)
  <2>1. MakesTwoPair(cards, p, q, x)  BY <1>2, <1>3, <1>10 DEF MakesTwoPair
  <2>2. {p, q, x} \subseteq Rank  BY <1>8, <1>11
  <2> QED  BY <2>1, <2>2, HandIsMade
<1>14. ~Misjudged(cards)  BY NoStraightHidden
<1>15. ASSUME NEW a, NEW b, NEW c, NEW d, NEW e, IsMade(cards, 2, a, b, c, d, e)
       PROVE  NoHigher(a, b, c, d, e, p, q, x, 0, 0)
  <2>1. MakesTwoPair(cards, a, b, c) /\ {a, b, c} \subseteq Rank /\ d = 0 /\ e = 0
    BY <1>15, MadeInCategory
  <2>2. a \in pairs /\ b \in pairs /\ a > b /\ c \in Ranks(cards) \ {a, b}
    BY <1>2, <2>1 DEF MakesTwoPair
  <2>3. (a = p \/ a = q \/ a < q) /\ (b = p \/ b = q \/ b < q)  BY <1>3, <2>2
  <2>4. a < p \/ (a = p /\ b < q) \/ (a = p /\ b = q)  BY <1>3, <1>8, <2>1, <2>2, <2>3 DEF Rank
  <2>5. a = p /\ b = q => c < x \/ c = x
    <3> SUFFICES ASSUME a = p, b = q PROVE c < x \/ c = x  OBVIOUS
    <3>1. c \in rest  BY <2>2
    <3>2. c <= x  BY <1>10, <3>1
    <3> QED  BY <1>11, <2>1, <3>2 DEF Rank
  <2> QED  BY <2>1, <2>4, <2>5 DEF NoHigher
<1> QED  BY <1>5, <1>12, <1>13, <1>14, <1>15, SettledRight

\* The highest two of a single pair are that pair.
LEMMA TopOfOne ==
  ASSUME NEW p \in Int
  PROVE  topRanks({p}, 2) = <<p>>
<1>1. Cardinality({p}) = 1 /\ IsFiniteSet({p}) /\ {p} \in SUBSET Int  BY SizeOf1
<1>2. topRanks({p}, 2) = topRanks({p}, 1)
  <2> DEFINE S == {p}
  <2>1. Cardinality(S) = 1  BY <1>1
  <2> HIDE DEF S
  <2>2. topRanks(S, 2) = topRanks(S, 1)  BY <2>1 DEF topRanks
  <2> QED  BY <2>2 DEF S
<1>3. \E x \in {p} : topRanks({p}, 1) = <<x>>
  <2>1. Cardinality({p}) >= 1  BY <1>1
  <2> QED  BY <1>1, <2>1, TopOne
<1> QED  BY <1>2, <1>3

\* A pair and the three highest others.
LEMMA PairSettled ==
  ASSUME NEW cards, Dealt(cards), Straights(cards) = {}, OfCount(cards, 4) = {},
         Suited(cards) = {}, ~(straightHigh(Ranks(cards)) > 0), OfCount(cards, 3) = {},
         ~(Cardinality(OfCount(cards, 2)) >= 2), OfCount(cards, 2) # {}
  PROVE  Settled(cards)
<1> DEFINE pairs == OfCount(cards, 2)
<1>0. cards \in SUBSET AllCards /\ IsFiniteSet(cards) /\ Cardinality(cards) >= 5  BY DEF Dealt
<1>1. pairs \in SUBSET Int /\ IsFiniteSet(pairs) /\ pairs \in SUBSET Ranks(cards)
  BY <1>0, RanksByCount
<1>2. \A r : Count(cards, r) >= 2 <=> r \in pairs
  <2>1. 2 \in 1..4 /\ 3 \in 1..4 /\ 4 \in 1..4  OBVIOUS
  <2>2. \A r : /\ Count(cards, r) \in 0..4 /\ (r \in pairs <=> Count(cards, r) = 2)
               /\ (r \in OfCount(cards, 3) <=> Count(cards, r) = 3)
               /\ (r \in OfCount(cards, 4) <=> Count(cards, r) = 4)
    BY <1>0, <2>1, RanksByCount
  <2> HIDE DEF pairs
  <2> QED  BY <2>2
<1>3. PICK p \in pairs : pairs = {p}
  <2>1. pairs # {} /\ ~(Cardinality(pairs) >= 2)  OBVIOUS
  <2> HIDE DEF pairs
  <2>2. PICK p \in pairs : TRUE  BY <2>1
  <2>3. \A r \in pairs : r = p  BY <1>1, <2>1, HoldsTwo
  <2> QED  BY <2>2, <2>3
<1> DEFINE rest == Ranks(cards) \ {p}
<1>4. Evaluate(cards) = encode(OnePair, <<p>> \o topRanks(rest, 3))
  <2>1. Evaluate(cards) = encode(OnePair, topRanks(pairs, 2) \o topRanks(Ranks(cards) \ pairs, 3))
    BY EvaluateIs
  <2>2. p \in Int  BY <1>1
  <2> HIDE DEF pairs
  <2> QED  BY <1>3, <2>1, <2>2, TopOfOne
<1> HIDE DEF pairs
<1>5. NoneAbove(cards, 1)
  <2>1. NoneAbove(cards, 3)  BY <1>0, NoStraightFlush, NoQuads, NoFullHouse, NoFlush, NoStraight
  <2>2. NoneAbove(cards, 2)  BY <1>0, <2>1, NoTrips
  <2> QED  BY <1>0, <2>2, NoTwoPair
<1>6. Ranks(cards) \in SUBSET (2..14) /\ IsFiniteSet(Ranks(cards)) /\ Cardinality(Ranks(cards)) \in Nat
  BY <1>0, RanksOfCards
<1>7. Cardinality(Ranks(cards)) >= 4  BY <1>0, <1>5, EnoughRanks
<1>8. p \in Ranks(cards) /\ p \in Rank  BY <1>1, <1>6 DEF Rank
<1>9. rest \in SUBSET Int /\ IsFiniteSet(rest) /\ Cardinality(rest) >= 3
  <2>1. IsFiniteSet(rest) /\ Cardinality(rest) = Cardinality(Ranks(cards)) - 1
    BY <1>6, <1>8, FS_RemoveElement
  <2>2. rest \in SUBSET Int  BY <1>6
  <2> QED  BY <1>6, <1>7, <2>1, <2>2
<1>10. PICK x, y, z \in rest : /\ topRanks(rest, 3) = <<x, y, z>> /\ x > y /\ y > z
                               /\ \A r \in rest : r = x \/ r = y \/ r = z \/ r < z
  <2> HIDE DEF rest
  <2> QED  BY <1>9, TopThree
<1>11. x \in Rank /\ y \in Rank /\ z \in Rank  BY <1>6 DEF Rank
<1>12. Evaluate(cards) = Num(1, p, x, y, z, 0)
  <2>1. /\ p \in Digits /\ x \in Digits /\ y \in Digits /\ z \in Digits
        /\ OnePair = 1 /\ OnePair \in Nat
    BY <1>8, <1>11, RanksAreDigits, CategoryNumbers
  <2>2. <<p>> \o <<x, y, z>> = <<p, x, y, z>>  BY <1>8, <1>11, JoinOneThree DEF Rank
  <2> QED  BY <1>4, <1>10, <2>1, <2>2, Encode4
<1>13. IsMade(cards, 1, p, x, y, z, 0)
  <2>1. MakesPair(cards, p, x, y, z)  BY <1>2, <1>10 DEF MakesPair
  <2>2. {p, x, y, z} \subseteq Rank  BY <1>8, <1>11
  <2> QED  BY <2>1, <2>2, HandIsMade
<1>14. ~Misjudged(cards)  BY NoStraightHidden
<1>15. ASSUME NEW a, NEW b, NEW c, NEW d, NEW e, IsMade(cards, 1, a, b, c, d, e)
       PROVE  NoHigher(a, b, c, d, e, p, x, y, z, 0)
  <2>1. MakesPair(cards, a, b, c, d) /\ {a, b, c, d} \subseteq Rank /\ e = 0
    BY <1>15, MadeInCategory
  <2>2. a = p  BY <1>2, <1>3, <2>1 DEF MakesPair
  <2>3. b \in rest /\ c \in rest /\ d \in rest /\ b > c /\ c > d  BY <2>1, <2>2 DEF MakesPair
  <2>4. /\ b = x \/ b = y \/ b = z \/ b < z
        /\ c = x \/ c = y \/ c = z \/ c < z
        /\ d = x \/ d = y \/ d = z \/ d < z
    BY <1>10, <2>3
  <2>5. b < x \/ (b = x /\ c < y) \/ (b = x /\ c = y /\ d < z) \/ (b = x /\ c = y /\ d = z)
    BY <1>10, <1>11, <2>1, <2>3, <2>4 DEF Rank
  <2> QED  BY <2>1, <2>2, <2>5 DEF NoHigher
<1> QED  BY <1>5, <1>12, <1>13, <1>14, <1>15, SettledRight

\* Nothing but the five highest cards.
LEMMA HighCardSettled ==
  ASSUME NEW cards, Dealt(cards), Straights(cards) = {}, OfCount(cards, 4) = {},
         Suited(cards) = {}, ~(straightHigh(Ranks(cards)) > 0), OfCount(cards, 3) = {},
         OfCount(cards, 2) = {}
  PROVE  Settled(cards)
<1> DEFINE m == Ranks(cards)
<1>0. cards \in SUBSET AllCards /\ IsFiniteSet(cards) /\ Cardinality(cards) >= 5  BY DEF Dealt
<1>1. ~(Cardinality(OfCount(cards, 2)) >= 2)
  <2>1. Cardinality({}) = 0  BY FS_EmptySet
  <2> QED  BY <2>1
<1>2. NoneAbove(cards, 0)
  <2>1. NoneAbove(cards, 3)  BY <1>0, NoStraightFlush, NoQuads, NoFullHouse, NoFlush, NoStraight
  <2>2. NoneAbove(cards, 2)  BY <1>0, <2>1, NoTrips
  <2>3. NoneAbove(cards, 1)  BY <1>0, <1>1, <2>2, NoTwoPair
  <2> QED  BY <1>0, <2>3, NoPair
<1>3. Evaluate(cards) = encode(HighCard, topRanks(m, 5))  BY <1>1, EvaluateIs
<1>4. m \in SUBSET (2..14) /\ IsFiniteSet(m) /\ Cardinality(m) >= 5
  BY <1>0, <1>2, RanksOfCards, EnoughRanks
<1> HIDE DEF m
<1>5. m \in SUBSET Int /\ m \in SUBSET Rank  BY <1>4 DEF Rank
<1>6. PICK v, w, x, y, z \in m :
        /\ topRanks(m, 5) = <<v, w, x, y, z>> /\ InOrder(m, v, w, x, y, z)
        /\ \A a, b, c, d, e : InOrder(m, a, b, c, d, e) => NoHigher(a, b, c, d, e, v, w, x, y, z)
  BY <1>4, <1>5, TopFive
<1>7. v \in Rank /\ w \in Rank /\ x \in Rank /\ y \in Rank /\ z \in Rank  BY <1>5
<1>8. Evaluate(cards) = Num(0, v, w, x, y, z)
  <2>1. /\ v \in Digits /\ w \in Digits /\ x \in Digits /\ y \in Digits /\ z \in Digits
        /\ HighCard = 0 /\ HighCard \in Nat
    BY <1>7, RanksAreDigits, CategoryNumbers
  <2> QED  BY <1>3, <1>6, <2>1, Encode5
<1>9. IsMade(cards, 0, v, w, x, y, z)
  <2>1. {v, w, x, y, z} \subseteq Rank  BY <1>7
  <2> QED  BY <1>6, <2>1, HandIsMade DEF m
<1>10. ~Misjudged(cards)  BY NoStraightHidden
<1>11. ASSUME NEW a, NEW b, NEW c, NEW d, NEW e, IsMade(cards, 0, a, b, c, d, e)
       PROVE  NoHigher(a, b, c, d, e, v, w, x, y, z)
  <2>1. InOrder(m, a, b, c, d, e)  BY <1>11, MadeInCategory DEF m
  <2> QED  BY <1>6, <2>1
<1> QED  BY <1>2, <1>8, <1>9, <1>10, <1>11, SettledRight

-----------------------------------------------------------------------------
\* The value of every hand.

\* Evaluate (evaluator.go) scores any five, six or seven cards in the range of scores,
\* and as their best five exactly if they are not one of the two kinds that it
\* misjudges: from five to seven different cards of the pack, whatever they are.
THEOREM EvaluateIsBestUnlessMisjudged ==
  ASSUME NEW cards, Dealt(cards)
  PROVE  /\ Evaluate(cards) = BestFive(cards) <=> ~Misjudged(cards)
         /\ Evaluate(cards) <= BestFive(cards)
<1>1. Settled(cards)
  <2>1. CASE Straights(cards) # {}  BY <2>1, StraightFlushSettled
  <2>2. CASE Straights(cards) = {} /\ OfCount(cards, 4) # {}  BY <2>2, QuadsSettled
  <2> DEFINE full == OfCount(cards, 3) # {} /\ (OfCount(cards, 2) # {} \/ Cardinality(OfCount(cards, 3)) > 1)
  <2>3. CASE Straights(cards) = {} /\ OfCount(cards, 4) = {} /\ full
    BY <2>3, FullHouseSettled
  <2>4. CASE Straights(cards) = {} /\ OfCount(cards, 4) = {} /\ ~full /\ Suited(cards) # {}
    BY <2>4, FlushSettled
  <2>5. CASE /\ Straights(cards) = {} /\ OfCount(cards, 4) = {} /\ ~full /\ Suited(cards) = {}
             /\ straightHigh(Ranks(cards)) > 0
    BY <2>5, StraightSettled
  <2>6. CASE /\ Straights(cards) = {} /\ OfCount(cards, 4) = {} /\ ~full /\ Suited(cards) = {}
             /\ ~(straightHigh(Ranks(cards)) > 0) /\ OfCount(cards, 3) # {}
    BY <2>6, TripsSettled
  <2>7. CASE /\ Straights(cards) = {} /\ OfCount(cards, 4) = {} /\ Suited(cards) = {}
             /\ ~(straightHigh(Ranks(cards)) > 0) /\ OfCount(cards, 3) = {}
             /\ Cardinality(OfCount(cards, 2)) >= 2
    BY <2>7, TwoPairSettled
  <2>8. CASE /\ Straights(cards) = {} /\ OfCount(cards, 4) = {} /\ Suited(cards) = {}
             /\ ~(straightHigh(Ranks(cards)) > 0) /\ OfCount(cards, 3) = {}
             /\ ~(Cardinality(OfCount(cards, 2)) >= 2) /\ OfCount(cards, 2) # {}
    BY <2>8, PairSettled
  <2>9. CASE /\ Straights(cards) = {} /\ OfCount(cards, 4) = {} /\ Suited(cards) = {}
             /\ ~(straightHigh(Ranks(cards)) > 0) /\ OfCount(cards, 3) = {}
             /\ OfCount(cards, 2) = {}
    BY <2>9, HighCardSettled
  <2> QED  BY <2>1, <2>2, <2>3, <2>4, <2>5, <2>6, <2>7, <2>8, <2>9
<1>2. /\ cards \in SUBSET AllCards /\ IsFiniteSet(cards) /\ Cardinality(cards) >= 5
  BY DEF Dealt
<1>3. BestFive(cards) \in Nat /\ IsBest(cards, BestFive(cards))  BY <1>2, BestIsMade
<1>4. CASE ~Misjudged(cards) /\ IsBest(cards, Evaluate(cards))
  <2>1. Evaluate(cards) = BestFive(cards)  BY <1>2, <1>4, JudgedRight
  <2> QED  BY <1>3, <1>4, <2>1
<1>5. CASE Misjudged(cards) /\ ~(~Misjudged(cards) /\ IsBest(cards, Evaluate(cards)))
  <2>1. Evaluate(cards) \in Nat  BY <1>1, <1>5 DEF Settled
  <2>2. PICK w \in Nat : Makes(cards, w) /\ Evaluate(cards) < w  BY <1>1, <1>5 DEF Settled
  <2>3. Evaluate(cards) # BestFive(cards)  BY <1>2, <2>1, <2>2, JudgedWrong
  <2>4. w <= BestFive(cards)  BY <1>3, <2>2 DEF IsBest
  <2> QED  BY <1>3, <1>5, <2>1, <2>2, <2>3, <2>4
<1> QED  BY <1>1, <1>4, <1>5 DEF Settled

\* In every hand dealt from any deck of different cards the only ones misjudged are a
\* straight from two to six with an ace and a pair above a single beside four of a kind.
THEOREM OnlyTheseAreMisjudged == Spec => []OnlyTheseMisjudged
<1> DEFINE Inv == hand \in SUBSET Deck /\ IsFiniteSet(hand) /\ Cardinality(hand) <= 7
<1>1. Init => Inv
  <2>1. Cardinality({}) = 0 /\ IsFiniteSet({})  BY FS_EmptySet
  <2> QED  BY <2>1 DEF Init
<1>2. Inv /\ [Next]_hand => Inv'
  <2> SUFFICES ASSUME Inv, [Next]_hand PROVE Inv'  OBVIOUS
  <2>0. Cardinality(hand) \in Nat  BY FS_CardinalityType
  <2>1. ASSUME NEW c \in Deck, Deal(c) PROVE Inv'
    <3>1. Cardinality(hand) < 7 /\ c \notin hand /\ hand' = hand \union {c}  BY <2>1 DEF Deal
    <3>2. IsFiniteSet(hand \union {c}) /\ Cardinality(hand \union {c}) = Cardinality(hand) + 1
      BY <3>1, FS_AddElement
    <3>3. hand' \in SUBSET Deck  BY <3>1
    <3>4. IsFiniteSet(hand') /\ Cardinality(hand') <= 7  BY <2>0, <3>1, <3>2
    <3> QED  BY <3>3, <3>4
  <2>2. CASE UNCHANGED hand  BY <2>2
  <2> QED  BY <2>1, <2>2 DEF Next, Finished
<1>3. Inv => OnlyTheseMisjudged
  <2> SUFFICES ASSUME Inv, Cardinality(hand) >= 5
               PROVE  Evaluate(hand) = BestFive(hand)
                        <=> ~(WheelHidesStraight(hand) \/ SingleHidesPair(hand))
    BY DEF OnlyTheseMisjudged
  <2>1. Dealt(hand)  BY DeckAssumption, FS_CardinalityType DEF Dealt, AllCards
  <2> QED  BY <2>1, EvaluateIsBestUnlessMisjudged DEF Misjudged
<1> QED  BY <1>1, <1>2, <1>3, PTL DEF Spec

=============================================================================
