--------------------------- MODULE ArithmeticProofs ---------------------------
(***************************************************************************)
(* What the proofs of several components rest on: the laws of Total over   *)
(* finite sets, and the closed form of a chunk plan for every request.     *)
(* The induction is over the subsets of a finite set, with a set of        *)
(* subsets in place of a predicate.                                        *)
(***************************************************************************)
EXTENDS Counters, ChunkSizes, FiniteSetTheorems, WellFoundedInduction, TLAPS

\* The member that Total adds first.
First(P) == CHOOSE x \in P : TRUE

\* t adds up F over every subset of S.
IsTotal(t, F, S) ==
  t = [P \in SUBSET S |-> IF P = {} THEN 0 ELSE F[First(P)] + t[P \ {First(P)}]]

-----------------------------------------------------------------------------

\* A set of subsets that has every subset whose own smaller subsets it has, has all.
LEMMA SubsetInduction ==
  ASSUME NEW S, IsFiniteSet(S), NEW Good,
         \A P \in SUBSET S : (\A Q \in SUBSET P : Q # P => Q \in Good) => P \in Good
  PROVE  \A P \in SUBSET S : P \in Good
<1> DEFINE T == (SUBSET S) \ Good
<1> SUFFICES ASSUME T # {} PROVE FALSE  OBVIOUS
<1>1. IsWellFoundedOn(StrictSubsetOrdering(S), FiniteSubsetsOf(S)) /\ FiniteSubsetsOf(S) = SUBSET S
  BY FS_StrictSubsetOrderingWellFounded, FS_FiniteSubsetsOfFinite
<1>2. T \subseteq SUBSET S  OBVIOUS
<1> HIDE DEF T
<1>3. PICK P \in T : \A Q \in T : ~ (<<Q, P>> \in StrictSubsetOrdering(S))
  BY <1>1, <1>2, WFMin
<1>4. \A Q \in SUBSET P : Q # P => Q \in Good
  BY <1>2, <1>3 DEF StrictSubsetOrdering, T
<1> QED  BY <1>4 DEF T

\* Total is what some function that adds up gives for S itself.
LEMMA TotalIsChoice ==
  \A F, S : Total(F, S) = (CHOOSE t : IsTotal(t, F, S))[S]
BY DEF Total, FSE!MapThenSumSet, FSE!MapThenFoldSet, IsTotal, First

\* A set that is not empty has a first member.
LEMMA FirstIsMember == \A P : P # {} => First(P) \in P
BY DEF First

\* Two functions that add up the same F agree wherever both do.
LEMMA TotalIsUnique ==
  ASSUME NEW F, NEW S, IsFiniteSet(S), NEW t, NEW R, NEW u, IsTotal(t, F, S), IsTotal(u, F, R)
  PROVE  \A P \in SUBSET S : P \in SUBSET R => t[P] = u[P]
<1> DEFINE Good == {P \in SUBSET S : P \in SUBSET R => t[P] = u[P]}
<1>1. ASSUME NEW P \in SUBSET S, \A Q \in SUBSET P : Q # P => Q \in Good
      PROVE  P \in Good
  <2> SUFFICES ASSUME P \in SUBSET R PROVE t[P] = u[P]  OBVIOUS
  <2>1. CASE P = {}
    BY <2>1 DEF IsTotal
  <2>2. CASE P # {}
    <3>1. First(P) \in P
      BY <2>2, FirstIsMember
    <3>2. t[P \ {First(P)}] = u[P \ {First(P)}]
      BY <1>1, <3>1
    <3>3. /\ t[P] = F[First(P)] + t[P \ {First(P)}]
          /\ u[P] = F[First(P)] + u[P \ {First(P)}]
      BY <2>2 DEF IsTotal
    <3> QED  BY <3>2, <3>3
  <2> QED  BY <2>1, <2>2
<1> HIDE DEF Good
<1>2. \A P \in SUBSET S : P \in Good
  BY <1>1, SubsetInduction
<1> QED  BY <1>2 DEF Good

\* The sums over a set and over a subset of it fit together.
LEMMA TotalOfSubset ==
  ASSUME NEW F, NEW S, IsFiniteSet(S), NEW t, IsTotal(t, F, S), NEW P \in SUBSET S,
         NEW v, IsTotal(v, F, P)
  PROVE  Total(F, P) = t[P]
<1> DEFINE u == CHOOSE x : IsTotal(x, F, P)
<1>1. IsTotal(u, F, P)
  OBVIOUS
<1>2. Total(F, P) = u[P]
  BY TotalIsChoice
<1> HIDE DEF u
<1>3. t[P] = u[P]
  BY <1>1, TotalIsUnique
<1> QED  BY <1>2, <1>3

\* The recursion ends: every finite set has its sum.
LEMMA TotalExists ==
  ASSUME NEW F, NEW S, IsFiniteSet(S)
  PROVE  \E t : IsTotal(t, F, S)
<1> DEFINE Good == {P \in SUBSET S : \E t : IsTotal(t, F, P)}
<1>1. ASSUME NEW P \in SUBSET S, \A Q \in SUBSET P : Q # P => Q \in Good
      PROVE  P \in Good
  <2> DEFINE t == [Q \in SUBSET P |-> IF Q = {} THEN 0 ELSE F[First(Q)] + Total(F, Q \ {First(Q)})]
  <2>1. ASSUME NEW R \in SUBSET P, R # P PROVE t[R] = Total(F, R)
    <3>1. PICK u : IsTotal(u, F, R)
      BY <1>1, <2>1
    <3>2. IsFiniteSet(R)
      BY FS_Subset
    <3>3. Total(F, R) = u[R]
      BY <3>1, <3>2, TotalOfSubset
    <3>4. CASE R = {}
      BY <3>1, <3>3, <3>4 DEF IsTotal
    <3>5. CASE R # {}
      <4> DEFINE Q == R \ {First(R)}
      <4>1. Q \in SUBSET R /\ Q \in SUBSET P /\ Q # P
        BY <2>1, <3>5, FirstIsMember
      <4>2. PICK v : IsTotal(v, F, Q)
        BY <1>1, <4>1
      <4>3. u[R] = F[First(R)] + u[Q]
        BY <3>1, <3>5 DEF IsTotal
      <4>4. t[R] = F[First(R)] + Total(F, Q)
        BY <3>5
      <4> HIDE DEF Q, t
      <4>5. Total(F, Q) = u[Q]
        BY <3>1, <3>2, <4>1, <4>2, TotalOfSubset
      <4> QED  BY <3>3, <4>3, <4>4, <4>5
    <3> QED  BY <3>4, <3>5
  <2>2. \A Q \in SUBSET P : Q # {} => t[Q \ {First(Q)}] = Total(F, Q \ {First(Q)})
    <3> SUFFICES ASSUME NEW Q \in SUBSET P, Q # {}
                 PROVE  t[Q \ {First(Q)}] = Total(F, Q \ {First(Q)})
      OBVIOUS
    <3>1. Q \ {First(Q)} \in SUBSET P /\ Q \ {First(Q)} # P
      BY FirstIsMember
    <3> HIDE DEF t
    <3> QED  BY <2>1, <3>1
  <2>3. t = [Q \in SUBSET P |-> IF Q = {} THEN 0 ELSE F[First(Q)] + t[Q \ {First(Q)}]]
    BY <2>2
  <2> HIDE DEF t
  <2>4. IsTotal(t, F, P)
    BY <2>3 DEF IsTotal
  <2> QED  BY <2>4
<1> HIDE DEF Good
<1>2. S \in Good
  BY <1>1, SubsetInduction
<1> QED  BY <1>2 DEF Good

\* One step of the recursion.
LEMMA TotalStep ==
  ASSUME NEW F, NEW S, IsFiniteSet(S)
  PROVE  Total(F, S) = IF S = {} THEN 0 ELSE F[First(S)] + Total(F, S \ {First(S)})
<1>1. PICK t : IsTotal(t, F, S)
  BY TotalExists
<1>2. Total(F, S) = t[S]
  BY <1>1, TotalOfSubset
<1> DEFINE R == S \ {First(S)}
<1>3. IsFiniteSet(R) /\ R \in SUBSET S
  BY FS_Subset
<1>4. t[S] = IF S = {} THEN 0 ELSE F[First(S)] + t[R]
  BY <1>1 DEF IsTotal
<1> HIDE DEF R
<1>5. PICK v : IsTotal(v, F, R)
  BY <1>3, TotalExists
<1>6. Total(F, R) = t[R]
  BY <1>1, <1>3, <1>5, TotalOfSubset
<1> QED  BY <1>2, <1>4, <1>6 DEF R

-----------------------------------------------------------------------------

\* The sum over nothing.
LEMMA TotalOfNone == \A F : Total(F, {}) = 0
BY TotalStep, FS_EmptySet

\* Sums of natural numbers are natural numbers.
LEMMA TotalType ==
  ASSUME NEW F, NEW S, IsFiniteSet(S), \A x \in S : F[x] \in Nat
  PROVE  Total(F, S) \in Nat
<1> DEFINE Good == {P \in SUBSET S : Total(F, P) \in Nat}
<1>1. ASSUME NEW P \in SUBSET S, \A Q \in SUBSET P : Q # P => Q \in Good
      PROVE  P \in Good
  <2>1. CASE P = {}
    BY <2>1, TotalOfNone
  <2>2. CASE P # {}
    <3>1. First(P) \in P /\ IsFiniteSet(P)
      BY <2>2, FirstIsMember, FS_Subset
    <3>2. Total(F, P) = F[First(P)] + Total(F, P \ {First(P)})
      BY <2>2, <3>1, TotalStep
    <3> QED  BY <1>1, <3>1, <3>2
  <2> QED  BY <2>1, <2>2
<1> HIDE DEF Good
<1>2. S \in Good
  BY <1>1, SubsetInduction
<1> QED  BY <1>2 DEF Good

\* A sum may be taken apart at any member: the order does not matter.
LEMMA TotalRemove ==
  ASSUME NEW F, NEW S, IsFiniteSet(S), \A y \in S : F[y] \in Nat, NEW x \in S
  PROVE  Total(F, S) = F[x] + Total(F, S \ {x})
<1> DEFINE Good == {P \in SUBSET S : \A y \in P : Total(F, P) = F[y] + Total(F, P \ {y})}
<1>1. ASSUME NEW P \in SUBSET S, \A Q \in SUBSET P : Q # P => Q \in Good
      PROVE  P \in Good
  <2> SUFFICES ASSUME NEW y \in P PROVE Total(F, P) = F[y] + Total(F, P \ {y})  OBVIOUS
  <2>1. PICK z \in P : z = First(P)
    BY FirstIsMember
  <2>2. Total(F, P) = F[z] + Total(F, P \ {z})
    BY <2>1, TotalStep, FS_Subset
  <2>3. CASE y # z
    <3> DEFINE R == (P \ {z}) \ {y}
    <3>1. /\ P \ {z} \in Good /\ y \in P \ {z}
          /\ P \ {y} \in Good /\ z \in P \ {y} /\ R = (P \ {y}) \ {z}
      BY <1>1, <2>3
    <3>2. Total(F, P \ {z}) = F[y] + Total(F, R) /\ Total(F, P \ {y}) = F[z] + Total(F, R)
      BY <3>1
    <3>3. IsFiniteSet(R) /\ \A v \in R : F[v] \in Nat
      BY FS_Subset
    <3> HIDE DEF R, Good
    <3>4. Total(F, R) \in Nat
      BY <3>3, TotalType
    <3> QED  BY <2>2, <3>2, <3>4
  <2> QED  BY <2>2, <2>3
<1> HIDE DEF Good
<1>2. S \in Good
  BY <1>1, SubsetInduction
<1> QED  BY <1>2 DEF Good

\* What one more member adds.
LEMMA TotalAdd ==
  ASSUME NEW F, NEW S, IsFiniteSet(S), NEW x, x \notin S, F[x] \in Nat, \A y \in S : F[y] \in Nat
  PROVE  Total(F, S \union {x}) = Total(F, S) + F[x]
<1> DEFINE T == S \union {x}
<1>1. IsFiniteSet(T) /\ T \ {x} = S /\ x \in T /\ \A y \in T : F[y] \in Nat
  BY FS_AddElement
<1> HIDE DEF T
<1>2. Total(F, T) = F[x] + Total(F, S)
  BY <1>1, TotalRemove
<1> QED  BY <1>2, TotalType DEF T

\* Only the values on the set matter.
LEMMA TotalOfEqual ==
  ASSUME NEW F, NEW G, NEW S, IsFiniteSet(S), \A x \in S : F[x] = G[x]
  PROVE  Total(F, S) = Total(G, S)
<1> DEFINE Good == {P \in SUBSET S : Total(F, P) = Total(G, P)}
<1>1. ASSUME NEW P \in SUBSET S, \A Q \in SUBSET P : Q # P => Q \in Good
      PROVE  P \in Good
  <2>1. CASE P = {}
    BY <2>1, TotalOfNone
  <2>2. CASE P # {}
    <3>1. First(P) \in P /\ IsFiniteSet(P)
      BY <2>2, FirstIsMember, FS_Subset
    <3>2. /\ Total(F, P) = F[First(P)] + Total(F, P \ {First(P)})
          /\ Total(G, P) = G[First(P)] + Total(G, P \ {First(P)})
      BY <2>2, <3>1, TotalStep
    <3> QED  BY <1>1, <3>1, <3>2
  <2> QED  BY <2>1, <2>2
<1> HIDE DEF Good
<1>2. S \in Good
  BY <1>1, SubsetInduction
<1> QED  BY <1>2 DEF Good

\* Where a value is n on W and nothing elsewhere, the sum counts W.
LEMMA TotalOfConstant ==
  ASSUME NEW F, NEW S, IsFiniteSet(S), NEW W \in SUBSET S, NEW n \in Nat,
         \A x \in S : F[x] = IF x \in W THEN n ELSE 0
  PROVE  Total(F, S) = n * Cardinality(W)
<1> DEFINE Good == {P \in SUBSET S : Total(F, P) = n * Cardinality(W \cap P)}
<1>1. ASSUME NEW P \in SUBSET S, \A Q \in SUBSET P : Q # P => Q \in Good
      PROVE  P \in Good
  <2>1. CASE P = {}
    <3>1. Cardinality(W \cap P) = 0 /\ Total(F, P) = 0
      BY <2>1, TotalOfNone, FS_EmptySet
    <3> QED  BY <3>1
  <2>2. CASE P # {}
    <3>1. PICK x \in P : x = First(P)
      BY <2>2, FirstIsMember
    <3> DEFINE c == Cardinality(W \cap (P \ {x}))
    <3>2. Total(F, P \ {x}) = n * c
      BY <1>1
    <3>3. Total(F, P) = F[x] + Total(F, P \ {x})
      BY <2>2, <3>1, TotalStep, FS_Subset
    <3>4. IsFiniteSet(W \cap (P \ {x}))
      BY FS_Subset
    <3>5. c \in Nat /\ n * c \in Nat
      BY <3>4, FS_CardinalityType
    <3>6. CASE x \in W
      <4>1. W \cap P = (W \cap (P \ {x})) \union {x}  BY <3>6
      <4>2. Cardinality(W \cap P) = c + 1
        BY <3>4, <4>1, FS_AddElement
      <4>3. F[x] = n
        BY <3>6
      <4> HIDE DEF c
      <4>4. n * (c + 1) = n + n * c
        BY <3>5
      <4>5. Total(F, P) = n * Cardinality(W \cap P)
        BY <3>2, <3>3, <4>2, <4>3, <4>4
      <4> QED  BY <4>5
    <3>7. CASE x \notin W
      <4>1. Cardinality(W \cap P) = c
        <5>1. W \cap P = W \cap (P \ {x})  BY <3>7
        <5> QED  BY <5>1
      <4>2. F[x] = 0
        BY <3>7
      <4> HIDE DEF c
      <4>3. Total(F, P) = n * Cardinality(W \cap P)
        BY <3>2, <3>3, <3>5, <4>1, <4>2
      <4> QED  BY <4>3
    <3> QED  BY <3>6, <3>7
  <2> QED  BY <2>1, <2>2
<1> HIDE DEF Good
<1>2. \A P \in SUBSET S : P \in Good
  BY <1>1, SubsetInduction
<1>3. W \cap S = W
  OBVIOUS
<1> QED  BY <1>2, <1>3 DEF Good

-----------------------------------------------------------------------------
\* Finite sets of numbers.

\* They have a greatest and a least member.
LEMMA HasExtremes ==
  ASSUME NEW S \in SUBSET Int, IsFiniteSet(S), S # {}
  PROVE  /\ \E x \in S : \A y \in S : y <= x
         /\ \E x \in S : \A y \in S : x <= y
<1> DEFINE Good == {P \in SUBSET S : P # {} => /\ \E x \in P : \A y \in P : y <= x
                                              /\ \E x \in P : \A y \in P : x <= y}
<1>1. ASSUME NEW P \in SUBSET S, \A Q \in SUBSET P : Q # P => Q \in Good
      PROVE  P \in Good
  <2> SUFFICES ASSUME P # {} PROVE /\ \E x \in P : \A y \in P : y <= x
                                   /\ \E x \in P : \A y \in P : x <= y
    OBVIOUS
  <2>1. PICK z \in P : TRUE
    OBVIOUS
  <2>2. CASE P \ {z} = {}
    <3>1. \A y \in P : y = z /\ y \in Int  BY <2>2
    <3> QED  BY <3>1
  <2>3. CASE P \ {z} # {}
    <3>1. P \ {z} \in Good
      BY <1>1
    <3>2. PICK g \in P \ {z} : \A y \in P \ {z} : y <= g
      BY <2>3, <3>1
    <3>3. PICK l \in P \ {z} : \A y \in P \ {z} : l <= y
      BY <2>3, <3>1
    <3>4. g \in Int /\ l \in Int /\ z \in Int /\ \A y \in P : y \in Int
      OBVIOUS
    <3> HIDE DEF Good
    <3>5. \E x \in P : \A y \in P : y <= x
      BY <3>2, <3>4
    <3>6. \E x \in P : \A y \in P : x <= y
      BY <3>3, <3>4
    <3> QED  BY <3>5, <3>6
  <2> QED  BY <2>2, <2>3
<1> HIDE DEF Good
<1>2. S \in Good
  BY <1>1, SubsetInduction
<1> QED  BY <1>2 DEF Good

\* Induction from 0 to n, with a set in place of a predicate.
LEMMA UpTo ==
  ASSUME NEW n \in Nat, NEW Good, 0 \in Good, \A i \in 1..n : i - 1 \in Good => i \in Good
  PROVE  \A i \in 0..n : i \in Good
<1> DEFINE T == (0..n) \ Good
<1> SUFFICES ASSUME T # {} PROVE FALSE  OBVIOUS
<1>1. IsFiniteSet(0..n)
  BY FS_Interval
<1>2. T \in SUBSET Int /\ T \in SUBSET (0..n)
  OBVIOUS
<1>3. IsFiniteSet(T)
  BY <1>1, <1>2, FS_Subset
<1> HIDE DEF T
<1>4. PICK l \in T : \A y \in T : l <= y
  BY <1>2, <1>3, HasExtremes
<1>5. l \in 1..n /\ l - 1 \in 0..n
  BY <1>4 DEF T
<1>6. l - 1 \in Good
  BY <1>4, <1>5 DEF T
<1> QED  BY <1>4, <1>5, <1>6 DEF T

\* How many members of S come before x.
Ahead(x, Less, S) == Cardinality({c \in S : <<c, x>> \in Less})

\* A strict order of a finite set numbers its members: each number below that of
\* the members is how many come before exactly one of them.
LEMMA Enumeration ==
  ASSUME NEW S, IsFiniteSet(S), NEW Less \in SUBSET (S \X S),
         \A x \in S : <<x, x>> \notin Less,
         \A x, y \in S : x # y => <<x, y>> \in Less \/ <<y, x>> \in Less,
         \A x, y, z \in S : <<x, y>> \in Less /\ <<y, z>> \in Less => <<x, z>> \in Less
  PROVE  /\ \A x, y \in S : Ahead(x, Less, S) = Ahead(y, Less, S) => x = y
         /\ \A i \in 1..Cardinality(S) : \E x \in S : Ahead(x, Less, S) = i - 1
         /\ \A x \in S : \E i \in 1..Cardinality(S) : Ahead(x, Less, S) = i - 1
<1> DEFINE Before(x) == {c \in S : <<c, x>> \in Less}
           n == Cardinality(S)
           rank == [x \in S |-> Cardinality(Before(x)) + 1]
<1>0. n \in Nat
  BY FS_CardinalityType
<1>1. \A x \in S : IsFiniteSet(Before(x)) /\ Cardinality(Before(x)) \in 0..(n - 1)
  <2> SUFFICES ASSUME NEW x \in S
               PROVE  IsFiniteSet(Before(x)) /\ Cardinality(Before(x)) \in 0..(n - 1)
    OBVIOUS
  <2>1. Before(x) \in SUBSET S /\ x \notin Before(x) /\ Before(x) # S
    OBVIOUS
  <2> HIDE DEF Before
  <2>2. /\ IsFiniteSet(Before(x)) /\ Cardinality(Before(x)) <= n
        /\ Cardinality(Before(x)) # n
    BY <2>1, FS_Subset
  <2>3. Cardinality(Before(x)) \in Nat
    BY <2>2, FS_CardinalityType
  <2> QED  BY <1>0, <2>2, <2>3
<1>2. ASSUME NEW x \in S, NEW y \in S, <<x, y>> \in Less
      PROVE  Cardinality(Before(x)) # Cardinality(Before(y))
  <2>1. Before(x) \in SUBSET Before(y) /\ x \in Before(y) /\ x \notin Before(x)
    BY <1>2
  <2> HIDE DEF Before
  <2>2. Before(x) # Before(y)
    BY <2>1
  <2> QED  BY <1>1, <2>1, <2>2, FS_Subset
<1>3. \A x, y \in S : Cardinality(Before(x)) = Cardinality(Before(y)) => x = y
  <2> HIDE DEF Before
  <2> QED  BY <1>2
<1>4. rank \in [S -> 1..n] /\ \A x, y \in S : rank[x] = rank[y] => x = y
  <2> HIDE DEF Before
  <2>1. \A x \in S : Cardinality(Before(x)) \in Nat /\ Cardinality(Before(x)) + 1 \in 1..n
    BY <1>0, <1>1
  <2>2. rank \in [S -> 1..n]
    <3> HIDE DEF n
    <3> QED  BY <2>1
  <2>3. \A x, y \in S : rank[x] = rank[y] => Cardinality(Before(x)) = Cardinality(Before(y))
    BY <2>1
  <2> HIDE DEF rank
  <2> QED  BY <1>3, <2>2, <2>3
<1>5. \A i \in 1..n : \E x \in S : rank[x] = i
  <2> HIDE DEF rank
  <2>1. rank \in Injection(S, 1..n)
    BY <1>4 DEF Injection, IsInjective
  <2>2. IsFiniteSet(1..n) /\ Cardinality(1..n) = n
    BY <1>0, FS_Interval
  <2>3. rank \in Surjection(S, 1..n)
    BY <2>1, <2>2, FS_Injection
  <2> QED  BY <2>3 DEF Surjection
<1>6. \A i \in 1..n : \E x \in S : Cardinality(Before(x)) = i - 1
  <2> SUFFICES ASSUME NEW i \in 1..n PROVE \E x \in S : Cardinality(Before(x)) = i - 1
    OBVIOUS
  <2>1. PICK x \in S : rank[x] = i
    BY <1>5
  <2> HIDE DEF Before
  <2>2. Cardinality(Before(x)) \in Int /\ i \in Int
    BY <1>0, <1>1
  <2> QED  BY <2>1, <2>2
<1>7. \A x \in S : \E i \in 1..n : Cardinality(Before(x)) = i - 1
  <2> SUFFICES ASSUME NEW x \in S PROVE \E i \in 1..n : Cardinality(Before(x)) = i - 1
    OBVIOUS
  <2> DEFINE i == Cardinality(Before(x)) + 1
  <2> HIDE DEF Before
  <2>1. Cardinality(Before(x)) \in Int /\ i \in 1..n
    BY <1>0, <1>1
  <2> QED  BY <2>1
<1> QED  BY <1>3, <1>6, <1>7 DEF Ahead

-----------------------------------------------------------------------------
\* Results merged: what follows of the sums, field by field.

\* Nothing merged is the zero value.
LEMMA MergedOfNone == \A R : Merged(R, {}) = ZeroCounters
BY TotalOfNone DEF Merged, ZeroCounters

\* Merging counters gives counters.
LEMMA MergedType ==
  ASSUME NEW R, NEW S, IsFiniteSet(S), \A x \in S : R[x] \in Counters
  PROVE  Merged(R, S) \in Counters
<1>1. \A f \in Fields : Total([x \in S |-> R[x][f]], S) \in Nat
  <2> SUFFICES ASSUME NEW f \in Fields PROVE Total([x \in S |-> R[x][f]], S) \in Nat
    OBVIOUS
  <2> DEFINE F == [x \in S |-> R[x][f]]
  <2>1. \A x \in S : F[x] \in Nat
    BY DEF Counters
  <2> HIDE DEF F
  <2>2. Total(F, S) \in Nat
    BY <2>1, TotalType
  <2> QED  BY <2>2 DEF F
<1> QED  BY <1>1 DEF Merged, Counters

\* One more result is added field by field.
LEMMA MergedAdd ==
  ASSUME NEW R, NEW Q, NEW S, IsFiniteSet(S), NEW x, x \notin S,
         \A y \in S : R[y] \in Counters /\ Q[y] = R[y], Q[x] \in Counters
  PROVE  Merged(Q, S \union {x}) = Plus(Merged(R, S), Q[x])
<1> DEFINE T == S \union {x}
<1>1. \A f \in Fields : Total([y \in T |-> Q[y][f]], T) = Total([y \in S |-> R[y][f]], S) + Q[x][f]
  <2> SUFFICES ASSUME NEW f \in Fields
               PROVE  Total([y \in T |-> Q[y][f]], T) = Total([y \in S |-> R[y][f]], S) + Q[x][f]
    OBVIOUS
  <2> DEFINE F == [y \in S |-> R[y][f]]
             G == [y \in T |-> Q[y][f]]
  <2>1. /\ \A y \in S : F[y] \in Nat /\ G[y] \in Nat /\ G[y] = F[y]
        /\ G[x] = Q[x][f] /\ G[x] \in Nat
    BY DEF Counters
  <2> HIDE DEF F, G
  <2>2. Total(G, T) = Total(G, S) + G[x]
    BY <2>1, TotalAdd
  <2>3. Total(G, S) = Total(F, S)
    BY <2>1, TotalOfEqual
  <2> QED  BY <2>1, <2>2, <2>3 DEF F, G
<1> QED  BY <1>1 DEF Merged, Plus

-----------------------------------------------------------------------------
\* Multiplying by a positive number keeps the order.
LEMMA TimesMonotone ==
  ASSUME NEW a \in Int, NEW b \in Int, NEW p \in Nat, a <= b
  PROVE  a * p <= b * p
<1> DEFINE d == b - a
<1>1. d \in Nat /\ b = a + d  OBVIOUS
<1>2. d * p >= 0  BY <1>1
<1>3. b * p = a * p + d * p  BY <1>1
<1> QED  BY <1>2, <1>3

\* The two inequalities that define a quotient.
LEMMA DivBounds ==
  ASSUME NEW x \in Nat, NEW y \in Nat \ {0}
  PROVE  /\ x \div y \in Nat
         /\ (x \div y) * y <= x
         /\ x < (x \div y + 1) * y
  OBVIOUS

\* Dividing by more gives no more.
LEMMA DivAntitone ==
  ASSUME NEW x \in Nat, NEW y \in Nat \ {0}, NEW z \in Nat \ {0}, y <= z
  PROVE  x \div z <= x \div y
<1> DEFINE q == x \div z
           p == x \div y
<1>1. q \in Nat /\ q * z <= x /\ p \in Nat /\ x < (p + 1) * y
  BY DivBounds
<1> HIDE DEF p, q
<1>2. y * q <= z * q
  BY <1>1, TimesMonotone
<1>3. y * q = q * y /\ z * q = q * z /\ q * y \in Int /\ (p + 1) * y \in Int /\ q * z \in Int
  BY <1>1
<1>4. ~((p + 1) * y <= q * y)
  BY <1>1, <1>2, <1>3
<1>5. ~(p + 1 <= q)
  BY <1>1, <1>4, TimesMonotone
<1> QED  BY <1>1, <1>5 DEF p, q

\* Rounding up: all chunks together reach the total, all but the last do not.
LEMMA RoundingUp ==
  ASSUME NEW t \in Nat \ {0}, NEW p \in Nat \ {0}
  PROVE  /\ ChunkCount(t, p) \in Nat \ {0}
         /\ (ChunkCount(t, p) - 1) * p < t
         /\ t <= ChunkCount(t, p) * p
<1> DEFINE n == ChunkCount(t, p)
<1>1. /\ n \in Nat /\ n * p <= t + p - 1 /\ t + p - 1 < (n + 1) * p
  BY DivBounds DEF ChunkCount
<1>2. (n + 1) * p = n * p + p /\ (n - 1) * p = n * p - p  BY <1>1
<1>3. n # 0  BY <1>1, <1>2
<1> QED  BY <1>1, <1>2, <1>3

\* Every chunk of a plan has something to do.
LEMMA ChunkIsPositive ==
  ASSUME NEW t \in Nat \ {0}, NEW p \in Nat \ {0}, NEW c \in 0..(ChunkCount(t, p) - 1)
  PROVE  ChunkSize(t, p, c) \in Nat \ {0}
<1>1. ChunkCount(t, p) \in Nat \ {0} /\ (ChunkCount(t, p) - 1) * p < t  BY RoundingUp
<1>2. c \in Nat /\ c <= ChunkCount(t, p) - 1  BY <1>1
<1>3. c * p <= (ChunkCount(t, p) - 1) * p  BY <1>1, <1>2, TimesMonotone
<1>4. c * p \in Int /\ (ChunkCount(t, p) - 1) * p \in Int  BY <1>1, <1>2
<1>5. t - c * p \in Nat \ {0}  BY <1>1, <1>3, <1>4
<1> QED  BY <1>5 DEF ChunkSize, Least

=============================================================================
