-------------------------------- MODULE Sums --------------------------------
(***************************************************************************)
(* The sum of a function over a finite set: what a loop, a merge of        *)
(* results or a series of HINCRBY comes to, in whatever order it is done.  *)
(***************************************************************************)
EXTENDS Naturals, FiniteSets
FSE == INSTANCE FiniteSetsExt

\* The sum of F[x] over the members x of S.
Total(F, S) == FSE!MapThenSumSet(LAMBDA x : F[x], S)

=============================================================================
