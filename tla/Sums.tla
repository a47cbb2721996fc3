-------------------------------- MODULE Sums --------------------------------
(***************************************************************************)
(* The sum of a function over a finite set.  The code reduces an array of  *)
(* sizes to its total; the order of the array is of no account.            *)
(***************************************************************************)
EXTENDS Naturals, Folds

Total(f, S) == MapThenFoldSet(+, 0, LAMBDA t : f[t], LAMBDA T : CHOOSE t \in T : TRUE, S)
=============================================================================
