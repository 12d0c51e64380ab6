--------------------------- MODULE MCConsumedWalk ---------------------------
(***************************************************************************)
(* A purchase of nine units for TLC: more than two calls add in one unit   *)
(* of time, and little enough to be used up.                               *)
(***************************************************************************)
EXTENDS ConsumedWalk, TLC

CONSTANTS c1, w1, w2

MCGB == c1 :> 9

WorkerSymmetry == Permutations(Workers)
=============================================================================
