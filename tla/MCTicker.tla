------------------------------ MODULE MCTicker ------------------------------
(***************************************************************************)
(* Ticker for TLC: two interchangeable requests of one login, one password *)
(* and one IP.                                                             *)
(***************************************************************************)
EXTENDS Ticker, TLC

CONSTANTS r1, r2, x

TwoRequests == {r1, r2}
OneValue == {x}
PairSymmetry == Permutations(TwoRequests)
=============================================================================
