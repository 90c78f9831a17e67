---------------------------- MODULE MCLifecycle ----------------------------
(***************************************************************************)
(* Lifecycle for TLC: three requests, and faults for a failed start, a     *)
(* signal, a broken listener and a kill, in any order.                     *)
(***************************************************************************)
EXTENDS Lifecycle, TLC

CONSTANTS r1, r2, r3

ThreeRequests == {r1, r2, r3}
=============================================================================
