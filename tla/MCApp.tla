------------------------------- MODULE MCApp -------------------------------
(***************************************************************************)
(* App for TLC.  The configuration of the limiter has no admin calls on the *)
(* lists; those of the lists have two calls and a request.                 *)
(***************************************************************************)
EXTENDS App, TLC

CONSTANTS r1, r2, c1, c2, s1, s2, x

OneRequest == {r1}
TwoRequests == {r1, r2}
TwoCalls == {c1, c2}

OneValue == {x}

\* s1 and s2 overlap: both contain x, as 10.0.0.0/8 and 10.1.0.0/16 do.
TwoSubnets == {s1, s2}
Overlapping == {<<s1, x>>, <<s2, x>>}

CallSymmetry == Permutations(TwoCalls)
=============================================================================
