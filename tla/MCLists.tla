------------------------------ MODULE MCLists ------------------------------
(***************************************************************************)
(* Lists for TLC: a few interchangeable admin calls on two valid subnets   *)
(* and one that validation refuses.                                        *)
(***************************************************************************)
EXTENDS Lists, TLC

CONSTANTS c1, c2, c3, s1, s2, bad

MCCalls == {c1, c2, c3}
MCSubnets == {s1, s2, bad}
MCValidSubnets == {s1, s2}
MCSymmetry == Permutations(MCCalls) \union Permutations(MCValidSubnets)
=============================================================================
