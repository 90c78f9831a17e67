------------------------------- MODULE MCMock -------------------------------
(***************************************************************************)
(* MockStorage for TLC: an add and two calls more, on two tags, with one   *)
(* list name that is neither of the two.                                   *)
(***************************************************************************)
EXTENDS MockStorage, TLC

CONSTANTS c1, c2, c3, s1, s2

ThreeCalls == {c1, c2, c3}
TwoSubnets == {s1, s2}
OneBadName == {"other"}
=============================================================================
