-------------------------- MODULE MCThreadListing --------------------------
(* ThreadListing on a small instance. *)
EXTENDS ThreadListing, TLC

CONSTANTS u1, e1, e2, b1

MCUsers == {u1}
OneEntity == {e1}
TwoEntities == {e1, e2}
MCBodies == {b1}
OddLimits == {0, 2}
=============================================================================
