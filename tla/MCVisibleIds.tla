---------------------------- MODULE MCVisibleIds ----------------------------
(***************************************************************************)
(* VisibleIds on every list of up to four comments, whatever their parents *)
(* and whichever of them are deleted.                                      *)
(***************************************************************************)
EXTENDS VisibleIds

MCIds == 1 .. 4
=============================================================================
