-------------------------- MODULE MCTreePositions --------------------------
(***************************************************************************)
(* The instance of TreePositions that TLC checks.                          *)
(***************************************************************************)
EXTENDS TreePositions
=============================================================================
