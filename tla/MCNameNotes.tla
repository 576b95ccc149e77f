---------------------------- MODULE MCNameNotes ----------------------------
(***************************************************************************)
(* The instance of NameNotes that TLC checks.                              *)
(***************************************************************************)
EXTENDS NameNotes
=============================================================================
