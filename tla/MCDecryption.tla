---------------------------- MODULE MCDecryption ----------------------------
(***************************************************************************)
(* The instance of Decryption that TLC checks.                             *)
(***************************************************************************)
EXTENDS Decryption
=============================================================================
