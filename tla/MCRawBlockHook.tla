---------------------------- MODULE MCRawBlockHook ----------------------------
(***************************************************************************)
(* The instance of RawBlockHook that TLC checks.                             *)
(***************************************************************************)
EXTENDS RawBlockHook, MCWallet
=============================================================================
