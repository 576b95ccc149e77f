---------------------------- MODULE MCBalanceReader ----------------------------
(***************************************************************************)
(* The instance of BalanceReader that TLC checks.                             *)
(***************************************************************************)
EXTENDS BalanceReader, MCWallet
=============================================================================
