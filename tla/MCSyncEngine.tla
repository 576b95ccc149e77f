---------------------------- MODULE MCSyncEngine ----------------------------
(***************************************************************************)
(* The instance of SyncEngine that TLC checks.                             *)
(***************************************************************************)
EXTENDS SyncInvariant, MCWallet
=============================================================================
