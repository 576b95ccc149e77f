---------------------------- MODULE AccountLedger ----------------------------
(***************************************************************************)
(* What the sync engine promises the owner of an account store: the store  *)
(* is, at every moment, the complete and exact ledger of one chain from    *)
(* the birthday on.  It moves up along that chain, back to a block of it,  *)
(* or to what the disk had, and nowhere else.  How the engine gets there   *)
(* (streams, batches, watch lists, retries) is not visible here.           *)
(***************************************************************************)
EXTENDS AccountDb

VARIABLES
    account,  \* the account store
    disk      \* the account store after a power loss

LedgerInit == account = EmptyDb /\ disk = EmptyDb

\* The account reads on, along the chain it is on.
Advance ==
    /\ account'.checkpoint # NoCursor
    /\ Len(account'.checkpoint) > Len(History(account.checkpoint))
    /\ account.checkpoint # NoCursor =>
           Extends(account'.checkpoint, account.checkpoint)
    /\ IsLedger(account')
    /\ UNCHANGED disk

\* The account forgets the blocks above a block it has read, or all of them.
Retreat ==
    /\ account.checkpoint # NoCursor
    /\ account'.checkpoint \notin {account.checkpoint, NoCursor}
    /\ \/ Len(account'.checkpoint) = Birthday - 1
       \/ Extends(account.checkpoint, account'.checkpoint)
    /\ IsLedger(account')
    /\ UNCHANGED disk

Flush == disk' = account /\ UNCHANGED account

Lose == account' = disk /\ UNCHANGED disk

LedgerSpec ==
    LedgerInit /\ [][Advance \/ Retreat \/ Flush \/ Lose]_<<account, disk>>
=============================================================================
