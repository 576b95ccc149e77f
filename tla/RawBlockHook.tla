---------------------------- MODULE RawBlockHook ----------------------------
(***************************************************************************)
(* Account::apply_blocks: the optional hook that receives the raw blocks   *)
(* of each segment after apply_transactions committed it.  The hook's      *)
(* receiver (an index of its own, say) is outside the repository; it is    *)
(* modelled by the blocks it was handed.                                   *)
(***************************************************************************)
EXTENDS SyncEngine

VARIABLE handed  \* the hashes of the blocks apply_blocks has received

hookVars == <<vars, handed>>

\* A slip: only the block at the cursor is handed over.
LastOfSegment == {remaining[scanned]}

\* scanned_blocks: every block of the segment, detected or not.
Segment == {remaining[i] : i \in 1..scanned}

HookInit == Init /\ handed = {}

\* apply_blocks returned Ok: the receiver has the segment.
ReceiveSegment == HandBlocks /\ handed' = handed \cup Segment

HookNext ==
    \/ ReceiveSegment
    \/ Next /\ ~HandBlocks /\ UNCHANGED handed

HookSpec == HookInit /\ [][HookNext]_hookVars

\* No error, crash or power loss between the commit of apply_transactions and
\* the return of apply_blocks.
Uninterrupted == pc = "hook" => ~Faults

UninterruptedSpec == HookInit /\ [][HookNext /\ Uninterrupted]_hookVars
-----------------------------------------------------------------------------
\* Every block that the account store covers was handed to the hook, but for
\* the segment that was just applied: what apply_transactions committed,
\* apply_blocks receives "at the same cursor", across forks, rewinds, retries
\* and restarts.
AppliedBlocksHanded ==
    pc # "hook" =>
        \A h \in Birthday..Len(History(db.checkpoint)) :
            Prefix(db.checkpoint, h) \in handed
=============================================================================
