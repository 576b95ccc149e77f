---------------------------- MODULE BalanceReader ----------------------------
(***************************************************************************)
(* Db::balance on a second connection to the database file, as             *)
(* src/examples/balance.rs opens it while src/examples/sync.rs runs: one   *)
(* SELECT for each pool, outside a transaction, so each sees the commits   *)
(* up to its own start.                                                    *)
(***************************************************************************)
EXTENDS SyncEngine

CONSTANT Sapling  \* the owned notes of the Sapling pool, outside Ironwood; the
                  \* rest of Owned is Orchard

VARIABLES
    reading,  \* the SELECT to come: idle, orchard, ironwood; or done
    total,    \* the sum so far
    held      \* the balances of the committed states since the first SELECT

reader == <<reading, total, held>>
readerVars == <<vars, reader>>

\* SELECT note FROM <pool>_notes WHERE spent = 0 AND is_sent = 0
PoolTotal(pool) == SumFunctionOnSet(Value, BalanceNotes(db) \cap pool)

ReaderInit == Init /\ reading = "idle" /\ total = 0 /\ held = {}

ReadSapling ==
    /\ reading = "idle"
    /\ total' = PoolTotal(Sapling)
    /\ held' = {Balance(db)}
    /\ reading' = "orchard"
    /\ UNCHANGED vars

ReadOrchard ==
    /\ reading = "orchard"
    /\ total' = total + PoolTotal(Owned \ (Sapling \cup Ironwood))
    /\ reading' = "ironwood"
    /\ UNCHANGED <<vars, held>>

ReadIronwood ==
    /\ reading = "ironwood"
    /\ total' = total + PoolTotal(Ironwood)
    /\ reading' = "done"
    /\ UNCHANGED <<vars, held>>

Return ==
    /\ reading = "done"
    /\ reading' = "idle" /\ total' = 0 /\ held' = {}
    /\ UNCHANGED vars

\* The other process goes on; a power loss stops both.
Commit ==
    /\ Next
    /\ IF PowerLoss
       THEN reading' = "idle" /\ total' = 0 /\ held' = {}
       ELSE /\ held' = IF reading = "idle" THEN {} ELSE held \cup {Balance(db')}
            /\ UNCHANGED <<reading, total>>

ReaderNext == ReadSapling \/ ReadOrchard \/ ReadIronwood \/ Return \/ Commit

ReaderSpec == ReaderInit /\ [][ReaderNext]_readerVars
-----------------------------------------------------------------------------
\* What `balance` returns was the balance of the account at some moment of the
\* call: a transaction that moves value between pools counts fully or not at all.
BalanceWasHeld == reading = "done" => total \in held
=============================================================================
