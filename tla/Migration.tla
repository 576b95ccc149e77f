----------------------------- MODULE Migration -----------------------------
(***************************************************************************)
(* Db::open of src/src/db.rs on a file an older version wrote: `migrate`   *)
(* recomputes amount, is_outgoing and is_change of every row and sets      *)
(* user_version to 1.  Several processes may open the file together (a     *)
(* synchronisation and examples/balance.rs), and one of them synchronises  *)
(* into it as soon as its own open has returned.                           *)
(*                                                                         *)
(* user_version is read outside the transaction of the backfill.  That     *)
(* transaction is deferred: its first SELECT takes a snapshot, its first   *)
(* write the only write lock of the file.  In WAL mode that write fails at *)
(* once if another connection has the lock or has committed since the      *)
(* snapshot; so what a transaction that may write reads is the file, and   *)
(* the model reads it there.                                               *)
(***************************************************************************)
EXTENDS Detection

CONSTANTS
    Proc,       \* the processes that open the file
    Syncing,    \* the one of them that runs the sync engine
    Internal,   \* the notes whose rows have scope = 1, received or sent
    OldDbs,     \* the rows an older version may have left
    Histories,  \* bound: the chains the engine reads
    Nobody      \* the write lock is free

ASSUME ProcAssumption == Syncing \in Proc /\ Nobody \notin Proc
ASSUME ScopeAssumption == Internal \subseteq Note
ASSUME HistoryAssumption == \A c \in Histories : c \in BlockHash /\ Valid(c)

\* The rows of the history, at their heights, whatever the accounting says.
IsReceipts(d) ==
    LET c == History(d.checkpoint) IN
    /\ d \in Db
    /\ Valid(c)
    /\ d.checkpoint # NoCursor => Len(d.checkpoint) >= Birthday - 1
    /\ \A n \in Note : NoteRowIs(d.notes[n], c, n)
    /\ \A t \in Tx :
        \/ d.txs[t] = NoRow /\ \A h \in Birthday..Len(c) : ~ConcernsAt(c, h, t)
        \/ \E h \in Birthday..Len(c) :
              ConcernsAt(c, h, t) /\ d.txs[t].block_height = h

ASSUME OldAssumption == \A d \in OldDbs : IsReceipts(d)

File == [db : Db, change : SUBSET Note, user_version : {0, 1}]

VARIABLES
    file,     \* the rows, the notes with is_change = 1 and user_version
    disk,     \* the file after a power loss
    lock,     \* who has the write lock
    pc,       \* closed, begin, update, commit or open, for each process
    todo,     \* `txids`: the rows its loop has still to update
    written,  \* the rows it has updated in its transaction
    stale     \* another connection committed since its snapshot

local == <<pc, todo, written, stale>>
vars == <<file, disk, lock, local>>

NoRows == [t \in Tx |-> NoRow]
Rows(d) == {t \in Tx : d.txs[t] # NoRow}

Init ==
    /\ \E d \in OldDbs : \E flags \in SUBSET Received(d.notes) :
            file = [db |-> d, change |-> flags, user_version |-> 0]
    /\ disk = file
    /\ lock = Nobody
    /\ pc = [p \in Proc |-> "closed"]
    /\ todo = [p \in Proc |-> {}]
    /\ written = [p \in Proc |-> NoRows]
    /\ stale = [p \in Proc |-> FALSE]
-----------------------------------------------------------------------------
(* Db::open *)

ReadVersion(p) ==
    /\ pc[p] = "closed"
    /\ pc' = [pc EXCEPT ![p] = IF file.user_version < 1 THEN "begin" ELSE "open"]
    /\ UNCHANGED <<file, disk, lock, todo, written, stale>>

\* BEGIN and SELECT txid FROM txs.
BeginBackfill(p) ==
    /\ pc[p] = "begin"
    /\ pc' = [pc EXCEPT ![p] = "update"]
    /\ todo' = [todo EXCEPT ![p] = Rows(file.db)]
    /\ stale' = [stale EXCEPT ![p] = FALSE]
    /\ UNCHANGED <<file, disk, lock, written>>

MayWrite(p) == lock \in {Nobody, p} /\ ~stale[p]

\* A slip: what the account spent is left out.
CreditOnly(d, t) ==
    [TxRowOf(d.notes, [txid |-> t, height |-> d.txs[t].block_height])
        EXCEPT !.debit = {}]

\* UPDATE txs SET amount = ?, is_outgoing = ? of transaction_accounting.
Recounted(d, t) == TxRowOf(d.notes, [txid |-> t, height |-> d.txs[t].block_height])

UpdateRow(p) ==
    /\ pc[p] = "update"
    /\ MayWrite(p)
    /\ \E t \in todo[p] :
        /\ written' = [written EXCEPT ![p][t] = Recounted(file.db, t)]
        /\ todo' = [todo EXCEPT ![p] = @ \ {t}]
    /\ lock' = p
    /\ UNCHANGED <<file, disk, pc, stale>>

\* The three UPDATEs of is_change and PRAGMA user_version.
UpdateFlags(p) ==
    /\ pc[p] = "update" /\ todo[p] = {}
    /\ MayWrite(p)
    /\ pc' = [pc EXCEPT ![p] = "commit"]
    /\ lock' = p
    /\ UNCHANGED <<file, disk, todo, written, stale>>

\* is_change = (scope = 1 AND is_sent = 0)
ChangeNotes(notes) == Received(notes) \cap Internal \cap Owned

\* What ends the transaction of p.
Release(p) ==
    /\ lock' = IF lock = p THEN Nobody ELSE lock
    /\ todo' = [todo EXCEPT ![p] = {}]
    /\ written' = [written EXCEPT ![p] = NoRows]

\* A slip: the version is counted up.
BackfilledOnceMore(p) ==
    [db |-> [file.db EXCEPT !.txs =
                [t \in Tx |-> IF written[p][t] # NoRow THEN written[p][t] ELSE @[t]]],
     change |-> ChangeNotes(file.db.notes),
     user_version |-> file.user_version + 1]

Backfilled(p) ==
    [db |-> [file.db EXCEPT !.txs =
                [t \in Tx |-> IF written[p][t] # NoRow THEN written[p][t] ELSE @[t]]],
     change |-> ChangeNotes(file.db.notes),
     user_version |-> 1]

CommitBackfill(p) ==
    /\ pc[p] = "commit"
    /\ file' = Backfilled(p)
    /\ stale' = [q \in Proc |-> TRUE]
    /\ pc' = [pc EXCEPT ![p] = "open"]
    /\ Release(p)
    /\ UNCHANGED disk

\* A slip: the statement is tried again in the same transaction.
BusyRetries(p) ==
    /\ pc[p] = "update" /\ ~MayWrite(p)
    /\ UNCHANGED vars

\* A slip: the error is dropped.
BusyIgnored(p) ==
    /\ pc[p] = "update" /\ ~MayWrite(p)
    /\ pc' = [pc EXCEPT ![p] = "open"]
    /\ Release(p)
    /\ UNCHANGED <<file, disk, stale>>

\* SQLITE_BUSY: the transaction is rolled back and `open` returns the error.
Busy(p) ==
    /\ pc[p] = "update" /\ ~MayWrite(p)
    /\ pc' = [pc EXCEPT ![p] = "closed"]
    /\ Release(p)
    /\ UNCHANGED <<file, disk, stale>>
-----------------------------------------------------------------------------
(* The sync engine, as AccountLedger has it: block by block up a chain, back *)
(* to a block of it.  Its transactions wait for the lock.                    *)

Synchronising == pc[Syncing] = "open" /\ lock = Nobody

\* A slip: change is flagged by the backfill only.
StoreUnflagged(d) ==
    /\ file' = [file EXCEPT !.db = d, !.change = @ \cap Received(d.notes)]
    /\ stale' = [q \in Proc |-> TRUE]
    /\ UNCHANGED <<disk, lock, pc, todo, written>>

\* Commit the rows d; a new note of an internal key is stored as change.
Store(d) ==
    /\ file' = [file EXCEPT
        !.db = d,
        !.change = (@ \cap Received(d.notes))
                       \cup (ChangeNotes(d.notes) \ Received(file.db.notes))]
    /\ stale' = [q \in Proc |-> TRUE]
    /\ UNCHANGED <<disk, lock, pc, todo, written>>

\* The height of the last block read.
ReadTo(cursor) == IF cursor = NoCursor THEN Birthday - 1 ELSE Len(cursor)

ApplyBlock ==
    /\ Synchronising
    /\ \E b \in Histories :
        /\ Len(b) = ReadTo(file.db.checkpoint) + 1
        /\ Extends(b, History(file.db.checkpoint))
        /\ Store(ApplyTransactions(file.db, b, Detect(Nullifiers(file.db), b)))

RewindTo ==
    /\ Synchronising
    /\ \E k \in (Birthday - 1)..(Len(History(file.db.checkpoint)) - 1) :
        Store(Rewind(file.db, Prefix(file.db.checkpoint, k)))
-----------------------------------------------------------------------------
\* A process ends, or a call of it fails and it closes the file.
Close(p) ==
    /\ pc[p] # "closed"
    /\ pc' = [pc EXCEPT ![p] = "closed"]
    /\ Release(p)
    /\ UNCHANGED <<file, disk, stale>>

WalSync ==
    /\ disk # file
    /\ disk' = file
    /\ UNCHANGED <<file, lock, local>>

PowerLoss ==
    /\ file' = disk
    /\ lock' = Nobody
    /\ pc' = [p \in Proc |-> "closed"]
    /\ todo' = [p \in Proc |-> {}]
    /\ written' = [p \in Proc |-> NoRows]
    /\ UNCHANGED <<disk, stale>>

Open(p) ==
    ReadVersion(p) \/ BeginBackfill(p) \/ UpdateRow(p) \/ UpdateFlags(p)
        \/ CommitBackfill(p) \/ Busy(p)

Faults == PowerLoss \/ \E p \in Proc : Close(p)

Next == (\E p \in Proc : Open(p)) \/ ApplyBlock \/ RewindTo \/ WalSync \/ Faults

Spec == Init /\ [][Next]_vars

\* Every process runs, and opens the file again when it could not.
FairSpec == Spec /\ \A p \in Proc : WF_vars(Open(p))
-----------------------------------------------------------------------------
\* A file that says it is migrated is: its rows are the exact ledger of its
\* history and its change flags are right, in WAL and on the disk, whoever
\* backfilled it, how often, and whatever the engine wrote in between.
MigratedIsExact ==
    \A f \in {file, disk} :
        f.user_version = 1 =>
            IsLedger(f.db) /\ f.change = ChangeNotes(f.db.notes)

\* No process that has the file open, the engine first, sees unmigrated rows.
OpenIsMigrated == \A p \in Proc : pc[p] = "open" => file.user_version = 1

\* A backfill that lost the race with another one, because user_version was
\* read before, changes nothing of what has been committed since.
LateBackfillChangesNothing ==
    [][\A p \in Proc :
          CommitBackfill(p) /\ file.user_version = 1 => file' = file]_vars

\* If nothing fails any more, everyone gets the file open: losing the race
\* for the write lock is not final.
EveryoneOpens ==
    <>[][~Faults]_vars => \A p \in Proc : <>(pc[p] = "open")

\* The variables keep their types; user_version never leaves 0 and 1.
TypeOK ==
    /\ file \in File /\ disk \in File
    /\ lock \in Proc \cup {Nobody}
    /\ pc \in [Proc -> {"closed", "begin", "update", "commit", "open"}]
    /\ todo \in [Proc -> SUBSET Tx]
    /\ written \in [Proc -> [Tx -> TxRow]]
    /\ stale \in [Proc -> BOOLEAN]

\* What makes them hold: a transaction that may still write has read the file
\* as it is, and what it has written is right.
TransactionInv(p) ==
    /\ lock = p => pc[p] \in {"update", "commit"} /\ ~stale[p]
    /\ lock # p => pc[p] # "commit" /\ written[p] = NoRows
    /\ pc[p] = "commit" => todo[p] = {}
    /\ pc[p] \in {"update", "commit"} /\ ~stale[p] =>
           /\ Rows(file.db) = todo[p] \cup {t \in Tx : written[p][t] # NoRow}
           /\ \A t \in Tx : written[p][t] # NoRow =>
                  TxRowIs(written[p][t], History(file.db.checkpoint), t)

MigrationInv ==
    /\ TypeOK
    /\ IsReceipts(file.db) /\ IsReceipts(disk.db)
    /\ MigratedIsExact
    /\ OpenIsMigrated
    /\ \A p \in Proc : TransactionInv(p)
=============================================================================
