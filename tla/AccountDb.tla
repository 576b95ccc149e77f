----------------------------- MODULE AccountDb -----------------------------
(***************************************************************************)
(* The SQLite account store of src/src/db.rs: the rows the sync engine     *)
(* writes and the operations of the Account trait, each one transaction.   *)
(*                                                                         *)
(* The three per-pool note tables are one function from notes to rows (a   *)
(* note is its primary key (txid, output_index) in one pool).  A row that  *)
(* is not there is NoNote or NoRow; NULL is a height below every height,   *)
(* so `> ?` is false of it as in SQL.  spent = 1 exactly when spent_height *)
(* is not NULL: db.rs writes the columns together.                         *)
(***************************************************************************)
EXTENDS Blocks, Functions

CONSTANTS
    Birthday,    \* account.birthday
    Ironwood,    \* the owned notes of the Ironwood pool
    Value,       \* Value[n]: the zatoshis of note n
    Named,       \* transactions zns-decrypt keeps for a name note; {} without it
    NoCursor,    \* sync_height / sync_hash are NULL
    NoTx         \* spent_txid is NULL

ASSUME BirthdayAssumption == Birthday \in Nat \ {0}
ASSUME PoolAssumption == Ironwood \subseteq Owned /\ Value \in [Note -> Nat]
ASSUME NullAssumption == NoTx \notin Tx /\ NoCursor \notin Seq(Block)

NULL == -1

ReceivedAt(h) ==
    [block_height |-> h, spent_height |-> NULL, spent_txid |-> NoTx]
SpentBy(row, w) ==
    [block_height |-> row.block_height, spent_height |-> w.height,
     spent_txid |-> w.txid]
NoNote == ReceivedAt(NULL)

(***************************************************************************)
(* A row of txs.  `amount` is kept as the two sets of notes it nets: it is *)
(* the value of `credit` minus the value of `debit`.                       *)
(***************************************************************************)
NoRow == [block_height |-> NULL, credit |-> {}, debit |-> {},
          is_outgoing |-> FALSE]

Height == Nat \cup {NULL}
Cursor == Seq(Block) \cup {NoCursor}

NoteRow == [block_height : Height, spent_height : Height,
            spent_txid : Tx \cup {NoTx}]
TxRow == [block_height : Height, credit : SUBSET Note, debit : SUBSET Note,
          is_outgoing : BOOLEAN]
Db == [checkpoint : Cursor, notes : [Note -> NoteRow], txs : [Tx -> TxRow]]

EmptyDb == [checkpoint |-> NoCursor,
            notes |-> [n \in Note |-> NoNote],
            txs |-> [t \in Tx |-> NoRow]]

\* A detected transaction, with the nullifiers scan_block recorded on it.
WalletTx == [txid : Tx, height : Nat, spends : SUBSET Owned]

Received(notes) == {n \in Note : notes[n].block_height # NULL}
Unspent(notes) == {n \in Received(notes) : notes[n].spent_height = NULL}

\* The watch list: the nullifiers of the unspent notes that have one.
Nullifiers(d) == Unspent(d.notes) \cap Watchable

\* The notes `balance` adds up: unspent, and not sent to someone else.
BalanceNotes(d) == Unspent(d.notes) \cap Owned

Balance(d) == SumFunctionOnSet(Value, BalanceNotes(d))
Amount(row) ==
    SumFunctionOnSet(Value, row.credit) - SumFunctionOnSet(Value, row.debit)

\* INSERT OR IGNORE: the notes of the detected transactions, decrypted or
\* recovered; a note that has a row keeps it.
InsertNotes(notes, found) ==
    [n \in Note |->
        IF /\ notes[n].block_height = NULL
           /\ \E w \in found : n \in Outputs[w.txid]
        THEN ReceivedAt((CHOOSE w \in found : n \in Outputs[w.txid]).height)
        ELSE notes[n]]

\* UPDATE ... SET spent = 1 WHERE nf = ? AND spent = 0.  Only watchable notes
\* have an nf.
MarkSpent(notes, found) ==
    [n \in Note |->
        IF /\ n \in Unspent(notes) \cap Watchable
           /\ \E w \in found : n \in w.spends
        THEN SpentBy(notes[n], CHOOSE w \in found : n \in w.spends)
        ELSE notes[n]]

\* transaction_accounting: what the persisted notes say of transaction t.
TransactionAccounting(notes, t) ==
    LET created == Outputs[t] \cap Received(notes)
        debited == {n \in Received(notes) \cap Owned : notes[n].spent_txid = t}
    IN  [credit |-> created \cap Owned,
         debit |-> debited,
         is_outgoing |-> created \ Owned # {} \/ debited # {}]

\* The upserted row of a detected transaction.
TxRowOf(notes, w) ==
    LET accounting == TransactionAccounting(notes, w.txid)
    IN  [block_height |-> w.height, credit |-> accounting.credit,
         debit |-> accounting.debit, is_outgoing |-> accounting.is_outgoing]

\* A slip: the amounts are read before the spends are marked.
AccountBeforeSpends(d, at, found) ==
    LET notes == InsertNotes(d.notes, found)
    IN  [checkpoint |-> at,
         notes |-> MarkSpent(notes, found),
         txs |-> [t \in Tx |->
                    IF \E w \in found : w.txid = t
                    THEN TxRowOf(notes, CHOOSE w \in found : w.txid = t)
                    ELSE d.txs[t]]]

\* A slip: the spends come from the notes this call marked, not from the
\* persisted ones.
AccountMarkedNow(d, at, found) ==
    LET notes == MarkSpent(InsertNotes(d.notes, found), found)
        marked == {n \in Note : notes[n].spent_height # d.notes[n].spent_height}
    IN  [checkpoint |-> at,
         notes |-> notes,
         txs |-> [t \in Tx |->
                    IF \E w \in found : w.txid = t
                    THEN [TxRowOf(notes, CHOOSE w \in found : w.txid = t)
                            EXCEPT !.debit = @ \cap marked]
                    ELSE d.txs[t]]]

\* Account::apply_transactions.  The detected transactions of one call are of
\* one block: they create and spend different notes, so their order is
\* immaterial.
ApplyTransactions(d, at, found) ==
    LET notes == MarkSpent(InsertNotes(d.notes, found), found)
    IN  [checkpoint |-> at,
         notes |-> notes,
         txs |-> [t \in Tx |->
                    IF \E w \in found : w.txid = t
                    THEN TxRowOf(notes, CHOOSE w \in found : w.txid = t)
                    ELSE d.txs[t]]]

\* A slip: notes spent above the cursor stay spent.
RewindKeepingSpends(d, to) ==
    [checkpoint |-> to,
     notes |-> [n \in Note |->
        IF d.notes[n].block_height > Len(to) THEN NoNote ELSE d.notes[n]],
     txs |-> [t \in Tx |->
        IF d.txs[t].block_height > Len(to) THEN NoRow ELSE d.txs[t]]]

\* A slip: the transactions above the cursor stay.
RewindKeepingTxs(d, to) ==
    [checkpoint |-> to,
     notes |-> [n \in Note |->
        IF d.notes[n].block_height > Len(to) THEN NoNote
        ELSE IF d.notes[n].spent_height > Len(to)
             THEN ReceivedAt(d.notes[n].block_height)
             ELSE d.notes[n]],
     txs |-> d.txs]

\* Account::rewind: forget what lies above the cursor and adopt it.
Rewind(d, to) ==
    [checkpoint |-> to,
     notes |-> [n \in Note |->
        IF d.notes[n].block_height > Len(to) THEN NoNote
        ELSE IF d.notes[n].spent_height > Len(to)
             THEN ReceivedAt(d.notes[n].block_height)
             ELSE d.notes[n]],
     txs |-> [t \in Tx |->
        IF d.txs[t].block_height > Len(to) THEN NoRow ELSE d.txs[t]]]
-----------------------------------------------------------------------------
(***************************************************************************)
(* The reference: what an account that read every block of the history c   *)
(* from its birthday on should hold, said of the history alone.            *)
(***************************************************************************)
History(cursor) == IF cursor = NoCursor THEN <<>> ELSE cursor

\* Transaction t of the block of height h is in c, at or above the birthday.
MinedAt(c, h, t) == h \in Birthday..Len(c) /\ t \in c[h].txs

\* Transaction t, at height h, spends the watchable note n received before.
SpendsAt(c, h, t, n) ==
    /\ MinedAt(c, h, t)
    /\ n \in Spends[t] \cap Watchable
    /\ \E g \in Birthday..(h - 1) : \E s \in c[g].txs : n \in Outputs[s]

\* Transaction t concerns the account: it pays it, names it or spends a note of it.
ConcernsAt(c, h, t) ==
    /\ MinedAt(c, h, t)
    /\ \/ Outputs[t] \cap Owned # {}
       \/ t \in Named
       \/ \E n \in Note : SpendsAt(c, h, t, n)

NoteRowIs(row, c, n) ==
    /\ \/ /\ row.block_height = NULL
          /\ \A h \in Birthday..Len(c) : \A t \in c[h].txs :
                n \in Outputs[t] => ~ConcernsAt(c, h, t)
       \/ \E h \in Birthday..Len(c) : \E t \in c[h].txs :
             n \in Outputs[t] /\ ConcernsAt(c, h, t) /\ row.block_height = h
    /\ \/ /\ row.spent_height = NULL
          /\ row.spent_txid = NoTx
          /\ \A h \in Birthday..Len(c) : \A t \in c[h].txs :
                ~SpendsAt(c, h, t, n)
       \/ \E h \in Birthday..Len(c) : \E t \in c[h].txs :
             SpendsAt(c, h, t, n) /\ row.spent_height = h /\ row.spent_txid = t

TxRowIs(row, c, t) ==
    \/ /\ row = NoRow
       /\ \A h \in Birthday..Len(c) : ~ConcernsAt(c, h, t)
    \/ \E h \in Birthday..Len(c) :
          /\ ConcernsAt(c, h, t)
          /\ row.block_height = h
          /\ row.credit = Outputs[t] \cap Owned
          /\ row.debit = {n \in Note : SpendsAt(c, h, t, n)}
          /\ row.is_outgoing = (Outputs[t] \ Owned # {} \/ row.debit # {})

\* The rows of d are those of the history that ends at its checkpoint.
IsLedger(d) ==
    /\ \A n \in Note : NoteRowIs(d.notes[n], History(d.checkpoint), n)
    /\ \A t \in Tx : TxRowIs(d.txs[t], History(d.checkpoint), t)
=============================================================================
