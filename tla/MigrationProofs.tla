-------------------------- MODULE MigrationProofs --------------------------
(***************************************************************************)
(* A file that says it is migrated is the exact ledger of its history, and *)
(* a second backfill of it changes nothing: for every set of processes,    *)
(* every file an older version left and every chain.                       *)
(***************************************************************************)
EXTENDS Migration, LedgerProofs

(* Rows. *)

LEMMA ReceiptFacts ==
    ASSUME NEW d, IsReceipts(d)
    PROVE  /\ d \in Db /\ History(d.checkpoint) \in Seq(Block)
           /\ d.notes \in [Note -> NoteRow] /\ d.txs \in [Tx -> TxRow]
           /\ Valid(History(d.checkpoint))
           /\ Len(History(d.checkpoint)) \in Nat /\ Birthday \in Nat \ {0}
           /\ \A n \in Note : NoteRowIs(d.notes[n], History(d.checkpoint), n)
<1>1. d \in Db
  BY DEF IsReceipts
<1>2. d.checkpoint \in Cursor /\ d.notes \in [Note -> NoteRow] /\ d.txs \in [Tx -> TxRow]
  BY <1>1 DEF Db
<1>3. History(d.checkpoint) \in Seq(Block)
  BY <1>2 DEF Cursor, History
<1>4. Valid(History(d.checkpoint))
      /\ \A n \in Note : NoteRowIs(d.notes[n], History(d.checkpoint), n)
  BY DEF IsReceipts
<1>5. QED
  BY <1>1, <1>2, <1>3, <1>4, BirthdayAssumption

\* A transaction has a row exactly when it concerns the account.
LEMMA RowConcerns ==
    ASSUME NEW d, IsReceipts(d), NEW t \in Tx
    PROVE  /\ t \in Rows(d) => \E h \in Birthday..Len(History(d.checkpoint)) :
                 ConcernsAt(History(d.checkpoint), h, t) /\ d.txs[t].block_height = h
           /\ t \notin Rows(d) => \A h \in Birthday..Len(History(d.checkpoint)) :
                 ~ConcernsAt(History(d.checkpoint), h, t)
<1> DEFINE c == History(d.checkpoint)
<1>1. \/ d.txs[t] = NoRow /\ \A h \in Birthday..Len(c) : ~ConcernsAt(c, h, t)
      \/ \E h \in Birthday..Len(c) :
            ConcernsAt(c, h, t) /\ d.txs[t].block_height = h
  BY DEF IsReceipts
<1>2. \A h \in Birthday..Len(c) : NoRow.block_height # h
  BY ReceiptFacts DEF NoRow, NULL
<1> HIDE DEF c
<1>3. (t \in Rows(d)) <=> (d.txs[t] # NoRow)
  BY DEF Rows
<1>4. QED
  BY <1>1, <1>2, <1>3 DEF c

LEMMA LedgerReceipts ==
    ASSUME NEW d \in Db, IsLedger(d), Valid(History(d.checkpoint)),
           d.checkpoint # NoCursor => Len(d.checkpoint) >= Birthday - 1
    PROVE  IsReceipts(d)
BY DEF IsReceipts, IsLedger, TxRowIs

\* transaction_accounting of a stored transaction is its row of the ledger.
LEMMA RecountedRow ==
    ASSUME NEW d, IsReceipts(d), NEW t \in Rows(d)
    PROVE  /\ Recounted(d, t) \in TxRow
           /\ Recounted(d, t) # NoRow
           /\ TxRowIs(Recounted(d, t), History(d.checkpoint), t)
<1> DEFINE c == History(d.checkpoint)
           debited == {n \in Received(d.notes) \cap Owned : d.notes[n].spent_txid = t}
           created == Outputs[t] \cap Received(d.notes)
<1>0. t \in Tx
  BY DEF Rows
<1>1. PICK h \in Birthday..Len(c) : ConcernsAt(c, h, t) /\ d.txs[t].block_height = h
  BY <1>0, RowConcerns
<1>2. /\ Outputs[t] \subseteq Received(d.notes)
      /\ debited = {n \in Note : SpendsAt(c, h, t, n)}
  BY <1>0, <1>1, ReceiptFacts, AccountingLedger
<1>3. Recounted(d, t) =
        [block_height |-> h, credit |-> created \cap Owned, debit |-> debited,
         is_outgoing |-> (created \ Owned # {} \/ debited # {})]
  BY <1>1 DEF Recounted, TxRowOf, TransactionAccounting
<1>4. created = Outputs[t] /\ created \subseteq Note /\ debited \subseteq Note
  BY <1>2 DEF Received
<1>5. h \in Nat /\ h # NULL
  BY ReceiptFacts DEF NULL
<1> HIDE DEF c, debited, created
<1>6. Recounted(d, t) \in TxRow
  BY <1>3, <1>4, <1>5 DEF TxRow, Height
<1>7. Recounted(d, t) # NoRow
  BY <1>3, <1>5 DEF NoRow
<1>8. TxRowIs(Recounted(d, t), c, t)
  BY <1>1, <1>2, <1>3, <1>4 DEF TxRowIs
<1>9. QED
  BY <1>6, <1>7, <1>8 DEF c

\* The ledger of a history has one row for a transaction.
LEMMA OneRow ==
    ASSUME NEW c, Valid(c), Len(c) \in Nat, NEW t \in Tx,
           NEW row \in TxRow, NEW other \in TxRow,
           TxRowIs(row, c, t), TxRowIs(other, c, t)
    PROVE  row = other
<1>1. \A h, g \in Birthday..Len(c) :
        ConcernsAt(c, h, t) /\ ConcernsAt(c, g, t) => h = g
  <2>1. \A h \in Birthday..Len(c) :
          ConcernsAt(c, h, t) => h \in 1..Len(c) /\ t \in c[h].txs
    BY BirthdayAssumption DEF ConcernsAt, MinedAt
  <2>2. QED
    BY <2>1 DEF Valid, MinedOnce
<1>2. CASE \A h \in Birthday..Len(c) : ~ConcernsAt(c, h, t)
  BY <1>2 DEF TxRowIs
<1>3. ASSUME NEW h \in Birthday..Len(c), ConcernsAt(c, h, t)
      PROVE  row = other
  <2>1. ASSUME NEW r \in TxRow, TxRowIs(r, c, t)
        PROVE  /\ r.block_height = h /\ r.credit = Outputs[t] \cap Owned
               /\ r.debit = {n \in Note : SpendsAt(c, h, t, n)}
               /\ r.is_outgoing = (Outputs[t] \ Owned # {} \/ r.debit # {})
    BY <1>1, <1>3, <2>1 DEF TxRowIs
  <2>2. /\ row.block_height = other.block_height /\ row.credit = other.credit
        /\ row.debit = other.debit /\ row.is_outgoing = other.is_outgoing
    BY <2>1
  <2>3. QED
    BY <2>2 DEF TxRow
<1>4. QED
  BY <1>2, <1>3
-----------------------------------------------------------------------------
(* What a step of Db::open keeps. *)

LEMMA InitMigration == Init => MigrationInv
<1> SUFFICES ASSUME Init PROVE MigrationInv
  OBVIOUS
<1>1. PICK d \in OldDbs : \E flags \in SUBSET Received(d.notes) :
        file = [db |-> d, change |-> flags, user_version |-> 0]
  BY DEF Init
<1>2. PICK flags \in SUBSET Received(d.notes) :
        file = [db |-> d, change |-> flags, user_version |-> 0]
  BY <1>1
<1>3. IsReceipts(d) /\ d \in Db
  BY OldAssumption DEF IsReceipts
<1>4. flags \subseteq Note
  BY <1>2 DEF Received
<1>5. NoRow \in TxRow
  BY DEF NoRow, TxRow, Height, NULL
<1>6. TypeOK
  BY <1>2, <1>3, <1>4, <1>5 DEF Init, TypeOK, File, NoRows
<1>7. MigratedIsExact /\ OpenIsMigrated /\ IsReceipts(file.db) /\ IsReceipts(disk.db)
  BY <1>2, <1>3 DEF Init, MigratedIsExact, OpenIsMigrated
<1>8. ASSUME NEW p \in Proc PROVE TransactionInv(p)
  BY ProcAssumption DEF Init, TransactionInv
<1>9. QED
  BY <1>6, <1>7, <1>8 DEF MigrationInv

\* Steps that leave the file alone and change only what process p has.
LEMMA LocalStep ==
    ASSUME MigrationInv, NEW p \in Proc, UNCHANGED <<file, disk>>,
           lock' \in {lock, p, Nobody}, lock' # lock => lock \in {p, Nobody},
           TypeOK',
           pc'[p] = "open" => file.user_version = 1,
           \A q \in Proc \ {p} :
              /\ pc'[q] = pc[q] /\ todo'[q] = todo[q]
              /\ written'[q] = written[q] /\ stale'[q] = stale[q],
           TransactionInv(p)'
    PROVE  MigrationInv'
<1>1. MigratedIsExact' /\ IsReceipts(file.db)' /\ IsReceipts(disk.db)'
  BY DEF MigrationInv, MigratedIsExact
<1>2. OpenIsMigrated'
  BY DEF MigrationInv, OpenIsMigrated
<1>3. ASSUME NEW q \in Proc \ {p} PROVE TransactionInv(q)'
  <2>1. TransactionInv(q)
    BY DEF MigrationInv
  <2>2. (lock' = q) <=> (lock = q)
    BY ProcAssumption
  <2>3. QED
    BY <2>1, <2>2 DEF TransactionInv
<1>4. QED
  BY <1>1, <1>2, <1>3 DEF MigrationInv

LEMMA ReleaseType ==
    ASSUME TypeOK, NEW p \in Proc, Release(p)
    PROVE  /\ lock' \in Proc \cup {Nobody}
           /\ lock' # p
           /\ lock' \in {lock, Nobody}
           /\ lock' # lock => lock = p
           /\ todo' \in [Proc -> SUBSET Tx] /\ todo'[p] = {}
           /\ written' \in [Proc -> [Tx -> TxRow]] /\ written'[p] = NoRows
           /\ \A q \in Proc \ {p} : todo'[q] = todo[q] /\ written'[q] = written[q]
<1>1. NoRow \in TxRow
  BY DEF NoRow, TxRow, Height, NULL
<1>2. QED
  BY <1>1, ProcAssumption DEF Release, TypeOK, NoRows

LEMMA ReadVersionKeeps ==
    ASSUME MigrationInv, NEW p \in Proc, ReadVersion(p)
    PROVE  MigrationInv'
<1>1. TypeOK'
  BY DEF MigrationInv, ReadVersion, TypeOK
<1>2. pc'[p] \in {"begin", "open"} /\ (pc'[p] = "open" => file.user_version = 1)
  BY DEF MigrationInv, ReadVersion, TypeOK, File
<1>3. \A q \in Proc \ {p} : pc'[q] = pc[q]
  BY DEF MigrationInv, ReadVersion, TypeOK
<1>4. TransactionInv(p)'
  <2>1. TransactionInv(p) /\ pc[p] = "closed"
    BY DEF MigrationInv, ReadVersion
  <2>2. QED
    BY <1>2, <2>1 DEF ReadVersion, TransactionInv
<1>5. QED
  BY <1>1, <1>2, <1>3, <1>4, LocalStep DEF ReadVersion

LEMMA BeginKeeps ==
    ASSUME MigrationInv, NEW p \in Proc, BeginBackfill(p)
    PROVE  MigrationInv'
<1>1. TypeOK'
  BY DEF MigrationInv, BeginBackfill, TypeOK, Rows
<1>2. /\ pc'[p] = "update" /\ todo'[p] = Rows(file.db) /\ stale'[p] = FALSE
      /\ \A q \in Proc \ {p} : /\ pc'[q] = pc[q] /\ todo'[q] = todo[q]
                               /\ stale'[q] = stale[q]
  BY DEF MigrationInv, BeginBackfill, TypeOK
<1>3. TransactionInv(p)'
  <2>1. TransactionInv(p) /\ pc[p] = "begin"
    BY DEF MigrationInv, BeginBackfill
  <2>2. written[p] = NoRows
    BY <2>1 DEF TransactionInv
  <2>3. \A t \in Tx : written[p][t] = NoRow
    BY <2>2 DEF NoRows
  <2>4. QED
    BY <1>2, <2>1, <2>2, <2>3 DEF BeginBackfill, TransactionInv
<1>4. QED
  BY <1>1, <1>2, <1>3, LocalStep DEF BeginBackfill

LEMMA UpdateRowKeeps ==
    ASSUME MigrationInv, NEW p \in Proc, UpdateRow(p)
    PROVE  MigrationInv'
<1>1. PICK t \in todo[p] :
        /\ written' = [written EXCEPT ![p][t] = Recounted(file.db, t)]
        /\ todo' = [todo EXCEPT ![p] = @ \ {t}]
  BY DEF UpdateRow
<1>2. /\ TypeOK /\ TransactionInv(p) /\ pc[p] = "update"
      /\ lock \in {Nobody, p} /\ ~stale[p] /\ IsReceipts(file.db)
  BY DEF MigrationInv, UpdateRow, MayWrite
<1>3. /\ Rows(file.db) = todo[p] \cup {s \in Tx : written[p][s] # NoRow}
      /\ \A s \in Tx : written[p][s] # NoRow =>
            TxRowIs(written[p][s], History(file.db.checkpoint), s)
  BY <1>2 DEF TransactionInv
<1>4. t \in Tx /\ t \in Rows(file.db)
  BY <1>3 DEF Rows
<1>5. /\ Recounted(file.db, t) \in TxRow
      /\ Recounted(file.db, t) # NoRow
      /\ TxRowIs(Recounted(file.db, t), History(file.db.checkpoint), t)
  BY <1>2, <1>4, RecountedRow
<1>6. TypeOK'
  BY <1>1, <1>2, <1>4, <1>5 DEF UpdateRow, TypeOK
<1>7. /\ todo'[p] = todo[p] \ {t}
      /\ \A s \in Tx : written'[p][s] = IF s = t THEN Recounted(file.db, t)
                                       ELSE written[p][s]
      /\ \A q \in Proc \ {p} : todo'[q] = todo[q] /\ written'[q] = written[q]
  BY <1>1, <1>2, <1>4 DEF TypeOK
<1>8. /\ Rows(file.db) = todo'[p] \cup {s \in Tx : written'[p][s] # NoRow}
      /\ \A s \in Tx : written'[p][s] # NoRow =>
            TxRowIs(written'[p][s], History(file.db.checkpoint), s)
  BY <1>3, <1>4, <1>5, <1>7
<1>9. TransactionInv(p)'
  BY <1>2, <1>8 DEF UpdateRow, TransactionInv
<1>10. QED
  BY <1>2, <1>6, <1>7, <1>9, LocalStep DEF UpdateRow

LEMMA UpdateFlagsKeeps ==
    ASSUME MigrationInv, NEW p \in Proc, UpdateFlags(p)
    PROVE  MigrationInv'
<1>1. TypeOK'
  BY DEF MigrationInv, UpdateFlags, TypeOK
<1>2. pc'[p] = "commit" /\ \A q \in Proc \ {p} : pc'[q] = pc[q]
  BY DEF MigrationInv, UpdateFlags, TypeOK
<1>3. TransactionInv(p)'
  <2>1. /\ TransactionInv(p) /\ pc[p] = "update" /\ todo[p] = {}
        /\ ~stale[p] /\ lock' = p
    BY DEF MigrationInv, UpdateFlags, MayWrite
  <2>2. QED
    BY <1>2, <2>1 DEF UpdateFlags, TransactionInv
<1>4. QED
  BY <1>1, <1>2, <1>3, LocalStep DEF UpdateFlags, MayWrite

\* Losing the race, an error and the end of a process.
LEMMA LeaveKeeps ==
    ASSUME MigrationInv, NEW p \in Proc, Busy(p) \/ Close(p)
    PROVE  MigrationInv'
<1>1. /\ Release(p) /\ UNCHANGED <<file, disk, stale>>
      /\ pc' = [pc EXCEPT ![p] = "closed"]
  BY DEF Busy, Close
<1>2. TypeOK
  BY DEF MigrationInv
<1>3. TypeOK'
  BY <1>1, <1>2, ReleaseType DEF TypeOK
<1>4. pc'[p] = "closed" /\ \A q \in Proc \ {p} : pc'[q] = pc[q]
  BY <1>1, <1>2 DEF TypeOK
<1>5. TransactionInv(p)'
  BY <1>1, <1>2, <1>4, ReleaseType DEF TransactionInv, NoRows
<1>6. /\ lock' \in {lock, p, Nobody} /\ (lock' # lock => lock \in {p, Nobody})
      /\ \A q \in Proc \ {p} : todo'[q] = todo[q] /\ written'[q] = written[q]
  BY <1>1, <1>2, ReleaseType
<1>7. UNCHANGED <<file, disk>> /\ \A q \in Proc : stale'[q] = stale[q]
  BY <1>1
<1>8. QED
  BY <1>3, <1>4, <1>5, <1>6, <1>7, LocalStep
-----------------------------------------------------------------------------
(* What a commit keeps. *)

\* A commit of anyone makes every snapshot stale, and what is written gone.
LEMMA CommitStep ==
    ASSUME TypeOK, TypeOK', stale' = [q \in Proc |-> TRUE], lock' = Nobody,
           \A q \in Proc : pc'[q] # "commit" /\ written'[q] = NoRows
    PROVE  \A q \in Proc : TransactionInv(q)'
BY ProcAssumption DEF TransactionInv

\* The write lock is free: no one is about to commit.
LEMMA LockFree ==
    ASSUME MigrationInv, lock = Nobody, NEW q \in Proc
    PROVE  pc[q] # "commit" /\ written[q] = NoRows
BY ProcAssumption DEF MigrationInv, TransactionInv
\* What CommitBackfill writes is the ledger.
LEMMA BackfilledExact ==
    ASSUME MigrationInv, NEW p \in Proc, CommitBackfill(p)
    PROVE  /\ Backfilled(p) \in File
           /\ Backfilled(p).user_version = 1
           /\ Backfilled(p).change = ChangeNotes(Backfilled(p).db.notes)
           /\ Backfilled(p).db.notes = file.db.notes
           /\ Backfilled(p).db.checkpoint = file.db.checkpoint
           /\ IsLedger(Backfilled(p).db) /\ IsReceipts(Backfilled(p).db)
<1> DEFINE new == Backfilled(p)
           c == History(file.db.checkpoint)
<1>1. /\ TypeOK /\ TransactionInv(p) /\ IsReceipts(file.db)
      /\ pc[p] = "commit" /\ written[p] \in [Tx -> TxRow]
  BY DEF MigrationInv, CommitBackfill, TypeOK
<1>2. /\ file.db \in Db /\ file.db.txs \in [Tx -> TxRow] /\ Valid(c)
      /\ \A n \in Note : NoteRowIs(file.db.notes[n], c, n)
  BY <1>1, ReceiptFacts
<1>3. /\ Rows(file.db) = {t \in Tx : written[p][t] # NoRow}
      /\ \A t \in Tx : written[p][t] # NoRow => TxRowIs(written[p][t], c, t)
  BY <1>1 DEF TransactionInv
<1>4. /\ new.db = [checkpoint |-> file.db.checkpoint, notes |-> file.db.notes,
                  txs |-> [t \in Tx |-> IF written[p][t] # NoRow
                                       THEN written[p][t] ELSE file.db.txs[t]]]
      /\ new.change = ChangeNotes(file.db.notes) /\ new.user_version = 1
      /\ new = [db |-> new.db, change |-> new.change, user_version |-> new.user_version]
  BY <1>2 DEF Backfilled, Db
<1> HIDE DEF new
<1>5. new.db \in Db
  BY <1>1, <1>2, <1>4 DEF Db
<1>6. new \in File
  BY <1>4, <1>5 DEF File, ChangeNotes, Received
<1>7. ASSUME NEW t \in Tx PROVE TxRowIs(new.db.txs[t], c, t)
  <2>1. CASE written[p][t] # NoRow
    BY <1>3, <1>4, <2>1
  <2>2. CASE written[p][t] = NoRow
    <3>1. t \notin Rows(file.db) /\ file.db.txs[t] = NoRow
      BY <1>3, <2>2 DEF Rows
    <3>2. \A h \in Birthday..Len(c) : ~ConcernsAt(c, h, t)
      BY <1>1, <3>1, RowConcerns
    <3>3. new.db.txs[t] = NoRow
      BY <1>4, <2>2, <3>1
    <3>4. QED
      BY <3>2, <3>3 DEF TxRowIs
  <2>3. QED
    BY <2>1, <2>2
<1>8. IsLedger(new.db)
  BY <1>2, <1>4, <1>7 DEF IsLedger
<1>9. IsReceipts(new.db)
  <2>1. new.db.checkpoint # NoCursor => Len(new.db.checkpoint) >= Birthday - 1
    BY <1>1, <1>4 DEF IsReceipts
  <2>2. QED
    BY <1>2, <1>4, <1>5, <1>8, <2>1, LedgerReceipts
<1>10. QED
  BY <1>4, <1>6, <1>8, <1>9 DEF new

LEMMA CommitKeeps ==
    ASSUME MigrationInv, NEW p \in Proc, CommitBackfill(p)
    PROVE  MigrationInv'
<1>1. /\ TypeOK /\ TransactionInv(p) /\ Release(p) /\ lock = p
      /\ file' = Backfilled(p) /\ disk' = disk
  BY DEF MigrationInv, CommitBackfill, TransactionInv
<1>2. lock' = Nobody
  BY <1>1 DEF Release
<1>3. TypeOK'
  BY <1>1, ReleaseType, BackfilledExact DEF CommitBackfill, TypeOK
<1>4. \A q \in Proc : pc'[q] # "commit" /\ written'[q] = NoRows
  <2>1. ASSUME NEW q \in Proc \ {p} PROVE pc[q] # "commit" /\ written[q] = NoRows
    BY <1>1 DEF MigrationInv, TransactionInv
  <2>2. QED
    BY <1>1, <2>1, ReleaseType DEF CommitBackfill, TypeOK
<1>5. \A q \in Proc : TransactionInv(q)'
  BY <1>1, <1>2, <1>3, <1>4, CommitStep DEF CommitBackfill
<1>6. MigratedIsExact' /\ OpenIsMigrated'
  BY <1>1, BackfilledExact DEF MigrationInv, MigratedIsExact, OpenIsMigrated
<1>7. IsReceipts(file.db)' /\ IsReceipts(disk.db)'
  BY <1>1, BackfilledExact DEF MigrationInv
<1>8. QED
  BY <1>3, <1>5, <1>6, <1>7 DEF MigrationInv

LEMMA StoreKeeps ==
    ASSUME MigrationInv, Synchronising, NEW d, Store(d),
           IsReceipts(d), IsLedger(d)
    PROVE  MigrationInv'
<1>1. /\ TypeOK /\ lock = Nobody /\ file.user_version = 1
      /\ file.change = ChangeNotes(file.db.notes)
  BY ProcAssumption DEF MigrationInv, Synchronising, OpenIsMigrated, MigratedIsExact
<1>2. /\ file'.db = d /\ file'.user_version = 1
      /\ file'.change = (file.change \cap Received(d.notes))
                           \cup (ChangeNotes(d.notes) \ Received(file.db.notes))
      /\ file' = [db |-> file'.db, change |-> file'.change,
                  user_version |-> file'.user_version]
  BY <1>1 DEF Store, TypeOK, File
<1>3. file'.change = ChangeNotes(d.notes)
  BY <1>1, <1>2 DEF ChangeNotes
<1>4. d \in Db
  BY DEF IsReceipts
<1>5. file' \in File
  BY <1>2, <1>3, <1>4 DEF File, ChangeNotes, Received
<1>6. TypeOK'
  BY <1>1, <1>5 DEF Store, TypeOK
<1>7. \A q \in Proc : TransactionInv(q)'
  BY <1>1, <1>6, LockFree, CommitStep DEF Store
<1>8. MigratedIsExact' /\ OpenIsMigrated'
  BY <1>2, <1>3 DEF MigrationInv, MigratedIsExact, OpenIsMigrated, Store
<1>9. IsReceipts(file.db)' /\ IsReceipts(disk.db)'
  BY <1>2 DEF MigrationInv, Store
<1>10. QED
  BY <1>6, <1>7, <1>8, <1>9 DEF MigrationInv

LEMMA ApplyKeeps ==
    ASSUME MigrationInv, ApplyBlock
    PROVE  MigrationInv'
<1> DEFINE d == file.db
           c == History(d.checkpoint)
<1>1. PICK b \in Histories :
        /\ Len(b) = ReadTo(d.checkpoint) + 1
        /\ Extends(b, c)
        /\ Store(ApplyTransactions(d, b, Detect(Nullifiers(d), b)))
  BY DEF ApplyBlock
<1>2. /\ Synchronising /\ IsReceipts(d) /\ IsLedger(d)
  BY ProcAssumption
     DEF ApplyBlock, MigrationInv, Synchronising, OpenIsMigrated, MigratedIsExact
<1>3. /\ d \in Db /\ c \in Seq(Block) /\ Len(c) \in Nat /\ Birthday \in Nat \ {0}
      /\ d.checkpoint \in Cursor
      /\ (d.checkpoint # NoCursor => Len(d.checkpoint) >= Birthday - 1)
  BY <1>2, ReceiptFacts DEF IsReceipts, Db
<1>4. b \in BlockHash /\ Valid(b) /\ b \in Cursor /\ Len(b) \in Nat /\ b # NoCursor
  BY HistoryAssumption, NullAssumption DEF BlockHash, Cursor
<1>5. /\ d.checkpoint = NoCursor => Len(c) = 0 /\ Len(b) = Birthday
      /\ d.checkpoint # NoCursor => Len(c) = Len(b) - 1 /\ Len(c) >= Birthday - 1
  BY <1>1, <1>3 DEF History, ReadTo
<1>6. Len(c) < Len(b) /\ Birthday <= Len(b)
  BY <1>3, <1>4, <1>5
<1>7. \A i \in 1..Len(c) : b[i] = c[i]
  BY <1>1 DEF Extends
<1>8. NextFound(d, b)
  <2>1. SameUpTo(b, c, Len(c))
    <3>1. ASSUME NEW h \in Birthday..Len(c)
          PROVE  h \in 1..Len(b) /\ h \in 1..Len(c) /\ b[h] = c[h]
      BY <1>3, <1>4, <1>6, <1>7
    <3>2. QED
      BY <3>1 DEF SameUpTo
  <2>2. \A h \in Birthday..(Len(b) - 1) : ~(h > Len(c))
    BY <1>3, <1>4, <1>5
  <2>3. QED
    BY <1>2, <1>3, <1>4, <1>6, <2>1, <2>2 DEF NextFound
<1> DEFINE new == ApplyTransactions(d, b, Detect(Nullifiers(d), b))
<1>9. IsLedger(new)
  BY <1>8, ApplyLedger
<1>10. new \in Db
  BY <1>3, <1>4, DetectType, ApplyType
<1>11. new.checkpoint = b
  BY DEF ApplyTransactions
<1> HIDE DEF new, d, c
<1>12. IsReceipts(new)
  <2>1. History(new.checkpoint) = b
    BY <1>4, <1>11 DEF History
  <2>2. QED
    BY <1>3, <1>4, <1>6, <1>9, <1>10, <1>11, <2>1, LedgerReceipts
<1>13. QED
  BY <1>1, <1>2, <1>9, <1>12, StoreKeeps DEF new

LEMMA RewindKeeps ==
    ASSUME MigrationInv, RewindTo
    PROVE  MigrationInv'
<1> DEFINE d == file.db
           c == History(d.checkpoint)
<1>1. PICK k \in (Birthday - 1)..(Len(c) - 1) :
        Store(Rewind(d, Prefix(d.checkpoint, k)))
  BY DEF RewindTo
<1>2. /\ Synchronising /\ IsReceipts(d) /\ IsLedger(d)
  BY ProcAssumption
     DEF RewindTo, MigrationInv, Synchronising, OpenIsMigrated, MigratedIsExact
<1>3. /\ d \in Db /\ c \in Seq(Block) /\ Len(c) \in Nat /\ Valid(c)
      /\ Birthday \in Nat \ {0}
  BY <1>2, ReceiptFacts
<1>4. k \in 0..Len(c) /\ k >= Birthday - 1 /\ k < Len(c)
  BY <1>3
<1>5. d.checkpoint # NoCursor /\ c = d.checkpoint
  BY <1>3, <1>4 DEF History
<1> DEFINE to == Prefix(d.checkpoint, k)
           new == Rewind(d, to)
<1>6. /\ to \in Seq(Block) /\ Len(to) = k /\ \A i \in 1..k : to[i] = c[i]
      /\ to \in Cursor /\ to # NoCursor /\ Valid(to)
  <2>1. to = Prefix(c, k)
    BY <1>5
  <2>2. /\ to \in Seq(Block) /\ Len(to) = k /\ Valid(to)
        /\ \A i \in 1..k : to[i] = c[i]
    BY <1>3, <1>4, <2>1, PrefixFacts, ValidPrefix
  <2>3. QED
    BY <2>2, NullAssumption DEF Cursor
<1>7. SameUpTo(c, to, Len(to))
  <2>1. ASSUME NEW h \in Birthday..k
        PROVE  h \in 1..Len(c) /\ h \in 1..Len(to) /\ c[h] = to[h]
    BY <1>3, <1>4, <1>6
  <2>2. QED
    BY <1>6, <2>1 DEF SameUpTo
<1>8. new.checkpoint = to
  BY DEF Rewind
<1> HIDE DEF to, c, d
<1>9. IsLedger(new)
  BY <1>2, <1>3, <1>6, <1>7, RewindLedger DEF Valid, c
<1>10. new \in Db
  BY <1>3, <1>6, RewindType
<1> HIDE DEF new
<1>11. IsReceipts(new)
  <2>1. History(new.checkpoint) = to
    BY <1>6, <1>8 DEF History
  <2>2. QED
    BY <1>4, <1>6, <1>8, <1>9, <1>10, <2>1, LedgerReceipts
<1>12. QED
  BY <1>1, <1>2, <1>9, <1>11, StoreKeeps DEF new, to, d, c

LEMMA DiskKeeps ==
    ASSUME MigrationInv, WalSync \/ PowerLoss
    PROVE  MigrationInv'
<1>1. CASE WalSync
  BY <1>1 DEF WalSync, local, MigrationInv, TypeOK, MigratedIsExact, OpenIsMigrated,
              TransactionInv
<1>2. CASE PowerLoss
  <2>1. NoRow \in TxRow
    BY DEF NoRow, TxRow, Height, NULL
  <2>2. TypeOK'
    BY <1>2, <2>1 DEF PowerLoss, MigrationInv, TypeOK, NoRows
  <2>3. \A q \in Proc : TransactionInv(q)'
    BY <1>2, ProcAssumption DEF PowerLoss, TransactionInv
  <2>4. MigratedIsExact' /\ OpenIsMigrated' /\ IsReceipts(file.db)' /\ IsReceipts(disk.db)'
    BY <1>2 DEF PowerLoss, MigrationInv, MigratedIsExact, OpenIsMigrated
  <2>5. QED
    BY <2>2, <2>3, <2>4 DEF MigrationInv
<1>3. QED
  BY <1>1, <1>2
-----------------------------------------------------------------------------
(* The theorems. *)

LEMMA MigrationStep == MigrationInv /\ [Next]_vars => MigrationInv'
<1> SUFFICES ASSUME MigrationInv, [Next]_vars PROVE MigrationInv'
  OBVIOUS
<1>1. CASE UNCHANGED vars
  BY <1>1 DEF vars, local, MigrationInv, TypeOK, MigratedIsExact, OpenIsMigrated,
              TransactionInv
<1>2. ASSUME NEW p \in Proc, Open(p) \/ Close(p)
      PROVE  MigrationInv'
  BY <1>2, ReadVersionKeeps, BeginKeeps, UpdateRowKeeps, UpdateFlagsKeeps,
     CommitKeeps, LeaveKeeps DEF Open
<1>3. CASE ApplyBlock \/ RewindTo \/ WalSync \/ PowerLoss
  BY <1>3, ApplyKeeps, RewindKeeps, DiskKeeps
<1>4. QED
  BY <1>1, <1>2, <1>3 DEF Next, Faults

\* MigrationInv holds in every reachable state, whatever the processes do.
THEOREM MigrationInvariant == Spec => []MigrationInv
BY InitMigration, MigrationStep, PTL DEF Spec

\* The types: user_version stays 0 or 1 and every row well-formed, whatever
\* `migrate` was doing when a process died.
THEOREM MigrationTypes == Spec => []TypeOK
BY MigrationInvariant, PTL DEF MigrationInv

\* A file with user_version = 1 is the exact ledger of its history.
THEOREM MigratedFilesExact == Spec => []MigratedIsExact
BY MigrationInvariant, PTL DEF MigrationInv

\* While a process has the file open, the engine that synchronises into it
\* included, the file is migrated.
THEOREM OpenFilesMigrated == Spec => []OpenIsMigrated
BY MigrationInvariant, PTL DEF MigrationInv

\* A backfill that lost the race changes nothing.
THEOREM LateBackfillHarmless == Spec => LateBackfillChangesNothing
<1>1. ASSUME MigrationInv, NEW p \in Proc, CommitBackfill(p), file.user_version = 1
      PROVE  file' = file
  <2> DEFINE new == Backfilled(p)
             c == History(file.db.checkpoint)
  <2>1. /\ file' = new /\ file \in File /\ new \in File
        /\ IsReceipts(file.db) /\ IsReceipts(new.db)
        /\ IsLedger(file.db) /\ IsLedger(new.db)
        /\ file.change = ChangeNotes(file.db.notes)
        /\ new.user_version = 1 /\ new.change = ChangeNotes(new.db.notes)
        /\ new.db.notes = file.db.notes /\ new.db.checkpoint = file.db.checkpoint
    BY <1>1, BackfilledExact
       DEF CommitBackfill, MigrationInv, TypeOK, MigratedIsExact
  <2> HIDE DEF new
  <2>2. ASSUME NEW t \in Tx PROVE new.db.txs[t] = file.db.txs[t]
    <3>1. TxRowIs(new.db.txs[t], c, t) /\ TxRowIs(file.db.txs[t], c, t)
      BY <2>1 DEF IsLedger
    <3>2. /\ Valid(c) /\ Len(c) \in Nat
          /\ new.db.txs[t] \in TxRow /\ file.db.txs[t] \in TxRow
      BY <2>1, ReceiptFacts
    <3>3. QED
      BY <3>1, <3>2, OneRow
  <2>3. new.db = file.db
    <3>1. new.db.txs = file.db.txs
      BY <2>1, <2>2, ReceiptFacts
    <3>2. new.db \in Db /\ file.db \in Db
      BY <2>1, ReceiptFacts
    <3>3. QED
      BY <2>1, <3>1, <3>2 DEF Db
  <2>4. QED
    BY <1>1, <2>1, <2>3 DEF File
<1>2. MigrationInv /\ [Next]_vars =>
        [\A p \in Proc : CommitBackfill(p) /\ file.user_version = 1 => file' = file]_vars
  BY <1>1
<1>3. QED
  BY <1>2, MigrationInvariant, PTL DEF Spec, LateBackfillChangesNothing
=============================================================================
