---------------------------- MODULE LedgerProofs ----------------------------
(***************************************************************************)
(* Lemmas about the account store: rewind and apply_transactions take the  *)
(* ledger of one history to the ledger of another; a history has one       *)
(* ledger, and its amounts add up to its balance.                          *)
(***************************************************************************)
EXTENDS Detection, SumLemmas

-----------------------------------------------------------------------------
(* Histories. *)

LEMMA PrefixFacts ==
    ASSUME NEW S, NEW c \in Seq(S), NEW k \in 0..Len(c)
    PROVE  /\ Prefix(c, k) \in Seq(S)
           /\ Len(Prefix(c, k)) = k
           /\ \A i \in 1..k : Prefix(c, k)[i] = c[i]
BY DEF Prefix

LEMMA AppendFacts ==
    ASSUME NEW S, NEW s \in Seq(S), NEW x \in S
    PROVE  /\ Append(s, x) \in Seq(S)
           /\ Len(Append(s, x)) = Len(s) + 1
           /\ \A i \in 1..Len(s) : Append(s, x)[i] = s[i]
           /\ Append(s, x)[Len(s) + 1] = x
           /\ Append(s, x) # <<>>
OBVIOUS

LEMMA MinedOncePrefix ==
    ASSUME NEW c \in Seq(Block), NEW k \in 0..Len(c), MinedOnce(c)
    PROVE  MinedOnce(Prefix(c, k))
<1> DEFINE e == Prefix(c, k)
<1>1. Len(e) = k /\ \A i \in 1..k : e[i] = c[i] /\ i \in 1..Len(c)
  BY PrefixFacts
<1> HIDE DEF e
<1>2. MinedOnce(e)
  BY <1>1 DEF MinedOnce
<1>3. QED
  BY <1>2 DEF e

LEMMA MinedOnceAppend ==
    ASSUME NEW c \in Seq(Block), NEW b \in Block, MinedOnce(c), CanExtend(c, b)
    PROVE  MinedOnce(Append(c, b))
<1> DEFINE e == Append(c, b)
<1>1. /\ Len(e) = Len(c) + 1
      /\ \A i \in 1..Len(c) : e[i] = c[i]
      /\ e[Len(c) + 1] = b
  BY AppendFacts
<1>2. ASSUME NEW h \in 1..Len(c), NEW t \in c[h].txs, NEW s \in b.txs
      PROVE  t # s /\ Spends[t] \cap Spends[s] = {}
  <2>1. t \in TxsIn(c)
    BY DEF TxsIn
  <2>2. Spends[t] \subseteq SpentIn(c)
    BY <2>1 DEF SpentIn
  <2>3. QED
    BY <2>1, <2>2 DEF CanExtend
<1> HIDE DEF e
<1>3. ASSUME NEW h \in 1..Len(e), NEW g \in 1..Len(e),
             NEW t \in e[h].txs, NEW s \in e[g].txs
      PROVE  /\ t = s => h = g
             /\ t # s => Spends[t] \cap Spends[s] = {}
  <2>1. CASE h <= Len(c) /\ g <= Len(c)
    BY <1>1, <2>1 DEF MinedOnce
  <2>2. CASE h <= Len(c) /\ g = Len(c) + 1
    BY <1>1, <1>2, <2>2
  <2>3. CASE h = Len(c) + 1 /\ g <= Len(c)
    BY <1>1, <1>2, <2>3
  <2>4. CASE h = Len(c) + 1 /\ g = Len(c) + 1
    BY <1>1, <2>4 DEF CanExtend
  <2>5. QED
    BY <1>1, <2>1, <2>2, <2>3, <2>4
<1>4. QED
  BY <1>3 DEF MinedOnce, e

LEMMA ValidPrefix ==
    ASSUME NEW c \in Seq(Block), NEW k \in 0..Len(c), Valid(c)
    PROVE  Valid(Prefix(c, k))
<1> DEFINE e == Prefix(c, k)
<1>1. Len(e) = k /\ \A i \in 1..k : e[i] = c[i] /\ i \in 1..Len(c)
  BY PrefixFacts
<1>2. MinedOnce(e)
  BY MinedOncePrefix DEF Valid
<1> HIDE DEF e
<1>3. ASSUME NEW h \in 1..k, NEW t \in c[h].txs, NEW n \in Spends[t]
      PROVE  \E g \in 1..(h - 1) : \E s \in e[g].txs : n \in Outputs[s]
  <2>1. PICK g \in 1..(h - 1) : \E s \in c[g].txs : n \in Outputs[s]
    BY <1>1 DEF Valid, SpentLater
  <2>2. e[g] = c[g]
    BY <1>1
  <2>3. QED
    BY <2>1, <2>2
<1>4. QED
  BY <1>1, <1>2, <1>3 DEF Valid, SpentLater, e

LEMMA ValidAppend ==
    ASSUME NEW c \in Seq(Block), NEW b \in Block, Valid(c), CanExtend(c, b)
    PROVE  Valid(Append(c, b))
<1> DEFINE e == Append(c, b)
<1>1. /\ Len(e) = Len(c) + 1 /\ Len(c) \in Nat
      /\ \A i \in 1..Len(c) : e[i] = c[i]
      /\ e[Len(c) + 1] = b
  BY AppendFacts
<1>2. MinedOnce(e)
  BY MinedOnceAppend DEF Valid
<1> HIDE DEF e
<1>3. ASSUME NEW h \in 1..Len(e), NEW t \in e[h].txs, NEW n \in Spends[t]
      PROVE  \E g \in 1..(h - 1) : \E s \in e[g].txs : n \in Outputs[s]
  <2>1. CASE h \in 1..Len(c)
    <3>1. PICK g \in 1..(h - 1) : \E s \in c[g].txs : n \in Outputs[s]
      BY <1>1, <2>1 DEF Valid, SpentLater
    <3>2. e[g] = c[g]
      BY <1>1, <2>1
    <3>3. QED
      BY <3>1, <3>2
  <2>2. CASE h = Len(c) + 1
    <3>1. n \in CreatedIn(c)
      BY <1>1, <2>2 DEF CanExtend
    <3>2. PICK s \in TxsIn(c) : n \in Outputs[s]
      BY <3>1 DEF CreatedIn
    <3>3. PICK g \in 1..Len(c) : s \in c[g].txs
      BY <3>2 DEF TxsIn
    <3>4. g \in 1..(h - 1) /\ e[g] = c[g]
      BY <1>1, <2>2
    <3>5. QED
      BY <3>2, <3>3, <3>4
  <2>3. QED
    BY <1>1, <2>1, <2>2
<1>4. QED
  BY <1>2, <1>3 DEF Valid, SpentLater, e

\* Below height m the two histories have the same blocks from the birthday on.
SameUpTo(a, b, m) ==
    \A h \in Birthday..m : h \in 1..Len(a) /\ h \in 1..Len(b) /\ a[h] = b[h]

LEMMA SameSpends ==
    ASSUME NEW a, NEW b, NEW m \in Int, SameUpTo(a, b, m),
           Len(a) \in Nat, Len(b) \in Nat,
           NEW h \in Birthday..m, NEW t, NEW n, SpendsAt(a, h, t, n)
    PROVE  SpendsAt(b, h, t, n)
<1>1. h \in Int /\ m \in Int /\ Birthday \in Nat
  BY BirthdayAssumption
<1>2. /\ h \in Birthday..Len(b) /\ a[h] = b[h]
      /\ \A g \in Birthday..(h - 1) : g \in Birthday..m /\ a[g] = b[g]
  BY <1>1 DEF SameUpTo
<1>3. QED
  BY <1>2 DEF SpendsAt, MinedAt

LEMMA SameSpendsBoth ==
    ASSUME NEW a, NEW b, NEW m \in Int, SameUpTo(a, b, m),
           Len(a) \in Nat, Len(b) \in Nat,
           NEW h \in Birthday..m, NEW t
    PROVE  /\ MinedAt(a, h, t) <=> MinedAt(b, h, t)
           /\ \A n : SpendsAt(a, h, t, n) <=> SpendsAt(b, h, t, n)
           /\ ConcernsAt(a, h, t) <=> ConcernsAt(b, h, t)
<1>1. SameUpTo(b, a, m)
  BY DEF SameUpTo
<1>2. \A n : SpendsAt(a, h, t, n) <=> SpendsAt(b, h, t, n)
  BY <1>1, SameSpends
<1>3. MinedAt(a, h, t) <=> MinedAt(b, h, t)
  <2>1. h \in Birthday..Len(a) /\ h \in Birthday..Len(b) /\ a[h] = b[h]
    BY BirthdayAssumption DEF SameUpTo
  <2>2. QED
    BY <2>1 DEF MinedAt
<1>4. QED
  BY <1>2, <1>3 DEF ConcernsAt

\* A note is created once and spent once on a valid chain.
LEMMA CreatedOnce ==
    ASSUME NEW c, MinedOnce(c), NEW h \in 1..Len(c), NEW g \in 1..Len(c),
           NEW t \in Tx, NEW s \in Tx, t \in c[h].txs, s \in c[g].txs,
           NEW n, n \in Outputs[t], n \in Outputs[s]
    PROVE  t = s /\ h = g
<1>1. t = s
  BY TxAssumption
<1>2. QED
  BY <1>1 DEF MinedOnce

LEMMA SpentOnce ==
    ASSUME NEW c, MinedOnce(c), NEW h \in 1..Len(c), NEW g \in 1..Len(c),
           NEW t, NEW s, t \in c[h].txs, s \in c[g].txs,
           NEW n, n \in Spends[t], n \in Spends[s]
    PROVE  t = s /\ h = g
BY DEF MinedOnce

LEMMA BlockTxs ==
    ASSUME NEW c \in Seq(Block), NEW h \in 1..Len(c)
    PROVE  c[h].txs \subseteq Tx
<1>1. c[h] \in Block
  OBVIOUS
<1>2. QED
  BY <1>1 DEF Block

\* A transaction that pays an owned note concerns the account.
LEMMA OwnedConcerns ==
    ASSUME NEW c, NEW h, NEW t, MinedAt(c, h, t), NEW n \in Owned, n \in Outputs[t]
    PROVE  ConcernsAt(c, h, t)
BY DEF ConcernsAt
-----------------------------------------------------------------------------
(* Rewinding. *)

LEMMA RewindNote ==
    ASSUME NEW c \in Seq(Block), MinedOnce(c), NEW to \in Seq(Block),
           SameUpTo(c, to, Len(to)),
           NEW n \in Note, NEW row \in NoteRow, NoteRowIs(row, c, n)
    PROVE  NoteRowIs(IF row.block_height > Len(to) THEN NoNote
                     ELSE IF row.spent_height > Len(to)
                          THEN ReceivedAt(row.block_height) ELSE row,
                     to, n)
<1> DEFINE m == Len(to)
           new == IF row.block_height > m THEN NoNote
                  ELSE IF row.spent_height > m
                       THEN ReceivedAt(row.block_height) ELSE row
<1>0. /\ m \in Nat /\ Len(c) \in Nat /\ Birthday \in Nat \ {0}
      /\ row.block_height \in Nat \cup {-1} /\ row.spent_height \in Nat \cup {-1}
  BY BirthdayAssumption DEF NoteRow, Height, NULL
<1>1. ASSUME NEW h \in Birthday..m
      PROVE  /\ h \in 1..Len(c) /\ h \in 1..m /\ to[h] = c[h]
             /\ to[h].txs \subseteq Tx
             /\ \A t : SpendsAt(to, h, t, n) <=> SpendsAt(c, h, t, n)
             /\ \A t : ConcernsAt(to, h, t) <=> ConcernsAt(c, h, t)
  <2>1. h \in 1..Len(c) /\ h \in 1..m /\ to[h] = c[h]
    BY DEF SameUpTo
  <2>2. QED
    BY <1>0, <2>1, SameSpendsBoth, BlockTxs
<1>2. \A h \in Birthday..Len(c) :
        h \in 1..Len(c) /\ h \in Nat /\ c[h].txs \subseteq Tx
  BY <1>0, BlockTxs
<1>3. \/ /\ new.block_height = NULL
         /\ \A h \in Birthday..m : \A t \in to[h].txs :
               n \in Outputs[t] => ~ConcernsAt(to, h, t)
      \/ \E h \in Birthday..m : \E t \in to[h].txs :
            n \in Outputs[t] /\ ConcernsAt(to, h, t) /\ new.block_height = h
  <2>1. CASE row.block_height = NULL
    <3>1. new.block_height = NULL
      BY <1>0, <2>1 DEF NULL, ReceivedAt
    <3>2. \A h \in Birthday..Len(c) : \A t \in c[h].txs :
            n \in Outputs[t] => ~ConcernsAt(c, h, t)
      BY <1>2, <2>1 DEF NoteRowIs, NULL
    <3> HIDE DEF new
    <3>3. QED
      BY <1>0, <1>1, <3>1, <3>2
  <2>2. CASE row.block_height # NULL
    <3>1. PICK h \in Birthday..Len(c) : \E t \in c[h].txs :
            n \in Outputs[t] /\ ConcernsAt(c, h, t) /\ row.block_height = h
      BY <2>2 DEF NoteRowIs
    <3>2. PICK t \in c[h].txs :
            n \in Outputs[t] /\ ConcernsAt(c, h, t) /\ row.block_height = h
      BY <3>1
    <3>3. CASE h <= m
      <4>1. new.block_height = h
        BY <1>0, <1>2, <3>2, <3>3 DEF ReceivedAt
      <4>2. h \in Birthday..m
        BY <1>0, <1>2, <3>3
      <4> HIDE DEF new
      <4>3. QED
        BY <1>1, <3>2, <4>1, <4>2
    <3>4. CASE h > m
      <4>1. new.block_height = NULL
        BY <3>2, <3>4 DEF NoNote, ReceivedAt
      <4>2. ASSUME NEW g \in Birthday..m, NEW s \in to[g].txs, n \in Outputs[s]
            PROVE  FALSE
        BY <1>0, <1>1, <1>2, <3>2, <3>4, <4>2, CreatedOnce
      <4> HIDE DEF new
      <4>3. QED
        BY <4>1, <4>2
    <3>5. QED
      BY <1>0, <1>2, <3>3, <3>4
  <2>3. QED
    BY <2>1, <2>2
<1>4. \/ /\ new.spent_height = NULL
         /\ new.spent_txid = NoTx
         /\ \A h \in Birthday..m : \A t \in to[h].txs : ~SpendsAt(to, h, t, n)
      \/ \E h \in Birthday..m : \E t \in to[h].txs :
            SpendsAt(to, h, t, n) /\ new.spent_height = h /\ new.spent_txid = t
  <2>1. CASE row.block_height > m
    <3>1. new.spent_height = NULL /\ new.spent_txid = NoTx
      BY <2>1 DEF NoNote, ReceivedAt
    <3>2. PICK h \in Birthday..Len(c) : \E t \in c[h].txs :
            n \in Outputs[t] /\ row.block_height = h
      BY <1>0, <2>1 DEF NoteRowIs, NULL
    <3>3. ASSUME NEW g \in Birthday..m, NEW s \in to[g].txs,
                 SpendsAt(to, g, s, n)
          PROVE  FALSE
      <4>1. PICK f \in Birthday..(g - 1) : \E u \in to[f].txs : n \in Outputs[u]
        BY <3>3 DEF SpendsAt
      <4>2. f \in Birthday..m /\ f <= m
        BY <1>0, <4>1
      <4>3. QED
        BY <1>0, <1>1, <1>2, <2>1, <3>2, <4>1, <4>2, CreatedOnce
    <3> HIDE DEF new
    <3>4. QED
      BY <3>1, <3>3
  <2>2. CASE row.block_height <= m /\ row.spent_height > m
    <3>1. new.spent_height = NULL /\ new.spent_txid = NoTx
      BY <1>0, <2>2 DEF ReceivedAt
    <3>2. PICK h \in Birthday..Len(c) : \E t \in c[h].txs :
            SpendsAt(c, h, t, n) /\ row.spent_height = h
      BY <1>0, <2>2 DEF NoteRowIs, NULL
    <3>3. ASSUME NEW g \in Birthday..m, NEW s \in to[g].txs,
                 SpendsAt(to, g, s, n)
          PROVE  FALSE
      <4>1. PICK t \in c[h].txs : SpendsAt(c, h, t, n)
        BY <3>2
      <4>2. n \in Spends[t] /\ n \in Spends[s]
        BY <3>3, <4>1 DEF SpendsAt
      <4>3. g \in 1..Len(c) /\ s \in c[g].txs /\ h \in 1..Len(c)
        BY <1>1, <1>2
      <4>4. h = g
        BY <4>2, <4>3, SpentOnce
      <4>5. QED
        BY <1>0, <1>2, <2>2, <3>2, <4>4
    <3> HIDE DEF new
    <3>4. QED
      BY <3>1, <3>3
  <2>3. CASE row.block_height <= m /\ row.spent_height <= m
    <3>1. new = row
      BY <1>0, <2>3
    <3>2. CASE row.spent_height = NULL
      <4>1. /\ row.spent_txid = NoTx
            /\ \A h \in Birthday..Len(c) : \A t \in c[h].txs : ~SpendsAt(c, h, t, n)
        BY <1>2, <3>2 DEF NoteRowIs, NULL
      <4>2. \A h \in Birthday..m : h \in Birthday..Len(c)
        BY <1>0, <1>1
      <4> HIDE DEF new
      <4>3. QED
        BY <1>1, <3>1, <3>2, <4>1, <4>2
    <3>3. CASE row.spent_height # NULL
      <4>1. PICK h \in Birthday..Len(c) : \E t \in c[h].txs :
              SpendsAt(c, h, t, n) /\ row.spent_height = h /\ row.spent_txid = t
        BY <3>3 DEF NoteRowIs
      <4>2. h \in Birthday..m
        BY <1>0, <1>2, <2>3, <4>1
      <4> HIDE DEF new
      <4>3. QED
        BY <1>1, <3>1, <4>1, <4>2
    <3>4. QED
      BY <3>2, <3>3
  <2>4. QED
    BY <1>0, <2>1, <2>2, <2>3
<1>5. QED
  BY <1>3, <1>4 DEF NoteRowIs

LEMMA RewindTx ==
    ASSUME NEW c \in Seq(Block), MinedOnce(c), NEW to \in Seq(Block),
           SameUpTo(c, to, Len(to)),
           NEW t \in Tx, NEW row \in TxRow, TxRowIs(row, c, t)
    PROVE  TxRowIs(IF row.block_height > Len(to) THEN NoRow ELSE row, to, t)
<1> DEFINE m == Len(to)
           new == IF row.block_height > m THEN NoRow ELSE row
<1>0. /\ m \in Nat /\ Len(c) \in Nat /\ Birthday \in Nat \ {0}
      /\ row.block_height \in Nat \cup {-1} /\ NoRow.block_height = -1
  BY BirthdayAssumption DEF TxRow, Height, NULL, NoRow
<1>1. ASSUME NEW h \in Birthday..m
      PROVE  /\ h \in 1..Len(c) /\ h \in Birthday..Len(c)
             /\ MinedAt(to, h, t) <=> MinedAt(c, h, t)
             /\ \A n : SpendsAt(to, h, t, n) <=> SpendsAt(c, h, t, n)
             /\ ConcernsAt(to, h, t) <=> ConcernsAt(c, h, t)
  <2>1. h \in 1..Len(c) /\ h \in Birthday..Len(c)
    BY <1>0 DEF SameUpTo
  <2>2. QED
    BY <1>0, <2>1, SameSpendsBoth
<1>2. CASE row = NoRow /\ \A h \in Birthday..Len(c) : ~ConcernsAt(c, h, t)
  <2>1. new = NoRow
    BY <1>2
  <2> HIDE DEF new
  <2>2. QED
    BY <1>1, <1>2, <2>1 DEF TxRowIs
<1>3. ASSUME NEW h \in Birthday..Len(c),
             ConcernsAt(c, h, t),
             row.block_height = h,
             row.credit = Outputs[t] \cap Owned,
             row.debit = {n \in Note : SpendsAt(c, h, t, n)},
             row.is_outgoing = (Outputs[t] \ Owned # {} \/ row.debit # {})
      PROVE  TxRowIs(new, to, t)
  <2>1. CASE h <= m
    <3>1. new = row /\ h \in Birthday..m
      BY <1>0, <1>3, <2>1
    <3>2. row.debit = {n \in Note : SpendsAt(to, h, t, n)} /\ ConcernsAt(to, h, t)
      BY <1>1, <1>3, <3>1
    <3> HIDE DEF new
    <3>3. QED
      BY <1>3, <3>1, <3>2 DEF TxRowIs
  <2>2. CASE h > m
    <3>1. new = NoRow
      BY <1>3, <2>2
    <3>2. ASSUME NEW g \in Birthday..m, ConcernsAt(to, g, t)
          PROVE  FALSE
      <4>1. /\ g \in 1..Len(c) /\ t \in c[g].txs /\ g <= m
            /\ h \in 1..Len(c) /\ t \in c[h].txs
        BY <1>0, <1>1, <1>3, <3>2 DEF ConcernsAt, MinedAt
      <4>2. g = h
        BY <4>1 DEF MinedOnce
      <4>3. QED
        BY <1>0, <2>2, <4>1, <4>2
    <3> HIDE DEF new
    <3>3. QED
      BY <3>1, <3>2 DEF TxRowIs
  <2>3. QED
    BY <1>0, <2>1, <2>2
<1>4. QED
  BY <1>2, <1>3 DEF TxRowIs

\* Account::rewind to a block of the account's own history, or below the
\* birthday, leaves the ledger of the history that ends there.
LEMMA RewindLedger ==
    ASSUME NEW d \in Db, IsLedger(d), MinedOnce(History(d.checkpoint)),
           NEW to \in Seq(Block),
           SameUpTo(History(d.checkpoint), to, Len(to))
    PROVE  IsLedger(Rewind(d, to))
<1> DEFINE c == History(d.checkpoint)
           r == Rewind(d, to)
<1>1. c \in Seq(Block) /\ d.notes \in [Note -> NoteRow] /\ d.txs \in [Tx -> TxRow]
  BY DEF Db, Cursor, History
<1>2. History(r.checkpoint) = to
  BY NullAssumption DEF Rewind, History
<1>3. ASSUME NEW n \in Note
      PROVE  NoteRowIs(r.notes[n], to, n)
  BY <1>1, RewindNote DEF Rewind, IsLedger
<1>4. ASSUME NEW t \in Tx
      PROVE  TxRowIs(r.txs[t], to, t)
  BY <1>1, RewindTx DEF Rewind, IsLedger
<1>5. QED
  BY <1>2, <1>3, <1>4 DEF IsLedger
-----------------------------------------------------------------------------
(* Applying a block. *)

\* The block of hash e comes after the checkpoint of d on a valid chain, and
\* scan_compact found nothing in the blocks between them.
NextFound(d, e) ==
    /\ d \in Db /\ IsLedger(d)
    /\ e \in BlockHash /\ Valid(e)
    /\ Len(History(d.checkpoint)) < Len(e) /\ Birthday <= Len(e)
    /\ SameUpTo(e, History(d.checkpoint), Len(History(d.checkpoint)))
    /\ \A h \in Birthday..(Len(e) - 1) :
          h > Len(History(d.checkpoint)) =>
              \A t \in e[h].txs : ~Detected(Nullifiers(d), t)

LEMMA NextFoundType ==
    ASSUME NEW d, NEW e, NextFound(d, e)
    PROVE  /\ Len(e) \in Nat /\ Len(History(d.checkpoint)) \in Nat
           /\ Len(History(d.checkpoint)) < Len(e) /\ Birthday <= Len(e)
           /\ Birthday \in Nat \ {0}
           /\ Nullifiers(d) \subseteq Owned /\ Owned \subseteq Note
           /\ d.notes \in [Note -> NoteRow] /\ d.txs \in [Tx -> TxRow]
           /\ \A h \in Birthday..Len(e) : h \in 1..Len(e) /\ e[h].txs \subseteq Tx
           /\ \A h \in Birthday..Len(History(d.checkpoint)) :
                 h \in Birthday..Len(e) /\ e[h] = History(d.checkpoint)[h]
<1> DEFINE c == History(d.checkpoint)
<1>1. e \in Seq(Block) /\ c \in Seq(Block)
  BY DEF NextFound, BlockHash, History, Db, Cursor
<1>2. Len(e) \in Nat /\ Len(c) \in Nat /\ Birthday \in Nat \ {0}
  BY <1>1, BirthdayAssumption
<1>3. Len(c) < Len(e) /\ Birthday <= Len(e)
  BY DEF NextFound
<1>4. Nullifiers(d) \subseteq Owned /\ Owned \subseteq Note
  BY NoteAssumption DEF Nullifiers
<1>5. d.notes \in [Note -> NoteRow] /\ d.txs \in [Tx -> TxRow]
  BY DEF NextFound, Db
<1>6. \A h \in Birthday..Len(e) : h \in 1..Len(e) /\ e[h].txs \subseteq Tx
  BY <1>1, <1>2, BlockTxs
<1>7. \A h \in Birthday..Len(c) : h \in Birthday..Len(e) /\ e[h] = c[h]
  BY <1>2, <1>3 DEF NextFound, SameUpTo
<1>8. QED
  BY <1>2, <1>3, <1>4, <1>5, <1>6, <1>7

\* The account has a row for an owned note exactly when its history created it.
LEMMA OwnedReceived ==
    ASSUME NEW c, NEW n \in Owned, NEW row, NoteRowIs(row, c, n),
           Len(c) \in Nat
    PROVE  row.block_height # NULL <=>
              \E g \in Birthday..Len(c) : \E s \in c[g].txs : n \in Outputs[s]
<1>1. ASSUME row.block_height # NULL
      PROVE  \E g \in Birthday..Len(c) : \E s \in c[g].txs : n \in Outputs[s]
  BY <1>1 DEF NoteRowIs
<1>2. ASSUME NEW g \in Birthday..Len(c), NEW s \in c[g].txs, n \in Outputs[s]
      PROVE  row.block_height # NULL
  <2>1. ConcernsAt(c, g, s)
    BY <1>2, OwnedConcerns DEF MinedAt
  <2>2. \A h \in Birthday..Len(c) : h # NULL
    BY BirthdayAssumption DEF NULL
  <2>3. QED
    BY <1>2, <2>1, <2>2 DEF NoteRowIs
<1>3. QED
  BY <1>1, <1>2

\* Above the checkpoint the spends of the account are the watched ones.
LEMMA NewSpends ==
    ASSUME NEW d, NEW e, NextFound(d, e),
           NEW h \in Birthday..Len(e), h > Len(History(d.checkpoint)),
           NEW t, NEW n
    PROVE  SpendsAt(e, h, t, n) <=>
              t \in e[h].txs /\ n \in Spends[t] /\ n \in Nullifiers(d)
<1> DEFINE c == History(d.checkpoint)
<1>0. /\ Len(e) \in Nat /\ Len(c) \in Nat /\ Len(c) < Len(e)
      /\ Birthday \in Nat \ {0} /\ h \in Nat /\ h <= Len(e) /\ h \in 1..Len(e)
      /\ d.notes \in [Note -> NoteRow]
      /\ \A g \in Birthday..Len(e) : g \in 1..Len(e) /\ e[g].txs \subseteq Tx
      /\ \A g \in Birthday..Len(c) : g \in Birthday..Len(e) /\ e[g] = c[g]
  BY NextFoundType
<1>1. \A m \in Note : NoteRowIs(d.notes[m], c, m)
  BY DEF NextFound, IsLedger
<1>2. ASSUME SpendsAt(e, h, t, n)
      PROVE  t \in e[h].txs /\ n \in Spends[t] /\ n \in Nullifiers(d)
  <2>1. t \in e[h].txs /\ n \in Spends[t] /\ n \in Watchable
    BY <1>2 DEF SpendsAt, MinedAt
  <2>2. n \in Owned /\ n \in Note
    BY <2>1, NoteAssumption
  <2>3. PICK g \in Birthday..(h - 1) : \E s \in e[g].txs : n \in Outputs[s]
    BY <1>2 DEF SpendsAt
  <2>4. PICK s \in e[g].txs : n \in Outputs[s]
    BY <2>3
  <2>5. g \in Birthday..Len(c)
    <3>1. SUFFICES ASSUME g > Len(c) PROVE FALSE
      BY <1>0
    <3>2. ~Detected(Nullifiers(d), s)
      BY <1>0, <3>1 DEF NextFound
    <3>3. QED
      BY <2>2, <2>4, <3>2 DEF Detected
  <2>6. d.notes[n].block_height # NULL
    BY <1>0, <1>1, <2>2, <2>4, <2>5, OwnedReceived
  <2>7. d.notes[n].spent_height = NULL
    <3>1. SUFFICES ASSUME d.notes[n].spent_height # NULL PROVE FALSE
      OBVIOUS
    <3>2. PICK f \in Birthday..Len(c) : \E u \in c[f].txs : SpendsAt(c, f, u, n)
      BY <1>1, <2>2, <3>1 DEF NoteRowIs
    <3>3. PICK u \in c[f].txs : n \in Spends[u]
      BY <3>2 DEF SpendsAt
    <3>4. f \in 1..Len(e) /\ u \in e[f].txs /\ f <= Len(c)
      BY <1>0, <3>3
    <3>5. MinedOnce(e)
      BY DEF NextFound, Valid
    <3>6. f = h
      BY <1>0, <2>1, <3>3, <3>4, <3>5, SpentOnce
    <3>7. QED
      BY <1>0, <3>4, <3>6
  <2>8. QED
    BY <2>1, <2>2, <2>6, <2>7 DEF Nullifiers, Unspent, Received
<1>3. ASSUME t \in e[h].txs, n \in Spends[t], n \in Nullifiers(d)
      PROVE  SpendsAt(e, h, t, n)
  <2>1. n \in Owned /\ n \in Watchable /\ n \in Note /\ d.notes[n].block_height # NULL
    BY <1>3, NoteAssumption DEF Nullifiers, Unspent, Received
  <2>2. PICK g \in Birthday..Len(c) : \E s \in c[g].txs : n \in Outputs[s]
    BY <1>0, <1>1, <2>1, OwnedReceived
  <2>3. g \in Birthday..(h - 1) /\ e[g] = c[g]
    BY <1>0
  <2>4. QED
    BY <1>3, <2>1, <2>2, <2>3 DEF SpendsAt, MinedAt
<1>4. QED
  BY <1>2, <1>3

\* The spends of the account on the longer history are those up to the
\* checkpoint and the watched ones of the last block.
LEMMA SpendsUpTo ==
    ASSUME NEW d, NEW e, NextFound(d, e), NEW h \in Birthday..Len(e),
           NEW t, NEW n
    PROVE  SpendsAt(e, h, t, n) <=>
              \/ h <= Len(History(d.checkpoint))
                    /\ SpendsAt(History(d.checkpoint), h, t, n)
              \/ /\ h = Len(e) /\ t \in e[h].txs
                 /\ n \in Spends[t] /\ n \in Nullifiers(d)
<1> DEFINE c == History(d.checkpoint)
<1>0. /\ Len(e) \in Nat /\ Len(c) \in Nat /\ Len(c) < Len(e)
      /\ Birthday \in Nat \ {0} /\ h \in Nat
  BY NextFoundType
<1>1. CASE h <= Len(c)
  <2>1. SameUpTo(e, c, Len(c)) /\ h \in Birthday..Len(c)
    BY <1>0, <1>1 DEF NextFound
  <2>2. SpendsAt(e, h, t, n) <=> SpendsAt(c, h, t, n)
    BY <1>0, <2>1, SameSpendsBoth
  <2>3. h # Len(e)
    BY <1>0, <1>1
  <2>4. QED
    BY <1>1, <2>2, <2>3
<1>2. CASE h > Len(c)
  <2>1. SpendsAt(e, h, t, n) <=>
          t \in e[h].txs /\ n \in Spends[t] /\ n \in Nullifiers(d)
    BY <1>2, NewSpends
  <2>2. h # Len(e) =>
          ~(t \in e[h].txs /\ n \in Spends[t] /\ n \in Nullifiers(d))
    BY <1>0, <1>2 DEF NextFound, Detected
  <2>3. QED
    BY <1>0, <1>2, <2>1, <2>2
<1>3. QED
  BY <1>0, <1>1, <1>2

\* The transactions of the longer history that concern the account are those
\* up to the checkpoint and the detected ones of the last block.
LEMMA ConcernsUpTo ==
    ASSUME NEW d, NEW e, NextFound(d, e), NEW h \in Birthday..Len(e), NEW t
    PROVE  ConcernsAt(e, h, t) <=>
              \/ h <= Len(History(d.checkpoint))
                    /\ ConcernsAt(History(d.checkpoint), h, t)
              \/ h = Len(e) /\ t \in e[h].txs /\ Detected(Nullifiers(d), t)
<1> DEFINE c == History(d.checkpoint)
<1>0. /\ Len(e) \in Nat /\ Len(c) \in Nat /\ Len(c) < Len(e)
      /\ Birthday \in Nat \ {0} /\ h \in Nat
      /\ Nullifiers(d) \subseteq Owned /\ Owned \subseteq Note
  BY NextFoundType
<1>1. CASE h <= Len(c)
  <2>1. SameUpTo(e, c, Len(c)) /\ h \in Birthday..Len(c)
    BY <1>0, <1>1 DEF NextFound
  <2>2. ConcernsAt(e, h, t) <=> ConcernsAt(c, h, t)
    BY <1>0, <2>1, SameSpendsBoth
  <2>3. h # Len(e)
    BY <1>0, <1>1
  <2>4. QED
    BY <1>1, <2>2, <2>3
<1>2. CASE h > Len(c)
  <2>1. \A n : SpendsAt(e, h, t, n) <=>
          t \in e[h].txs /\ n \in Spends[t] /\ n \in Nullifiers(d)
    BY <1>2, NewSpends
  <2>2. MinedAt(e, h, t) <=> t \in e[h].txs
    BY DEF MinedAt
  <2>3. ConcernsAt(e, h, t) <=> t \in e[h].txs /\ Detected(Nullifiers(d), t)
    BY <1>0, <2>1, <2>2 DEF ConcernsAt, Detected
  <2>4. h # Len(e) => ~(t \in e[h].txs /\ Detected(Nullifiers(d), t))
    BY <1>0, <1>2 DEF NextFound
  <2>5. QED
    BY <1>0, <1>2, <2>3, <2>4
<1>3. QED
  BY <1>0, <1>1, <1>2

LEMMA DetectHas ==
    ASSUME NEW watched, NEW b
    PROVE  /\ \A w \in Detect(watched, b) :
                /\ w.height = Len(b) /\ w.txid \in Tip(b).txs
                /\ Detected(watched, w.txid)
                /\ w.spends = Spends[w.txid] \cap (watched \cup Ironwood)
           /\ \A t \in Tip(b).txs : Detected(watched, t) =>
                \E w \in Detect(watched, b) :
                    /\ w.txid = t
                    /\ w.spends = Spends[t] \cap (watched \cup Ironwood)
<1>1. ASSUME NEW t \in Tip(b).txs, Detected(watched, t)
      PROVE  \E w \in Detect(watched, b) :
                /\ w.txid = t
                /\ w.spends = Spends[t] \cap (watched \cup Ironwood)
  <2> DEFINE w == [txid |-> t, height |-> Len(b),
                   spends |-> Spends[t] \cap (watched \cup Ironwood)]
  <2>1. w \in Detect(watched, b)
    BY <1>1 DEF Detect
  <2>2. w.txid = t /\ w.spends = Spends[t] \cap (watched \cup Ironwood)
    OBVIOUS
  <2> HIDE DEF w
  <2>3. QED
    BY <2>1, <2>2
<1>2. QED
  BY <1>1 DEF Detect

\* INSERT OR IGNORE of the notes of the transactions detected in block e.
LEMMA InsertedNote ==
    ASSUME NEW watched, NEW e, NEW notes, NEW n \in Note
    PROVE  InsertNotes(notes, Detect(watched, e))[n] =
             IF /\ notes[n].block_height = NULL
                /\ \E t \in Tip(e).txs : Detected(watched, t) /\ n \in Outputs[t]
             THEN ReceivedAt(Len(e)) ELSE notes[n]
<1> DEFINE caught == Detect(watched, e)
           made == \E w \in caught : n \in Outputs[w.txid]
<1>1. \A w \in caught : w.height = Len(e)
  BY DetectHas
<1>2. made <=> \E t \in Tip(e).txs : Detected(watched, t) /\ n \in Outputs[t]
  BY DetectHas
<1>3. made => (CHOOSE w \in caught : n \in Outputs[w.txid]).height = Len(e)
  <2> HIDE DEF caught
  <2>1. QED
    BY <1>1
<1>4. InsertNotes(notes, caught)[n] =
        IF notes[n].block_height = NULL /\ made
        THEN ReceivedAt((CHOOSE w \in caught : n \in Outputs[w.txid]).height)
        ELSE notes[n]
  BY DEF InsertNotes
<1> HIDE DEF made, caught
<1>5. QED
  BY <1>2, <1>3, <1>4 DEF caught

\* The mark goes to the watched notes that the detected transactions spend,
\* never to a note of the same block, although the nullifiers of all Ironwood
\* actions are matched.
LEMMA MarkedNote ==
    ASSUME NEW d, NEW e, NextFound(d, e), NEW n \in Note
    PROVE  LET inserted == InsertNotes(d.notes, Detect(Nullifiers(d), e))
               marked == MarkSpent(inserted, Detect(Nullifiers(d), e))
           IN  \/ /\ \A t \in e[Len(e)].txs :
                        ~(n \in Spends[t] /\ n \in Nullifiers(d))
                  /\ marked[n] = inserted[n]
               \/ \E t \in e[Len(e)].txs :
                     /\ n \in Spends[t] /\ n \in Nullifiers(d)
                     /\ marked[n] = SpentBy(d.notes[n], [txid |-> t, height |-> Len(e)])
<1> DEFINE W == Nullifiers(d)
           caught == Detect(W, e)
           inserted == InsertNotes(d.notes, caught)
           marked == MarkSpent(inserted, caught)
           hit == \E w \in caught : n \in w.spends
           chosen == CHOOSE w \in caught : n \in w.spends
<1>0. /\ Len(e) \in Nat /\ Len(e) \in 1..Len(e) /\ Len(e) \in Birthday..Len(e)
      /\ e[Len(e)].txs \subseteq Tx
      /\ Valid(e) /\ W \subseteq Owned
  BY NextFoundType DEF NextFound
<1>1. \A w \in caught :
        /\ w.height = Len(e) /\ w.txid \in e[Len(e)].txs
        /\ Detected(W, w.txid)
        /\ w.spends = Spends[w.txid] \cap (W \cup Ironwood)
  BY DetectHas DEF Tip
<1>2. \A t \in e[Len(e)].txs : Detected(W, t) =>
        \E w \in caught : w.txid = t /\ w.spends = Spends[t] \cap (W \cup Ironwood)
  BY DetectHas DEF Tip
<1>3. marked[n] = IF n \in Unspent(inserted) \cap Watchable /\ hit
                  THEN SpentBy(inserted[n], chosen) ELSE inserted[n]
  BY DEF MarkSpent
<1>4. inserted[n] = IF /\ d.notes[n].block_height = NULL
                       /\ \E t \in e[Len(e)].txs : Detected(W, t) /\ n \in Outputs[t]
                    THEN ReceivedAt(Len(e)) ELSE d.notes[n]
  BY InsertedNote DEF Tip
<1>5. n \in W <=> /\ d.notes[n].block_height # NULL
                  /\ d.notes[n].spent_height = NULL /\ n \in Watchable
  BY DEF Nullifiers, Unspent, Received
<1>6. n \in Unspent(inserted) \cap Watchable <=>
        /\ inserted[n].block_height # NULL
        /\ inserted[n].spent_height = NULL /\ n \in Watchable
  BY DEF Unspent, Received
<1>7. hit => chosen \in caught /\ n \in chosen.spends
  <2> HIDE DEF caught
  <2>1. QED
    OBVIOUS
<1> HIDE DEF hit, chosen, caught, inserted, marked, W
<1>8. CASE n \in W /\ hit
  <2>1. inserted[n] = d.notes[n] /\ n \in Unspent(inserted) \cap Watchable
    BY <1>4, <1>5, <1>6, <1>8
  <2>2. marked[n] = SpentBy(d.notes[n], chosen)
    BY <1>3, <1>8, <2>1
  <2>3. SpentBy(d.notes[n], chosen) =
          SpentBy(d.notes[n], [txid |-> chosen.txid, height |-> Len(e)])
    BY <1>1, <1>7, <1>8 DEF SpentBy
  <2>4. chosen.txid \in e[Len(e)].txs /\ n \in Spends[chosen.txid]
    BY <1>1, <1>7, <1>8
  <2>5. QED
    BY <1>8, <2>2, <2>3, <2>4 DEF W, caught, inserted, marked
<1>9. CASE n \in W /\ ~hit
  <2>1. ASSUME NEW t \in e[Len(e)].txs, n \in Spends[t]
        PROVE  FALSE
    <3>1. Detected(W, t)
      BY <1>9, <2>1 DEF Detected
    <3>2. PICK w \in caught : w.spends = Spends[t] \cap (W \cup Ironwood)
      BY <1>2, <3>1
    <3>3. QED
      BY <1>9, <2>1, <3>2 DEF hit
  <2>2. marked[n] = inserted[n]
    BY <1>3, <1>9
  <2>3. QED
    BY <2>1, <2>2 DEF W, caught, inserted, marked
<1>10. CASE n \notin W
  <2>1. SUFFICES ASSUME n \in Unspent(inserted) \cap Watchable, hit
                 PROVE  FALSE
    BY <1>3, <1>10 DEF W, caught, inserted, marked
  <2>2. inserted[n] # d.notes[n]
    BY <1>5, <1>6, <1>10, <2>1
  <2>3. PICK t \in e[Len(e)].txs : n \in Outputs[t]
    BY <1>4, <2>2
  <2>4. PICK s \in e[Len(e)].txs : n \in Spends[s]
    BY <1>1, <1>7, <2>1
  <2>5. PICK g \in 1..(Len(e) - 1) : \E u \in e[g].txs : n \in Outputs[u]
    BY <1>0, <2>4 DEF Valid, SpentLater
  <2>6. PICK u \in e[g].txs : n \in Outputs[u]
    BY <2>5
  <2>7. g \in 1..Len(e) /\ g # Len(e) /\ u \in Tx /\ t \in Tx
    <3>1. g \in 1..Len(e) /\ g # Len(e)
      BY <1>0
    <3>2. e \in Seq(Block)
      BY DEF NextFound, BlockHash
    <3>3. QED
      BY <1>0, <3>1, <3>2, BlockTxs
  <2>8. QED
    BY <1>0, <2>3, <2>6, <2>7, CreatedOnce DEF Valid
<1>11. QED
  BY <1>8, <1>9, <1>10

\* The row of a note after apply_transactions.
LEMMA AppliedNote ==
    ASSUME NEW d, NEW e, NextFound(d, e), NEW n \in Note
    PROVE  NoteRowIs(MarkSpent(InsertNotes(d.notes, Detect(Nullifiers(d), e)),
                               Detect(Nullifiers(d), e))[n], e, n)
<1> DEFINE c == History(d.checkpoint)
           W == Nullifiers(d)
           inserted == InsertNotes(d.notes, Detect(W, e))[n]
           marked == MarkSpent(InsertNotes(d.notes, Detect(W, e)), Detect(W, e))[n]
<1>0. /\ Len(e) \in Nat /\ Len(c) \in Nat /\ Len(c) < Len(e) /\ Birthday <= Len(e)
      /\ Birthday \in Nat \ {0} /\ Len(e) \in Birthday..Len(e)
      /\ W \subseteq Owned /\ Watchable \subseteq Owned
      /\ \A g \in Birthday..Len(c) : /\ g \in Birthday..Len(e) /\ g <= Len(c)
                                     /\ e[g] = c[g]
      /\ \A g \in Birthday..Len(e) : g <= Len(c) => g \in Birthday..Len(c)
  BY NextFoundType, NoteAssumption
<1>1. NoteRowIs(d.notes[n], c, n)
  BY DEF NextFound, IsLedger
<1>2. inserted = IF /\ d.notes[n].block_height = NULL
                    /\ \E t \in e[Len(e)].txs : Detected(W, t) /\ n \in Outputs[t]
                 THEN ReceivedAt(Len(e)) ELSE d.notes[n]
  BY InsertedNote DEF Tip
<1>3. \/ /\ \A t \in e[Len(e)].txs : ~(n \in Spends[t] /\ n \in W)
         /\ marked = inserted
      \/ \E t \in e[Len(e)].txs :
            /\ n \in Spends[t] /\ n \in W
            /\ marked = SpentBy(d.notes[n], [txid |-> t, height |-> Len(e)])
  BY MarkedNote
<1>4. n \in W => d.notes[n].block_height # NULL /\ d.notes[n].spent_height = NULL
  BY DEF Nullifiers, Unspent, Received
<1>5. \A h \in Birthday..Len(e) : \A t :
        /\ ConcernsAt(e, h, t) <=>
              \/ h <= Len(c) /\ ConcernsAt(c, h, t)
              \/ h = Len(e) /\ t \in e[h].txs /\ Detected(W, t)
        /\ SpendsAt(e, h, t, n) <=>
              \/ h <= Len(c) /\ SpendsAt(c, h, t, n)
              \/ h = Len(e) /\ t \in e[h].txs /\ n \in Spends[t] /\ n \in W
  BY ConcernsUpTo, SpendsUpTo
<1>6. d.notes[n].block_height = NULL =>
        \A h \in Birthday..Len(c) : \A t \in c[h].txs : ~SpendsAt(c, h, t, n)
  <2>1. SUFFICES ASSUME d.notes[n].block_height = NULL,
                        NEW h \in Birthday..Len(c), NEW t \in c[h].txs,
                        SpendsAt(c, h, t, n)
                 PROVE  FALSE
    OBVIOUS
  <2>2. n \in Owned /\ \E g \in Birthday..(h - 1) : \E s \in c[g].txs : n \in Outputs[s]
    BY <1>0, <2>1 DEF SpendsAt
  <2>3. \A g \in Birthday..(h - 1) : g \in Birthday..Len(c)
    BY <1>0
  <2>4. QED
    BY <1>0, <1>1, <2>1, <2>2, <2>3, OwnedReceived
<1>8. ReceivedAt(Len(e)).block_height = Len(e) /\ ReceivedAt(Len(e)).spent_height = NULL
      /\ ReceivedAt(Len(e)).spent_txid = NoTx
  BY DEF ReceivedAt
<1> HIDE DEF c, W, inserted, marked
<1>7. marked.block_height = inserted.block_height
  <2>1. ASSUME n \in W
        PROVE  inserted = d.notes[n]
    BY <1>2, <1>4, <2>1
  <2>2. \A t : SpentBy(d.notes[n], [txid |-> t, height |-> Len(e)]).block_height
                = d.notes[n].block_height
    BY DEF SpentBy
  <2>3. QED
    BY <1>3, <2>1, <2>2
<1>9. \/ /\ marked.block_height = NULL
         /\ \A h \in Birthday..Len(e) : \A t \in e[h].txs :
               n \in Outputs[t] => ~ConcernsAt(e, h, t)
      \/ \E h \in Birthday..Len(e) : \E t \in e[h].txs :
            n \in Outputs[t] /\ ConcernsAt(e, h, t) /\ marked.block_height = h
  <2>1. CASE d.notes[n].block_height # NULL
    <3>1. PICK h \in Birthday..Len(c) : \E t \in c[h].txs :
            n \in Outputs[t] /\ ConcernsAt(c, h, t) /\ d.notes[n].block_height = h
      BY <1>1, <2>1 DEF NoteRowIs
    <3>2. marked.block_height = h
      BY <1>2, <1>7, <2>1, <3>1
    <3>3. QED
      BY <1>0, <1>5, <3>1, <3>2
  <2>2. CASE /\ d.notes[n].block_height = NULL
             /\ \E t \in e[Len(e)].txs : Detected(W, t) /\ n \in Outputs[t]
    <3>1. marked.block_height = Len(e)
      BY <1>2, <1>7, <1>8, <2>2
    <3>2. QED
      BY <1>0, <1>5, <2>2, <3>1
  <2>3. CASE /\ d.notes[n].block_height = NULL
             /\ ~\E t \in e[Len(e)].txs : Detected(W, t) /\ n \in Outputs[t]
    <3>1. marked.block_height = NULL
      BY <1>2, <1>7, <2>3
    <3>2. \A h \in Birthday..Len(c) : \A t \in c[h].txs :
            n \in Outputs[t] => ~ConcernsAt(c, h, t)
      <4>1. \A h \in Birthday..Len(c) : h # NULL
        BY <1>0 DEF NULL
      <4>2. QED
        BY <1>1, <2>3, <4>1 DEF NoteRowIs
    <3>3. QED
      BY <1>0, <1>5, <2>3, <3>1, <3>2
  <2>4. QED
    BY <2>1, <2>2, <2>3
<1>10. \/ /\ marked.spent_height = NULL
          /\ marked.spent_txid = NoTx
          /\ \A h \in Birthday..Len(e) : \A t \in e[h].txs : ~SpendsAt(e, h, t, n)
       \/ \E h \in Birthday..Len(e) : \E t \in e[h].txs :
            SpendsAt(e, h, t, n) /\ marked.spent_height = h /\ marked.spent_txid = t
  <2>1. ASSUME NEW t \in e[Len(e)].txs, n \in Spends[t], n \in W,
               marked = SpentBy(d.notes[n], [txid |-> t, height |-> Len(e)])
        PROVE  \E h \in Birthday..Len(e) : \E u \in e[h].txs :
                 SpendsAt(e, h, u, n) /\ marked.spent_height = h /\ marked.spent_txid = u
    <3>1. marked.spent_height = Len(e) /\ marked.spent_txid = t
      BY <2>1 DEF SpentBy
    <3>2. SpendsAt(e, Len(e), t, n)
      BY <1>0, <1>5, <2>1
    <3>3. QED
      BY <1>0, <3>1, <3>2
  <2>2. CASE /\ \A t \in e[Len(e)].txs : ~(n \in Spends[t] /\ n \in W)
             /\ marked = inserted /\ inserted = d.notes[n]
    <3>1. CASE /\ d.notes[n].spent_height = NULL /\ d.notes[n].spent_txid = NoTx
               /\ \A h \in Birthday..Len(c) : \A t \in c[h].txs : ~SpendsAt(c, h, t, n)
      BY <1>0, <1>5, <2>2, <3>1
    <3>2. CASE \E h \in Birthday..Len(c) : \E t \in c[h].txs :
                 /\ SpendsAt(c, h, t, n) /\ d.notes[n].spent_height = h
                 /\ d.notes[n].spent_txid = t
      BY <1>0, <1>5, <2>2, <3>2
    <3>3. QED
      BY <1>1, <3>1, <3>2 DEF NoteRowIs
  <2>3. CASE /\ \A t \in e[Len(e)].txs : ~(n \in Spends[t] /\ n \in W)
             /\ marked = inserted /\ inserted # d.notes[n]
    BY <1>0, <1>2, <1>5, <1>6, <1>8, <2>3
  <2>4. QED
    BY <1>3, <2>1, <2>2, <2>3
<1>11. QED
  BY <1>9, <1>10 DEF NoteRowIs, marked, W

\* transaction_accounting on the ledger of a history: the credit is what the
\* transaction pays the account, the debit what it spends of it.
LEMMA AccountingLedger ==
    ASSUME NEW e \in Seq(Block), Valid(e), NEW notes,
           \A n \in Note : NoteRowIs(notes[n], e, n),
           NEW h \in Birthday..Len(e), NEW t \in Tx, ConcernsAt(e, h, t)
    PROVE  /\ Outputs[t] \subseteq Received(notes)
           /\ {n \in Received(notes) \cap Owned : notes[n].spent_txid = t}
                = {n \in Note : SpendsAt(e, h, t, n)}
<1>0. /\ Len(e) \in Nat /\ Birthday \in Nat \ {0}
      /\ \A g \in Birthday..Len(e) : g \in 1..Len(e) /\ g # NULL
      /\ Owned \subseteq Note /\ Watchable \subseteq Owned /\ t # NoTx
      /\ Outputs[t] \subseteq Note
  BY BirthdayAssumption, NoteAssumption, NullAssumption, TxAssumption DEF NULL
<1>1. t \in e[h].txs /\ MinedOnce(e)
  BY DEF ConcernsAt, MinedAt, Valid
<1>2. Outputs[t] \subseteq Received(notes)
  <2>1. SUFFICES ASSUME NEW n \in Outputs[t], notes[n].block_height = NULL
                 PROVE  FALSE
    BY <1>0 DEF Received
  <2>2. QED
    BY <1>0, <1>1, <2>1 DEF NoteRowIs
<1>3. ASSUME NEW n \in Received(notes) \cap Owned, notes[n].spent_txid = t
      PROVE  SpendsAt(e, h, t, n)
  <2>1. n \in Note
    BY <1>0
  <2>2. PICK g \in Birthday..Len(e) : SpendsAt(e, g, t, n) /\ t \in e[g].txs
    BY <1>0, <1>3, <2>1 DEF NoteRowIs
  <2>3. g = h
    BY <1>0, <1>1, <2>2 DEF MinedOnce
  <2>4. QED
    BY <2>2, <2>3
<1>4. ASSUME NEW n \in Note, SpendsAt(e, h, t, n)
      PROVE  n \in Received(notes) \cap Owned /\ notes[n].spent_txid = t
  <2>1. n \in Owned /\ n \in Spends[t]
    BY <1>0, <1>4 DEF SpendsAt
  <2>2. PICK g \in Birthday..Len(e) : \E s \in e[g].txs :
          SpendsAt(e, g, s, n) /\ notes[n].spent_txid = s
    BY <1>1, <1>4 DEF NoteRowIs
  <2>3. PICK s \in e[g].txs : SpendsAt(e, g, s, n) /\ notes[n].spent_txid = s
    BY <2>2
  <2>4. s = t
    <3>1. n \in Spends[s]
      BY <2>3 DEF SpendsAt
    <3>2. QED
      BY <1>0, <1>1, <2>1, <2>3, <3>1, SpentOnce
  <2>5. \E f \in Birthday..(h - 1) : \E u \in e[f].txs : n \in Outputs[u]
    BY <1>4 DEF SpendsAt
  <2>6. \A f \in Birthday..(h - 1) : f \in Birthday..Len(e)
    BY <1>0
  <2>7. notes[n].block_height # NULL
    BY <1>0, <2>1, <2>5, <2>6, OwnedReceived
  <2>8. QED
    BY <2>1, <2>3, <2>4, <2>7 DEF Received
<1>5. QED
  BY <1>0, <1>2, <1>3, <1>4 DEF Received

\* The row of a transaction after apply_transactions.
LEMMA AppliedTx ==
    ASSUME NEW d, NEW e, NextFound(d, e), NEW t \in Tx
    PROVE  TxRowIs(ApplyTransactions(d, e, Detect(Nullifiers(d), e)).txs[t], e, t)
<1> DEFINE c == History(d.checkpoint)
           W == Nullifiers(d)
           caught == Detect(W, e)
           notes == MarkSpent(InsertNotes(d.notes, caught), caught)
           new == ApplyTransactions(d, e, caught).txs[t]
           chosen == CHOOSE w \in caught : w.txid = t
<1>0. /\ Len(e) \in Nat /\ Len(c) \in Nat /\ Len(c) < Len(e)
      /\ Birthday \in Nat \ {0} /\ Len(e) \in Birthday..Len(e)
      /\ \A g \in Birthday..Len(c) : g \in Birthday..Len(e) /\ g <= Len(c) /\ g # Len(e)
      /\ \A g \in Birthday..Len(e) : g <= Len(c) => g \in Birthday..Len(c)
  BY NextFoundType
<1>1. TxRowIs(d.txs[t], c, t) /\ e \in Seq(Block) /\ Valid(e)
  BY DEF NextFound, IsLedger, BlockHash
<1>2. \A n \in Note : NoteRowIs(notes[n], e, n)
  BY AppliedNote
<1>3. new = IF \E w \in caught : w.txid = t
            THEN TxRowOf(notes, chosen) ELSE d.txs[t]
  BY DEF ApplyTransactions
<1>4. /\ \A w \in caught : w.height = Len(e) /\ w.txid \in e[Len(e)].txs
                          /\ Detected(W, w.txid)
      /\ \A u \in e[Len(e)].txs : Detected(W, u) => \E w \in caught : w.txid = u
  BY DetectHas DEF Tip
<1>5. \A h \in Birthday..Len(e) :
        /\ ConcernsAt(e, h, t) <=>
              \/ h <= Len(c) /\ ConcernsAt(c, h, t)
              \/ h = Len(e) /\ t \in e[h].txs /\ Detected(W, t)
        /\ h <= Len(c) => \A n : SpendsAt(e, h, t, n) <=> SpendsAt(c, h, t, n)
  <2>1. ASSUME NEW h \in Birthday..Len(e), h <= Len(c)
        PROVE  \A n : SpendsAt(e, h, t, n) <=> SpendsAt(c, h, t, n)
    BY <1>0, <2>1, SpendsUpTo
  <2>2. QED
    BY <2>1, ConcernsUpTo
<1> HIDE DEF c, W, caught, notes, new
<1>6. CASE \E w \in caught : w.txid = t
  <2>1. chosen \in caught /\ chosen.txid = t
    BY <1>6
  <2>2. chosen.height = Len(e) /\ t \in e[Len(e)].txs /\ Detected(W, t)
    BY <1>4, <2>1
  <2>3. ConcernsAt(e, Len(e), t)
    BY <1>0, <1>5, <2>2
  <2>4. /\ Outputs[t] \subseteq Received(notes)
        /\ {n \in Received(notes) \cap Owned : notes[n].spent_txid = t}
             = {n \in Note : SpendsAt(e, Len(e), t, n)}
    BY <1>0, <1>1, <1>2, <2>3, AccountingLedger
  <2> DEFINE debited == {n \in Received(notes) \cap Owned : notes[n].spent_txid = t}
             created == Outputs[t] \cap Received(notes)
  <2>5. new = [block_height |-> Len(e), credit |-> created \cap Owned,
               debit |-> debited,
               is_outgoing |-> (created \ Owned # {} \/ debited # {})]
    BY <1>3, <1>6, <2>1, <2>2 DEF TxRowOf, TransactionAccounting
  <2>6. created = Outputs[t]
    BY <2>4
  <2>7. debited = {n \in Note : SpendsAt(e, Len(e), t, n)}
    BY <2>4
  <2> HIDE DEF created, debited
  <2>8. /\ new.block_height = Len(e) /\ new.credit = Outputs[t] \cap Owned
        /\ new.debit = debited
        /\ new.is_outgoing = (Outputs[t] \ Owned # {} \/ new.debit # {})
    BY <2>5, <2>6
  <2>9. QED
    BY <1>0, <2>3, <2>7, <2>8 DEF TxRowIs, new, caught, W
<1>7. CASE ~\E w \in caught : w.txid = t
  <2>1. new = d.txs[t]
    BY <1>3, <1>7
  <2>2. \A h \in Birthday..Len(e) :
          ConcernsAt(e, h, t) <=> h <= Len(c) /\ ConcernsAt(c, h, t)
    BY <1>4, <1>5, <1>7
  <2>3. CASE d.txs[t] = NoRow /\ \A h \in Birthday..Len(c) : ~ConcernsAt(c, h, t)
    BY <1>0, <2>1, <2>2, <2>3 DEF TxRowIs, new, caught, W
  <2>4. ASSUME NEW h \in Birthday..Len(c),
               ConcernsAt(c, h, t),
               d.txs[t].block_height = h,
               d.txs[t].credit = Outputs[t] \cap Owned,
               d.txs[t].debit = {n \in Note : SpendsAt(c, h, t, n)},
               d.txs[t].is_outgoing = (Outputs[t] \ Owned # {} \/ d.txs[t].debit # {})
        PROVE  TxRowIs(new, e, t)
    <3>1. d.txs[t].debit = {n \in Note : SpendsAt(e, h, t, n)} /\ ConcernsAt(e, h, t)
      BY <1>0, <1>5, <2>4
    <3>2. QED
      BY <1>0, <2>1, <2>4, <3>1 DEF TxRowIs
  <2>5. QED
    BY <1>1, <2>3, <2>4 DEF TxRowIs, new, caught, W
<1>8. QED
  BY <1>6, <1>7

\* Account::apply_transactions of the first detected block takes the ledger of
\* the checkpoint to the ledger of that block.
LEMMA ApplyLedger ==
    ASSUME NEW d, NEW e, NextFound(d, e)
    PROVE  IsLedger(ApplyTransactions(d, e, Detect(Nullifiers(d), e)))
<1> DEFINE r == ApplyTransactions(d, e, Detect(Nullifiers(d), e))
<1>1. History(r.checkpoint) = e
  BY NullAssumption DEF NextFound, BlockHash, History, ApplyTransactions
<1>2. \A n \in Note : NoteRowIs(r.notes[n], e, n)
  BY AppliedNote DEF ApplyTransactions
<1>3. \A t \in Tx : TxRowIs(r.txs[t], e, t)
  BY AppliedTx
<1> HIDE DEF r
<1>4. QED
  BY <1>1, <1>2, <1>3 DEF IsLedger, r
-----------------------------------------------------------------------------
(* Types. *)

LEMMA DetectType ==
    ASSUME NEW watched, NEW b \in BlockHash
    PROVE  Detect(watched, b) \subseteq WalletTx
<1>1. Len(b) \in Nat /\ Tip(b) \in Block
  BY DEF BlockHash, Tip
<1>2. QED
  BY <1>1, TxAssumption DEF Detect, WalletTx, Block

LEMMA ApplyType ==
    ASSUME NEW d \in Db, NEW at \in Cursor, NEW txs \in SUBSET WalletTx
    PROVE  ApplyTransactions(d, at, txs) \in Db
<1> DEFINE inserted == InsertNotes(d.notes, txs)
           marked == MarkSpent(inserted, txs)
<1>1. d.notes \in [Note -> NoteRow] /\ d.txs \in [Tx -> TxRow]
  BY DEF Db
<1>2. ASSUME NEW n \in Note, NEW w \in txs
      PROVE  ReceivedAt(w.height) \in NoteRow
  BY DEF ReceivedAt, NoteRow, WalletTx, Height, NULL
<1>3. inserted \in [Note -> NoteRow]
  BY <1>1, <1>2 DEF InsertNotes
<1>4. ASSUME NEW n \in Note, NEW w \in txs
      PROVE  SpentBy(inserted[n], w) \in NoteRow
  BY <1>3 DEF SpentBy, NoteRow, WalletTx, Height
<1> HIDE DEF inserted
<1>5. marked \in [Note -> NoteRow]
  BY <1>3, <1>4 DEF MarkSpent
<1> HIDE DEF marked
<1>6. ASSUME NEW w \in txs
      PROVE  TxRowOf(marked, w) \in TxRow
  BY NoteAssumption, TxAssumption
     DEF TxRowOf, TransactionAccounting, TxRow, WalletTx, Height, Received
<1>7. [t \in Tx |-> IF \E w \in txs : w.txid = t
                    THEN TxRowOf(marked, CHOOSE w \in txs : w.txid = t)
                    ELSE d.txs[t]] \in [Tx -> TxRow]
  BY <1>1, <1>6
<1>8. QED
  BY <1>5, <1>7 DEF ApplyTransactions, Db, inserted, marked

\* apply_transactions is idempotent.
LEMMA ApplyTwice ==
    ASSUME NEW d, NEW at, NEW found, found \subseteq WalletTx
    PROVE  LET e == ApplyTransactions(d, at, found)
           IN  ApplyTransactions(e, at, found) = e
<1> DEFINE new == InsertNotes(d.notes, found)
           notes == MarkSpent(new, found)
           e == ApplyTransactions(d, at, found)
<1>1. \A w \in found : w.height # NULL
  BY DEF WalletTx, NULL
<1>2. e.notes = notes
  BY DEF ApplyTransactions
<1>3. InsertNotes(notes, found) = notes
  <2>1. SUFFICES ASSUME NEW n \in Note, notes[n].block_height = NULL,
                        \E w \in found : n \in Outputs[w.txid]
                 PROVE  FALSE
    BY DEF InsertNotes, MarkSpent
  <2>2. new[n].block_height = NULL
    BY <2>1 DEF MarkSpent, SpentBy
  <2>3. new[n] # d.notes[n] => new[n].block_height # NULL
    BY <1>1 DEF InsertNotes, ReceivedAt
  <2>4. d.notes[n].block_height = NULL
    BY <2>2, <2>3
  <2>5. new[n] = ReceivedAt((CHOOSE w \in found : n \in Outputs[w.txid]).height)
    BY <2>1, <2>4 DEF InsertNotes
  <2>6. QED
    BY <1>1, <2>1, <2>2, <2>5 DEF ReceivedAt
<1>4. MarkSpent(notes, found) = notes
  <2>1. SUFFICES ASSUME NEW n \in Unspent(notes) \cap Watchable,
                        \E w \in found : n \in w.spends
                 PROVE  FALSE
    BY DEF MarkSpent
  <2>2. n \in Note /\ notes[n].block_height # NULL /\ notes[n].spent_height = NULL
    BY <2>1 DEF Unspent, Received
  <2>3. CASE n \in Unspent(new)
    <3>1. notes[n] = SpentBy(new[n], CHOOSE w \in found : n \in w.spends)
      BY <2>1, <2>2, <2>3 DEF MarkSpent
    <3>2. QED
      BY <1>1, <2>1, <2>2, <3>1 DEF SpentBy
  <2>4. CASE n \notin Unspent(new)
    <3>1. notes[n] = new[n]
      BY <2>2, <2>4 DEF MarkSpent
    <3>2. QED
      BY <2>2, <2>4, <3>1 DEF Unspent, Received
  <2>5. QED
    BY <2>3, <2>4
<1>5. MarkSpent(InsertNotes(e.notes, found), found) = notes
  BY <1>2, <1>3, <1>4
<1> HIDE DEF notes, new
<1>6. e = [checkpoint |-> at, notes |-> notes,
           txs |-> [t \in Tx |->
                      IF \E w \in found : w.txid = t
                      THEN TxRowOf(notes, CHOOSE w \in found : w.txid = t)
                      ELSE d.txs[t]]]
  BY DEF ApplyTransactions, notes, new
<1>7. ApplyTransactions(e, at, found) =
        [checkpoint |-> at, notes |-> notes,
         txs |-> [t \in Tx |->
                    IF \E w \in found : w.txid = t
                    THEN TxRowOf(notes, CHOOSE w \in found : w.txid = t)
                    ELSE e.txs[t]]]
  BY <1>5 DEF ApplyTransactions
<1>8. QED
  BY <1>6, <1>7

LEMMA RewindType ==
    ASSUME NEW d \in Db, NEW to \in Cursor
    PROVE  Rewind(d, to) \in Db
<1>1. d.notes \in [Note -> NoteRow] /\ d.txs \in [Tx -> TxRow]
  BY DEF Db
<1>2. NoNote \in NoteRow /\ NoRow \in TxRow
  BY DEF NoNote, ReceivedAt, NoteRow, NoRow, TxRow, Height, NULL
<1>3. ASSUME NEW n \in Note
      PROVE  ReceivedAt(d.notes[n].block_height) \in NoteRow
  BY <1>1 DEF ReceivedAt, NoteRow, Height, NULL
<1>4. QED
  BY <1>1, <1>2, <1>3 DEF Rewind, Db
-----------------------------------------------------------------------------
(* What a ledger determines. *)

\* The rows of the transactions of a history, and those of its notes.
LEMMA RowOfSpend ==
    ASSUME NEW d \in Db, IsLedger(d), Valid(History(d.checkpoint)),
           NEW h \in Birthday..Len(History(d.checkpoint)), NEW t \in Tx, NEW n,
           SpendsAt(History(d.checkpoint), h, t, n)
    PROVE  /\ n \in Received(d.notes) \cap Owned
           /\ d.notes[n].spent_height = h /\ d.notes[n].spent_txid = t
           /\ n \in d.txs[t].debit
<1> DEFINE c == History(d.checkpoint)
<1>1. /\ c \in Seq(Block) /\ Len(c) \in Nat /\ MinedOnce(c)
      /\ \A g \in Birthday..Len(c) : g \in 1..Len(c)
  BY BirthdayAssumption DEF Valid, History, Db, Cursor
<1>2. /\ h \in Birthday..Len(c) /\ t \in c[h].txs /\ n \in Spends[t]
      /\ n \in Note /\ n \in Owned
  BY NoteAssumption DEF SpendsAt, MinedAt
<1>3. NoteRowIs(d.notes[n], c, n) /\ TxRowIs(d.txs[t], c, t)
  BY <1>2 DEF IsLedger
<1>4. n \in Received(d.notes)
  <2>1. \E g \in Birthday..Len(c) : \E s \in c[g].txs : n \in Outputs[s]
    BY <1>1, <1>2, BirthdayAssumption DEF SpendsAt
  <2>2. d.notes[n].block_height # NULL
    BY <1>1, <1>2, <1>3, <2>1, OwnedReceived
  <2>3. QED
    BY <1>2, <2>2 DEF Received
<1>5. d.notes[n].spent_height = h /\ d.notes[n].spent_txid = t
  <2>1. PICK g \in Birthday..Len(c), s \in Tx :
          /\ SpendsAt(c, g, s, n) /\ s \in c[g].txs
          /\ d.notes[n].spent_height = g /\ d.notes[n].spent_txid = s
    <3>1. \A g \in Birthday..Len(c) : c[g].txs \subseteq Tx
      BY <1>1, BlockTxs
    <3>2. \E g \in Birthday..Len(c) : \E s \in c[g].txs :
            SpendsAt(c, g, s, n) /\ d.notes[n].spent_height = g
              /\ d.notes[n].spent_txid = s
      BY <1>2, <1>3 DEF NoteRowIs
    <3>3. QED
      BY <3>1, <3>2
  <2>2. n \in Spends[s]
    BY <2>1 DEF SpendsAt
  <2>3. s = t /\ g = h
    <3>1. h \in 1..Len(c) /\ g \in 1..Len(c) /\ t \in c[h].txs /\ s \in c[g].txs
      BY <1>1, <1>2, <2>1
    <3> HIDE DEF c
    <3>2. QED
      BY <1>1, <1>2, <2>2, <3>1, SpentOnce
  <2>4. QED
    BY <2>1, <2>3
<1>6. n \in d.txs[t].debit
  <2>1. ConcernsAt(c, h, t)
    BY <1>2 DEF ConcernsAt, SpendsAt
  <2>2. PICK g \in Birthday..Len(c) :
          ConcernsAt(c, g, t) /\ d.txs[t].debit = {m \in Note : SpendsAt(c, g, t, m)}
    BY <1>2, <1>3, <2>1 DEF TxRowIs
  <2>3. g = h
    BY <1>1, <1>2, <2>2 DEF ConcernsAt, MinedAt, MinedOnce
  <2>4. QED
    BY <1>2, <2>2, <2>3
<1>7. QED
  BY <1>2, <1>4, <1>5, <1>6

\* The debits of the transactions are their own: a note is spent once.
LEMMA DebitsDisjoint ==
    ASSUME NEW d \in Db, IsLedger(d), Valid(History(d.checkpoint)),
           NEW t \in Tx, NEW n, n \in d.txs[t].debit
    PROVE  /\ n \in Received(d.notes) \cap Owned
           /\ d.notes[n].spent_height # NULL /\ d.notes[n].spent_txid = t
<1>1. TxRowIs(d.txs[t], History(d.checkpoint), t)
  BY DEF IsLedger
<1>2. PICK h \in Birthday..Len(History(d.checkpoint)) :
        SpendsAt(History(d.checkpoint), h, t, n)
  BY <1>1 DEF TxRowIs, NoRow
<1>3. h # NULL
  BY BirthdayAssumption DEF NULL
<1>4. /\ n \in Received(d.notes) \cap Owned
      /\ d.notes[n].spent_height = h /\ d.notes[n].spent_txid = t
  BY <1>2, RowOfSpend
<1>5. QED
  BY <1>3, <1>4

\* The notes the transactions received are the received notes: an output is of
\* one transaction, and every transaction with a note of the account has a row.
LEMMA CreditsAreReceived ==
    ASSUME NEW d \in Db, IsLedger(d), Valid(History(d.checkpoint))
    PROVE  /\ \A t \in Tx : d.txs[t].credit \subseteq Outputs[t] \cap Owned
           /\ UNION {d.txs[t].credit : t \in Tx} = Received(d.notes) \cap Owned
<1> DEFINE c == History(d.checkpoint)
<1>1. /\ c \in Seq(Block) /\ Len(c) \in Nat /\ MinedOnce(c)
      /\ \A g \in Birthday..Len(c) : g \in 1..Len(c) /\ g # NULL
  BY BirthdayAssumption DEF Valid, History, Db, Cursor, NULL
<1>2. ASSUME NEW t \in Tx, NEW n, n \in d.txs[t].credit
      PROVE  n \in Outputs[t] /\ n \in Owned /\ n \in Received(d.notes)
  <2>1. PICK h \in Birthday..Len(c) :
          ConcernsAt(c, h, t) /\ d.txs[t].credit = Outputs[t] \cap Owned
    BY <1>2 DEF IsLedger, TxRowIs, NoRow
  <2>2. n \in Outputs[t] /\ n \in Owned /\ n \in Note /\ t \in c[h].txs
    BY <1>2, <2>1, NoteAssumption DEF ConcernsAt, MinedAt
  <2>3. NoteRowIs(d.notes[n], c, n)
    BY <2>2 DEF IsLedger
  <2>4. d.notes[n].block_height # NULL
    BY <1>1, <2>2, <2>3, OwnedReceived
  <2>5. QED
    BY <2>2, <2>4 DEF Received
<1>3. ASSUME NEW n \in Received(d.notes) \cap Owned
      PROVE  \E t \in Tx : n \in d.txs[t].credit
  <2>1. /\ n \in Note /\ n \in Owned /\ d.notes[n].block_height # NULL
        /\ NoteRowIs(d.notes[n], c, n)
    BY <1>3 DEF Received, IsLedger
  <2>2. PICK h \in Birthday..Len(c) : \E t \in c[h].txs :
          n \in Outputs[t] /\ ConcernsAt(c, h, t)
    BY <2>1 DEF NoteRowIs
  <2>3. PICK t \in c[h].txs : n \in Outputs[t] /\ ConcernsAt(c, h, t)
    BY <2>2
  <2>4. t \in Tx
    BY <1>1, BlockTxs
  <2>5. TxRowIs(d.txs[t], c, t)
    BY <2>4 DEF IsLedger
  <2>6. d.txs[t].credit = Outputs[t] \cap Owned
    BY <2>3, <2>5 DEF TxRowIs
  <2>7. QED
    BY <2>1, <2>3, <2>4, <2>6
<1>4. QED
  BY <1>2, <1>3

\* The notes the transactions spent are the spent notes of the account.
LEMMA DebitsAreSpent ==
    ASSUME NEW d \in Db, IsLedger(d), Valid(History(d.checkpoint))
    PROVE  UNION {d.txs[t].debit : t \in Tx}
             = {n \in Received(d.notes) \cap Owned : d.notes[n].spent_height # NULL}
<1> DEFINE c == History(d.checkpoint)
<1>1. ASSUME NEW n \in Received(d.notes) \cap Owned, d.notes[n].spent_height # NULL
      PROVE  \E t \in Tx : n \in d.txs[t].debit
  <2>1. NoteRowIs(d.notes[n], c, n)
    BY <1>1 DEF Received, IsLedger
  <2>2. PICK h \in Birthday..Len(c) : \E t \in c[h].txs : SpendsAt(c, h, t, n)
    BY <1>1, <2>1 DEF NoteRowIs
  <2>3. PICK t \in c[h].txs : SpendsAt(c, h, t, n)
    BY <2>2
  <2>4. t \in Tx
    BY BirthdayAssumption, BlockTxs DEF History, Db, Cursor
  <2>5. QED
    BY <2>3, <2>4, RowOfSpend
<1>2. QED
  BY <1>1, DebitsDisjoint

\* The amounts of a ledger add up to its balance: each received note is in the
\* credit of one transaction, each spent one in the debit of one, and what is
\* received and not spent is the balance.
LEMMA LedgerBalance ==
    ASSUME NEW d \in Db, IsLedger(d), Valid(History(d.checkpoint))
    PROVE  Balance(d) = SumFunction([t \in Tx |-> Amount(d.txs[t])])
<1> DEFINE received == Received(d.notes) \cap Owned
           spent == {n \in received : d.notes[n].spent_height # NULL}
           credit == [t \in Tx |-> d.txs[t].credit]
           debit == [t \in Tx |-> d.txs[t].debit]
           plus == [t \in Tx |-> SumFunctionOnSet(Value, credit[t])]
           minus == [t \in Tx |-> SumFunctionOnSet(Value, debit[t])]
           net == [t \in Tx |-> Amount(d.txs[t])]
<1>1. /\ IsFiniteSet(Tx) /\ IsFiniteSet(Note)
      /\ \A n \in Note : Value[n] \in Nat /\ Value[n] \in Int
      /\ \A t \in Tx : credit[t] \in SUBSET Note /\ debit[t] \in SUBSET Note
      /\ received \in SUBSET Note /\ spent \in SUBSET received
  BY FiniteAssumption, PoolAssumption DEF Db, TxRow, Received
<1>2. \A S \in SUBSET Note :
        IsFiniteSet(S) /\ SumFunctionOnSet(Value, S) \in Int
  <2>1. \A S \in SUBSET Note : IsFiniteSet(S)
    BY <1>1, FS_Subset
  <2>2. QED
    BY <1>1, <2>1, SumInt
<1>3. SumFunctionOnSet(plus, Tx) = SumFunctionOnSet(Value, received)
  <2>1. \A t, s \in Tx : t # s => credit[t] \cap credit[s] = {}
    BY CreditsAreReceived, TxAssumption
  <2>2. UNION {credit[t] : t \in Tx} = received
    BY CreditsAreReceived
  <2>3. \A t \in Tx : plus[t] = SumFunctionOnSet(Value, credit[t])
    OBVIOUS
  <2> HIDE DEF credit, debit, plus, minus, net, received, spent
  <2>4. SumFunctionOnSet(plus, Tx)
          = SumFunctionOnSet(Value, UNION {credit[t] : t \in Tx})
    BY <1>1, <2>1, <2>3, SumOfParts
  <2>5. QED
    BY <2>2, <2>4
<1>4. SumFunctionOnSet(minus, Tx) = SumFunctionOnSet(Value, spent)
  <2>1. \A t, s \in Tx : t # s => debit[t] \cap debit[s] = {}
    BY DebitsDisjoint
  <2>2. UNION {debit[t] : t \in Tx} = spent
    BY DebitsAreSpent
  <2>3. \A t \in Tx : minus[t] = SumFunctionOnSet(Value, debit[t])
    OBVIOUS
  <2> HIDE DEF credit, debit, plus, minus, net, received, spent
  <2>4. SumFunctionOnSet(minus, Tx)
          = SumFunctionOnSet(Value, UNION {debit[t] : t \in Tx})
    BY <1>1, <2>1, <2>3, SumOfParts
  <2>5. QED
    BY <2>2, <2>4
<1>5. SumFunctionOnSet(net, Tx)
        = SumFunctionOnSet(plus, Tx) - SumFunctionOnSet(minus, Tx)
  <2>1. \A t \in Tx : /\ plus[t] \in Int /\ minus[t] \in Int
                      /\ net[t] = plus[t] - minus[t]
    BY <1>1, <1>2 DEF Amount
  <2> HIDE DEF plus, minus, net
  <2>2. QED
    BY <1>1, <2>1, SumOfDifferences
<1>6. SumFunctionOnSet(Value, received)
        = Balance(d) + SumFunctionOnSet(Value, spent)
  <2>1. /\ BalanceNotes(d) \cup spent = received
        /\ BalanceNotes(d) \cap spent = {}
        /\ BalanceNotes(d) \in SUBSET Note /\ spent \in SUBSET Note
    BY <1>1 DEF BalanceNotes, Unspent
  <2>2. \A n \in BalanceNotes(d) \cup spent : Value[n] \in Int
    BY <1>1, <2>1
  <2> HIDE DEF spent, received
  <2>3. SumFunctionOnSet(Value, BalanceNotes(d) \cup spent)
          = SumFunctionOnSet(Value, BalanceNotes(d)) + SumFunctionOnSet(Value, spent)
    BY <1>2, <2>1, <2>2, SumDisjoint
  <2>4. QED
    BY <2>1, <2>3 DEF Balance
<1>7. /\ Balance(d) \in Int /\ SumFunctionOnSet(Value, spent) \in Int
  BY <1>1, <1>2 DEF Balance, BalanceNotes, Unspent, Received
<1>8. Balance(d) = SumFunctionOnSet(net, Tx)
  <2> HIDE DEF received, spent, plus, minus, net
  <2> QED
    BY <1>3, <1>4, <1>5, <1>6, <1>7
<1>9. QED
  BY <1>8 DEF SumFunction

\* A history has one ledger: IsLedger says of every row what it is.
LEMMA LedgerUnique ==
    ASSUME NEW d \in Db, NEW e \in Db, IsLedger(d), IsLedger(e),
           d.checkpoint = e.checkpoint, Valid(History(d.checkpoint))
    PROVE  d = e
<1> DEFINE c == History(d.checkpoint)
<1>1. /\ c \in Seq(Block) /\ Len(c) \in Nat /\ MinedOnce(c)
      /\ \A g \in Birthday..Len(c) : g \in 1..Len(c) /\ g # NULL
      /\ \A g \in Birthday..Len(c) : c[g].txs \subseteq Tx
  <2>1. c \in Seq(Block) /\ Len(c) \in Nat /\ MinedOnce(c)
    BY DEF Valid, History, Db, Cursor
  <2>2. \A g \in Birthday..Len(c) : g \in 1..Len(c) /\ g # NULL
    BY BirthdayAssumption DEF NULL
  <2>3. QED
    BY <2>1, <2>2, BlockTxs
<1>2. ASSUME NEW n \in Note
      PROVE  d.notes[n] = e.notes[n]
  <2> DEFINE p == d.notes[n]
             q == e.notes[n]
  <2>1. /\ NoteRowIs(p, c, n) /\ NoteRowIs(q, c, n)
        /\ p \in NoteRow /\ q \in NoteRow
    BY DEF IsLedger, Db
  <2> HIDE DEF p, q
  <2>2. p.block_height = q.block_height
    <3>1. ASSUME NEW x, NEW y, NoteRowIs(x, c, n), NoteRowIs(y, c, n),
                 x.block_height # NULL
          PROVE  x.block_height = y.block_height
      <4>1. PICK h \in Birthday..Len(c) : \E t \in c[h].txs :
              n \in Outputs[t] /\ ConcernsAt(c, h, t) /\ x.block_height = h
        BY <3>1 DEF NoteRowIs
      <4>2. PICK t \in c[h].txs :
              n \in Outputs[t] /\ ConcernsAt(c, h, t) /\ x.block_height = h
        BY <4>1
      <4>3. PICK g \in Birthday..Len(c) : \E s \in c[g].txs :
              n \in Outputs[s] /\ y.block_height = g
        BY <3>1, <4>2 DEF NoteRowIs
      <4>4. PICK s \in c[g].txs : n \in Outputs[s] /\ y.block_height = g
        BY <4>3
      <4>5. h = g
        BY <1>1, <4>2, <4>4, CreatedOnce
      <4>6. QED
        BY <4>2, <4>4, <4>5
    <3>2. QED
      BY <2>1, <3>1
  <2>3. p.spent_height = q.spent_height /\ p.spent_txid = q.spent_txid
    <3>1. ASSUME NEW x, NEW y, NoteRowIs(x, c, n), NoteRowIs(y, c, n),
                 x.spent_height # NULL
          PROVE  x.spent_height = y.spent_height /\ x.spent_txid = y.spent_txid
      <4>1. PICK h \in Birthday..Len(c) : \E t \in c[h].txs :
              SpendsAt(c, h, t, n) /\ x.spent_height = h /\ x.spent_txid = t
        BY <3>1 DEF NoteRowIs
      <4>2. PICK t \in c[h].txs :
              SpendsAt(c, h, t, n) /\ x.spent_height = h /\ x.spent_txid = t
        BY <4>1
      <4>3. PICK g \in Birthday..Len(c) : \E s \in c[g].txs :
              SpendsAt(c, g, s, n) /\ y.spent_height = g /\ y.spent_txid = s
        BY <3>1, <4>2 DEF NoteRowIs
      <4>4. PICK s \in c[g].txs :
              SpendsAt(c, g, s, n) /\ y.spent_height = g /\ y.spent_txid = s
        BY <4>3
      <4>5. n \in Spends[t] /\ n \in Spends[s]
        BY <4>2, <4>4 DEF SpendsAt
      <4>6. t = s /\ h = g
        BY <1>1, <4>2, <4>4, <4>5, SpentOnce
      <4>7. QED
        BY <4>2, <4>4, <4>6
    <3>2. CASE p.spent_height = NULL /\ q.spent_height = NULL
      BY <1>1, <2>1, <3>2 DEF NoteRowIs
    <3>3. QED
      BY <2>1, <3>1, <3>2
  <2>4. p = q
    BY <2>1, <2>2, <2>3 DEF NoteRow
  <2>5. QED
    BY <2>4 DEF p, q
<1>3. ASSUME NEW t \in Tx
      PROVE  d.txs[t] = e.txs[t]
  <2> DEFINE p == d.txs[t]
             q == e.txs[t]
  <2>1. /\ TxRowIs(p, c, t) /\ TxRowIs(q, c, t)
        /\ p \in TxRow /\ q \in TxRow
    BY DEF IsLedger, Db
  <2> HIDE DEF p, q
  <2>2. CASE \A h \in Birthday..Len(c) : ~ConcernsAt(c, h, t)
    BY <2>1, <2>2 DEF TxRowIs, p, q
  <2>3. CASE \E h \in Birthday..Len(c) : ConcernsAt(c, h, t)
    <3>0. PICK h \in Birthday..Len(c) : ConcernsAt(c, h, t)
      BY <2>3
    <3>1. ASSUME NEW row, TxRowIs(row, c, t)
          PROVE  /\ row.block_height = h
                 /\ row.credit = Outputs[t] \cap Owned
                 /\ row.debit = {n \in Note : SpendsAt(c, h, t, n)}
                 /\ row.is_outgoing = (Outputs[t] \ Owned # {} \/ row.debit # {})
      <4>1. PICK g \in Birthday..Len(c) :
              /\ ConcernsAt(c, g, t)
              /\ row.block_height = g
              /\ row.credit = Outputs[t] \cap Owned
              /\ row.debit = {n \in Note : SpendsAt(c, g, t, n)}
              /\ row.is_outgoing = (Outputs[t] \ Owned # {} \/ row.debit # {})
        BY <3>0, <3>1 DEF TxRowIs
      <4>2. g = h
        BY <1>1, <3>0, <4>1 DEF ConcernsAt, MinedAt, MinedOnce
      <4>3. QED
        BY <4>1, <4>2
    <3>2. /\ p.block_height = q.block_height /\ p.credit = q.credit
          /\ p.debit = q.debit
      BY <2>1, <3>1
    <3>3. p.is_outgoing = q.is_outgoing
      BY <2>1, <3>1, Zenon
    <3>4. p = q
      BY <2>1, <3>2, <3>3 DEF TxRow
    <3>5. QED
      BY <3>4 DEF p, q
  <2>4. QED
    BY <2>2, <2>3
<1>4. d.notes = e.notes /\ d.txs = e.txs
  BY <1>2, <1>3 DEF Db
<1>5. QED
  BY <1>4 DEF Db
=============================================================================
