-------------------------- MODULE DecryptionProofs --------------------------
(***************************************************************************)
(* The theorems about the outputs of a transaction, in the ordinary build  *)
(* and in the one that looks for name notes, for every number of outputs.  *)
(***************************************************************************)
EXTENDS NameNotes, TLAPS

-----------------------------------------------------------------------------
(* Keys and inputs. *)

LEMMA KeyFacts ==
    ASSUME NEW ring \in KeyRing
    PROVE  /\ DOMAIN ring \subseteq 1..2
           /\ \A j \in DOMAIN ring :
                /\ ring[j].scope \in {"external", "internal"}
                /\ ring[j].full \in BOOLEAN
                /\ ring[j].full <=> ring = Ufvk
           /\ ring = <<>> => DOMAIN ring = {}
<1>1. /\ DOMAIN Ufvk = 1..2
      /\ \A j \in 1..2 : Ufvk[j].full = TRUE /\ Ufvk[j].scope \in {"external", "internal"}
  BY DEF Ufvk
<1>2. /\ DOMAIN Uivk = 1..1
      /\ Uivk[1].full = FALSE /\ Uivk[1].scope = "external"
  BY DEF Uivk
<1>3. ring = <<>> => DOMAIN ring = {}
  OBVIOUS
<1>4. CASE ring = Ufvk
  BY <1>1, <1>3, <1>4
<1>5. CASE ring = Uivk
  <2>1. DOMAIN ring = 1..1 /\ ring # Ufvk
    BY <1>1, <1>2, <1>5
  <2>2. \A j \in DOMAIN ring : j = 1
    BY <2>1
  <2>3. ring[1].full = FALSE /\ ring[1].scope = "external"
    BY <1>2, <1>5
  <2>4. 1..1 \subseteq 1..2
    OBVIOUS
  <2>5. QED
    BY <1>3, <2>1, <2>2, <2>3, <2>4
<1>6. CASE ring = <<>>
  BY <1>3, <1>6
<1>7. QED
  BY <1>4, <1>5, <1>6 DEF KeyRing

LEMMA InputFacts ==
    ASSUME TypeOK
    PROVE  /\ served \in Nat /\ served <= MaxOutputs
           /\ mined \in Nat /\ mined <= MaxOutputs /\ MaxOutputs \in Nat
           /\ \A k \in Index :
                /\ output[k].parses \in BOOLEAN
                /\ Opens(k) => output[k].ivk \in 1..2
                /\ Recovers(k) => output[k].ovk \in DOMAIN keys /\ keys = Ufvk
<1>1. keys \in KeyRing /\ output \in [Index -> Output]
  BY DEF TypeOK
<1>2. served \in Nat /\ served <= MaxOutputs /\ mined \in Nat /\ mined <= MaxOutputs
  BY BoundAssumption DEF TypeOK
<1>3. ASSUME NEW k \in Index
      PROVE  /\ output[k].parses \in BOOLEAN
             /\ Opens(k) => output[k].ivk \in 1..2
             /\ Recovers(k) => output[k].ovk \in DOMAIN keys /\ keys = Ufvk
  <2>1. output[k] \in Output
    BY <1>1, <1>3
  <2>2. QED
    BY <1>1, <2>1, KeyFacts DEF Output, Opens, Recovers
<1>4. QED
  BY <1>2, <1>3, BoundAssumption

\* The results of the compact pass are where their outputs are.
LEMMA DecryptedFacts ==
    ASSUME TypeOK, IndexInv, pc = "compact", at > served, NEW k \in 1..served
    PROVE  /\ Decrypted(k) # Nothing <=> IsReceived(k)
           /\ IsReceived(k) => Decrypted(k) = [note |-> k, key |-> output[k].ivk]
<1>1. k \in Index /\ k <= served
  BY InputFacts DEF Index
<1>2. at = served + 1
  BY InputFacts DEF TypeOK
<1>3. \A j \in DOMAIN indices : indices[j] = k => output[k].parses
  BY DEF IndexInv
<1>4. output[k].parses => \E j \in DOMAIN indices : indices[j] = k
  BY <1>2, InputFacts DEF IndexInv
<1>5. Placed(k) = IF output[k].parses THEN Raw(k) ELSE Nothing
  BY <1>3, <1>4 DEF Placed
<1>6. Opens(k) => [note |-> k, key |-> output[k].ivk] # Nothing
  BY <1>1, InputFacts, NoneAssumption
<1>7. keys = <<>> => ~Opens(k)
  BY KeyFacts DEF Opens, TypeOK
<1>8. QED
  BY <1>1, <1>5, <1>6, <1>7 DEF Decrypted, Raw, IsReceived

LEMMA ReceivedRowFacts ==
    ASSUME TypeOK, IndexInv, pc = "compact", at > served,
           NEW k \in 1..served, IsReceived(k)
    PROVE  /\ ReceivedRow(k) \in Row
           /\ ReceivedRow(k).index = k /\ ReceivedRow(k).memo = 0
           /\ RowIs(MemoTo(ReceivedRow(k)), k)
<1> DEFINE key == keys[output[k].ivk]
           row == ReceivedRow(k)
<1>1. k \in Index
  BY InputFacts DEF Index
<1>2. /\ key.scope \in {"external", "internal"} /\ key.full \in BOOLEAN
      /\ key.full <=> keys = Ufvk
  BY <1>1, KeyFacts DEF IsReceived, Opens, TypeOK
<1>3. row = [index |-> k, note |-> k, scope |-> key.scope, nf |-> key.full,
             memo |-> 0, is_sent |-> FALSE,
             is_change |-> (key.scope = "internal")]
  <2>1. Decrypted(k) = [note |-> k, key |-> output[k].ivk]
    BY DecryptedFacts
  <2>2. Decrypted(k).note = k /\ Decrypted(k).key = output[k].ivk
    BY <2>1
  <2>3. QED
    BY <2>2 DEF ReceivedRow
<1> HIDE DEF key, row
<1>4. row \in Row /\ row.index = k /\ row.memo = 0
  BY <1>1, <1>2, <1>3 DEF Row
<1>5. ~IsSent(k)
  BY DEF IsSent
<1>6. /\ MemoTo(row).index = k /\ MemoTo(row).note = k
      /\ MemoTo(row).scope = key.scope
      /\ MemoTo(row).memo = IF k <= mined THEN k ELSE 0
      /\ ~MemoTo(row).is_sent
      /\ MemoTo(row).nf <=> key.full
      /\ MemoTo(row).is_change <=> key.scope = "internal"
  BY <1>3, <1>4 DEF MemoTo, Row
<1>7. RowIs(MemoTo(row), k)
  BY <1>2, <1>5, <1>6 DEF RowIs, key
<1>8. QED
  BY <1>4, <1>7 DEF row

LEMMA SentRowFacts ==
    ASSUME TypeOK, NEW k \in Index, IsSent(k)
    PROVE  SentRow(k) \in Row /\ SentRow(k).index = k /\ RowIs(SentRow(k), k)
<1> DEFINE key == keys[output[k].ovk]
<1>1. key.scope \in {"external", "internal"}
  BY InputFacts, KeyFacts DEF IsSent, TypeOK
<1>2. SentRow(k) = [index |-> k, note |-> k, scope |-> key.scope, nf |-> FALSE,
                    memo |-> k, is_sent |-> TRUE, is_change |-> FALSE]
  BY DEF SentRow
<1>3. k <= mined
  BY DEF IsSent
<1> HIDE DEF key
<1>4. SentRow(k).scope = keys[output[k].ovk].scope
  BY <1>2 DEF key
<1>5. QED
  BY <1>1, <1>2, <1>3, <1>4 DEF Row, RowIs
-----------------------------------------------------------------------------
(* The ordinary build. *)

LEMMA ScanCompactStep ==
    ASSUME DecryptInv, ScanCompact
    PROVE  DecryptInv'
<1>1. /\ pc = "compact" /\ at > served /\ TypeOK /\ IndexInv
      /\ outputs' = ReceivedRows /\ at' = 1
      /\ pc' = (IF ReceivedRows # {} \/ watched THEN "full" ELSE "dropped")
      /\ UNCHANGED <<keys, output, served, mined, watched, indices>>
  BY DEF ScanCompact, DecryptInv, input
<1>2. ASSUME NEW row \in outputs'
      PROVE  /\ row \in Row /\ row.memo = 0
             /\ row.index \in Index /\ IsReceived(row.index)
             /\ RowIs(MemoTo(row), row.index)
  <2>1. PICK k \in 1..served : Decrypted(k) # Nothing /\ row = ReceivedRow(k)
    BY <1>1, <1>2 DEF ReceivedRows
  <2>2. IsReceived(k) /\ k \in Index
    BY <1>1, <2>1, DecryptedFacts, InputFacts DEF Index
  <2>3. QED
    BY <1>1, <2>1, <2>2, ReceivedRowFacts
<1>3. ASSUME NEW k \in Index, IsReceived(k)
      PROVE  Has(outputs', k)
  <2>1. k \in 1..served
    BY <1>1, <1>3, InputFacts DEF IsReceived, Index
  <2>2. Decrypted(k) # Nothing /\ ReceivedRow(k).index = k
    BY <1>1, <1>3, <2>1, DecryptedFacts, ReceivedRowFacts
  <2>3. QED
    BY <1>1, <2>1, <2>2 DEF ReceivedRows, Has
<1>4. TypeOK'
  BY <1>1, <1>2, InputFacts DEF TypeOK
<1>5. IndexInv'
  BY <1>1 DEF IndexInv
<1>6. RowsInv'
  <2>1. \A k \in Index : IsReceived(k)' <=> IsReceived(k)
    BY <1>1 DEF IsReceived, Opens
  <2>2. \A k \in Index : Has(outputs, k)' <=> IsReceived(k)'
    BY <1>2, <1>3, <2>1 DEF Has
  <2>3. \A row \in outputs' : row.memo = 0 /\ RowIs(MemoTo(row), row.index)'
    BY <1>1, <1>2 DEF RowIs, MemoTo, IsSent, IsReceived, Opens, Recovers
  <2>4. QED
    BY <1>1, <2>2, <2>3 DEF RowsInv, RowsMatchKeys
<1>7. QED
  BY <1>4, <1>5, <1>6 DEF DecryptInv

LEMMA EnrichStep ==
    ASSUME DecryptInv, Enrich
    PROVE  DecryptInv'
<1>1. /\ pc = "full" /\ at = 1 /\ TypeOK
      /\ outputs' = {WithMemo(row) : row \in outputs}
      /\ pc' = (IF HasOutgoingKey THEN "recover" ELSE "kept")
      /\ UNCHANGED <<keys, output, served, mined, watched, at, indices>>
      /\ \A k \in Index : Has(outputs, k) <=> IsReceived(k)
      /\ \A row \in outputs : row.memo = 0 /\ RowIs(MemoTo(row), row.index)
  BY DEF Enrich, DecryptInv, RowsInv, input
<1>2. ASSUME NEW row \in outputs
      PROVE  /\ WithMemo(row) = MemoTo(row) /\ WithMemo(row) \in Row
             /\ WithMemo(row).index = row.index
             /\ RowIs(WithMemo(row), row.index)
  <2>1. row \in Row /\ row.index \in Index /\ row.memo = 0
    BY <1>1 DEF TypeOK, Row
  <2>2. Opens(row.index)
    BY <1>1, <2>1 DEF Has, IsReceived
  <2>3. WithMemo(row) = MemoTo(row)
    BY <2>1, <2>2 DEF WithMemo, MemoTo, Row
  <2>4. MemoTo(row) \in Row /\ MemoTo(row).index = row.index
    BY <2>1 DEF MemoTo, Row
  <2>5. QED
    BY <1>1, <2>3, <2>4
<1>3. \A row \in outputs' : row \in Row /\ RowIs(row, row.index)'
  <2>1. \A row \in outputs' : row \in Row /\ RowIs(row, row.index)
    BY <1>1, <1>2
  <2>2. QED
    BY <1>1, <2>1 DEF RowIs, IsSent, IsReceived, Opens, Recovers
<1>4. \A k \in Index : Has(outputs, k)' <=> Has(outputs, k)
  BY <1>1, <1>2 DEF Has
<1>5. TypeOK' /\ IndexInv'
  <2>1. TypeOK'
    BY <1>1, <1>3 DEF TypeOK
  <2>2. IndexInv'
    BY <1>1 DEF IndexInv, DecryptInv
  <2>3. QED
    BY <2>1, <2>2
<1>6. \A k \in Index :
        /\ IsReceived(k)' <=> IsReceived(k)
        /\ IsSent(k)' <=> IsSent(k)
  BY <1>1 DEF IsSent, IsReceived, Opens, Recovers
<1>7. ASSUME ~HasOutgoingKey, NEW k \in Index
      PROVE  ~IsSent(k)
  BY <1>7 DEF HasOutgoingKey, IsSent, Recovers
<1>8. RowsInv'
  <2>1. \A k \in Index : Has(outputs, k)' <=> IsReceived(k)'
    BY <1>1, <1>4, <1>6
  <2>2. \A k \in Index : ~(k < 1)
    BY InputFacts, <1>1 DEF Index
  <2>3. QED
    BY <1>1, <1>3, <1>6, <1>7, <2>1, <2>2 DEF RowsInv, RowsMatchKeys
<1>9. QED
  BY <1>5, <1>8 DEF DecryptInv

LEMMA RecoverStep ==
    ASSUME DecryptInv, Recover
    PROVE  DecryptInv'
<1>1. /\ pc = "recover" /\ at <= mined /\ TypeOK
      /\ outputs' = (IF ~Has(outputs, at) /\ Recovers(at)
                     THEN outputs \cup {SentRow(at)} ELSE outputs)
      /\ at' = at + 1
      /\ UNCHANGED <<keys, output, served, mined, watched, pc, indices>>
      /\ \A k \in Index : Has(outputs, k) <=> IsReceived(k) \/ (k < at /\ IsSent(k))
      /\ \A row \in outputs : RowIs(row, row.index)
  BY DEF Recover, DecryptInv, RowsInv, input
<1>2. at \in Index /\ at \in Nat
  BY <1>1, InputFacts DEF TypeOK, Index
<1>3. (~Has(outputs, at) /\ Recovers(at)) <=> IsSent(at)
  BY <1>1, <1>2 DEF IsSent
<1>4. outputs' = (IF IsSent(at) THEN outputs \cup {SentRow(at)} ELSE outputs)
  BY <1>1, <1>3
<1>5. IsSent(at) => /\ SentRow(at) \in Row /\ SentRow(at).index = at
                    /\ RowIs(SentRow(at), at)
  BY <1>1, <1>2, SentRowFacts
<1>6. \A k \in Index :
        /\ IsReceived(k)' <=> IsReceived(k)
        /\ IsSent(k)' <=> IsSent(k)
  BY <1>1 DEF IsSent, IsReceived, Opens, Recovers
<1>7. \A row \in outputs' : RowIs(row, row.index)'
  <2>1. \A row \in outputs' : RowIs(row, row.index)
    BY <1>1, <1>4, <1>5
  <2>2. QED
    BY <1>1, <2>1 DEF RowIs, IsSent, IsReceived, Opens, Recovers
<1>8. ASSUME NEW k \in Index
      PROVE  Has(outputs, k)' <=> IsReceived(k)' \/ (k < at' /\ IsSent(k)')
  <2>1. Has(outputs, k)' <=> Has(outputs, k) \/ (k = at /\ IsSent(k))
    BY <1>4, <1>5 DEF Has
  <2>2. k < at' <=> k < at \/ k = at
    BY <1>1, <1>2, InputFacts DEF Index
  <2>3. QED
    BY <1>1, <1>6, <2>1, <2>2
<1>9. TypeOK'
  BY <1>1, <1>2, <1>4, <1>5, InputFacts DEF TypeOK
<1>10. IndexInv' /\ RowsInv'
  BY <1>1, <1>7, <1>8 DEF IndexInv, RowsInv, DecryptInv, RowsMatchKeys
<1>11. QED
  BY <1>9, <1>10 DEF DecryptInv

LEMMA ParseStep ==
    ASSUME TypeOK, IndexInv, ParseCompact
    PROVE  TypeOK' /\ IndexInv'
<1>1. /\ pc = "compact" /\ at <= served
      /\ indices' = (IF output[at].parses THEN Append(indices, at) ELSE indices)
      /\ at' = at + 1
      /\ UNCHANGED <<keys, output, served, mined, watched, pc, outputs>>
      /\ outputs = {}
  BY DEF ParseCompact, IndexInv, input
<1>2. at \in 1..served /\ indices \in Seq(1..served)
  BY <1>1, InputFacts DEF TypeOK
<1>3. TypeOK'
  <2>1. Append(indices, at) \in Seq(1..served)
    BY <1>2
  <2>2. at' \in 1..(served + 1)
    BY <1>1, <1>2, InputFacts
  <2>3. QED
    BY <1>1, <1>2, <2>1, <2>2 DEF TypeOK
<1>4. CASE output[at].parses
  <2>1. /\ indices' = Append(indices, at)
        /\ DOMAIN indices' = 1..(Len(indices) + 1)
        /\ indices'[Len(indices) + 1] = at
        /\ \A j \in DOMAIN indices : indices'[j] = indices[j] /\ j \in DOMAIN indices'
        /\ Len(indices) + 1 \in DOMAIN indices'
        /\ DOMAIN indices = 1..Len(indices)
    BY <1>1, <1>2, <1>4
  <2>2. \A j \in DOMAIN indices' : output'[indices'[j]].parses
    BY <1>1, <1>4, <2>1 DEF IndexInv
  <2>3. ASSUME NEW k \in 1..at, output[k].parses
        PROVE  \E j \in DOMAIN indices' : indices'[j] = k
    <3>1. CASE k = at
      BY <2>1, <3>1
    <3>2. CASE k \in 1..(at - 1)
      BY <1>1, <2>1, <2>3, <3>2 DEF IndexInv
    <3>3. QED
      BY <1>2, <3>1, <3>2
  <2>4. QED
    BY <1>1, <1>2, <1>3, <2>2, <2>3 DEF IndexInv
<1>5. CASE ~output[at].parses
  <2>1. \A k \in 1..at : k = at \/ k \in 1..(at - 1)
    BY <1>2
  <2>2. QED
    BY <1>1, <1>2, <1>3, <1>5, <2>1 DEF IndexInv
<1>6. QED
  BY <1>4, <1>5

LEMMA ReturnStep ==
    ASSUME DecryptInv, Return
    PROVE  DecryptInv'
<1>1. /\ pc = "recover" /\ at > mined /\ pc' = "kept" /\ TypeOK
      /\ UNCHANGED <<keys, output, served, mined, watched, at, indices, outputs>>
      /\ \A k \in Index : Has(outputs, k) <=> IsReceived(k) \/ (k < at /\ IsSent(k))
      /\ \A row \in outputs : RowIs(row, row.index)
  BY DEF Return, DecryptInv, RowsInv, input
<1>2. \A k \in Index : IsSent(k) => k < at
  BY <1>1, InputFacts DEF IsSent, TypeOK, Index
<1>3. \A k \in Index : Has(outputs, k) <=> IsReceived(k) \/ IsSent(k)
  BY <1>1, <1>2
<1>4. RowsMatchKeys'
  BY <1>1, <1>3 DEF RowsMatchKeys, RowIs, IsSent, IsReceived, Opens, Recovers
<1>5. QED
  BY <1>1, <1>4 DEF DecryptInv, TypeOK, IndexInv, RowsInv

LEMMA DecryptInit == Init => DecryptInv
<1> SUFFICES ASSUME Init PROVE DecryptInv
  OBVIOUS
<1>1. TypeOK
  BY BoundAssumption DEF Init, TypeOK
<1>2. IndexInv /\ RowsInv
  BY DEF Init, IndexInv, RowsInv, RowsMatchKeys
<1>3. QED
  BY <1>1, <1>2 DEF DecryptInv

LEMMA DecryptStep ==
    ASSUME DecryptInv, [Next]_vars
    PROVE  DecryptInv'
<1>1. CASE UNCHANGED vars
  BY <1>1 DEF vars, input, DecryptInv, TypeOK, IndexInv, RowsInv, RowsMatchKeys,
              Has, RowIs, MemoTo, IsSent, IsReceived, Opens, Recovers
<1>2. CASE ParseCompact
  <2>1. TypeOK' /\ IndexInv' /\ pc' = "compact"
    BY <1>2, ParseStep DEF DecryptInv, ParseCompact
  <2>2. QED
    BY <2>1 DEF DecryptInv, RowsInv, RowsMatchKeys
<1>3. QED
  BY <1>1, <1>2, ScanCompactStep, EnrichStep, RecoverStep, ReturnStep DEF Next

\* The invariant behind the two theorems below: the three passes over the
\* outputs hand each other rows that are right as far as they go.
THEOREM DecryptInvariant == Spec => []DecryptInv
BY DecryptInit, DecryptStep, PTL DEF Spec

\* The types: the loops of decrypt.rs stay within the outputs they go over, and
\* a row names an output and a note that exist.
THEOREM DecryptionTypes == Spec => []TypeOK
BY DecryptInvariant, PTL DEF DecryptInv

\* When `scan` returns, a pool's rows are exactly one for every output that an
\* incoming or outgoing key knows, with its own note, memo and direction,
\* however many compact outputs before it did not parse.
THEOREM RowsExact == Spec => []RowsMatchKeys
<1>1. DecryptInv => RowsMatchKeys
  BY DEF DecryptInv, RowsInv
<1>2. QED
  BY <1>1, DecryptInvariant, PTL

\* If the compact outputs are those of the transaction, none of our own notes,
\* payments to ourselves included, gets a row with is_sent.
THEOREM OwnNotesCount == Spec => []OwnNeverSent
<1>1. DecryptInv => OwnNeverSent
  <2>1. SUFFICES ASSUME DecryptInv, served = mined,
                        \A k \in 1..mined : output[k].parses,
                        NEW row \in outputs, row.is_sent
                 PROVE  ~Opens(row.index)
    BY DEF OwnNeverSent
  <2>2. row.index \in Index /\ row \in Row
    BY <2>1 DEF DecryptInv, TypeOK, Row
  <2>3. IsSent(row.index)
    <3>1. CASE pc = "full"
      <4>1. RowIs(MemoTo(row), row.index)
        BY <2>1, <3>1 DEF DecryptInv, RowsInv
      <4>2. MemoTo(row).is_sent = row.is_sent
        BY <2>2 DEF MemoTo, Row
      <4>3. QED
        BY <2>1, <4>1, <4>2 DEF RowIs
    <3>2. CASE pc \in {"recover", "kept"}
      BY <2>1, <3>2 DEF DecryptInv, RowsInv, RowsMatchKeys, RowIs
    <3>3. CASE pc \in {"compact", "dropped"}
      BY <2>1, <3>3 DEF DecryptInv, IndexInv, RowsInv
    <3>4. QED
      BY <2>1, <3>1, <3>2, <3>3 DEF DecryptInv, TypeOK
  <2>4. row.index \in 1..mined
    BY <2>1, <2>2, <2>3, InputFacts DEF IsSent, Index, DecryptInv
  <2>5. QED
    BY <2>1, <2>3, <2>4 DEF IsSent, IsReceived
<1>2. QED
  BY <1>1, DecryptInvariant, PTL
-----------------------------------------------------------------------------
(* The build with zns-decrypt: the pass over the name notes. *)

LEMMA GuardType ==
    ASSUME RelaxedInv
    PROVE  /\ TypeOK /\ IndexInv
           /\ guard \in [Index -> BOOLEAN]
           /\ relaxed \subseteq Hit
           /\ \A hit \in relaxed : hit.index \in Index
           /\ \A row \in outputs : row.index \in Index /\ row \in Row
BY DEF RelaxedInv, HitTypes, Hit, TypeOK, Row

LEMMA RelaxedHitFacts ==
    ASSUME RelaxedInv, pc = "compact", at > served, NEW k \in 1..served
    PROVE  /\ k \in Index
           /\ RelaxedHit(k) <=> IsReceived(k) /\ ~guard[k]
           /\ Decrypted(k) # Nothing <=> IsReceived(k)
           /\ IsReceived(k) => Decrypted(k).note = k
<1>1. k \in Index
  BY GuardType, InputFacts DEF Index
<1>2. /\ Decrypted(k) # Nothing <=> IsReceived(k)
      /\ IsReceived(k) => Decrypted(k) = [note |-> k, key |-> output[k].ivk]
  BY GuardType, DecryptedFacts
<1>3. QED
  BY <1>1, <1>2 DEF RelaxedHit

LEMMA OrdinaryRowFacts ==
    ASSUME RelaxedInv, pc = "compact", at > served, NEW row \in OrdinaryRows
    PROVE  /\ row \in Row /\ row.index \in Index /\ guard[row.index]
           /\ IsReceived(row.index)
<1>1. PICK k \in 1..served :
          Decrypted(k) # Nothing /\ ~RelaxedHit(k) /\ row = ReceivedRow(k)
  BY DEF OrdinaryRows
<1>2. k \in Index /\ IsReceived(k) /\ guard[k]
  BY <1>1, RelaxedHitFacts
<1>3. QED
  BY <1>1, <1>2, ReceivedRowFacts, GuardType

LEMMA RelaxedScanStep ==
    ASSUME RelaxedInv, RelaxedScanCompact
    PROVE  RelaxedInv'
<1>1. /\ pc = "compact" /\ at > served /\ outputs' = OrdinaryRows
      /\ relaxed' = CompactHits /\ at' = 1
      /\ pc' = (IF OrdinaryRows # {} \/ CompactHits # {} \/ watched
                THEN "full" ELSE "dropped")
      /\ UNCHANGED <<keys, output, served, mined, watched, guard, indices>>
  BY DEF RelaxedScanCompact, input
<1>2. TypeOK' /\ IndexInv'
  <2>1. outputs' \subseteq Row
    BY <1>1, OrdinaryRowFacts
  <2>2. TypeOK'
    BY <1>1, <2>1, GuardType, InputFacts DEF TypeOK
  <2>3. QED
    BY <1>1, <2>2, GuardType DEF IndexInv
<1>3. ASSUME NEW hit \in CompactHits
      PROVE  /\ hit \in Hit /\ hit.index \in Index
             /\ hit.note = hit.index /\ hit.memo = 0 /\ ~hit.is_sent
             /\ IsReceived(hit.index) /\ ~guard[hit.index]
  <2>1. PICK k \in 1..served :
            /\ RelaxedHit(k)
            /\ hit = [index |-> k, note |-> Decrypted(k).note,
                      memo |-> 0, is_sent |-> FALSE]
    BY DEF CompactHits
  <2>2. k \in Index /\ IsReceived(k) /\ ~guard[k] /\ Decrypted(k).note = k
    BY <1>1, <2>1, RelaxedHitFacts
  <2>3. QED
    BY <2>1, <2>2 DEF Hit
<1>4. ASSUME NEW k \in Index, IsReceived(k), ~guard[k]
      PROVE  Has(CompactHits, k)
  <2>1. k \in 1..served
    BY <1>4, GuardType, InputFacts DEF IsReceived, Index
  <2>2. RelaxedHit(k)
    BY <1>1, <1>4, <2>1, RelaxedHitFacts
  <2>3. [index |-> k, note |-> Decrypted(k).note, memo |-> 0, is_sent |-> FALSE]
          \in CompactHits
    BY <2>1, <2>2 DEF CompactHits
  <2>4. QED
    BY <2>3 DEF Has
<1>5. \A k \in Index : IsReceived(k)' <=> IsReceived(k)
  BY <1>1 DEF IsReceived, Opens
<1>6. HitTypes'
  BY <1>1, <1>2, <1>3, GuardType DEF HitTypes
<1>7. HitsInv'
  <2>1. \A row \in outputs' : guard'[row.index]
    BY <1>1, OrdinaryRowFacts
  <2>2. \A k \in Index : Has(relaxed, k)' <=> ~guard'[k] /\ IsReceived(k)'
    BY <1>1, <1>3, <1>4, <1>5 DEF Has
  <2>3. QED
    BY <1>1, <1>3, <2>1, <2>2 DEF HitsInv, NameNotesSurfaced
<1>8. QED
  BY <1>2, <1>6, <1>7 DEF RelaxedInv

LEMMA PutFacts ==
    ASSUME NEW hits, NEW new, NEW k
    PROVE  /\ Has(Put(hits, new), k) <=> Has(hits, k) \/ Has(new, k)
           /\ \A hit \in Put(hits, new) :
                hit \in new \/ (hit \in hits /\ ~Has(new, hit.index))
BY DEF Has, Put

LEMMA RelaxedEnrichStep ==
    ASSUME RelaxedInv, RelaxedEnrich
    PROVE  RelaxedInv'
<1>1. /\ pc = "full" /\ at = 1
      /\ outputs' = {WithGuardedMemo(row) : row \in outputs}
      /\ relaxed' = Put(relaxed, FullHits)
      /\ pc' = (IF HasOutgoingKey THEN "recover" ELSE "kept")
      /\ UNCHANGED <<keys, output, served, mined, watched, guard, at, indices>>
      /\ \A row \in outputs : guard[row.index]
      /\ \A k \in Index : Has(relaxed, k) <=> ~guard[k] /\ IsReceived(k)
      /\ \A hit \in relaxed : hit.note = hit.index /\ hit.memo = 0 /\ ~hit.is_sent
  BY DEF RelaxedEnrich, RelaxedInv, HitsInv, input
<1>2. \A row \in outputs : /\ WithGuardedMemo(row) \in Row
                           /\ WithGuardedMemo(row).index = row.index
  BY GuardType DEF WithGuardedMemo, Row
<1>3. TypeOK' /\ IndexInv'
  <2>1. outputs' \subseteq Row
    BY <1>1, <1>2
  <2>2. TypeOK'
    BY <1>1, <2>1, GuardType DEF TypeOK
  <2>3. QED
    BY <1>1, <2>2, GuardType DEF IndexInv
<1>4. \A k \in Index :
        /\ IsReceived(k)' <=> IsReceived(k)
        /\ Opens(k)' <=> Opens(k)
        /\ Recovers(k)' <=> Recovers(k)
  BY <1>1 DEF IsReceived, Opens, Recovers
<1>5. ASSUME NEW hit \in FullHits
      PROVE  /\ hit \in Hit /\ hit.index \in Index /\ hit.index <= mined
             /\ hit.note = hit.index /\ hit.memo = hit.index /\ ~hit.is_sent
             /\ Opens(hit.index) /\ ~guard[hit.index]
  <2>1. PICK k \in 1..mined : Opens(k) /\ ~guard[k] /\ hit = FoundHit(k, FALSE)
    BY <1>5 DEF FullHits
  <2>2. k \in Index /\ k <= mined
    BY GuardType, InputFacts DEF Index
  <2>3. QED
    BY <2>1, <2>2 DEF FoundHit, Hit
<1>6. ASSUME NEW k \in Index
      PROVE  Has(FullHits, k) <=> k <= mined /\ Opens(k) /\ ~guard[k]
  <2>1. Has(FullHits, k) => k <= mined /\ Opens(k) /\ ~guard[k]
    BY <1>5 DEF Has
  <2>2. ASSUME k <= mined, Opens(k), ~guard[k]
        PROVE  Has(FullHits, k)
    <3>1. k \in 1..mined
      BY <2>2, GuardType, InputFacts DEF Index
    <3>2. FoundHit(k, FALSE) \in FullHits /\ FoundHit(k, FALSE).index = k
      BY <2>2, <3>1 DEF FullHits, FoundHit
    <3>3. QED
      BY <3>2 DEF Has
  <2>3. QED
    BY <2>1, <2>2
<1>7. ASSUME NEW k \in Index
      PROVE  Has(relaxed, k)' <=>
                 ~guard[k] /\ (IsReceived(k) \/ (k <= mined /\ Opens(k)))
  BY <1>1, <1>6, PutFacts
<1>8. ASSUME NEW hit \in relaxed'
      PROVE  /\ hit \in Hit /\ hit.index \in Index
             /\ hit.note = hit.index /\ ~hit.is_sent
             /\ hit.memo = IF hit.index <= mined THEN hit.index ELSE 0
  <2>1. CASE hit \in FullHits
    BY <1>5, <2>1
  <2>2. CASE hit \in relaxed /\ ~Has(FullHits, hit.index)
    <3>1. hit \in Hit /\ hit.index \in Index
      BY <2>2, GuardType
    <3>2. ~guard[hit.index] /\ IsReceived(hit.index)
      BY <1>1, <2>2, <3>1 DEF Has
    <3>3. ~(hit.index <= mined)
      BY <1>6, <2>2, <3>1, <3>2 DEF IsReceived
    <3>4. QED
      BY <1>1, <2>2, <3>1, <3>3
  <2>3. QED
    BY <1>1, <1>8, <2>1, <2>2, PutFacts
<1>9. HitTypes'
  BY <1>1, <1>3, <1>8, GuardType DEF HitTypes
<1>10. HitsInv'
  <2>1. \A row \in outputs' : guard'[row.index]
    BY <1>1, <1>2
  <2>2. \A k \in Index : ~(k < 1)
    BY GuardType, InputFacts DEF Index
  <2>3. CASE HasOutgoingKey
    <3>1. \A k \in Index :
            Has(relaxed, k)' <=>
              /\ ~guard'[k]
              /\ \/ IsReceived(k)'
                 \/ k <= mined' /\ (Opens(k)' \/ (k < at' /\ Recovers(k)'))
      BY <1>1, <1>4, <1>7, <2>2
    <3>2. \A hit \in relaxed' :
            hit.is_sent <=> hit.index < at' /\ hit.index <= mined' /\ Recovers(hit.index)'
      BY <1>1, <1>8, <2>2
    <3>3. QED
      BY <1>1, <1>8, <2>1, <2>3, <3>1, <3>2 DEF HitsInv, NameNotesSurfaced
  <2>4. CASE ~HasOutgoingKey
    <3>1. \A k \in Index : ~Recovers(k)
      BY <2>4 DEF HasOutgoingKey, Recovers
    <3>2. \A k \in Index : Has(relaxed, k)' <=> IsName(k)'
      BY <1>1, <1>4, <1>7, <3>1 DEF IsName, IsReceived, Opens
    <3>3. NameNotesSurfaced'
      BY <1>1, <1>4, <1>8, <3>1, <3>2 DEF NameNotesSurfaced
    <3>4. QED
      BY <1>1, <2>1, <2>4, <3>3 DEF HitsInv
  <2>5. QED
    BY <2>3, <2>4
<1>11. QED
  BY <1>3, <1>9, <1>10 DEF RelaxedInv

LEMMA RelaxedRecoverStep ==
    ASSUME RelaxedInv, RelaxedRecover
    PROVE  RelaxedInv'
<1>1. /\ pc = "recover" /\ at <= mined
      /\ outputs' = (IF Eligible(at) /\ guard[at]
                     THEN outputs \cup {SentRow(at)} ELSE outputs)
      /\ relaxed' = (IF Eligible(at) /\ ~guard[at]
                     THEN Put(relaxed, {FoundHit(at, TRUE)}) ELSE relaxed)
      /\ at' = at + 1
      /\ UNCHANGED <<keys, output, served, mined, watched, guard, pc, indices>>
      /\ \A row \in outputs : guard[row.index]
      /\ \A k \in Index :
            Has(relaxed, k) <=>
              /\ ~guard[k]
              /\ \/ IsReceived(k)
                 \/ k <= mined /\ (Opens(k) \/ (k < at /\ Recovers(k)))
      /\ \A hit \in relaxed :
            /\ hit.note = hit.index
            /\ hit.memo = IF hit.index <= mined THEN hit.index ELSE 0
            /\ hit.is_sent <=>
                 hit.index < at /\ hit.index <= mined /\ Recovers(hit.index)
  BY DEF RelaxedRecover, RelaxedInv, HitsInv, input
<1>2. at \in Index /\ at \in Nat /\ mined \in Nat
  BY <1>1, GuardType, InputFacts DEF TypeOK, Index
<1>3. \A k \in Index : k < at' <=> k < at \/ k = at
  BY <1>1, <1>2, GuardType, InputFacts DEF Index
<1>4. Recovers(at) => SentRow(at) \in Row /\ SentRow(at).index = at
  BY <1>2, GuardType, InputFacts, KeyFacts DEF SentRow, Row, TypeOK
<1>5. TypeOK' /\ IndexInv'
  <2>1. outputs' \subseteq Row
    BY <1>1, <1>4, GuardType DEF Eligible
  <2>2. at' \in 1..(mined + 1)
    BY <1>1, <1>2 DEF Index
  <2>3. TypeOK'
    BY <1>1, <2>1, <2>2, GuardType DEF TypeOK
  <2>4. QED
    BY <1>1, <2>3, GuardType DEF IndexInv
<1>6. \A row \in outputs' : guard'[row.index]
  BY <1>1, <1>4 DEF Eligible
<1>7. ~guard[at] => (Eligible(at) <=> Recovers(at))
  BY <1>1 DEF Eligible, Has
<1>8. /\ FoundHit(at, TRUE) \in Hit
      /\ FoundHit(at, TRUE).index = at /\ FoundHit(at, TRUE).note = at
      /\ FoundHit(at, TRUE).memo = at /\ FoundHit(at, TRUE).is_sent
  BY <1>2 DEF FoundHit, Hit
<1>9. \A k \in Index : Has({FoundHit(at, TRUE)}, k) <=> k = at
  BY <1>8 DEF Has
<1>10. \A k \in Index :
          /\ IsReceived(k)' <=> IsReceived(k)
          /\ Opens(k)' <=> Opens(k)
          /\ Recovers(k)' <=> Recovers(k)
  BY <1>1 DEF IsReceived, Opens, Recovers
<1>11. ASSUME NEW k \in Index
       PROVE  Has(relaxed, k)' <=>
                /\ ~guard'[k]
                /\ \/ IsReceived(k)'
                   \/ k <= mined' /\ (Opens(k)' \/ (k < at' /\ Recovers(k)'))
  <2>1. Has(relaxed, k)' <=> Has(relaxed, k) \/ (k = at /\ ~guard[at] /\ Recovers(at))
    BY <1>1, <1>7, <1>9, PutFacts
  <2>2. QED
    BY <1>1, <1>3, <1>10, <2>1
<1>12. ASSUME NEW hit \in relaxed'
       PROVE  /\ hit \in Hit /\ hit.note = hit.index
              /\ hit.memo = IF hit.index <= mined THEN hit.index ELSE 0
              /\ hit.is_sent <=>
                   hit.index < at' /\ hit.index <= mined /\ Recovers(hit.index)
  <2>1. CASE hit = FoundHit(at, TRUE) /\ Eligible(at)
    BY <1>1, <1>2, <1>3, <1>8, <2>1 DEF Eligible
  <2>2. CASE hit \in relaxed /\ (hit.index = at => guard[at] \/ ~Recovers(at))
    <3>1. hit.index \in Index /\ ~guard[hit.index] /\ hit \in Hit
      BY <1>1, <2>2, GuardType DEF Has
    <3>2. hit.index = at => ~Recovers(hit.index)
      BY <2>2, <3>1
    <3>3. QED
      BY <1>1, <1>3, <2>2, <3>1, <3>2
  <2>3. CASE Eligible(at) /\ ~guard[at]
    <3>1. hit = FoundHit(at, TRUE) \/ (hit \in relaxed /\ ~Has({FoundHit(at, TRUE)}, hit.index))
      BY <1>1, <1>12, <2>3, PutFacts
    <3>2. QED
      BY <1>9, <2>1, <2>2, <2>3, <3>1, GuardType
  <2>4. CASE ~(Eligible(at) /\ ~guard[at])
    BY <1>1, <1>7, <1>12, <2>2, <2>4
  <2>5. QED
    BY <2>3, <2>4
<1>13. HitTypes'
  BY <1>1, <1>5, <1>12, GuardType DEF HitTypes
<1>14. HitsInv'
  <2>1. \A hit \in relaxed' : hit.index \in Index
    BY <1>12 DEF Hit
  <2>2. QED
    BY <1>1, <1>6, <1>10, <1>11, <1>12, <2>1 DEF HitsInv, NameNotesSurfaced
<1>15. QED
  BY <1>5, <1>13, <1>14 DEF RelaxedInv

LEMMA RelaxedReturnStep ==
    ASSUME RelaxedInv, RelaxedReturn
    PROVE  RelaxedInv'
<1>1. /\ pc = "recover" /\ at > mined /\ pc' = "kept"
      /\ UNCHANGED <<keys, output, served, mined, watched, at, indices, outputs,
                     guard, relaxed>>
  BY DEF RelaxedReturn, Return, input
<1>2. \A k \in Index : k <= mined => k < at
  BY <1>1, GuardType, InputFacts DEF TypeOK, Index
<1>3. \A k \in Index : Has(relaxed, k) <=> IsName(k)
  BY <1>1, <1>2 DEF RelaxedInv, HitsInv, IsName, IsReceived
<1>4. \A hit \in relaxed :
        /\ hit.note = hit.index
        /\ hit.memo = IF hit.index <= mined THEN hit.index ELSE 0
        /\ hit.is_sent <=> hit.index <= mined /\ Recovers(hit.index)
  BY <1>1, <1>2, GuardType DEF RelaxedInv, HitsInv
<1>5. NameNotesSurfaced'
  BY <1>1, <1>3, <1>4 DEF NameNotesSurfaced, IsName, Has, Opens, Recovers
<1>6. HitsInv'
  BY <1>1, <1>5 DEF RelaxedInv, HitsInv
<1>7. HitTypes' /\ IndexInv'
  BY <1>1 DEF RelaxedInv, HitTypes, TypeOK, IndexInv
<1>8. QED
  BY <1>6, <1>7 DEF RelaxedInv

LEMMA RelaxedStep ==
    ASSUME RelaxedInv, [RelaxedNext]_relaxedVars
    PROVE  RelaxedInv'
<1>1. CASE UNCHANGED relaxedVars
  BY <1>1 DEF relaxedVars, vars, input, RelaxedInv, HitTypes, TypeOK, IndexInv,
              HitsInv, NameNotesSurfaced, IsName, IsReceived, Has, Opens, Recovers
<1>2. CASE RelaxedParse
  <2>1. /\ TypeOK' /\ IndexInv' /\ pc' = "compact"
        /\ UNCHANGED <<outputs, guard, relaxed>>
    BY <1>2, ParseStep, GuardType DEF RelaxedParse, ParseCompact
  <2>2. HitsInv' /\ HitTypes'
    BY <1>2, <2>1 DEF RelaxedParse, ParseCompact, RelaxedInv, HitsInv,
                      NameNotesSurfaced, HitTypes
  <2>3. QED
    BY <2>1, <2>2 DEF RelaxedInv
<1>3. QED
  BY <1>1, <1>2, RelaxedScanStep, RelaxedEnrichStep, RelaxedRecoverStep,
     RelaxedReturnStep DEF RelaxedNext

LEMMA RelaxedStart == RelaxedInit => RelaxedInv
<1> SUFFICES ASSUME RelaxedInit PROVE RelaxedInv
  OBVIOUS
<1>1. DecryptInv
  BY DecryptInit DEF RelaxedInit
<1>2. QED
  BY <1>1 DEF RelaxedInit, Init, DecryptInv, RelaxedInv, HitTypes, HitsInv,
              NameNotesSurfaced

\* The invariant behind NameNotesComplete and OrdinaryBuildKept.
THEOREM RelaxedInvariant == RelaxedSpec => []RelaxedInv
BY RelaxedStart, RelaxedStep, PTL DEF RelaxedSpec

\* A hit on the list, after every pass, names an output that the compact or the full
\* transaction has; a memo or the mark of a sent note is of the full one.
THEOREM RelaxedTypes == RelaxedSpec => []RelaxedTypeOK
<1>1. ASSUME RelaxedInv, NEW hit \in relaxed
      PROVE  /\ hit.index <= served \/ hit.index <= mined
             /\ hit.memo # 0 \/ hit.is_sent => hit.index <= mined
  <2>1. hit.index \in Index /\ Has(relaxed, hit.index)
    BY <1>1, GuardType DEF Has
  <2>2. CASE pc = "full"
    BY <1>1, <2>1, <2>2 DEF RelaxedInv, HitsInv, IsReceived
  <2>3. CASE pc = "recover"
    <3>1. /\ hit.index <= served \/ hit.index <= mined
          /\ hit.memo = IF hit.index <= mined THEN hit.index ELSE 0
          /\ hit.is_sent => hit.index <= mined
      BY <1>1, <2>1, <2>3 DEF RelaxedInv, HitsInv, IsReceived
    <3>2. QED
      BY <3>1
  <2>4. CASE pc = "kept"
    <3>1. /\ IsName(hit.index)
          /\ hit.memo = IF hit.index <= mined THEN hit.index ELSE 0
          /\ hit.is_sent => hit.index <= mined
      BY <1>1, <2>1, <2>4 DEF RelaxedInv, HitsInv, NameNotesSurfaced
    <3>2. QED
      BY <3>1 DEF IsName
  <2>5. pc \in {"full", "recover", "kept"}
    BY <1>1 DEF RelaxedInv, HitTypes, TypeOK, HitsInv
  <2>6. QED
    BY <2>2, <2>3, <2>4, <2>5
<1>2. RelaxedInv => RelaxedTypeOK
  BY <1>1 DEF RelaxedInv, RelaxedTypeOK
<1>3. QED
  BY <1>2, RelaxedInvariant, PTL

\* Every Ironwood note that rseed_guard rejects, found by an incoming key in the
\* compact or the full transaction or by an outgoing key, is on the caller's
\* list once, as sent exactly if an outgoing key confirmed it.
THEOREM NameNotesComplete == RelaxedSpec => []NameNotesSurfaced
<1>1. RelaxedInv => NameNotesSurfaced
  BY DEF RelaxedInv, HitsInv
<1>2. QED
  BY <1>1, RelaxedInvariant, PTL
-----------------------------------------------------------------------------
(* The build with zns-decrypt implements the one without. *)

\* To the other build a note that does not pass is one that no key opens.
LEMMA ClosedToOrdinary ==
    ASSUME RelaxedInv, NEW k \in Index
    PROVE  /\ OrdinaryOutput[k].parses = output[k].parses
           /\ Ordinary!Opens(k) <=> Opens(k) /\ guard[k]
           /\ Ordinary!Recovers(k) <=> Recovers(k) /\ guard[k]
           /\ guard[k] => OrdinaryOutput[k] = output[k]
<1>1. output[k] \in Output /\ keys \in KeyRing /\ guard[k] \in BOOLEAN
  BY GuardType DEF TypeOK
<1>2. 0 \notin DOMAIN keys
  BY <1>1, KeyFacts
<1>3. OrdinaryOutput[k] =
        IF guard[k] THEN output[k] ELSE [output[k] EXCEPT !.ivk = 0, !.ovk = 0]
  BY DEF OrdinaryOutput
<1>4. CASE guard[k]
  BY <1>3, <1>4 DEF Ordinary!Opens, Ordinary!Recovers, Opens, Recovers
<1>5. CASE ~guard[k]
  <2>1. /\ OrdinaryOutput[k].parses = output[k].parses
        /\ OrdinaryOutput[k].ivk = 0 /\ OrdinaryOutput[k].ovk = 0
    BY <1>1, <1>3, <1>5 DEF Output
  <2>2. QED
    BY <1>2, <1>5, <2>1 DEF Ordinary!Opens, Ordinary!Recovers
<1>6. QED
  BY <1>4, <1>5

LEMMA OrdinaryInput ==
    ASSUME UNCHANGED <<input, guard>>
    PROVE  UNCHANGED Ordinary!input
<1>1. UNCHANGED <<keys, output, served, mined, watched, guard>>
  BY DEF input
<1>2. OrdinaryOutput' = OrdinaryOutput
  BY <1>1 DEF OrdinaryOutput
<1>3. (watched \/ NameServed)' = (watched \/ NameServed)
  BY <1>1 DEF NameServed, Opens
<1>4. QED
  BY <1>1, <1>2, <1>3 DEF Ordinary!input

LEMMA ClosedOutput ==
    ASSUME NEW o \in Output
    PROVE  [o EXCEPT !.ivk = 0, !.ovk = 0] \in Output
<1>1. [o EXCEPT !.ivk = 0] \in Output
  BY DEF Output
<1>2. ASSUME NEW p \in Output
      PROVE  [p EXCEPT !.ovk = 0] \in Output
  BY <1>2 DEF Output
<1>3. QED
  BY <1>1, <1>2

LEMMA OrdinaryStart ==
    ASSUME RelaxedInit
    PROVE  Ordinary!Init
<1>1. Init /\ RelaxedInv /\ keys \in KeyRing
  BY RelaxedStart DEF RelaxedInit, Init
<1>2. OrdinaryOutput \in [Index -> Output]
  <2>1. ASSUME NEW k \in Index
        PROVE  (IF guard[k] THEN output[k]
                ELSE [output[k] EXCEPT !.ivk = 0, !.ovk = 0]) \in Output
    <3>1. output[k] \in Output
      BY <1>1 DEF Init
    <3>2. QED
      BY <3>1, ClosedOutput
  <2>2. QED
    BY <2>1 DEF OrdinaryOutput
<1>3. (watched \/ NameServed) \in BOOLEAN
  OBVIOUS
<1>4. Ordinary!KeyRing = KeyRing /\ Ordinary!Index = Index /\ Ordinary!Output = Output
  BY DEF Ordinary!KeyRing, KeyRing, Ordinary!Ufvk, Ufvk, Ordinary!Uivk, Uivk,
         Ordinary!Index, Index, Ordinary!Output, Output
<1>5. QED
  BY <1>1, <1>2, <1>3, <1>4 DEF Ordinary!Init, Init

LEMMA OrdinaryScan ==
    ASSUME RelaxedInv, RelaxedScanCompact
    PROVE  Ordinary!ScanCompact
<1>1. pc = "compact" /\ at > served /\ TypeOK /\ IndexInv
  BY GuardType DEF RelaxedScanCompact
<1>2. ASSUME NEW k \in 1..served
      PROVE  /\ k \in Index /\ k <= served
             /\ Ordinary!Decrypted(k) =
                  IF IsReceived(k) /\ guard[k]
                  THEN [note |-> k, key |-> output[k].ivk] ELSE Nothing
             /\ IsReceived(k) => Decrypted(k) = [note |-> k, key |-> output[k].ivk]
             /\ [note |-> k, key |-> output[k].ivk] # Nothing \/ ~Opens(k)
  <2>1. k \in Index /\ k <= served
    BY <1>1, InputFacts DEF Index
  <2>2. at = served + 1
    BY <1>1, InputFacts DEF TypeOK
  <2>3. \A j \in DOMAIN indices : indices[j] = k => output[k].parses
    BY <1>1 DEF IndexInv
  <2>4. output[k].parses => \E j \in DOMAIN indices : indices[j] = k
    BY <1>1, <2>2, InputFacts DEF IndexInv
  <2>5. Ordinary!Placed(k) = IF output[k].parses THEN Ordinary!Raw(k) ELSE Nothing
    BY <2>3, <2>4 DEF Ordinary!Placed
  <2>6. Ordinary!Raw(k) = IF Opens(k) /\ guard[k]
                          THEN [note |-> k, key |-> output[k].ivk] ELSE Nothing
    BY <2>1, ClosedToOrdinary DEF Ordinary!Raw
  <2>7. keys = <<>> => ~Opens(k)
    BY <1>1, KeyFacts DEF Opens, TypeOK
  <2>8. Ordinary!Decrypted(k) =
          IF IsReceived(k) /\ guard[k]
          THEN [note |-> k, key |-> output[k].ivk] ELSE Nothing
    BY <2>1, <2>5, <2>6, <2>7 DEF Ordinary!Decrypted, IsReceived
  <2>9. [note |-> k, key |-> output[k].ivk] # Nothing \/ ~Opens(k)
    BY <1>1, <2>1, InputFacts, NoneAssumption
  <2>10. QED
    BY <1>1, <2>1, <2>8, <2>9, DecryptedFacts
<1>3. ASSUME NEW k \in 1..served
      PROVE  /\ Ordinary!Decrypted(k) # Nothing
                  <=> Decrypted(k) # Nothing /\ ~RelaxedHit(k)
             /\ Ordinary!Decrypted(k) # Nothing
                  => Ordinary!ReceivedRow(k) = ReceivedRow(k)
  <2>1. Ordinary!Decrypted(k) # Nothing <=> IsReceived(k) /\ guard[k]
    BY <1>2 DEF IsReceived
  <2>2. IsReceived(k) /\ guard[k] => Ordinary!Decrypted(k) = Decrypted(k)
    BY <1>2
  <2>3. IsReceived(k) /\ guard[k] => Ordinary!ReceivedRow(k) = ReceivedRow(k)
    BY <2>2 DEF Ordinary!ReceivedRow, ReceivedRow
  <2>4. QED
    BY <1>1, <2>1, <2>3, RelaxedHitFacts
<1>4. Ordinary!ReceivedRows = OrdinaryRows
  BY <1>3 DEF Ordinary!ReceivedRows, OrdinaryRows
<1>5. CompactHits # {} <=> NameServed
  <2>1. CompactHits # {} <=> \E k \in 1..served : RelaxedHit(k)
    BY DEF CompactHits
  <2>2. \A k \in 1..served :
          RelaxedHit(k) <=> output[k].parses /\ Opens(k) /\ ~guard[k]
    BY <1>1, <1>2, RelaxedHitFacts DEF IsReceived
  <2>3. QED
    BY <2>1, <2>2 DEF NameServed
<1>6. UNCHANGED Ordinary!input
  BY OrdinaryInput DEF RelaxedScanCompact
<1>7. QED
  BY <1>4, <1>5, <1>6 DEF RelaxedScanCompact, Ordinary!ScanCompact

LEMMA OrdinaryFull ==
    ASSUME RelaxedInv, RelaxedEnrich
    PROVE  Ordinary!Enrich
<1>1. \A row \in outputs : Ordinary!WithMemo(row) = WithGuardedMemo(row)
  BY GuardType, ClosedToOrdinary DEF Ordinary!WithMemo, WithGuardedMemo
<1>2. {Ordinary!WithMemo(row) : row \in outputs} =
        {WithGuardedMemo(row) : row \in outputs}
  BY <1>1
<1>3. Ordinary!HasOutgoingKey <=> HasOutgoingKey
  BY DEF Ordinary!HasOutgoingKey, HasOutgoingKey
<1>4. UNCHANGED Ordinary!input
  BY OrdinaryInput DEF RelaxedEnrich
<1>5. QED
  BY <1>2, <1>3, <1>4 DEF RelaxedEnrich, Ordinary!Enrich

LEMMA OrdinaryRecovery ==
    ASSUME RelaxedInv, RelaxedRecover
    PROVE  Ordinary!Recover
<1>1. at \in Index
  BY GuardType, InputFacts DEF RelaxedRecover, TypeOK, Index
<1>2. Eligible(at) /\ guard[at] <=> ~Ordinary!Has(outputs, at) /\ Ordinary!Recovers(at)
  BY <1>1, ClosedToOrdinary DEF Eligible, Has, Ordinary!Has
<1>3. guard[at] => Ordinary!SentRow(at) = SentRow(at)
  BY <1>1, ClosedToOrdinary DEF Ordinary!SentRow, SentRow
<1>4. UNCHANGED Ordinary!input
  BY OrdinaryInput DEF RelaxedRecover
<1>5. outputs' = IF ~Ordinary!Has(outputs, at) /\ Ordinary!Recovers(at)
                 THEN outputs \cup {Ordinary!SentRow(at)} ELSE outputs
  BY <1>2, <1>3 DEF RelaxedRecover
<1>6. QED
  BY <1>4, <1>5 DEF RelaxedRecover, Ordinary!Recover

\* With the feature on, the rows of the notes that pass go through the very
\* steps of the build without it: to that build the others are notes that no
\* key opens, in a transaction that is kept anyway.
THEOREM OrdinaryBuildKept == RelaxedSpec => OrdinaryPath
<1>1. RelaxedInit => Ordinary!Init
  BY OrdinaryStart
<1>2. RelaxedInv /\ [RelaxedNext]_relaxedVars => [Ordinary!Next]_(Ordinary!vars)
  <2>1. SUFFICES ASSUME RelaxedInv, [RelaxedNext]_relaxedVars
                 PROVE  Ordinary!Next \/ UNCHANGED Ordinary!vars
    OBVIOUS
  <2>2. CASE RelaxedParse
    <3>1. at \in Index /\ pc = "compact"
      BY <2>1, <2>2, GuardType, InputFacts
         DEF RelaxedParse, ParseCompact, TypeOK, Index
    <3>2. OrdinaryOutput[at].parses = output[at].parses
      BY <2>1, <3>1, ClosedToOrdinary
    <3>3. UNCHANGED Ordinary!input
      BY <2>2, OrdinaryInput DEF RelaxedParse, ParseCompact
    <3>4. Ordinary!ParseCompact
      BY <2>2, <3>2, <3>3 DEF RelaxedParse, ParseCompact, Ordinary!ParseCompact
    <3>5. QED
      BY <3>4 DEF Ordinary!Next
  <2>3. CASE RelaxedScanCompact
    BY <2>1, <2>3, OrdinaryScan DEF Ordinary!Next
  <2>4. CASE RelaxedEnrich
    BY <2>1, <2>4, OrdinaryFull DEF Ordinary!Next
  <2>5. CASE RelaxedRecover
    BY <2>1, <2>5, OrdinaryRecovery DEF Ordinary!Next
  <2>6. CASE RelaxedReturn
    <3>1. UNCHANGED Ordinary!input
      BY <2>6, OrdinaryInput DEF RelaxedReturn, Return
    <3>2. Ordinary!Return
      BY <2>6, <3>1 DEF RelaxedReturn, Return, Ordinary!Return
    <3>3. QED
      BY <3>2 DEF Ordinary!Next
  <2>7. CASE UNCHANGED relaxedVars
    <3>1. UNCHANGED <<input, guard, pc, at, indices, outputs>>
      BY <2>7 DEF relaxedVars, vars
    <3>2. UNCHANGED Ordinary!input
      BY <3>1, OrdinaryInput
    <3>3. QED
      BY <3>1, <3>2 DEF Ordinary!vars
  <2>8. QED
    BY <2>1, <2>2, <2>3, <2>4, <2>5, <2>6, <2>7 DEF RelaxedNext
<1>3. QED
  BY <1>1, <1>2, RelaxedInvariant, PTL DEF RelaxedSpec, OrdinaryPath, Ordinary!Spec
=============================================================================
