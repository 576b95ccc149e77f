----------------------------- MODULE Decryption -----------------------------
(***************************************************************************)
(* What becomes of the outputs of one transaction in one pool              *)
(* (src/src/sync/decrypt.rs and `scan_block`, `scan` of scan.rs): trial    *)
(* decryption of the compact outputs, the decision to keep the             *)
(* transaction, the memos of the full transaction, and the recovery of     *)
(* sent outputs with the outgoing keys.                                    *)
(*                                                                         *)
(* An output is what the keys can do with it.  Encryption is authenticated:*)
(* at most one incoming and one outgoing key open an output, and it may be *)
(* both (a payment to oneself).  A compact output need not parse, and the  *)
(* server may send more or fewer of them than the transaction has.         *)
(***************************************************************************)
EXTENDS Integers, Sequences

CONSTANTS
    MaxOutputs,  \* bound: the outputs of the transaction
    Nothing      \* None of an Option

ASSUME BoundAssumption == MaxOutputs \in Nat

\* The keys of the pool: both scopes with nk and ovk from a UFVK, the external
\* ivk alone from a UIVK, none when the view key lacks the pool.
Ufvk == <<[scope |-> "external", full |-> TRUE], [scope |-> "internal", full |-> TRUE]>>
Uivk == <<[scope |-> "external", full |-> FALSE]>>
KeyRing == {Ufvk, Uivk, <<>>}

Index == 1..MaxOutputs

ASSUME NoneAssumption == Nothing \notin [note : Index, key : 1..2]

\* The number, in the order of Ufvk, of the key that opens it; 0 for none of it.
Output == [parses : BOOLEAN, ivk : 0..2, ovk : 0..2]

Row == [index : Index, note : Index, scope : {"external", "internal"},
        nf : BOOLEAN, memo : {0} \cup Index,
        is_sent : BOOLEAN, is_change : BOOLEAN]

VARIABLES
    keys,     \* ScanningKeys of the pool
    output,   \* output[k]: the k-th output
    served,   \* how many the compact transaction has
    mined,    \* how many the full transaction has
    watched,  \* the transaction is kept anyway: it reveals a watched nullifier, or
              \* pays the account in another pool
    pc,       \* "compact", "full", "recover", "kept" or "dropped"
    at,       \* the output the loop at hand is at
    indices,  \* the compact outputs that parsed, next to `pairs`
    outputs   \* the rows: note and memo are the outputs they are taken from

input == <<keys, output, served, mined, watched>>
vars == <<input, pc, at, indices, outputs>>

Init ==
    /\ keys \in KeyRing
    /\ output \in [Index -> Output]
    /\ served \in 0..MaxOutputs /\ mined \in 0..MaxOutputs
    /\ watched \in BOOLEAN
    /\ pc = "compact"
    /\ at = 1
    /\ indices = <<>>
    /\ outputs = {}

Opens(k) == output[k].ivk \in DOMAIN keys
Recovers(k) == \E j \in DOMAIN keys : keys[j].full /\ output[k].ovk = j
-----------------------------------------------------------------------------
(* Compact outputs. *)

\* The outputs that do not parse are left out of `pairs`.
ParseCompact ==
    /\ pc = "compact" /\ at <= served
    /\ indices' = IF output[at].parses THEN Append(indices, at) ELSE indices
    /\ at' = at + 1
    /\ UNCHANGED <<input, pc, outputs>>

\* try_compact_note_decryption: the note and the number of the key.
Raw(k) == IF Opens(k) THEN [note |-> k, key |-> output[k].ivk] ELSE Nothing

\* A slip: the results are taken in order, as if every output had parsed.
PlacedInOrder(k) ==
    IF k \in DOMAIN indices THEN Raw(indices[k]) ELSE Nothing

\* results[idx] = result, for each index with its result.
Placed(k) ==
    IF \E j \in DOMAIN indices : indices[j] = k
    THEN Raw(indices[CHOOSE j \in DOMAIN indices : indices[j] = k])
    ELSE Nothing

Decrypted(k) == IF keys = <<>> THEN Nothing ELSE Placed(k)

ReceivedRow(k) ==
    LET result == Decrypted(k)
        key == keys[result.key]
    IN  [index |-> k, note |-> result.note, scope |-> key.scope, nf |-> key.full,
         memo |-> 0, is_sent |-> FALSE, is_change |-> (key.scope = "internal")]

ReceivedRows == {ReceivedRow(k) : k \in {i \in 1..served : Decrypted(i) # Nothing}}

\* scan_block: a transaction with no note here and nothing else is dropped.
ScanCompact ==
    /\ pc = "compact" /\ at > served
    /\ outputs' = ReceivedRows
    /\ pc' = IF ReceivedRows # {} \/ watched THEN "full" ELSE "dropped"
    /\ at' = 1
    /\ UNCHANGED <<input, indices>>
-----------------------------------------------------------------------------
(* The full transaction. *)

\* The received rows get the memos; a row beyond the bundle keeps none.
WithMemo(row) ==
    IF row.index <= mined /\ Opens(row.index)
    THEN [row EXCEPT !.memo = row.index] ELSE row

HasOutgoingKey == \E j \in DOMAIN keys : keys[j].full

Enrich ==
    /\ pc = "full"
    /\ outputs' = {WithMemo(row) : row \in outputs}
    /\ pc' = IF HasOutgoingKey THEN "recover" ELSE "kept"
    /\ UNCHANGED <<input, at, indices>>

Has(rows, k) == \E row \in rows : row.index = k

SentRow(k) ==
    [index |-> k, note |-> k, scope |-> keys[output[k].ovk].scope, nf |-> FALSE,
     memo |-> k, is_sent |-> TRUE, is_change |-> FALSE]

\* A slip: the outputs that were received are recovered too.
RecoverAny ==
    /\ pc = "recover" /\ at <= mined
    /\ outputs' = IF Recovers(at) THEN outputs \cup {SentRow(at)} ELSE outputs
    /\ at' = at + 1
    /\ UNCHANGED <<input, pc, indices>>

\* A slip: the loop goes over the compact outputs.
RecoverServed ==
    /\ pc = "recover" /\ at <= served
    /\ outputs' = IF ~Has(outputs, at) /\ Recovers(at)
                  THEN outputs \cup {SentRow(at)} ELSE outputs
    /\ at' = at + 1
    /\ UNCHANGED <<input, pc, indices>>

\* One turn of the recovery loop.
Recover ==
    /\ pc = "recover" /\ at <= mined
    /\ outputs' = IF ~Has(outputs, at) /\ Recovers(at)
                  THEN outputs \cup {SentRow(at)} ELSE outputs
    /\ at' = at + 1
    /\ UNCHANGED <<input, pc, indices>>

Return ==
    /\ pc = "recover" /\ at > mined
    /\ pc' = "kept"
    /\ UNCHANGED <<input, at, indices, outputs>>

Next == ParseCompact \/ ScanCompact \/ Enrich \/ Recover \/ Return

Spec == Init /\ [][Next]_vars
-----------------------------------------------------------------------------
\* What the keys say of output k, said without the passes: received if the
\* compact output opens, sent if it does not and the full one can be recovered.
IsReceived(k) == k <= served /\ output[k].parses /\ Opens(k)
IsSent(k) == k <= mined /\ ~IsReceived(k) /\ Recovers(k)

RowIs(row, k) ==
    /\ row.index = k /\ row.note = k
    /\ row.memo = IF k <= mined THEN k ELSE 0
    /\ row.is_sent <=> IsSent(k)
    /\ row.scope = keys[IF IsSent(k) THEN output[k].ovk ELSE output[k].ivk].scope
    /\ row.nf <=> ~IsSent(k) /\ keys = Ufvk
    /\ row.is_change <=> ~IsSent(k) /\ row.scope = "internal"

\* The rows handed to the store are one for every output the keys know, each
\* with its own note and memo whatever failed to parse before it, as received
\* or as sent: never both, so that INSERT OR IGNORE has nothing to choose.
RowsMatchKeys ==
    pc = "kept" =>
        /\ \A k \in Index : Has(outputs, k) <=> IsReceived(k) \/ IsSent(k)
        /\ \A row \in outputs : RowIs(row, row.index)

\* An output that is ours is never stored as one we sent away, where `balance`
\* would miss it: not even a payment to ourselves, which both keys open, as
\* long as the server sends the compact outputs as they are.
OwnNeverSent ==
    (served = mined /\ \A k \in 1..mined : output[k].parses) =>
        \A row \in outputs : row.is_sent => ~Opens(row.index)

\* The variables keep their types; the loops stay within the outputs of the
\* transaction they go over.
TypeOK ==
    /\ keys \in KeyRing
    /\ output \in [Index -> Output]
    /\ served \in 0..MaxOutputs /\ mined \in 0..MaxOutputs
    /\ watched \in BOOLEAN
    /\ pc \in {"compact", "full", "recover", "kept", "dropped"}
    /\ at \in 1..((IF pc = "compact" THEN served ELSE mined) + 1)
    /\ indices \in Seq(1..served)
    /\ outputs \subseteq Row
\* What makes them hold: every compact output so far that parses is in
\* `indices`, and what each pass has left for the next one.
IndexInv ==
    /\ \A j \in DOMAIN indices : output[indices[j]].parses
    /\ pc = "compact" =>
        /\ outputs = {}
        /\ \A k \in 1..(at - 1) : output[k].parses =>
              \E j \in DOMAIN indices : indices[j] = k

MemoTo(row) == [row EXCEPT !.memo = IF row.index <= mined THEN row.index ELSE 0]

RowsInv ==
    /\ pc = "full" =>
        /\ at = 1
        /\ \A k \in Index : Has(outputs, k) <=> IsReceived(k)
        /\ \A row \in outputs : row.memo = 0 /\ RowIs(MemoTo(row), row.index)
    /\ pc = "recover" =>
        /\ \A k \in Index : Has(outputs, k) <=> IsReceived(k) \/ (k < at /\ IsSent(k))
        /\ \A row \in outputs : RowIs(row, row.index)
    /\ pc = "dropped" => outputs = {}
    /\ RowsMatchKeys

DecryptInv == TypeOK /\ IndexInv /\ RowsInv
=============================================================================
