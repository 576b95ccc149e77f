------------------------------ MODULE NameNotes ------------------------------
(***************************************************************************)
(* The Ironwood scan of the build with the feature `zns-decrypt`           *)
(* (decrypt_compact_ironwood_relaxed and the second enrich_ironwood of     *)
(* src/src/sync/decrypt.rs).  Its decryption also opens notes that do not  *)
(* produce their published commitment; rseed_guard sends those to a list   *)
(* of their own, unverified, and the others the ordinary way.              *)
(***************************************************************************)
EXTENDS Decryption

VARIABLES
    guard,   \* guard[k]: the note of output k passes rseed_guard
    relaxed  \* relaxed_ironwood_outputs

relaxedVars == <<vars, guard, relaxed>>

Hit == [index : Index, note : Index, memo : {0} \cup Index,
        is_sent : BOOLEAN]

RelaxedInit ==
    /\ Init
    /\ guard \in [Index -> BOOLEAN]
    /\ relaxed = {}

RelaxedParse == ParseCompact /\ UNCHANGED <<guard, relaxed>>

\* Compact output k opens, and its note does not pass.
RelaxedHit(k) == Decrypted(k) # Nothing /\ ~guard[Decrypted(k).note]

CompactHits ==
    {[index |-> k, note |-> Decrypted(k).note, memo |-> 0, is_sent |-> FALSE]
        : k \in {i \in 1..served : RelaxedHit(i)}}

OrdinaryRows ==
    {ReceivedRow(k)
        : k \in {i \in 1..served : Decrypted(i) # Nothing /\ ~RelaxedHit(i)}}

RelaxedScanCompact ==
    /\ pc = "compact" /\ at > served
    /\ outputs' = OrdinaryRows
    /\ relaxed' = CompactHits
    /\ pc' = IF OrdinaryRows # {} \/ CompactHits # {} \/ watched
             THEN "full" ELSE "dropped"
    /\ at' = 1
    /\ UNCHANGED <<input, guard, indices>>

\* A hit takes the place of the one with its index.
Put(hits, new) == {hit \in hits : ~Has(new, hit.index)} \cup new

FoundHit(k, is_sent) == [index |-> k, note |-> k, memo |-> k, is_sent |-> is_sent]

WithGuardedMemo(row) ==
    IF row.index <= mined /\ Opens(row.index) /\ guard[row.index]
    THEN [row EXCEPT !.memo = row.index] ELSE row

\* A slip: the hits are of the compact outputs.
FullHitsServed ==
    {FoundHit(k, FALSE) : k \in {i \in 1..served : Opens(i) /\ ~guard[i]}}

\* What the incoming keys find among the actions of the bundle.
FullHits ==
    {FoundHit(k, FALSE) : k \in {i \in 1..mined : Opens(i) /\ ~guard[i]}}

RelaxedEnrich ==
    /\ pc = "full"
    /\ outputs' = {WithGuardedMemo(row) : row \in outputs}
    /\ relaxed' = Put(relaxed, FullHits)
    /\ pc' = IF HasOutgoingKey THEN "recover" ELSE "kept"
    /\ UNCHANGED <<input, guard, at, indices>>

\* A slip: an action with a relaxed candidate is skipped as well.
EligibleOnce(k) ==
    ~Has(outputs, k) /\ ~Has(relaxed, k) /\ Recovers(k)

\* "Relaxed candidates remain eligible".
Eligible(k) == ~Has(outputs, k) /\ Recovers(k)

\* A slip: what an outgoing key recovers is a wallet output, whatever the guard.
RecoverUnguarded ==
    /\ pc = "recover" /\ at <= mined
    /\ outputs' = IF Eligible(at) THEN outputs \cup {SentRow(at)} ELSE outputs
    /\ at' = at + 1
    /\ UNCHANGED <<input, guard, pc, indices, relaxed>>

RelaxedRecover ==
    /\ pc = "recover" /\ at <= mined
    /\ outputs' = IF Eligible(at) /\ guard[at]
                  THEN outputs \cup {SentRow(at)} ELSE outputs
    /\ relaxed' = IF Eligible(at) /\ ~guard[at]
                  THEN Put(relaxed, {FoundHit(at, TRUE)}) ELSE relaxed
    /\ at' = at + 1
    /\ UNCHANGED <<input, guard, pc, indices>>

RelaxedReturn == Return /\ UNCHANGED <<guard, relaxed>>

RelaxedNext ==
    \/ RelaxedParse \/ RelaxedScanCompact \/ RelaxedEnrich
    \/ RelaxedRecover \/ RelaxedReturn

RelaxedSpec == RelaxedInit /\ [][RelaxedNext]_relaxedVars
-----------------------------------------------------------------------------
\* A name note is known from its compact form or from the full transaction.
IsName(k) ==
    /\ ~guard[k]
    /\ \/ k <= served /\ output[k].parses /\ Opens(k)
       \/ k <= mined /\ (Opens(k) \/ Recovers(k))

\* Every note that does not pass is surfaced once, with its own note and memo,
\* and "the later OVK confirmation wins for self-sends".
NameNotesSurfaced ==
    pc = "kept" =>
        /\ \A k \in Index : Has(relaxed, k) <=> IsName(k)
        /\ \A hit \in relaxed :
            /\ hit.note = hit.index
            /\ hit.memo = IF hit.index <= mined THEN hit.index ELSE 0
            /\ hit.is_sent <=> hit.index <= mined /\ Recovers(hit.index)

\* A compact output has a name note: the ordinary build would not keep the
\* transaction for it.
NameServed == \E k \in 1..served : output[k].parses /\ Opens(k) /\ ~guard[k]

\* To the ordinary build the notes that do not pass are as good as closed.
OrdinaryOutput == [k \in Index |->
    IF guard[k] THEN output[k] ELSE [output[k] EXCEPT !.ivk = 0, !.ovk = 0]]

Ordinary == INSTANCE Decryption WITH
    output <- OrdinaryOutput,
    watched <- (watched \/ NameServed)

\* The notes that pass take the ordinary path: the rows are, step by step,
\* those of the build without the feature, and no name note is among them.
OrdinaryPath == Ordinary!Spec

HitTypes == TypeOK /\ guard \in [Index -> BOOLEAN] /\ relaxed \subseteq Hit

\* The variables keep their types, after every pass: a hit names an output of the
\* compact or of the full transaction, and one with a memo or the mark of a sent
\* note names an output of the full transaction, where these are from.
RelaxedTypeOK ==
    /\ HitTypes
    /\ \A hit \in relaxed :
        /\ hit.index <= served \/ hit.index <= mined
        /\ hit.memo # 0 \/ hit.is_sent => hit.index <= mined

\* What makes them hold: where the hits stand after each pass.
HitsInv ==
    /\ \A row \in outputs : guard[row.index]
    /\ pc \in {"compact", "dropped"} => relaxed = {}
    /\ pc = "full" =>
        /\ at = 1
        /\ \A k \in Index : Has(relaxed, k) <=> ~guard[k] /\ IsReceived(k)
        /\ \A hit \in relaxed :
            hit.note = hit.index /\ hit.memo = 0 /\ ~hit.is_sent
    /\ pc = "recover" =>
        /\ \A k \in Index :
            Has(relaxed, k) <=>
                /\ ~guard[k]
                /\ \/ IsReceived(k)
                   \/ k <= mined /\ (Opens(k) \/ (k < at /\ Recovers(k)))
        /\ \A hit \in relaxed :
            /\ hit.note = hit.index
            /\ hit.memo = IF hit.index <= mined THEN hit.index ELSE 0
            /\ hit.is_sent <=>
                   hit.index < at /\ hit.index <= mined /\ Recovers(hit.index)
    /\ NameNotesSurfaced

RelaxedInv == HitTypes /\ IndexInv /\ HitsInv
=============================================================================
