------------------------------- MODULE Blocks -------------------------------
(***************************************************************************)
(* Blocks, transactions and notes, as the compact-block protocol lets the  *)
(* client see them, and what consensus says of a chain of blocks.  Neither *)
(* is part of the repository.                                              *)
(*                                                                         *)
(* A block carries transactions and a salt (what else its header commits   *)
(* to).  A hash commits to the block and, through prev_hash, to all of its *)
(* ancestors, so the hash of the block at height h is modelled as the      *)
(* sequence of the h blocks that end with it: equal hashes are equal       *)
(* histories, the height is the length, and prev_hash is the sequence      *)
(* without its last block.  A Cursor (height and hash) is that sequence.   *)
(***************************************************************************)
EXTENDS Integers, FiniteSets, Sequences

CONSTANTS
    Salt,        \* tells apart blocks with the same transactions
    Tx,          \* the transactions that concern the account
    Note,        \* the shielded notes the keys can see
    Owned,       \* notes received with an incoming key; the others are sent notes
    Watchable,   \* owned notes whose nullifier the keys can derive
    Outputs,     \* Outputs[t]: the visible notes transaction t creates
    Spends       \* Spends[t]: the owned notes whose nullifiers t reveals

ASSUME NoteAssumption ==
    /\ Owned \subseteq Note
    /\ Watchable \subseteq Owned

ASSUME TxAssumption ==
    /\ Outputs \in [Tx -> SUBSET Note]
    /\ Spends \in [Tx -> SUBSET Owned]
    /\ \A t, s \in Tx : t # s => Outputs[t] \cap Outputs[s] = {}

\* A txid has 32 bytes and an output index 32 bits.
ASSUME FiniteAssumption == IsFiniteSet(Tx) /\ IsFiniteSet(Note)

Block == [salt : Salt, txs : SUBSET Tx]

\* The hash of a streamed block: a history with at least that block.
BlockHash == Seq(Block) \ {<<>>}

\* The hash of the block of height k on the chain c.
Prefix(c, k) == SubSeq(c, 1, k)

\* The last block of the history a hash commits to, and its prev_hash field.
Tip(c) == c[Len(c)]
PrevHash(c) == Prefix(c, Len(c) - 1)

\* The block of hash c is an ancestor of the block of hash e, or that block.
Extends(e, c) == Len(c) <= Len(e) /\ \A k \in 1..Len(c) : e[k] = c[k]

TxsIn(c) == UNION {c[h].txs : h \in 1..Len(c)}
CreatedIn(c) == UNION {Outputs[t] : t \in TxsIn(c)}
SpentIn(c) == UNION {Spends[t] : t \in TxsIn(c)}

(***************************************************************************)
(* Consensus: a transaction is mined once; a shielded spend proves         *)
(* membership in the tree of an earlier block, so the note it spends was   *)
(* created in an earlier block; a nullifier is revealed once.              *)
(***************************************************************************)
CanExtend(c, b) ==
    /\ b.txs \cap TxsIn(c) = {}
    /\ \A t \in b.txs : Spends[t] \subseteq CreatedIn(c) \ SpentIn(c)
    /\ \A t, s \in b.txs : t # s => Spends[t] \cap Spends[s] = {}

\* A transaction is in one block of c, and a note is spent by one of them.
MinedOnce(c) ==
    \A h, g \in 1..Len(c) : \A t \in c[h].txs, s \in c[g].txs :
        /\ t = s => h = g
        /\ t # s => Spends[t] \cap Spends[s] = {}

\* A note is spent in a later block than the one that created it.
SpentLater(c) ==
    \A h \in 1..Len(c) : \A t \in c[h].txs : \A n \in Spends[t] :
        \E g \in 1..(h - 1) : \E s \in c[g].txs : n \in Outputs[s]

Valid(c) == MinedOnce(c) /\ SpentLater(c)
=============================================================================
