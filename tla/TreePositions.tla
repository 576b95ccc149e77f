--------------------------- MODULE TreePositions ---------------------------
(***************************************************************************)
(* Commitment-tree positions in src/src/sync/scan.rs: one call of          *)
(* scan_compact after another, each over consecutive blocks of some chain, *)
(* which may start anywhere (a rewind, a retry or a new segment).          *)
(*                                                                         *)
(* A position is a leaf number of the pool's note commitment tree, and a   *)
(* Sapling nullifier is derived from it.  The client does not keep the     *)
(* trees: it works the sizes out from the chain metadata of the first      *)
(* block of each call, counts outputs from there, and compares with the    *)
(* metadata at the end of every block.  A server may report any sizes, or  *)
(* leave a pool, or the whole metadata, out of any block.                  *)
(***************************************************************************)
EXTENDS Integers

CONSTANTS
    Pool,        \* Sapling, Orchard, Ironwood
    SizeLimit,   \* 2^32: a tree size is a u32
    MaxOutputs,  \* bound: outputs of a block in one pool
    Unreported,  \* chain_metadata is None
    NoSizes      \* prev_tree_sizes before the first block

ASSUME SizeAssumption == SizeLimit \in Nat \ {0} /\ MaxOutputs \in Nat
U32 == 0..(SizeLimit - 1)
Sizes == [Pool -> U32]

ASSUME NoneAssumption == Unreported \notin Sizes /\ NoSizes \notin Sizes

VARIABLES
    pc,        \* "call", "blocks", "txs", "returned" or "failed"
    size,      \* the true sizes of the trees where the scan is
    left,      \* outputs of the block at hand that are still to be counted
    reported,  \* its chain metadata
    prev_tree_sizes,
    pos,       \* sap_pos, orch_pos, iorn_pos
    found,     \* txs is not empty
    notes,     \* the notes of txs: pool, true leaf and recorded position
    honest,    \* every size reported in this call is the true one, or is left out
    complete   \* and none is left out

vars == <<pc, size, left, reported, prev_tree_sizes, pos, found, notes, honest, complete>>

Zero == [p \in Pool |-> 0]

Init ==
    /\ pc = "call"
    /\ size = Zero /\ left = Zero /\ pos = Zero
    /\ reported = Unreported
    /\ prev_tree_sizes = NoSizes
    /\ found = FALSE /\ notes = {} /\ honest = TRUE /\ complete = TRUE

\* scan_compact is called on blocks that follow any point of a chain.
Call ==
    /\ pc \in {"call", "returned", "failed"}
    /\ pc' = "blocks"
    /\ size' \in Sizes
    /\ prev_tree_sizes' = NoSizes
    /\ found' = FALSE /\ notes' = {} /\ honest' = TRUE /\ complete' = TRUE
    /\ UNCHANGED <<left, reported, pos>>

\* What the server may say of the sizes after a block: anything.
Reports == Sizes \cup {Unreported}

\* The true sizes after a block with these outputs.
TrueSizes(outputs) == [p \in Pool |-> size[p] + outputs[p]]

\* No size is wrong; a pool that is left out reads as 0.
NoneWrong(outputs, report) ==
    report # Unreported => \A p \in Pool : report[p] \in {0, size[p] + outputs[p]}

\* A slip: the sizes after the block are taken for those before it.
StartAtEnd(outputs, report) == report

\* initial_tree_sizes: the reported size less the outputs of the block.
StartSizes(outputs, report) == [p \in Pool |-> report[p] - outputs[p]]

\* A slip: the subtraction is not checked.
StartUnchecked(outputs, report) == report = Unreported

\* chain_metadata is missing or a size is below the number of outputs.
StartUnknown(outputs, report) ==
    report # Unreported => \E p \in Pool : report[p] < outputs[p]

Fail == pc' = "failed" /\ UNCHANGED pos

\* The next block; the sizes before it are carried or worked out.
ReadBlock(outputs) ==
    /\ pc = "blocks"
    /\ \A p \in Pool : size[p] + outputs[p] < SizeLimit
    /\ left' = outputs
    /\ \E report \in Reports :
        /\ reported' = report
        /\ honest' = (honest /\ NoneWrong(outputs, report))
        /\ complete' = (complete /\ report = TrueSizes(outputs))
        /\ IF prev_tree_sizes # NoSizes
           THEN pos' = prev_tree_sizes /\ pc' = "txs"
           ELSE IF StartUnknown(outputs, report)
                THEN Fail
                ELSE pos' = StartSizes(outputs, report) /\ pc' = "txs"
    /\ UNCHANGED <<size, prev_tree_sizes, found, notes>>

\* A note of output number idx of pool p of the transaction at hand.
NoteAt(p, idx) ==
    [pool |-> p, leaf |-> size[p] + idx, position |-> pos[p] + idx]

\* scan_block, one transaction: it may have a note of the account, or only a
\* watched spend, or nothing.  The u32 additions wrap in a release build.
ScanTx(outputs) ==
    /\ pc = "txs"
    /\ \A p \in Pool : outputs[p] <= left[p]
    /\ \/ \E p \in Pool : \E idx \in 0..(outputs[p] - 1) :
             notes' = notes \cup {NoteAt(p, idx)} /\ found' = TRUE
       \/ notes' = notes /\ found' \in {found, TRUE}
    /\ pos' = [p \in Pool |-> (pos[p] + outputs[p]) % SizeLimit]
    /\ size' = [p \in Pool |-> size[p] + outputs[p]]
    /\ left' = [p \in Pool |-> left[p] - outputs[p]]
    /\ UNCHANGED <<pc, reported, prev_tree_sizes, honest, complete>>

\* In a build with overflow checks they end the call.
Overflow(outputs) ==
    /\ pc = "txs"
    /\ \A p \in Pool : outputs[p] <= left[p]
    /\ \E p \in Pool : pos[p] + outputs[p] >= SizeLimit
    /\ Fail
    /\ UNCHANGED <<size, left, reported, prev_tree_sizes, found, notes, honest, complete>>

\* A slip: a pool that the metadata leaves out is not compared.
SizesDifferIfReported ==
    reported # Unreported =>
        \E p \in Pool : reported[p] # 0 /\ reported[p] # pos[p]

\* The check at the end of scan_block.
SizesDiffer ==
    reported # Unreported => \E p \in Pool : reported[p] # pos[p]

\* scan_compact returns after the first block with a kept transaction.
EndBlock ==
    /\ pc = "txs" /\ left = Zero
    /\ \/ SizesDiffer /\ Fail /\ UNCHANGED prev_tree_sizes
       \/ /\ ~SizesDiffer
          /\ prev_tree_sizes' = pos
          /\ pc' = IF found THEN "returned" ELSE "blocks"
          /\ UNCHANGED pos
    /\ UNCHANGED <<size, left, reported, found, notes, honest, complete>>

\* No blocks left.
EndBlocks ==
    /\ pc = "blocks"
    /\ pc' = "returned"
    /\ UNCHANGED <<size, left, reported, prev_tree_sizes, pos, found, notes, honest,
                   complete>>

Outputs == [Pool -> 0..MaxOutputs]

Next ==
    \/ Call \/ EndBlock \/ EndBlocks
    \/ \E outputs \in Outputs : 
           ReadBlock(outputs) \/ ScanTx(outputs) \/ Overflow(outputs)

Spec == Init /\ [][Next]_vars
-----------------------------------------------------------------------------
\* A note that reaches apply_transactions has the position of its leaf in the
\* tree, however many blocks before it in the call, unless a server states sizes
\* that are wrong: "A server that leaves one out fails scan_block's end-of-block
\* check instead" (scan.rs, initial_tree_sizes).  And wrong ones do no harm to the
\* pools whose size after the note's own block is right, whatever was said before.
PositionsAreTrue ==
    pc = "returned" =>
        \A n \in notes :
            honest \/ reported[n.pool] = size[n.pool] => n.position = n.leaf

\* The checks refuse no block of a server that reports every size, at any
\* height of the trees, in the first block of a call or a later one.
CompleteServerAccepted == pc = "failed" => ~complete

\* The variables keep their types: every size and count is a u32, also those
\* that initial_tree_sizes subtracts; a position is a u64, and a u32 as well as
\* long as no size is wrong.
TypeOK ==
    /\ pc \in {"call", "blocks", "txs", "returned", "failed"}
    /\ size \in Sizes /\ left \in [Pool -> Nat] /\ pos \in Sizes
    /\ reported \in Sizes \cup {Unreported}
    /\ prev_tree_sizes \in Sizes \cup {NoSizes}
    /\ found \in BOOLEAN /\ honest \in BOOLEAN /\ complete \in BOOLEAN
    /\ notes \subseteq [pool : Pool, leaf : U32, position : Nat]
    /\ honest => \A n \in notes : n.position \in U32

\* What makes them hold.  Of a server that reports no wrong size, a count never
\* runs ahead of the tree, and lags by as much at every note of the block at hand.
Lags ==
    /\ pc = "txs" => \A p \in Pool :
        /\ size[p] + left[p] < SizeLimit
        /\ honest /\ reported # Unreported => reported[p] \in {0, size[p] + left[p]}
        /\ honest => pos[p] <= size[p]
        /\ complete => reported[p] = size[p] + left[p] /\ pos[p] = size[p]
    /\ pc = "txs" /\ complete => reported # Unreported
    /\ pc = "blocks" /\ prev_tree_sizes # NoSizes => \A p \in Pool :
        /\ honest => prev_tree_sizes[p] <= size[p]
        /\ complete => prev_tree_sizes[p] = size[p]
    /\ pc = "txs" /\ honest => \A n \in notes :
        /\ n.position < pos[n.pool]
        /\ n.leaf - n.position = size[n.pool] - pos[n.pool]
    /\ pc = "blocks" => ~found
    /\ notes # {} => found

\* Of any server, the difference between count and tree stays the same until the
\* count wraps, and it wraps at most once in a block, from ahead of the tree to
\* behind it.
Drifts ==
    pc = "txs" => \A n \in notes :
        LET p == n.pool IN
        \/ n.position - n.leaf = pos[p] - size[p]
        \/ /\ n.position - n.leaf = pos[p] - size[p] + SizeLimit
           /\ pos[p] < size[p]

PositionInv == TypeOK /\ Lags /\ Drifts /\ PositionsAreTrue /\ CompleteServerAccepted
=============================================================================
