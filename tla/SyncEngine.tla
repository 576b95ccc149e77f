----------------------------- MODULE SyncEngine -----------------------------
(***************************************************************************)
(* The sync engine: `run` and `process_batch` of src/src/sync.rs, the scan *)
(* of src/src/sync/scan.rs as far as it decides what is kept, and the      *)
(* account store they drive, against a chain that grows and reorganises    *)
(* under them.                                                             *)
(*                                                                         *)
(* pc is where the engine is suspended, at an await or between two calls   *)
(* of the Account trait:                                                   *)
(*   outer    asks the tip and reads the checkpoint and the birthday       *)
(*   sleep    waits 30 s for a new block                                   *)
(*   stream   waits for the next block of the stream                       *)
(*   rewind   waits for the hash of the block to rewind to                 *)
(*   cut      has that hash and calls Account::rewind                      *)
(*   scan     process_batch is at the top of its loop                      *)
(*   fetch    waits for the full transactions, then applies                *)
(*   hook     applied, has not called apply_blocks yet                     *)
(*   stopped  `run` returned an error, or the process is gone              *)
(***************************************************************************)
EXTENDS Detection, Chain

CONSTANTS
    MAX_REORG_DEPTH, BLOCKS_PER_BATCH, OUTPUTS_PER_BATCH,
    OutputCount,   \* OutputCount[T]: shielded outputs of a block with transactions T
    StreamCap      \* bound: blocks in flight between server and client

ASSUME EngineAssumption ==
    /\ MAX_REORG_DEPTH \in Nat
    /\ BLOCKS_PER_BATCH \in Nat \ {0}
    /\ OUTPUTS_PER_BATCH \in Nat
    /\ OutputCount \in [SUBSET Tx -> Nat]
    /\ StreamCap \in Nat \ {0}

\* "past the deepest reorg zcashd or zebrad will make" (README.md)
ASSUME DepthAssumption == ReorgLimit <= MAX_REORG_DEPTH

VARIABLES
    db,          \* the account store, as its connection sees it
    durable,     \* the account store as it is on the disk
    pc,
    checkpoint,  \* `checkpoint` of this turn of the outer loop
    prior,       \* `prior`: the last block read
    cut,         \* the cursor to rewind to
    next, upto,  \* the heights the server has still to send; upto = 0: no stream
    stream,      \* blocks sent and not yet read
    blocks, output_count,  \* the buffer
    remaining,   \* `remaining_blocks` of process_batch
    scanned,     \* how many of them the last scan_compact covered
    found        \* the transactions it detected

store == <<db, durable>>
link == <<checkpoint, prior, cut>>
feed == <<next, upto, stream>>
buffer == <<blocks, output_count>>
batch == <<remaining, scanned, found>>
vars == <<server, store, pc, link, feed, buffer, batch>>

Init ==
    /\ ChainInit
    /\ db = EmptyDb /\ durable = EmptyDb
    /\ pc = "stopped"
    /\ checkpoint = NoCursor /\ prior = NoCursor /\ cut = NoCursor
    /\ next = 1 /\ upto = 0 /\ stream = <<>>
    /\ blocks = <<>> /\ output_count = 0
    /\ remaining = <<>> /\ scanned = 0 /\ found = {}

\* What `continue 'outer`, an error and a crash lose: everything not in the store.
DropLocals ==
    /\ checkpoint' = NoCursor /\ prior' = NoCursor /\ cut' = NoCursor
    /\ next' = 1 /\ upto' = 0 /\ stream' = <<>>
    /\ blocks' = <<>> /\ output_count' = 0
    /\ remaining' = <<>> /\ scanned' = 0 /\ found' = {}
-----------------------------------------------------------------------------
(* The outer loop. *)

\* A slip: the checkpoint's own block is asked for again.
StartAtCheckpoint ==
    IF db.checkpoint = NoCursor THEN Birthday ELSE Len(db.checkpoint)

StartHeight ==
    IF db.checkpoint = NoCursor THEN Birthday ELSE Len(db.checkpoint) + 1

SleepAtTip ==
    /\ pc = "outer"
    /\ StartHeight > Len(chain)
    /\ pc' = "sleep"
    /\ UNCHANGED <<server, store, link, feed, buffer, batch>>

Wake ==
    /\ pc = "sleep"
    /\ pc' = "outer"
    /\ UNCHANGED <<server, store, link, feed, buffer, batch>>

OpenStream ==
    /\ pc = "outer"
    /\ StartHeight <= Len(chain)
    /\ pc' = "stream"
    /\ checkpoint' = db.checkpoint
    /\ prior' = db.checkpoint
    /\ next' = StartHeight
    /\ upto' = Len(chain)
    /\ UNCHANGED <<server, store, cut, stream, buffer, batch>>

\* The server looks each block up when its turn comes, in the chain of then.
ServeBlock ==
    /\ next <= upto
    /\ next <= Len(chain)
    /\ Len(stream) < StreamCap
    /\ stream' = Append(stream, Prefix(chain, next))
    /\ next' = next + 1
    /\ UNCHANGED <<server, store, pc, link, upto, buffer, batch>>
-----------------------------------------------------------------------------
(* Reading the stream. *)

\* A slip: only the first block is compared with its predecessor.
LinkBrokenAtSeam(b) ==
    prior = checkpoint /\ prior # NoCursor /\ prior # PrevHash(b)

\* The block is not a child of the block read before it.
LinkBroken(b) == prior # NoCursor /\ prior # PrevHash(b)

\* A slip: a broken seam only drops the buffer.
BrokenSeamRetries ==
    /\ pc = "stream" /\ stream # <<>>
    /\ LinkBroken(Head(stream))
    /\ prior = checkpoint
    /\ pc' = "outer"
    /\ DropLocals
    /\ UNCHANGED <<server, store>>

\* The first block does not extend the checkpoint.
BrokenSeam ==
    /\ pc = "stream" /\ stream # <<>>
    /\ LinkBroken(Head(stream))
    /\ prior = checkpoint
    /\ pc' = "rewind"
    /\ UNCHANGED <<server, store, link, feed, buffer, batch>>

\* A later block does not extend the one before: the buffer is dropped.
BrokenLink ==
    /\ pc = "stream" /\ stream # <<>>
    /\ LinkBroken(Head(stream))
    /\ prior # checkpoint
    /\ pc' = "outer"
    /\ DropLocals
    /\ UNCHANGED <<server, store>>

CountOf(b) == OutputCount[Tip(b).txs]

\* A slip: the block at hand is not counted.
BatchFullBefore(b) ==
    /\ blocks # <<>>
    /\ \/ Len(blocks) = BLOCKS_PER_BATCH
       \/ output_count > OUTPUTS_PER_BATCH

BatchFull(b) ==
    /\ blocks # <<>>
    /\ \/ Len(blocks) = BLOCKS_PER_BATCH
       \/ output_count + CountOf(b) > OUTPUTS_PER_BATCH

\* The block goes to the buffer.
BufferBlock ==
    /\ pc = "stream" /\ stream # <<>>
    /\ LET b == Head(stream) IN
        /\ ~LinkBroken(b) /\ ~BatchFull(b)
        /\ prior' = b
        /\ blocks' = Append(blocks, b)
        /\ output_count' = output_count + CountOf(b)
    /\ stream' = Tail(stream)
    /\ UNCHANGED <<server, store, pc, checkpoint, cut, next, upto, batch>>

\* The buffer is full: process it, then start a new one with the block.
FlushBatch ==
    /\ pc = "stream" /\ stream # <<>>
    /\ LET b == Head(stream) IN
        /\ ~LinkBroken(b) /\ BatchFull(b)
        /\ prior' = b
        /\ blocks' = <<b>>
        /\ output_count' = CountOf(b)
    /\ stream' = Tail(stream)
    /\ remaining' = blocks
    /\ pc' = "scan"
    /\ UNCHANGED <<server, store, checkpoint, cut, next, upto, scanned, found>>

\* The stream ended: process what is buffered, or start over.
EndOfStream ==
    /\ pc = "stream" /\ stream = <<>> /\ next > upto
    /\ IF blocks # <<>>
       THEN /\ pc' = "scan"
            /\ remaining' = blocks
            /\ blocks' = <<>> /\ output_count' = 0
            /\ next' = 1 /\ upto' = 0
            /\ UNCHANGED <<link, stream, scanned, found>>
       ELSE pc' = "outer" /\ DropLocals
    /\ UNCHANGED <<server, store>>
-----------------------------------------------------------------------------
(* Rewinding past a fork. *)

\* A slip: one block less than the deepest reorganisation.
CutHeightTooHigh ==
    LET deep == Len(checkpoint) - (MAX_REORG_DEPTH - 1)
    IN  IF deep > Birthday - 1 THEN deep ELSE Birthday - 1

\* A slip: the depth is counted from the block before the seam.
CutHeightTooLow ==
    LET deep == Len(checkpoint) - 1 - MAX_REORG_DEPTH
    IN  IF deep > Birthday - 1 THEN deep ELSE Birthday - 1

\* seam.height.saturating_sub(MAX_REORG_DEPTH).max(birthday.saturating_sub(1))
CutHeight ==
    LET deep == Len(checkpoint) - MAX_REORG_DEPTH
    IN  IF deep > Birthday - 1 THEN deep ELSE Birthday - 1

FetchCut ==
    /\ pc = "rewind"
    /\ CutHeight <= Len(chain)
    /\ cut' = Prefix(chain, CutHeight)
    /\ pc' = "cut"
    /\ UNCHANGED <<server, store, checkpoint, prior, feed, buffer, batch>>

RewindToCut ==
    /\ pc = "cut"
    /\ db' = Rewind(db, cut)
    /\ pc' = "outer"
    /\ DropLocals
    /\ UNCHANGED <<server, durable>>
-----------------------------------------------------------------------------
(* process_batch *)

\* A slip: the whole batch is matched against one watch list.
ScanWholeBatch(watched, k) == k = Len(remaining)

\* scan_compact returns after the first block with a kept transaction.
ScanStopsAt(watched, k) ==
    /\ \A i \in 1..(k - 1) : Detect(watched, remaining[i]) = {}
    /\ k = Len(remaining) \/ Detect(watched, remaining[k]) # {}

Scan ==
    /\ pc = "scan"
    /\ \E k \in 1..Len(remaining) :
        /\ ScanStopsAt(Nullifiers(db), k)
        /\ scanned' = k
        /\ found' = UNION {Detect(Nullifiers(db), remaining[i]) : i \in 1..k}
    /\ pc' = "fetch"
    /\ UNCHANGED <<server, store, link, feed, buffer, remaining>>

ApplySegment ==
    /\ pc = "fetch"
    /\ db' = ApplyTransactions(db, remaining[scanned], found)
    /\ pc' = "hook"
    /\ UNCHANGED <<server, durable, link, feed, buffer, batch>>

\* apply_blocks returned; next segment, next block of the stream, or next turn.
HandBlocks ==
    /\ pc = "hook"
    /\ LET rest == SubSeq(remaining, scanned + 1, Len(remaining)) IN
        IF rest = <<>> /\ blocks = <<>>
        THEN pc' = "outer" /\ DropLocals
        ELSE /\ pc' = IF rest = <<>> THEN "stream" ELSE "scan"
             /\ remaining' = rest
             /\ scanned' = 0 /\ found' = {}
             /\ UNCHANGED <<link, feed, buffer>>
    /\ UNCHANGED <<server, store>>
-----------------------------------------------------------------------------
(* Failure.  An error at any await or store call returns from `run`; a     *)
(* crash of the process has the same effect.  Committed transactions stay. *)

Fail ==
    /\ pc # "stopped"
    /\ pc' = "stopped"
    /\ DropLocals
    /\ UNCHANGED <<server, store>>

\* The server has no block of a height it was asked for.
BlockNotFound ==
    /\ \/ pc = "stream" /\ stream = <<>> /\ next <= upto /\ next > Len(chain)
       \/ pc = "rewind" /\ CutHeight > Len(chain)
    /\ pc' = "stopped"
    /\ DropLocals
    /\ UNCHANGED <<server, store>>

\* journal_mode = WAL with synchronous = NORMAL: a commit reaches the disk at
\* a later sync, and a power loss takes back the commits since the last one.
WalSync ==
    /\ durable # db
    /\ durable' = db
    /\ UNCHANGED <<server, db, pc, link, feed, buffer, batch>>

PowerLoss ==
    /\ pc' = "stopped"
    /\ db' = durable
    /\ DropLocals
    /\ UNCHANGED <<server, durable>>

\* The application calls `run` again on the same store.
Restart ==
    /\ pc = "stopped"
    /\ pc' = "outer"
    /\ UNCHANGED <<server, store, link, feed, buffer, batch>>
-----------------------------------------------------------------------------
Read == BrokenSeam \/ BrokenLink \/ BufferBlock \/ FlushBatch \/ EndOfStream
Process == Scan \/ ApplySegment \/ HandBlocks

Engine ==
    \/ SleepAtTip \/ Wake \/ OpenStream
    \/ Read \/ FetchCut \/ RewindToCut
    \/ Process \/ BlockNotFound \/ Restart

Faults == Fail \/ PowerLoss

ServerMoves ==
    ServerStep /\ UNCHANGED <<store, pc, link, feed, buffer, batch>>

Next == Engine \/ ServeBlock \/ WalSync \/ Faults \/ ServerMoves

Spec == Init /\ [][Next]_vars

\* The runtime polls the task, the server answers, the application restarts it.
FairSpec == Spec /\ WF_vars(Engine) /\ WF_vars(ServeBlock)
-----------------------------------------------------------------------------
\* The variables keep their types.  No block below the birthday is asked for on a
\* stream (block_hash may be asked for the one just below: height 0, if the birthday
\* is 1), and a segment that is fetched or applied is a nonempty part of its batch.
TypeOK ==
    /\ chain \in Seq(Block) /\ peak \in Nat
    /\ db \in Db /\ durable \in Db
    /\ pc \in {"outer", "sleep", "stream", "rewind", "cut", "scan", "fetch",
               "hook", "stopped"}
    /\ checkpoint \in Cursor /\ prior \in Cursor /\ cut \in Cursor
    /\ next \in Nat \ {0} /\ upto \in Nat
    /\ upto # 0 => next >= Birthday
    /\ stream \in Seq(BlockHash) /\ blocks \in Seq(BlockHash)
    /\ output_count \in Nat
    /\ remaining \in Seq(BlockHash)
    /\ scanned \in 0..Len(remaining)
    /\ pc \in {"fetch", "hook"} => scanned # 0
    /\ found \subseteq WalletTx

\* The account is the ledger of the history it is checkpointed at, in memory
\* and after a power loss: no row of an abandoned fork stays, none of the
\* adopted one is missing, each at its height, with its amount.
AccountIsLedger == IsLedger(db) /\ IsLedger(durable)

\* The rewind keeps only rows of blocks the server still has: the cut is
\* below the fork, or below the birthday, where there are no rows.
CutBelowFork ==
    pc = "cut" =>
        \/ Len(cut) < Birthday
        \/ Extends(db.checkpoint, cut)

\* No transaction is applied to rows it already has, whatever was dropped,
\* rewound, lost or repeated before: INSERT OR IGNORE never ignores a note of
\* an abandoned fork, and the upsert never updates.
AppliedOnce ==
    pc = "fetch" =>
        \A w \in found :
            /\ db.txs[w.txid] = NoRow
            /\ Outputs[w.txid] \cap Received(db.notes) = {}

\* "Replaying a transaction keeps the same net amount" (db.rs 354): a segment
\* that is applied once more changes no row, neither a note that its own
\* transactions have spent meanwhile nor an amount.
ReplayChangesNothing ==
    [][ApplySegment =>
          ApplyTransactions(db', remaining[scanned], found) = db']_vars

\* The engine runs "until caught up to the chain tip, then polls for new
\* blocks" (lib.rs 40): when it goes to sleep, and no block is being taken
\* back just then, the checkpoint is the tip it was told.
PollsAtTip ==
    [][SleepAtTip /\ Len(History(db.checkpoint)) = Len(chain) =>
          History(db.checkpoint) = chain]_vars

\* A power loss leaves no trace beyond the blocks it takes back: the store in
\* memory and the one on the disk, whatever forks and replays each went through,
\* are equal whenever they are checkpointed at the same block.
CheckpointDeterminesStore == db.checkpoint = durable.checkpoint => db = durable

\* Height h lies MAX_REORG_DEPTH or more blocks below the checkpoint of d.
Buried(d, h) ==
    d.checkpoint # NoCursor /\ h # NULL /\ h <= Len(d.checkpoint) - MAX_REORG_DEPTH

\* What is buried is on the server's chain, even on a fork not noticed yet, in the
\* middle of a rewind, or on the disk of long ago: an owner of the store who waits
\* for MAX_REORG_DEPTH confirmations counts no payment of an abandoned fork.
BuriedIsOnChain ==
    \A d \in {db, durable} :
        /\ \A n \in Note : LET h == d.notes[n].block_height IN
              Buried(d, h) => h <= Len(chain) /\ \E t \in chain[h].txs : n \in Outputs[t]
        /\ \A n \in Note : LET h == d.notes[n].spent_height IN
              Buried(d, h) => h <= Len(chain) /\ d.notes[n].spent_txid \in chain[h].txs
        /\ \A t \in Tx : LET h == d.txs[t].block_height IN
              Buried(d, h) => h <= Len(chain) /\ t \in chain[h].txs

\* And it stays: no rewind forgets, and no later segment rewrites, a row, a spend
\* or an amount that is buried.  Only a power loss may take commits back.
BuriedRowsStay ==
    [][~PowerLoss =>
        /\ \A n \in Note :
              /\ Buried(db, db.notes[n].block_height) =>
                    db'.notes[n].block_height = db.notes[n].block_height
              /\ Buried(db, db.notes[n].spent_height) =>
                    db'.notes[n] = db.notes[n]
        /\ \A t \in Tx :
              Buried(db, db.txs[t].block_height) => db'.txs[t] = db.txs[t]]_vars

\* The amounts of the transactions add up to the balance: value is neither
\* lost nor counted twice between the two ways the store reports it.
BalanceIsSumOfAmounts ==
    Balance(db) = SumFunction([t \in Tx |-> Amount(db.txs[t])])

\* The shielded outputs of the blocks of s.
OutputsOf(s) == SumFunction([i \in DOMAIN s |-> CountOf(s[i])])

\* A batch keeps to both limits; only a block that alone exceeds the output
\* limit is processed, alone.
BatchWithinLimits ==
    /\ Len(remaining) <= BLOCKS_PER_BATCH
    /\ Len(remaining) <= 1 \/ OutputsOf(remaining) <= OUTPUTS_PER_BATCH

\* The engine implements AccountLedger: whatever blocks it reads, drops and
\* reads again, the store only moves up its own chain, back to a block of it or
\* below the birthday, and is complete at every step.
Ledger == INSTANCE AccountLedger WITH account <- db, disk <- durable

ImplementsLedger == Ledger!LedgerSpec

-----------------------------------------------------------------------------
(***************************************************************************)
(* A bound on what the engine has left to do while the chain rests.  Its   *)
(* parts, the most significant first: whether this turn holds blocks of a  *)
(* chain the server has left; whether the checkpoint does; how many blocks *)
(* are to be applied; how many steps are left in this turn, counting those *)
(* of each block on its way from the server to process_batch.              *)
(***************************************************************************)
OnChain(c) == Extends(chain, c)

\* The blocks of this turn: read, buffered, being processed, or to be adopted.
Held ==
    Range(stream) \cup Range(blocks) \cup Range(remaining) \cup ({cut} \ {NoCursor})

StaleTurn == upto > Len(chain) \/ \E c \in Held : ~OnChain(c)

StaleCheckpoint == db.checkpoint # NoCursor /\ ~OnChain(db.checkpoint)

ToApply == IF StartHeight <= Len(chain) THEN Len(chain) + 1 - StartHeight ELSE 0
ToServe == IF next <= upto THEN upto + 1 - next ELSE 0

Stage ==
    CASE pc = "scan" -> 5 [] pc = "fetch" -> 4 [] pc \in {"stream", "hook"} -> 3
      [] pc = "rewind" -> 2 [] OTHER -> 1

StepsOfTurn ==
    8 * ToServe + 7 * Len(stream) + 6 * Len(blocks) + 3 * Len(remaining) + Stage

StepsLeft ==
    CASE pc \in {"sleep", "stopped"} -> 8 * ToApply + 5
      [] pc = "outer" -> 8 * ToApply + 4
      [] OTHER -> StepsOfTurn + IF db.checkpoint = checkpoint THEN 0 ELSE 8 * ToApply

Work ==
    IF StaleTurn THEN <<1, 0, 0, StepsOfTurn>>
    ELSE <<0, IF StaleCheckpoint THEN 1 ELSE 0, ToApply, StepsLeft>>

\* Lexicographic order.
Less(v, w) ==
    \E i \in DOMAIN w : v[i] < w[i] /\ \A j \in 1..(i - 1) : v[j] = w[j]

\* No step is in vain: whatever the engine or the stream does, short of going to
\* sleep at the tip, leaves less to do.  While the chain rests and nothing fails
\* it therefore reaches the tip after finitely many steps: no retry, rewind or
\* reread repeats for ever.
EveryStepCounts ==
    [][(Engine /\ ~SleepAtTip) \/ ServeBlock => Less(Work', Work)]_vars

\* Once the chain rests and nothing fails any more, the account reaches the
\* height of the tip: no rewind or retry repeats for ever.
EventuallyCaughtUp ==
    (<>[][FALSE]_chain /\ <>[][~Faults]_vars)
        => <>[](Len(chain) < Birthday \/ Len(History(db.checkpoint)) >= Len(chain))
=============================================================================
