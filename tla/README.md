# Verification of seer-sync

TLA+ models of seer-sync - the sync engine and its store, the scanner and the
decryption passes, the choice of a server and the upgrade of an old file -, the
TLC runs that check them on small instances, and proofs, checked by TLAPS, that
the safety properties hold for every value of the constants.

Paths below are those of the repository with `src/` in front, as in
`PROJECT.json`: `src/src/sync.rs` is the crate's `src/sync.rs`.

## 1. Inventory

| Component | Where | State it keeps | Operations | What makes it correct |
|---|---|---|---|---|
| Sync engine | `sync.rs` `run`, `process_batch` | locals: `checkpoint`, `prior`, the buffer and its output count, the stream, `remaining_blocks` | outer turn, stream, broken link, rewind, flush, scan, apply, hand over | the store is always the ledger of one chain; rewinds land below the fork; it reaches the tip |
| Account store | `db.rs` | `account`, `txs`, three note tables in SQLite (WAL) | `checkpoint`, `nullifiers`, `apply_transactions`, `rewind`, `balance` | rows = what the history says; amounts add up to the balance |
| Compact scanner | `sync/scan.rs` | positions while a batch is scanned | `scan_compact`, `scan_block`, `scan` | nothing of the account is missed; positions are those of the tree |
| Decryption, enrichment | `sync/decrypt.rs` | the rows of one transaction | trial decryption, memo and sent-note recovery | one row for each output the keys know, with its own note and memo; ours never as sent |
| Relaxed Ironwood scan | `sync/decrypt.rs`, feature `zns-decrypt` | a list of unverified hits | the same passes, routed by `rseed_guard` | every name note surfaced once; the ordinary path as without the feature |
| Chain client | `sync/chain.rs` | a gRPC channel | `latest_block`, `block_hash`, `blocks`, `fetch_raw_transactions` | only well-formed blocks come through |
| Server selection | `sync/chain.rs` `connect_auto` | the server being probed | probe with a timeout | the first server that serves in time; a stalled one does not block the next |
| Migration | `db.rs` `migrate` | `user_version` | create, backfill | leaves amounts as fresh accounting would, however many processes run it, and late ones do no harm |
| Raw-block hook | `Account::apply_blocks` | outside the crate | receives each segment | receives the blocks of every commit |
| Balance reader | `Db::balance`, `examples/balance.rs` | a partial sum | one SELECT per pool | the total is one the account had |
| Crate entry | `lib.rs` | none | parse key, connect, run | |

How they meet: `run` asks the client for the tip, opens a stream of blocks from
the block after the checkpoint, and compares each block's `prev_hash` with the
block before it. Good blocks are buffered up to two limits; a full buffer goes
to `process_batch`, which loads the watch list from the store, scans up to the
first block with a transaction of the account, fetches the full transactions,
commits them with the new checkpoint, hands the raw blocks to the hook and goes
on with the rest. A block that does not connect drops everything that is not in
the store; if it is the first of the stream, the store is first rewound by
`MAX_REORG_DEPTH` blocks, to whatever block the server has there.

What is hard: the server's chain moves at every await; the watch list changes
with every commit; the store outlives errors, crashes and (partly) power loss,
the locals do not; a second process may read, or upgrade the file, while the
first commits; servers stall, and may leave fields or outputs out of what they
send.
`PROJECT.json` lists these hazards at their lines.

## 2. Modules

| Module | Contents |
|---|---|
| `Blocks` | Blocks, hashes, transactions and notes, and what consensus says of a chain. |
| `Chain` | The server's best chain, which grows and reorganises. |
| `AccountDb` | The rows of the store, the operations of the `Account` trait, and `IsLedger`, the reference for what the rows should be. |
| `Detection` | What `scan_block` keeps and records, shared by the engine and `Migration`. |
| `SyncEngine` | `run` and `process_batch` over `Detection` and `Chain`, with faults; the properties. |
| `AccountLedger` | The abstract specification: what the owner of the store may rely on. |
| `RawBlockHook` | `SyncEngine` with the receiver of `apply_blocks`. |
| `BalanceReader` | `SyncEngine` with a second process that calls `Db::balance`. |
| `Migration` | `Db::open` on an old file in several processes, one of which synchronises. |
| `TreePositions` | Tree sizes and note positions in `scan_compact`, in `u32`. |
| `Decryption` | The outputs of one transaction in one pool, from the compact block to the rows. |
| `NameNotes` | The same with `zns-decrypt`; implements `Decryption`. |
| `ServerSelection` | `run` of `lib.rs` up to the engine: view key, `connect_auto`. |
| `SyncInvariant` | The inductive invariants of the engine: `IInv`, `BatchInv`, `TurnInv`, `CutAtDepth`. |
| `SumLemmas` | Lemmas: sums over finite sets. |
| `LedgerProofs` | Lemmas: `rewind` and `apply_transactions` take ledgers to ledgers; a ledger's amounts add up; a history has one ledger. |
| `SyncEngineProofs`, `HookProofs` | The theorems of the engine, its refinement of `AccountLedger`, and the hook. |
| `PositionProofs`, `SelectionProofs`, `MigrationProofs`, `DecryptionProofs` | The theorems of the other modules; their inductive invariants are at the end of the modules. |
| `MC...` | Instances for TLC; `MCWallet` is the wallet of the ones with blocks. |

### How the model corresponds to the code

*Hashes.* A block's hash commits, through `prev_hash`, to all blocks before it,
so the hash of a block is modelled as the sequence of blocks that ends with it.
A `Cursor` (height and hash) is one such sequence: its length is the height.
Equal hashes then mean equal histories, and `prior.hash != prev_hash` is a
comparison of sequences, as good as collision resistance. `Salt` lets two
different blocks have the same transactions.

*Transactions and notes.* `Outputs[t]` are the notes of `t` that the keys can
decrypt or recover, `Owned` those received with an incoming key (`is_sent = 0`),
`Watchable` those with a stored nullifier: all owned ones for a UFVK, none for
a UIVK. `Spends[t]` are the owned notes whose nullifiers `t` reveals.
`OutputCount` is `block_output_count`, which also counts outputs of strangers.

*The store.* `db` is what the connection sees, `durable` what a power loss
leaves. Each `Account` method is one SQLite transaction, hence one step. `NULL`
is -1, so that `> ?` is false of it. A row of `txs` keeps its amount as the two
sets of notes it nets, which says more than the number. The three pool tables
are one function, because a note is in one pool only; `Ironwood` is kept apart
because `scan_block` records every nullifier of the Ironwood actions of a kept
transaction, watched or not. `Named` are the transactions that the build with
`zns-decrypt` keeps for a name note alone: they get a row of `txs`, which nets
nothing unless they also pay or spend. It is empty in the build without the
feature; that one file is always written by one of the two builds is assumed.

*Control.* `pc` names the awaits and the points between two store calls where a
fault can strike. Code without an await or store call between is one step.

| Actions | Code |
|---|---|
| `SleepAtTip`, `Wake`, `OpenStream` | `sync.rs` 133-157 |
| `ServeBlock` | the server's side of `LwdClient::blocks` |
| `BrokenSeam`, `BrokenLink` | 161-174, first or later block of the stream |
| `FetchCut`, `RewindToCut` | 168 and 169-173 |
| `BufferBlock`, `FlushBatch`, `EndOfStream` | 176-196 |
| `Scan`, `ApplySegment`, `HandBlocks` | 85-90, 92-112, 114-121 |
| `Fail`, `BlockNotFound` | every `?`: an error ends `run` |
| `Restart` | the application calls `run` again |
| `PowerLoss`, `WalSync` | `journal_mode = WAL`, `synchronous = NORMAL` |

`Fail` may strike at every suspension, as often as it likes, and stands for
transport errors, malformed blocks, `ScanError`, orphaned transactions that can
no longer be fetched, store errors before commit, and crashes of the process.
`BlockNotFound` is the error the engine cannot escape: a server whose chain
became shorter than the height it is asked for.

*Positions* (`TreePositions`). A pool's size and position are numbers below
`SizeLimit`; `pos` is what `scan_block` counts, `size` the truth it cannot see.
A call of `scan_compact` may start anywhere in the trees (a rewind, a retry, the
rest of a batch), which is more than the engine does. `Reports` is what a
server may send: any sizes after the block, 0 for a pool that is left out
(protobuf does not send zeros), or no metadata. `honest` remembers that none was
wrong in this call, `complete` that none was left out either; the code sees
neither. A count that reaches 2^32 wraps (`ScanTx`), or ends the call in a build
with overflow checks (`Overflow`). Of a transaction only its number of
outputs per pool matters, and whether it has a note or a watched spend.

*Outputs* (`Decryption`, `NameNotes`). An output is the number of the incoming
key and of the outgoing key that open it, if any; a note and a memo are named by
the output they are taken from, so that a mix-up shows. Authenticated encryption
lets at most one key of each kind open an output, and that is all of the
cryptography that is assumed. The compact outputs may be fewer or more than the
transaction's, and any of them may not parse. `keys` is what `from_ufvk`,
`from_uivk` or a key without the pool leaves. The three pools have one model:
their code differs in the batch call that decrypts, not in control.
`rseed_guard` is one bit of an output.

*Opening a file* (`Migration`). `user_version` is read before the transaction;
the transaction is deferred, so its first SELECT takes the snapshot and its
first UPDATE the write lock, and in WAL mode that UPDATE fails at once when
another connection holds the lock or has committed since (`stale`); a busy
timeout cannot help a stale snapshot. Hence what is read in a transaction that
may still write is the file itself. SQLite is modelled by these rules and is
external. An old file has the rows of some history, at their heights, with any
accounting and any change flags. The engine writes block by block, as
`AccountLedger` allows; its segments are several of these steps at once.

*Probing* (`ServerSelection`). What the servers will do is chosen at the start.
Each of the two requests is answered after some ticks, with success or an error,
or never. The timer covers both and begins anew for each server.

*Assumptions about the world*, named in the modules:
`DepthAssumption` (no reorganisation is deeper than `MAX_REORG_DEPTH`; the
repository's README says "past the deepest reorg zcashd or zebrad will make"),
`CanExtend` (consensus: a transaction is mined once, a note is spent once and
after the block that created it), `TxAssumption` (a note has one creator), and
`FiniteAssumption` (a txid has 32 bytes and an output index 32 bits, so there
are finitely many of either, and sums over notes make sense).
The depth is counted from the highest block ever served: a server never shows a
chain that differs from one it served by more than `ReorgLimit` blocks. A pool
of servers that disagree by more is outside the model.

## 3. Runs

| Run | Shows | Bounds |
|---|---|---|
| `core` | `ImplementsLedger`, `AppliedOnce`, `BalanceIsSumOfAmounts`, `BatchWithinLimits`, `ReplayChangesNothing`, `TypeOK` | birthday 1, chain to 5 |
| `deep_reorg` | `CutBelowFork`, `AccountIsLedger`, `CheckpointDeterminesStore`, `BuriedIsOnChain`, `BuriedRowsStay`, `EveryStepCounts` | birthday 2, chain to 5 |
| `liveness` | `EventuallyCaughtUp` | birthday 1, chain to 3 |
| `hook` | `AppliedBlocksHanded`, faults not striking inside the hand-over | chain to 3, one transaction |
| `hook_lost` | `AppliedBlocksHanded` fails when they do (finding) | same |
| `torn_balance` | `BalanceWasHeld` fails (finding) | chain to 3 |
| `unnoticed_fork` | `PollsAtTip` fails (finding) | chain to 3 |
| `tree_positions` | `PositionsAreTrue`, `CompleteServerAccepted`, `TypeOK` | two pools, sizes below 5, blocks of 0 to 2 outputs per pool |
| `server_selection` | `FirstThatServes`, `BoundedWait`, `Returns`, `TypeOK` | three servers, one, none; an attempt of 2 ticks, answers after 1, 3 or never |
| `migration` | `MigratedIsExact`, `OpenIsMigrated`, `LateBackfillChangesNothing`, `EveryoneOpens`, `TypeOK` | two processes, histories to 3 blocks, birthday 1 |
| `decryption` | `RowsMatchKeys`, `OwnNeverSent`, `TypeOK` | three outputs |
| `name_notes` | `NameNotesSurfaced`, `OrdinaryPath`, `RelaxedTypeOK` | two outputs |

The runs with the engine use `ReorgLimit = MAX_REORG_DEPTH = 2`, batches of 3 blocks or 4
outputs, one salt, and the wallet of `MCWallet`: `pay` pays the account, `send` spends
that note into Ironwood change and a sent note, `sweep` spends it and leaves
nothing visible. `MaxHeight` bounds the chain and `StreamCap` the blocks in
flight; nothing else is bounded: faults, restarts, reorganisations and retries
are unlimited. Why this is enough to meet the interesting cases:

* five blocks with reorganisations two deep leave room for a checkpoint at 3
  or more, a rewind that keeps rows below the cut, and a second fork during it;
* with birthday 2 the rewind meets both arms of its clamp, and a note paid in
  block 1 is spent above the birthday and must not count;
* receive, spend and change in different blocks of one batch exercise the reload
  of the watch list; exchanging `send` for `sweep`, or mining `pay` at another
  height, exercises what a rewind must remove;
* blocks of 1, 2 or, with `sweep`, 5 outputs against limits of 3 blocks and 4
  outputs meet each limit alone, and a block that is over the output limit on its
  own, first in the buffer or not;
* `deep_reorg` is the build with `zns-decrypt`: `sweep` carries a name note
  (`Named`), so it is kept even when it spends nothing of the account. The other
  runs are the build without it;
* one salt is enough, since blocks already differ in their transactions and a
  block's hash is its whole history.

For the other modules:

* positions: a limit of 5 lets a tree reach it, lets a block end on it, and lets
  a count that a wrong size put ahead of the tree wrap; two
  pools let one be left out and the other not; calls of several blocks, with up
  to two outputs before and after a note, meet every carry. A third pool behaves
  as the second does;
* servers: two requests of one tick each are just in time for an attempt of two,
  3 is late at the first request or the second; three servers let the one that
  is taken be preceded by two that failed differently;
* migration: two processes are enough for every race for one lock. Three blocks
  hold a payment, its spend with change, and a rewind of either. The old files
  have accounting that is right, all zero, or blind to spends, and every choice
  of flags;
* decryption: with three outputs, one that does not parse may precede, follow
  or lie between others; every combination of keys, of compact and full length
  and of what opens each output is an initial state. Two are enough for the name
  notes, where an output never concerns another except by its index.

Deadlock is checked wherever a system runs for ever. `ServerSelection`,
`Decryption` and `NameNotes` describe a call that returns, so their runs say
`CHECK_DEADLOCK FALSE`; that the first one does return is `Returns`, and the
others are loops over a fixed number of outputs.

Each property of a passing run has a mutant in `PROJECT.json`: a definition
that starts with `\* A slip:` is a plausible bug of that code, and TLC finds
the property violated when it replaces the original.

### Properties

* `ImplementsLedger`: the store moves up its own chain, back to a block of it
  (or to just below the birthday), or to what the disk had; and at each step
  its rows are exactly those of the chain it is checkpointed at.
* `AccountIsLedger`: the second half, as an invariant, for memory and disk.
* `CutBelowFork`: the block a rewind adopts is an ancestor of the checkpoint,
  although it is asked for after the fork was seen and the server may have moved
  again.
* `AppliedOnce`: `INSERT OR IGNORE` never ignores and the upsert never updates.
  This is what makes a stale position or nullifier of an abandoned fork
  impossible.
* `BalanceIsSumOfAmounts`: `txs.amount` and `Db::balance` agree.
* `CheckpointDeterminesStore`: memory and disk are equal when their checkpoints
  are, although one may have gone through rewinds and second applications that
  the other has not; nothing of an abandoned fork outlives a power loss.
* `BuriedIsOnChain`: what the rows say of a block `MAX_REORG_DEPTH` below the
  checkpoint is on the server's chain now, even while a fork is not noticed
  (`unnoticed_fork`), in the middle of a rewind, and on the disk of long ago. It
  bounds what the caller of `balance` can be told wrongly.
* `BuriedRowsStay`: and it is never taken back or rewritten, but by a power
  loss: a rewind that went one block too deep would be repaired by the blocks
  read next, so that no comparison of final states finds it.
* `BatchWithinLimits`: what `process_batch` gets keeps to the limits; one block
  over the output limit is processed alone.
* `ReplayChangesNothing`: `apply_transactions` is idempotent, amounts included,
  also for a segment that received a note and spent it ("replaying a transaction
  keeps the same net amount", `db.rs` 354). The engine never relies on it:
  `AppliedOnce`.
* `EveryStepCounts`: `Work` is what the engine has left to do while the chain
  rests: first whether this turn holds blocks of an abandoned fork, then whether
  the checkpoint is of one, then the blocks to apply, then the steps of the
  turn. Every step of the engine and every block served decreases it, but for
  going to sleep at the tip. This is why a retry cannot repeat for ever, said
  of each step instead of whole behaviours, and hence a theorem as well.
* `EventuallyCaughtUp`: see fairness. It assumes that `Fail` ceases, so it does
  not say that a run gets past an error whose cause stays, such as a transaction
  that was reorganised away before it is fetched (`sync.rs` 94).
* `PositionsAreTrue`: a server that leaves a pool, or the metadata, out of any
  block makes `scan_compact` fail rather than return a wrong position. Of a server
  that states a wrong size it says less: the positions of a pool are right if the
  size after the note's own block is, whatever was stated before. One whose sizes
  are wrong by the same amount in every block passes the check of `scan.rs`
  352-376, and then they are not: the client has nothing to compare with.
* `CompleteServerAccepted`: and the checks that ensure it never refuse a block
  of a server that leaves nothing out. (A server that does may have made an
  earlier count short, so a later complete block may be refused.)
* `RowsMatchKeys`: rows and outputs correspond one to one: no two rows of an
  index, so that `INSERT OR IGNORE` drops nothing, and none with another's note.
* `OwnNeverSent`: a payment to oneself counts, provided the compact outputs are
  those of the transaction. If the server leaves one out, the outgoing key finds
  it in the full transaction and stores it as sent: the model has these states,
  and the property says exactly when they cannot occur.
* `NameNotesSurfaced`, `OrdinaryPath`: the two halves of `zns-decrypt`.
  `OrdinaryPath` is a refinement: to the build without the feature, a note that
  the guard rejects looks like one that no key opens.
* `RelaxedTypeOK`: no hit names an output that neither the compact block nor the
  transaction has, although the two differ in length; one with a memo or marked
  as sent is of the transaction, where both come from.
* `FirstThatServes`, `BoundedWait`: the attempts do not influence each other.
* `MigratedIsExact`, `OpenIsMigrated`, `LateBackfillChangesNothing`: reading
  `user_version` outside the transaction is harmless, because the loser either
  fails with SQLITE_BUSY or recomputes what is already there.
* `AppliedBlocksHanded`, `BalanceWasHeld`, `PollsAtTip`: see findings.

### Fairness

`FairSpec` assumes weak fairness of `Engine` (the runtime polls the task, timers
fire, requests are answered, and the application calls `run` again after it
stops) and of `ServeBlock` (the server sends the blocks it was asked for).
Restarting is the application's part: `examples/sync.rs` does not do it. No
fairness is assumed of the chain or of syncs to disk. The property is conditional:
once the chain no longer changes and `Fail` and `PowerLoss` no longer happen,
the checkpoint reaches the tip's height for good. A fork
of the same height stays unnoticed until a block is mined on it (`sync.rs` 133
ignores the tip's hash), which is why the property speaks of the height.

`ServerSelection!FairSpec` is weak fairness of `Next`: the runtime polls the
future and its timer. Servers need not be fair: a stalled one never answers.
`Migration!FairSpec` is weak fairness of each process's `Open`: every process
runs, and opens the file again after SQLITE_BUSY, which is its caller's part.
`EveryoneOpens` assumes that `Close` and `PowerLoss` cease; it holds because a
backfill is done once: whoever loses the race finds `user_version` 1 at the next
try, if not at this one. `PRAGMA journal_mode` and the CREATE statements (all IF
NOT EXISTS) are not modelled; they too may find the file busy.

### Findings

* `hook_lost`: an error or crash between `apply_transactions` (110) and the
  return of `apply_blocks` (114) loses the segment for the hook: the checkpoint
  is committed, and the next run starts after it. The run `hook` shows that this
  window is the only one.
* `torn_balance`: `Db::balance` reads three pools in three SELECTs without a
  transaction; on a second connection it can count a note and the change of its
  spend together. Within the engine's own process this cannot happen: one
  connection, and `balance` has no await.

* `unnoticed_fork`: `run` drops the hash of the tip (133) and compares heights
  (144). When the tip is replaced by another block of its height, the engine is
  told so and sleeps all the same, until a block more is mined.

Not a run, but worth knowing: the quick start in `src/README.md` and `lib.rs`
prints the balance after `run(...).await?`, while `run` never returns `Ok`.

## 4. Proofs

Proved with TLAPS, for all values of the constants that satisfy the assumptions
named in the modules:

| Module | Theorems | Assumptions |
|---|---|---|
| `SyncEngineProofs` | `InvariantHolds` (`Spec => []IInv`), `TypeCorrect`, `LedgerCorrect`, `RewindReachesFork`, `NothingAppliedTwice`, `ReplayHarmless`, `EngineImplementsLedger`, `StoreDetermined`, `BuriedIsFinal`, `BuriedIsKept`, `EngineProgresses` | `NoteAssumption`, `TxAssumption`, `HeightAssumption`, `BirthdayAssumption`, `NullAssumption`, `EngineAssumption`, `DepthAssumption` |
| `SyncEngineProofs` | `AmountsAddUp`, `BatchesLimited` | the same, `FiniteAssumption`, `PoolAssumption` |
| `HookProofs` | `HookMissesNothing` | as the first |
| `PositionProofs` | `PositionsInvariant`, `RecordedPositionsTrue`, `CompleteMetadataAccepted`, `PositionTypes` | `SizeAssumption`, `NoneAssumption` |
| `SelectionProofs` | `SelectionInvariant`, `FirstServerTaken`, `WaitBounded`, `SelectionTypes` | `ServersAssumption`, `TimeAssumption` |
| `MigrationProofs` | `MigrationInvariant`, `MigratedFilesExact`, `OpenFilesMigrated`, `LateBackfillHarmless`, `MigrationTypes` | those of `Blocks` and `AccountDb`, `ProcAssumption`, `ScopeAssumption`, `HistoryAssumption`, `OldAssumption` |
| `DecryptionProofs` | `DecryptInvariant`, `RowsExact`, `OwnNotesCount`, `RelaxedInvariant`, `NameNotesComplete`, `OrdinaryBuildKept`, `DecryptionTypes`, `RelaxedTypes` | `BoundAssumption`, `NoneAssumption` |

The constants include the ones no run varies: `Watchable = {}` is a UIVK, which
never sees a spend, and the ledger theorems hold for it as they do for a UFVK.

Why the invariant is as it is. That the rows stay a ledger needs, at
`ApplySegment`, that the segment continues the checkpoint's chain without gap
(`Chained`, `Reading`, `Waiting`, `Applied` in `ControlInv`), that no block
between held anything of the account (`Scanned`), and that its chain obeys
consensus (`Valid`, in `SettledInv`). At `RewindToCut` it needs `CutBelowFork`,
which in turn needs that every hash the engine or the store holds was once on
the server's best chain, so that all but its last `ReorgLimit` blocks still are
(`SettledInv`, kept by each move of the server because of `ServerInv`). This is
where `DepthAssumption` is used; the only other place is `BuriedIsFinal`.
`AboveBirthday` makes sure
that no block below the birthday is applied, and `StreamInv` that a new account
starts at the birthday.

`LedgerProofs` holds the two data lemmas. `RewindLedger`: what is above the cut
goes, what is below stays, and because a note is created and spent once the
rows below need nothing from above. `ApplyLedger`: above the checkpoint, the
account's spends are exactly the watched ones (`NewSpends`), so marking the
watched notes and inserting the outputs of the detected transactions gives the
ledger of the longer chain; that `scan_block` records all Ironwood nullifiers
does no harm, since a note is never spent in the block that creates it
(`MarkedNote`).

`ReplayHarmless` rests on the lemma `ApplyTwice`: after a segment its notes are
received, its spends carry its own height and transaction, and its rows are
present with the amounts those notes give, so that each statement of
`apply_transactions`, run again in its order, writes what is already there.
`HookMissesNothing` strengthens the property with what the hook has between the
commit and the hand-over: everything up to the checkpoint but the segment.

The invariants of the other modules follow one pattern, the state of the
half-done work. `PositionInv`: count and tree differ by the same number at all
notes of the block until the count wraps, so that the comparison at the end of
the block settles them together; and a count that wrapped in the block is behind
the tree at its end, so it is not taken for one that never did (`Drifts`). Of a
server that states no wrong size the count is never ahead, so it does not wrap
(`Lags`), and the case of a pool left out, whose reported 0 may equal the count,
has no note in it. `SelectionInv`:
how far the probe at hand has come, and that the ones before it did not serve.
`MigrationInv`: a transaction that is not stale has read the file as it is, and
what it has written so far is the accounting of that file's history; that the
result is exact is then `LedgerProofs`' lemmas again. `DecryptInv` and
`RelaxedInv`: which outputs have a row, or a hit, after each pass, and of which
kind. `OrdinaryBuildKept` uses `RelaxedInv` only for the alignment of results
with outputs; the mapping is `OrdinaryOutput`.

Sums. `AmountsAddUp` speaks of sums over all notes and transactions, which the
community modules define by recursion on a finite set. `SumLemmas` proves what
is needed of them - one element more, disjoint parts, equal terms, differences -
for every finite set. The library's induction theorems take a predicate, which
the provers cannot instantiate; `SubsetInduction` is stated for a set `Good`
instead, and each proof gives the set of subsets for which its claim holds. On
top of it `LedgerBalance` is double counting: of a ledger's rows, the credits
are the owned notes received and the debits the owned notes spent, each in one
row (`CreditsAreReceived`, `DebitsAreSpent`, `DebitsDisjoint`), and what is
received and not spent is the balance. `LedgerUnique` shows that a history has
one ledger, from which `StoreDetermined` follows with `AccountIsLedger`.

Batches. `BatchInv` adds what the property does not see: that the running
`output_count` is the number of outputs in the buffer, and that the buffer keeps
to the limits before it becomes a batch.

Buried rows. `BuriedIsFinal` reads `SettledInv` from the store's side: a block
`MAX_REORG_DEPTH` below the checkpoint is below every possible fork, so the
server still has it, and a ledger's rows are of its blocks (`BuriedSettled`).
`BuriedIsKept` does not need the depth of reorganisations, only that of the
rewind: `CutAtDepth` carries it from the request for the hash to the call of
`rewind`. A buried spend is of a note that is buried deeper (`SpentAbove`), so
its row survives whole; and `apply_transactions` meets no row it already has
(`FirstApplication`) and marks no note twice.

Progress. `EngineProgresses` needs `TurnInv` besides `IInv`: the next height to
be sent follows the last block read and those in flight; a turn cannot run out
of blocks before it has read one; a rewind still has its reason, the block that
does not connect, at the head of the stream; a segment that was applied moved
the checkpoint. Then, in a turn without abandoned blocks, a broken link can only
be at an abandoned checkpoint (`BrokenMeansStale`: two blocks of one chain at one
height are the same), so the rewind corrects it; the server has every block it
is asked for (`FreshIsServed`); and a turn that ends has applied something. In a
turn with abandoned blocks its steps run out. That such descents end is a fact of
the lexicographic order, which the lemma `WorkRunsOut` proves. What remains between this and `EventuallyCaughtUp` is that a step
is always enabled and, by fairness, taken: that part stays with TLC.

Only model-checked: `EventuallyCaughtUp`, `Returns` and `EveryoneOpens`
(liveness under fairness and ENABLED are out of the prover's reach), and the
three findings, which are counterexamples.

## 5. Not modelled

* Cryptography: what opens an output is an input of the models.
* The byte layout of stored notes (written, never read back here), generated
  protocol code, and formatting.
* The transparent helpers (`scan_transparent`, `taddress_transactions`,
  `address_utxos`) and `examples/taddr_txs.rs`: stateless calls that the engine
  does not make.
* The concurrent requests inside `fetch_raw_transactions`: they have no shared
  state, and the first error drops the others; to the engine it is one await.
* A stream or request that stalls without an error: the engine has no timeout
  there (`sync.rs` 158). Liveness is claimed for servers that answer.
* Two engines on one file. `apply_transactions` does not compare the stored
  checkpoint with the one its batch began at, so they would break each other;
  nothing in the repository provides for it.
* Server failover: `run` ends with the error and its caller runs it again
  (`Restart`).

Possible next steps: progress measures for `ServerSelection` and `Migration` as
for the engine; the batch decryption of several blocks at once, should the
scanner take it up.
