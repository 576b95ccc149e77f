---------------------------- MODULE SyncInvariant ----------------------------
(***************************************************************************)
(* The inductive invariant behind AccountIsLedger and CutBelowFork: what   *)
(* the engine's local data say of the store and of the server's chain at   *)
(* each point where it is suspended.                                       *)
(***************************************************************************)
EXTENDS SyncEngine

\* On a server with best chain ch and greatest height p, the block of hash c
\* was in the best chain once: all but its last ReorgLimit ancestors still are.
Settled(c, ch, p) ==
    /\ Len(c) <= p
    /\ Valid(c)
    /\ \A k \in 1..Len(c) : k <= Len(c) - ReorgLimit => c[k] = ch[k]

\* Every block the store or the engine knows the hash of.
Known == ({db.checkpoint, durable.checkpoint} \ {NoCursor}) \cup Held

\* The height below the first block to read after the cursor.
BaseHeight(cursor) == IF cursor = NoCursor THEN Birthday - 1 ELSE Len(cursor)

\* The blocks of s are consecutive, and the first is next after the cursor.
Chained(cursor, s) ==
    \A j \in 1..Len(s) :
        /\ Len(s[j]) = BaseHeight(cursor) + j
        /\ cursor # NoCursor => Extends(s[j], cursor)
        /\ \A i \in 1..j : Extends(s[j], s[i])

\* Neither the store nor a rewind goes below the block before the birthday.
AboveBirthday ==
    \A c \in {db.checkpoint, durable.checkpoint, cut} \ {NoCursor} :
        Len(c) >= Birthday - 1

LastRead == IF blocks = <<>> THEN db.checkpoint ELSE blocks[Len(blocks)]

ServerInv ==
    /\ Len(chain) <= peak
    /\ peak - ReorgLimit <= Len(chain)
    /\ Valid(chain)

SettledInv == \A c \in Known : Settled(c, chain, peak)

\* The blocks of s are those of the heights just below n.
HeightsBelow(s, n) ==
    \A i \in 1..Len(s) : Len(s[i]) = n - 1 - Len(s) + i

\* The server sends consecutive heights.
StreamInv ==
    /\ Len(stream) < next
    /\ HeightsBelow(stream, next)
    /\ pc = "stream" /\ prior = NoCursor => next = Birthday + Len(stream)

Idle ==
    /\ next = 1 /\ upto = 0 /\ stream = <<>>
    /\ blocks = <<>> /\ remaining = <<>>

Reading ==
    /\ Chained(db.checkpoint, blocks)
    /\ prior = LastRead
    /\ blocks = <<>> => checkpoint = db.checkpoint
    /\ blocks # <<>> /\ checkpoint # NoCursor => Len(checkpoint) < Len(prior)

\* A block waits in a new buffer while the one before is processed.
Waiting ==
    blocks # <<>> =>
        /\ Chained(remaining[Len(remaining)], blocks)
        /\ prior = LastRead
        /\ checkpoint # NoCursor => Len(checkpoint) < Len(prior)

Scanned ==
    /\ scanned \in 1..Len(remaining)
    /\ ScanStopsAt(Nullifiers(db), scanned)
    /\ found = UNION {Detect(Nullifiers(db), remaining[i]) : i \in 1..scanned}

Applied ==
    /\ scanned \in 1..Len(remaining)
    /\ db.checkpoint = remaining[scanned]
    /\ Chained(db.checkpoint, SubSeq(remaining, scanned + 1, Len(remaining)))

ControlInv ==
    /\ pc \in {"outer", "sleep", "stopped"} => Idle
    /\ pc = "stream" => Reading /\ remaining = <<>>
    /\ pc = "rewind" => checkpoint = db.checkpoint /\ checkpoint # NoCursor
    /\ pc = "cut" => cut # NoCursor /\ db.checkpoint # NoCursor
    /\ pc \in {"scan", "fetch"} =>
           remaining # <<>> /\ Chained(db.checkpoint, remaining) /\ Waiting
    /\ pc = "fetch" => Scanned
    /\ pc = "hook" => Applied /\ Waiting

\* A rewind is no deeper than it says.
CutAtDepth == pc = "cut" => Len(cut) >= Len(db.checkpoint) - MAX_REORG_DEPTH

IInv ==
    /\ TypeOK
    /\ ServerInv
    /\ SettledInv
    /\ StreamInv
    /\ ControlInv
    /\ AboveBirthday
    /\ CutBelowFork
    /\ AccountIsLedger

(***************************************************************************)
(* The inductive invariant behind BatchWithinLimits: the running count is  *)
(* the number of outputs in the buffer, and the buffer keeps to the limits *)
(* before it is handed to process_batch.                                   *)
(***************************************************************************)
BufferInv ==
    /\ output_count = OutputsOf(blocks)
    /\ Len(blocks) <= BLOCKS_PER_BATCH
    /\ Len(blocks) <= 1 \/ output_count <= OUTPUTS_PER_BATCH

BatchInv == BufferInv /\ BatchWithinLimits

(***************************************************************************)
(* The inductive invariant behind EveryStepCounts: a turn never runs out   *)
(* of blocks without having read one, its blocks are of consecutive        *)
(* heights up to the one it asked for, a rewind has its reason at the head *)
(* of the stream, and a segment that was applied moved the checkpoint.     *)
(***************************************************************************)
TurnInv ==
    /\ next <= upto + 1
    /\ upto > 0 => next = BaseHeight(prior) + 1 + Len(stream)
    /\ pc \in {"stream", "rewind", "cut"} \/ blocks # <<>> => upto > 0
    /\ pc = "stream" => blocks # <<>> \/ stream # <<>> \/ next <= upto
    /\ pc \in {"rewind", "cut"} =>
           /\ prior = db.checkpoint
           /\ stream # <<>> /\ LinkBroken(Head(stream))
    /\ pc # "cut" => cut = NoCursor
    /\ checkpoint # NoCursor =>
           db.checkpoint # NoCursor /\ Len(checkpoint) <= Len(db.checkpoint)
    /\ pc = "hook" => db.checkpoint # checkpoint
=============================================================================
