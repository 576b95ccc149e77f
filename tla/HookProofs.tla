----------------------------- MODULE HookProofs -----------------------------
(***************************************************************************)
(* As long as nothing strikes between the commit of apply_transactions and *)
(* the return of apply_blocks, the hook receives every block the account   *)
(* store covers, for every value of the constants.                         *)
(***************************************************************************)
EXTENDS RawBlockHook, SyncEngineProofs

\* What the hook has, or is about to be handed.
Receiving == handed \cup (IF pc = "hook" THEN Segment ELSE {})

Covered(cursor, received) ==
    \A h \in Birthday..Len(History(cursor)) : Prefix(cursor, h) \in received

\* The disk is covered too: a power loss takes the store back to it, while
\* the receiver keeps what it was handed.
HookInv ==
    Covered(db.checkpoint, Receiving) /\ Covered(durable.checkpoint, Receiving)

LEMMA SamePrefix ==
    ASSUME NEW e \in Seq(Block), NEW c \in Seq(Block), Extends(e, c),
           NEW h \in 0..Len(c)
    PROVE  Prefix(e, h) = Prefix(c, h)
<1>1. Len(c) \in Nat /\ Len(e) \in Nat /\ h \in 0..Len(e)
  BY DEF Extends
<1>2. /\ Prefix(e, h) \in Seq(Block) /\ Len(Prefix(e, h)) = h
      /\ Prefix(c, h) \in Seq(Block) /\ Len(Prefix(c, h)) = h
      /\ \A i \in 1..h : Prefix(e, h)[i] = e[i] /\ Prefix(c, h)[i] = c[i]
  BY <1>1, PrefixFacts
<1>3. \A i \in 1..h : Prefix(e, h)[i] = Prefix(c, h)[i]
  BY <1>1, <1>2 DEF Extends
<1>4. QED
  BY <1>2, <1>3

LEMMA WholePrefix ==
    ASSUME NEW c \in Seq(Block)
    PROVE  Prefix(c, Len(c)) = c
BY DEF Prefix

\* A step that leaves the store alone takes nothing from the receiver.
LEMMA StoreUnchanged ==
    ASSUME HookInv, UNCHANGED store, Receiving \subseteq Receiving'
    PROVE  HookInv'
BY DEF HookInv, Covered, store, History

LEMMA HookEngine ==
    ASSUME IInv, HookInv, Next, ~HandBlocks, UNCHANGED handed, Uninterrupted
    PROVE  HookInv'
<1>1. CASE ServeBlock \/ ServerMoves
  <2>1. UNCHANGED <<store, pc, batch>>
    BY <1>1 DEF ServeBlock, ServerMoves
  <2>2. Receiving' = Receiving
    BY <2>1 DEF Receiving, Segment, batch
  <2>3. QED
    BY <2>1, <2>2, StoreUnchanged
<1>2. CASE WalSync
  <2>1. /\ durable' = db /\ db' = db
        /\ UNCHANGED <<pc, batch>>
    BY <1>2 DEF WalSync
  <2>2. Receiving' = Receiving
    BY <2>1 DEF Receiving, Segment, batch
  <2>3. QED
    BY <2>1, <2>2 DEF HookInv, Covered, History
<1>3. CASE Faults
  <2>1. pc # "hook" /\ Receiving = handed /\ handed \subseteq Receiving'
    BY <1>3 DEF Uninterrupted, Receiving
  <2>2. durable' = durable /\ db' \in {db, durable}
    BY <1>3 DEF Faults, Fail, PowerLoss, store
  <2>3. QED
    BY <2>1, <2>2 DEF HookInv, Covered, History
<1>4. CASE ApplySegment
  <2> DEFINE old == db.checkpoint
             new == remaining[scanned]
  <2>1. /\ pc = "fetch" /\ pc' = "hook" /\ durable' = durable
        /\ db'.checkpoint = new
        /\ UNCHANGED batch
    BY <1>4 DEF ApplySegment, ApplyTransactions
  <2>2. Receiving = handed /\ Receiving' = handed \cup Segment
    BY <2>1 DEF Receiving, Segment, batch
  <2>3. /\ scanned \in 1..Len(remaining)
        /\ remaining \in Seq(BlockHash) /\ old \in Cursor
        /\ Chained(old, remaining)
    BY <2>1 DEF IInv, TypeOK, ControlInv, Scanned, Db
  <2>4. /\ new \in Seq(Block) /\ new # NoCursor
        /\ Len(new) = BaseHeight(old) + scanned
        /\ old # NoCursor => Extends(new, old)
    BY <2>3, HashFacts, NullAssumption DEF Chained, BlockHash
  <2>5. ASSUME NEW h \in Birthday..Len(new)
        PROVE  Prefix(new, h) \in Receiving'
    <3>1. CASE h <= BaseHeight(old)
      <4>1. old # NoCursor /\ old \in Seq(Block) /\ h \in 0..Len(old)
        BY <2>3, <3>1, BirthdayAssumption DEF BaseHeight, Cursor
      <4>2. Prefix(new, h) = Prefix(old, h)
        BY <2>4, <4>1, SamePrefix
      <4>3. Prefix(old, h) \in handed
        BY <2>2, <4>1 DEF HookInv, Covered, History
      <4>4. QED
        BY <2>2, <4>2, <4>3
    <3>2. CASE h > BaseHeight(old)
      <4> DEFINE j == h - BaseHeight(old)
      <4>1. BaseHeight(old) \in Int
        BY <2>3, BirthdayAssumption DEF BaseHeight, Cursor
      <4>2. j \in 1..scanned /\ j \in 1..Len(remaining) /\ h = BaseHeight(old) + j
        BY <2>3, <2>4, <3>2, <4>1, BirthdayAssumption
      <4> HIDE DEF j
      <4>3. Len(remaining[j]) = h /\ Extends(new, remaining[j])
        BY <2>3, <4>2 DEF Chained
      <4>4. remaining[j] \in Seq(Block)
        BY <2>3, <4>2 DEF BlockHash
      <4>5. Prefix(new, h) = remaining[j]
        BY <2>4, <4>3, <4>4, SamePrefix, WholePrefix, BirthdayAssumption
      <4>6. QED
        BY <2>2, <4>2, <4>5 DEF Segment
    <3>3. BaseHeight(old) \in Int
      BY <2>3, BirthdayAssumption DEF BaseHeight, Cursor
    <3>4. QED
      BY <3>1, <3>2, <3>3, BirthdayAssumption
  <2>6. QED
    BY <2>1, <2>2, <2>4, <2>5 DEF HookInv, Covered, History
<1>5. CASE RewindToCut
  <2> DEFINE old == db.checkpoint
  <2>1. /\ pc = "cut" /\ pc' = "outer" /\ durable' = durable
        /\ db'.checkpoint = cut
    BY <1>5 DEF RewindToCut, Rewind
  <2>2. Receiving = handed /\ Receiving' = handed
    BY <2>1 DEF Receiving
  <2>3. /\ cut # NoCursor /\ cut \in Seq(Block)
        /\ old # NoCursor /\ old \in Seq(Block)
        /\ Len(cut) < Birthday \/ Extends(old, cut)
    BY <2>1 DEF IInv, TypeOK, ControlInv, CutBelowFork, Db, Cursor
  <2>4. ASSUME NEW h \in Birthday..Len(cut)
        PROVE  Prefix(cut, h) \in handed
    <3>1. h \in 0..Len(cut) /\ Extends(old, cut)
      BY <2>3, BirthdayAssumption
    <3>2. Prefix(cut, h) = Prefix(old, h) /\ h \in Birthday..Len(old)
      BY <2>3, <3>1, SamePrefix DEF Extends
    <3>3. QED
      BY <2>2, <2>3, <3>2 DEF HookInv, Covered, History
  <2>5. QED
    BY <2>1, <2>2, <2>3, <2>4 DEF HookInv, Covered, History
<1>6. CASE SleepAtTip \/ Wake \/ OpenStream \/ Read \/ FetchCut \/ Scan
             \/ BlockNotFound \/ Restart
  <2>1. pc # "hook" /\ UNCHANGED store
    BY <1>6 DEF SleepAtTip, Wake, OpenStream, Read, BrokenSeam, BrokenLink,
                BufferBlock, FlushBatch, EndOfStream, FetchCut, Scan,
                BlockNotFound, Restart
  <2>2. Receiving \subseteq Receiving'
    BY <2>1 DEF Receiving
  <2>3. QED
    BY <2>1, <2>2, StoreUnchanged
<1>7. QED
  BY <1>1, <1>2, <1>3, <1>4, <1>5, <1>6 DEF Next, Engine, Process

LEMMA HookStep ==
    ASSUME IInv, HookInv, [HookNext /\ Uninterrupted]_hookVars
    PROVE  HookInv'
<1>1. CASE UNCHANGED hookVars
  <2>1. UNCHANGED <<store, pc, batch, handed>>
    BY <1>1 DEF hookVars, vars
  <2>2. Receiving' = Receiving
    BY <2>1 DEF Receiving, Segment, batch
  <2>3. QED
    BY <2>1, <2>2, StoreUnchanged
<1>2. CASE ReceiveSegment
  <2>1. UNCHANGED store /\ handed' = handed \cup Segment
    BY <1>2 DEF ReceiveSegment, HandBlocks
  <2>2. Receiving \subseteq Receiving'
    BY <2>1 DEF Receiving
  <2>3. QED
    BY <2>1, <2>2, StoreUnchanged
<1>3. CASE Next /\ ~HandBlocks /\ UNCHANGED handed /\ Uninterrupted
  BY <1>3, HookEngine
<1>4. QED
  BY <1>1, <1>2, <1>3 DEF HookNext

LEMMA HookIsEngine == UninterruptedSpec => Spec
<1>1. HookInit => Init
  BY DEF HookInit
<1>2. [HookNext /\ Uninterrupted]_hookVars => [Next]_vars
  BY DEF HookNext, ReceiveSegment, Next, Engine, Process, hookVars
<1>3. QED
  BY <1>1, <1>2, PTL DEF UninterruptedSpec, Spec

\* Across forks, rewinds, retries, restarts and power losses: every block that
\* the store's checkpoint covers has been handed to apply_blocks, if no error or
\* crash comes between the two calls of process_batch.
THEOREM HookMissesNothing == UninterruptedSpec => []AppliedBlocksHanded
<1>1. HookInit => HookInv
  BY BirthdayAssumption
     DEF HookInit, Init, HookInv, Covered, EmptyDb, History
<1>2. UninterruptedSpec => []IInv
  BY HookIsEngine, InvariantHolds, PTL
<1>3. IInv /\ HookInv /\ [HookNext /\ Uninterrupted]_hookVars => HookInv'
  BY HookStep
<1>4. HookInv => AppliedBlocksHanded
  BY DEF HookInv, Covered, Receiving, AppliedBlocksHanded
<1>5. QED
  BY <1>1, <1>2, <1>3, <1>4, PTL DEF UninterruptedSpec
=============================================================================
