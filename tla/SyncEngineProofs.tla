-------------------------- MODULE SyncEngineProofs --------------------------
(***************************************************************************)
(* The theorems about SyncEngine, for every value of its constants.        *)
(***************************************************************************)
EXTENDS LedgerProofs, SyncInvariant

-----------------------------------------------------------------------------
(* Sequences. *)

LEMMA TailFacts ==
    ASSUME NEW S, NEW s \in Seq(S), s # <<>>
    PROVE  /\ Head(s) \in S
           /\ Head(s) = s[1]
           /\ Len(s) \in Nat \ {0}
           /\ Tail(s) \in Seq(S)
           /\ Len(Tail(s)) = Len(s) - 1
           /\ \A i \in 1..Len(s) - 1 : Tail(s)[i] = s[i + 1]
OBVIOUS

LEMMA RestFacts ==
    ASSUME NEW S, NEW s \in Seq(S), NEW k \in 0..Len(s)
    PROVE  /\ SubSeq(s, k + 1, Len(s)) \in Seq(S)
           /\ Len(SubSeq(s, k + 1, Len(s))) = Len(s) - k
           /\ \A i \in 1..Len(s) - k : SubSeq(s, k + 1, Len(s))[i] = s[k + i]
OBVIOUS

LEMMA HashFacts ==
    ASSUME NEW c \in BlockHash
    PROVE  /\ c \in Seq(Block) /\ Len(c) \in Nat \ {0}
           /\ c \in Cursor /\ c # NoCursor
           /\ Tip(c) \in Block
           /\ CountOf(c) \in Nat
           /\ PrevHash(c) \in Seq(Block)
<1>1. c \in Seq(Block) /\ Len(c) \in Nat \ {0} /\ Tip(c) \in Block
  BY DEF BlockHash, Tip
<1>2. CountOf(c) \in Nat
  BY <1>1, EngineAssumption DEF Block, CountOf
<1>3. PrevHash(c) \in Seq(Block)
  BY <1>1, PrefixFacts DEF PrevHash
<1>4. QED
  BY <1>1, <1>2, <1>3, NullAssumption DEF Cursor
-----------------------------------------------------------------------------
(* Types. *)

LEMMA ServerType ==
    ASSUME chain \in Seq(Block), peak \in Nat, ServerStep
    PROVE  chain' \in Seq(Block) /\ peak' \in Nat
<1>1. CASE Disconnect
  BY <1>1, PrefixFacts DEF Disconnect
<1>2. ASSUME NEW b \in Block, Mine(b)
      PROVE  chain' \in Seq(Block) /\ peak' \in Nat
  BY <1>2 DEF Mine
<1>3. QED
  BY <1>1, <1>2 DEF ServerStep

LEMMA DropLocalsType ==
    ASSUME DropLocals
    PROVE  /\ checkpoint' \in Cursor /\ prior' \in Cursor /\ cut' \in Cursor
           /\ next' \in Nat \ {0} /\ upto' = 0
           /\ stream' \in Seq(BlockHash) /\ blocks' \in Seq(BlockHash)
           /\ output_count' \in Nat
           /\ remaining' \in Seq(BlockHash)
           /\ scanned' \in 0..Len(remaining')
           /\ found' \subseteq WalletTx
BY DEF DropLocals, Cursor

LEMMA TypeStep ==
    ASSUME IInv, [Next]_vars
    PROVE  TypeOK'
<1> USE DEF IInv, TypeOK
<1>1. CASE SleepAtTip \/ Wake \/ Restart
  BY <1>1 DEF SleepAtTip, Wake, Restart, server, store, link, feed, buffer, batch
<1>2. CASE OpenStream
  <2>1. StartHeight \in Nat \ {0} /\ StartHeight >= Birthday
    BY BirthdayAssumption DEF StartHeight, Db, Cursor, AboveBirthday
  <2>2. db.checkpoint \in Cursor
    BY DEF Db
  <2>3. QED
    BY <1>2, <2>1, <2>2 DEF OpenStream, server, store, buffer, batch
<1>3. CASE ServeBlock
  <2>1. Prefix(chain, next) \in BlockHash
    BY <1>3, PrefixFacts DEF ServeBlock, BlockHash
  <2>2. next' >= Birthday
    BY <1>3, BirthdayAssumption DEF ServeBlock
  <2>3. QED
    BY <1>3, <2>1, <2>2 DEF ServeBlock, server, store, link, buffer, batch
<1>4. CASE BrokenSeam
  BY <1>4 DEF BrokenSeam, server, store, link, feed, buffer, batch
<1>5. CASE BrokenLink
  BY <1>5, DropLocalsType DEF BrokenLink, server, store
<1>6. CASE BufferBlock \/ FlushBatch
  <2>1. Head(stream) \in BlockHash /\ Tail(stream) \in Seq(BlockHash)
    BY <1>6, TailFacts DEF BufferBlock, FlushBatch
  <2>2. CountOf(Head(stream)) \in Nat /\ Head(stream) \in Cursor
    BY <2>1, HashFacts
  <2>3. CASE BufferBlock
    BY <2>1, <2>2, <2>3, AppendFacts DEF BufferBlock, server, store, batch
  <2>4. CASE FlushBatch
    <3>1. ControlInv /\ pc = "stream"
      BY <2>4 DEF FlushBatch
    <3>2. remaining = <<>>
      BY <3>1 DEF ControlInv
    <3>3. <<Head(stream)>> \in Seq(BlockHash)
      BY <2>1
    <3>4. QED
      BY <2>1, <2>2, <2>4, <3>2, <3>3 DEF FlushBatch, server, store
  <2>5. QED
    BY <1>6, <2>3, <2>4
<1>7. CASE EndOfStream
  <2>1. remaining = <<>>
    BY <1>7 DEF EndOfStream, ControlInv
  <2>2. scanned = 0
    BY <2>1
  <2>3. CASE blocks # <<>>
    BY <1>7, <2>2, <2>3 DEF EndOfStream, server, store, link
  <2>4. CASE blocks = <<>>
    BY <1>7, <2>4, DropLocalsType DEF EndOfStream, server, store
  <2>5. QED
    BY <2>3, <2>4
<1>8. CASE FetchCut
  <2>1. CutHeight \in 0..Len(chain)
    BY <1>8, BirthdayAssumption, EngineAssumption
       DEF FetchCut, CutHeight, ControlInv, Cursor
  <2>2. Prefix(chain, CutHeight) \in Cursor
    BY <2>1, PrefixFacts DEF Cursor
  <2>3. QED
    BY <1>8, <2>2 DEF FetchCut, server, store, feed, buffer, batch
<1>9. CASE RewindToCut
  BY <1>9, RewindType, DropLocalsType DEF RewindToCut, server
<1>10. CASE Scan
  <2>1. PICK k \in 1..Len(remaining) :
          /\ scanned' = k
          /\ found' = UNION {Detect(Nullifiers(db), remaining[i]) : i \in 1..k}
    BY <1>10 DEF Scan
  <2>2. \A i \in 1..k : remaining[i] \in BlockHash
    OBVIOUS
  <2>3. found' \subseteq WalletTx
    BY <2>1, <2>2, DetectType
  <2>4. QED
    BY <1>10, <2>1, <2>3 DEF Scan, server, store, link, feed, buffer
<1>11. CASE ApplySegment
  <2>1. remaining[scanned] \in Cursor
    BY <1>11, HashFacts DEF ApplySegment, ControlInv, Scanned
  <2>2. db' \in Db
    BY <1>11, <2>1, ApplyType DEF ApplySegment
  <2>3. QED
    BY <1>11, <2>2 DEF ApplySegment, server, link, feed, buffer, batch
<1>12. CASE HandBlocks
  <2> DEFINE rest == SubSeq(remaining, scanned + 1, Len(remaining))
  <2>1. rest \in Seq(BlockHash)
    BY RestFacts
  <2>2. CASE rest = <<>> /\ blocks = <<>>
    BY <1>12, <2>2, DropLocalsType DEF HandBlocks, server, store
  <2>3. CASE ~(rest = <<>> /\ blocks = <<>>)
    <3>1. /\ pc' \in {"stream", "scan"} /\ remaining' = rest
          /\ scanned' = 0 /\ found' = {}
          /\ UNCHANGED <<server, store, link, feed, buffer>>
      BY <1>12, <2>3 DEF HandBlocks
    <3> HIDE DEF rest
    <3>2. QED
      BY <2>1, <3>1 DEF server, store, link, feed, buffer
  <2>4. QED
    BY <2>2, <2>3
<1>13. CASE Fail \/ BlockNotFound \/ PowerLoss
  BY <1>13, DropLocalsType DEF Fail, BlockNotFound, PowerLoss, server, store
<1>14. CASE WalSync
  BY <1>14 DEF WalSync, server, link, feed, buffer, batch
<1>15. CASE ServerMoves
  BY <1>15, ServerType DEF ServerMoves, store, link, feed, buffer, batch
<1>16. CASE UNCHANGED vars
  BY <1>16 DEF vars, server, store, link, feed, buffer, batch
<1>17. QED
  BY <1>1, <1>2, <1>3, <1>4, <1>5, <1>6, <1>7, <1>8, <1>9, <1>10, <1>11,
     <1>12, <1>13, <1>14, <1>15, <1>16
     DEF Next, Engine, Read, Process, Faults
-----------------------------------------------------------------------------
(* The server. *)

LEMMA ServerStepInv ==
    ASSUME chain \in Seq(Block), peak \in Nat, ServerInv, ServerStep
    PROVE  /\ ServerInv'
           /\ \A c \in Seq(Block) :
                Settled(c, chain, peak) => Settled(c, chain', peak')
<1>1. ReorgLimit \in Nat
  BY HeightAssumption
<1>2. CASE Disconnect
  <2>1. Len(chain) - 1 \in 0..Len(chain)
    BY <1>2 DEF Disconnect
  <2>2. /\ chain' = Prefix(chain, Len(chain) - 1)
        /\ Len(chain') = Len(chain) - 1
        /\ \A i \in 1..Len(chain') : chain'[i] = chain[i]
        /\ Valid(chain')
        /\ peak' = peak /\ peak - ReorgLimit <= Len(chain')
    BY <1>2, <2>1, PrefixFacts, ValidPrefix DEF Disconnect, ServerInv
  <2>3. ServerInv'
    BY <1>1, <2>2 DEF ServerInv
  <2>4. ASSUME NEW c \in Seq(Block), Settled(c, chain, peak)
        PROVE  Settled(c, chain', peak')
    <3>1. ASSUME NEW k \in 1..Len(c), k <= Len(c) - ReorgLimit
          PROVE  k \in 1..Len(chain')
      BY <1>1, <2>2, <2>4, <3>1 DEF Settled
    <3>2. QED
      BY <2>2, <2>4, <3>1 DEF Settled
  <2>5. QED
    BY <2>3, <2>4
<1>3. ASSUME NEW b \in Block, Mine(b)
      PROVE  /\ ServerInv'
             /\ \A c \in Seq(Block) :
                  Settled(c, chain, peak) => Settled(c, chain', peak')
  <2>1. /\ Len(chain') = Len(chain) + 1
        /\ \A i \in 1..Len(chain) : chain'[i] = chain[i]
        /\ Valid(chain')
    BY <1>3, AppendFacts, ValidAppend DEF Mine, ServerInv
  <2>2. peak' \in Nat /\ peak' >= peak /\ peak' >= Len(chain')
        /\ peak' - ReorgLimit <= Len(chain')
    BY <1>1, <1>3, <2>1 DEF Mine, ServerInv
  <2>3. ServerInv'
    BY <2>1, <2>2 DEF ServerInv
  <2>4. ASSUME NEW c \in Seq(Block), Settled(c, chain, peak)
        PROVE  Settled(c, chain', peak')
    <3>1. ASSUME NEW k \in 1..Len(c), k <= Len(c) - ReorgLimit
          PROVE  k \in 1..Len(chain)
      BY <1>1, <2>4, <3>1 DEF Settled, ServerInv
    <3>2. QED
      BY <2>1, <2>2, <2>4, <3>1 DEF Settled
  <2>5. QED
    BY <2>3, <2>4
<1>4. QED
  BY <1>2, <1>3 DEF ServerStep

LEMMA SettledPrefix ==
    ASSUME chain \in Seq(Block), peak \in Nat, ServerInv, NEW k \in 0..Len(chain)
    PROVE  Settled(Prefix(chain, k), chain, peak)
BY PrefixFacts, ValidPrefix DEF Settled, ServerInv

LEMMA ServerInvStep ==
    ASSUME IInv, [Next]_vars
    PROVE  ServerInv'
<1>1. CASE ServerMoves
  BY <1>1, ServerStepInv DEF ServerMoves, IInv, TypeOK
<1>2. CASE UNCHANGED server
  BY <1>2 DEF server, ServerInv, IInv
<1>3. QED
  BY <1>1, <1>2
     DEF Next, vars, Engine, Read, Process, Faults, SleepAtTip, Wake, Restart,
         OpenStream, ServeBlock, BrokenSeam, BrokenLink, BufferBlock, FlushBatch,
         EndOfStream, FetchCut, RewindToCut, Scan, ApplySegment, HandBlocks,
         BlockNotFound, Fail, PowerLoss, WalSync
-----------------------------------------------------------------------------
(* What the engine knows was served once. *)

LEMMA DropLocalsHeld ==
    ASSUME DropLocals
    PROVE  Held' = {}
BY DEF DropLocals, Held, Range

LEMMA HeldStep ==
    ASSUME IInv, Next, UNCHANGED server
    PROVE  Held' \subseteq Held \cup {Prefix(chain, k) : k \in 0..Len(chain)}
<1> USE DEF IInv, TypeOK
<1>1. CASE SleepAtTip \/ Wake \/ Restart \/ OpenStream \/ BrokenSeam
  BY <1>1 DEF SleepAtTip, Wake, Restart, OpenStream, BrokenSeam, link, feed,
              buffer, batch, Held
<1>2. CASE ServeBlock
  <2>1. Range(stream') \subseteq Range(stream) \cup {Prefix(chain, next)}
    BY <1>2 DEF ServeBlock, Range
  <2>2. next \in 0..Len(chain)
    BY <1>2 DEF ServeBlock
  <2>3. QED
    BY <1>2, <2>1, <2>2 DEF ServeBlock, link, buffer, batch, Held
<1>3. CASE BrokenLink \/ RewindToCut \/ Fail \/ BlockNotFound \/ PowerLoss
  BY <1>3, DropLocalsHeld
     DEF BrokenLink, RewindToCut, Fail, BlockNotFound, PowerLoss
<1>4. CASE BufferBlock \/ FlushBatch
  <2>1. Range(Tail(stream)) \subseteq Range(stream) /\ Head(stream) \in Range(stream)
    BY <1>4, TailFacts DEF BufferBlock, FlushBatch, Range
  <2>2. Range(blocks') \cup Range(remaining')
          \subseteq Range(blocks) \cup Range(remaining) \cup {Head(stream)}
    <3>1. Range(Append(blocks, Head(stream))) \subseteq Range(blocks) \cup {Head(stream)}
      BY DEF Range
    <3>2. Range(<<Head(stream)>>) = {Head(stream)}
      BY DEF Range
    <3>3. CASE BufferBlock
      BY <3>1, <3>3 DEF BufferBlock, batch
    <3>4. CASE FlushBatch
      BY <3>2, <3>4 DEF FlushBatch
    <3>5. QED
      BY <1>4, <3>3, <3>4
  <2>3. cut' = cut /\ stream' = Tail(stream)
    BY <1>4 DEF BufferBlock, FlushBatch
  <2>4. QED
    BY <2>1, <2>2, <2>3 DEF Held
<1>5. CASE EndOfStream
  BY <1>5, DropLocalsHeld DEF EndOfStream, link, Held, Range
<1>6. CASE FetchCut
  <2>1. CutHeight \in 0..Len(chain)
    BY <1>6, BirthdayAssumption, EngineAssumption
       DEF FetchCut, CutHeight, ControlInv, Cursor
  <2>2. QED
    BY <1>6, <2>1 DEF FetchCut, feed, buffer, batch, Held
<1>7. CASE Scan \/ ApplySegment \/ WalSync
  BY <1>7 DEF Scan, ApplySegment, WalSync, link, feed, buffer, batch, Held
<1>8. CASE HandBlocks
  <2> DEFINE rest == SubSeq(remaining, scanned + 1, Len(remaining))
  <2>1. Range(rest) \subseteq Range(remaining)
    BY RestFacts DEF Range
  <2>2. CASE rest = <<>> /\ blocks = <<>>
    BY <1>8, <2>2, DropLocalsHeld DEF HandBlocks
  <2>3. CASE ~(rest = <<>> /\ blocks = <<>>)
    <3>1. remaining' = rest /\ UNCHANGED <<link, feed, buffer>>
      BY <1>8, <2>3 DEF HandBlocks
    <3>2. QED
      BY <2>1, <3>1 DEF link, feed, buffer, Held
  <2>4. QED
    BY <2>2, <2>3
<1>9. CASE ServerMoves
  BY <1>9 DEF ServerMoves, link, feed, buffer, batch, Held
<1>10. QED
  BY <1>1, <1>2, <1>3, <1>4, <1>5, <1>6, <1>7, <1>8, <1>9
     DEF Next, Engine, Read, Process, Faults

\* A checkpoint comes from the store or from a block held.
LEMMA CheckpointStep ==
    ASSUME IInv, Next
    PROVE  /\ db'.checkpoint \in {db.checkpoint, durable.checkpoint} \cup Held
           /\ durable'.checkpoint \in {db.checkpoint, durable.checkpoint}
<1>1. CASE RewindToCut
  BY <1>1 DEF RewindToCut, Rewind, IInv, ControlInv, Held
<1>2. CASE ApplySegment
  <2>1. remaining[scanned] \in Range(remaining)
    BY <1>2 DEF ApplySegment, IInv, TypeOK, ControlInv, Scanned, Range
  <2>2. QED
    BY <1>2, <2>1 DEF ApplySegment, ApplyTransactions, Held
<1>3. CASE ~RewindToCut /\ ~ApplySegment
  BY <1>3
     DEF Next, Engine, Read, Process, Faults, SleepAtTip, Wake, Restart,
         OpenStream, ServeBlock, BrokenSeam, BrokenLink, BufferBlock, FlushBatch,
         EndOfStream, FetchCut, Scan, HandBlocks, BlockNotFound, Fail,
         PowerLoss, WalSync, ServerMoves, store
<1>4. QED
  BY <1>1, <1>2, <1>3

LEMMA KnownStep ==
    ASSUME IInv, Next, UNCHANGED server
    PROVE  Known' \subseteq Known \cup {Prefix(chain, k) : k \in 0..Len(chain)}
BY HeldStep, CheckpointStep DEF Known

LEMMA KnownType ==
    ASSUME TypeOK
    PROVE  Known \subseteq Seq(Block)
BY DEF TypeOK, Known, Held, Db, Cursor, Range, BlockHash

LEMMA SettledStep ==
    ASSUME IInv, [Next]_vars
    PROVE  SettledInv'
<1> USE DEF IInv, SettledInv
<1>0. Known \subseteq Seq(Block) /\ chain \in Seq(Block) /\ peak \in Nat
  BY KnownType DEF TypeOK
<1>1. CASE ServerMoves
  <2>1. Known' = Known
    BY <1>1 DEF ServerMoves, store, link, feed, buffer, batch, Known, Held
  <2>2. QED
    BY <1>0, <1>1, <2>1, ServerStepInv DEF ServerMoves
<1>2. CASE Next /\ UNCHANGED server
  <2>1. Known' \subseteq Known \cup {Prefix(chain, k) : k \in 0..Len(chain)}
    BY <1>2, KnownStep
  <2>2. QED
    BY <1>0, <1>2, <2>1, SettledPrefix DEF server
<1>3. CASE UNCHANGED vars
  BY <1>3 DEF vars, server, store, link, feed, buffer, batch, Known, Held
<1>4. Next => ServerMoves \/ UNCHANGED server
  BY DEF Next, Engine, Read, Process, Faults, SleepAtTip, Wake, Restart,
         OpenStream, ServeBlock, BrokenSeam, BrokenLink, BufferBlock, FlushBatch,
         EndOfStream, FetchCut, RewindToCut, Scan, ApplySegment, HandBlocks,
         BlockNotFound, Fail, PowerLoss, WalSync
<1>5. QED
  BY <1>1, <1>2, <1>3, <1>4
-----------------------------------------------------------------------------
(* Heights in the stream. *)

LEMMA HeightsAppend ==
    ASSUME NEW s \in Seq(BlockHash), NEW n \in Nat \ {0}, NEW b \in BlockHash,
           HeightsBelow(s, n), Len(b) = n
    PROVE  HeightsBelow(Append(s, b), n + 1)
<1> DEFINE e == Append(s, b)
<1>1. /\ Len(s) \in Nat
      /\ Len(e) = Len(s) + 1
      /\ \A i \in 1..Len(s) : e[i] = s[i]
      /\ e[Len(s) + 1] = b
  BY AppendFacts
<1> HIDE DEF e
<1>2. ASSUME NEW i \in 1..Len(e)
      PROVE  Len(e[i]) = (n + 1) - 1 - Len(e) + i
  <2>1. CASE i \in 1..Len(s)
    BY <1>1, <2>1 DEF HeightsBelow
  <2>2. CASE i = Len(s) + 1
    BY <1>1, <2>2
  <2>3. QED
    BY <1>1, <2>1, <2>2
<1>3. QED
  BY <1>2 DEF HeightsBelow, e

LEMMA HeightsTail ==
    ASSUME NEW s \in Seq(BlockHash), NEW n \in Nat \ {0}, s # <<>>,
           HeightsBelow(s, n)
    PROVE  HeightsBelow(Tail(s), n)
<1> DEFINE e == Tail(s)
<1>1. /\ Len(s) \in Nat \ {0}
      /\ Len(e) = Len(s) - 1
      /\ \A i \in 1..Len(s) - 1 : e[i] = s[i + 1]
  BY TailFacts
<1> HIDE DEF e
<1>2. ASSUME NEW i \in 1..Len(e)
      PROVE  Len(e[i]) = n - 1 - Len(e) + i
  <2>1. i \in Nat /\ i + 1 \in 1..Len(s) /\ e[i] = s[i + 1]
    BY <1>1
  <2>2. Len(e[i]) = n - 1 - Len(s) + (i + 1)
    BY <2>1 DEF HeightsBelow
  <2>3. QED
    BY <1>1, <2>1, <2>2
<1>3. QED
  BY <1>2 DEF HeightsBelow, e

LEMMA StreamStep ==
    ASSUME IInv, [Next]_vars
    PROVE  StreamInv'
<1> USE DEF IInv, TypeOK
<1>0. /\ stream \in Seq(BlockHash) /\ Len(stream) \in Nat
      /\ next \in Nat \ {0} /\ StreamInv
  OBVIOUS
<1>1. ASSUME DropLocals, pc' # "stream"
      PROVE  StreamInv'
  BY <1>1 DEF DropLocals, StreamInv, HeightsBelow
<1>2. ASSUME UNCHANGED feed, pc' = "stream" => prior' # NoCursor
      PROVE  StreamInv'
  BY <1>2 DEF feed, StreamInv
<1>3. CASE OpenStream
  <2>1. /\ stream' = <<>>
        /\ next' \in Nat \ {0}
        /\ prior' = NoCursor => next' = Birthday
    BY <1>3, BirthdayAssumption
       DEF OpenStream, ControlInv, Idle, StartHeight, Db, Cursor
  <2>2. QED
    BY <2>1, BirthdayAssumption DEF StreamInv, HeightsBelow
<1>4. CASE ServeBlock
  <2>1. chain \in Seq(Block) /\ next \in 0..Len(chain) /\ next > 0
    BY <1>4 DEF ServeBlock
  <2>2. Prefix(chain, next) \in BlockHash /\ Len(Prefix(chain, next)) = next
    BY <2>1, PrefixFacts DEF BlockHash
  <2>3. HeightsBelow(stream', next')
    BY <1>0, <1>4, <2>2, HeightsAppend DEF ServeBlock, StreamInv
  <2>4. /\ Len(stream') = Len(stream) + 1 /\ next' = next + 1
        /\ UNCHANGED <<pc, prior>>
    BY <1>4, <2>2, AppendFacts DEF ServeBlock, link
  <2>5. Len(stream') < next'
    BY <1>0, <2>4 DEF StreamInv
  <2>6. ASSUME pc' = "stream", prior' = NoCursor
        PROVE  next' = Birthday + Len(stream')
    <3>1. next = Birthday + Len(stream)
      BY <1>0, <2>4, <2>6 DEF StreamInv
    <3>2. QED
      BY <1>0, <2>4, <3>1, BirthdayAssumption
  <2>7. QED
    BY <2>3, <2>5, <2>6 DEF StreamInv
<1>5. CASE BufferBlock \/ FlushBatch
  <2>1. /\ stream # <<>> /\ stream' = Tail(stream) /\ next' = next
        /\ prior' = Head(stream)
    BY <1>5 DEF BufferBlock, FlushBatch
  <2>2. prior' # NoCursor
    BY <2>1, TailFacts, HashFacts
  <2>3. Len(stream) \in Nat \ {0} /\ Len(stream') = Len(stream) - 1
    BY <2>1, TailFacts
  <2>4. HeightsBelow(stream', next')
    BY <1>0, <2>1, HeightsTail DEF StreamInv
  <2>5. QED
    BY <1>0, <2>1, <2>2, <2>3, <2>4 DEF StreamInv
<1>6. CASE EndOfStream
  <2>1. CASE blocks = <<>>
    BY <1>1, <1>6, <2>1 DEF EndOfStream
  <2>2. CASE blocks # <<>>
    BY <1>6, <2>2 DEF EndOfStream, StreamInv, HeightsBelow
  <2>3. QED
    BY <2>1, <2>2
<1>7. CASE HandBlocks
  <2> DEFINE rest == SubSeq(remaining, scanned + 1, Len(remaining))
  <2>1. CASE rest = <<>> /\ blocks = <<>>
    BY <1>1, <1>7, <2>1 DEF HandBlocks
  <2>2. CASE rest = <<>> /\ blocks # <<>>
    <3>1. prior \in BlockHash
      BY <1>7, <2>2 DEF HandBlocks, ControlInv, Waiting, LastRead
    <3>2. prior' # NoCursor /\ UNCHANGED feed
      BY <1>7, <2>2, <3>1, HashFacts DEF HandBlocks, link
    <3>3. QED
      BY <1>2, <3>2
  <2>3. CASE rest # <<>>
    <3>1. pc' = "scan" /\ UNCHANGED feed
      BY <1>7, <2>3 DEF HandBlocks
    <3>2. QED
      BY <1>2, <3>1
  <2>4. QED
    BY <2>1, <2>2, <2>3
<1>8. CASE \/ SleepAtTip \/ Wake \/ Restart \/ BrokenSeam \/ FetchCut \/ Scan
           \/ ApplySegment
  BY <1>2, <1>8
     DEF SleepAtTip, Wake, Restart, BrokenSeam, FetchCut, Scan, ApplySegment
<1>9. CASE BrokenLink \/ RewindToCut \/ Fail \/ BlockNotFound \/ PowerLoss
  BY <1>1, <1>9 DEF BrokenLink, RewindToCut, Fail, BlockNotFound, PowerLoss
<1>10. CASE WalSync \/ ServerMoves \/ UNCHANGED vars
  BY <1>10 DEF WalSync, ServerMoves, vars, link, feed, StreamInv
<1>11. QED
  BY <1>3, <1>4, <1>5, <1>6, <1>7, <1>8, <1>9, <1>10
     DEF Next, Engine, Read, Process, Faults
-----------------------------------------------------------------------------
(* Consecutive blocks. *)

LEMMA ExtendsTransitive ==
    ASSUME NEW a \in Seq(Block), NEW b \in Seq(Block), NEW c \in Seq(Block),
           Extends(b, a), Extends(c, b)
    PROVE  Extends(c, a)
BY DEF Extends

LEMMA ExtendsParent ==
    ASSUME NEW b \in BlockHash, NEW c \in Seq(Block), PrevHash(b) = c
    PROVE  Extends(b, c) /\ Len(b) = Len(c) + 1
<1>1. b \in Seq(Block) /\ Len(b) \in Nat \ {0}
  BY HashFacts
<1>2. /\ Len(c) = Len(b) - 1
      /\ \A i \in 1..Len(b) - 1 : c[i] = b[i]
  BY <1>1, PrefixFacts DEF PrevHash
<1>3. QED
  BY <1>1, <1>2 DEF Extends

LEMMA ChainedAppend ==
    ASSUME NEW cursor \in Cursor, NEW s \in Seq(BlockHash), NEW b \in BlockHash,
           Chained(cursor, s),
           s # <<>> => PrevHash(b) = s[Len(s)],
           s = <<>> /\ cursor = NoCursor => Len(b) = Birthday,
           s = <<>> /\ cursor # NoCursor => PrevHash(b) = cursor
    PROVE  Chained(cursor, Append(s, b))
<1> DEFINE e == Append(s, b)
           n == Len(s) + 1
<1>1. /\ Len(s) \in Nat /\ n \in Nat \ {0}
      /\ Len(e) = n
      /\ \A i \in 1..Len(s) : e[i] = s[i] /\ s[i] \in BlockHash
      /\ e[n] = b
  BY AppendFacts
<1>2. BaseHeight(cursor) \in Nat
  BY BirthdayAssumption DEF BaseHeight, Cursor
<1>3. /\ Len(b) = BaseHeight(cursor) + n
      /\ cursor # NoCursor => Extends(b, cursor)
      /\ \A i \in 1..Len(s) : Extends(b, s[i])
  <2>1. CASE s = <<>>
    <3>1. CASE cursor = NoCursor
      BY <2>1, <3>1, BirthdayAssumption DEF BaseHeight
    <3>2. CASE cursor # NoCursor
      BY <2>1, <3>2, ExtendsParent DEF BaseHeight, Cursor
    <3>3. QED
      BY <3>1, <3>2
  <2>2. CASE s # <<>>
    <3> DEFINE last == s[Len(s)]
    <3>1. Len(s) \in 1..Len(s) /\ last \in BlockHash /\ last \in Seq(Block)
      BY <2>2, <1>1, HashFacts
    <3>2. Extends(b, last) /\ Len(b) = Len(last) + 1
      BY <2>2, <3>1, ExtendsParent
    <3>3. /\ Len(last) = BaseHeight(cursor) + Len(s)
          /\ cursor # NoCursor => Extends(last, cursor)
          /\ \A i \in 1..Len(s) : Extends(last, s[i])
      BY <3>1 DEF Chained
    <3>4. b \in Seq(Block) /\ \A i \in 1..Len(s) : s[i] \in Seq(Block)
      BY <1>1, HashFacts
    <3> HIDE DEF last
    <3>5. \A i \in 1..Len(s) : Extends(b, s[i])
      BY <3>1, <3>2, <3>3, <3>4, ExtendsTransitive
    <3>6. cursor # NoCursor => Extends(b, cursor)
      BY <3>1, <3>2, <3>3, <3>4, ExtendsTransitive DEF Cursor
    <3>7. QED
      BY <1>1, <1>2, <3>2, <3>3, <3>5, <3>6
  <2>3. QED
    BY <2>1, <2>2
<1>4. Extends(b, b)
  BY HashFacts DEF Extends
<1> HIDE DEF e, n
<1>5. ASSUME NEW j \in 1..Len(e)
      PROVE  /\ Len(e[j]) = BaseHeight(cursor) + j
             /\ cursor # NoCursor => Extends(e[j], cursor)
             /\ \A i \in 1..j : Extends(e[j], e[i])
  <2>1. CASE j \in 1..Len(s)
    BY <1>1, <2>1 DEF Chained
  <2>2. CASE j = n
    <3>1. \A i \in 1..n : i \in 1..Len(s) \/ i = n
      BY <1>1 DEF n
    <3>2. QED
      BY <1>1, <1>3, <1>4, <2>2, <3>1
  <2>3. QED
    BY <1>1, <2>1, <2>2 DEF n
<1>6. QED
  BY <1>5 DEF Chained, e

LEMMA ChainedRest ==
    ASSUME NEW cursor \in Cursor, NEW s \in Seq(BlockHash), NEW k \in 1..Len(s),
           Chained(cursor, s)
    PROVE  Chained(s[k], SubSeq(s, k + 1, Len(s)))
<1> DEFINE e == SubSeq(s, k + 1, Len(s))
<1>1. /\ Len(s) \in Nat /\ Len(e) = Len(s) - k
      /\ \A i \in 1..Len(s) - k : e[i] = s[k + i]
  BY RestFacts
<1>2. BaseHeight(cursor) \in Nat
  BY BirthdayAssumption DEF BaseHeight, Cursor
<1>3. s[k] # NoCursor /\ BaseHeight(s[k]) = BaseHeight(cursor) + k
  BY HashFacts DEF BaseHeight, Chained
<1> HIDE DEF e
<1>4. ASSUME NEW j \in 1..Len(e)
      PROVE  /\ Len(e[j]) = BaseHeight(s[k]) + j
             /\ Extends(e[j], s[k])
             /\ \A i \in 1..j : Extends(e[j], e[i])
  <2>1. /\ j \in Nat /\ k + j \in 1..Len(s) /\ k \in 1..k + j /\ e[j] = s[k + j]
        /\ \A i \in 1..j : k + i \in 1..k + j /\ e[i] = s[k + i]
    BY <1>1
  <2>2. /\ Len(s[k + j]) = BaseHeight(cursor) + (k + j)
        /\ \A i \in 1..k + j : Extends(s[k + j], s[i])
    BY <2>1 DEF Chained
  <2>3. Len(e[j]) = BaseHeight(s[k]) + j
    BY <1>2, <1>3, <2>1, <2>2
  <2>4. Extends(e[j], s[k])
    BY <2>1, <2>2
  <2>5. ASSUME NEW i \in 1..j
        PROVE  Extends(e[j], e[i])
    BY <2>1, <2>2
  <2>6. QED
    BY <2>3, <2>4, <2>5
<1>5. QED
  BY <1>3, <1>4 DEF Chained, e
-----------------------------------------------------------------------------
(* What the engine's locals hold where it is suspended. *)

LEMMA DropLocalsIdle ==
    ASSUME DropLocals
    PROVE  Idle'
BY DEF DropLocals, Idle

LEMMA ReadingStep ==
    ASSUME IInv, BufferBlock
    PROVE  Reading' /\ remaining' = <<>>
<1> USE DEF IInv
<1>1. /\ pc = "stream" /\ stream # <<>> /\ remaining = <<>> /\ Reading /\ StreamInv
      /\ stream \in Seq(BlockHash) /\ blocks \in Seq(BlockHash)
      /\ checkpoint \in Cursor /\ prior \in Cursor /\ db.checkpoint \in Cursor
  BY DEF BufferBlock, ControlInv, TypeOK, Db
<1> DEFINE b == Head(stream)
<1>2. /\ b \in BlockHash
      /\ prior # NoCursor => PrevHash(b) = prior
      /\ prior' = b /\ blocks' = Append(blocks, b)
      /\ UNCHANGED <<db, checkpoint, remaining>>
  BY <1>1, TailFacts DEF BufferBlock, LinkBroken, store, batch
<1>3. prior = NoCursor => Len(b) = Birthday
  <2>1. Len(stream) \in Nat \ {0} /\ b = stream[1] /\ next \in Nat
    BY <1>1, TailFacts DEF TypeOK
  <2>2. Len(stream[1]) = next - 1 - Len(stream) + 1
    <3>1. 1 \in 1..Len(stream) /\ HeightsBelow(stream, next)
      BY <1>1, <2>1 DEF StreamInv
    <3>2. QED
      BY <3>1 DEF HeightsBelow
  <2>3. prior = NoCursor => next = Birthday + Len(stream)
    BY <1>1 DEF StreamInv
  <2>4. QED
    BY <2>1, <2>2, <2>3, BirthdayAssumption
<1>4. blocks # <<>> => blocks[Len(blocks)] \in BlockHash /\ blocks[Len(blocks)] # NoCursor
  BY <1>1, HashFacts
<1> HIDE DEF b
<1>5. Chained(db.checkpoint, Append(blocks, b))
  BY <1>1, <1>2, <1>3, <1>4, ChainedAppend DEF Reading, LastRead
<1>6. blocks' # <<>> /\ blocks'[Len(blocks')] = b /\ Len(b) \in Nat
  <2>1. blocks \in Seq(BlockHash) /\ blocks' = Append(blocks, b) /\ b \in BlockHash
    BY <1>1, <1>2
  <2>2. /\ Len(blocks') = Len(blocks) + 1 /\ blocks' # <<>>
        /\ blocks'[Len(blocks) + 1] = b
    BY <2>1, AppendFacts
  <2>3. Len(b) \in Nat
    BY <2>1, HashFacts
  <2>4. QED
    BY <2>2, <2>3
<1>7. checkpoint # NoCursor => Len(checkpoint) < Len(b)
  <2>1. SUFFICES ASSUME checkpoint # NoCursor
                 PROVE  Len(checkpoint) < Len(b)
    OBVIOUS
  <2>2. /\ prior # NoCursor /\ prior \in Seq(Block) /\ checkpoint \in Seq(Block)
        /\ Len(checkpoint) <= Len(prior)
    BY <1>1, <1>4, <2>1 DEF Reading, LastRead, Cursor
  <2>3. Len(b) = Len(prior) + 1
    BY <1>2, <2>2, ExtendsParent
  <2>4. QED
    BY <2>2, <2>3
<1>8. QED
  BY <1>1, <1>2, <1>5, <1>6, <1>7 DEF Reading, LastRead

\* What ControlInv reads.
ControlVars == <<db, pc, link, next, upto, stream, buffer, batch>>

LEMMA ControlUnchanged ==
    ASSUME ControlInv, UNCHANGED ControlVars
    PROVE  ControlInv'
BY DEF ControlVars, link, buffer, batch, ControlInv, Idle, Reading, LastRead,
       Waiting, Scanned, Applied, ScanStopsAt

LEMMA FlushControl ==
    ASSUME IInv, FlushBatch
    PROVE  ControlInv'
<1> USE DEF IInv
<1>1. /\ pc = "stream" /\ stream # <<>> /\ Reading /\ blocks # <<>>
      /\ stream \in Seq(BlockHash) /\ blocks \in Seq(BlockHash)
      /\ checkpoint \in Cursor
  BY DEF FlushBatch, BatchFull, ControlInv, TypeOK
<1> DEFINE b == Head(stream)
           last == blocks[Len(blocks)]
<1>2. /\ last \in BlockHash /\ last \in Cursor /\ last # NoCursor
      /\ last \in Seq(Block) /\ Len(last) \in Nat /\ prior = last
  BY <1>1, HashFacts DEF Reading, LastRead
<1>3. /\ b \in BlockHash /\ PrevHash(b) = last
      /\ prior' = b /\ blocks' = <<b>> /\ remaining' = blocks /\ pc' = "scan"
      /\ UNCHANGED <<db, checkpoint>>
  BY <1>1, <1>2, TailFacts DEF FlushBatch, LinkBroken, store
<1> HIDE DEF b, last
<1>4. Len(b) = Len(last) + 1 /\ Len(b) \in Nat
  BY <1>2, <1>3, ExtendsParent
<1>5. Chained(last, <<b>>)
  <2>1. Chained(last, <<>>) /\ <<>> \in Seq(BlockHash)
    BY DEF Chained
  <2>2. Chained(last, Append(<<>>, b))
    BY <1>2, <1>3, <2>1, ChainedAppend
  <2>3. Append(<<>>, b) = <<b>>
    OBVIOUS
  <2>4. QED
    BY <2>2, <2>3
<1>6. Chained(db.checkpoint, blocks)
  BY <1>1 DEF Reading
<1>7. checkpoint # NoCursor => Len(checkpoint) < Len(b)
  <2>1. SUFFICES ASSUME checkpoint # NoCursor
                 PROVE  Len(checkpoint) < Len(b)
    OBVIOUS
  <2>2. checkpoint \in Seq(Block) /\ Len(checkpoint) < Len(last)
    BY <1>1, <1>2, <2>1 DEF Reading, Cursor
  <2>3. QED
    BY <1>2, <1>4, <2>2
<1>8. Waiting'
  <2>1. Len(blocks') = 1 /\ blocks'[1] = b /\ blocks' # <<>>
    BY <1>3
  <2>2. remaining'[Len(remaining')] = last
    BY <1>3 DEF last
  <2>3. LastRead' = b
    BY <2>1 DEF LastRead
  <2>4. QED
    BY <1>3, <1>5, <1>7, <2>2, <2>3 DEF Waiting
<1>9. QED
  BY <1>1, <1>3, <1>6, <1>8 DEF ControlInv

LEMMA HandControl ==
    ASSUME IInv, HandBlocks
    PROVE  ControlInv'
<1> USE DEF IInv
<1> DEFINE rest == SubSeq(remaining, scanned + 1, Len(remaining))
<1>1. /\ Applied /\ Waiting
      /\ remaining \in Seq(BlockHash) /\ blocks \in Seq(BlockHash)
      /\ scanned \in 1..Len(remaining)
  BY DEF HandBlocks, ControlInv, TypeOK, Applied
<1>2. rest \in Seq(BlockHash) /\ Len(rest) = Len(remaining) - scanned
  BY <1>1, RestFacts
<1>3. CASE rest = <<>> /\ blocks = <<>>
  BY <1>3, DropLocalsIdle DEF HandBlocks, ControlInv
<1>4. CASE rest = <<>> /\ blocks # <<>>
  <2>1. scanned = Len(remaining)
    <3> HIDE DEF rest
    <3>1. Len(rest) = 0 /\ Len(remaining) \in Nat
      BY <1>1, <1>4
    <3>2. QED
      BY <1>1, <1>2, <3>1
  <2>2. /\ pc' = "stream" /\ remaining' = <<>>
        /\ UNCHANGED <<db, link, buffer>>
    BY <1>4 DEF HandBlocks, store
  <2>3. Chained(db.checkpoint, blocks)
    BY <1>1, <1>4, <2>1 DEF Applied, Waiting
  <2>4. Reading'
    BY <1>1, <1>4, <2>2, <2>3 DEF Reading, Waiting, LastRead, link, buffer
  <2>5. QED
    BY <2>2, <2>4 DEF ControlInv
<1>5. CASE rest # <<>>
  <2>1. /\ pc' = "scan" /\ remaining' = rest
        /\ UNCHANGED <<db, link, buffer>>
    BY <1>5 DEF HandBlocks, store
  <2>2. Chained(db.checkpoint, rest)
    BY <1>1 DEF Applied
  <2>3. rest[Len(rest)] = remaining[Len(remaining)]
    <3>1. /\ Len(rest) \in 1..Len(remaining) - scanned
          /\ \A i \in 1..Len(remaining) - scanned : rest[i] = remaining[scanned + i]
      BY <1>1, <1>2, <1>5, RestFacts
    <3> HIDE DEF rest
    <3>2. Len(rest) \in Nat /\ scanned + Len(rest) = Len(remaining)
      BY <1>1, <1>2
    <3>3. rest[Len(rest)] = remaining[scanned + Len(rest)]
      BY <1>2, <3>1
    <3>4. QED
      BY <3>2, <3>3
  <2> HIDE DEF rest
  <2>4. Waiting'
    BY <1>1, <2>1, <2>3 DEF Waiting, LastRead, link, buffer
  <2>5. QED
    BY <1>5, <2>1, <2>2, <2>4 DEF ControlInv
<1>6. QED
  BY <1>3, <1>4, <1>5

LEMMA ControlStep ==
    ASSUME IInv, [Next]_vars
    PROVE  ControlInv'
<1> USE DEF IInv
<1>1. CASE SleepAtTip \/ Wake \/ Restart
  BY <1>1 DEF SleepAtTip, Wake, Restart, ControlInv, Idle, link, feed, buffer,
              batch
<1>2. CASE OpenStream
  <2>1. /\ pc' = "stream" /\ blocks' = <<>> /\ remaining' = <<>>
        /\ prior' = db.checkpoint /\ checkpoint' = db.checkpoint
        /\ UNCHANGED db
    BY <1>2 DEF OpenStream, ControlInv, Idle, store, buffer, batch
  <2>2. Chained(db'.checkpoint, blocks')
    BY <2>1 DEF Chained
  <2>3. QED
    BY <2>1, <2>2 DEF ControlInv, Reading, LastRead
<1>3. CASE ServeBlock
  <2>1. ~Idle
    BY <1>3 DEF ServeBlock, Idle
  <2>2. pc \notin {"outer", "sleep", "stopped"}
    BY <2>1 DEF ControlInv
  <2>3. QED
    BY <1>3, <2>2
       DEF ServeBlock, store, link, buffer, batch, ControlInv, Reading, LastRead,
           Waiting, Scanned, Applied, ScanStopsAt
<1>4. CASE BrokenSeam
  <2>1. /\ prior = checkpoint /\ prior # NoCursor /\ Reading
        /\ checkpoint \in Cursor
    BY <1>4 DEF BrokenSeam, LinkBroken, ControlInv, TypeOK
  <2>2. Len(checkpoint) \in Nat
    BY <2>1 DEF Cursor
  <2>3. checkpoint = db.checkpoint
    BY <2>1, <2>2 DEF Reading
  <2>4. pc' = "rewind" /\ UNCHANGED <<checkpoint, db>>
    BY <1>4 DEF BrokenSeam, link, store
  <2>5. QED
    BY <2>1, <2>3, <2>4 DEF ControlInv
<1>5. CASE BrokenLink \/ RewindToCut \/ Fail \/ BlockNotFound \/ PowerLoss
  <2>1. pc' \in {"outer", "stopped"} /\ Idle'
    BY <1>5, DropLocalsIdle
       DEF BrokenLink, RewindToCut, Fail, BlockNotFound, PowerLoss
  <2>2. QED
    BY <2>1 DEF ControlInv
<1>6. CASE BufferBlock
  <2>1. pc' = "stream"
    BY <1>6 DEF BufferBlock
  <2>2. QED
    BY <1>6, <2>1, ReadingStep DEF ControlInv
<1>7. CASE FlushBatch
  BY <1>7, FlushControl
<1>8. CASE EndOfStream
  <2>1. CASE blocks = <<>>
    BY <1>8, <2>1, DropLocalsIdle DEF EndOfStream, ControlInv
  <2>2. CASE blocks # <<>>
    <3>1. Chained(db.checkpoint, blocks)
      BY <1>8 DEF EndOfStream, ControlInv, Reading
    <3>2. /\ pc' = "scan" /\ remaining' = blocks /\ blocks' = <<>>
          /\ UNCHANGED db
      BY <1>8, <2>2 DEF EndOfStream, store
    <3>3. QED
      BY <2>2, <3>1, <3>2 DEF ControlInv, Waiting
  <2>3. QED
    BY <2>1, <2>2
<1>9. CASE FetchCut
  <2>1. CutHeight \in 0..Len(chain) /\ chain \in Seq(Block)
    BY <1>9, BirthdayAssumption, EngineAssumption
       DEF FetchCut, CutHeight, ControlInv, Cursor, TypeOK
  <2>2. cut' # NoCursor /\ pc' = "cut"
    BY <1>9, <2>1, PrefixFacts, NullAssumption DEF FetchCut
  <2>3. db'.checkpoint # NoCursor
    BY <1>9 DEF FetchCut, ControlInv, store
  <2>4. QED
    BY <2>2, <2>3 DEF ControlInv
<1>10. CASE Scan
  <2>1. PICK k \in 1..Len(remaining) :
          /\ ScanStopsAt(Nullifiers(db), k)
          /\ scanned' = k
          /\ found' = UNION {Detect(Nullifiers(db), remaining[i]) : i \in 1..k}
    BY <1>10 DEF Scan
  <2>2. /\ pc = "scan" /\ pc' = "fetch"
        /\ UNCHANGED <<db, link, buffer, remaining>>
    BY <1>10 DEF Scan, store
  <2>3. Scanned'
    BY <2>1, <2>2 DEF Scanned, ScanStopsAt
  <2>4. Waiting'
    BY <2>2 DEF ControlInv, Waiting, LastRead, link, buffer
  <2>5. QED
    BY <2>2, <2>3, <2>4 DEF ControlInv
<1>11. CASE ApplySegment
  <2>1. /\ scanned \in 1..Len(remaining) /\ Chained(db.checkpoint, remaining)
        /\ Waiting /\ remaining \in Seq(BlockHash) /\ db.checkpoint \in Cursor
    BY <1>11 DEF ApplySegment, ControlInv, Scanned, TypeOK, Db
  <2>2. /\ db'.checkpoint = remaining[scanned] /\ pc' = "hook"
        /\ UNCHANGED <<link, buffer, batch>>
    BY <1>11 DEF ApplySegment, ApplyTransactions
  <2>3. Applied'
    BY <2>1, <2>2, ChainedRest DEF Applied, batch
  <2>4. Waiting'
    BY <2>1, <2>2 DEF Waiting, LastRead, link, buffer, batch
  <2>5. QED
    BY <2>2, <2>3, <2>4 DEF ControlInv
<1>12. CASE HandBlocks
  BY <1>12, HandControl
<1>13. CASE WalSync \/ ServerMoves \/ UNCHANGED vars
  <2>1. UNCHANGED ControlVars
    BY <1>13 DEF WalSync, ServerMoves, vars, store, feed, ControlVars
  <2>2. QED
    BY <2>1, ControlUnchanged
<1>14. QED
  BY <1>1, <1>2, <1>3, <1>4, <1>5, <1>6, <1>7, <1>8, <1>9, <1>10, <1>11,
     <1>12, <1>13
     DEF Next, Engine, Read, Process, Faults

LEMMA CutStep ==
    ASSUME IInv, [Next]_vars
    PROVE  CutBelowFork'
<1> USE DEF IInv
<1>1. CASE FetchCut
  <2>1. /\ chain \in Seq(Block) /\ peak \in Nat
        /\ db.checkpoint \in Seq(Block) /\ checkpoint = db.checkpoint
        /\ Len(db.checkpoint) \in Nat
    BY <1>1 DEF FetchCut, ControlInv, TypeOK, Db, Cursor
  <2>2. Settled(db.checkpoint, chain, peak)
    BY <2>1, NullAssumption DEF SettledInv, Known
  <2>3. CutHeight \in 0..Len(chain)
    BY <1>1, <2>1, BirthdayAssumption, EngineAssumption DEF FetchCut, CutHeight
  <2>4. /\ Len(cut') = CutHeight
        /\ \A k \in 1..CutHeight : cut'[k] = chain[k]
        /\ UNCHANGED db
    BY <1>1, <2>1, <2>3, PrefixFacts DEF FetchCut, store
  <2>5. CASE CutHeight < Birthday
    BY <2>4, <2>5 DEF CutBelowFork
  <2>6. CASE CutHeight >= Birthday
    <3>1. CutHeight <= Len(db.checkpoint) - ReorgLimit
      BY <2>1, <2>6, BirthdayAssumption, DepthAssumption, EngineAssumption,
         HeightAssumption
         DEF CutHeight
    <3>2. /\ CutHeight <= Len(db.checkpoint)
          /\ \A k \in 1..CutHeight :
               k \in 1..Len(db.checkpoint) /\ k <= Len(db.checkpoint) - ReorgLimit
      BY <2>1, <2>3, <3>1, HeightAssumption
    <3>3. Extends(db'.checkpoint, cut')
      BY <2>2, <2>4, <3>2 DEF Settled, Extends
    <3>4. QED
      BY <3>3 DEF CutBelowFork
  <2>7. CutHeight \in Nat
    BY <2>3
  <2>8. QED
    BY <2>5, <2>6, <2>7, BirthdayAssumption
<1>2. CASE RewindToCut
  BY <1>2 DEF RewindToCut, CutBelowFork
<1>3. CASE UNCHANGED <<pc, db, cut>>
  BY <1>3 DEF CutBelowFork
<1>4. CASE pc' # "cut"
  BY <1>4 DEF CutBelowFork
<1>5. CASE HandBlocks
  <2>1. pc' # "cut"
    BY <1>5 DEF HandBlocks
  <2>2. QED
    BY <2>1 DEF CutBelowFork
<1>6. QED
  BY <1>1, <1>2, <1>3, <1>4, <1>5
     DEF Next, vars, Engine, Read, Process, Faults, SleepAtTip, Wake, Restart,
         OpenStream, ServeBlock, BrokenSeam, BrokenLink, BufferBlock, FlushBatch,
         EndOfStream, Scan, ApplySegment, BlockNotFound, Fail, PowerLoss,
         WalSync, ServerMoves, store, link

\* The engine never asks for, applies or rewinds to a block below the one
\* before the birthday.
LEMMA BirthdayStep ==
    ASSUME IInv, [Next]_vars
    PROVE  AboveBirthday'
<1> USE DEF IInv
<1>1. CASE FetchCut
  <2>1. chain \in Seq(Block) /\ CutHeight \in 0..Len(chain) /\ CutHeight >= Birthday - 1
    <3>1. /\ chain \in Seq(Block) /\ Len(checkpoint) \in Nat
          /\ CutHeight <= Len(chain)
      BY <1>1 DEF FetchCut, ControlInv, TypeOK, Db, Cursor
    <3>2. QED
      BY <3>1, BirthdayAssumption, EngineAssumption DEF CutHeight
  <2>2. Len(cut') >= Birthday - 1 /\ UNCHANGED store
    BY <1>1, <2>1, PrefixFacts DEF FetchCut
  <2>3. QED
    BY <2>2 DEF AboveBirthday, store
<1>2. CASE RewindToCut
  BY <1>2 DEF RewindToCut, Rewind, AboveBirthday, ControlInv, DropLocals
<1>3. CASE ApplySegment
  <2>1. /\ remaining[scanned] # NoCursor
        /\ Len(remaining[scanned]) = BaseHeight(db.checkpoint) + scanned
        /\ scanned \in Nat \ {0}
    <3>1. /\ remaining \in Seq(BlockHash) /\ scanned \in 1..Len(remaining)
          /\ Chained(db.checkpoint, remaining)
      BY <1>3 DEF ApplySegment, ControlInv, Scanned, TypeOK
    <3>2. QED
      BY <3>1, HashFacts DEF Chained
  <2>2. BaseHeight(db.checkpoint) >= Birthday - 1 /\ BaseHeight(db.checkpoint) \in Int
    BY BirthdayAssumption DEF BaseHeight, AboveBirthday, TypeOK, Db, Cursor
  <2>3. db'.checkpoint = remaining[scanned] /\ UNCHANGED <<durable, cut>>
    BY <1>3 DEF ApplySegment, ApplyTransactions, link
  <2>4. Len(remaining[scanned]) >= Birthday - 1
    BY <2>1, <2>2, BirthdayAssumption
  <2>5. QED
    BY <2>3, <2>4 DEF AboveBirthday
<1>4. CASE UNCHANGED <<db, durable>> /\ (UNCHANGED cut \/ DropLocals)
  BY <1>4 DEF AboveBirthday, DropLocals
<1>5. CASE WalSync \/ PowerLoss
  BY <1>5 DEF WalSync, PowerLoss, AboveBirthday, DropLocals, link
<1>6. CASE HandBlocks
  <2>1. UNCHANGED <<db, durable>> /\ (UNCHANGED cut \/ DropLocals)
    BY <1>6 DEF HandBlocks, store, link
  <2>2. QED
    BY <1>4, <2>1
<1>7. CASE EndOfStream
  <2>1. UNCHANGED <<db, durable>> /\ (UNCHANGED cut \/ DropLocals)
    BY <1>7 DEF EndOfStream, store, link
  <2>2. QED
    BY <1>4, <2>1
<1>8. QED
  BY <1>1, <1>2, <1>3, <1>4, <1>5, <1>6, <1>7
     DEF Next, vars, Engine, Read, Process, Faults, SleepAtTip, Wake, Restart,
         OpenStream, ServeBlock, BrokenSeam, BrokenLink, BufferBlock, FlushBatch,
         Scan, BlockNotFound, Fail, ServerMoves, store, link

\* What scan_compact stopped at is the first block after the checkpoint with a
\* transaction of the account.
LEMMA ScannedNext ==
    ASSUME IInv, pc = "fetch"
    PROVE  /\ NextFound(db, remaining[scanned])
           /\ found = Detect(Nullifiers(db), remaining[scanned])
<1> USE DEF IInv
<1> DEFINE e == remaining[scanned]
           cursor == db.checkpoint
           c == History(cursor)
           W == Nullifiers(db)
<1>1. /\ remaining \in Seq(BlockHash) /\ scanned \in 1..Len(remaining)
      /\ Chained(cursor, remaining) /\ Scanned
      /\ cursor \in Cursor /\ db \in Db
  BY DEF ControlInv, Scanned, TypeOK, Db
<1>2. /\ e \in BlockHash /\ e \in Seq(Block) /\ e # NoCursor
      /\ Len(e) \in Nat /\ scanned \in Nat \ {0}
  BY <1>1, HashFacts
<1>3. Valid(e)
  <2>1. e \in Known
    BY <1>1, <1>2 DEF Known, Held, Range
  <2>2. QED
    BY <2>1 DEF SettledInv, Settled
<1>4. /\ c \in Seq(Block) /\ Len(c) \in Nat /\ Birthday \in Nat \ {0}
      /\ BaseHeight(cursor) \in Nat
      /\ BaseHeight(cursor) >= Len(c) /\ BaseHeight(cursor) >= Birthday - 1
      /\ cursor # NoCursor => BaseHeight(cursor) = Len(c) /\ c = cursor
      /\ cursor = NoCursor => c = <<>> /\ BaseHeight(cursor) = Birthday - 1
  BY <1>1, BirthdayAssumption DEF History, BaseHeight, AboveBirthday, Cursor
<1>5. /\ Len(e) = BaseHeight(cursor) + scanned
      /\ \A i \in 1..Len(remaining) : Len(remaining[i]) = BaseHeight(cursor) + i
      /\ \A i \in 1..scanned : Extends(e, remaining[i])
      /\ cursor # NoCursor => Extends(e, cursor)
  BY <1>1 DEF Chained
<1>6. Len(c) < Len(e) /\ Birthday <= Len(e)
  BY <1>2, <1>4, <1>5
<1>7. SameUpTo(e, c, Len(c))
  <2>1. CASE cursor = NoCursor
    BY <1>4, <2>1 DEF SameUpTo
  <2>2. CASE cursor # NoCursor
    BY <1>2, <1>4, <1>5, <1>6, <2>2 DEF SameUpTo, Extends
  <2>3. QED
    BY <2>1, <2>2
<1>8. \A i \in 1..(scanned - 1) : Detect(W, remaining[i]) = {}
  BY <1>1 DEF Scanned, ScanStopsAt
<1>9. ASSUME NEW h \in Birthday..(Len(e) - 1), h > Len(c), NEW t \in e[h].txs
      PROVE  ~Detected(W, t)
  <2> DEFINE i == h - BaseHeight(cursor)
             base == BaseHeight(cursor)
  <2>0. h \in Nat /\ h < Len(e) /\ base \in Nat /\ Len(remaining) \in Nat
    BY <1>1, <1>2, <1>4, <1>9
  <2>1. h > base /\ Len(e) = base + scanned /\ i = h - base
    BY <1>4, <1>5, <1>9
  <2> HIDE DEF i, base
  <2>2. i \in 1..(scanned - 1) /\ i \in 1..scanned /\ i \in 1..Len(remaining)
    BY <1>1, <1>2, <2>0, <2>1
  <2>3. Len(remaining[i]) = h
    <3>1. Len(remaining[i]) = base + i
      BY <1>5, <2>2 DEF base
    <3>2. QED
      BY <2>0, <2>1, <3>1
  <2>4. h \in 1..Len(remaining[i])
    BY <1>4, <2>3
  <2>5. Tip(remaining[i]) = e[h]
    BY <1>5, <2>2, <2>3, <2>4 DEF Extends, Tip
  <2>6. Detect(W, remaining[i]) = {}
    BY <1>8, <2>2
  <2>7. QED
    BY <1>9, <2>5, <2>6, DetectHas
<1>10. found = Detect(W, e)
  <2>1. found = UNION {Detect(W, remaining[i]) : i \in 1..scanned}
    BY <1>1 DEF Scanned
  <2>2. \A i \in 1..scanned : i = scanned \/ i \in 1..(scanned - 1)
    BY <1>2
  <2>3. scanned \in 1..scanned
    BY <1>2
  <2>4. QED
    BY <1>8, <2>1, <2>2, <2>3
<1>11. IsLedger(db)
  BY DEF AccountIsLedger
<1> HIDE DEF e, c, W, cursor
<1>12. NextFound(db, e)
  BY <1>1, <1>2, <1>3, <1>6, <1>7, <1>9, <1>11 DEF NextFound, c, W, cursor
<1>13. QED
  BY <1>10, <1>12 DEF e, W

LEMMA LedgerStep ==
    ASSUME IInv, [Next]_vars
    PROVE  AccountIsLedger'
<1>0. IsLedger(db) /\ IsLedger(durable)
  BY DEF IInv, AccountIsLedger
<1>1. CASE ApplySegment
  <2>1. /\ NextFound(db, remaining[scanned])
        /\ db' = ApplyTransactions(db, remaining[scanned],
                                   Detect(Nullifiers(db), remaining[scanned]))
    BY <1>1, ScannedNext DEF ApplySegment
  <2>2. IsLedger(db') /\ durable' = durable
    BY <1>1, <2>1, ApplyLedger DEF ApplySegment
  <2>3. QED
    BY <1>0, <2>2 DEF AccountIsLedger
<1>2. CASE RewindToCut
  <2>1. /\ db \in Db /\ cut \in Seq(Block) /\ cut # NoCursor
        /\ db.checkpoint # NoCursor /\ db.checkpoint \in Seq(Block)
    BY <1>2 DEF RewindToCut, IInv, ControlInv, TypeOK, Db, Cursor
  <2>2. MinedOnce(History(db.checkpoint)) /\ History(db.checkpoint) = db.checkpoint
    BY <2>1 DEF IInv, SettledInv, Settled, Known, Valid, History
  <2>3. SameUpTo(db.checkpoint, cut, Len(cut))
    <3>1. Len(cut) < Birthday \/ Extends(db.checkpoint, cut)
      BY <1>2 DEF RewindToCut, IInv, CutBelowFork
    <3>2. QED
      BY <2>1, <3>1, BirthdayAssumption DEF SameUpTo, Extends
  <2>4. IsLedger(Rewind(db, cut))
    BY <1>0, <2>1, <2>2, <2>3, RewindLedger
  <2>5. QED
    BY <1>0, <1>2, <2>4 DEF RewindToCut, AccountIsLedger
<1>3. CASE WalSync \/ PowerLoss
  BY <1>0, <1>3 DEF WalSync, PowerLoss, AccountIsLedger
<1>4. CASE UNCHANGED <<db, durable>>
  BY <1>0, <1>4 DEF AccountIsLedger
<1>5. QED
  BY <1>1, <1>2, <1>3, <1>4
     DEF Next, vars, Engine, Read, Process, Faults, SleepAtTip, Wake, Restart,
         OpenStream, ServeBlock, BrokenSeam, BrokenLink, BufferBlock, FlushBatch,
         EndOfStream, Scan, FetchCut, HandBlocks, BlockNotFound, Fail,
         ServerMoves, store

LEMMA InitInv ==
    ASSUME Init
    PROVE  IInv
<1> USE DEF Init, ChainInit
<1>1. EmptyDb \in Db
  BY DEF EmptyDb, Db, Cursor, NoNote, NoRow, ReceivedAt, NoteRow, TxRow, Height,
         NULL
<1>2. TypeOK
  BY <1>1 DEF TypeOK, Cursor
<1>3. ServerInv
  BY HeightAssumption DEF ServerInv, Valid, MinedOnce, SpentLater
<1>4. SettledInv
  BY DEF SettledInv, Known, Held, Range, EmptyDb
<1>5. StreamInv
  BY DEF StreamInv, HeightsBelow
<1>6. ControlInv
  BY DEF ControlInv, Idle
<1>7. AboveBirthday
  BY DEF AboveBirthday, EmptyDb
<1>8. CutBelowFork
  BY DEF CutBelowFork
<1>9. IsLedger(EmptyDb)
  <2>1. \A h \in Birthday..Len(<<>>) : FALSE
    BY BirthdayAssumption
  <2>2. ASSUME NEW n \in Note
        PROVE  NoteRowIs(EmptyDb.notes[n], <<>>, n)
    BY <2>1 DEF NoteRowIs, EmptyDb, NoNote, ReceivedAt
  <2>3. ASSUME NEW t \in Tx
        PROVE  TxRowIs(EmptyDb.txs[t], <<>>, t)
    BY <2>1 DEF TxRowIs, EmptyDb
  <2>4. QED
    BY <2>2, <2>3 DEF IsLedger, EmptyDb, History
<1>10. QED
  BY <1>2, <1>3, <1>4, <1>5, <1>6, <1>7, <1>8, <1>9 DEF IInv, AccountIsLedger

\* The invariant is inductive: every action of `run` and process_batch, every
\* block mined or reorganised away, every error and power loss preserves it.
THEOREM InvariantHolds == Spec => []IInv
<1>1. Init => IInv
  BY InitInv
<1>2. IInv /\ [Next]_vars => IInv'
  <2>1. SUFFICES ASSUME IInv, [Next]_vars
                 PROVE  IInv'
    OBVIOUS
  <2>2. TypeOK' /\ ServerInv' /\ SettledInv' /\ StreamInv'
    BY <2>1, TypeStep, ServerInvStep, SettledStep, StreamStep
  <2>3. ControlInv' /\ AboveBirthday' /\ CutBelowFork' /\ AccountIsLedger'
    BY <2>1, ControlStep, BirthdayStep, CutStep, LedgerStep
  <2>4. QED
    BY <2>2, <2>3 DEF IInv
<1>3. QED
  BY <1>1, <1>2, PTL DEF Spec

\* The variables of `run`, the rows of the store and the blocks in flight keep
\* their types; in particular `blocks` is asked for no height below the birthday,
\* and the segment that apply_transactions gets is not empty.
THEOREM TypeCorrect == Spec => []TypeOK
<1>1. IInv => TypeOK
  BY DEF IInv
<1>2. QED
  BY <1>1, InvariantHolds, PTL

\* After every commit, rewind, error and power loss, the rows that db.rs keeps
\* are those of the history that ends at the checkpoint, whatever fork the
\* server switched to while process_batch was waiting.
THEOREM LedgerCorrect == Spec => []AccountIsLedger
<1>1. IInv => AccountIsLedger
  BY DEF IInv
<1>2. QED
  BY <1>1, InvariantHolds, PTL

\* The block that `run` rewinds to after a broken seam is an ancestor of the
\* checkpoint (or lies below the birthday), although the server may have
\* switched forks again between the broken seam and the answer to block_hash.
THEOREM RewindReachesFork == Spec => []CutBelowFork
<1>1. IInv => CutBelowFork
  BY DEF IInv
<1>2. QED
  BY <1>1, InvariantHolds, PTL

LEMMA FirstApplication ==
    ASSUME NEW d, NEW e, NextFound(d, e), NEW t \in e[Len(e)].txs
    PROVE  d.txs[t] = NoRow /\ Outputs[t] \cap Received(d.notes) = {}
<1> DEFINE c == History(d.checkpoint)
<1>1. /\ Len(e) \in 1..Len(e) /\ t \in Tx /\ MinedOnce(e)
      /\ \A h \in Birthday..Len(c) :
            /\ h \in 1..Len(e) /\ h # Len(e) /\ e[h] = c[h] /\ e[h].txs \subseteq Tx
  BY NextFoundType DEF NextFound, Valid
<1>2. d.txs[t] = NoRow
  <2>1. SUFFICES ASSUME NEW h \in Birthday..Len(c), ConcernsAt(c, h, t)
                 PROVE  FALSE
    BY <1>1 DEF NextFound, IsLedger, TxRowIs
  <2>2. t \in c[h].txs
    BY <2>1 DEF ConcernsAt, MinedAt
  <2>3. QED
    BY <1>1, <2>2 DEF MinedOnce
<1>3. ASSUME NEW n \in Outputs[t], n \in Received(d.notes)
      PROVE  FALSE
  <2>1. n \in Note /\ d.notes[n].block_height # NULL
    BY <1>3 DEF Received
  <2>2. PICK h \in Birthday..Len(c) : \E s \in c[h].txs : n \in Outputs[s]
    BY <2>1 DEF NextFound, IsLedger, NoteRowIs
  <2>3. QED
    BY <1>1, <2>2, CreatedOnce
<1>4. QED
  BY <1>2, <1>3

\* apply_transactions meets no row of the transactions it is given, so INSERT
\* OR IGNORE never keeps a stale note and the upsert never updates a row.
THEOREM NothingAppliedTwice == Spec => []AppliedOnce
<1>1. IInv => AppliedOnce
  <2>1. SUFFICES ASSUME IInv, pc = "fetch", NEW w \in found
                 PROVE  /\ db.txs[w.txid] = NoRow
                        /\ Outputs[w.txid] \cap Received(db.notes) = {}
    BY DEF AppliedOnce
  <2>2. NextFound(db, remaining[scanned])
    BY <2>1, ScannedNext
  <2>3. w \in Detect(Nullifiers(db), remaining[scanned])
    BY <2>1, ScannedNext
  <2>4. w.txid \in remaining[scanned][Len(remaining[scanned])].txs
    BY <2>3, DetectHas DEF Tip
  <2>5. QED
    BY <2>2, <2>4, FirstApplication
<1>2. QED
  BY <1>1, InvariantHolds, PTL

\* Whatever segment apply_transactions has just committed, a second
\* application of it would leave the store as it is: the amounts come from the
\* persisted notes, and neither INSERT nor UPDATE touches a row again.
THEOREM ReplayHarmless == Spec => ReplayChangesNothing
<1>1. IInv /\ [Next]_vars =>
        [ApplySegment => ApplyTransactions(db', remaining[scanned], found) = db']_vars
  <2>1. SUFFICES ASSUME IInv, ApplySegment
                 PROVE  ApplyTransactions(db', remaining[scanned], found) = db'
    OBVIOUS
  <2>2. found \subseteq WalletTx
    BY <2>1 DEF IInv, TypeOK
  <2>3. db' = ApplyTransactions(db, remaining[scanned], found)
    BY <2>1 DEF ApplySegment
  <2>4. QED
    BY <2>2, <2>3, ApplyTwice
<1>2. QED
  BY <1>1, InvariantHolds, PTL DEF Spec, ReplayChangesNothing
-----------------------------------------------------------------------------
(* The engine implements AccountLedger: every step of the engine, the server *)
(* and the faults is a step of the ledger or a stutter.                      *)


\* The ledger of the abstract specification is that of the store.
LEMMA SameLedger ==
    ASSUME NEW d
    PROVE  Ledger!IsLedger(d) <=> IsLedger(d)
BY DEF Ledger!IsLedger, IsLedger, Ledger!NoteRowIs, NoteRowIs,
       Ledger!TxRowIs, TxRowIs, Ledger!History, History,
       Ledger!ConcernsAt, ConcernsAt, Ledger!SpendsAt, SpendsAt,
       Ledger!MinedAt, MinedAt, Ledger!NoRow, NoRow, Ledger!NULL, NULL

LEMMA SameNames ==
    /\ Ledger!EmptyDb = EmptyDb
    /\ \A c, e : Ledger!Extends(e, c) <=> Extends(e, c)
    /\ \A c : Ledger!History(c) = History(c)
BY DEF Ledger!EmptyDb, EmptyDb, Ledger!NoNote, NoNote, Ledger!ReceivedAt,
       ReceivedAt, Ledger!NoRow, NoRow, Ledger!NULL, NULL, Ledger!Extends,
       Extends, Ledger!History, History

\* apply_transactions reads on along the chain of the checkpoint.
LEMMA ApplyAdvances ==
    ASSUME IInv, [Next]_vars, ApplySegment
    PROVE  Ledger!Advance
<1>1. IsLedger(db')
  BY LedgerStep DEF AccountIsLedger
<1>2. /\ db'.checkpoint = remaining[scanned] /\ durable' = durable
      /\ scanned \in 1..Len(remaining) /\ Chained(db.checkpoint, remaining)
      /\ remaining \in Seq(BlockHash)
  BY DEF ApplySegment, ApplyTransactions, IInv, TypeOK, ControlInv, Scanned
<1>3. /\ db'.checkpoint # NoCursor
      /\ db.checkpoint # NoCursor => Extends(db'.checkpoint, db.checkpoint)
  BY <1>2, HashFacts DEF Chained
<1>4. Len(db'.checkpoint) > Len(History(db.checkpoint))
  BY <1>2, ScannedNext DEF ApplySegment, NextFound
<1>5. QED
  BY <1>1, <1>2, <1>3, <1>4, SameLedger, SameNames DEF Ledger!Advance

\* A rewind to the checkpoint itself changes nothing.
LEMMA RewindNothing ==
    ASSUME NEW d \in Db, IsLedger(d), d.checkpoint # NoCursor
    PROVE  Rewind(d, d.checkpoint) = d
<1> DEFINE c == d.checkpoint
<1>1. /\ d = [checkpoint |-> c, notes |-> d.notes, txs |-> d.txs]
      /\ d.notes \in [Note -> NoteRow] /\ d.txs \in [Tx -> TxRow]
      /\ c \in Seq(Block) /\ Len(c) \in Nat /\ History(c) = c
  BY DEF Db, Cursor, History
<1>2. ASSUME NEW n \in Note
      PROVE  ~(d.notes[n].block_height > Len(c)) /\ ~(d.notes[n].spent_height > Len(c))
  <2>1. NoteRowIs(d.notes[n], c, n)
    BY <1>1 DEF IsLedger
  <2>2. d.notes[n].block_height = -1 \/ d.notes[n].block_height \in Birthday..Len(c)
    BY <2>1 DEF NoteRowIs, NULL
  <2>3. d.notes[n].spent_height = -1 \/ d.notes[n].spent_height \in Birthday..Len(c)
    BY <2>1 DEF NoteRowIs, NULL
  <2>4. QED
    BY <1>1, <2>2, <2>3, BirthdayAssumption
<1>3. ASSUME NEW t \in Tx
      PROVE  ~(d.txs[t].block_height > Len(c))
  <2>1. d.txs[t].block_height = -1 \/ d.txs[t].block_height \in Birthday..Len(c)
    BY <1>1 DEF IsLedger, TxRowIs, NoRow, NULL
  <2>2. QED
    BY <1>1, <2>1, BirthdayAssumption
<1>4. Rewind(d, c).notes = d.notes /\ Rewind(d, c).txs = d.txs
  BY <1>1, <1>2, <1>3 DEF Rewind
<1>5. Rewind(d, c) = [checkpoint |-> c, notes |-> Rewind(d, c).notes,
                      txs |-> Rewind(d, c).txs]
  BY DEF Rewind
<1> HIDE DEF c
<1>6. QED
  BY <1>1, <1>4, <1>5 DEF c

\* Account::rewind goes back to a block the account has read, or below the
\* birthday; a server that has switched back may answer with the checkpoint.
LEMMA RewindRetreats ==
    ASSUME IInv, [Next]_vars, RewindToCut
    PROVE  Ledger!Retreat \/ UNCHANGED <<db, durable>>
<1>1. IsLedger(db')
  BY LedgerStep DEF AccountIsLedger
<1>2. /\ pc = "cut" /\ db' = Rewind(db, cut) /\ durable' = durable
      /\ cut \in Seq(Block) /\ cut # NoCursor
      /\ db \in Db /\ db.checkpoint # NoCursor /\ db.checkpoint \in Seq(Block)
  BY DEF RewindToCut, IInv, ControlInv, TypeOK, Cursor, Db
<1>3. db'.checkpoint = cut
  BY <1>2 DEF Rewind
<1>4. CASE cut # db.checkpoint
  <2>1. Len(cut) = Birthday - 1 \/ Extends(db.checkpoint, cut)
    <3>1. Len(cut) < Birthday \/ Extends(db.checkpoint, cut)
      BY <1>2 DEF IInv, CutBelowFork
    <3>2. Len(cut) >= Birthday - 1 /\ Len(cut) \in Nat
      BY <1>2 DEF IInv, AboveBirthday
    <3>3. QED
      BY <3>1, <3>2, BirthdayAssumption
  <2>2. QED
    BY <1>1, <1>2, <1>3, <1>4, <2>1, SameLedger, SameNames DEF Ledger!Retreat
<1>5. CASE cut = db.checkpoint
  BY <1>2, <1>5, RewindNothing DEF IInv, AccountIsLedger
<1>6. QED
  BY <1>4, <1>5

\* Every answer the store can give about the account is an answer about one
\* chain, read in full from the birthday: the refinement mapping is the store.
THEOREM EngineImplementsLedger == Spec => ImplementsLedger
<1>1. Init => Ledger!LedgerInit
  BY SameNames DEF Init, Ledger!LedgerInit
<1>2. IInv /\ [Next]_vars =>
        [Ledger!Advance \/ Ledger!Retreat \/ Ledger!Flush \/ Ledger!Lose]_<<db, durable>>
  <2>1. SUFFICES ASSUME IInv, [Next]_vars
                 PROVE  \/ Ledger!Advance \/ Ledger!Retreat
                        \/ Ledger!Flush \/ Ledger!Lose
                        \/ UNCHANGED <<db, durable>>
    OBVIOUS
  <2>2. CASE ApplySegment
    BY <2>1, <2>2, ApplyAdvances
  <2>3. CASE RewindToCut
    BY <2>1, <2>3, RewindRetreats
  <2>4. CASE WalSync
    BY <2>4 DEF WalSync, Ledger!Flush
  <2>5. CASE PowerLoss
    BY <2>5 DEF PowerLoss, Ledger!Lose
  <2>6. CASE UNCHANGED <<db, durable>>
    BY <2>6
  <2>7. QED
    BY <2>1, <2>2, <2>3, <2>4, <2>5, <2>6
       DEF Next, vars, Engine, Read, Process, Faults, SleepAtTip, Wake, Restart,
           OpenStream, ServeBlock, BrokenSeam, BrokenLink, BufferBlock, FlushBatch,
           EndOfStream, Scan, FetchCut, HandBlocks, BlockNotFound, Fail,
           ServerMoves, store
<1>3. QED
  BY <1>1, <1>2, InvariantHolds, PTL
     DEF Spec, ImplementsLedger, Ledger!LedgerSpec
-----------------------------------------------------------------------------
(* What the ledger says of the amounts, and of two stores. *)

LEMMA StoresKnown ==
    ASSUME IInv
    PROVE  /\ db \in Db /\ IsLedger(db) /\ Valid(History(db.checkpoint))
           /\ durable \in Db /\ IsLedger(durable)
           /\ Valid(History(durable.checkpoint))
<1>1. db \in Db /\ durable \in Db /\ IsLedger(db) /\ IsLedger(durable)
  BY DEF IInv, TypeOK, AccountIsLedger
<1>2. Valid(<<>>)
  BY DEF Valid, MinedOnce, SpentLater
<1>3. \A c \in {db.checkpoint, durable.checkpoint} \ {NoCursor} : Valid(c)
  BY DEF IInv, SettledInv, Known, Settled
<1>4. QED
  BY <1>1, <1>2, <1>3 DEF History

\* `balance` and the amounts of `txs` agree at every step: value is neither
\* lost nor counted twice by spends, change, rewinds or replays.
THEOREM AmountsAddUp == Spec => []BalanceIsSumOfAmounts
<1>1. IInv => BalanceIsSumOfAmounts
  BY StoresKnown, LedgerBalance DEF BalanceIsSumOfAmounts
<1>2. QED
  BY <1>1, InvariantHolds, PTL

\* What db.rs holds depends on the block it is checkpointed at and on nothing
\* else: not on the forks, retries and power losses that led there.
THEOREM StoreDetermined == Spec => []CheckpointDeterminesStore
<1>1. IInv => CheckpointDeterminesStore
  BY StoresKnown, LedgerUnique DEF CheckpointDeterminesStore
<1>2. QED
  BY <1>1, InvariantHolds, PTL
-----------------------------------------------------------------------------
(* The limits of a batch. *)

LEMMA OutputsType ==
    ASSUME NEW s \in Seq(BlockHash)
    PROVE  /\ OutputsOf(s) \in Nat
           /\ \A i \in 1..Len(s) : CountOf(s[i]) \in Nat
           /\ IsFiniteSet(1..Len(s))
           /\ OutputsOf(s) = SumFunctionOnSet([i \in 1..Len(s) |-> CountOf(s[i])], 1..Len(s))
<1> DEFINE f == [i \in 1..Len(s) |-> CountOf(s[i])]
<1>1. DOMAIN s = 1..Len(s) /\ Len(s) \in Nat
  OBVIOUS
<1>2. \A i \in 1..Len(s) : CountOf(s[i]) \in Nat
  BY HashFacts
<1>3. IsFiniteSet(1..Len(s))
  BY <1>1, FS_Interval
<1>4. OutputsOf(s) = SumFunctionOnSet(f, 1..Len(s))
  BY <1>1 DEF OutputsOf, SumFunction
<1>5. \A i \in 1..Len(s) : f[i] \in Nat
  BY <1>2
<1> HIDE DEF f
<1>6. SumFunctionOnSet(f, 1..Len(s)) \in Nat
  BY <1>3, <1>5, SumNat
<1>7. QED
  BY <1>2, <1>3, <1>4, <1>6 DEF f

LEMMA OutputsEmpty == OutputsOf(<<>>) = 0
<1>1. DOMAIN <<>> = {}
  OBVIOUS
<1>2. QED
  BY <1>1, SumEmpty DEF OutputsOf, SumFunction

LEMMA OutputsAppend ==
    ASSUME NEW s \in Seq(BlockHash), NEW b \in BlockHash
    PROVE  OutputsOf(Append(s, b)) = OutputsOf(s) + CountOf(b)
<1> DEFINE e == Append(s, b)
           n == Len(s) + 1
           f == [i \in 1..Len(s) |-> CountOf(s[i])]
           g == [i \in 1..n |-> CountOf(e[i])]
<1>1. /\ e \in Seq(BlockHash) /\ Len(e) = n /\ Len(s) \in Nat
      /\ e[n] = b /\ \A i \in 1..Len(s) : e[i] = s[i]
  BY AppendFacts
<1>2. /\ IsFiniteSet(1..n) /\ IsFiniteSet(1..Len(s))
      /\ \A i \in 1..n : CountOf(e[i]) \in Nat
      /\ OutputsOf(s) = SumFunctionOnSet(f, 1..Len(s))
      /\ OutputsOf(e) = SumFunctionOnSet(g, 1..n)
  BY <1>1, OutputsType
<1>3. /\ \A i \in 1..n : g[i] \in Int
      /\ \A i \in 1..Len(s) : f[i] \in Int /\ f[i] = g[i]
      /\ g[n] = CountOf(b)
      /\ n \in 1..n /\ (1..n) \ {n} = 1..Len(s)
  BY <1>1, <1>2
<1> HIDE DEF e, n, f, g
<1>4. SumFunctionOnSet(g, 1..n) = g[n] + SumFunctionOnSet(g, (1..n) \ {n})
  BY <1>2, <1>3, SumRemove
<1>5. SumFunctionOnSet(g, 1..Len(s)) = SumFunctionOnSet(f, 1..Len(s))
  BY <1>2, <1>3, SumAgrees
<1>6. OutputsOf(s) \in Nat /\ CountOf(b) \in Nat
  BY OutputsType, HashFacts
<1>7. SumFunctionOnSet(g, (1..n) \ {n}) = SumFunctionOnSet(g, 1..Len(s))
  BY <1>3, Zenon
<1>8. OutputsOf(e) = OutputsOf(s) + CountOf(b)
  BY <1>2, <1>3, <1>4, <1>5, <1>6, <1>7
<1>9. QED
  BY <1>8 DEF e

LEMMA OutputsOne ==
    ASSUME NEW b \in BlockHash
    PROVE  OutputsOf(<<b>>) = CountOf(b)
<1>1. <<b>> = Append(<<>>, b) /\ <<>> \in Seq(BlockHash) /\ CountOf(b) \in Nat
  BY HashFacts
<1>2. OutputsOf(Append(<<>>, b)) = OutputsOf(<<>>) + CountOf(b)
  BY <1>1, OutputsAppend
<1>3. QED
  BY <1>1, <1>2, OutputsEmpty

\* The rest of a batch has no more outputs than the batch.
LEMMA OutputsRest ==
    ASSUME NEW s \in Seq(BlockHash), NEW k \in 0..Len(s)
    PROVE  OutputsOf(SubSeq(s, k + 1, Len(s))) <= OutputsOf(s)
<1> DEFINE e == SubSeq(s, k + 1, Len(s))
           f == [i \in 1..Len(s) |-> CountOf(s[i])]
           g == [i \in 1..Len(e) |-> CountOf(e[i])]
           m == [i \in 1..Len(e) |-> k + i]
           Img == {m[i] : i \in 1..Len(e)}
<1>1. /\ e \in Seq(BlockHash) /\ Len(e) = Len(s) - k /\ Len(s) \in Nat /\ k \in Nat
      /\ \A i \in 1..Len(e) : e[i] = s[k + i]
  BY RestFacts
<1>2. /\ IsFiniteSet(1..Len(e)) /\ IsFiniteSet(1..Len(s))
      /\ \A i \in 1..Len(e) : CountOf(e[i]) \in Nat
      /\ \A i \in 1..Len(s) : CountOf(s[i]) \in Nat
      /\ OutputsOf(s) = SumFunctionOnSet(f, 1..Len(s))
      /\ OutputsOf(e) = SumFunctionOnSet(g, 1..Len(e))
  BY <1>1, OutputsType
<1>3. \A i \in 1..Len(e) : m[i] = k + i /\ m[i] \in 1..Len(s)
  BY <1>1
<1>4. /\ \A i \in 1..Len(e) : g[i] \in Int /\ f[m[i]] = g[i]
      /\ \A i \in 1..Len(s) : f[i] \in Nat
  BY <1>1, <1>2, <1>3
<1>5. \A i, j \in 1..Len(e) : m[i] = m[j] => i = j
  BY <1>1, <1>3
<1>6. Img \in SUBSET (1..Len(s))
  BY <1>3
<1> HIDE DEF e, f, g, m
<1>7. SumFunctionOnSet(g, 1..Len(e)) = SumFunctionOnSet(f, Img)
  <2> DEFINE S == 1..Len(e)
  <2>1. /\ IsFiniteSet(S) /\ \A i \in S : g[i] \in Int
        /\ \A i, j \in S : m[i] = m[j] => i = j
        /\ \A i \in S : f[m[i]] = g[i]
    BY <1>2, <1>4, <1>5
  <2> HIDE DEF S
  <2>2. SumFunctionOnSet(g, S) = SumFunctionOnSet(f, {m[i] : i \in S})
    BY <2>1, SumReindexed
  <2>3. QED
    BY <2>2 DEF S
<1> HIDE DEF Img
<1>8. SumFunctionOnSet(f, Img) <= SumFunctionOnSet(f, 1..Len(s))
  BY <1>2, <1>4, <1>6, SumOfSubset
<1>9. QED
  BY <1>2, <1>7, <1>8 DEF e

LEMMA BatchStep ==
    ASSUME TypeOK, BatchInv, [Next]_vars
    PROVE  BatchInv'
<1>0. /\ stream \in Seq(BlockHash) /\ blocks \in Seq(BlockHash)
      /\ remaining \in Seq(BlockHash) /\ output_count \in Nat
      /\ scanned \in 0..Len(remaining)
      /\ BLOCKS_PER_BATCH \in Nat \ {0} /\ OUTPUTS_PER_BATCH \in Nat
  BY EngineAssumption DEF TypeOK
<1>1. ASSUME DropLocals
      PROVE  BatchInv'
  BY <1>0, <1>1, OutputsEmpty DEF DropLocals, BatchInv, BufferInv, BatchWithinLimits
<1>2. ASSUME UNCHANGED <<buffer, remaining>>
      PROVE  BatchInv'
  BY <1>2 DEF buffer, BatchInv, BufferInv, BatchWithinLimits, OutputsOf
<1>3. CASE BufferBlock
  <2> DEFINE b == Head(stream)
  <2>1. /\ b \in BlockHash /\ CountOf(b) \in Nat /\ ~BatchFull(b)
        /\ blocks' = Append(blocks, b) /\ output_count' = output_count + CountOf(b)
        /\ remaining' = remaining
    BY <1>0, <1>3, TailFacts, HashFacts DEF BufferBlock, batch
  <2> HIDE DEF b
  <2>2. Len(blocks') = Len(blocks) + 1 /\ Len(blocks) \in Nat
    BY <1>0, <2>1, AppendFacts
  <2>3. output_count' = OutputsOf(blocks')
    BY <1>0, <2>1, OutputsAppend DEF BatchInv, BufferInv
  <2>4. /\ Len(blocks') <= BLOCKS_PER_BATCH
        /\ Len(blocks') <= 1 \/ output_count' <= OUTPUTS_PER_BATCH
    <3>1. CASE blocks = <<>>
      BY <1>0, <2>2, <3>1
    <3>2. CASE blocks # <<>>
      BY <1>0, <2>1, <2>2, <3>2 DEF BatchFull, BatchInv, BufferInv
    <3>3. QED
      BY <3>1, <3>2
  <2>5. BatchWithinLimits'
    BY <2>1 DEF BatchInv, BatchWithinLimits, OutputsOf
  <2>6. QED
    BY <2>3, <2>4, <2>5 DEF BatchInv, BufferInv
<1>4. CASE FlushBatch
  <2> DEFINE b == Head(stream)
  <2>1. /\ b \in BlockHash /\ blocks' = <<b>> /\ output_count' = CountOf(b)
        /\ remaining' = blocks
    BY <1>0, <1>4, TailFacts DEF FlushBatch
  <2> HIDE DEF b
  <2>2. BufferInv'
    BY <1>0, <2>1, OutputsOne DEF BufferInv
  <2>3. BatchWithinLimits'
    BY <2>1 DEF BatchInv, BufferInv, BatchWithinLimits, OutputsOf
  <2>4. QED
    BY <2>2, <2>3 DEF BatchInv
<1>5. CASE EndOfStream /\ blocks # <<>>
  <2>1. remaining' = blocks /\ blocks' = <<>> /\ output_count' = 0
    BY <1>5 DEF EndOfStream
  <2>2. BufferInv'
    BY <1>0, <2>1, OutputsEmpty DEF BufferInv
  <2>3. BatchWithinLimits'
    BY <2>1 DEF BatchInv, BufferInv, BatchWithinLimits, OutputsOf
  <2>4. QED
    BY <2>2, <2>3 DEF BatchInv
<1>6. CASE HandBlocks /\ ~DropLocals
  <2> DEFINE rest == SubSeq(remaining, scanned + 1, Len(remaining))
  <2>1. remaining' = rest /\ UNCHANGED buffer
    BY <1>6 DEF HandBlocks
  <2>2. /\ Len(rest) <= Len(remaining) /\ Len(rest) \in Nat
        /\ OutputsOf(rest) <= OutputsOf(remaining)
        /\ OutputsOf(rest) \in Nat /\ OutputsOf(remaining) \in Nat
    <3>1. rest \in Seq(BlockHash) /\ Len(rest) = Len(remaining) - scanned
      BY <1>0, RestFacts
    <3>2. OutputsOf(rest) <= OutputsOf(remaining)
      BY <1>0, OutputsRest
    <3>3. OutputsOf(rest) \in Nat /\ OutputsOf(remaining) \in Nat
      BY <1>0, <3>1, OutputsType
    <3> HIDE DEF rest
    <3>4. QED
      BY <1>0, <3>1, <3>2, <3>3
  <2> HIDE DEF rest
  <2>3. BatchWithinLimits'
    BY <1>0, <2>1, <2>2 DEF BatchInv, BatchWithinLimits
  <2>4. BufferInv'
    BY <2>1 DEF buffer, BatchInv, BufferInv, OutputsOf
  <2>5. QED
    BY <2>3, <2>4 DEF BatchInv
<1>7. QED
  BY <1>1, <1>2, <1>3, <1>4, <1>5, <1>6
     DEF Next, vars, Engine, Read, Process, Faults, SleepAtTip, Wake, Restart,
         OpenStream, ServeBlock, BrokenSeam, BrokenLink, EndOfStream, FetchCut,
         RewindToCut, Scan, ApplySegment, HandBlocks, BlockNotFound, Fail,
         PowerLoss, WalSync, ServerMoves, buffer, batch

\* `run` never hands process_batch more than BLOCKS_PER_BATCH blocks or, unless
\* it is one block, more than OUTPUTS_PER_BATCH outputs; nor does process_batch
\* itself in a later turn of its loop.
THEOREM BatchesLimited == Spec => []BatchWithinLimits
<1>1. Init => BatchInv
  BY EngineAssumption, OutputsEmpty DEF Init, BatchInv, BufferInv, BatchWithinLimits
<1>2. TypeOK /\ BatchInv /\ [Next]_vars => BatchInv'
  BY BatchStep
<1>3. BatchInv => BatchWithinLimits
  BY DEF BatchInv
<1>4. QED
  BY <1>1, <1>2, <1>3, TypeCorrect, PTL DEF Spec
-----------------------------------------------------------------------------
(* Every step counts. *)

\* The first block waiting in the stream is of the height next after those read.
LEMMA HeadFacts ==
    ASSUME IInv, stream # <<>>
    PROVE  /\ Head(stream) \in BlockHash
           /\ Len(Head(stream)) = next - Len(stream)
           /\ Head(stream) \in Range(stream)
           /\ Len(stream) \in Nat \ {0}
           /\ Tail(stream) \in Seq(BlockHash)
           /\ Len(Tail(stream)) = Len(stream) - 1
           /\ Range(Tail(stream)) \subseteq Range(stream)
<1>1. stream \in Seq(BlockHash) /\ next \in Nat
  BY DEF IInv, TypeOK
<1>2. /\ Head(stream) \in BlockHash
      /\ Head(stream) = stream[1]
      /\ Len(stream) \in Nat \ {0}
      /\ Tail(stream) \in Seq(BlockHash)
      /\ Len(Tail(stream)) = Len(stream) - 1
      /\ \A i \in 1..Len(stream) - 1 : Tail(stream)[i] = stream[i + 1]
  BY <1>1, TailFacts
<1>3. Len(stream[1]) = next - 1 - Len(stream) + 1
  <2>1. 1 \in 1..Len(stream) /\ HeightsBelow(stream, next)
    BY <1>2 DEF IInv, StreamInv
  <2>2. QED
    BY <2>1 DEF HeightsBelow
<1>4. Head(stream) \in Range(stream)
  BY <1>1, <1>2 DEF Range
<1>5. Range(Tail(stream)) \subseteq Range(stream)
  <2>1. ASSUME NEW i \in 1..Len(Tail(stream))
        PROVE  Tail(stream)[i] \in Range(stream)
    <3>1. i + 1 \in DOMAIN stream /\ Tail(stream)[i] = stream[i + 1]
      BY <1>1, <1>2
    <3>2. QED
      BY <3>1 DEF Range
  <2>2. DOMAIN Tail(stream) = 1..Len(Tail(stream))
    BY <1>2
  <2>3. QED
    BY <2>1, <2>2 DEF Range
<1>6. QED
  BY <1>1, <1>2, <1>3, <1>4, <1>5

LEMMA DropLocalsTurn ==
    ASSUME DropLocals, pc' \in {"outer", "stopped"}
    PROVE  TurnInv'
BY DEF DropLocals, TurnInv

LEMMA TurnStep ==
    ASSUME IInv, TurnInv, [Next]_vars
    PROVE  TurnInv'
<1>1. CASE SleepAtTip \/ Wake \/ Restart
  <2>1. /\ pc \in {"outer", "sleep", "stopped"} /\ pc' \in {"outer", "sleep"}
        /\ UNCHANGED <<db, checkpoint, prior, cut, next, upto, stream, blocks>>
    BY <1>1 DEF SleepAtTip, Wake, Restart, store, link, feed, buffer
  <2>2. QED
    BY <2>1 DEF TurnInv
<1>2. CASE OpenStream
  <2>1. StartHeight \in Nat \ {0} /\ StartHeight = BaseHeight(db.checkpoint) + 1
    BY BirthdayAssumption DEF StartHeight, BaseHeight, IInv, TypeOK, Db, Cursor
  <2>2. /\ pc' = "stream" /\ checkpoint' = db.checkpoint /\ prior' = db.checkpoint
        /\ next' = StartHeight /\ upto' = Len(chain) /\ StartHeight <= Len(chain)
        /\ stream' = <<>> /\ blocks' = <<>> /\ UNCHANGED <<db, cut>>
    BY <1>2 DEF OpenStream, IInv, ControlInv, Idle, store, buffer
  <2>3. Len(chain) \in Nat /\ (pc = "outer" => cut = NoCursor)
    BY DEF IInv, TypeOK, TurnInv
  <2>4. db.checkpoint # NoCursor => Len(db.checkpoint) \in Nat
    BY DEF IInv, TypeOK, Db, Cursor
  <2>5. pc = "outer"
    BY <1>2 DEF OpenStream
  <2>6. next' = BaseHeight(prior') + 1 + Len(stream')
    BY <2>1, <2>2 DEF BaseHeight
  <2>7. QED
    BY <2>1, <2>2, <2>3, <2>4, <2>5, <2>6 DEF TurnInv
<1>3. CASE ServeBlock
  <2>1. /\ next <= upto /\ next' = next + 1 /\ stream' = Append(stream, Prefix(chain, next))
        /\ UNCHANGED <<db, pc, checkpoint, prior, cut, upto, blocks>>
    BY <1>3 DEF ServeBlock, store, link, buffer
  <2>2. stream \in Seq(BlockHash) /\ next \in Nat /\ upto \in Nat
    BY DEF IInv, TypeOK
  <2>3. /\ Len(stream') = Len(stream) + 1 /\ stream' # <<>>
        /\ stream # <<>> => Head(stream') = Head(stream)
    <3>1. Prefix(chain, next) \in BlockHash
      BY <1>3, PrefixFacts DEF ServeBlock, BlockHash, IInv, TypeOK
    <3>2. QED
      BY <2>1, <2>2, <3>1
  <2>4. next' <= upto' + 1
    BY <2>1, <2>2
  <2>5. upto' > 0 => next' = BaseHeight(prior') + 1 + Len(stream')
    <3>1. BaseHeight(prior) \in Int /\ Len(stream) \in Nat
      BY <2>2, BirthdayAssumption DEF BaseHeight, IInv, TypeOK, Cursor
    <3>2. QED
      BY <2>1, <2>2, <2>3, <3>1 DEF TurnInv, BaseHeight
  <2>6. pc' \in {"rewind", "cut"} =>
           /\ prior' = db'.checkpoint
           /\ stream' # <<>> /\ prior' # NoCursor /\ prior' # PrevHash(Head(stream'))
    BY <2>1, <2>3 DEF TurnInv, LinkBroken
  <2>7. QED
    BY <2>1, <2>3, <2>4, <2>5, <2>6 DEF TurnInv, LinkBroken
<1>4. CASE BrokenSeam
  <2>1. /\ pc = "stream" /\ pc' = "rewind" /\ stream # <<>> /\ LinkBroken(Head(stream))
        /\ prior = checkpoint
        /\ UNCHANGED <<db, checkpoint, prior, cut, next, upto, stream, blocks>>
    BY <1>4 DEF BrokenSeam, store, link, feed, buffer
  <2>2. prior = db.checkpoint
    <3>1. prior # NoCursor /\ Reading /\ checkpoint \in Cursor
      BY <2>1 DEF LinkBroken, IInv, ControlInv, TypeOK
    <3>2. Len(checkpoint) \in Nat
      BY <2>1, <3>1 DEF Cursor
    <3>3. QED
      BY <2>1, <3>1, <3>2 DEF Reading
  <2>3. QED
    BY <2>1, <2>2 DEF TurnInv, LinkBroken
<1>5. CASE BrokenLink \/ RewindToCut \/ Fail \/ BlockNotFound \/ PowerLoss
  BY <1>5, DropLocalsTurn
     DEF BrokenLink, RewindToCut, Fail, BlockNotFound, PowerLoss
<1>6. CASE BufferBlock \/ FlushBatch
  <2>1. /\ pc = "stream" /\ pc' \in {"stream", "scan"} /\ stream # <<>>
        /\ prior' = Head(stream) /\ stream' = Tail(stream)
        /\ UNCHANGED <<db, checkpoint, cut, next, upto>>
    BY <1>6 DEF BufferBlock, FlushBatch, store
  <2>2. blocks' # <<>>
    <3>1. CASE BufferBlock
      BY <3>1, AppendFacts DEF BufferBlock, IInv, TypeOK
    <3>2. CASE FlushBatch
      BY <3>2 DEF FlushBatch
    <3>3. QED
      BY <1>6, <3>1, <3>2
  <2>3. next' = BaseHeight(prior') + 1 + Len(stream')
    <3>1. /\ Head(stream) # NoCursor /\ Len(Head(stream)) \in Nat
          /\ Len(Head(stream)) = next - Len(stream)
          /\ Len(stream') = Len(stream) - 1 /\ Len(stream) \in Nat
      BY <2>1, HeadFacts, HashFacts
    <3>2. BaseHeight(prior') = Len(Head(stream)) /\ next \in Nat
      BY <2>1, <3>1 DEF BaseHeight, IInv, TypeOK
    <3>3. QED
      BY <2>1, <3>1, <3>2
  <2>4. QED
    BY <2>1, <2>2, <2>3 DEF TurnInv
<1>7. CASE EndOfStream
  <2>1. CASE blocks = <<>>
    BY <1>7, <2>1, DropLocalsTurn DEF EndOfStream
  <2>2. CASE blocks # <<>>
    <3>1. /\ pc = "stream" /\ pc' = "scan" /\ blocks' = <<>> /\ next' = 1 /\ upto' = 0
          /\ UNCHANGED <<db, checkpoint, prior, cut, stream>>
      BY <1>7, <2>2 DEF EndOfStream, store, link
    <3>2. QED
      BY <3>1 DEF TurnInv
  <2>3. QED
    BY <2>1, <2>2
<1>8. CASE FetchCut
  <2>1. /\ pc = "rewind" /\ pc' = "cut"
        /\ UNCHANGED <<db, checkpoint, prior, next, upto, stream, blocks>>
    BY <1>8 DEF FetchCut, store, feed, buffer
  <2>2. QED
    BY <2>1 DEF TurnInv, LinkBroken
<1>9. CASE Scan
  <2>1. /\ pc = "scan" /\ pc' = "fetch"
        /\ UNCHANGED <<db, checkpoint, prior, cut, next, upto, stream, blocks>>
    BY <1>9 DEF Scan, store, link, feed, buffer
  <2>2. QED
    BY <2>1 DEF TurnInv
<1>10. CASE ApplySegment
  <2>1. /\ pc = "fetch" /\ pc' = "hook" /\ db'.checkpoint = remaining[scanned]
        /\ UNCHANGED <<checkpoint, prior, cut, next, upto, stream, blocks>>
    BY <1>10 DEF ApplySegment, ApplyTransactions, link, feed, buffer
  <2>2. /\ remaining[scanned] # NoCursor
        /\ Len(remaining[scanned]) = BaseHeight(db.checkpoint) + scanned
        /\ scanned \in Nat \ {0}
    <3>1. /\ remaining \in Seq(BlockHash) /\ scanned \in 1..Len(remaining)
          /\ Chained(db.checkpoint, remaining)
      BY <2>1 DEF IInv, ControlInv, Scanned, TypeOK
    <3>2. QED
      BY <3>1, HashFacts DEF Chained
  <2>3. ASSUME checkpoint # NoCursor
        PROVE  Len(checkpoint) < Len(remaining[scanned])
    <3>1. /\ db.checkpoint # NoCursor /\ Len(checkpoint) <= Len(db.checkpoint)
          /\ Len(checkpoint) \in Nat /\ Len(db.checkpoint) \in Nat
      BY <2>3 DEF TurnInv, IInv, TypeOK, Db, Cursor
    <3>2. QED
      BY <2>2, <3>1 DEF BaseHeight
  <2>4. checkpoint # NoCursor => Len(checkpoint) \in Nat
    BY DEF IInv, TypeOK, Cursor
  <2>5. db'.checkpoint # checkpoint'
    BY <2>1, <2>2, <2>3, <2>4
  <2>6. checkpoint' # NoCursor =>
           db'.checkpoint # NoCursor /\ Len(checkpoint') <= Len(db'.checkpoint)
    <3>1. checkpoint # NoCursor => Len(remaining[scanned]) \in Nat
      BY <2>2, BirthdayAssumption DEF BaseHeight, IInv, TypeOK, Db, Cursor
    <3>2. QED
      BY <2>1, <2>2, <2>3, <2>4, <3>1
  <2>7. QED
    BY <2>1, <2>5, <2>6 DEF TurnInv
<1>11. CASE HandBlocks
  <2> DEFINE rest == SubSeq(remaining, scanned + 1, Len(remaining))
  <2>1. CASE rest = <<>> /\ blocks = <<>>
    BY <1>11, <2>1, DropLocalsTurn DEF HandBlocks
  <2>2. CASE ~(rest = <<>> /\ blocks = <<>>)
    <3>1. /\ pc = "hook" /\ pc' = IF rest = <<>> THEN "stream" ELSE "scan"
          /\ UNCHANGED <<db, checkpoint, prior, cut, next, upto, stream, blocks>>
      BY <1>11, <2>2 DEF HandBlocks, store, link, feed, buffer
    <3>2. pc' \in {"stream", "scan"} /\ (pc' = "stream" => blocks' # <<>>)
      BY <2>2, <3>1
    <3>3. QED
      BY <3>1, <3>2 DEF TurnInv
  <2>3. QED
    BY <2>1, <2>2
<1>12. CASE WalSync \/ ServerMoves \/ UNCHANGED vars
  <2>1. UNCHANGED <<db, pc, checkpoint, prior, cut, next, upto, stream, blocks>>
    BY <1>12 DEF WalSync, ServerMoves, vars, store, link, feed, buffer
  <2>2. QED
    BY <2>1 DEF TurnInv, LinkBroken
<1>13. QED
  BY <1>1, <1>2, <1>3, <1>4, <1>5, <1>6, <1>7, <1>8, <1>9, <1>10, <1>11, <1>12
     DEF Next, Engine, Read, Process, Faults

LEMMA StepTypes ==
    ASSUME IInv
    PROVE  /\ ToServe \in Nat /\ ToApply \in Nat /\ Stage \in 1..5
           /\ Len(stream) \in Nat /\ Len(blocks) \in Nat /\ Len(remaining) \in Nat
           /\ StepsOfTurn \in Nat /\ StepsLeft \in Nat
<1>1. /\ next \in Nat /\ upto \in Nat /\ Len(chain) \in Nat
      /\ Len(stream) \in Nat /\ Len(blocks) \in Nat /\ Len(remaining) \in Nat
  BY DEF IInv, TypeOK
<1>2. StartHeight \in Nat
  BY BirthdayAssumption DEF StartHeight, IInv, TypeOK, Db, Cursor
<1>3. ToServe \in Nat /\ ToApply \in Nat
  BY <1>1, <1>2 DEF ToServe, ToApply
<1>4. Stage \in 1..5
  BY DEF Stage, IInv, TypeOK
<1>5. StepsOfTurn \in Nat
  BY <1>1, <1>3, <1>4 DEF StepsOfTurn
<1>6. StepsLeft \in Nat
  BY <1>3, <1>5 DEF StepsLeft
<1>7. QED
  BY <1>1, <1>3, <1>4, <1>5, <1>6

\* Whatever the engine does within a turn, fewer steps are left in it.
LEMMA StepsShrink ==
    ASSUME IInv, TurnInv,
           \/ ServeBlock \/ BrokenSeam \/ BufferBlock \/ FlushBatch
           \/ EndOfStream /\ blocks # <<>>
           \/ FetchCut \/ Scan \/ ApplySegment
           \/ HandBlocks /\ ~DropLocals
    PROVE  StepsOfTurn' < StepsOfTurn
<1> /\ ToServe \in Nat /\ Stage \in 1..5
    /\ Len(stream) \in Nat /\ Len(blocks) \in Nat /\ Len(remaining) \in Nat
  BY StepTypes
<1>1. CASE ServeBlock
  <2>1. /\ next \in Nat /\ upto \in Nat /\ next <= upto /\ next' = next + 1
        /\ UNCHANGED <<pc, upto, blocks, remaining>>
    BY <1>1 DEF ServeBlock, buffer, batch, IInv, TypeOK
  <2>2. Len(stream') = Len(stream) + 1
    BY <1>1 DEF ServeBlock, IInv, TypeOK
  <2>3. ToServe' = ToServe - 1 /\ Stage' = Stage
    BY <2>1 DEF ToServe, Stage
  <2>4. QED
    BY <2>1, <2>2, <2>3 DEF StepsOfTurn
<1>2. CASE BrokenSeam \/ FetchCut \/ Scan \/ ApplySegment
  <2>1. /\ UNCHANGED <<next, upto, stream, blocks, remaining>>
        /\ \/ pc = "stream" /\ pc' = "rewind"
           \/ pc = "rewind" /\ pc' = "cut"
           \/ pc = "scan" /\ pc' = "fetch"
           \/ pc = "fetch" /\ pc' = "hook"
    BY <1>2 DEF BrokenSeam, FetchCut, Scan, ApplySegment, feed, buffer, batch
  <2>2. ToServe' = ToServe /\ Stage' < Stage /\ Stage' \in Nat
    BY <2>1 DEF ToServe, Stage
  <2>3. QED
    BY <2>1, <2>2 DEF StepsOfTurn
<1>3. CASE BufferBlock
  <2>1. /\ stream # <<>> /\ stream' = Tail(stream)
        /\ UNCHANGED <<pc, next, upto, remaining>>
    BY <1>3 DEF BufferBlock, batch
  <2>2. Len(stream') = Len(stream) - 1
    BY <2>1, HeadFacts
  <2>3. Len(blocks') = Len(blocks) + 1
    BY <1>3 DEF BufferBlock, IInv, TypeOK
  <2>4. ToServe' = ToServe /\ Stage' = Stage
    BY <2>1 DEF ToServe, Stage
  <2>5. QED
    BY <2>1, <2>2, <2>3, <2>4 DEF StepsOfTurn
<1>4. CASE FlushBatch
  <2>1. /\ pc = "stream" /\ pc' = "scan" /\ stream # <<>> /\ stream' = Tail(stream)
        /\ blocks # <<>> /\ remaining' = blocks /\ UNCHANGED <<next, upto>>
    BY <1>4 DEF FlushBatch, BatchFull
  <2>2. Len(stream') = Len(stream) - 1
    BY <2>1, HeadFacts
  <2>3. Len(blocks') = 1 /\ Len(blocks) > 0
    BY <1>4, <2>1 DEF FlushBatch, IInv, TypeOK
  <2>4. Len(remaining') = Len(blocks) /\ Len(remaining) = 0
    BY <2>1 DEF IInv, ControlInv
  <2>5. ToServe' = ToServe /\ Stage' = 5 /\ Stage = 3
    BY <2>1 DEF ToServe, Stage
  <2>6. QED
    BY <2>2, <2>3, <2>4, <2>5 DEF StepsOfTurn
<1>5. CASE EndOfStream /\ blocks # <<>>
  <2>1. /\ pc = "stream" /\ pc' = "scan" /\ next > upto
        /\ remaining' = blocks /\ blocks' = <<>> /\ next' = 1 /\ upto' = 0
        /\ UNCHANGED stream
    BY <1>5 DEF EndOfStream
  <2>2. Len(blocks') = 0 /\ Len(blocks) > 0
    BY <1>5, <2>1 DEF IInv, TypeOK
  <2>3. Len(remaining') = Len(blocks) /\ Len(remaining) = 0
    BY <2>1 DEF IInv, ControlInv
  <2>4. ToServe' = 0 /\ ToServe = 0 /\ Stage' = 5 /\ Stage = 3
    BY <2>1 DEF ToServe, Stage, IInv, TypeOK
  <2>5. QED
    BY <2>1, <2>2, <2>3, <2>4 DEF StepsOfTurn
<1>6. CASE HandBlocks /\ ~DropLocals
  <2>1. /\ pc = "hook" /\ pc' \in {"stream", "scan"}
        /\ remaining' = SubSeq(remaining, scanned + 1, Len(remaining))
        /\ UNCHANGED <<next, upto, stream, blocks>>
    BY <1>6 DEF HandBlocks, feed, buffer
  <2>2. scanned \in 1..Len(remaining) /\ remaining \in Seq(BlockHash)
    BY <2>1 DEF IInv, ControlInv, Applied, TypeOK
  <2>3. Len(remaining') = Len(remaining) - scanned
    BY <2>1, <2>2, RestFacts
  <2>4. Len(remaining') \in Nat /\ Len(remaining') <= Len(remaining) - 1
    BY <2>2, <2>3
  <2>5. ToServe' = ToServe /\ Stage' \in 3..5 /\ Stage = 3
    BY <2>1 DEF ToServe, Stage
  <2>6. Len(stream') = Len(stream) /\ Len(blocks') = Len(blocks)
    BY <2>1
  <2>7. QED
    BY <2>4, <2>5, <2>6 DEF StepsOfTurn
<1>7. QED
  BY <1>1, <1>2, <1>3, <1>4, <1>5, <1>6

\* While the chain rests, a turn is given no block of an abandoned fork.
LEMMA TurnStaysFresh ==
    ASSUME IInv, TurnInv, Next, UNCHANGED server, ~StaleTurn
    PROVE  ~StaleTurn'
<1>1. /\ chain' = chain /\ chain \in Seq(Block) /\ Len(chain) \in Nat
      /\ upto <= Len(chain) /\ \A c \in Held : OnChain(c)
  BY DEF server, StaleTurn, IInv, TypeOK
<1>2. ASSUME NEW k \in 0..Len(chain)
      PROVE  OnChain(Prefix(chain, k))
  BY <1>1, PrefixFacts DEF OnChain, Extends
<1>3. \A c \in Held' : OnChain(c)
  BY <1>1, <1>2, HeldStep
<1>4. upto' <= Len(chain) /\ upto' \in Nat
  <2>1. upto' \in {upto, 0, Len(chain)} /\ upto \in Nat
    BY DEF Next, Engine, Read, Process, Faults, SleepAtTip, Wake, Restart,
           OpenStream, ServeBlock, BrokenSeam, BrokenLink, BufferBlock,
           FlushBatch, EndOfStream, FetchCut, RewindToCut, Scan, ApplySegment,
           HandBlocks, BlockNotFound, Fail, PowerLoss, WalSync, ServerMoves,
           DropLocals, feed, IInv, TypeOK
  <2>2. QED
    BY <1>1, <2>1
<1>5. ~(upto' > Len(chain')) /\ \A c \in Held' : Extends(chain', c)
  BY <1>1, <1>3, <1>4 DEF OnChain
<1>6. QED
  BY <1>5 DEF StaleTurn, OnChain

\* Two blocks of one chain at one height are the same block.
LEMMA SameBlock ==
    ASSUME NEW c \in Seq(Block), NEW e \in Seq(Block), Len(c) = Len(e),
           OnChain(c), OnChain(e)
    PROVE  c = e
BY DEF OnChain, Extends

\* In a fresh turn a link is broken only at an abandoned checkpoint.
LEMMA BrokenMeansStale ==
    ASSUME IInv, TurnInv, ~StaleTurn, stream # <<>>, upto > 0,
           LinkBroken(Head(stream))
    PROVE  ~OnChain(prior)
<1> DEFINE b == Head(stream)
<1>1. b \in BlockHash /\ b \in Seq(Block) /\ Len(b) = next - Len(stream) /\ OnChain(b)
      /\ Len(b) \in Nat \ {0} /\ Len(stream) \in Nat
  BY HeadFacts, HashFacts DEF StaleTurn, Held
<1>2. prior # NoCursor /\ prior \in Seq(Block) /\ prior # PrevHash(b)
  BY DEF LinkBroken, IInv, TypeOK, Cursor
<1>3. Len(prior) = Len(b) - 1
  <2>1. next = Len(prior) + 1 + Len(stream) /\ next \in Nat /\ Len(prior) \in Nat
    BY <1>2 DEF TurnInv, BaseHeight, IInv, TypeOK
  <2>2. QED
    BY <1>1, <2>1
<1> HIDE DEF b
<1>4. /\ PrevHash(b) \in Seq(Block) /\ Len(PrevHash(b)) = Len(b) - 1
      /\ \A k \in 1..Len(b) - 1 : PrevHash(b)[k] = b[k]
  <2>1. Len(b) - 1 \in 0..Len(b)
    BY <1>1
  <2>2. QED
    BY <1>1, <2>1, PrefixFacts DEF PrevHash
<1>5. OnChain(PrevHash(b))
  <2>1. Len(b) <= Len(chain) /\ \A k \in 1..Len(b) : chain[k] = b[k]
    BY <1>1 DEF OnChain, Extends
  <2>2. /\ Len(chain) \in Nat /\ Len(b) - 1 <= Len(chain)
        /\ \A k \in 1..Len(b) - 1 : k \in 1..Len(b)
    BY <1>1, <2>1 DEF IInv, TypeOK
  <2>3. \A k \in 1..Len(b) - 1 : chain[k] = PrevHash(b)[k]
    BY <1>4, <2>1, <2>2
  <2>4. QED
    BY <1>4, <2>2, <2>3 DEF OnChain, Extends
<1>6. QED
  BY <1>2, <1>3, <1>4, <1>5, SameBlock

\* In a fresh turn the server has every block it is asked for.
LEMMA FreshIsServed ==
    ASSUME IInv, TurnInv, ~StaleTurn
    PROVE  ~BlockNotFound
<1>1. chain \in Seq(Block) /\ Len(chain) \in Nat /\ upto <= Len(chain)
      /\ next \in Nat /\ upto \in Nat
  BY DEF StaleTurn, IInv, TypeOK
<1>2. ASSUME pc = "rewind"
      PROVE  CutHeight <= Len(chain)
  <2>1. /\ stream # <<>> /\ upto > 0 /\ checkpoint = db.checkpoint
        /\ prior = db.checkpoint /\ checkpoint # NoCursor
    BY <1>2 DEF TurnInv, IInv, ControlInv
  <2>2. Len(checkpoint) \in Nat /\ Len(checkpoint) >= Birthday - 1
    BY <2>1 DEF IInv, TypeOK, Cursor, AboveBirthday
  <2>3. /\ Len(Head(stream)) = next - Len(stream) /\ Len(stream) \in Nat
        /\ OnChain(Head(stream)) /\ Len(Head(stream)) \in Nat
    BY <2>1, HeadFacts, HashFacts DEF StaleTurn, Held
  <2>4. Len(checkpoint) + 1 = next - Len(stream)
    BY <1>1, <2>1, <2>2, <2>3 DEF TurnInv, BaseHeight
  <2>5. Len(Head(stream)) <= Len(chain)
    BY <2>3 DEF OnChain, Extends
  <2>6. Len(checkpoint) <= Len(chain)
    BY <1>1, <2>2, <2>3, <2>4, <2>5
  <2>7. QED
    BY <1>1, <2>2, <2>6, BirthdayAssumption, EngineAssumption DEF CutHeight
<1>3. CutHeight \in Int \/ pc # "rewind"
  BY <1>2, BirthdayAssumption, EngineAssumption
     DEF CutHeight, IInv, TypeOK, ControlInv, Cursor
<1>4. QED
  BY <1>1, <1>2, <1>3 DEF BlockNotFound

LEMMA WorkType ==
    ASSUME IInv
    PROVE  Work \in Nat \X Nat \X Nat \X Nat
BY StepTypes DEF Work

\* In a stale turn it is the steps of the turn that count, or it ends.
LEMMA StaleShrinks ==
    ASSUME StaleTurn, StaleTurn' => StepsOfTurn' < StepsOfTurn
    PROVE  Less(Work', Work)
<1>1. Work = <<1, 0, 0, StepsOfTurn>>
  BY DEF Work
<1>2. CASE StaleTurn'
  <2>1. Work' = <<1, 0, 0, StepsOfTurn'>>
    BY <1>2 DEF Work
  <2>2. /\ 4 \in DOMAIN Work /\ Work'[4] < Work[4]
        /\ \A j \in 1..(4 - 1) : Work'[j] = Work[j]
    BY <1>1, <1>2, <2>1
  <2>3. QED
    BY <2>2 DEF Less
<1>3. CASE ~StaleTurn'
  <2>1. Work'[1] = 0
    BY <1>3 DEF Work
  <2>2. /\ 1 \in DOMAIN Work /\ Work'[1] < Work[1]
        /\ \A j \in 1..(1 - 1) : Work'[j] = Work[j]
    BY <1>1, <2>1
  <2>3. QED
    BY <2>2 DEF Less
<1>4. QED
  BY <1>2, <1>3

\* In a fresh one the checkpoint is corrected, a segment applied, or a step taken.
LEMMA FreshShrinks ==
    ASSUME ~StaleTurn, ~StaleTurn',
           \/ StaleCheckpoint /\ ~StaleCheckpoint'
           \/ /\ (StaleCheckpoint' <=> StaleCheckpoint)
              /\ \/ ToApply' < ToApply
                 \/ ToApply' = ToApply /\ StepsLeft' < StepsLeft
    PROVE  Less(Work', Work)
<1> DEFINE flag(stale) == IF stale THEN 1 ELSE 0
<1>1. /\ Work = <<0, flag(StaleCheckpoint), ToApply, StepsLeft>>
      /\ Work' = <<0, flag(StaleCheckpoint'), ToApply', StepsLeft'>>
  BY DEF Work
<1>2. CASE StaleCheckpoint /\ ~StaleCheckpoint'
  <2>1. /\ 2 \in DOMAIN Work /\ Work'[2] < Work[2]
        /\ \A j \in 1..(2 - 1) : Work'[j] = Work[j]
    BY <1>1, <1>2
  <2>2. QED
    BY <2>1 DEF Less
<1>3. CASE (StaleCheckpoint' <=> StaleCheckpoint) /\ ToApply' < ToApply
  <2>1. /\ 3 \in DOMAIN Work /\ Work'[3] < Work[3]
        /\ \A j \in 1..(3 - 1) : Work'[j] = Work[j]
    BY <1>1, <1>3
  <2>2. QED
    BY <2>1 DEF Less
<1>4. CASE /\ (StaleCheckpoint' <=> StaleCheckpoint) /\ ToApply' = ToApply
           /\ StepsLeft' < StepsLeft
  <2>1. /\ 4 \in DOMAIN Work /\ Work'[4] < Work[4]
        /\ \A j \in 1..(4 - 1) : Work'[j] = Work[j]
    BY <1>1, <1>4
  <2>2. QED
    BY <2>1 DEF Less
<1>5. QED
  BY <1>2, <1>3, <1>4

LEMMA StaleWork ==
    ASSUME IInv, TurnInv, StaleTurn, (Engine /\ ~SleepAtTip) \/ ServeBlock
    PROVE  Less(Work', Work)
<1>1. pc \notin {"outer", "sleep", "stopped"}
  <2>1. SUFFICES ASSUME pc \in {"outer", "sleep", "stopped"}
                 PROVE  FALSE
    OBVIOUS
  <2>2. Idle /\ cut = NoCursor /\ Len(chain) \in Nat
    BY <2>1 DEF IInv, TypeOK, ControlInv, TurnInv
  <2>3. Held = {} /\ ~(upto > Len(chain))
    BY <2>2 DEF Held, Idle, Range
  <2>4. QED
    BY <2>3 DEF StaleTurn
<1>2. CASE DropLocals
  <2>1. Held' = {} /\ upto' = 0
    BY <1>2, DropLocalsHeld DEF DropLocals
  <2>2. chain' = chain /\ Len(chain) \in Nat
    BY DEF Engine, Read, Process, SleepAtTip, Wake, Restart, OpenStream,
           ServeBlock, BrokenSeam, BrokenLink, BufferBlock, FlushBatch,
           EndOfStream, FetchCut, RewindToCut, Scan, ApplySegment, HandBlocks,
           BlockNotFound, server, IInv, TypeOK
  <2>3. ~StaleTurn'
    BY <2>1, <2>2 DEF StaleTurn
  <2>4. QED
    BY <2>3, StaleShrinks
<1>3. CASE ~DropLocals
  <2>1. \/ ServeBlock \/ BrokenSeam \/ BufferBlock \/ FlushBatch
        \/ EndOfStream /\ blocks # <<>>
        \/ FetchCut \/ Scan \/ ApplySegment
        \/ HandBlocks /\ ~DropLocals
    BY <1>1, <1>3
       DEF Engine, Read, Process, Wake, OpenStream, BrokenLink, EndOfStream,
           RewindToCut, BlockNotFound, Restart
  <2>2. QED
    BY <2>1, StepsShrink, StaleShrinks
<1>4. QED
  BY <1>2, <1>3

LEMMA AddLess ==
    ASSUME NEW a \in Nat, NEW b \in Nat, NEW m \in Nat, a < b
    PROVE  a + m < b + m
OBVIOUS

LEMMA NextStepTypes == IInv' => (StepsOfTurn \in Nat)'
<1>1. IInv => StepsOfTurn \in Nat
  BY StepTypes
<1>2. QED
  BY <1>1, PTL

LEMMA FreshWork ==
    ASSUME IInv, IInv', TurnInv, ~StaleTurn, (Engine /\ ~SleepAtTip) \/ ServeBlock
    PROVE  Less(Work', Work)
<1>1. Next /\ UNCHANGED server
  BY DEF Next, Engine, Read, Process, SleepAtTip, Wake, Restart, OpenStream,
         ServeBlock, BrokenSeam, BrokenLink, BufferBlock, FlushBatch,
         EndOfStream, FetchCut, RewindToCut, Scan, ApplySegment, HandBlocks,
         BlockNotFound
<1>2. ~StaleTurn' /\ chain' = chain /\ chain \in Seq(Block) /\ Len(chain) \in Nat
  BY <1>1, TurnStaysFresh DEF server, IInv, TypeOK
<1>3. /\ ToServe \in Nat /\ ToApply \in Nat /\ Stage \in 1..5
      /\ Len(stream) \in Nat /\ Len(blocks) \in Nat /\ Len(remaining) \in Nat
      /\ StepsOfTurn \in Nat
  BY StepTypes
<1>4. ASSUME UNCHANGED db
      PROVE  (StaleCheckpoint' <=> StaleCheckpoint) /\ ToApply' = ToApply
  BY <1>2, <1>4 DEF StaleCheckpoint, ToApply, StartHeight, OnChain
<1>5. CASE Wake \/ Restart
  <2>1. /\ pc \in {"sleep", "stopped"} /\ pc' = "outer" /\ UNCHANGED db
    BY <1>5 DEF Wake, Restart, store
  <2>2. ToApply' = ToApply /\ StepsLeft = 8 * ToApply + 5 /\ StepsLeft' = 8 * ToApply' + 4
    BY <1>4, <2>1 DEF StepsLeft
  <2>3. StepsLeft' < StepsLeft
    BY <1>3, <2>2
  <2>4. QED
    BY <1>2, <1>4, <2>1, <2>3, FreshShrinks
<1>6. CASE OpenStream
  <2>1. /\ pc = "outer" /\ pc' = "stream" /\ UNCHANGED db /\ checkpoint' = db.checkpoint
        /\ next' = StartHeight /\ upto' = Len(chain) /\ StartHeight <= Len(chain)
        /\ stream' = <<>> /\ blocks' = <<>> /\ remaining' = <<>>
    BY <1>6 DEF OpenStream, IInv, ControlInv, Idle, store, buffer, batch
  <2>2. StartHeight \in Nat
    BY BirthdayAssumption DEF StartHeight, IInv, TypeOK, Db, Cursor
  <2>3. ToServe' = ToApply
    BY <1>2, <2>1, <2>2 DEF ToServe, ToApply
  <2>4. Stage' = 3
    BY <2>1 DEF Stage
  <2>5. StepsOfTurn' = 8 * ToApply + 3
    BY <1>3, <2>1, <2>3, <2>4 DEF StepsOfTurn
  <2>6. StepsLeft' = StepsOfTurn' + 0 /\ StepsLeft = 8 * ToApply + 4
    BY <2>1 DEF StepsLeft
  <2>7. StepsLeft' < StepsLeft
    BY <1>3, <2>5, <2>6
  <2>8. QED
    BY <1>2, <1>4, <2>1, <2>7, FreshShrinks
<1>7. CASE \/ ServeBlock \/ BrokenSeam \/ BufferBlock \/ FlushBatch
           \/ EndOfStream /\ blocks # <<>>
           \/ FetchCut \/ Scan
           \/ HandBlocks /\ ~DropLocals
  <2>1. StepsOfTurn' < StepsOfTurn
    BY <1>7, StepsShrink
  <2>2. /\ UNCHANGED <<db, checkpoint>>
        /\ pc' \notin {"outer", "sleep", "stopped"}
        /\ pc \notin {"outer", "sleep", "stopped"}
    <3>1. CASE ServeBlock
      <4>1. ~Idle
        BY <3>1 DEF ServeBlock, Idle
      <4>2. QED
        BY <3>1, <4>1 DEF ServeBlock, IInv, ControlInv, store, link
    <3>2. CASE ~ServeBlock
      BY <1>7, <3>2
         DEF BrokenSeam, BufferBlock, FlushBatch, EndOfStream, FetchCut, Scan,
             HandBlocks, store, link
    <3>3. QED
      BY <3>1, <3>2
  <2>3. PICK m \in Nat :
           StepsLeft = StepsOfTurn + m /\ StepsLeft' = StepsOfTurn' + m
    <3>1. 0 \in Nat /\ 8 * ToApply \in Nat
      BY <1>3
    <3>2. QED
      BY <1>4, <2>2, <3>1 DEF StepsLeft
  <2>4. StepsOfTurn' \in Nat
    BY NextStepTypes
  <2>5. StepsOfTurn' + m < StepsOfTurn + m
    BY <1>3, <2>1, <2>4, AddLess
  <2>6. StepsLeft' < StepsLeft
    BY <2>3, <2>5
  <2>7. QED
    BY <1>2, <1>4, <2>2, <2>6, FreshShrinks
<1>8. CASE ApplySegment
  <2>1. /\ remaining \in Seq(BlockHash) /\ scanned \in 1..Len(remaining)
        /\ Chained(db.checkpoint, remaining)
        /\ db'.checkpoint = remaining[scanned]
    BY <1>8 DEF ApplySegment, ApplyTransactions, IInv, TypeOK, ControlInv, Scanned
  <2>2. /\ remaining[scanned] \in BlockHash /\ remaining[scanned] # NoCursor
        /\ OnChain(remaining[scanned]) /\ Len(remaining[scanned]) \in Nat
        /\ Len(remaining[scanned]) = BaseHeight(db.checkpoint) + scanned
    <3>1. remaining[scanned] \in BlockHash /\ remaining[scanned] \in Held
      BY <2>1 DEF Held, Range
    <3>2. Len(remaining[scanned]) = BaseHeight(db.checkpoint) + scanned
      BY <2>1 DEF Chained
    <3>3. QED
      BY <3>1, <3>2, HashFacts DEF StaleTurn
  <2>3. ~StaleCheckpoint'
    BY <1>2, <2>1, <2>2 DEF StaleCheckpoint, OnChain
  <2>4. ToApply' < ToApply
    <3>1. /\ StartHeight = BaseHeight(db.checkpoint) + 1 /\ StartHeight \in Nat
          /\ BaseHeight(db.checkpoint) \in Int
      BY BirthdayAssumption DEF StartHeight, BaseHeight, IInv, TypeOK, Db, Cursor
    <3>2. StartHeight' = Len(remaining[scanned]) + 1
      BY <2>1, <2>2 DEF StartHeight
    <3>3. Len(remaining[scanned]) <= Len(chain)
      BY <2>2 DEF OnChain, Extends
    <3>4. QED
      <4>1. scanned \in Nat \ {0}
        BY <2>1
      <4>2. /\ StartHeight \in Nat /\ StartHeight' \in Nat
            /\ StartHeight < StartHeight' /\ StartHeight <= Len(chain)
        BY <1>2, <2>2, <3>1, <3>2, <3>3, <4>1
      <4>3. QED
        BY <1>2, <4>2 DEF ToApply
  <2>5. QED
    BY <1>2, <2>3, <2>4, FreshShrinks
<1>9. CASE RewindToCut
  <2>1. /\ stream # <<>> /\ upto > 0 /\ prior = db.checkpoint
        /\ LinkBroken(Head(stream)) /\ cut # NoCursor
    BY <1>9 DEF RewindToCut, TurnInv, IInv, ControlInv
  <2>2. db.checkpoint # NoCursor /\ ~OnChain(db.checkpoint)
    BY <2>1, BrokenMeansStale DEF LinkBroken
  <2>3. db'.checkpoint = cut /\ OnChain(cut)
    BY <1>9, <2>1 DEF RewindToCut, Rewind, StaleTurn, Held
  <2>4. StaleCheckpoint /\ ~StaleCheckpoint'
    BY <1>2, <2>2, <2>3 DEF StaleCheckpoint, OnChain
  <2>5. QED
    BY <1>2, <2>4, FreshShrinks
<1>10. ~BrokenLink
  <2>1. SUFFICES ASSUME BrokenLink
                 PROVE  FALSE
    OBVIOUS
  <2>2. /\ stream # <<>> /\ upto > 0 /\ LinkBroken(Head(stream)) /\ prior # checkpoint
        /\ Reading
    BY <2>1 DEF BrokenLink, TurnInv, IInv, ControlInv
  <2>3. blocks # <<>> /\ prior = blocks[Len(blocks)]
    BY <2>2 DEF Reading, LastRead
  <2>4. prior \in Held
    <3>1. Len(blocks) \in DOMAIN blocks
      BY <2>3 DEF IInv, TypeOK
    <3>2. QED
      BY <2>3, <3>1 DEF Held, Range
  <2>5. QED
    BY <2>2, <2>4, BrokenMeansStale DEF StaleTurn
<1>11. ~(EndOfStream /\ blocks = <<>>)
  <2>1. next \in Nat /\ upto \in Nat
    BY DEF IInv, TypeOK
  <2>2. QED
    BY <2>1 DEF EndOfStream, TurnInv
<1>12. CASE HandBlocks /\ DropLocals
  <2>1. pc = "hook" /\ pc' = "outer" /\ UNCHANGED db
    BY <1>12 DEF HandBlocks, DropLocals, store, buffer, IInv, ControlInv, Applied
  <2>2. db.checkpoint # checkpoint /\ scanned \in 1..Len(remaining)
    BY <2>1 DEF TurnInv, IInv, ControlInv, Applied
  <2>3. StepsOfTurn >= 6
    <3>1. Stage = 3 /\ Len(remaining) >= 1
      BY <1>3, <2>1, <2>2 DEF Stage
    <3>2. QED
      BY <1>3, <3>1 DEF StepsOfTurn
  <2>4. StepsLeft = StepsOfTurn + 8 * ToApply /\ StepsLeft' = 8 * ToApply' + 4
    BY <2>1, <2>2 DEF StepsLeft
  <2>5. StepsLeft' < StepsLeft
    BY <1>3, <1>4, <2>1, <2>3, <2>4
  <2>6. QED
    BY <1>2, <1>4, <2>1, <2>5, FreshShrinks
<1>13. ~BlockNotFound
  BY FreshIsServed
<1>14. QED
  BY <1>5, <1>6, <1>7, <1>8, <1>9, <1>10, <1>11, <1>12, <1>13
     DEF Engine, Read, Process

LEMMA InitTurn == Init => TurnInv
BY DEF Init, TurnInv

\* Nothing that the engine or its stream does, short of going to sleep at the
\* tip, is in vain: Work decreases, so no broken seam, rewind, dropped buffer or
\* reread repeats for ever on a chain that rests.
THEOREM EngineProgresses == Spec => EveryStepCounts
<1>1. Init => TurnInv
  BY InitTurn
<1>2. IInv /\ TurnInv /\ [Next]_vars => TurnInv'
  BY TurnStep
<1>3. IInv /\ IInv' /\ TurnInv /\ [Next]_vars
        => [(Engine /\ ~SleepAtTip) \/ ServeBlock => Less(Work', Work)]_vars
  BY StaleWork, FreshWork
<1>4. QED
  BY <1>1, <1>2, <1>3, InvariantHolds, PTL DEF Spec, EveryStepCounts

\* Work consists of natural numbers at every step.
THEOREM WorkIsCounted == Spec => [](Work \in Nat \X Nat \X Nat \X Nat)
<1>1. IInv => Work \in Nat \X Nat \X Nat \X Nat
  BY WorkType
<1>2. QED
  BY <1>1, InvariantHolds, PTL

LEMMA SmallestOf ==
    ASSUME NEW S \in SUBSET Nat, S # {}
    PROVE  \E m \in S : \A k \in S : m <= k
<1>1. PICK m \in S : \A k \in S : <<k, m>> \notin OpToRel(<, Nat)
  BY NatLessThanWellFounded, WFMin
<1>2. ASSUME NEW k \in S
      PROVE  m <= k
  <2>1. k \in Nat /\ m \in Nat
    OBVIOUS
  <2>2. ~(k < m)
    BY <1>1, <2>1 DEF OpToRel
  <2>3. QED
    BY <2>1, <2>2
<1>3. QED
  BY <1>2

LEMMA LeastAt ==
    ASSUME NEW V \in SUBSET (Nat \X Nat \X Nat \X Nat), V # {}, NEW i \in 1..4
    PROVE  \E w \in V : \A v \in V : w[i] <= v[i]
<1>1. {v[i] : v \in V} \in SUBSET Nat /\ {v[i] : v \in V} # {}
  OBVIOUS
<1>2. PICK m \in {v[i] : v \in V} : \A k \in {v[i] : v \in V} : m <= k
  BY <1>1, SmallestOf
<1>3. QED
  BY <1>2

\* A fact of the order alone, which turns EngineProgresses into an end: it has no
\* endless descent, as every set of values of Work has a least one.
LEMMA WorkRunsOut ==
    \A W \in SUBSET (Nat \X Nat \X Nat \X Nat) :
        W # {} => \E w \in W : \A v \in W : ~Less(v, w)
<1> SUFFICES ASSUME NEW W \in SUBSET (Nat \X Nat \X Nat \X Nat), W # {}
             PROVE  \E w \in W : \A v \in W : ~Less(v, w)
  OBVIOUS
<1>1. \A V \in SUBSET (Nat \X Nat \X Nat \X Nat) :
         V # {} => \A i \in 1..4 : \E w \in V : \A v \in V : w[i] <= v[i]
  BY LeastAt
<1>2. PICK w1 \in W : \A v \in W : w1[1] <= v[1]
  <2>1. 1 \in 1..4
    OBVIOUS
  <2>2. QED
    BY <1>1, <2>1
<1> DEFINE W1 == {v \in W : v[1] = w1[1]}
<1>3. PICK w2 \in W1 : \A v \in W1 : w2[2] <= v[2]
  <2>1. 2 \in 1..4 /\ W1 \in SUBSET (Nat \X Nat \X Nat \X Nat) /\ W1 # {}
    OBVIOUS
  <2> HIDE DEF W1
  <2>2. QED
    BY <1>1, <2>1
<1> DEFINE W2 == {v \in W1 : v[2] = w2[2]}
<1>4. PICK w3 \in W2 : \A v \in W2 : w3[3] <= v[3]
  <2>1. 3 \in 1..4 /\ W2 \in SUBSET (Nat \X Nat \X Nat \X Nat) /\ W2 # {}
    BY <1>3
  <2> HIDE DEF W2
  <2>2. QED
    BY <1>1, <2>1
<1> DEFINE W3 == {v \in W2 : v[3] = w3[3]}
<1>5. PICK w \in W3 : \A v \in W3 : w[4] <= v[4]
  <2>1. 4 \in 1..4 /\ W3 \in SUBSET (Nat \X Nat \X Nat \X Nat) /\ W3 # {}
    BY <1>4
  <2> HIDE DEF W3
  <2>2. QED
    BY <1>1, <2>1
<1>6. w \in W /\ w[1] = w1[1] /\ w[2] = w2[2] /\ w[3] = w3[3] /\ w[1] = w2[1]
      /\ w[1] = w3[1] /\ w[2] = w3[2]
  BY <1>3, <1>4, <1>5
<1>7. ASSUME NEW v \in W, Less(v, w)
      PROVE  FALSE
  <2>1. PICK i \in 1..4 : v[i] < w[i] /\ \A j \in 1..(i - 1) : v[j] = w[j]
    <3>1. DOMAIN w = 1..4
      BY <1>6
    <3>2. QED
      BY <1>7, <3>1 DEF Less
  <2>2. \A j \in 1..4 : v[j] \in Nat /\ w[j] \in Nat
    BY <1>6
  <2>3. CASE i = 1
    BY <1>2, <1>6, <2>1, <2>2, <2>3
  <2>4. CASE i = 2
    <3>1. v \in W1
      BY <1>6, <2>1, <2>4
    <3>2. QED
      BY <1>3, <1>6, <2>1, <2>2, <2>4, <3>1
  <2>5. CASE i = 3
    <3>1. v \in W2
      BY <1>6, <2>1, <2>5
    <3>2. QED
      BY <1>4, <1>6, <2>1, <2>2, <2>5, <3>1
  <2>6. CASE i = 4
    <3>1. v \in W3
      BY <1>6, <2>1, <2>6
    <3>2. QED
      BY <1>5, <2>1, <2>2, <2>6, <3>1
  <2>7. QED
    BY <2>3, <2>4, <2>5, <2>6
<1>8. QED
  BY <1>6, <1>7
-----------------------------------------------------------------------------
(* What is buried. *)

\* A note is spent above the height at which it was received.
LEMMA SpentAbove ==
    ASSUME NEW d \in Db, IsLedger(d), Valid(History(d.checkpoint)),
           NEW n \in Note, d.notes[n].spent_height # NULL
    PROVE  /\ d.notes[n].block_height # NULL
           /\ d.notes[n].block_height < d.notes[n].spent_height
<1> DEFINE c == History(d.checkpoint)
<1>1. /\ c \in Seq(Block) /\ Len(c) \in Nat /\ MinedOnce(c)
      /\ \A g \in Birthday..Len(c) : g \in 1..Len(c) /\ c[g].txs \subseteq Tx
  <2>1. c \in Seq(Block) /\ MinedOnce(c)
    BY DEF Valid, History, Db, Cursor
  <2>2. QED
    BY <2>1, BirthdayAssumption, BlockTxs
<1>2. NoteRowIs(d.notes[n], c, n)
  BY DEF IsLedger
<1>3. PICK h \in Birthday..Len(c) : \E t \in c[h].txs :
        SpendsAt(c, h, t, n) /\ d.notes[n].spent_height = h
  BY <1>2 DEF NoteRowIs
<1>4. PICK t \in c[h].txs : SpendsAt(c, h, t, n)
  BY <1>3
<1>5. d.notes[n].block_height # NULL
  <2>1. t \in Tx
    BY <1>1, <1>3
  <2>2. n \in Received(d.notes)
    BY <1>3, <1>4, <2>1, RowOfSpend
  <2>3. QED
    BY <2>2 DEF Received
<1>6. PICK g \in Birthday..Len(c), s \in Tx :
        s \in c[g].txs /\ n \in Outputs[s] /\ d.notes[n].block_height = g
  BY <1>1, <1>2, <1>5 DEF NoteRowIs
<1>7. PICK k \in Birthday..(h - 1), r \in Tx : r \in c[k].txs /\ n \in Outputs[r]
  <2>1. \A k \in Birthday..(h - 1) : k \in Birthday..Len(c)
    BY <1>1, <1>3, BirthdayAssumption
  <2>2. QED
    BY <1>1, <1>4, <2>1 DEF SpendsAt
<1>8. g = k
  <2>1. g \in 1..Len(c) /\ k \in 1..Len(c)
    BY <1>1, <1>3, <1>6, <1>7, BirthdayAssumption
  <2>2. QED
    BY <1>1, <1>6, <1>7, <2>1, CreatedOnce
<1>9. QED
  BY <1>3, <1>5, <1>6, <1>7, <1>8, BirthdayAssumption

\* A ledger's buried rows are of blocks that the server still has.
LEMMA BuriedSettled ==
    ASSUME NEW d \in Db, IsLedger(d), ServerInv, TypeOK,
           d.checkpoint # NoCursor => Settled(d.checkpoint, chain, peak),
           NEW h \in Birthday..Len(History(d.checkpoint)), Buried(d, h)
    PROVE  h <= Len(chain) /\ chain[h] = History(d.checkpoint)[h]
<1> DEFINE c == d.checkpoint
<1>1. /\ c # NoCursor /\ c \in Seq(Block) /\ Len(c) \in Nat /\ Settled(c, chain, peak)
      /\ History(d.checkpoint) = c
  BY DEF Buried, Db, Cursor, History
<1>2. h \in Nat /\ h >= 1 /\ h <= Len(c) - ReorgLimit /\ h <= Len(c) - MAX_REORG_DEPTH
  BY <1>1, BirthdayAssumption, HeightAssumption, EngineAssumption, DepthAssumption
     DEF Buried
<1>3. h \in 1..Len(c)
  BY <1>1, <1>2, HeightAssumption
<1>4. c[h] = chain[h]
  BY <1>1, <1>2, <1>3 DEF Settled
<1>5. h <= Len(chain)
  <2>1. Len(c) <= peak /\ peak - ReorgLimit <= Len(chain) /\ Len(chain) \in Nat
        /\ peak \in Nat
    BY <1>1 DEF Settled, ServerInv, TypeOK
  <2>2. QED
    BY <1>1, <1>2, <2>1, HeightAssumption
<1>6. QED
  BY <1>1, <1>4, <1>5

\* A payment, a spend or an amount MAX_REORG_DEPTH blocks below the checkpoint is
\* on the server's best chain at every moment, also while the engine has not seen
\* a reorganisation yet: deeper than that, the store of db.rs is final.
THEOREM BuriedIsFinal == Spec => []BuriedIsOnChain
<1>1. IInv => BuriedIsOnChain
  <2>1. SUFFICES ASSUME IInv, NEW d \in {db, durable}
                 PROVE
        /\ \A n \in Note : LET h == d.notes[n].block_height IN
              Buried(d, h) => h <= Len(chain) /\ \E t \in chain[h].txs : n \in Outputs[t]
        /\ \A n \in Note : LET h == d.notes[n].spent_height IN
              Buried(d, h) => h <= Len(chain) /\ d.notes[n].spent_txid \in chain[h].txs
        /\ \A t \in Tx : LET h == d.txs[t].block_height IN
              Buried(d, h) => h <= Len(chain) /\ t \in chain[h].txs
    BY DEF BuriedIsOnChain
  <2> DEFINE c == History(d.checkpoint)
  <2>2. /\ d \in Db /\ IsLedger(d) /\ ServerInv /\ TypeOK
        /\ d.checkpoint # NoCursor => Settled(d.checkpoint, chain, peak)
    BY <2>1, StoresKnown DEF IInv, SettledInv, Known
  <2>3. \A h \in Birthday..Len(c) :
           Buried(d, h) => h <= Len(chain) /\ chain[h] = c[h]
    BY <2>2, BuriedSettled
  <2>4. ASSUME NEW n \in Note, Buried(d, d.notes[n].block_height)
        PROVE  /\ d.notes[n].block_height <= Len(chain)
               /\ \E t \in chain[d.notes[n].block_height].txs : n \in Outputs[t]
    <3>1. d.notes[n].block_height # NULL /\ NoteRowIs(d.notes[n], c, n)
      BY <2>2, <2>4 DEF Buried, IsLedger
    <3>2. PICK h \in Birthday..Len(c) :
            /\ \E t \in c[h].txs : n \in Outputs[t]
            /\ d.notes[n].block_height = h
      BY <3>1 DEF NoteRowIs
    <3>3. QED
      BY <2>3, <2>4, <3>2
  <2>5. ASSUME NEW n \in Note, Buried(d, d.notes[n].spent_height)
        PROVE  /\ d.notes[n].spent_height <= Len(chain)
               /\ d.notes[n].spent_txid \in chain[d.notes[n].spent_height].txs
    <3>1. d.notes[n].spent_height # NULL /\ NoteRowIs(d.notes[n], c, n)
      BY <2>2, <2>5 DEF Buried, IsLedger
    <3>2. PICK h \in Birthday..Len(c) :
            /\ d.notes[n].spent_txid \in c[h].txs
            /\ d.notes[n].spent_height = h
      BY <3>1 DEF NoteRowIs
    <3>3. QED
      BY <2>3, <2>5, <3>2
  <2>6. ASSUME NEW t \in Tx, Buried(d, d.txs[t].block_height)
        PROVE  /\ d.txs[t].block_height <= Len(chain)
               /\ t \in chain[d.txs[t].block_height].txs
    <3>1. d.txs[t] # NoRow /\ TxRowIs(d.txs[t], c, t)
      BY <2>2, <2>6 DEF Buried, IsLedger, NoRow
    <3>2. PICK h \in Birthday..Len(c) :
            t \in c[h].txs /\ d.txs[t].block_height = h
      BY <3>1 DEF TxRowIs, ConcernsAt, MinedAt
    <3>3. QED
      BY <2>3, <2>6, <3>2
  <2>7. QED
    BY <2>4, <2>5, <2>6
<1>2. QED
  BY <1>1, InvariantHolds, PTL

LEMMA DepthStep ==
    ASSUME IInv, CutAtDepth, [Next]_vars
    PROVE  CutAtDepth'
<1>1. CASE FetchCut
  <2>1. /\ CutHeight \in 0..Len(chain) /\ chain \in Seq(Block)
        /\ CutHeight >= Len(checkpoint) - MAX_REORG_DEPTH
        /\ checkpoint = db.checkpoint
    <3>1. /\ checkpoint = db.checkpoint /\ Len(checkpoint) \in Nat
          /\ chain \in Seq(Block) /\ CutHeight <= Len(chain)
      BY <1>1 DEF FetchCut, IInv, ControlInv, TypeOK, Cursor
    <3>2. QED
      BY <3>1, BirthdayAssumption, EngineAssumption DEF CutHeight
  <2>2. Len(cut') = CutHeight /\ db' = db
    BY <1>1, <2>1, PrefixFacts DEF FetchCut, store
  <2>3. QED
    BY <2>1, <2>2 DEF CutAtDepth
<1>2. CASE UNCHANGED <<pc, db, cut>>
  BY <1>2 DEF CutAtDepth
<1>3. CASE pc' # "cut"
  BY <1>3 DEF CutAtDepth
<1>4. CASE HandBlocks
  <2>1. pc' # "cut"
    BY <1>4 DEF HandBlocks
  <2>2. QED
    BY <2>1 DEF CutAtDepth
<1>5. QED
  BY <1>1, <1>2, <1>3, <1>4
     DEF Next, vars, Engine, Read, Process, Faults, SleepAtTip, Wake, Restart,
         OpenStream, ServeBlock, BrokenSeam, BrokenLink, BufferBlock, FlushBatch,
         EndOfStream, RewindToCut, Scan, ApplySegment, BlockNotFound, Fail,
         PowerLoss, WalSync, ServerMoves, store, link

\* The rows that BuriedRowsStay is about, from d to e.
RowsStay(d, e) ==
    /\ \A n \in Note :
          /\ Buried(d, d.notes[n].block_height) =>
                e.notes[n].block_height = d.notes[n].block_height
          /\ Buried(d, d.notes[n].spent_height) => e.notes[n] = d.notes[n]
    /\ \A t \in Tx : Buried(d, d.txs[t].block_height) => e.txs[t] = d.txs[t]

LEMMA RewindStays ==
    ASSUME NEW d \in Db, IsLedger(d), Valid(History(d.checkpoint)),
           NEW to \in Seq(Block), Len(to) >= Len(d.checkpoint) - MAX_REORG_DEPTH
    PROVE  RowsStay(d, Rewind(d, to))
<1> DEFINE e == Rewind(d, to)
<1>1. d.notes \in [Note -> NoteRow] /\ d.txs \in [Tx -> TxRow] /\ Len(to) \in Nat
  BY DEF Db
<1>2. ASSUME NEW h \in Height, Buried(d, h)
      PROVE  ~(h > Len(to))
  <2>1. Len(d.checkpoint) \in Nat /\ MAX_REORG_DEPTH \in Nat /\ h \in Int
    BY <1>2, EngineAssumption DEF Buried, Db, Cursor, Height, NULL
  <2>2. QED
    BY <1>1, <1>2, <2>1 DEF Buried
<1>3. ASSUME NEW n \in Note, Buried(d, d.notes[n].block_height)
      PROVE  e.notes[n].block_height = d.notes[n].block_height
  <2>1. d.notes[n].block_height \in Height
    BY <1>1 DEF NoteRow
  <2>2. QED
    BY <1>2, <1>3, <2>1 DEF Rewind, ReceivedAt
<1>4. ASSUME NEW n \in Note, Buried(d, d.notes[n].spent_height)
      PROVE  e.notes[n] = d.notes[n]
  <2>1. d.notes[n].block_height \in Height /\ d.notes[n].spent_height \in Height
    BY <1>1 DEF NoteRow
  <2>2. ~(d.notes[n].spent_height > Len(to))
    BY <1>2, <1>4, <2>1
  <2>3. d.notes[n].block_height < d.notes[n].spent_height
    BY <1>4, SpentAbove DEF Buried
  <2>4. ~(d.notes[n].block_height > Len(to))
    BY <1>1, <2>1, <2>2, <2>3 DEF Height, NULL
  <2>5. QED
    BY <2>2, <2>4 DEF Rewind
<1>5. ASSUME NEW t \in Tx, Buried(d, d.txs[t].block_height)
      PROVE  e.txs[t] = d.txs[t]
  <2>1. d.txs[t].block_height \in Height
    BY <1>1 DEF TxRow
  <2>2. QED
    BY <1>2, <1>5, <2>1 DEF Rewind
<1>6. QED
  BY <1>3, <1>4, <1>5 DEF RowsStay

LEMMA ApplyStays ==
    ASSUME NEW d, NEW e, NextFound(d, e), Valid(History(d.checkpoint)), NEW ws,
           \A w \in ws : w.txid \in e[Len(e)].txs
    PROVE  RowsStay(d, ApplyTransactions(d, e, ws))
<1> DEFINE notes == InsertNotes(d.notes, ws)
           f == ApplyTransactions(d, e, ws)
<1>1. d \in Db /\ IsLedger(d)
  BY DEF NextFound
<1>2. ASSUME NEW n \in Note, d.notes[n].block_height # NULL
      PROVE  notes[n] = d.notes[n]
  BY <1>2 DEF InsertNotes
<1>3. ASSUME NEW n \in Note, d.notes[n].block_height # NULL
      PROVE  f.notes[n].block_height = d.notes[n].block_height
  <2>1. f.notes[n] = notes[n] \/ \E w \in ws : f.notes[n] = SpentBy(notes[n], w)
    BY DEF ApplyTransactions, MarkSpent
  <2>2. notes[n] = d.notes[n]
    BY <1>2, <1>3
  <2>3. CASE f.notes[n] = notes[n]
    BY <2>2, <2>3
  <2>4. CASE \E w \in ws : f.notes[n] = SpentBy(notes[n], w)
    <3>1. PICK w \in ws : f.notes[n] = SpentBy(d.notes[n], w)
      BY <2>2, <2>4
    <3>2. SpentBy(d.notes[n], w).block_height = d.notes[n].block_height
      <4>1. d.notes[n] \in NoteRow
        BY <1>1 DEF Db
      <4>2. QED
        BY <4>1 DEF SpentBy, NoteRow
    <3>3. QED
      BY <3>1, <3>2
  <2>5. QED
    BY <2>1, <2>3, <2>4
<1>4. ASSUME NEW n \in Note, d.notes[n].spent_height # NULL
      PROVE  f.notes[n] = d.notes[n]
  <2>1. d.notes[n].block_height # NULL
    BY <1>1, <1>4, SpentAbove
  <2>2. notes[n] = d.notes[n]
    BY <1>2, <2>1
  <2>3. n \notin Unspent(notes)
    BY <1>4, <2>2 DEF Unspent
  <2>4. f.notes[n] = notes[n]
    BY <2>3 DEF ApplyTransactions, MarkSpent
  <2>5. QED
    BY <2>2, <2>4
<1>5. ASSUME NEW t \in Tx, d.txs[t].block_height # NULL
      PROVE  f.txs[t] = d.txs[t]
  <2>1. d.txs[t] # NoRow
    BY <1>5 DEF NoRow
  <2>2. ~\E w \in ws : w.txid = t
    BY <2>1, FirstApplication
  <2>3. QED
    BY <2>2 DEF ApplyTransactions
<1>6. QED
  BY <1>3, <1>4, <1>5 DEF RowsStay, Buried

\* What the store says of a block MAX_REORG_DEPTH deep, it says for good: `rewind`
\* goes no deeper, and apply_transactions touches no row it already has.
THEOREM BuriedIsKept == Spec => BuriedRowsStay
<1>1. Init => CutAtDepth
  BY DEF Init, CutAtDepth
<1>2. IInv /\ CutAtDepth /\ [Next]_vars => CutAtDepth'
  BY DepthStep
<1>3. IInv /\ CutAtDepth /\ [Next]_vars => [~PowerLoss => RowsStay(db, db')]_vars
  <2>1. SUFFICES ASSUME IInv, CutAtDepth, Next, ~PowerLoss
                 PROVE  RowsStay(db, db')
    OBVIOUS
  <2>2. db \in Db /\ IsLedger(db) /\ Valid(History(db.checkpoint))
    BY <2>1, StoresKnown
  <2>3. CASE RewindToCut
    <3>1. /\ pc = "cut" /\ cut \in Seq(Block) /\ db' = Rewind(db, cut)
          /\ Len(cut) >= Len(db.checkpoint) - MAX_REORG_DEPTH
      BY <2>1, <2>3 DEF RewindToCut, CutAtDepth, IInv, TypeOK, ControlInv, Cursor
    <3>2. QED
      BY <2>2, <3>1, RewindStays
  <2>4. CASE ApplySegment
    <3>1. pc = "fetch" /\ db' = ApplyTransactions(db, remaining[scanned], found)
      BY <2>4 DEF ApplySegment
    <3>2. /\ NextFound(db, remaining[scanned])
          /\ found = Detect(Nullifiers(db), remaining[scanned])
      BY <2>1, <3>1, ScannedNext
    <3>3. \A w \in found : w.txid \in remaining[scanned][Len(remaining[scanned])].txs
      BY <3>2, DetectHas DEF Tip
    <3>4. QED
      BY <2>2, <3>1, <3>2, <3>3, ApplyStays
  <2>5. CASE ~RewindToCut /\ ~ApplySegment
    <3>1. db' = db
      BY <2>1, <2>5
         DEF Next, Engine, Read, Process, Faults, SleepAtTip, Wake, Restart,
             OpenStream, ServeBlock, BrokenSeam, BrokenLink, BufferBlock,
             FlushBatch, EndOfStream, FetchCut, Scan, HandBlocks, BlockNotFound,
             Fail, WalSync, ServerMoves, store
    <3>2. QED
      BY <3>1 DEF RowsStay
  <2>6. QED
    BY <2>3, <2>4, <2>5
<1>4. [~PowerLoss => RowsStay(db, db')]_vars <=>
      [~PowerLoss =>
        /\ \A n \in Note :
              /\ Buried(db, db.notes[n].block_height) =>
                    db'.notes[n].block_height = db.notes[n].block_height
              /\ Buried(db, db.notes[n].spent_height) =>
                    db'.notes[n] = db.notes[n]
        /\ \A t \in Tx :
              Buried(db, db.txs[t].block_height) => db'.txs[t] = db.txs[t]]_vars
  BY DEF RowsStay
<1>5. QED
  BY <1>1, <1>2, <1>3, <1>4, InvariantHolds, PTL DEF Spec, BuriedRowsStay
=============================================================================
