--------------------------- MODULE PositionProofs ---------------------------
(***************************************************************************)
(* The positions that scan_compact records are those of the tree, for any  *)
(* pools, tree depth and number of outputs, unless a server reports wrong  *)
(* sizes; and of any server, those of a pool whose size after the note's   *)
(* block is right.                                                         *)
(***************************************************************************)
EXTENDS TreePositions, TLAPS

\* An addition that stays below the limit does not wrap.
LEMMA NoWrap ==
    ASSUME NEW a \in Nat, a < SizeLimit
    PROVE  a % SizeLimit = a
BY SizeAssumption, Z3

\* One that reaches the limit wraps once.
LEMMA Wrap ==
    ASSUME NEW a \in Nat, SizeLimit <= a, a < SizeLimit + SizeLimit
    PROVE  a % SizeLimit = a - SizeLimit
BY SizeAssumption, Z3

LEMMA ZeroSizes == Zero \in Sizes /\ Zero \in [Pool -> Nat]
BY SizeAssumption DEF Zero, Sizes, U32

\* Initially nothing has been scanned.
LEMMA InitPositions == Init => PositionInv
<1> SUFFICES ASSUME Init PROVE PositionInv
  OBVIOUS
<1>1. TypeOK
  BY ZeroSizes DEF Init, TypeOK
<1> QED BY <1>1
      DEF Init, PositionInv, Lags, Drifts, PositionsAreTrue, CompleteServerAccepted

LEMMA CallKeeps == PositionInv /\ Call => PositionInv'
BY DEF PositionInv, TypeOK, Lags, Drifts, PositionsAreTrue,
       CompleteServerAccepted, Call, Sizes, U32

LEMMA ReadBlockKeeps ==
    ASSUME PositionInv, NEW outputs \in Outputs, ReadBlock(outputs)
    PROVE  PositionInv'
<1> USE SizeAssumption, NoneAssumption DEF Outputs, Sizes, U32
<1>1. PICK report \in Reports :
        /\ reported' = report
        /\ honest' = (honest /\ NoneWrong(outputs, report))
        /\ complete' = (complete /\ report = [p \in Pool |-> size[p] + outputs[p]])
        /\ IF prev_tree_sizes # NoSizes
           THEN pos' = prev_tree_sizes /\ pc' = "txs"
           ELSE IF StartUnknown(outputs, report)
                THEN Fail
                ELSE pos' = StartSizes(outputs, report) /\ pc' = "txs"
  BY DEF ReadBlock, TrueSizes
<1>2. TypeOK /\ Lags
  BY DEF PositionInv
<1>3. /\ pc = "blocks"
      /\ \A p \in Pool : size[p] + outputs[p] < SizeLimit
      /\ left' = outputs
      /\ UNCHANGED <<size, prev_tree_sizes, found, notes>>
  BY DEF ReadBlock
<1>4. notes' = {}
  BY <1>2, <1>3 DEF Lags
<1>5. /\ report \in Sizes \cup {Unreported}
      /\ honest' /\ report # Unreported =>
            \A p \in Pool : report[p] \in {0, size[p] + outputs[p]}
      /\ honest' => honest
      /\ honest' \in BOOLEAN
  BY <1>1, <1>2 DEF Reports, NoneWrong, TypeOK
<1>6. left' \in [Pool -> Nat]
  BY <1>3
<1>7. CASE prev_tree_sizes # NoSizes
  <2>1. pos' = prev_tree_sizes /\ pc' = "txs"
    BY <1>1, <1>7
  <2>2. prev_tree_sizes \in Sizes
    BY <1>2, <1>7 DEF TypeOK
  <2>3. TypeOK'
    BY <1>1, <1>2, <1>3, <1>4, <1>5, <1>6, <2>1, <2>2 DEF TypeOK
  <2>4. Lags'
    BY <1>1, <1>2, <1>3, <1>4, <1>5, <1>7, <2>1, <2>2 DEF Lags, TypeOK
  <2> QED
    BY <1>4, <2>1, <2>3, <2>4
       DEF PositionInv, Drifts, PositionsAreTrue, CompleteServerAccepted
<1> DEFINE after == [p \in Pool |-> size[p] + outputs[p]]
<1>a. /\ \A p \in Pool : /\ size[p] \in Nat /\ outputs[p] \in Nat
                         /\ after[p] = size[p] + outputs[p]
      /\ after # Unreported
  <2>1. \A p \in Pool : size[p] \in Nat /\ outputs[p] \in Nat
    BY <1>2 DEF TypeOK
  <2>2. after \in Sizes
    BY <1>3, <2>1
  <2> QED BY <2>1, <2>2
<1>b. complete' => complete /\ report = after
  BY <1>1
<1> HIDE DEF after
<1>8. CASE prev_tree_sizes = NoSizes /\ StartUnknown(outputs, report)
  <2>1. pc' = "failed" /\ pos' = pos
    BY <1>1, <1>8 DEF Fail
  <2>2. report = Unreported \/ \E p \in Pool : report[p] < outputs[p]
    BY <1>8 DEF StartUnknown
  <2>3. ~complete'
    BY <1>a, <1>b, <2>2
  <2>4. TypeOK'
    BY <1>1, <1>2, <1>3, <1>4, <1>5, <1>6, <2>1 DEF TypeOK
  <2>5. Lags'
    BY <1>2, <1>4, <2>1 DEF Lags
  <2> QED
    BY <2>1, <2>3, <2>4, <2>5
       DEF PositionInv, Drifts, PositionsAreTrue, CompleteServerAccepted
<1>9. CASE prev_tree_sizes = NoSizes /\ ~StartUnknown(outputs, report)
  <2>1. pos' = [p \in Pool |-> report[p] - outputs[p]] /\ pc' = "txs"
    BY <1>1, <1>9 DEF StartSizes
  <2>2. report \in Sizes /\ \A p \in Pool : report[p] >= outputs[p]
    BY <1>5, <1>9 DEF StartUnknown
  <2>3. pos' \in Sizes
    BY <2>1, <2>2
  <2>4. \A p \in Pool : pos'[p] = report[p] - outputs[p] /\ report[p] \in Nat
    BY <2>1, <2>2
  <2>5. honest' => \A p \in Pool : pos'[p] <= size[p]
    BY <1>5, <1>a, <2>2, <2>4, NoneAssumption
  <2>6. complete' => \A p \in Pool : pos'[p] = size[p]
    BY <1>a, <1>b, <2>4
  <2>7. TypeOK'
    BY <1>1, <1>2, <1>3, <1>4, <1>5, <1>6, <2>1, <2>3 DEF TypeOK
  <2>8. Lags'
    BY <1>1, <1>2, <1>3, <1>4, <1>5, <1>a, <1>b, <2>1, <2>2, <2>5, <2>6 DEF Lags
  <2> QED
    BY <1>4, <2>1, <2>7, <2>8
       DEF PositionInv, Drifts, PositionsAreTrue, CompleteServerAccepted
<1> QED BY <1>7, <1>8, <1>9

LEMMA ScanTxKeeps ==
    ASSUME PositionInv, NEW outputs \in Outputs, ScanTx(outputs)
    PROVE  PositionInv'
<1>1. TypeOK /\ Lags /\ Drifts
  BY DEF PositionInv
<1>2. /\ pc = "txs" /\ pc' = "txs"
      /\ \A p \in Pool : outputs[p] <= left[p]
      /\ pos' = [p \in Pool |-> (pos[p] + outputs[p]) % SizeLimit]
      /\ size' = [p \in Pool |-> size[p] + outputs[p]]
      /\ left' = [p \in Pool |-> left[p] - outputs[p]]
      /\ UNCHANGED <<reported, prev_tree_sizes, honest, complete>>
  BY DEF ScanTx
<1>3. \A p \in Pool : /\ pos[p] \in Nat /\ size[p] \in Nat
                      /\ pos[p] < SizeLimit
                      /\ left[p] \in Nat /\ outputs[p] \in Nat
  BY <1>1, SizeAssumption DEF TypeOK, Outputs, Sizes, U32
<1>4. \A p \in Pool : /\ size[p] + left[p] < SizeLimit
                      /\ honest => pos[p] <= size[p]
  BY <1>1, <1>2 DEF Lags
<1>5. \A p \in Pool : /\ size'[p] = size[p] + outputs[p] /\ size'[p] < SizeLimit
                      /\ left'[p] = left[p] - outputs[p]
                      /\ pos'[p] \in Nat /\ pos'[p] < SizeLimit
                      /\ \/ pos'[p] = pos[p] + outputs[p]
                         \/ /\ pos'[p] = pos[p] + outputs[p] - SizeLimit
                            /\ size[p] < pos[p]
  <2> TAKE p \in Pool
  <2>1. /\ pos[p] + outputs[p] \in Nat
        /\ pos[p] + outputs[p] < SizeLimit + SizeLimit
        /\ size[p] + outputs[p] < SizeLimit
    <3>1. outputs[p] <= left[p]
      BY <1>2
    <3>2. pos[p] \in Nat /\ size[p] \in Nat /\ left[p] \in Nat /\ outputs[p] \in Nat
      BY <1>3
    <3>3. pos[p] < SizeLimit /\ size[p] + left[p] < SizeLimit
      BY <1>3, <1>4
    <3> QED BY <3>1, <3>2, <3>3, SizeAssumption
  <2>2. pos'[p] = (pos[p] + outputs[p]) % SizeLimit
    BY <1>2
  <2>3. /\ size'[p] = size[p] + outputs[p]
        /\ left'[p] = left[p] - outputs[p]
    BY <1>2
  <2>4. CASE pos[p] + outputs[p] < SizeLimit
    <3>1. pos'[p] = pos[p] + outputs[p]
      BY <2>1, <2>2, <2>4, NoWrap
    <3> QED BY <2>1, <2>3, <2>4, <3>1
  <2>5. CASE SizeLimit <= pos[p] + outputs[p]
    <3>a. (pos[p] + outputs[p]) % SizeLimit = (pos[p] + outputs[p]) - SizeLimit
      BY <2>1, <2>5, Wrap
    <3>1. pos'[p] = pos[p] + outputs[p] - SizeLimit
      <4>1. pos'[p] = (pos[p] + outputs[p]) - SizeLimit
        BY <2>2, <3>a, Zenon
      <4>2. pos[p] \in Nat /\ outputs[p] \in Nat
        BY <1>3
      <4> QED BY <4>1, <4>2, SizeAssumption
    <3>2. /\ pos'[p] \in Nat /\ pos'[p] < SizeLimit
          /\ size[p] < pos[p]
      BY <1>3, <2>1, <2>5, <3>1, SizeAssumption
    <3> QED BY <2>1, <2>3, <3>1, <3>2
  <2> QED BY <2>1, <2>4, <2>5, SizeAssumption
<1>a. honest => \A p \in Pool : pos'[p] = pos[p] + outputs[p]
  <2> SUFFICES ASSUME honest, NEW p \in Pool PROVE pos'[p] = pos[p] + outputs[p]
    OBVIOUS
  <2>1. pos[p] <= size[p]
    BY <1>4
  <2> QED BY <1>3, <1>5, <2>1
<1>6. /\ pos' \in Sizes /\ size' \in Sizes /\ left' \in [Pool -> Nat]
  <2>1. \A p \in Pool : pos'[p] \in U32 /\ size'[p] \in U32 /\ left'[p] \in Nat
    <3> TAKE p \in Pool
    <3>1. /\ pos'[p] \in Nat /\ pos'[p] < SizeLimit
          /\ size'[p] \in Nat /\ size'[p] < SizeLimit
      BY <1>3, <1>5
    <3>2. left'[p] \in Nat
      BY <1>2, <1>3, <1>5
    <3> QED BY <3>1, <3>2, SizeAssumption DEF U32
  <2> QED BY <1>2, <2>1 DEF Sizes
<1>7. \A n \in notes' :
        /\ n \in [pool : Pool, leaf : U32, position : Nat]
        /\ honest => /\ n.position \in U32
                     /\ n.position < pos'[n.pool]
                     /\ n.leaf - n.position = size'[n.pool] - pos'[n.pool]
        /\ \/ n.position - n.leaf = pos'[n.pool] - size'[n.pool]
           \/ /\ n.position - n.leaf = pos'[n.pool] - size'[n.pool] + SizeLimit
              /\ pos'[n.pool] < size'[n.pool]
  <2> TAKE n \in notes'
  <2>1. CASE n \in notes
    <3>1. /\ n \in [pool : Pool, leaf : U32, position : Nat]
          /\ honest => /\ n.position \in U32
                       /\ n.position < pos[n.pool]
                       /\ n.leaf - n.position = size[n.pool] - pos[n.pool]
      BY <1>1, <1>2, <2>1 DEF Lags, TypeOK
    <3>2. \/ n.position - n.leaf = pos[n.pool] - size[n.pool]
          \/ /\ n.position - n.leaf = pos[n.pool] - size[n.pool] + SizeLimit
             /\ pos[n.pool] < size[n.pool]
      BY <1>1, <1>2, <2>1 DEF Drifts
    <3>3. n.pool \in Pool /\ n.leaf \in Int /\ n.position \in Int
      BY <3>1 DEF U32
    <3> DEFINE p == n.pool
    <3>4. /\ pos[p] \in Nat /\ size[p] \in Nat /\ outputs[p] \in Nat
          /\ pos[p] < SizeLimit
          /\ size'[p] = size[p] + outputs[p]
          /\ \/ pos'[p] = pos[p] + outputs[p]
             \/ /\ pos'[p] = pos[p] + outputs[p] - SizeLimit
                /\ size[p] < pos[p]
      BY <1>3, <1>5, <3>3
    <3>5. honest => pos'[p] = pos[p] + outputs[p]
      BY <1>a, <3>3
    <3>6. honest => /\ n.position < pos'[p]
                    /\ n.leaf - n.position = size'[p] - pos'[p]
      BY <3>1, <3>3, <3>4, <3>5
    <3>7. \/ n.position - n.leaf = pos'[p] - size'[p]
          \/ /\ n.position - n.leaf = pos'[p] - size'[p] + SizeLimit
             /\ pos'[p] < size'[p]
      BY <3>2, <3>3, <3>4, SizeAssumption
    <3> QED BY <3>1, <3>6, <3>7
  <2>2. CASE n \notin notes
    <3>1. \E p \in Pool : \E idx \in 0..(outputs[p] - 1) :
             notes' = notes \cup {NoteAt(p, idx)}
      BY <2>2 DEF ScanTx
    <3>2. PICK p \in Pool : \E idx \in 0..(outputs[p] - 1) :
             notes' = notes \cup {NoteAt(p, idx)}
      BY <3>1
    <3>3. PICK idx \in 0..(outputs[p] - 1) : notes' = notes \cup {NoteAt(p, idx)}
      BY <3>2
    <3>4. n = NoteAt(p, idx)
      BY <2>2, <3>3
    <3>5. /\ n = [pool |-> p, leaf |-> size[p] + idx, position |-> pos[p] + idx]
          /\ idx \in Nat /\ idx < outputs[p]
      BY <1>3, <3>4 DEF NoteAt
    <3>6. size[p] + idx \in U32 /\ pos[p] + idx \in Nat
      BY <1>3, <1>5, <3>5, SizeAssumption DEF U32
    <3>7. n.pool = p /\ n.leaf = size[p] + idx /\ n.position = pos[p] + idx
      BY <3>5
    <3>8. n \in [pool : Pool, leaf : U32, position : Nat]
      BY <3>5, <3>6
    <3>9. honest => pos[p] + idx < pos'[p]
      BY <1>3, <1>a, <3>5
    <3>10. honest => pos[p] + idx \in U32
      BY <1>5, <3>6, <3>9, SizeAssumption DEF U32
    <3>11. honest => n.leaf - n.position = size'[n.pool] - pos'[n.pool]
      BY <1>3, <1>5, <1>a, <3>5, <3>7
    <3>12. \/ n.position - n.leaf = pos'[p] - size'[p]
           \/ /\ n.position - n.leaf = pos'[p] - size'[p] + SizeLimit
              /\ pos'[p] < size'[p]
      BY <1>3, <1>5, <3>5, <3>7, SizeAssumption
    <3> QED BY <3>7, <3>8, <3>9, <3>10, <3>11, <3>12
  <2> QED BY <2>1, <2>2
<1>8. found' \in BOOLEAN /\ (notes' # {} => found')
  BY <1>1 DEF ScanTx, Lags, TypeOK
<1>9. TypeOK'
  BY <1>1, <1>2, <1>6, <1>7, <1>8 DEF TypeOK
<1>10. Lags'
  <2>1. \A p \in Pool :
          /\ size'[p] + left'[p] = size[p] + left[p]
          /\ honest => pos'[p] <= size'[p]
          /\ pos[p] = size[p] => pos'[p] = size'[p]
    <3> TAKE p \in Pool
    <3>1. size'[p] + left'[p] = size[p] + left[p]
      BY <1>3, <1>5
    <3>2. honest => pos'[p] <= size'[p]
      BY <1>3, <1>4, <1>5, <1>a
    <3>3. pos[p] = size[p] => pos'[p] = size'[p]
      BY <1>3, <1>5
    <3> QED BY <3>1, <3>2, <3>3
  <2> QED BY <1>1, <1>2, <1>7, <1>8, <2>1 DEF Lags
<1>11. Drifts'
  BY <1>7 DEF Drifts
<1> QED BY <1>2, <1>9, <1>10, <1>11
      DEF PositionInv, PositionsAreTrue, CompleteServerAccepted

\* The count of a server that reports every size does not overflow.
LEMMA OverflowKeeps ==
    ASSUME PositionInv, NEW outputs \in Outputs, Overflow(outputs)
    PROVE  PositionInv'
<1>1. TypeOK /\ Lags
  BY DEF PositionInv
<1>2. /\ pc = "txs" /\ pc' = "failed" /\ pos' = pos
      /\ UNCHANGED <<size, left, reported, prev_tree_sizes, found, notes, honest, complete>>
      /\ \A p \in Pool : outputs[p] <= left[p]
  BY DEF Overflow, Fail
<1>3. PICK p \in Pool : pos[p] + outputs[p] >= SizeLimit
  BY DEF Overflow
<1>4. /\ size[p] \in Nat /\ pos[p] \in Nat
      /\ left[p] \in Nat /\ outputs[p] \in Nat
  BY <1>1, SizeAssumption DEF TypeOK, Outputs, Sizes, U32
<1>5. size[p] + left[p] < SizeLimit /\ (complete => pos[p] = size[p])
  BY <1>1, <1>2 DEF Lags
<1>6. outputs[p] <= left[p]
  BY <1>2
<1>7. ~complete
  BY <1>3, <1>4, <1>5, <1>6, SizeAssumption
<1>8. TypeOK' /\ Lags' /\ Drifts'
  BY <1>1, <1>2 DEF TypeOK, Lags, Drifts
<1> QED BY <1>2, <1>7, <1>8
      DEF PositionInv, PositionsAreTrue, CompleteServerAccepted

LEMMA EndBlockKeeps == PositionInv /\ EndBlock => PositionInv'
<1> SUFFICES ASSUME PositionInv, EndBlock PROVE PositionInv'
  OBVIOUS
<1>1. TypeOK /\ Lags /\ Drifts
  BY DEF PositionInv
<1>2. /\ pc = "txs" /\ left = Zero
      /\ UNCHANGED <<size, left, reported, found, notes, honest, complete>>
      /\ pos' = pos
  BY DEF EndBlock, Fail
<1>3. \A p \in Pool : left[p] = 0 /\ size[p] \in Nat /\ pos[p] \in Nat
  BY <1>1, <1>2, SizeAssumption DEF Zero, TypeOK, Sizes, U32
<1>4. \A p \in Pool :
        /\ honest /\ reported # Unreported => reported[p] \in {0, size[p]}
        /\ complete => reported[p] = size[p] /\ pos[p] = size[p]
  BY <1>1, <1>2, <1>3 DEF Lags
<1>a. complete => reported # Unreported
  BY <1>1, <1>2 DEF Lags
<1>5. CASE SizesDiffer /\ pc' = "failed" /\ UNCHANGED prev_tree_sizes
  <2>1. reported # Unreported => \E p \in Pool : reported[p] # pos[p]
    BY <1>5 DEF SizesDiffer
  <2>2. ~complete
    BY <1>4, <1>a, <2>1
  <2> QED BY <1>1, <1>2, <1>5, <2>2
        DEF PositionInv, TypeOK, Lags, Drifts, PositionsAreTrue, CompleteServerAccepted
<1>6. CASE /\ ~SizesDiffer
           /\ prev_tree_sizes' = pos
           /\ pc' = IF found THEN "returned" ELSE "blocks"
  <2>1. /\ reported # Unreported
        /\ \A p \in Pool : pos[p] = reported[p]
    BY <1>6 DEF SizesDiffer
  <2>2. honest => \A p \in Pool : pos[p] \in {0, size[p]} /\ pos[p] <= size[p]
    BY <1>1, <1>2, <1>4, <2>1 DEF Lags
  <2>3. \A n \in notes :
           honest \/ reported[n.pool] = size[n.pool] => n.position = n.leaf
    <3> TAKE n \in notes
    <3>1. /\ n.pool \in Pool /\ n.leaf \in Nat /\ n.position \in Nat
      BY <1>1, SizeAssumption DEF TypeOK, U32
    <3>2. CASE honest
      <4>1. /\ n.position < pos[n.pool]
            /\ n.leaf - n.position = size[n.pool] - pos[n.pool]
        BY <1>1, <1>2, <3>2 DEF Lags
      <4>2. pos[n.pool] \in {0, size[n.pool]}
        BY <2>2, <3>1, <3>2
      <4>3. pos[n.pool] = size[n.pool]
        BY <1>3, <3>1, <4>1, <4>2
      <4>4. n.position = n.leaf
        BY <1>3, <3>1, <4>1, <4>3
      <4> QED BY <4>4
    <3>3. CASE reported[n.pool] = size[n.pool]
      <4>1. pos[n.pool] = size[n.pool]
        BY <2>1, <3>1, <3>3
      <4>2. \/ n.position - n.leaf = pos[n.pool] - size[n.pool]
            \/ pos[n.pool] < size[n.pool]
        BY <1>1, <1>2 DEF Drifts
      <4>3. n.position = n.leaf
        BY <1>3, <3>1, <4>1, <4>2
      <4> QED BY <4>3
    <3> QED BY <3>2, <3>3
  <2>4. pc' \in {"returned", "blocks"} /\ (pc' = "blocks" => ~found)
    BY <1>6
  <2>5. TypeOK'
    BY <1>1, <1>2, <1>6, <2>4 DEF TypeOK
  <2>6. Lags'
    BY <1>1, <1>2, <1>4, <1>6, <2>2, <2>4 DEF Lags
  <2>7. Drifts'
    BY <2>4 DEF Drifts
  <2>8. PositionsAreTrue'
    BY <1>2, <2>3 DEF PositionsAreTrue
  <2> QED BY <2>4, <2>5, <2>6, <2>7, <2>8 DEF PositionInv, CompleteServerAccepted
<1> QED BY <1>5, <1>6 DEF EndBlock, Fail

LEMMA EndBlocksKeeps == PositionInv /\ EndBlocks => PositionInv'
BY DEF PositionInv, TypeOK, Lags, Drifts, PositionsAreTrue, CompleteServerAccepted,
       EndBlocks

\* PositionInv holds at every step of every call.
THEOREM PositionsInvariant == Spec => []PositionInv
<1>1. PositionInv /\ [Next]_vars => PositionInv'
  <2> SUFFICES ASSUME PositionInv, [Next]_vars PROVE PositionInv'
    OBVIOUS
  <2>1. CASE UNCHANGED vars
    BY <2>1 DEF vars, PositionInv, TypeOK, Lags, Drifts, PositionsAreTrue,
                CompleteServerAccepted
  <2>2. CASE Next
    BY <2>2, CallKeeps, ReadBlockKeeps, ScanTxKeeps, OverflowKeeps, EndBlockKeeps,
       EndBlocksKeeps DEF Next
  <2> QED BY <2>1, <2>2
<1> QED BY <1>1, InitPositions, PTL DEF Spec

\* The types: of any server, what scan_compact subtracts before the first block
\* stays a u32; and of one that reports no wrong size, so does every position.
THEOREM PositionTypes == Spec => []TypeOK
BY PositionsInvariant, PTL DEF PositionInv

\* scan.rs records no wrong position, whatever sizes a server leaves out; and of
\* a server that reports wrong ones, none in a pool whose size after the note's
\* block is right.
THEOREM RecordedPositionsTrue == Spec => []PositionsAreTrue
BY PositionsInvariant, PTL DEF PositionInv

\* scan.rs accepts every block of a server that reports all sizes.
THEOREM CompleteMetadataAccepted == Spec => []CompleteServerAccepted
BY PositionsInvariant, PTL DEF PositionInv
=============================================================================
