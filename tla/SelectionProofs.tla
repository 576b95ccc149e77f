-------------------------- MODULE SelectionProofs --------------------------
(***************************************************************************)
(* connect_auto takes the first server that serves in time, and is never   *)
(* held longer than one attempt by each, for any list and any delays.      *)
(***************************************************************************)
EXTENDS ServerSelection, TLAPS

LEMMA InitSelection == Init => SelectionInv
<1> SUFFICES ASSUME Init PROVE SelectionInv
  OBVIOUS
<1>1. N \in Nat
  BY ServersAssumption DEF Init, N
<1>2. TypeOK
  BY <1>1, TimeAssumption DEF Init, TypeOK
<1>3. Probed
  BY <1>1, TimeAssumption DEF Init, Probed, Probing
<1> QED BY <1>2, <1>3 DEF Init, SelectionInv, FirstThatServes

\* The next attempt starts where the budget of this one ends.
LEMMA NextBudget ==
    ASSUME i \in Nat, SERVER_ATTEMPT \in Nat
    PROVE  i * SERVER_ATTEMPT = (i - 1) * SERVER_ATTEMPT + SERVER_ATTEMPT
BY SMT

LEMMA BudgetGrows ==
    ASSUME NEW a \in Nat, NEW b \in Nat, a <= b, SERVER_ATTEMPT \in Nat
    PROVE  a * SERVER_ATTEMPT <= b * SERVER_ATTEMPT
<1>1. b * SERVER_ATTEMPT = a * SERVER_ATTEMPT + (b - a) * SERVER_ATTEMPT
  BY SMT
<1>2. (b - a) * SERVER_ATTEMPT \in Nat
  BY SMT
<1>3. a * SERVER_ATTEMPT \in Nat
  BY SMT
<1> QED BY <1>1, <1>2, <1>3

LEMMA ServerCount ==
    TypeOK => N \in Nat
BY ServersAssumption DEF TypeOK, N

\* Both answers of a server are replies, after a number of ticks.
LEMMA Replies ==
    ASSUME TypeOK, NEW k \in 1..N, NEW r \in {behave[k].connection, behave[k].tip}
    PROVE  r \in Reply /\ (r # Stall => r.after \in Nat /\ r.ok \in BOOLEAN)
<1>1. behave[k] \in Behaviour
  BY DEF TypeOK
<1>2. r \in Reply
  BY <1>1 DEF Behaviour
<1> QED BY <1>2, TimeAssumption DEF Reply

LEMMA NextServerKeeps ==
    ASSUME SelectionInv, Probing, NextServer, ~ServesInTime(i)
    PROVE  SelectionInv'
<1>1. /\ TypeOK /\ Probed
      /\ i' = i + 1 /\ pc' = "connect" /\ elapsed' = 0 /\ stage' = 0
      /\ UNCHANGED <<view_key, network, behave, total, client>>
  BY DEF SelectionInv, NextServer, input
<1>2. N' = N /\ \A k : ServesInTime(k)' = ServesInTime(k)
  BY <1>1 DEF N, ServesInTime
<1>3. i \in 1..N /\ N \in Nat /\ pc \in {"connect", "tip"}
  BY <1>1, ServerCount DEF Probing, TypeOK
<1>4. TypeOK'
  BY <1>1, <1>2, <1>3, TimeAssumption DEF TypeOK
<1>5. \A k \in 1..(i' - 1) : ~ServesInTime(k)
  <2>1. \A k \in 1..(i - 1) : ~ServesInTime(k)
    BY <1>1, <1>3 DEF Probed
  <2> QED BY <1>1, <1>3, <2>1
<1>6. total' <= (i' - 1) * SERVER_ATTEMPT + elapsed'
  <2>1. /\ total <= (i - 1) * SERVER_ATTEMPT + elapsed
        /\ elapsed \in 0..SERVER_ATTEMPT /\ total \in Nat
    BY <1>1 DEF Probed, TypeOK
  <2>2. (i' - 1) * SERVER_ATTEMPT = (i - 1) * SERVER_ATTEMPT + SERVER_ATTEMPT
    BY <1>1, <1>3, NextBudget, TimeAssumption
  <2> QED BY <1>1, <1>3, <2>1, <2>2, TimeAssumption
<1>7. Probing' /\ Awaited' # Stall => stage' <= Awaited'.after
  <2> SUFFICES ASSUME Probing', Awaited' # Stall PROVE stage' <= Awaited'.after
    OBVIOUS
  <2>1. i' \in 1..N /\ Awaited' = behave[i'].connection
    BY <1>1, <1>2, <1>3 DEF Probing, Awaited
  <2>2. Awaited'.after \in Nat
    BY <1>1, <2>1, Replies
  <2> QED BY <1>1, <2>2
<1>8. Probed'
  BY <1>1, <1>2, <1>5, <1>6, <1>7 DEF Probed
<1> QED BY <1>1, <1>4, <1>8 DEF SelectionInv, FirstThatServes

\* An error or the end of the time means that the server does not serve.
LEMMA RefuseKeeps == SelectionInv /\ Refuse => SelectionInv'
<1> SUFFICES ASSUME SelectionInv, Refuse PROVE SelectionInv'
  OBVIOUS
<1>1. ~ServesInTime(i)
  BY DEF SelectionInv, Probed, Refuse, Probing, Answered, Awaited, ServesInTime
<1> QED BY <1>1, NextServerKeeps DEF Refuse

LEMMA TimeOutKeeps == SelectionInv /\ TimeOut => SelectionInv'
<1> SUFFICES ASSUME SelectionInv, TimeOut PROVE SelectionInv'
  OBVIOUS
<1>1. /\ TypeOK /\ Probed /\ Probing /\ ~Answered
      /\ elapsed = SERVER_ATTEMPT /\ i \in 1..N /\ pc \in {"connect", "tip"}
  BY ServerCount DEF SelectionInv, TimeOut, Expired, Probing, TypeOK
<1>2. /\ behave[i].connection # Stall => behave[i].connection.after \in Nat
      /\ behave[i].tip # Stall => behave[i].tip.after \in Nat
      /\ stage \in Nat /\ elapsed \in Nat
  BY <1>1, Replies DEF TypeOK
<1>3. Awaited # Stall => stage < Awaited.after
  <2>1. Awaited # Stall => Awaited.after \in Nat
    BY <1>2 DEF Awaited
  <2>2. Awaited # Stall => stage <= Awaited.after /\ Awaited.after # stage
    BY <1>1 DEF Probed, Answered
  <2> QED BY <1>2, <2>1, <2>2
<1>4. ~ServesInTime(i)
  <2>1. CASE pc = "connect"
    <3>1. behave[i].connection # Stall => behave[i].connection.after > SERVER_ATTEMPT
      BY <1>1, <1>2, <1>3, <2>1 DEF Probed, Awaited
    <3> QED BY <1>1, <1>2, <3>1 DEF ServesInTime
  <2>2. CASE pc = "tip"
    <3>1. /\ behave[i].connection # Stall
          /\ elapsed = behave[i].connection.after + stage
      BY <1>1, <2>2 DEF Probed
    <3>2. behave[i].tip # Stall => stage < behave[i].tip.after
      BY <1>3, <2>2 DEF Awaited
    <3> QED BY <1>1, <1>2, <3>1, <3>2 DEF ServesInTime
  <2> QED BY <1>1, <2>1, <2>2
<1> QED BY <1>4, NextServerKeeps DEF TimeOut

LEMMA SucceedKeeps == SelectionInv /\ Succeed => SelectionInv'
<1> SUFFICES ASSUME SelectionInv, Succeed PROVE SelectionInv'
  OBVIOUS
<1>1. /\ TypeOK /\ Probed /\ Probing /\ Answered /\ Awaited.ok
      /\ UNCHANGED <<view_key, network, behave, i, elapsed, total>>
  BY DEF SelectionInv, Succeed, input
<1>2. N' = N /\ \A k : ServesInTime(k)' = ServesInTime(k)
  BY <1>1 DEF N, ServesInTime
<1>3. i \in 1..N /\ N \in Nat
  BY <1>1, ServerCount DEF Probing, TypeOK
<1>4. /\ behave[i].connection # Stall => behave[i].connection.after \in Nat
      /\ behave[i].tip # Stall => behave[i].tip.after \in Nat
      /\ stage \in Nat /\ elapsed \in Nat /\ elapsed <= SERVER_ATTEMPT
      /\ stage <= elapsed
  BY <1>1, <1>3, Replies, TimeAssumption DEF TypeOK
<1>5. CASE pc = "connect"
  <2>1. pc' = "tip" /\ stage' = 0 /\ client' = client
    BY <1>5 DEF Succeed
  <2>2. TypeOK'
    BY <1>1, <1>2, <1>4, <2>1 DEF TypeOK
  <2>3. Probed'
    BY <1>1, <1>2, <1>3, <1>4, <1>5, <2>1
       DEF Probed, Probing, Answered, Awaited
  <2> QED BY <1>1, <2>1, <2>2, <2>3 DEF SelectionInv, FirstThatServes
<1>6. CASE pc = "tip"
  <2>1. pc' = "synced" /\ client' = i /\ stage' = stage
    BY <1>6 DEF Succeed
  <2>2. TypeOK'
    BY <1>1, <1>2, <1>3, <1>4, <2>1 DEF TypeOK
  <2>3. ServesInTime(i)
    BY <1>1, <1>4, <1>6 DEF Probed, Answered, Awaited, ServesInTime
  <2>4. \A k \in 1..(i - 1) : ~ServesInTime(k)
    BY <1>1, <1>6 DEF Probed
  <2>5. Probed'
    BY <1>1, <1>2, <2>1 DEF Probed, Probing
  <2> QED BY <1>1, <1>2, <1>3, <2>1, <2>2, <2>3, <2>4, <2>5
        DEF SelectionInv, FirstThatServes
<1> QED BY <1>1, <1>5, <1>6 DEF Probing

LEMMA TickKeeps == SelectionInv /\ Tick => SelectionInv'
<1> SUFFICES ASSUME SelectionInv, Tick PROVE SelectionInv'
  OBVIOUS
<1>1. /\ TypeOK /\ Probed /\ Probing /\ ~Answered /\ elapsed # SERVER_ATTEMPT
      /\ elapsed' = elapsed + 1 /\ stage' = stage + 1 /\ total' = total + 1
      /\ UNCHANGED <<view_key, network, behave, pc, i, client>>
  BY DEF SelectionInv, Tick, input, Expired
<1>2. N' = N /\ Awaited' = Awaited /\ Probing' = Probing
      /\ \A k : ServesInTime(k)' = ServesInTime(k)
  BY <1>1 DEF N, ServesInTime, Awaited, Probing
<1>3. /\ i \in 1..N /\ N \in Nat /\ elapsed \in Nat /\ stage \in Nat /\ total \in Nat
      /\ elapsed < SERVER_ATTEMPT /\ stage <= elapsed
  BY <1>1, ServerCount, TimeAssumption DEF Probing, TypeOK
<1>4. TypeOK'
  BY <1>1, <1>2, <1>3, TimeAssumption DEF TypeOK
<1>5. /\ Awaited # Stall => Awaited.after \in Nat
      /\ behave[i].connection # Stall => behave[i].connection.after \in Nat
  BY <1>1, <1>3, Replies DEF Awaited
<1>6. Awaited # Stall => stage' <= Awaited.after
  BY <1>1, <1>3, <1>5 DEF Probed, Answered
<1>7. total' <= (i' - 1) * SERVER_ATTEMPT + elapsed'
  <2>1. (i - 1) * SERVER_ATTEMPT \in Int
    BY <1>3, TimeAssumption
  <2>2. total <= (i - 1) * SERVER_ATTEMPT + elapsed
    BY <1>1 DEF Probed
  <2> QED BY <1>1, <1>3, <2>1, <2>2
<1>8. Probed'
  BY <1>1, <1>2, <1>3, <1>5, <1>6, <1>7 DEF Probed, Probing
<1> QED BY <1>1, <1>4, <1>8 DEF SelectionInv, FirstThatServes, Probing

LEMMA EndsKeep == SelectionInv /\ (DecodeKey \/ NoServer) => SelectionInv'
<1> SUFFICES ASSUME SelectionInv, DecodeKey \/ NoServer PROVE SelectionInv'
  OBVIOUS
<1>1. /\ TypeOK /\ Probed
      /\ UNCHANGED <<view_key, network, behave, i, elapsed, stage, total, client>>
  BY DEF SelectionInv, DecodeKey, NoServer, input
<1>2. N' = N /\ \A k : ServesInTime(k)' = ServesInTime(k)
  BY <1>1 DEF N, ServesInTime
<1>3. N \in Nat /\ i \in 1..(N + 1)
  BY <1>1, ServerCount DEF TypeOK
<1>4. CASE DecodeKey /\ view_key # "neither"
  <2>1. pc = "key" /\ pc' = "connect" /\ i = 1 /\ stage = 0 /\ elapsed = 0
    BY <1>1, <1>4 DEF DecodeKey, Probed
  <2>2. Awaited' # Stall /\ Probing' => Awaited'.after \in Nat
    <3>1. Probing' => 1 \in 1..N /\ Awaited' = behave[1].connection
      BY <1>1, <1>2, <1>3, <2>1 DEF Probing, Awaited
    <3> QED BY <1>1, <3>1, Replies
  <2>3. Probed'
    BY <1>1, <1>2, <2>1, <2>2 DEF Probed
  <2> QED BY <1>1, <1>2, <2>1, <2>3 DEF SelectionInv, TypeOK, FirstThatServes
<1>5. CASE DecodeKey /\ view_key = "neither"
  BY <1>1, <1>2, <1>5 DEF DecodeKey, SelectionInv, TypeOK, Probed, Probing, FirstThatServes
<1>6. CASE NoServer
  <2>1. pc = "connect" /\ pc' = "error" /\ i = N + 1
    BY <1>3, <1>6 DEF NoServer
  <2>2. \A k \in 1..N : ~ServesInTime(k)
    BY <1>1, <1>3, <2>1 DEF Probed
  <2> QED BY <1>1, <1>2, <2>1, <2>2 DEF SelectionInv, TypeOK, Probed, Probing, FirstThatServes
<1> QED BY <1>4, <1>5, <1>6

\* SelectionInv holds at every moment of the call.
THEOREM SelectionInvariant == Spec => []SelectionInv
<1>1. SelectionInv /\ [Next]_vars => SelectionInv'
  <2> SUFFICES ASSUME SelectionInv, [Next]_vars PROVE SelectionInv'
    OBVIOUS
  <2>1. CASE UNCHANGED vars
    BY <2>1 DEF vars, input, SelectionInv, TypeOK, Probed, Probing, Awaited,
                FirstThatServes, ServesInTime, N
  <2>2. CASE Next
    BY <2>2, EndsKeep, SucceedKeeps, RefuseKeeps, TimeOutKeeps, TickKeeps DEF Next
  <2> QED BY <2>1, <2>2
<1> QED BY <1>1, InitSelection, PTL DEF Spec

\* The types: connect_auto probes a server of the list or is past the last one,
\* and no attempt outlasts SERVER_ATTEMPT.
THEOREM SelectionTypes == Spec => []TypeOK
BY SelectionInvariant, PTL DEF SelectionInv

\* connect_auto takes the first server that serves its tip in time.
THEOREM FirstServerTaken == Spec => []FirstThatServes
BY SelectionInvariant, PTL DEF SelectionInv

\* connect_auto takes at most SERVER_ATTEMPT per server, whatever they do.
THEOREM WaitBounded == Spec => []BoundedWait
<1>1. SelectionInv => BoundedWait
  <2> SUFFICES ASSUME SelectionInv PROVE BoundedWait
    OBVIOUS
  <2>1. /\ N \in Nat /\ i \in 1..(N + 1) /\ total \in Nat
        /\ elapsed \in 0..SERVER_ATTEMPT
        /\ total <= (i - 1) * SERVER_ATTEMPT + elapsed
        /\ i > N => elapsed = 0
    BY ServerCount DEF SelectionInv, TypeOK, Probed
  <2>2. CASE i = N + 1
    BY <2>1, <2>2, TimeAssumption DEF BoundedWait
  <2>3. CASE i <= N
    <3>1. i * SERVER_ATTEMPT = (i - 1) * SERVER_ATTEMPT + SERVER_ATTEMPT
      BY <2>1, NextBudget, TimeAssumption
    <3>2. i * SERVER_ATTEMPT <= N * SERVER_ATTEMPT
      BY <2>1, <2>3, BudgetGrows, TimeAssumption
    <3>3. (i - 1) * SERVER_ATTEMPT \in Int /\ N * SERVER_ATTEMPT \in Int
      BY <2>1, TimeAssumption
    <3> QED BY <2>1, <3>1, <3>2, <3>3, TimeAssumption DEF BoundedWait
  <2> QED BY <2>1, <2>2, <2>3
<1> QED BY <1>1, SelectionInvariant, PTL
=============================================================================
