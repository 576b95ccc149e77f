-------------------------- MODULE ServerSelection --------------------------
(***************************************************************************)
(* How `run` (src/src/lib.rs) gets to the sync engine: it parses the view  *)
(* key and probes the bundled servers one after another (connect_auto in   *)
(* src/src/sync/chain.rs), each under one tokio timeout that covers the    *)
(* connection and the first request.                                       *)
(*                                                                         *)
(* Time is a number of ticks.  What the servers do during the call is      *)
(* chosen at the start: the ticks each takes to accept the connection and  *)
(* then to answer, with success or an error, or Stall.  The runtime polls  *)
(* the call at every tick.                                                 *)
(***************************************************************************)
EXTENDS Integers, Sequences

CONSTANTS
    Servers,         \* the bundled URLs of each network
    SERVER_ATTEMPT,  \* in ticks
    Delay,           \* bound: the delays of an answer
    Stall            \* no answer ever comes

ASSUME ServersAssumption == \A network \in DOMAIN Servers : Len(Servers[network]) \in Nat
ASSUME TimeAssumption ==
    SERVER_ATTEMPT \in Nat /\ Delay \subseteq Nat /\ Stall \notin [after : Delay, ok : BOOLEAN]

Reply == [after : Delay, ok : BOOLEAN] \cup {Stall}
Behaviour == [connection : Reply, tip : Reply]

VARIABLES
    view_key,  \* what the given string decodes as
    network,
    behave,    \* behave[i]: what server number i does
    pc,        \* "key", "connect", "tip", "synced" or "error"
    i,         \* the server being probed
    elapsed,   \* ticks since this attempt began
    stage,     \* ticks since the request at hand was sent
    total,     \* ticks since connect_auto was called
    client     \* the server the engine is run against; 0 for none

input == <<view_key, network, behave>>
vars == <<input, pc, i, elapsed, stage, total, client>>

N == Len(Servers[network])

Init ==
    /\ view_key \in {"ufvk", "uivk", "neither"}
    /\ network \in DOMAIN Servers
    /\ behave \in [1..N -> Behaviour]
    /\ pc = "key" /\ i = 1
    /\ elapsed = 0 /\ stage = 0 /\ total = 0
    /\ client = 0

DecodeKey ==
    /\ pc = "key"
    /\ pc' = IF view_key = "neither" THEN "error" ELSE "connect"
    /\ UNCHANGED <<input, i, elapsed, stage, total, client>>

\* A slip: the attempts share one deadline.
NextServerSameDeadline ==
    /\ i' = i + 1
    /\ pc' = "connect"
    /\ stage' = 0
    /\ UNCHANGED <<input, elapsed, total, client>>

\* The loop goes on with the next server, or ends with NoServer.
NextServer ==
    /\ i' = i + 1
    /\ pc' = "connect"
    /\ elapsed' = 0 /\ stage' = 0
    /\ UNCHANGED <<input, total, client>>

\* A slip: the list is gone through again.
StartOver ==
    /\ pc = "connect" /\ i > N
    /\ i' = 1
    /\ UNCHANGED <<input, pc, elapsed, stage, total, client>>

NoServer ==
    /\ pc = "connect" /\ i > N
    /\ pc' = "error"
    /\ UNCHANGED <<input, i, elapsed, stage, total, client>>

\* The answer that is awaited.
Awaited == IF pc = "connect" THEN behave[i].connection ELSE behave[i].tip

Probing == pc \in {"connect", "tip"} /\ i <= N

Answered == Awaited # Stall /\ Awaited.after = stage

\* A slip: a server that accepts the connection is taken.
TakeConnected ==
    /\ Probing /\ Answered /\ Awaited.ok
    /\ client' = i
    /\ pc' = "synced"
    /\ UNCHANGED <<input, i, elapsed, stage, total>>

\* The connection is up: ask for the tip.  Or the tip is there: take the server.
Succeed ==
    /\ Probing /\ Answered /\ Awaited.ok
    /\ IF pc = "connect"
       THEN pc' = "tip" /\ stage' = 0 /\ UNCHANGED client
       ELSE pc' = "synced" /\ client' = i /\ UNCHANGED stage
    /\ UNCHANGED <<input, i, elapsed, total>>

Refuse == Probing /\ Answered /\ ~Awaited.ok /\ NextServer

\* A slip: only the connection is under the timeout.
ConnectExpired == pc = "connect" /\ elapsed = SERVER_ATTEMPT

Expired == elapsed = SERVER_ATTEMPT

\* tokio::time::timeout polls the probe before the timer: an answer that is
\* there at the last tick counts.  The probe is dropped with its connection.
TimeOut == Probing /\ ~Answered /\ Expired /\ NextServer

Tick ==
    /\ Probing /\ ~Answered /\ ~Expired
    /\ elapsed' = elapsed + 1
    /\ stage' = stage + 1
    /\ total' = total + 1
    /\ UNCHANGED <<input, pc, i, client>>

Next == DecodeKey \/ NoServer \/ Succeed \/ Refuse \/ TimeOut \/ Tick

Spec == Init /\ [][Next]_vars

\* The runtime polls the call and its timer.
FairSpec == Spec /\ WF_vars(Next)
-----------------------------------------------------------------------------
\* Server number k serves its tip within SERVER_ATTEMPT.
ServesInTime(k) ==
    LET b == behave[k] IN
    /\ b.connection # Stall /\ b.connection.ok
    /\ b.tip # Stall /\ b.tip.ok
    /\ b.connection.after + b.tip.after <= SERVER_ATTEMPT

\* connect_auto connects "to the first bundled server ... that serves its tip
\* within SERVER_ATTEMPT", and fails only if there is none: no server is
\* passed over for the time its predecessors took.
FirstThatServes ==
    /\ pc = "synced" =>
           /\ client \in 1..N /\ ServesInTime(client)
           /\ \A k \in 1..(client - 1) : ~ServesInTime(k)
    /\ pc = "error" /\ view_key # "neither" =>
           \A k \in 1..N : ~ServesInTime(k)

\* However many servers stall, wherever, the call is not held longer than
\* SERVER_ATTEMPT by each.
BoundedWait == total <= N * SERVER_ATTEMPT

\* `run` reaches the engine or reports an error.
Returns == <>(pc \in {"synced", "error"})

\* The variables keep their types: an attempt never outlasts SERVER_ATTEMPT.
TypeOK ==
    /\ network \in DOMAIN Servers
    /\ behave \in [1..N -> Behaviour]
    /\ pc \in {"key", "connect", "tip", "synced", "error"}
    /\ i \in 1..(N + 1)
    /\ elapsed \in 0..SERVER_ATTEMPT /\ stage \in 0..elapsed /\ total \in Nat
    /\ client \in 0..N

\* What makes them hold: the probes before the one at hand failed, and what it has been through.
Probed ==
    /\ pc \in {"connect", "tip"} => \A k \in 1..(i - 1) : ~ServesInTime(k)
    /\ pc = "key" => i = 1 /\ elapsed = 0 /\ stage = 0
    /\ pc = "connect" => stage = elapsed
    /\ pc = "tip" =>
           /\ i <= N
           /\ behave[i].connection # Stall /\ behave[i].connection.ok
           /\ elapsed = behave[i].connection.after + stage
    /\ Probing /\ Awaited # Stall => stage <= Awaited.after
    /\ total <= (i - 1) * SERVER_ATTEMPT + elapsed
    /\ i > N => elapsed = 0

SelectionInv == TypeOK /\ Probed /\ FirstThatServes
=============================================================================
