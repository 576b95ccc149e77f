------------------------------- MODULE Chain -------------------------------
(***************************************************************************)
(* The chain a lightwalletd server serves, as src/src/sync/chain.rs lets   *)
(* the client see it: it grows and reorganises at any time.                *)
(***************************************************************************)
EXTENDS Blocks

CONSTANTS
    ReorgLimit,  \* no node rolls back more blocks than this
    MaxHeight    \* bound: the chain stops growing here

ASSUME HeightAssumption == ReorgLimit \in Nat /\ MaxHeight \in Nat

VARIABLES
    chain,   \* the best chain of the server
    peak     \* the greatest height it ever had

server == <<chain, peak>>

ChainInit == chain = <<>> /\ peak = 0

\* A block is mined on top of the best chain.
Mine(b) ==
    /\ Len(chain) < MaxHeight
    /\ CanExtend(chain, b)
    /\ chain' = Append(chain, b)
    /\ peak' = IF Len(chain) + 1 > peak THEN Len(chain) + 1 ELSE peak

\* A reorganisation drops the tip block, at most ReorgLimit blocks below
\* the highest block the server ever served.
Disconnect ==
    /\ Len(chain) > 0
    /\ Len(chain) - 1 >= peak - ReorgLimit
    /\ chain' = Prefix(chain, Len(chain) - 1)
    /\ UNCHANGED peak

ServerStep == Disconnect \/ \E b \in Block : Mine(b)
=============================================================================
