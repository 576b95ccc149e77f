------------------------------ MODULE MCWallet ------------------------------
(***************************************************************************)
(* The transactions and notes of the instances TLC checks: `pay` pays the  *)
(* account, `send` spends that note, keeps a change note in another pool   *)
(* and sends one away, and `sweep` spends the same note without a trace    *)
(* the keys could decrypt, so that a reorganisation may exchange one for   *)
(* the other.                                                              *)
(***************************************************************************)
EXTENDS Blocks

CONSTANTS pay, send, sweep, n_pay, n_change, n_sent

MCOutputs == [t \in Tx |->
    CASE t = pay -> {n_pay} [] t = send -> {n_change, n_sent} [] t = sweep -> {}]
MCSpends == [t \in Tx |-> IF t = pay THEN {} ELSE {n_pay}]
MCValue == [n \in Note |->
    CASE n = n_pay -> 5 [] n = n_change -> 2 [] n = n_sent -> 3]
\* A block with `sweep` is over the limit of a segment on its own.
MCOutputCount == [T \in SUBSET Tx |->
    IF T = {} THEN 1 ELSE IF sweep \in T THEN 5 ELSE 2]
=============================================================================
