----------------------------- MODULE Detection -----------------------------
(***************************************************************************)
(* Which transactions of a block scan_block (src/src/sync/scan.rs) keeps   *)
(* and what it records on them.                                            *)
(***************************************************************************)
EXTENDS AccountDb

\* scan_block keeps a transaction with an owned output, a watched spend or, with
\* zns-decrypt, a name note (`detected_relaxed`).
Detected(watched, t) ==
    Outputs[t] \cap Owned # {} \/ Spends[t] \cap watched # {} \/ t \in Named

\* On a kept transaction it records the watched nullifiers, and those of
\* every Ironwood action.
Detect(watched, b) ==
    {[txid |-> t, height |-> Len(b), spends |-> Spends[t] \cap (watched \cup Ironwood)]
       : t \in {u \in Tip(b).txs : Detected(watched, u)}}
=============================================================================
