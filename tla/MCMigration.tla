---------------------------- MODULE MCMigration ----------------------------
(***************************************************************************)
(* The instance of Migration that TLC checks: files with the rows of every *)
(* history of at most MaxHeight blocks, with amounts that are right, all   *)
(* zero, or blind to what was spent.                                       *)
(***************************************************************************)
EXTENDS Migration, MCWallet

CONSTANT MaxHeight

MCHistories ==
    {c \in UNION {[1..k -> Block] : k \in 1..MaxHeight} : Valid(c)}

LedgerOf[c \in MCHistories \cup {<<>>}] ==
    IF c = <<>> THEN EmptyDb
    ELSE LET d == LedgerOf[Prefix(c, Len(c) - 1)]
         IN  ApplyTransactions(d, c, Detect(Nullifiers(d), c))

WithRows(d, Old(_)) ==
    [d EXCEPT !.txs = [t \in Tx |-> IF @[t] = NoRow THEN NoRow ELSE Old(@[t])]]

MCOldDbs ==
    UNION {{LedgerOf[c],
            WithRows(LedgerOf[c], LAMBDA row :
                [row EXCEPT !.credit = {}, !.debit = {}]),
            WithRows(LedgerOf[c], LAMBDA row :
                [row EXCEPT !.debit = {}, !.is_outgoing = FALSE])}
           : c \in MCHistories \cup {<<>>}}
=============================================================================
