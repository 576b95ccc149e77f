SPECIFICATION FairSpec
CONSTANTS
    pay = pay
    send = send
    sweep = sweep
    n_pay = n_pay
    n_change = n_change
    n_sent = n_sent
    NoCursor = NoCursor
    NoTx = NoTx
    Salt = {1}
    Tx = {pay, send, sweep}
    Note = {n_pay, n_change, n_sent}
    Owned = {n_pay, n_change}
    Watchable = {n_pay, n_change}
    Ironwood = {n_change}
    Named = {}
    Outputs <- MCOutputs
    Spends <- MCSpends
    Value <- MCValue
    Birthday = 1
    Proc = {sync, balance}
    Syncing = sync
    Internal = {n_change, n_sent}
    OldDbs <- MCOldDbs
    Histories <- MCHistories
    Nobody = Nobody
    MaxHeight = 3
INVARIANTS
    TypeOK
    MigratedIsExact
    OpenIsMigrated
PROPERTIES
    LateBackfillChangesNothing
    EveryoneOpens
