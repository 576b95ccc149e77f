SPECIFICATION ReaderSpec
CONSTANTS
    pay = pay
    send = send
    sweep = sweep
    n_pay = n_pay
    n_change = n_change
    n_sent = n_sent
    NoCursor = NoCursor
    NoTx = NoTx
    Salt = {1}
    Tx = {pay, send, sweep}
    Note = {n_pay, n_change, n_sent}
    Owned = {n_pay, n_change}
    Watchable = {n_pay, n_change}
    Ironwood = {n_change}
    Named = {}
    Outputs <- MCOutputs
    Spends <- MCSpends
    Value <- MCValue
    OutputCount <- MCOutputCount
    Birthday = 1
    ReorgLimit = 2
    MAX_REORG_DEPTH = 2
    MaxHeight = 3
    BLOCKS_PER_BATCH = 3
    OUTPUTS_PER_BATCH = 4
    StreamCap = 1
    Sapling = {n_pay}
INVARIANTS
    BalanceWasHeld
