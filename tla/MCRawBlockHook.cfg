SPECIFICATION UninterruptedSpec
CONSTANTS
    pay = pay
    send = send
    sweep = sweep
    n_pay = n_pay
    n_change = n_change
    n_sent = n_sent
    NoCursor = NoCursor
    NoTx = NoTx
    Salt = {1}
    Tx = {pay}
    Note = {n_pay}
    Owned = {n_pay}
    Watchable = {n_pay}
    Ironwood = {}
    Named = {}
    Outputs <- MCOutputs
    Spends <- MCSpends
    Value <- MCValue
    OutputCount <- MCOutputCount
    Birthday = 1
    ReorgLimit = 2
    MAX_REORG_DEPTH = 2
    MaxHeight = 3
    BLOCKS_PER_BATCH = 3
    OUTPUTS_PER_BATCH = 4
    StreamCap = 1
INVARIANTS
    AppliedBlocksHanded
