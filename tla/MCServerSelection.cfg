SPECIFICATION FairSpec
CONSTANTS
    Servers <- MCServers
    SERVER_ATTEMPT = 2
    Delay = {1, 3}
    Stall = Stall
INVARIANTS
    TypeOK
    FirstThatServes
    BoundedWait
PROPERTIES
    Returns
CHECK_DEADLOCK FALSE
