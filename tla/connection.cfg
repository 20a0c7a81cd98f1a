SPECIFICATION FairSpec
CONSTANTS
    d1 = d1
    d2 = d2
    c1 = c1
    c2 = c2
    i1 = i1
    i2 = i2
    Daemons <- MCDaemons
    Checks <- MCChecks
    Inits <- MCInits
    MaxChanges = 2
CHECK_DEADLOCK FALSE
INVARIANTS
    PanelShowsStatus
    SendNeedsConnection
    LockNotLeaked
PROPERTY
    StatusConverges
