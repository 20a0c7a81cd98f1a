SPECIFICATION Spec
CONSTANTS
    t1 = t1
    t2 = t2
    Threads <- MCTwoThreads
    MaxWallets = 3
    MaxQueue = 4
    Users <- MCHurries
CHECK_DEADLOCK FALSE
INVARIANT
    OpenedSignalCarriesOpenWallet
