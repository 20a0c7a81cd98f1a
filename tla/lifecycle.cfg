SPECIFICATION FairSpec
CONSTANTS
    t1 = t1
    t2 = t2
    Threads <- MCTwoThreads
    MaxWallets = 4
    MaxQueue = 5
    Users <- MCPatientOrNot
CHECK_DEADLOCK FALSE
INVARIANTS
    NoWalletLeaked
    OpenedSignalCarriesPatientsWallet
    SettledGuiAgreesWithManager
PROPERTIES
    ImplementsWalletSlot
    NoTaskStuck
    GuiSettles
