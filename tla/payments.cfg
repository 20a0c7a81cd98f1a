SPECIFICATION FairSpec
CONSTANTS
    MaxTx = 3
    Surroundings <- MCAloneOrAll
CHECK_DEADLOCK FALSE
INVARIANTS
    CommittedAtMostOnce
    NothingSentUnconfirmedAlone
    DialogIsAboutTransactionAlone
PROPERTIES
    ImplementsLedger
    SplashGoes
