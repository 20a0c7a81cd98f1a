SPECIFICATION Spec
CONSTANTS
    MaxTx = 2
    Surroundings <- MCChecks
CHECK_DEADLOCK FALSE
INVARIANT
    NothingSentUnconfirmed
