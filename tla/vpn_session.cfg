SPECIFICATION Spec
CONSTANTS
    Offers <- MCOffers
    First = 1
    Subsequent = 1
    Margin = 1
    MaxTime = 3
    MaxLines = 2
    MaxRestarts = 1
INVARIANTS
    TimerFollowsFlag
    FirstPaymentOnce
    PrepaidBounded
PROPERTY
    ExpiredSessionEnds
