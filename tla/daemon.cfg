SPECIFICATION FairSpec
CONSTANTS
    MaxCalls = 3
    KillAfter = 2
    Worlds <- MCNoneOrAll
CHECK_DEADLOCK FALSE
INVARIANTS
    RefreshNotForgotten
    OneAtATime
    RunningMeansUp
PROPERTY
    SplashGoes
