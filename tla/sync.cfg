SPECIFICATION FairSpec
CONSTANTS
    MaxHeight = 3
    MaxSignals = 1
    HeightTtl = 0
    TargetTtl = 1
INVARIANTS
    HistoryLagIsNoted
PROPERTIES
    SyncedIsRecent
    HistoryCatchesUp
    SyncedInTheEnd
