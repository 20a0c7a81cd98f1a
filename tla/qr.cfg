CONSTANTS
    plain = plain
    odd = odd
    transfer = transfer
    addressBook = addressBook
    Codes <- MCCodes
    Odd <- MCOdd
    NotUri = notUri
    Nothing = nothing
    Invalid = invalid
    Pages <- MCPages
    MaxQueue = 2
    MaxSignals = 1
    MaxScans = 2
SPECIFICATION FairSpec
INVARIANTS NoFrameSleptOn FilmedInOrder UnfilmedFirst AskedSinceLastCode
PROPERTIES OneCodePerScan ScanEnds QueueDrains
