SPECIFICATION Spec
CONSTANTS
    a = a
    b = b
    zero = zero
    late = late
    Names <- MCNames
    Heights <- MCHeights
    Zero = zero
    MaxWallets = 3
    Users <- MCUsers
CHECK_DEADLOCK FALSE
INVARIANTS
    FinishIsAboutOpenWallet
    WalletInUseIsKept
    NoTemporaryFileLeft
    ScanStartsRight
    FirstRunSaved
PROPERTY
    KeptFilesStay
