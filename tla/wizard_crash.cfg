SPECIFICATION Spec
CONSTANTS
    a = a
    b = b
    zero = zero
    late = late
    Names <- MCNames
    Heights <- MCHeights
    Zero = zero
    MaxWallets = 3
    Users <- MCRestarts
CHECK_DEADLOCK FALSE
INVARIANT
    RefreshedWalletSaved
