SPECIFICATION Spec
CONSTANTS
    Offers <- MCOffers
    First = 1
    Subsequent = 1
    Margin = 1
    MaxTime = 3
    MaxLines = 1
    MaxRestarts = 1
INVARIANT
    NoPaymentAfterVpnError
