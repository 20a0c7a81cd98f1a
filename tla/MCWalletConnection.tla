------------------------ MODULE MCWalletConnection ------------------------
\* WalletConnection with daemons and task slots as model values.
EXTENDS WalletConnection

CONSTANTS d1, d2, c1, c2, i1, i2

MCDaemons == {d1, d2}
MCChecks == {c1, c2}
MCInits == {i1, i2}
=============================================================================
