------------------------- MODULE MCWalletLifecycle -------------------------
\* WalletLifecycle with pool threads as model values and chosen users.
EXTENDS WalletLifecycle

CONSTANTS t1, t2

MCTwoThreads == {t1, t2}
MCPatientOrNot == {{}, {"rescans"}, Habits}
MCHurries == {{"hurries"}}
=============================================================================
