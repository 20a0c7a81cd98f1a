---------------------------- MODULE MCWalletSync ----------------------------
\* WalletSync with short lifetimes of the caches.
EXTENDS WalletSync
=============================================================================
