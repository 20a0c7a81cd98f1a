--------------------------- MODULE MCDaemonManager ---------------------------
\* DaemonManager with chosen troubles.
EXTENDS DaemonManager

MCNoneOrAll == {{}, {"death"}, Troubles}
=============================================================================
