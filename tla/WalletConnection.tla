-------------------------- MODULE WalletConnection --------------------------
(***************************************************************************)
(* The connection status of one open wallet: the cached status and its     *)
(* time-to-live in Wallet.cpp, the asynchronous checks that renew it,      *)
(* initAsync, which points the wallet at a daemon, and the handlers of     *)
(* main.qml and Transfer.qml that show the status.                         *)
(*                                                                         *)
(* A check reads the state of the daemon on a pool thread and applies it   *)
(* later on the GUI thread, in whatever order the checks finish.  The      *)
(* clock of the cache is abstracted to the three ages connected() tells    *)
(* apart.                                                                  *)
(***************************************************************************)
EXTENDS Naturals, FiniteSets

CONSTANTS
    Daemons,     \* the daemon addresses the user may choose
    Checks,      \* slots for updateConnectionStatusAsync calls in flight
    Inits,       \* slots for initAsync calls in flight
    MaxChanges   \* bound on daemons change, reconnections and page visits

ASSUME ConnectionAssumption ==
    /\ Daemons # {}
    /\ Checks # {} /\ Inits # {}
    /\ MaxChanges \in Nat

VARIABLES
    net,                \* what each daemon would answer to a check
    changes,            \* changes, reconnections and page visits so far
    daemon,             \* the address m_walletImpl was last initialised with
    init,               \* each init slot: none, an address, or done
    check,              \* each check slot: none, running, or the answer got
    m_connectionStatus,
    m_initialized,
    m_connectionStatusRunning,
    age,                \* of m_connectionStatusTime, see Ages
    refreshing,         \* startRefresh was called
    walletInitialized,  \* main.qml: a status change was handled
    shown,              \* leftPanel.networkStatus.connected
    sendEnabled         \* Transfer.qml: pageRoot.enabled

walletVars == <<daemon, m_connectionStatus, m_initialized>>
cacheVars == <<check, m_connectionStatusRunning, age>>
guiVars == <<walletInitialized, shown, sendEnabled>>
vars == <<net, changes, init, refreshing, walletVars, cacheVars, guiVars>>

Status == {"Disconnected", "Connected", "WrongVersion"}

\* Up to 5 seconds, up to 30 seconds, and above.
Ages == {"fresh", "stale", "expired"}
NoDaemon == "no daemon"

TypeOK ==
    /\ net \in [Daemons -> Status]
    /\ changes \in 0 .. MaxChanges
    /\ daemon \in Daemons \cup {NoDaemon}
    /\ init \in [Inits -> Daemons \cup {"none", "done"}]
    /\ check \in [Checks -> Status \cup {"none", "running"}]
    /\ m_connectionStatus \in Status
    /\ m_initialized \in BOOLEAN
    /\ m_connectionStatusRunning \in BOOLEAN
    /\ age \in Ages
    /\ refreshing \in BOOLEAN
    /\ walletInitialized \in BOOLEAN
    /\ shown \in Status
    /\ sendEnabled \in BOOLEAN

-----------------------------------------------------------------------------
(* connected(force): start a check unless the cached status is good enough. *)

\* Mutant of NeedsCheck: the time-to-live of the cached status is not looked at.
NeedsFirstCheck(force, initialized, running) == force \/ ~initialized

NeedsCheck(force, initialized, running) ==
    \/ force
    \/ ~initialized
    \/ age = "stale" /\ ~running
    \/ age = "expired"

\* The slots a call takes: one, in a state of the slots given by cs.
StartCheck(cs) ==
    /\ \E c \in Checks :
        /\ cs[c] = "none"
        /\ check' = [cs EXCEPT ![c] = "running"]
    /\ age' = "fresh"

\* Mutants of Show: the panel is not told; the page is never disabled again.
ShowNotOnPanel(st, synced) ==
    /\ walletInitialized' = TRUE
    /\ sendEnabled' = (st = "Connected" /\ synced)
    /\ UNCHANGED shown
ShowEnablesOnly(st, synced) ==
    /\ walletInitialized' = TRUE
    /\ shown' = st
    /\ sendEnabled' = (sendEnabled \/ (st = "Connected" /\ synced))

\* The event of a connection status st reaching main.qml: both pages read
\* connected(), the panel shows st, the transfer page follows the cached status.
Show(st, synced) ==
    /\ walletInitialized' = TRUE
    /\ shown' = st
    /\ sendEnabled' = (st = "Connected" /\ synced)

-----------------------------------------------------------------------------
(* The environment. *)

DaemonChanges ==
    /\ changes < MaxChanges
    /\ changes' = changes + 1
    /\ \E d \in Daemons, st \in Status :
        /\ net[d] # st
        /\ net' = [net EXCEPT ![d] = st]
    /\ UNCHANGED <<init, refreshing, walletVars, cacheVars, guiVars>>

TimePasses ==
    /\ \/ age = "fresh" /\ age' = "stale"
       \/ age = "stale" /\ age' = "expired"
    /\ UNCHANGED <<net, changes, init, refreshing, walletVars, check,
                   m_connectionStatusRunning, guiVars>>

-----------------------------------------------------------------------------
(* initAsync, on the GUI thread, and Wallet::init, on the pool. *)

\* If the status was not Disconnected its handler runs before the task starts;
\* the handler's reads of connected() may start a check of the old daemon.
InitAsync ==
    /\ changes < MaxChanges
    /\ changes' = changes + 1
    /\ \E i \in Inits, d \in Daemons :
        /\ init[i] = "none"
        /\ init' = [init EXCEPT ![i] = d]
    /\ IF m_connectionStatus = "Disconnected"
       THEN UNCHANGED <<m_connectionStatus, cacheVars, guiVars>>
       ELSE /\ m_connectionStatus' = "Disconnected"
            /\ \E synced \in BOOLEAN : Show("Disconnected", synced)
            /\ IF NeedsCheck(FALSE, m_initialized, m_connectionStatusRunning)
               THEN StartCheck(check) /\ m_connectionStatusRunning' = TRUE
               ELSE UNCHANGED cacheVars
    /\ UNCHANGED <<net, daemon, m_initialized, refreshing>>

InitRuns(i) ==
    /\ init[i] \in Daemons
    /\ daemon' = init[i]
    /\ init' = [init EXCEPT ![i] = "done"]
    /\ UNCHANGED <<net, changes, m_connectionStatus, m_initialized, cacheVars,
                   refreshing, guiVars>>

\* The watcher's finished handler: connected(true), then startRefresh.
InitFinished(i) ==
    /\ init[i] = "done"
    /\ init' = [init EXCEPT ![i] = "none"]
    /\ StartCheck(check)
    /\ m_connectionStatusRunning' = TRUE
    /\ refreshing' = TRUE
    /\ UNCHANGED <<net, changes, walletVars, guiVars>>

-----------------------------------------------------------------------------
(* updateConnectionStatusAsync. *)

Answer == IF daemon = NoDaemon THEN "Disconnected" ELSE net[daemon]

CheckRuns(c) ==
    /\ check[c] = "running"
    /\ check' = [check EXCEPT ![c] = Answer]
    /\ UNCHANGED <<net, changes, init, refreshing, walletVars, age,
                   m_connectionStatusRunning, guiVars>>

\* Mutant of CheckFinished: an answer that changes nothing does not release the flag.
CheckFinishedEarlyReturn(c) ==
    LET st == check[c]
        freed == [check EXCEPT ![c] = "none"]
        changed == st # m_connectionStatus \/ ~m_initialized
    IN  /\ st \in Status
        /\ check' = freed
        /\ m_connectionStatus' = st
        /\ m_initialized' = TRUE
        /\ IF changed
           THEN (\E synced \in BOOLEAN : Show(st, synced)) /\ m_connectionStatusRunning' = FALSE
           ELSE UNCHANGED <<guiVars, m_connectionStatusRunning>>
        /\ UNCHANGED <<net, changes, daemon, init, age, refreshing>>

\* The finished handler.  A changed status is signalled first: the signal's
\* handler reads connected() and may start another check.  Only then is
\* m_connectionStatusRunning cleared.
CheckFinished(c) ==
    LET st == check[c]
        freed == [check EXCEPT ![c] = "none"]
    IN  /\ st \in Status
        /\ IF st # m_connectionStatus \/ ~m_initialized
           THEN /\ m_connectionStatus' = st
                /\ m_initialized' = TRUE
                /\ \E synced \in BOOLEAN : Show(st, synced)
                /\ IF NeedsCheck(FALSE, TRUE, m_connectionStatusRunning)
                   THEN StartCheck(freed)
                   ELSE check' = freed /\ UNCHANGED age
           ELSE /\ check' = freed
                /\ UNCHANGED <<m_connectionStatus, m_initialized, age, guiVars>>
        /\ m_connectionStatusRunning' = FALSE
        /\ UNCHANGED <<net, changes, daemon, init, refreshing>>

\* onWalletRefresh, on every pass of the refresh thread: it reads connected()
\* several times.  Until the first answer each read starts a check, as many as
\* there are slots; afterwards the first read makes the cache fresh again.
WalletRefreshed ==
    /\ refreshing
    /\ IF ~m_initialized
       THEN /\ check' = [c \in Checks |-> IF check[c] = "none" THEN "running" ELSE check[c]]
            /\ age' = "fresh"
            /\ m_connectionStatusRunning' = TRUE
       ELSE IF NeedsCheck(FALSE, m_initialized, m_connectionStatusRunning)
            THEN StartCheck(check) /\ m_connectionStatusRunning' = TRUE
            ELSE UNCHANGED cacheVars
    /\ shown' = m_connectionStatus
    /\ \E synced \in BOOLEAN : sendEnabled' = (m_connectionStatus = "Connected" /\ synced)
    /\ UNCHANGED <<net, changes, init, refreshing, walletVars, walletInitialized>>

\* onDaemonStarted and onDaemonStopped: connected(true)
DaemonSignal ==
    /\ changes < MaxChanges
    /\ changes' = changes + 1
    /\ StartCheck(check)
    /\ m_connectionStatusRunning' = TRUE
    /\ UNCHANGED <<net, init, refreshing, walletVars, guiVars>>

\* onPageCompleted of the transfer page, on every visit: updateStatus reads
\* connected() and enables the page by what it read, before any event as well.
PageLoaded ==
    /\ changes < MaxChanges
    /\ changes' = changes + 1
    /\ IF NeedsCheck(FALSE, m_initialized, m_connectionStatusRunning)
       THEN StartCheck(check) /\ m_connectionStatusRunning' = TRUE
       ELSE UNCHANGED cacheVars
    /\ \E synced \in BOOLEAN : sendEnabled' = (m_connectionStatus = "Connected" /\ synced)
    /\ UNCHANGED <<net, init, refreshing, walletVars, walletInitialized, shown>>

-----------------------------------------------------------------------------
\* connectWallet on a wallet just constructed: initAsync sees Disconnected and
\* signals nothing, so panel and transfer page are as the previous wallet left
\* them; nothing disables the page when a wallet is let go.
Init ==
    /\ net \in [Daemons -> Status]
    /\ changes = 0
    /\ daemon = NoDaemon
    /\ \E i \in Inits, d \in Daemons :
        init = [j \in Inits |-> IF j = i THEN d ELSE "none"]
    /\ check = [c \in Checks |-> "none"]
    /\ m_connectionStatus = "Disconnected"
    /\ m_initialized = FALSE
    /\ m_connectionStatusRunning = FALSE
    /\ age = "fresh"
    /\ refreshing = FALSE
    /\ walletInitialized = FALSE
    /\ shown \in Status
    /\ sendEnabled \in BOOLEAN
    /\ sendEnabled => shown = "Connected"

Next ==
    \/ DaemonChanges \/ TimePasses \/ InitAsync \/ DaemonSignal \/ PageLoaded
    \/ WalletRefreshed
    \/ \E i \in Inits : InitRuns(i) \/ InitFinished(i)
    \/ \E c \in Checks : CheckRuns(c) \/ CheckFinished(c)

\* Time passes, the pool runs its tasks, their signals are delivered, and the
\* refresh thread keeps reporting once started.  InitFinished waits for a check
\* slot, a limit of the model only, so it gets strong fairness.
InitGoesOn(i) == WF_vars(InitRuns(i)) /\ SF_vars(InitFinished(i))
CheckGoesOn(c) == WF_vars(CheckRuns(c)) /\ WF_vars(CheckFinished(c))

Fairness ==
    /\ WF_vars(TimePasses) /\ WF_vars(WalletRefreshed)
    /\ \A i \in Inits : InitGoesOn(i)
    /\ \A c \in Checks : CheckGoesOn(c)

Spec == Init /\ [][Next]_vars
FairSpec == Spec /\ Fairness

-----------------------------------------------------------------------------
\* Once a status change was handled, the panel shows the wallet's cached status,
\* although the cache is written by initAsync, by checks finishing in any order
\* and shown by handlers that themselves start checks.
PanelShowsStatus == walletInitialized => shown = m_connectionStatus

\* The transfer page accepts input only while the panel shows Connected and,
\* once a status change of this wallet was handled, only while its cached status
\* is Connected.  Before that the page may still be open from the last wallet.
SendNeedsConnection ==
    sendEnabled =>
        /\ shown = "Connected"
        /\ walletInitialized => m_connectionStatus = "Connected"

\* m_connectionStatusRunning is never left set with no check in flight to clear
\* it, which would stop the checks of a stale status for 30 seconds.
LockNotLeaked == m_connectionStatusRunning => \E c \in Checks : check[c] # "none"

\* Answers applied out of order do not stay: when daemons and user leave things
\* as they are, the cached status becomes what the daemon answers, and stays so.
StatusConverges == <>[](m_connectionStatus = Answer)
=============================================================================
