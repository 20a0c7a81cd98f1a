---------------------------- MODULE DaemonManager ----------------------------
(***************************************************************************)
(* Starting and stopping letheand: DaemonManager.cpp with its watchers on  *)
(* the thread pool, the handlers of main.qml, the dialog that starts the   *)
(* daemon by a countdown, and the question asked when the window closes.   *)
(*                                                                         *)
(* The daemon is a process of its own.  Every call of start() or stop()    *)
(* leaves a watcher that polls `letheand status` and whose finished signal *)
(* the GUI thread handles later; calls are numbered in order.  The splash  *)
(* and the dialogs are application-modal windows.                          *)
(***************************************************************************)
EXTENDS Naturals, FiniteSets

CONSTANTS
    MaxCalls,   \* bound on the calls of start() and stop() in a behaviour
    KillAfter,  \* polls that still find a daemon before stopWatcher kills it
    Worlds      \* the sets of Troubles a behaviour may have

Troubles ==
    {"splashHidden",  \* the user or another handler closes the splash
     "lateStatus",    \* the wallet's first status arrives during a call
     "dialogClosed",  \* the countdown's window is closed by its title bar
     "death"}         \* a daemon ends that this GUI did not tell to

ASSUME DaemonAssumption ==
    /\ MaxCalls \in Nat
    /\ KillAfter \in Nat \ {0}
    /\ Worlds \subseteq SUBSET Troubles

VARIABLES
    daemon,             \* the letheand process
    watch,              \* of each call, its watcher or its undelivered signal
    polls,              \* stopWatcher's counter, of each call
    calls,              \* calls of start() and stop() so far
    daemonRunning,      \* main.qml's daemonRunning
    wallet,             \* is currentWallet a wallet?
    walletInitialized,  \* main.qml's walletInitialized
    paused,             \* is the refresh of currentWallet paused?
    splash,             \* is the processing splash on show?
    countdown,          \* daemonManagerDialog: its timer, and is it visible?
    popup,              \* the popup "Daemon failed to start"
    confirm,            \* confirmationDialog: "Daemon is running"
    outcome,            \* "quit" once closeAccepted has run
    troubles            \* of this behaviour, one of Worlds

processVars == <<daemon, watch, polls, calls>>
walletVars == <<wallet, walletInitialized>>
windowVars == <<countdown, popup, confirm>>
vars == <<processVars, walletVars, windowVars, daemonRunning, paused, splash, outcome, troubles>>

Calls == 1 .. MaxCalls
DaemonStates == {"down", "starting", "up", "stopping", "flushing"}
WatchStates ==
    {"none", "done",
     "startPolls", "startSeen", "started", "startFailed",
     "stopPolls", "stopped"}

TypeOK ==
    /\ daemon \in DaemonStates
    /\ watch \in [Calls -> WatchStates]
    /\ polls \in [Calls -> 0 .. KillAfter]
    /\ calls \in 0 .. MaxCalls
    /\ daemonRunning \in BOOLEAN
    /\ wallet \in BOOLEAN
    /\ walletInitialized \in BOOLEAN
    /\ paused \in BOOLEAN
    /\ splash \in BOOLEAN
    /\ countdown \in {"off", "visible", "hidden"}
    /\ popup \in BOOLEAN
    /\ confirm \in BOOLEAN
    /\ outcome \in {"running", "quit"}
    /\ troubles \in Worlds

\* Calls whose watcher polls or whose signal is not handled yet.
Pending == {c \in Calls : watch[c] \notin {"none", "done"}}

-----------------------------------------------------------------------------
(* The daemon.  It answers `status` from the time it is up until it has     *)
(* stopped its RPC server; it writes its database out before it ends.       *)

Running == daemon \in {"up", "stopping"}

DaemonComesUp ==
    /\ daemon = "starting"
    /\ daemon' \in {"up", "down"}

DaemonStops ==
    \/ daemon = "stopping" /\ daemon' \in {"flushing", "down"}
    \/ daemon = "flushing" /\ daemon' = "down"

DaemonDies ==
    /\ "death" \in troubles
    /\ daemon = "up"
    /\ daemon' = "down"

Daemon ==
    /\ DaemonComesUp \/ DaemonStops \/ DaemonDies
    /\ UNCHANGED <<watch, polls, calls, walletVars, windowVars, daemonRunning, paused, splash,
                   outcome, troubles>>

-----------------------------------------------------------------------------
(* The watchers, on the thread pool.                                        *)

WatchersOnly == UNCHANGED <<calls, walletVars, windowVars, daemonRunning, paused, splash,
                            outcome, troubles>>

StartSeesDaemon(c) ==
    /\ watch[c] = "startPolls"
    /\ Running
    /\ watch' = [watch EXCEPT ![c] = "startSeen"]
    /\ UNCHANGED <<daemon, polls>>
    /\ WatchersOnly

\* The time is up, or the application exits.
StartGivesUp(c) ==
    /\ watch[c] = "startPolls"
    /\ watch' = [watch EXCEPT ![c] = "startFailed"]
    /\ UNCHANGED <<daemon, polls>>
    /\ WatchersOnly

\* The five seconds it lets the daemon catch up are over.
StartReports(c) ==
    /\ watch[c] = "startSeen"
    /\ watch' = [watch EXCEPT ![c] = "started"]
    /\ UNCHANGED <<daemon, polls>>
    /\ WatchersOnly

\* Mutant of StopFindsRunning: the counter is not kept from poll to poll.
StopFindsRunningAnew(c) ==
    /\ watch[c] = "stopPolls"
    /\ Running
    /\ polls' = [polls EXCEPT ![c] = 1]
    /\ daemon' = IF polls'[c] >= KillAfter THEN "down" ELSE daemon
    /\ UNCHANGED watch
    /\ WatchersOnly

\* A poll that finds a daemon; pkill ends it, whichever it is.
StopFindsRunning(c) ==
    /\ watch[c] = "stopPolls"
    /\ Running
    /\ polls' = [polls EXCEPT ![c] = IF @ < KillAfter THEN @ + 1 ELSE @]
    /\ daemon' = IF polls'[c] >= KillAfter THEN "down" ELSE daemon
    /\ UNCHANGED watch
    /\ WatchersOnly

StopFindsNone(c) ==
    /\ watch[c] = "stopPolls"
    /\ ~Running
    /\ watch' = [watch EXCEPT ![c] = "stopped"]
    /\ UNCHANGED <<daemon, polls>>
    /\ WatchersOnly

\* m_app_exit ends the loop without a signal.
StopAbandoned(c) ==
    /\ watch[c] = "stopPolls"
    /\ outcome = "quit"
    /\ watch' = [watch EXCEPT ![c] = "done"]
    /\ UNCHANGED <<daemon, polls>>
    /\ WatchersOnly

\* A poll under way when the application exits still ends as it would have.
StopPolls(c) == StopFindsRunning(c) \/ StopFindsNone(c) \/ StopAbandoned(c)

Watcher(c) == StartSeesDaemon(c) \/ StartGivesUp(c) \/ StartReports(c) \/ StopPolls(c)

-----------------------------------------------------------------------------
(* The GUI thread: start() and stop(), and the handlers of their signals.   *)

\* Mutant of ResumeRefresh: the refresh is left as it is.
ResumeRefreshNot == UNCHANGED paused

\* currentWallet.startRefresh()
ResumeRefresh == paused' = FALSE

NextCall(state) ==
    /\ calls < MaxCalls
    /\ calls' = calls + 1
    /\ watch' = [watch EXCEPT ![calls + 1] = state]
    /\ UNCHANGED polls

\* The process is launched; it ends at once if there is one already.
Launched ==
    /\ NextCall("startPolls")
    /\ daemon' = IF daemon = "down" THEN "starting" ELSE daemon
    /\ splash' = TRUE
    /\ paused' = TRUE
    /\ UNCHANGED <<daemonRunning, popup>>

\* The process cannot be launched: onDaemonStartFailure runs within start().
NotLaunched ==
    /\ NextCall("done")
    /\ splash' = FALSE
    /\ ResumeRefresh
    /\ daemonRunning' = FALSE
    /\ popup' = TRUE
    /\ UNCHANGED daemon

\* startDaemon(): with no wallet it throws before it does anything.
StartDaemon ==
    /\ wallet
    /\ Launched \/ NotLaunched

\* DaemonManager::stop: the daemon obeys `exit` if it answers at all.
Stop ==
    /\ NextCall("stopPolls")
    /\ daemon' = IF daemon = "up" THEN "stopping" ELSE daemon

Handled(c, state) ==
    /\ outcome = "running"
    /\ watch[c] = state
    /\ watch' = [watch EXCEPT ![c] = "done"]
    /\ splash' = FALSE
    /\ UNCHANGED <<daemon, polls, calls, walletVars, countdown, confirm, outcome, troubles>>

OnDaemonStarted(c) ==
    /\ Handled(c, "started")
    /\ daemonRunning' = TRUE
    /\ IF wallet THEN ResumeRefresh ELSE UNCHANGED paused
    /\ UNCHANGED popup

\* Mutant of OnDaemonStopped: daemonRunning is forgotten.
OnDaemonStoppedForgets(c) ==
    /\ Handled(c, "stopped")
    /\ UNCHANGED <<daemonRunning, paused, popup>>

OnDaemonStopped(c) ==
    /\ Handled(c, "stopped")
    /\ daemonRunning' = FALSE
    /\ UNCHANGED <<paused, popup>>

\* With no wallet it throws at startRefresh.
OnDaemonStartFailure(c) ==
    /\ Handled(c, "startFailed")
    /\ IF wallet
       THEN ResumeRefresh /\ daemonRunning' = FALSE /\ popup' = TRUE
       ELSE UNCHANGED <<paused, daemonRunning, popup>>

Deliver(c) == OnDaemonStarted(c) \/ OnDaemonStopped(c) \/ OnDaemonStartFailure(c)

-----------------------------------------------------------------------------
(* The user, and the wallet that comes and goes.                            *)

UserCanAct ==
    /\ outcome = "running"
    /\ ~splash /\ countdown # "visible" /\ ~popup /\ ~confirm

\* "Start daemon" on the Settings page, or the link shown on the Transfer and
\* VPN pages while the wallet is not connected; the link ignores daemonRunning.
UserStarts ==
    /\ UserCanAct
    /\ StartDaemon
    /\ UNCHANGED <<walletVars, countdown, confirm, outcome, troubles>>

\* Mutant of UserStops: no splash.
UserStopsUnblocked ==
    /\ UserCanAct
    /\ daemonRunning
    /\ Stop
    /\ UNCHANGED <<walletVars, windowVars, daemonRunning, paused, splash, outcome, troubles>>

\* "Stop daemon" on the Settings page, enabled by daemonRunning
UserStops ==
    /\ UserCanAct
    /\ daemonRunning
    /\ Stop
    /\ splash' = TRUE
    /\ UNCHANGED <<walletVars, windowVars, daemonRunning, paused, outcome, troubles>>

\* onPageCompleted of the Settings page throws at viewOnly with no wallet.
LoadSettings == daemonRunning' = IF wallet THEN Running ELSE daemonRunning

SettingsLoaded ==
    /\ UserCanAct
    /\ LoadSettings
    /\ UNCHANGED <<processVars, walletVars, windowVars, paused, splash, outcome, troubles>>

\* The first connection status of a wallet: when it is disconnected from a
\* local daemon and none is running, the countdown begins.
StatusChanged ==
    /\ outcome = "running"
    /\ wallet /\ ~walletInitialized
    /\ "lateStatus" \in troubles \/ Pending = {}
    /\ walletInitialized' = TRUE
    /\ \/ ~Running /\ countdown' = "visible"
       \/ UNCHANGED countdown
    /\ UNCHANGED <<processVars, wallet, popup, confirm, daemonRunning, paused, splash, outcome,
                   troubles>>

CountdownEnds ==
    /\ outcome = "running"
    /\ countdown # "off"
    /\ countdown' = "off"
    /\ \/ StartDaemon
       \/ ~wallet /\ UNCHANGED <<processVars, popup, daemonRunning, paused, splash>>
    /\ UNCHANGED <<walletVars, confirm, outcome, troubles>>

\* "Use custom settings"
CountdownCancelled ==
    /\ outcome = "running"
    /\ countdown = "visible"
    /\ countdown' = "off"
    /\ LoadSettings
    /\ UNCHANGED <<processVars, walletVars, popup, confirm, paused, splash, outcome, troubles>>

\* The window is gone, its timer runs on.
CountdownHidden ==
    /\ "dialogClosed" \in troubles
    /\ outcome = "running"
    /\ countdown = "visible"
    /\ countdown' = "hidden"
    /\ UNCHANGED <<processVars, walletVars, popup, confirm, daemonRunning, paused, splash,
                   outcome, troubles>>

SplashHidden ==
    /\ "splashHidden" \in troubles
    /\ outcome = "running"
    /\ splash
    /\ splash' = FALSE
    /\ UNCHANGED <<processVars, walletVars, windowVars, daemonRunning, paused, outcome, troubles>>

PopupClosed ==
    /\ outcome = "running"
    /\ popup
    /\ popup' = FALSE
    /\ UNCHANGED <<processVars, walletVars, countdown, confirm, daemonRunning, paused, splash,
                   outcome, troubles>>

\* onWalletOpened connects a wallet, whose refresh is not paused.
WalletOpened ==
    /\ outcome = "running"
    /\ ~wallet
    /\ wallet' = TRUE
    /\ walletInitialized' = FALSE
    /\ paused' = FALSE
    /\ UNCHANGED <<processVars, windowVars, daemonRunning, splash, outcome, troubles>>

\* initAsync has reached the daemon and starts the refresh.
InitFinished ==
    /\ outcome = "running"
    /\ wallet /\ paused
    /\ ResumeRefresh
    /\ UNCHANGED <<processVars, walletVars, windowVars, daemonRunning, splash, outcome, troubles>>

\* closeWallet(), from showWizard() or initialize()
WalletLetGo ==
    /\ UserCanAct
    /\ wallet
    /\ wallet' = FALSE
    /\ walletInitialized' = FALSE
    /\ paused' = FALSE
    /\ UNCHANGED <<processVars, windowVars, daemonRunning, splash, outcome, troubles>>

\* onClosing: ask if a daemon is running, otherwise closeAccepted().
Closing ==
    /\ UserCanAct
    /\ IF Running
       THEN confirm' = TRUE /\ UNCHANGED outcome
       ELSE outcome' = "quit" /\ UNCHANGED confirm
    /\ UNCHANGED <<processVars, walletVars, countdown, popup, daemonRunning, paused, splash,
                   troubles>>

\* The question is answered: leave the daemon, or "Stop daemon" first.
ClosingAnswered ==
    /\ outcome = "running"
    /\ confirm /\ ~splash /\ countdown # "visible" /\ ~popup
    /\ confirm' = FALSE
    /\ outcome' = "quit"
    /\ Stop \/ UNCHANGED processVars
    /\ UNCHANGED <<walletVars, countdown, popup, daemonRunning, paused, splash, troubles>>

User ==
    \/ UserStarts \/ UserStops \/ SettingsLoaded
    \/ CountdownCancelled \/ CountdownHidden \/ SplashHidden \/ PopupClosed
    \/ WalletLetGo \/ Closing \/ ClosingAnswered

Wallet == WalletOpened \/ StatusChanged \/ InitFinished

-----------------------------------------------------------------------------
\* The application starts; a daemon may be there already, also one that an
\* earlier session of the GUI has told to end.
Init ==
    /\ troubles \in Worlds
    /\ daemon \in DaemonStates
    /\ daemon \in {"stopping", "flushing"} => "death" \in troubles
    /\ watch = [c \in Calls |-> "none"]
    /\ polls = [c \in Calls |-> 0]
    /\ calls = 0
    /\ daemonRunning = FALSE
    /\ wallet = FALSE /\ walletInitialized = FALSE /\ paused = FALSE
    /\ splash = FALSE /\ countdown = "off" /\ popup = FALSE /\ confirm = FALSE
    /\ outcome = "running"

Next ==
    \/ Daemon
    \/ \E c \in Calls : Watcher(c) \/ Deliver(c)
    \/ CountdownEnds \/ Wallet \/ User

\* The pool runs its watchers, the start watcher's time passes, and the event
\* loop delivers what they report.  Nothing is assumed of the daemon or the user.
CallGoesOn(c) ==
    /\ WF_vars(StartGivesUp(c)) /\ WF_vars(StartReports(c)) /\ WF_vars(StopPolls(c))
    /\ WF_vars(Deliver(c))

Fairness == \A c \in Calls : CallGoesOn(c)

Spec == Init /\ [][Next]_vars
FairSpec == Spec /\ Fairness

-----------------------------------------------------------------------------
\* A refresh paused for a start is not forgotten: while the wallet's refresh is
\* paused, a start is under way or its report is still to be handled, so that
\* something will resume it, whatever happens around it.
RefreshNotForgotten ==
    paused => \E c \in Calls : watch[c] \in {"startPolls", "startSeen", "started", "startFailed"}

\* start() and stop() do not overlap: the splash of one keeps the user from the
\* other until its report is handled, or the application quits.  A daemon that
\* dies by itself changes nothing of it; each of the other Troubles does.
OneAtATime ==
    (troubles \subseteq {"death"} /\ outcome = "running") =>
        /\ Pending # {} <=> splash
        /\ \A c, d \in Pending : c = d

\* Without troubles, once a report is handled daemonRunning may be believed: the
\* "Stop daemon" button is only offered for a daemon that answers.
RunningMeansUp ==
    (troubles = {} /\ outcome = "running" /\ Pending = {} /\ daemonRunning) => daemon = "up"

\* The splash "Waiting for daemon to start..." or "to stop..." goes away,
\* also when the daemon hangs.
SplashGoes == splash ~> (~splash \/ outcome = "quit")
=============================================================================
