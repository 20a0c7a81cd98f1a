------------------------ MODULE DaemonManager_proofs ------------------------
(***************************************************************************)
(* Theorems about DaemonManager, for any number of calls and any set of    *)
(* troubles: its variables keep their types and a paused refresh is never  *)
(* forgotten; without troubles (or with daemons that die, at most) starts  *)
(* and stops do not overlap; without any daemonRunning may be believed;    *)
(* and the splash goes away.                                               *)
(***************************************************************************)
EXTENDS DaemonManager, TLAPS

LEMMA ConstantFacts ==
    MaxCalls \in Nat /\ KillAfter \in Nat \ {0}
  BY DaemonAssumption DEF DaemonAssumption

LEMMA TypeInit == Init => TypeOK
  <1>1. SUFFICES ASSUME Init PROVE TypeOK
    OBVIOUS
  <1>2. watch \in [Calls -> WatchStates] /\ polls \in [Calls -> 0 .. KillAfter]
    BY <1>1, ConstantFacts DEF Init, WatchStates
  <1>3. calls \in 0 .. MaxCalls
    BY <1>1, ConstantFacts DEF Init
  <1>4. QED BY <1>1, <1>2, <1>3, Zenon DEF Init, TypeOK

LEMMA TypeWatcher ==
    ASSUME TypeOK, NEW c \in Calls, Watcher(c)
    PROVE  TypeOK'
  <1>1. CASE StartSeesDaemon(c) \/ StartGivesUp(c) \/ StartReports(c)
    BY <1>1 DEF TypeOK, StartSeesDaemon, StartGivesUp, StartReports, WatchersOnly,
       walletVars, windowVars, WatchStates
  <1>2. CASE StopFindsRunning(c)
    <2>1. polls' \in [Calls -> 0 .. KillAfter]
      BY <1>2, ConstantFacts DEF TypeOK, StopFindsRunning
    <2>2. daemon' \in DaemonStates /\ watch' = watch /\ WatchersOnly
      BY <1>2 DEF TypeOK, StopFindsRunning, DaemonStates
    <2>3. QED BY <2>1, <2>2 DEF TypeOK, WatchersOnly, walletVars, windowVars
  <1>3. CASE StopFindsNone(c) \/ StopAbandoned(c)
    BY <1>3 DEF TypeOK, StopFindsNone, StopAbandoned, WatchersOnly, walletVars, windowVars,
       WatchStates
  <1>4. QED BY <1>1, <1>2, <1>3 DEF Watcher, StopPolls

LEMMA TypeDeliver ==
    ASSUME TypeOK, NEW c \in Calls, Deliver(c)
    PROVE  TypeOK'
  <1>1. CASE OnDaemonStarted(c)
    BY <1>1 DEF TypeOK, OnDaemonStarted, Handled, ResumeRefresh, walletVars, WatchStates
  <1>2. CASE OnDaemonStopped(c)
    BY <1>2 DEF TypeOK, OnDaemonStopped, Handled, walletVars, WatchStates
  <1>3. CASE OnDaemonStartFailure(c)
    BY <1>3 DEF TypeOK, OnDaemonStartFailure, Handled, ResumeRefresh, walletVars, WatchStates
  <1>4. QED BY <1>1, <1>2, <1>3 DEF Deliver

\* What a call of start() or stop() changes.
LEMMA TypeNextCall ==
    ASSUME TypeOK, NEW state \in WatchStates, NextCall(state)
    PROVE  /\ calls + 1 \in Calls
           /\ calls' = calls + 1 /\ calls' \in 0 .. MaxCalls
           /\ watch' = [watch EXCEPT ![calls + 1] = state]
           /\ watch' \in [Calls -> WatchStates]
           /\ polls' \in [Calls -> 0 .. KillAfter]
  BY ConstantFacts DEF TypeOK, NextCall, Calls

LEMMA TypeStart ==
    ASSUME TypeOK, StartDaemon
    PROVE  /\ daemon' \in DaemonStates
           /\ calls' \in 0 .. MaxCalls
           /\ watch' \in [Calls -> WatchStates]
           /\ polls' \in [Calls -> 0 .. KillAfter]
           /\ splash' \in BOOLEAN /\ paused' \in BOOLEAN /\ daemonRunning' \in BOOLEAN
           /\ popup' \in BOOLEAN
  <1>1. "startPolls" \in WatchStates /\ "done" \in WatchStates
    BY DEF WatchStates
  <1>2. CASE Launched
    BY <1>1, <1>2, TypeNextCall DEF TypeOK, Launched, DaemonStates
  <1>3. CASE NotLaunched
    BY <1>1, <1>3, TypeNextCall DEF TypeOK, NotLaunched, ResumeRefresh
  <1>4. QED BY <1>2, <1>3 DEF StartDaemon

LEMMA TypeStop ==
    ASSUME TypeOK, Stop
    PROVE  /\ daemon' \in DaemonStates
           /\ calls' \in 0 .. MaxCalls
           /\ watch' \in [Calls -> WatchStates]
           /\ polls' \in [Calls -> 0 .. KillAfter]
  <1>1. "stopPolls" \in WatchStates
    BY DEF WatchStates
  <1>2. QED BY <1>1, TypeNextCall DEF TypeOK, Stop, DaemonStates

LEMMA TypeGui ==
    ASSUME TypeOK, CountdownEnds \/ Wallet \/ User
    PROVE  TypeOK'
  <1>1. CASE CountdownEnds
    <2>1. CASE StartDaemon
      BY <1>1, <2>1, TypeStart DEF TypeOK, CountdownEnds, walletVars
    <2>2. CASE UNCHANGED <<processVars, popup, daemonRunning, paused, splash>>
      BY <1>1, <2>2 DEF TypeOK, CountdownEnds, walletVars, processVars
    <2>3. QED BY <1>1, <2>1, <2>2 DEF CountdownEnds
  <1>2. CASE WalletOpened \/ InitFinished \/ WalletLetGo
    BY <1>2 DEF TypeOK, WalletOpened, InitFinished, WalletLetGo, ResumeRefresh, processVars,
       walletVars, windowVars
  <1>3. CASE StatusChanged
    BY <1>3 DEF TypeOK, StatusChanged, processVars
  <1>4. CASE UserStarts
    BY <1>4, TypeStart DEF TypeOK, UserStarts, walletVars
  <1>5. CASE UserStops
    BY <1>5, TypeStop DEF TypeOK, UserStops, walletVars, windowVars
  <1>6. CASE SettingsLoaded \/ CountdownCancelled
    <2>1. daemonRunning' \in BOOLEAN
      <3>1. daemonRunning' = (IF wallet THEN Running ELSE daemonRunning)
        BY <1>6 DEF SettingsLoaded, CountdownCancelled, LoadSettings
      <3>2. Running \in BOOLEAN
        BY DEF Running
      <3>3. QED BY <3>1, <3>2 DEF TypeOK
    <2>2. QED
      BY <1>6, <2>1 DEF TypeOK, SettingsLoaded, CountdownCancelled, processVars, walletVars,
         windowVars
  <1>7. CASE CountdownHidden \/ SplashHidden \/ PopupClosed \/ Closing
    BY <1>7 DEF TypeOK, CountdownHidden, SplashHidden, PopupClosed, Closing, processVars,
       walletVars, windowVars
  <1>8. CASE ClosingAnswered
    <2>1. CASE Stop
      BY <1>8, <2>1, TypeStop DEF TypeOK, ClosingAnswered, walletVars
    <2>2. CASE UNCHANGED processVars
      BY <1>8, <2>2 DEF TypeOK, ClosingAnswered, walletVars, processVars
    <2>3. QED BY <1>8, <2>1, <2>2 DEF ClosingAnswered
  <1>9. QED
    BY <1>1, <1>2, <1>3, <1>4, <1>5, <1>6, <1>7, <1>8 DEF Wallet, User

LEMMA TypeNext == TypeOK /\ [Next]_vars => TypeOK'
  <1>1. SUFFICES ASSUME TypeOK, [Next]_vars PROVE TypeOK'
    OBVIOUS
  <1>2. CASE UNCHANGED vars
    BY <1>1, <1>2 DEF TypeOK, vars, processVars, walletVars, windowVars
  <1>3. CASE Daemon
    BY <1>1, <1>3 DEF TypeOK, Daemon, DaemonComesUp, DaemonStops, DaemonDies, DaemonStates,
       walletVars, windowVars
  <1>4. CASE \E c \in Calls : Watcher(c) \/ Deliver(c)
    BY <1>1, <1>4, TypeWatcher, TypeDeliver
  <1>5. QED BY <1>1, <1>2, <1>3, <1>4, TypeGui DEF Next

\* The variables keep their types.
THEOREM TypeCorrect == Spec => []TypeOK
  BY TypeInit, TypeNext, PTL DEF Spec

-----------------------------------------------------------------------------
(* A paused refresh.  A call that paused it is in one of four states until  *)
(* the handler that resumes it runs.                                        *)

StartStates == {"startPolls", "startSeen", "started", "startFailed"}

\* The watchers move a start along, and never drop it.
LEMMA ForgottenWatcher ==
    ASSUME TypeOK, RefreshNotForgotten, NEW c \in Calls, Watcher(c)
    PROVE  RefreshNotForgotten'
  <1>1. paused' = paused
    BY DEF Watcher, StartSeesDaemon, StartGivesUp, StartReports, StopPolls, StopFindsRunning,
       StopFindsNone, StopAbandoned, WatchersOnly
  <1>2. \A d \in Calls : watch[d] \in StartStates => watch'[d] \in StartStates
    BY DEF TypeOK, Watcher, StartSeesDaemon, StartGivesUp, StartReports, StopPolls,
       StopFindsRunning, StopFindsNone, StopAbandoned, StartStates
  <1>3. QED BY <1>1, <1>2 DEF RefreshNotForgotten, StartStates

\* A report of a start resumes the refresh of whatever wallet there is; other
\* reports leave the starts alone.
LEMMA ForgottenDeliver ==
    ASSUME TypeOK, RefreshNotForgotten, paused => wallet, NEW c \in Calls, Deliver(c)
    PROVE  RefreshNotForgotten'
  <1>1. CASE OnDaemonStarted(c) \/ OnDaemonStartFailure(c)
    BY <1>1 DEF TypeOK, RefreshNotForgotten, OnDaemonStarted, OnDaemonStartFailure, ResumeRefresh
  <1>2. CASE OnDaemonStopped(c)
    <2>1. \A d \in Calls : watch[d] \in StartStates => watch'[d] = watch[d]
      BY <1>2 DEF TypeOK, OnDaemonStopped, Handled, StartStates
    <2>2. QED BY <1>2, <2>1 DEF RefreshNotForgotten, OnDaemonStopped, StartStates
  <1>3. QED BY <1>1, <1>2 DEF Deliver

\* A call of stop() takes a fresh number and leaves the starts alone.
LEMMA FreshCall ==
    ASSUME TypeOK, NEW state \in WatchStates, NextCall(state),
           \A c \in Calls : c > calls => watch[c] = "none"
    PROVE  /\ watch[calls + 1] = "none"
           /\ \A c \in Calls : c > calls' => watch'[c] = "none"
           /\ \A c \in Calls : watch[c] # "none" => watch'[c] = watch[c]
  <1>1. calls \in Nat /\ calls + 1 \in Calls /\ calls' = calls + 1
        /\ watch' = [watch EXCEPT ![calls + 1] = state]
    BY TypeNextCall, ConstantFacts DEF TypeOK
  <1>2. calls + 1 > calls
    BY <1>1
  <1>3. watch[calls + 1] = "none"
    BY <1>1, <1>2
  <1>4. QED BY <1>1, <1>3 DEF TypeOK, Calls

RefreshInv ==
    /\ TypeOK
    /\ RefreshNotForgotten
    /\ paused => wallet
    /\ \A c \in Calls : c > calls => watch[c] = "none"

\* The numbers not yet given out have no watcher, whatever the watchers do.
LEMMA FreshKept ==
    ASSUME TypeOK, \A c \in Calls : c > calls => watch[c] = "none", NEW c \in Calls,
           Watcher(c) \/ Deliver(c)
    PROVE  \A d \in Calls : d > calls' => watch'[d] = "none"
  <1>1. calls' = calls /\ (watch' = watch \/ (watch[c] # "none"
                          /\ \E s \in WatchStates : watch' = [watch EXCEPT ![c] = s]))
    BY DEF Watcher, Deliver, StartSeesDaemon, StartGivesUp, StartReports, StopPolls,
       StopFindsRunning, StopFindsNone, StopAbandoned, WatchersOnly, OnDaemonStarted,
       OnDaemonStopped, OnDaemonStartFailure, Handled, WatchStates
  <1>2. QED BY <1>1 DEF TypeOK

LEMMA RefreshStart ==
    ASSUME RefreshInv, StartDaemon, UNCHANGED wallet
    PROVE  /\ RefreshNotForgotten'
           /\ (paused => wallet)'
           /\ \A c \in Calls : c > calls' => watch'[c] = "none"
  <1>1. CASE Launched
    <2>1. NextCall("startPolls") /\ "startPolls" \in WatchStates
      BY <1>1 DEF Launched, WatchStates
    <2>2. calls + 1 \in Calls /\ watch'[calls + 1] = "startPolls"
      BY <2>1, TypeNextCall DEF RefreshInv, TypeOK
    <2>3. QED BY <2>1, <2>2, FreshCall DEF RefreshInv, StartDaemon, RefreshNotForgotten
  <1>2. CASE NotLaunched
    <2>1. NextCall("done") /\ "done" \in WatchStates /\ paused' = FALSE
      BY <1>2 DEF NotLaunched, ResumeRefresh, WatchStates
    <2>2. QED BY <2>1, FreshCall DEF RefreshInv, RefreshNotForgotten
  <1>3. QED BY <1>1, <1>2 DEF StartDaemon

LEMMA RefreshStop ==
    ASSUME RefreshInv, Stop, UNCHANGED <<wallet, paused>>
    PROVE  /\ RefreshNotForgotten'
           /\ (paused => wallet)'
           /\ \A c \in Calls : c > calls' => watch'[c] = "none"
  <1>1. NextCall("stopPolls") /\ "stopPolls" \in WatchStates
    BY DEF Stop, WatchStates
  <1>2. \A c \in Calls : watch[c] \in StartStates => watch'[c] \in StartStates
    BY <1>1, FreshCall DEF RefreshInv, StartStates
  <1>3. QED BY <1>1, <1>2, FreshCall DEF RefreshInv, RefreshNotForgotten, StartStates

LEMMA RefreshGui ==
    ASSUME RefreshInv, CountdownEnds \/ Wallet \/ User
    PROVE  /\ RefreshNotForgotten'
           /\ (paused => wallet)'
           /\ \A c \in Calls : c > calls' => watch'[c] = "none"
  <1>1. CASE StartDaemon /\ UNCHANGED wallet
    BY <1>1, RefreshStart
  <1>2. CASE Stop /\ UNCHANGED <<wallet, paused>>
    BY <1>2, RefreshStop
  <1>3. CASE UNCHANGED processVars /\ (paused' = FALSE \/ UNCHANGED <<wallet, paused>>)
    BY <1>3 DEF RefreshInv, RefreshNotForgotten, processVars
  <1>4. CountdownEnds \/ UserStarts
        => (StartDaemon /\ UNCHANGED wallet)
           \/ (UNCHANGED processVars /\ UNCHANGED <<wallet, paused>>)
    BY DEF CountdownEnds, UserStarts, walletVars
  <1>5. UserStops \/ ClosingAnswered
        => UNCHANGED <<wallet, paused>> /\ (Stop \/ UNCHANGED processVars)
    BY DEF UserStops, ClosingAnswered, walletVars
  <1>6. WalletOpened \/ InitFinished \/ WalletLetGo => UNCHANGED processVars /\ paused' = FALSE
    BY DEF WalletOpened, InitFinished, WalletLetGo, ResumeRefresh
  <1>7. StatusChanged \/ SettingsLoaded \/ CountdownCancelled \/ CountdownHidden \/ SplashHidden
        \/ PopupClosed \/ Closing
        => UNCHANGED processVars /\ UNCHANGED <<wallet, paused>>
    BY DEF StatusChanged, SettingsLoaded, CountdownCancelled, CountdownHidden, SplashHidden,
       PopupClosed, Closing, walletVars
  <1>8. QED
    BY <1>1, <1>2, <1>3, <1>4, <1>5, <1>6, <1>7 DEF Wallet, User

LEMMA RefreshInvInit == Init => RefreshInv
  <1>1. ASSUME Init PROVE RefreshNotForgotten /\ (paused => wallet)
                          /\ \A c \in Calls : c > calls => watch[c] = "none"
    BY <1>1 DEF Init, RefreshNotForgotten
  <1>2. QED BY <1>1, TypeInit DEF RefreshInv

LEMMA RefreshInvNext == RefreshInv /\ [Next]_vars => RefreshInv'
  <1>1. SUFFICES ASSUME RefreshInv, [Next]_vars PROVE RefreshInv'
    OBVIOUS
  <1>2. TypeOK'
    BY <1>1, TypeNext DEF RefreshInv
  <1>3. CASE UNCHANGED vars \/ Daemon
    <2>1. UNCHANGED <<watch, calls, paused, wallet>>
      BY <1>3 DEF vars, processVars, walletVars, Daemon
    <2>2. QED BY <1>1, <1>2, <2>1 DEF RefreshInv, RefreshNotForgotten
  <1>4. ASSUME NEW c \in Calls, Watcher(c) \/ Deliver(c) PROVE RefreshInv'
    <2>1. RefreshNotForgotten'
      BY <1>1, <1>4, ForgottenWatcher, ForgottenDeliver DEF RefreshInv
    <2>2. (paused => wallet)'
      BY <1>1, <1>4 DEF RefreshInv, Watcher, Deliver, StartSeesDaemon, StartGivesUp,
         StartReports, StopPolls, StopFindsRunning, StopFindsNone, StopAbandoned, WatchersOnly,
         OnDaemonStarted, OnDaemonStopped, OnDaemonStartFailure, Handled, ResumeRefresh,
         walletVars
    <2>3. QED BY <1>1, <1>2, <1>4, <2>1, <2>2, FreshKept DEF RefreshInv
  <1>5. CASE CountdownEnds \/ Wallet \/ User
    BY <1>1, <1>2, <1>5, RefreshGui DEF RefreshInv
  <1>6. QED BY <1>1, <1>3, <1>4, <1>5 DEF Next

\* While a refresh is paused, a start is under way whose report will resume it,
\* whatever troubles there are.
THEOREM RefreshResumed == Spec => []RefreshNotForgotten
  <1>1. RefreshInv => RefreshNotForgotten
    BY DEF RefreshInv
  <1>2. QED BY <1>1, RefreshInvInit, RefreshInvNext, PTL DEF Spec

-----------------------------------------------------------------------------
(* Behaviours without troubles.  What keeps starts and stops apart is that  *)
(* whatever begins one needs every modal window gone, and that the splash   *)
(* stays as long as a call is under way.                                    *)

StopUnderWay == \E c \in Calls : watch[c] \in {"stopPolls", "stopped"}

Quiet == troubles = {} /\ outcome = "running"

\* The windows do not depend on the daemon's health.
Orderly == troubles \subseteq {"death"} /\ outcome = "running"

WindowsInv ==
    Orderly => /\ splash <=> Pending # {}
               /\ \A c, d \in Pending : c = d
               /\ countdown # "hidden"
               /\ countdown = "visible" => Pending = {}

DaemonInv ==
    Quiet => /\ daemonRunning => daemon = "up" \/ StopUnderWay
             /\ \A c \in Calls : watch[c] \in {"startSeen", "started"} => daemon = "up"
             /\ daemon = "stopping" => \E c \in Calls : watch[c] = "stopPolls"

QuietInv == RefreshInv /\ WindowsInv /\ DaemonInv

LEMMA QuietInvInit == Init => QuietInv
  <1>1. SUFFICES ASSUME Init PROVE QuietInv
    OBVIOUS
  <1>2. Pending = {}
    BY <1>1 DEF Init, Pending
  <1>3. WindowsInv
    BY <1>1, <1>2 DEF Init, WindowsInv
  <1>4. DaemonInv
    BY <1>1 DEF Init, DaemonInv, Quiet
  <1>5. QED BY <1>1, <1>3, <1>4, RefreshInvInit DEF QuietInv

\* A step that leaves the watchers and the windows as they are.
LEMMA WindowsKept ==
    ASSUME WindowsInv, UNCHANGED <<watch, splash, countdown, troubles>>,
           outcome' = outcome \/ outcome' = "quit"
    PROVE  WindowsInv'
  BY DEF WindowsInv, Orderly, Pending

\* A step that leaves the watchers, the daemon and daemonRunning as they are.
LEMMA DaemonKept ==
    ASSUME DaemonInv, UNCHANGED <<watch, daemon, daemonRunning, troubles>>,
           outcome' = outcome \/ outcome' = "quit"
    PROVE  DaemonInv'
  BY DEF DaemonInv, Quiet, StopUnderWay

\* Once the application quits there is nothing left to show.
LEMMA QuitIsQuiet ==
    ASSUME outcome' = "quit"
    PROVE  WindowsInv' /\ DaemonInv'
  BY DEF WindowsInv, DaemonInv, Orderly, Quiet

\* The daemon alone: without troubles it ends only after it was told to.
LEMMA QuietDaemon ==
    ASSUME QuietInv, Daemon
    PROVE  WindowsInv' /\ DaemonInv'
  <1>1. WindowsInv'
    BY WindowsKept DEF QuietInv, Daemon, windowVars
  <1>2. DaemonInv'
    <2>1. SUFFICES ASSUME Quiet' PROVE
             /\ daemonRunning => daemon' = "up" \/ StopUnderWay
             /\ \A c \in Calls : watch[c] \in {"startSeen", "started"} => daemon' = "up"
             /\ daemon' = "stopping" => \E c \in Calls : watch[c] = "stopPolls"
      BY DEF DaemonInv, Daemon, StopUnderWay
    <2>2. Quiet /\ "death" \notin troubles
      BY <2>1 DEF Quiet, Daemon
    <2>3. daemon # "up" /\ daemon' # "stopping"
      BY <2>2 DEF Daemon, DaemonComesUp, DaemonStops, DaemonDies
    <2>4. QED BY <2>2, <2>3 DEF QuietInv, DaemonInv
  <1>3. QED BY <1>1, <1>2

\* A watcher keeps its call under way until it reports.
LEMMA QuietWatcher ==
    ASSUME QuietInv, NEW c \in Calls, Watcher(c)
    PROVE  WindowsInv' /\ DaemonInv'
  <1>1. UNCHANGED <<splash, countdown, daemonRunning, troubles, outcome>>
    BY DEF Watcher, StartSeesDaemon, StartGivesUp, StartReports, StopPolls, StopFindsRunning,
       StopFindsNone, StopAbandoned, WatchersOnly, windowVars
  <1>2. CASE outcome = "quit"
    BY <1>1, <1>2, QuitIsQuiet
  <1>3. CASE ~Orderly
    BY <1>1, <1>3 DEF WindowsInv, DaemonInv, Orderly, Quiet
  <1>4. CASE Orderly
    <2>1. /\ c \in Pending /\ watch \in [Calls -> WatchStates]
          /\ \E s \in WatchStates \ {"none", "done"} : watch' = [watch EXCEPT ![c] = s]
      <3>1. watch \in [Calls -> WatchStates]
        BY DEF QuietInv, RefreshInv, TypeOK
      <3>2. CASE StartSeesDaemon(c) \/ StartGivesUp(c) \/ StartReports(c) \/ StopFindsNone(c)
        BY <3>1, <3>2 DEF StartSeesDaemon, StartGivesUp, StartReports, StopFindsNone, Pending,
           WatchStates
      <3>3. CASE StopFindsRunning(c)
        <4>1. watch[c] = "stopPolls" /\ watch' = watch
          BY <3>3 DEF StopFindsRunning
        <4>2. watch' = [watch EXCEPT ![c] = "stopPolls"]
          BY <3>1, <4>1
        <4>3. QED BY <3>1, <4>1, <4>2 DEF Pending, WatchStates
      <3>4. ~StopAbandoned(c)
        BY <1>4 DEF Orderly, StopAbandoned
      <3>5. QED BY <3>2, <3>3, <3>4 DEF Watcher, StopPolls
    <2>2. Pending' = Pending
      BY <2>1 DEF Pending
    <2>3. WindowsInv'
      BY <1>1, <2>2 DEF QuietInv, WindowsInv, Orderly
    <2>4. \A d \in Calls : d # c => watch[d] \in {"none", "done"} /\ watch'[d] = watch[d]
      BY <1>4, <2>1 DEF QuietInv, WindowsInv, Pending
    <2>5. CASE ~Quiet
      BY <1>1, <2>3, <2>5 DEF DaemonInv, Quiet
    <2> SUFFICES ASSUME Quiet PROVE WindowsInv' /\ DaemonInv'
      BY <2>5
    <2>6. CASE StartSeesDaemon(c)
      <3>1. daemon = "up" /\ daemon' = daemon
        BY <1>4, <2>4, <2>6 DEF QuietInv, DaemonInv, StartSeesDaemon, Running
      <3>2. QED BY <1>4, <2>1, <2>3, <2>4, <2>6, <3>1 DEF DaemonInv
    <2>7. CASE StartGivesUp(c) \/ StartReports(c)
      <3>1. daemon' = daemon /\ ~StopUnderWay /\ daemon # "stopping"
            /\ (watch'[c] = "started" => watch[c] = "startSeen") /\ watch'[c] # "startSeen"
        BY <1>4, <2>1, <2>4, <2>7 DEF QuietInv, DaemonInv, StartGivesUp, StartReports,
           StopUnderWay
      <3>2. QED BY <1>1, <1>4, <2>1, <2>3, <2>4, <2>7, <3>1 DEF QuietInv, DaemonInv
    <2>8. CASE StopFindsRunning(c) \/ StopFindsNone(c)
      <3>1. watch'[c] \in {"stopPolls", "stopped"}
            /\ (daemon' = "stopping" => watch'[c] = "stopPolls")
        BY <1>4, <2>1, <2>8 DEF QuietInv, DaemonInv, StopFindsRunning, StopFindsNone, Running
      <3>2. QED BY <2>1, <2>3, <2>4, <3>1 DEF DaemonInv, StopUnderWay
    <2>9. ~StopAbandoned(c)
      BY <1>4 DEF Orderly, StopAbandoned
    <2>10. QED BY <2>3, <2>6, <2>7, <2>8, <2>9 DEF Watcher, StopPolls
  <1>5. QED BY <1>3, <1>4

\* A report ends the only call, and with it the splash.
LEMMA QuietDeliver ==
    ASSUME QuietInv, NEW c \in Calls, Deliver(c)
    PROVE  WindowsInv' /\ DaemonInv'
  <1>1. /\ watch[c] \in {"started", "stopped", "startFailed"}
        /\ watch' = [watch EXCEPT ![c] = "done"]
        /\ splash' = FALSE
        /\ UNCHANGED <<daemon, countdown, outcome, troubles>>
    BY DEF Deliver, OnDaemonStarted, OnDaemonStopped, OnDaemonStartFailure, Handled
  <1>2. CASE ~Orderly
    BY <1>1, <1>2 DEF WindowsInv, DaemonInv, Orderly, Quiet
  <1>3. CASE Orderly
    <2>1. c \in Pending /\ watch \in [Calls -> WatchStates]
      BY <1>1 DEF Pending, QuietInv, RefreshInv, TypeOK
    <2>2. \A d \in Calls : watch'[d] \in {"none", "done"}
      BY <1>1, <1>3, <2>1 DEF QuietInv, WindowsInv, Pending
    <2>3. Pending' = {}
      BY <2>2 DEF Pending
    <2>4. WindowsInv'
      BY <1>1, <1>3, <2>3 DEF QuietInv, WindowsInv
    <2>5. CASE ~Quiet
      BY <1>1, <2>4, <2>5 DEF DaemonInv, Quiet
    <2> SUFFICES ASSUME Quiet PROVE WindowsInv' /\ DaemonInv'
      BY <2>5
    <2>6. daemon # "stopping"
      BY <1>1, <1>3, <2>1 DEF QuietInv, WindowsInv, DaemonInv, Pending
    <2>7. daemonRunning' => daemon = "up"
      <3>1. CASE OnDaemonStarted(c)
        BY <1>3, <3>1 DEF QuietInv, DaemonInv, OnDaemonStarted, Handled
      <3>2. CASE OnDaemonStopped(c)
        BY <3>2 DEF OnDaemonStopped
      <3>3. CASE OnDaemonStartFailure(c)
        <4>1. watch[c] = "startFailed" /\ (daemonRunning' => daemonRunning)
          BY <3>3 DEF OnDaemonStartFailure, Handled
        <4>2. ~StopUnderWay
          BY <1>3, <2>1, <4>1 DEF QuietInv, WindowsInv, Pending, StopUnderWay
        <4>3. QED BY <1>3, <4>1, <4>2 DEF QuietInv, DaemonInv
      <3>4. QED BY <3>1, <3>2, <3>3 DEF Deliver
    <2>8. DaemonInv'
      BY <1>1, <2>2, <2>6, <2>7 DEF DaemonInv
    <2>9. QED BY <2>4, <2>8
  <1>4. QED BY <1>2, <1>3

\* A call of start() or stop() begins when none is under way.
LEMMA FirstCall ==
    ASSUME RefreshInv, Pending = {}, NEW state \in WatchStates, NextCall(state)
    PROVE  /\ calls + 1 \in Calls /\ watch'[calls + 1] = state
           /\ \A d \in Calls : d # calls + 1 => watch'[d] \in {"none", "done"}
           /\ Pending' = IF state \in {"none", "done"} THEN {} ELSE {calls + 1}
  <1>1. calls + 1 \in Calls /\ watch' = [watch EXCEPT ![calls + 1] = state]
    BY TypeNextCall DEF RefreshInv
  <1>2. watch \in [Calls -> WatchStates] /\ \A d \in Calls : watch[d] \in {"none", "done"}
    BY DEF RefreshInv, TypeOK, Pending
  <1>3. QED BY <1>1, <1>2 DEF Pending

LEMMA QuietStart ==
    ASSUME QuietInv, StartDaemon, Orderly => Pending = {},
           countdown' # "visible", countdown' = countdown \/ countdown' = "off",
           UNCHANGED <<outcome, troubles>>
    PROVE  WindowsInv' /\ DaemonInv'
  <1>1. CASE ~Orderly
    BY <1>1 DEF WindowsInv, DaemonInv, Orderly, Quiet
  <1>2. CASE Orderly
    <2>1. Pending = {} /\ ~StopUnderWay /\ countdown' # "hidden" /\ RefreshInv
      BY <1>2 DEF QuietInv, WindowsInv, StopUnderWay, Pending
    <2>2. Quiet => (daemonRunning => daemon = "up")
      BY <1>2, <2>1 DEF QuietInv, DaemonInv
    <2>3. Quiet => daemon # "stopping"
      BY <1>2, <2>1 DEF QuietInv, DaemonInv, StopUnderWay
    <2>4. CASE Launched
      <3>1. NextCall("startPolls") /\ "startPolls" \in WatchStates /\ splash' = TRUE
            /\ UNCHANGED daemonRunning
            /\ (Quiet => daemon' # "stopping") /\ (daemon = "up" => daemon' = "up")
        BY <2>3, <2>4 DEF Launched, WatchStates
      <3>2. Pending' = {calls + 1} /\ watch'[calls + 1] = "startPolls"
            /\ \A d \in Calls : d # calls + 1 => watch'[d] \in {"none", "done"}
        BY <2>1, <3>1, FirstCall
      <3>3. WindowsInv'
        BY <2>1, <3>1, <3>2 DEF WindowsInv
      <3>4. DaemonInv'
        BY <2>2, <3>1, <3>2 DEF DaemonInv, Quiet
      <3>5. QED BY <3>3, <3>4
    <2>5. CASE NotLaunched
      <3>1. NextCall("done") /\ "done" \in WatchStates /\ splash' = FALSE
            /\ daemonRunning' = FALSE /\ daemon' = daemon
        BY <2>5 DEF NotLaunched, WatchStates
      <3>2. Pending' = {} /\ \A d \in Calls : watch'[d] \in {"none", "done"}
        BY <2>1, <3>1, FirstCall
      <3>3. WindowsInv'
        BY <2>1, <3>1, <3>2 DEF WindowsInv
      <3>4. DaemonInv'
        BY <2>3, <3>1, <3>2 DEF DaemonInv, Quiet
      <3>5. QED BY <3>3, <3>4
    <2>6. QED BY <2>4, <2>5 DEF StartDaemon
  <1>3. QED BY <1>1, <1>2

\* Whatever needs all modal windows gone finds no call under way.
LEMMA UserWaits ==
    ASSUME QuietInv, Orderly, ~splash
    PROVE  Pending = {}
  BY DEF QuietInv, WindowsInv

LEMMA QuietUser ==
    ASSUME QuietInv, CountdownEnds \/ Wallet \/ User
    PROVE  WindowsInv' /\ DaemonInv'
  <1>1. WindowsInv /\ DaemonInv
    BY DEF QuietInv
  <1>2. CASE ~Orderly
    <2>1. troubles' = troubles /\ (outcome' = outcome \/ outcome' = "quit")
      BY DEF CountdownEnds, Wallet, User, WalletOpened, StatusChanged, InitFinished, UserStarts,
         UserStops, SettingsLoaded, CountdownCancelled, CountdownHidden, SplashHidden,
         PopupClosed, WalletLetGo, Closing, ClosingAnswered
    <2>2. outcome = "quit" => outcome' = "quit"
      BY DEF CountdownEnds, Wallet, User, WalletOpened, StatusChanged, InitFinished, UserStarts,
         UserStops, SettingsLoaded, CountdownCancelled, CountdownHidden, SplashHidden,
         PopupClosed, WalletLetGo, Closing, ClosingAnswered, UserCanAct
    <2>3. outcome \in {"running", "quit"}
      BY DEF QuietInv, RefreshInv, TypeOK
    <2>4. QED BY <1>2, <2>1, <2>2, <2>3 DEF WindowsInv, DaemonInv, Orderly, Quiet
  <1>3. CASE Orderly
    <2>1. CASE CountdownEnds
      <3>1. CASE StartDaemon
        <4>1. Pending = {} /\ countdown' = "off" /\ UNCHANGED <<outcome, troubles>>
          BY <1>1, <1>3, <2>1, TypeNext DEF WindowsInv, CountdownEnds, QuietInv, RefreshInv,
             TypeOK
        <4>2. QED BY <3>1, <4>1, QuietStart
      <3>2. CASE UNCHANGED <<processVars, popup, daemonRunning, paused, splash>>
        <4>1. countdown' = "off" /\ UNCHANGED <<outcome, troubles>>
              /\ UNCHANGED <<watch, daemon, daemonRunning, splash>>
          BY <2>1, <3>2 DEF CountdownEnds, processVars
        <4>2. Pending' = Pending
          BY <4>1 DEF Pending
        <4>3. WindowsInv'
          BY <1>1, <4>1, <4>2 DEF WindowsInv, Orderly
        <4>4. QED BY <1>1, <4>1, <4>3, DaemonKept
      <3>3. QED BY <2>1, <3>1, <3>2 DEF CountdownEnds
    <2>2. CASE UserStarts
      <3>1. ~splash /\ countdown # "visible" /\ StartDaemon
            /\ UNCHANGED <<countdown, outcome, troubles>>
        BY <2>2 DEF UserStarts, UserCanAct
      <3>2. Pending = {}
        BY <1>3, <3>1, UserWaits
      <3>3. QED BY <3>1, <3>2, QuietStart
    <2>3. CASE UserStops
      <3>1. ~splash /\ countdown # "visible" /\ splash' = TRUE /\ Stop
            /\ UNCHANGED <<countdown, outcome, troubles, daemonRunning>>
        BY <2>3 DEF UserStops, UserCanAct, windowVars
      <3>2. Pending = {} /\ RefreshInv
        BY <1>3, <3>1, UserWaits DEF QuietInv
      <3>3. NextCall("stopPolls") /\ "stopPolls" \in WatchStates
        BY <3>1 DEF Stop, WatchStates
      <3>4. calls + 1 \in Calls /\ watch'[calls + 1] = "stopPolls" /\ Pending' = {calls + 1}
            /\ \A d \in Calls : d # calls + 1 => watch'[d] \in {"none", "done"}
        BY <3>2, <3>3, FirstCall
      <3>5. WindowsInv'
        BY <1>1, <1>3, <3>1, <3>4 DEF WindowsInv
      <3>6. DaemonInv'
        BY <3>4 DEF DaemonInv, StopUnderWay
      <3>7. QED BY <3>5, <3>6
    <2>4. CASE SettingsLoaded \/ CountdownCancelled
      <3>1. UNCHANGED <<watch, daemon, splash, outcome, troubles>>
            /\ countdown' # "hidden" /\ (countdown' = "visible" => countdown = "visible")
            /\ Pending = {} /\ LoadSettings
        <4>1. CASE SettingsLoaded
          <5>1. ~splash /\ LoadSettings /\ UNCHANGED <<watch, daemon, splash, outcome, troubles>>
                /\ countdown' = countdown
            BY <4>1 DEF SettingsLoaded, UserCanAct, processVars, windowVars
          <5>2. QED BY <1>1, <1>3, <5>1, UserWaits DEF WindowsInv
        <4>2. CASE CountdownCancelled
          <5>1. countdown = "visible" /\ LoadSettings /\ countdown' = "off"
                /\ UNCHANGED <<watch, daemon, splash, outcome, troubles>>
            BY <4>2 DEF CountdownCancelled, processVars
          <5>2. QED BY <1>1, <1>3, <5>1 DEF WindowsInv
        <4>3. QED BY <2>4, <4>1, <4>2
      <3>2. Pending' = Pending
        BY <3>1 DEF Pending
      <3>3. WindowsInv'
        BY <1>1, <1>3, <3>1, <3>2 DEF WindowsInv
      <3>4. Quiet => daemon # "stopping" /\ ~StopUnderWay
        BY <1>1, <1>3, <3>1 DEF DaemonInv, StopUnderWay, Pending
      <3>5. Quiet => (daemonRunning' => daemon = "up")
        BY <1>1, <1>3, <3>1, <3>4 DEF DaemonInv, LoadSettings, Running
      <3>6. DaemonInv'
        BY <1>1, <1>3, <3>1, <3>4, <3>5 DEF DaemonInv, Quiet
      <3>7. QED BY <3>3, <3>6
    <2>5. CASE StatusChanged
      <3>1. UNCHANGED <<watch, daemon, daemonRunning, splash, outcome, troubles>>
            /\ Pending = {} /\ (countdown' = countdown \/ countdown' = "visible")
        BY <1>3, <2>5 DEF StatusChanged, processVars, Orderly
      <3>2. Pending' = Pending
        BY <3>1 DEF Pending
      <3>3. WindowsInv'
        BY <1>1, <1>3, <3>1, <3>2 DEF WindowsInv
      <3>4. QED BY <1>1, <3>1, <3>3, DaemonKept
    <2>6. CASE WalletOpened \/ InitFinished \/ PopupClosed \/ WalletLetGo \/ Closing
      <3>1. UNCHANGED <<watch, daemon, daemonRunning, splash, countdown, troubles>>
            /\ (outcome' = outcome \/ outcome' = "quit")
        BY <2>6 DEF WalletOpened, InitFinished, PopupClosed, WalletLetGo, Closing, processVars,
           windowVars
      <3>2. QED BY <1>1, <3>1, WindowsKept, DaemonKept
    <2>7. ~CountdownHidden /\ ~SplashHidden
      BY <1>3 DEF Orderly, CountdownHidden, SplashHidden
    <2>8. CASE ClosingAnswered
      BY <2>8, QuitIsQuiet DEF ClosingAnswered
    <2>9. QED
      BY <2>1, <2>2, <2>3, <2>4, <2>5, <2>6, <2>7, <2>8 DEF Wallet, User
  <1>4. QED BY <1>2, <1>3

LEMMA QuietInvNext == QuietInv /\ [Next]_vars => QuietInv'
  <1>1. SUFFICES ASSUME QuietInv, [Next]_vars PROVE QuietInv'
    OBVIOUS
  <1>2. RefreshInv'
    BY <1>1, RefreshInvNext DEF QuietInv
  <1>3. CASE UNCHANGED vars
    <2>1. UNCHANGED <<watch, daemon, daemonRunning, splash, countdown, troubles, outcome>>
      BY <1>3 DEF vars, processVars, windowVars
    <2>2. QED BY <1>1, <1>2, <2>1, WindowsKept, DaemonKept DEF QuietInv
  <1>4. CASE Daemon
    BY <1>1, <1>2, <1>4, QuietDaemon DEF QuietInv
  <1>5. CASE \E c \in Calls : Watcher(c) \/ Deliver(c)
    BY <1>1, <1>2, <1>5, QuietWatcher, QuietDeliver DEF QuietInv
  <1>6. CASE CountdownEnds \/ Wallet \/ User
    BY <1>1, <1>2, <1>6, QuietUser DEF QuietInv
  <1>7. QED BY <1>1, <1>3, <1>4, <1>5, <1>6 DEF Next

\* One start or stop is handled before the next begins, and the splash is on show
\* exactly as long as one is under way, also when the daemon dies by itself.
THEOREM CallsDoNotOverlap == Spec => []OneAtATime
  <1>1. QuietInv => OneAtATime
    BY DEF QuietInv, WindowsInv, Orderly, OneAtATime
  <1>2. QED BY <1>1, QuietInvInit, QuietInvNext, PTL DEF Spec

\* Without troubles daemonRunning is believable whenever no call is under way.
THEOREM RunningBelieved == Spec => []RunningMeansUp
  <1>1. QuietInv => RunningMeansUp
    BY DEF QuietInv, DaemonInv, Quiet, StopUnderWay, Pending, RunningMeansUp
  <1>2. QED BY <1>1, QuietInvInit, QuietInvNext, PTL DEF Spec

-----------------------------------------------------------------------------
(* The splash goes away, whatever troubles there are.  It is that of the     *)
(* newest call, since every handler and every failure to launch hides it;    *)
(* and what is left of that call, of the daemon and of the countdowns that   *)
(* may still start another one gets less with every step of its watcher.     *)

Waits == splash /\ outcome = "running"
SplashOfNewest == Waits => calls \in Calls /\ calls \in Pending
SplashInv == RefreshInv /\ SplashOfNewest

LEMMA SplashInvInit == Init => SplashInv
  BY RefreshInvInit DEF Init, SplashInv, SplashOfNewest, Waits

\* While the splash is on show only a countdown that ends can start a call.
LEMMA WaitingGui ==
    ASSUME Waits, CountdownEnds \/ Wallet \/ User
    PROVE  \/ UNCHANGED processVars
           \/ ~splash'
           \/ Launched /\ countdown # "off" /\ countdown' = "off" /\ UNCHANGED walletVars
  <1>1. ~UserCanAct
    BY DEF Waits, UserCanAct
  <1>2. UserStarts \/ UserStops => FALSE
    BY <1>1 DEF UserStarts, UserStops
  <1>3. ~ClosingAnswered
    BY DEF Waits, ClosingAnswered
  <1>4. SettingsLoaded \/ CountdownCancelled \/ CountdownHidden \/ SplashHidden \/ PopupClosed
        \/ WalletLetGo \/ Closing \/ Wallet => UNCHANGED processVars
    BY DEF SettingsLoaded, CountdownCancelled, CountdownHidden, SplashHidden, PopupClosed,
       WalletLetGo, Closing, Wallet, WalletOpened, StatusChanged, InitFinished
  <1>5. CountdownEnds => \/ UNCHANGED processVars \/ ~splash'
                         \/ Launched /\ countdown # "off" /\ countdown' = "off"
                            /\ UNCHANGED walletVars
    BY DEF CountdownEnds, StartDaemon, NotLaunched
  <1>6. QED BY <1>2, <1>3, <1>4, <1>5 DEF User

LEMMA SplashInvNext == SplashInv /\ [Next]_vars => SplashInv'
  <1>1. SUFFICES ASSUME SplashInv, [Next]_vars, Waits'
                 PROVE  (calls \in Calls /\ calls \in Pending)'
    BY RefreshInvNext DEF SplashInv, SplashOfNewest
  <1>2. TypeOK /\ calls \in Nat
    BY <1>1, ConstantFacts DEF SplashInv, RefreshInv, TypeOK
  <1>3. outcome = "running"
    BY <1>1, <1>2 DEF Waits, Next, vars, Daemon, Watcher, StartSeesDaemon, StartGivesUp,
       StartReports, StopPolls, StopFindsRunning, StopFindsNone, StopAbandoned, WatchersOnly,
       Deliver, OnDaemonStarted, OnDaemonStopped, OnDaemonStartFailure, Handled,
       CountdownEnds, Wallet, WalletOpened, StatusChanged, InitFinished, User, UserStarts,
       UserStops, SettingsLoaded, CountdownCancelled, CountdownHidden, SplashHidden,
       PopupClosed, WalletLetGo, Closing, ClosingAnswered, UserCanAct
  <1>4. CASE Launched \/ NextCall("stopPolls")
    <2>1. PICK state \in {"startPolls", "stopPolls"} : NextCall(state)
      BY <1>4 DEF Launched
    <2>2. state \in WatchStates
      BY <2>1 DEF WatchStates
    <2>3. calls' \in Calls /\ watch'[calls'] = state
      BY <1>2, <2>1, <2>2, TypeNextCall DEF TypeOK
    <2>4. QED BY <2>1, <2>3 DEF Pending
  <1>5. CASE splash /\ UNCHANGED calls /\ \A c \in Pending : c \in Pending'
    BY <1>1, <1>3, <1>5 DEF SplashInv, SplashOfNewest, Waits
  <1>6. CASE Daemon \/ UNCHANGED vars
    <2>1. UNCHANGED <<watch, calls, splash>>
      BY <1>6 DEF Daemon, vars, processVars
    <2>2. QED BY <1>5, <2>1, <1>1 DEF Waits, Pending
  <1>7. ASSUME NEW c \in Calls, Watcher(c)
        PROVE  splash /\ UNCHANGED calls /\ \A d \in Pending : d \in Pending'
    BY <1>1, <1>2, <1>3, <1>7
    DEF Waits, TypeOK, Pending, Watcher, StartSeesDaemon, StartGivesUp, StartReports, StopPolls,
        StopFindsRunning, StopFindsNone, StopAbandoned, WatchersOnly
  <1>8. ASSUME NEW c \in Calls, Deliver(c) PROVE FALSE
    BY <1>1, <1>8 DEF Waits, Deliver, OnDaemonStarted, OnDaemonStopped, OnDaemonStartFailure,
       Handled
  <1>9. ASSUME CountdownEnds \/ Wallet \/ User, Waits
        PROVE  Launched \/ (splash /\ UNCHANGED calls /\ \A c \in Pending : c \in Pending')
    <2>1. UNCHANGED processVars \/ Launched
      BY <1>1, <1>9, WaitingGui DEF Waits
    <2>2. QED BY <1>9, <2>1 DEF Waits, processVars, Pending
  <1>10. ASSUME CountdownEnds \/ Wallet \/ User, ~Waits
         PROVE  Launched \/ NextCall("stopPolls")
    BY <1>1, <1>3, <1>10 DEF Waits, CountdownEnds, Wallet, WalletOpened, StatusChanged,
       InitFinished, User, UserStarts, UserStops, SettingsLoaded, CountdownCancelled,
       CountdownHidden, SplashHidden, PopupClosed, WalletLetGo, Closing, ClosingAnswered,
       StartDaemon, NotLaunched, Stop
  <1>11. QED BY <1>1, <1>4, <1>5, <1>6, <1>7, <1>8, <1>9, <1>10 DEF Next

\* Every splash has its call, and nobody but the one who ends that call, or a new
\* call, can leave it behind.
THEOREM SplashHasItsCall == Spec => []SplashOfNewest
  <1>1. SplashInv => SplashOfNewest
    BY DEF SplashInv
  <1>2. QED BY <1>1, SplashInvInit, SplashInvNext, PTL DEF Spec

\* What is left: steps of the newest call, stages of the daemon, each of which a
\* poll may have to see, and countdowns that may still launch the daemon again.
Left ==
    IF watch[calls] = "startPolls" THEN 3
    ELSE IF watch[calls] = "startSeen" THEN 2
    ELSE IF watch[calls] = "stopPolls" THEN (KillAfter - polls[calls]) + 2
    ELSE 1
Life ==
    IF daemon = "starting" THEN 4
    ELSE IF daemon = "up" THEN 3
    ELSE IF daemon = "stopping" THEN 2
    ELSE IF daemon = "flushing" THEN 1
    ELSE 0
Launches ==
    (IF countdown = "off" THEN 0 ELSE 7) + (IF wallet /\ walletInitialized THEN 0 ELSE 7)
Rank == IF Waits THEN Left + Life + Launches ELSE 0

NewestMoves == calls \in Calls /\ Watcher(calls)
RankFalls ==
    Waits /\ Waits' => Rank' <= Rank /\ (NewestMoves => Rank' < Rank)

LEMMA RankTypes ==
    ASSUME SplashInv
    PROVE  /\ Waits => Left \in Nat /\ Left >= 1
           /\ Life \in 0 .. 4 /\ Launches \in 0 .. 14
           /\ Rank \in Nat
  <1>1. Waits => Left \in Nat /\ Left >= 1
    BY ConstantFacts DEF SplashInv, SplashOfNewest, RefreshInv, TypeOK, Left
  <1>2. Life \in 0 .. 4 /\ Launches \in 0 .. 14
    BY DEF Life, Launches
  <1>3. QED BY <1>1, <1>2 DEF Rank

LEMMA Sums ==
    ASSUME NEW l \in Nat, NEW l2 \in Nat, NEW f \in Nat, NEW f2 \in Nat,
           NEW c \in Nat, NEW c2 \in Nat
    PROVE  /\ l2 <= l /\ f2 <= f /\ c2 <= c => l2 + f2 + c2 <= l + f + c
           /\ l2 <= l + 2 /\ f2 <= f + 4 /\ c2 + 7 = c
                => l2 + f2 + c2 < l + f + c /\ l2 + f2 + c2 <= l + f + c
  OBVIOUS

\* Nobody but a launch brings the daemon, or the countdowns, back.
LEMMA RankKept ==
    ASSUME SplashInv, Waits, Waits', Life' <= Life, UNCHANGED <<watch, polls, calls>>,
           Life \in Nat, Life' \in Nat, Launches' <= Launches,
           Launches \in Nat, Launches' \in Nat
    PROVE  Rank' <= Rank
  <1>1. Left' = Left /\ Left \in Nat
    BY RankTypes DEF Left
  <1>2. Left' \in Nat /\ Left' <= Left
    BY <1>1
  <1>3. Left' + Life' + Launches' <= Left + Life + Launches
    BY <1>1, <1>2, Sums, Zenon
  <1>4. QED BY <1>3 DEF Rank

LEMMA RankDaemon ==
    ASSUME SplashInv, Daemon
    PROVE  Life' <= Life
  BY DEF Daemon, DaemonComesUp, DaemonStops, DaemonDies, Life

LEMMA RankWatcher ==
    ASSUME SplashInv, Waits, Waits', NEW c \in Calls, Watcher(c)
    PROVE  Rank' <= Rank /\ (c = calls => Rank' < Rank)
  <1>1. /\ TypeOK /\ calls \in Calls /\ KillAfter \in Nat /\ UNCHANGED calls
        /\ polls \in [Calls -> 0 .. KillAfter] /\ watch \in [Calls -> WatchStates]
        /\ Launches' = Launches /\ Launches \in Nat
        /\ Left \in Nat /\ Life \in Nat
    BY RankTypes, ConstantFacts
    DEF SplashInv, SplashOfNewest, RefreshInv, TypeOK, Launches, Watcher, StartSeesDaemon,
        StartGivesUp, StartReports, StopPolls, StopFindsRunning, StopFindsNone,
        StopAbandoned, WatchersOnly, walletVars, windowVars
  <1>2. Life' <= Life /\ Life' \in Nat /\ (c # calls => Left' = Left)
        /\ (c = calls => /\ Left' \in Nat
                         /\ Left' < Left \/ (Left' = Left /\ Life' < Life))
    <2>1. CASE StartSeesDaemon(c)
      BY <1>1, <2>1 DEF StartSeesDaemon, Left, Life
    <2>2. CASE StartGivesUp(c)
      BY <1>1, <2>2 DEF StartGivesUp, Left, Life
    <2>3. CASE StartReports(c)
      BY <1>1, <2>3 DEF StartReports, Left, Life
    <2>4. CASE StopFindsNone(c)
      BY <1>1, <2>4 DEF StopFindsNone, Left, Life
    <2>5. CASE StopFindsRunning(c)
      <3>1. Life' <= Life /\ Life' \in Nat /\ (polls'[c] >= KillAfter => Life' < Life)
        BY <2>5 DEF StopFindsRunning, Running, Life
      <3>2. CASE c # calls
        BY <1>1, <2>5, <3>1, <3>2 DEF StopFindsRunning, Left
      <3>3. CASE c = calls
        <4>1. /\ watch[calls] = "stopPolls" /\ watch'[calls'] = "stopPolls"
              /\ polls'[calls'] = IF polls[calls] < KillAfter THEN polls[calls] + 1
                                                              ELSE polls[calls]
          BY <1>1, <2>5, <3>3 DEF StopFindsRunning
        <4>2. polls[calls] \in 0 .. KillAfter
          BY <1>1
        <4>3. Left = (KillAfter - polls[calls]) + 2
              /\ Left' = (KillAfter - polls'[calls']) + 2
          BY <4>1 DEF Left
        <4>4. QED BY <1>1, <3>1, <3>3, <4>1, <4>2, <4>3
      <3>4. QED BY <3>2, <3>3
    <2>6. ~StopAbandoned(c)
      BY DEF StopAbandoned, Waits
    <2>7. QED BY <2>1, <2>2, <2>3, <2>4, <2>5, <2>6 DEF Watcher, StopPolls
  <1>3. QED BY <1>1, <1>2 DEF Rank

\* A countdown that launches the daemon is used up.
LEMMA RankLaunch ==
    ASSUME SplashInv, Waits, Waits', Launched, countdown # "off", countdown' = "off",
           UNCHANGED walletVars
    PROVE  Rank' < Rank /\ Rank' <= Rank
  <1>1. "startPolls" \in WatchStates /\ NextCall("startPolls") /\ TypeOK
    BY DEF Launched, WatchStates, SplashInv, RefreshInv
  <1>2. calls' \in Calls /\ watch'[calls'] = "startPolls"
    BY <1>1, TypeNextCall DEF TypeOK
  <1>3. Left' = 3 /\ Left \in Nat /\ Left >= 1
    BY <1>2, RankTypes DEF Left
  <1>4. Left' \in Nat /\ Left' <= Left + 2
    BY <1>3
  <1>5. Life' \in Nat /\ Life \in Nat /\ Life' <= Life + 4
    BY DEF Life, Launched
  <1>6. Launches' \in Nat /\ Launches \in Nat /\ Launches' + 7 = Launches
    BY DEF Launches, walletVars
  <1>7. Left' + Life' + Launches' < Left + Life + Launches
        /\ Left' + Life' + Launches' <= Left + Life + Launches
    BY <1>3, <1>4, <1>5, <1>6, Sums, Zenon
  <1>8. QED BY <1>7 DEF Rank

\* Other steps of the GUI can only use countdowns up: a wallet's first status gives
\* one at most.
LEMMA RankGui ==
    ASSUME SplashInv, Waits, Waits', CountdownEnds \/ Wallet \/ User
    PROVE  Rank' <= Rank
  <1>1. CASE Launched /\ countdown # "off" /\ countdown' = "off" /\ UNCHANGED walletVars
    BY <1>1, RankLaunch
  <1>2. CASE UNCHANGED processVars
    <2>1. Life' = Life /\ Life \in Nat /\ UNCHANGED <<watch, polls, calls>>
      BY <1>2 DEF processVars, Life
    <2>2. Launches' <= Launches /\ Launches \in Nat /\ Launches' \in Nat
      <3>1. CountdownEnds => countdown' = "off" /\ UNCHANGED walletVars
        BY DEF CountdownEnds
      <3>2. StatusChanged => wallet /\ ~walletInitialized /\ wallet' /\ walletInitialized'
        BY DEF StatusChanged
      <3>3. WalletOpened \/ InitFinished
            => UNCHANGED countdown /\ (~wallet \/ UNCHANGED walletVars)
        BY DEF WalletOpened, InitFinished, windowVars
      <3>4. User => /\ countdown # "off" \/ UNCHANGED countdown
                    /\ UNCHANGED walletVars
        BY DEF Waits, UserCanAct, User, UserStarts, UserStops, SettingsLoaded,
           CountdownCancelled, CountdownHidden, SplashHidden, PopupClosed, WalletLetGo,
           Closing, ClosingAnswered, windowVars
      <3>5. QED BY <3>1, <3>2, <3>3, <3>4 DEF Wallet, Launches, walletVars
    <2>3. QED BY <2>1, <2>2, RankKept
  <1>3. QED BY <1>1, <1>2, WaitingGui DEF Waits

LEMMA RankNext == SplashInv /\ [Next]_vars => RankFalls
  <1>1. SUFFICES ASSUME SplashInv, [Next]_vars, Waits, Waits'
                 PROVE  Rank' <= Rank /\ (NewestMoves => Rank' < Rank)
    BY DEF RankFalls
  <1>2. NewestMoves => Rank' < Rank
    BY <1>1, RankWatcher DEF NewestMoves
  <1>3. ASSUME NEW c \in Calls, Watcher(c) PROVE Rank' <= Rank
    BY <1>1, <1>3, RankWatcher
  <1>4. ASSUME NEW c \in Calls, Deliver(c) PROVE FALSE
    BY <1>1, <1>4 DEF Waits, Deliver, OnDaemonStarted, OnDaemonStopped, OnDaemonStartFailure,
       Handled
  <1>5. CASE CountdownEnds \/ Wallet \/ User
    BY <1>1, <1>2, <1>5, RankGui
  <1>6. CASE Daemon \/ UNCHANGED vars
    <2>1. /\ Launches' = Launches /\ Launches \in Nat
          /\ UNCHANGED <<watch, polls, calls>>
      BY <1>6 DEF Daemon, vars, processVars, walletVars, windowVars, Launches
    <2>2. Life \in Nat /\ Life' \in Nat
      BY DEF Life
    <2>3. Life' <= Life
      BY <1>1, <1>6, <2>2, RankDaemon DEF vars, processVars, Life
    <2>4. QED BY <1>1, <1>2, <2>1, <2>2, <2>3, RankKept
  <1>7. QED BY <1>1, <1>2, <1>3, <1>4, <1>5, <1>6 DEF Next

\* No step leaves more to do while the splash is on show, and every step of the
\* watcher of its call leaves less: KillAfter polls, and as many again only as there
\* are daemons for it to kill.
THEOREM WorkGetsLess == Spec => [][RankFalls]_vars
  BY SplashInvInit, SplashInvNext, RankNext, PTL DEF Spec

\* The stages of a call before its report is handled.
Starts(c) == watch[c] = "startPolls"
Sees(c) == watch[c] = "startSeen"
Stops(c) == watch[c] = "stopPolls"
Reports(c) == outcome = "running" /\ watch[c] \in {"started", "startFailed", "stopped"}

\* The newest call stays at its stage unless less is left to do.
LEMMA StageKept ==
    ASSUME SplashInv, Waits, Waits', [Next]_vars, Rank' = Rank, NEW c \in Calls, calls = c
    PROVE  /\ calls' = c
           /\ Starts(c) => Starts(c)' /\ ~StartGivesUp(c)
           /\ Sees(c) => Sees(c)' /\ ~StartReports(c)
           /\ Stops(c) => Stops(c)' /\ ~StopPolls(c)
           /\ Reports(c) => Reports(c)'
  <1>1. Rank \in Nat /\ ~(Rank' < Rank)
    BY RankTypes
  <1>2. ~Watcher(c)
    BY <1>1, RankWatcher
  <1>3. UNCHANGED calls /\ watch'[c] = watch[c]
    <2>1. ASSUME NEW d \in Calls, Watcher(d) PROVE UNCHANGED calls /\ watch'[c] = watch[c]
      BY <1>2, <2>1 DEF SplashInv, RefreshInv, TypeOK, Watcher, StartSeesDaemon, StartGivesUp,
         StartReports, StopPolls, StopFindsRunning, StopFindsNone, StopAbandoned, WatchersOnly
    <2>2. ASSUME NEW d \in Calls, Deliver(d) PROVE FALSE
      BY <2>2 DEF Waits, Deliver, OnDaemonStarted, OnDaemonStopped, OnDaemonStartFailure, Handled
    <2>3. ~(Launched /\ countdown # "off" /\ countdown' = "off" /\ UNCHANGED walletVars)
      BY <1>1, RankLaunch
    <2>4. CASE UNCHANGED processVars
      BY <2>4 DEF processVars
    <2>5. Daemon \/ UNCHANGED vars => UNCHANGED <<calls, watch>>
      BY DEF Daemon, vars, processVars
    <2>6. QED BY <2>1, <2>2, <2>3, <2>4, <2>5, WaitingGui DEF Next, Waits
  <1>4. QED
    BY <1>2, <1>3 DEF Starts, Sees, Stops, Reports, Watcher, Waits

\* An action is enabled where its guard holds.
GuardsSuffice ==
    \A c \in Calls :
        /\ Starts(c) => ENABLED <<StartGivesUp(c)>>_vars
        /\ Sees(c) => ENABLED <<StartReports(c)>>_vars
        /\ Stops(c) => ENABLED <<StopPolls(c)>>_vars
        /\ Reports(c) => ENABLED <<Deliver(c)>>_vars

\* What holds throughout a fair behaviour: fairness does so if it holds at the start.
Throughout == []SplashInv /\ [][Next]_vars /\ [][RankFalls]_vars /\ []GuardsSuffice /\ []Fairness

LEMMA GoesThroughout == Spec /\ []GuardsSuffice /\ []Fairness => Throughout
  BY SplashInvInit, SplashInvNext, WorkGetsLess, PTL DEF Spec, Throughout

\* Fair to a call is fair to it ever after.
LEMMA FairStays == ASSUME NEW c \in Calls PROVE CallGoesOn(c) => []CallGoesOn(c)
  BY PTL DEF CallGoesOn

AllGoOn == \A c \in Calls : CallGoesOn(c)

LEMMA FairToCall ==
    ASSUME NEW c \in Calls
    PROVE  Throughout => /\ []<>~Starts(c) \/ []<><<StartGivesUp(c)>>_vars
                         /\ []<>~Sees(c) \/ []<><<StartReports(c)>>_vars
                         /\ []<>~Stops(c) \/ []<><<StopPolls(c)>>_vars
                         /\ []<>~Reports(c) \/ []<><<Deliver(c)>>_vars
  <1>1. Fairness => AllGoOn
    BY PTL DEF Fairness, AllGoOn
  <1>2. AllGoOn => CallGoesOn(c)
    BY DEF AllGoOn
  <1>3. GuardsSuffice => /\ Starts(c) => ENABLED <<StartGivesUp(c)>>_vars
                         /\ Sees(c) => ENABLED <<StartReports(c)>>_vars
                         /\ Stops(c) => ENABLED <<StopPolls(c)>>_vars
                         /\ Reports(c) => ENABLED <<Deliver(c)>>_vars
    BY DEF GuardsSuffice
  <1>4. QED BY <1>1, <1>2, <1>3, PTL DEF Throughout, CallGoesOn

\* The newest call goes on until the splash is lifted or less is left to do.
GoesOn == <>~Waits \/ <><<~(Rank' = Rank)>>_vars
Served(c) == Waits /\ calls = c => GoesOn
AllServed == \A c \in Calls : Served(c)

LEMMA CallIsServed == ASSUME NEW c \in Calls PROVE Throughout => Served(c)
  <1> DEFINE W == Waits
             N == calls = c
             A == Starts(c)
             B == Sees(c)
             C == Stops(c)
             R == Reports(c)
             Same == Rank' = Rank
  <1>1. SplashInv /\ W /\ N => A \/ B \/ C \/ R
    BY DEF SplashInv, SplashOfNewest, RefreshInv, TypeOK, WatchStates, Pending, Waits,
       Starts, Sees, Stops, Reports
  <1>2. SplashInv /\ W /\ W' /\ [Next]_vars /\ Same /\ N
           => /\ N' /\ (R => R')
              /\ (A => A' /\ ~StartGivesUp(c))
              /\ (B => B' /\ ~StartReports(c))
              /\ (C => C' /\ ~StopPolls(c))
    BY StageKept
  <1>3. UNCHANGED vars
           => (N => N') /\ (A => A') /\ (B => B') /\ (C => C') /\ (R => R')
    BY DEF Starts, Sees, Stops, Reports, vars, processVars
  <1>4. Deliver(c) => ~W'
    BY DEF Waits, Deliver, OnDaemonStarted, OnDaemonStopped, OnDaemonStartFailure, Handled
  <1>5. Throughout => /\ []<>~A \/ []<><<StartGivesUp(c)>>_vars
                      /\ []<>~B \/ []<><<StartReports(c)>>_vars
                      /\ []<>~C \/ []<><<StopPolls(c)>>_vars
                      /\ []<>~R \/ []<><<Deliver(c)>>_vars
    BY FairToCall
  <1>6. GoesOn <=> <>~W \/ <><<~Same>>_vars
    BY PTL DEF GoesOn
  <1> HIDE DEF W, N, A, B, C, R, Same
  <1>7. Throughout => (W /\ N => GoesOn)
    BY <1>1, <1>2, <1>3, <1>4, <1>5, <1>6, PTL DEF Throughout
  <1>8. QED BY <1>7 DEF Served, W, N

\* A natural number that never grows stays as it is in the end: true of every
\* behaviour, as < is well-founded on Nat, which temporal logic alone does not know.
RankSettles ==
    <>[][(Rank \in Nat) /\ (Rank' \in Nat) /\ Rank' <= Rank]_vars => <>[][Rank' = Rank]_vars

\* The splash of a start or a stop goes away under the fairness of the specification,
\* also when the daemon hangs, dies, or is launched anew meanwhile.
THEOREM SplashIsLifted == Spec /\ []GuardsSuffice /\ []Fairness /\ RankSettles => SplashGoes
  <1> DEFINE W == Waits
             Down == (Rank \in Nat) /\ (Rank' \in Nat) /\ Rank' <= Rank
             Same == Rank' = Rank
  <1>1. SplashInv /\ SplashInv' /\ W /\ W' /\ RankFalls => Down
    <2>1. (SplashInv => Rank \in Nat)'
      BY RankTypes, PTL
    <2>2. QED BY <2>1, RankTypes DEF RankFalls
  <1>2. Throughout => AllServed
    BY CallIsServed DEF AllServed
  <1>3. SplashInv /\ AllServed /\ W => GoesOn
    BY DEF SplashInv, SplashOfNewest, AllServed, Served
  <1>4. GoesOn => <>~W \/ <><<~Same>>_vars
    BY PTL DEF GoesOn
  <1>5. RankSettles => (<>[][Down]_vars => <>[][Same]_vars)
    BY PTL DEF RankSettles
  <1> HIDE DEF W, Down, Same
  <1>6. Throughout /\ RankSettles => (W ~> ~W)
    BY <1>1, <1>2, <1>3, <1>4, <1>5, PTL DEF Throughout
  <1>7. TypeOK => (W <=> ~(~splash \/ outcome = "quit"))
    BY DEF W, Waits, TypeOK
  <1>8. QED BY <1>6, <1>7, GoesThroughout, TypeCorrect, PTL DEF SplashGoes
=============================================================================
