------------------------------ MODULE VpnSession ------------------------------
(***************************************************************************)
(* A session with a VPN or proxy provider: the dashboard of                *)
(* IntenseDashboard.qml with its one-second timer and its automatic        *)
(* payments, the connect request of Intense.qml, the local client          *)
(* processes (Haproxy.cpp, lthnvpnc.cpp) and their asynchronous reports,   *)
(* and the settings from which a restarted wallet resumes the session.     *)
(*                                                                         *)
(* The GUI thread runs one handler at a time.  timer() is split at its     *)
(* message loop and at its renewal check; pc says where it is, and no      *)
(* other handler runs before it is back at "idle".  Time is counted in     *)
(* units in which the prepaid periods are whole numbers.  Payment ids and  *)
(* amounts are left out: every payment buys the time timeLeft grows by.    *)
(***************************************************************************)
EXTENDS Integers, Sequences

CONSTANTS
    Offers,       \* the sets of kinds of provider a user may have to choose from
    First,        \* firstPrePaidMinutes
    Subsequent,   \* subsequentPrePaidMinutes
    Margin,       \* payTimer + subsequentVerificationsNeeded periods
    MaxTime,      \* bound on the now
    MaxLines,     \* bound on the lines lthnvpnc logs
    MaxRestarts   \* bound on restarts of the wallet

Kinds == {"proxy", "vpn"}

ASSUME SessionAssumption ==
    /\ Offers \subseteq SUBSET Kinds
    /\ First \in Nat \ {0}
    /\ Subsequent \in Nat \ {0}
    /\ Margin \in Nat
    /\ MaxTime \in Nat
    /\ MaxLines \in Nat
    /\ MaxRestarts \in Nat

VARIABLES
    now,
    offered,               \* the kinds of provider in the list of services
    wallet,                \* currentWallet is there
    \* persistentSettings
    timeLeft,              \* haproxyTimeLeft, the time paid for; Undefined on a new installation
    start,                 \* haproxyStart
    autoRenew,             \* haproxyAutoRenew
    objTimeLeft, flagTimeLeft, firstPaymentTimeLeft,
    \* the dashboard
    obj,                   \* the kind of provider, "none" when undefined
    flag,                  \* 0 for disconnected, 1 for connected
    firstPayment,          \* 1 until the first payment is asked for
    callProxy,             \* 1 until the proxy was started for the first payment
    proxyStats,            \* the traffic of the proxy is asked for
    loader,                \* backgroundLoader.visible
    timerRunning,          \* timerHaproxy.running
    pc,                    \* where timer() is
    \* the clients
    haproxy, lthnvpnc,     \* the processes run
    m_haproxyStatus,
    m_statusMsg,           \* log lines of lthnvpnc not yet read
    lines,                 \* lines logged so far
    \* under way
    verifying,             \* checks were started; one may still answer
    stats,                 \* the request of getHaproxyStats is not answered
    connecting,            \* the dashboard's request to connect is not answered
    paying,                \* an automatic payment is being constructed
    \* history
    restarts,
    firsts,                \* first payments asked for since the last connect
    refused                \* since the last connect: "no" VPN error, "yes", or "paid" after it

world == <<now, restarts, offered, wallet>>
log == <<m_statusMsg, lines>>
settings == <<timeLeft, start, objTimeLeft, flagTimeLeft, firstPaymentTimeLeft>>
page == <<flag, loader, timerRunning>>
session == <<obj, firstPayment, callProxy>>
proxyVars == <<haproxy, m_haproxyStatus>>
requests == <<verifying, stats, connecting, paying>>
history == <<firsts, refused>>
vars == <<world, settings, autoRenew, page, session, proxyStats, pc, proxyVars, lthnvpnc, log,
          requests, history>>

Undefined == -1
NoStatus == ""
Answers == {"OK", "NO_PAYMENT", "READY", "CONNECTION_ERROR", "other"}
Messages == {"NEED_PAYMENT", "ERROR", "CONNECTED"}
Launches == {"started", "failed", "silent"}

TypeOK ==
    /\ now \in 0 .. MaxTime
    /\ offered \in Offers
    /\ wallet \in BOOLEAN
    /\ timeLeft \in Int /\ start \in Int
    /\ autoRenew \in BOOLEAN
    /\ objTimeLeft \in Kinds \cup {"none"} /\ obj \in Kinds \cup {"none"}
    /\ flagTimeLeft \in 0 .. 1 /\ firstPaymentTimeLeft \in 0 .. 1
    /\ flag \in 0 .. 1 /\ firstPayment \in 0 .. 1 /\ callProxy \in 0 .. 1
    /\ proxyStats \in BOOLEAN /\ loader \in BOOLEAN /\ timerRunning \in BOOLEAN
    /\ pc \in {"idle", "reading", "renewing"}
    /\ haproxy \in BOOLEAN /\ lthnvpnc \in BOOLEAN
    /\ m_haproxyStatus \in Answers \cup {NoStatus}
    /\ m_statusMsg \in Seq(Messages)
    /\ lines \in 0 .. MaxLines
    /\ restarts \in 0 .. MaxRestarts
    /\ verifying \in BOOLEAN /\ stats \in BOOLEAN /\ connecting \in BOOLEAN /\ paying \in BOOLEAN
    /\ firsts \in Nat
    /\ refused \in {"no", "yes", "paid"}

-----------------------------------------------------------------------------
(* Pieces of the handlers. *)

\* Mutant: the timer is started here and never stopped.
ChangeStatusOnlyStarts(f) ==
    /\ flag' = f
    /\ timerRunning' = (timerRunning \/ f = 1)
    /\ loader' = (f = 1)

\* flag = f; changeStatus()
ChangeStatus(f) ==
    /\ flag' = f
    /\ timerRunning' = (f = 1)
    /\ loader' = (f = 1)

KillHAproxy ==
    /\ haproxy' = FALSE
    /\ m_haproxyStatus' = NoStatus

\* lthnvpnc.killLthnvpnc() ends the process; the lines it logged stay queued.
CloseProxyClient ==
    \/ obj = "vpn" /\ lthnvpnc' = FALSE /\ UNCHANGED proxyVars
    \/ obj = "proxy" /\ KillHAproxy /\ UNCHANGED lthnvpnc

\* callhaproxy.haproxy(...): some failures leave a message in the status.
StatusAfter(launch) == IF launch = "failed" THEN "other" ELSE m_haproxyStatus
UpAfter(launch) == haproxy \/ launch = "started"

\* The session counts from its first payment.
Begun == IF firstPayment = 1 THEN now ELSE start

\* setPayment: the amount is wrong or exceeds the balance
PaymentRefused ==
    /\ ChangeStatus(0)
    /\ CloseProxyClient
    /\ firstPaymentTimeLeft' = firstPayment
    /\ UNCHANGED <<firstPayment, callProxy, paying, history>>

\* Mutant: firstPayment is persisted before it is cleared.
AskPaymentPersistsEarly ==
    /\ firstPayment' = 0
    /\ firstPaymentTimeLeft' = firstPayment
    /\ paying' = TRUE
    /\ firsts' = firsts + firstPayment
    /\ refused' = IF refused = "yes" THEN "paid" ELSE refused

\* firstPayment = 0, persisted; paymentAutoClicked(...)
AskPayment ==
    /\ firstPayment' = 0
    /\ firstPaymentTimeLeft' = 0
    /\ paying' = TRUE
    /\ firsts' = firsts + firstPayment
    /\ refused' = IF refused = "yes" THEN "paid" ELSE refused

AskNothing ==
    /\ firstPaymentTimeLeft' = firstPayment
    /\ UNCHANGED <<firstPayment, paying, history>>

\* setPayment for a VPN
PayVpn ==
    /\ AskPayment
    /\ callProxy' = 0
    /\ IF callProxy = 1 THEN ChangeStatus(flag) ELSE UNCHANGED page
    /\ UNCHANGED <<proxyVars, lthnvpnc>>

\* setPayment for a proxy: start it the first time; then its status decides.
PayProxy ==
    \E launch \in IF callProxy = 1 THEN Launches ELSE {"silent"} :
        LET st == StatusAfter(launch)
            started == callProxy = 1 => launch = "started"
        IN  /\ callProxy' = 0
            /\ IF st \in {"OK", "NO_PAYMENT"} THEN AskPayment ELSE AskNothing
            /\ IF st \in {"OK", "NO_PAYMENT", "READY"}
               THEN /\ haproxy' = UpAfter(launch) /\ m_haproxyStatus' = st
                    /\ IF callProxy = 1
                       THEN ChangeStatus(IF started THEN flag ELSE 0)
                       ELSE UNCHANGED page
               ELSE KillHAproxy /\ ChangeStatus(0)
            /\ UNCHANGED lthnvpnc

\* Time is added and persisted before anything else is looked at.
Prepay ==
    /\ LET until == IF firstPayment = 1 THEN now + First ELSE timeLeft + Subsequent
       IN  /\ start' = Begun
           /\ timeLeft' = IF until - Begun <= Margin THEN until + Subsequent ELSE until
    /\ objTimeLeft' = obj
    /\ flagTimeLeft' = flag

\* Every way to pay reads the balance of the wallet.
SetPayment ==
    /\ Prepay
    /\ \/ PaymentRefused
       \/ wallet /\ obj = "vpn" /\ PayVpn
       \/ wallet /\ obj = "proxy" /\ PayProxy

\* Without a wallet that throws, and ends the handler setPayment was called from.
SetPaymentThrows ==
    /\ ~wallet
    /\ Prepay
    /\ AskNothing
    /\ UNCHANGED <<page, callProxy, proxyVars, lthnvpnc>>

\* reportActivityToReach names the wallet, for a user who reports, or throws.
Reported(next) ==
    \/ pc' = next
    \/ ~wallet /\ pc' = "idle"

\* timerHaproxy after timer(): getHaproxyStats, every tenth second
AskStats ==
    stats' \in IF obj = "proxy" /\ proxyStats THEN {stats, TRUE} ELSE {stats}

-----------------------------------------------------------------------------
(* timer() *)

TimerOfVpn ==
    /\ obj = "vpn"
    /\ pc' = "reading"
    /\ start' = Begun
    /\ UNCHANGED <<world, timeLeft, objTimeLeft, flagTimeLeft, firstPaymentTimeLeft, autoRenew,
                   page, session, proxyStats, proxyVars, lthnvpnc, requests, history>>

\* A check is started every second until the first payment, less often after it.
StartVerify == verifying' \in IF firstPayment = 1 THEN {TRUE} ELSE {verifying, TRUE}

StatusOK ==
    /\ m_haproxyStatus = "OK"
    /\ loader' = FALSE
    /\ proxyStats' = TRUE
    /\ Reported("renewing")
    /\ start' = Begun
    /\ UNCHANGED <<timeLeft, objTimeLeft, flagTimeLeft, firstPaymentTimeLeft, flag, timerRunning,
                   session, proxyVars, lthnvpnc, stats, paying, history>>

StatusConnectionError ==
    /\ m_haproxyStatus = "CONNECTION_ERROR"
    /\ KillHAproxy
    /\ ChangeStatus(0)
    /\ AskStats
    /\ pc' = "idle"
    /\ start' = Begun
    /\ UNCHANGED <<timeLeft, objTimeLeft, flagTimeLeft, firstPaymentTimeLeft, session,
                   proxyStats, lthnvpnc, paying, history>>

StatusToPay ==
    /\ m_haproxyStatus \in {"NO_PAYMENT", "READY"}
    /\ firstPayment = 1
    /\ \/ SetPayment /\ pc' = "renewing"
       \/ SetPaymentThrows /\ pc' = "idle"
    /\ UNCHANGED <<obj, proxyStats, stats>>

StatusIgnored ==
    /\ \/ m_haproxyStatus \in {NoStatus, "other"}
       \/ m_haproxyStatus \in {"NO_PAYMENT", "READY"} /\ firstPayment = 0
    /\ pc' = "renewing"
    /\ start' = Begun
    /\ UNCHANGED <<timeLeft, objTimeLeft, flagTimeLeft, firstPaymentTimeLeft, page, session,
                   proxyStats, proxyVars, lthnvpnc, stats, paying, history>>

TimerOfProxy ==
    /\ obj = "proxy"
    /\ StartVerify
    /\ StatusOK \/ StatusConnectionError \/ StatusToPay \/ StatusIgnored

Timer ==
    /\ pc = "idle"
    /\ timerRunning
    /\ TimerOfVpn \/ TimerOfProxy
    /\ UNCHANGED <<world, autoRenew, connecting, log>>

\* NEED_PAYMENT.  Without a time left setPayment throws and timer() ends there.
NeedPayment ==
    /\ Head(m_statusMsg) = "NEED_PAYMENT"
    /\ \/ /\ firstPayment = 0 /\ timeLeft = Undefined
          /\ pc' = "idle"
          /\ UNCHANGED <<settings, page, firstPayment, callProxy, proxyVars, lthnvpnc, paying,
                         history>>
       \/ /\ firstPayment = 1 \/ timeLeft # Undefined
          /\ \/ SetPayment /\ UNCHANGED pc
             \/ SetPaymentThrows /\ pc' = "idle"
    /\ UNCHANGED proxyStats

\* ERROR: "do not send payment", showVpnError
VpnError ==
    /\ Head(m_statusMsg) = "ERROR"
    /\ firstPayment' = 0
    /\ ChangeStatus(0)
    /\ refused' = IF refused = "no" THEN "yes" ELSE refused
    /\ UNCHANGED <<settings, callProxy, proxyStats, pc, proxyVars, lthnvpnc, paying, firsts>>

\* Connected: updateUiForSuccessfulConnection
VpnConnected ==
    /\ Head(m_statusMsg) = "CONNECTED"
    /\ loader' = FALSE
    /\ proxyStats' = TRUE
    /\ Reported(pc)
    /\ UNCHANGED <<settings, flag, timerRunning, firstPayment, callProxy, proxyVars, lthnvpnc,
                   paying, history>>

ReadMessage ==
    /\ pc = "reading"
    /\ m_statusMsg # <<>>
    /\ m_statusMsg' = Tail(m_statusMsg)
    /\ NeedPayment \/ VpnError \/ VpnConnected
    /\ UNCHANGED <<world, autoRenew, obj, lines, verifying, stats, connecting>>

MessagesRead ==
    /\ pc = "reading"
    /\ m_statusMsg = <<>>
    /\ pc' = "renewing"
    /\ UNCHANGED <<world, settings, autoRenew, page, session, proxyStats, proxyVars, lthnvpnc,
                   log, requests, history>>

\* Mutant: the margin is added to the time left.
RenewalDueEarly ==
    /\ now + Margin + 1 >= timeLeft - Margin
    /\ autoRenew
    /\ firstPayment = 0

RenewalDue ==
    /\ now >= timeLeft - Margin
    /\ autoRenew
    /\ firstPayment = 0

Expired ==
    /\ timeLeft < now
    /\ ~autoRenew
    /\ firstPayment = 0

KeepSession ==
    /\ timeLeft # Undefined => ~RenewalDue /\ ~Expired
    /\ IF timeLeft = Undefined THEN UNCHANGED stats ELSE AskStats
    /\ UNCHANGED <<settings, page, firstPayment, callProxy, proxyVars, lthnvpnc, paying,
                   history>>

RenewSession ==
    /\ timeLeft # Undefined /\ RenewalDue
    /\ \/ SetPayment /\ AskStats
       \/ SetPaymentThrows /\ UNCHANGED stats

\* Mutant: the client is closed without changeStatus().
EndSessionSilently ==
    /\ timeLeft # Undefined /\ Expired
    /\ CloseProxyClient
    /\ AskStats
    /\ UNCHANGED <<settings, page, firstPayment, callProxy, paying, history>>

EndSession ==
    /\ timeLeft # Undefined /\ Expired
    /\ ChangeStatus(0)
    /\ CloseProxyClient
    /\ AskStats
    /\ UNCHANGED <<settings, firstPayment, callProxy, paying, history>>

\* The end of timer(); without a time left it throws.
Renew ==
    /\ pc = "renewing"
    /\ pc' = "idle"
    /\ RenewSession \/ EndSession \/ KeepSession
    /\ UNCHANGED <<world, autoRenew, obj, proxyStats, log, verifying, connecting>>

-----------------------------------------------------------------------------
(* Answers to what is under way. *)

\* A status may arrive after its proxy was killed or replaced.
VerifyAnswered ==
    /\ pc = "idle"
    /\ verifying
    /\ m_haproxyStatus' \in Answers
    /\ UNCHANGED <<world, settings, autoRenew, page, session, proxyStats, pc, haproxy, lthnvpnc,
                   log, requests, history>>

\* The traffic is shown while haproxy answers.
StatsAnswered ==
    /\ pc = "idle"
    /\ stats /\ haproxy
    /\ stats' = FALSE
    /\ UNCHANGED <<world, settings, autoRenew, page, session, proxyStats, pc, proxyVars, lthnvpnc,
                   log, verifying, connecting, paying, history>>

\* No haproxy answers: the session is shown as ended and the proxy is started.
StatsFailed ==
    /\ pc = "idle"
    /\ stats /\ ~haproxy
    /\ stats' = FALSE
    /\ \E launch \in Launches :
        haproxy' = UpAfter(launch) /\ m_haproxyStatus' = StatusAfter(launch)
    /\ ChangeStatus(0)
    /\ UNCHANGED <<world, settings, autoRenew, session, proxyStats, pc, lthnvpnc, log,
                   verifying, connecting, paying, history>>

\* onTransactionAutoCreated: committed, or failed
PaymentCreated ==
    /\ pc = "idle"
    /\ paying
    /\ paying' \in BOOLEAN
    /\ \/ UNCHANGED <<page, proxyVars>>
       \/ ChangeStatus(0) /\ KillHAproxy
    /\ UNCHANGED <<world, settings, autoRenew, session, proxyStats, pc, lthnvpnc, log,
                   verifying, connecting, stats, history>>

-----------------------------------------------------------------------------
(* The user. *)

\* The dashboard asks the server for its provider again.
Reconnect ==
    /\ pc = "idle"
    /\ wallet
    /\ obj # "none" /\ flag = 0
    /\ connecting' = TRUE
    /\ UNCHANGED <<world, settings, autoRenew, page, session, proxyStats, pc, proxyVars, lthnvpnc,
                   log, verifying, stats, paying, history>>

\* The server answered the dashboard, or the list of providers, where the user
\* may choose any of them at any time, whatever runs or was asked.  Whether
\* lthnvpnc could be launched is not looked at.
Connect ==
    /\ pc = "idle"
    /\ obj' \in offered
    /\ connecting' \in IF obj' = obj THEN {connecting, FALSE} ELSE {connecting}
    /\ IF obj' = "vpn"
       THEN start' = now /\ lthnvpnc' \in BOOLEAN
       ELSE UNCHANGED <<start, lthnvpnc>>
    /\ IF m_haproxyStatus # NoStatus THEN KillHAproxy ELSE UNCHANGED proxyVars
    /\ firstPayment' = 1
    /\ callProxy' = 1
    /\ autoRenew' \in BOOLEAN
    /\ ChangeStatus(1)
    /\ firsts' = 0 /\ refused' = "no"
    /\ UNCHANGED <<world, timeLeft, objTimeLeft, flagTimeLeft, firstPaymentTimeLeft, proxyStats,
                   pc, log, verifying, stats, paying>>

\* The dashboard's request was not answered well.
ConnectFailed ==
    /\ pc = "idle"
    /\ connecting
    /\ connecting' = FALSE
    /\ ChangeStatus(0)
    /\ UNCHANGED <<world, settings, autoRenew, session, proxyStats, pc, proxyVars, lthnvpnc, log,
                   verifying, stats, paying, history>>

\* "Disconnect", or "Cancel" on the page that covers the dashboard while it waits
Disconnect ==
    /\ pc = "idle"
    /\ flag = 1
    /\ ChangeStatus(0)
    /\ CloseProxyClient
    /\ timeLeft' = now
    /\ UNCHANGED <<world, start, objTimeLeft, flagTimeLeft, firstPaymentTimeLeft, autoRenew,
                   session, proxyStats, pc, log, requests, history>>

SwitchAutoRenew ==
    /\ pc = "idle"
    /\ obj # "none"
    /\ autoRenew' = ~autoRenew
    /\ UNCHANGED <<world, settings, page, session, proxyStats, pc, proxyVars, lthnvpnc, log,
                   requests, history>>

\* The settings page or a change of daemon closes the wallet, whose signals are
\* disconnected; the dashboard and its timer go on.  ~Wallet ends the clients here
\* or, with closeWalletAsync, later (ClientDies), through a Haproxy of its own.
CloseWallet ==
    /\ pc = "idle"
    /\ wallet
    /\ wallet' = FALSE
    /\ paying' = FALSE
    /\ \/ haproxy' = FALSE /\ lthnvpnc' = FALSE
       \/ UNCHANGED <<haproxy, lthnvpnc>>
    /\ UNCHANGED <<now, restarts, offered, settings, autoRenew, page, session, proxyStats, pc,
                   m_haproxyStatus, log, verifying, stats, connecting, history>>

\* connectWallet
OpenWallet ==
    /\ pc = "idle"
    /\ ~wallet
    /\ wallet' = TRUE
    /\ UNCHANGED <<now, restarts, offered, settings, autoRenew, page, session, proxyStats, pc,
                   proxyVars, lthnvpnc, log, requests, history>>

\* onPageCompleted of a restarted wallet with time left
Resume ==
    /\ pc = "idle"
    /\ wallet
    /\ obj = "none"
    /\ timeLeft > now
    /\ obj' = objTimeLeft
    /\ firstPayment' = firstPaymentTimeLeft
    /\ \E launch \in Launches :
        /\ IF objTimeLeft = "proxy"
           THEN /\ haproxy' = UpAfter(launch) /\ m_haproxyStatus' = StatusAfter(launch)
                /\ UNCHANGED lthnvpnc
           ELSE lthnvpnc' = (launch = "started") /\ UNCHANGED proxyVars
        /\ ChangeStatus(IF launch = "started" THEN flagTimeLeft ELSE 0)
    /\ UNCHANGED <<world, settings, autoRenew, callProxy, proxyStats, pc, log, requests, history>>

-----------------------------------------------------------------------------
(* The rest of the world. *)

TimePasses ==
    /\ now < MaxTime
    /\ pc = "idle"
    /\ now' = now + 1
    /\ UNCHANGED <<restarts, offered, wallet, settings, autoRenew, page, session, proxyStats, pc,
                   proxyVars, lthnvpnc, log, requests, history>>

\* The log reader hands over a line of lthnvpnc.
LogLine ==
    /\ pc = "idle"
    /\ lthnvpnc
    /\ lines < MaxLines
    /\ lines' = lines + 1
    /\ \E line \in Messages : m_statusMsg' = Append(m_statusMsg, line)
    /\ UNCHANGED <<world, settings, autoRenew, page, session, proxyStats, pc, proxyVars, lthnvpnc,
                   requests, history>>

ClientDies ==
    /\ \/ haproxy' = FALSE /\ UNCHANGED lthnvpnc
       \/ lthnvpnc' = FALSE /\ UNCHANGED haproxy
    /\ UNCHANGED <<world, settings, autoRenew, page, session, proxyStats, pc, m_haproxyStatus, log,
                   requests, history>>

\* The program is closed, which ends the clients (~Wallet), or crashes, which does
\* not; it is started again with what the settings hold, and opens its wallet.
Restart ==
    /\ restarts < MaxRestarts
    /\ restarts' = restarts + 1
    /\ wallet' = TRUE
    /\ \/ haproxy' = FALSE /\ lthnvpnc' = FALSE
       \/ UNCHANGED <<haproxy, lthnvpnc>>
    /\ obj' = "none" /\ firstPayment' = 0 /\ callProxy' = 0
    /\ ChangeStatus(0)
    /\ proxyStats' = FALSE
    /\ pc' = "idle"
    /\ m_haproxyStatus' = NoStatus /\ m_statusMsg' = <<>>
    /\ verifying' = FALSE /\ stats' = FALSE /\ connecting' = FALSE /\ paying' = FALSE
    /\ UNCHANGED <<now, offered, settings, autoRenew, lines, history>>

-----------------------------------------------------------------------------
NewInstallation ==
    /\ timeLeft = Undefined
    /\ objTimeLeft = "none" /\ flagTimeLeft = 0 /\ firstPaymentTimeLeft = 0
    /\ firsts = 0

\* A session was under way when the wallet ended, its first payment made or not.
EarlierSession ==
    /\ timeLeft = First
    /\ objTimeLeft \in offered /\ flagTimeLeft = 1 /\ firstPaymentTimeLeft \in 0 .. 1
    /\ firsts = 1 - firstPaymentTimeLeft

Init ==
    /\ now = 0 /\ start = 0
    /\ offered \in Offers /\ wallet = TRUE
    /\ NewInstallation \/ EarlierSession
    /\ autoRenew = FALSE
    /\ obj = "none" /\ flag = 0 /\ firstPayment = 0 /\ callProxy = 0
    /\ proxyStats = FALSE /\ loader = FALSE /\ timerRunning = FALSE
    /\ pc = "idle"
    /\ haproxy = FALSE /\ lthnvpnc = FALSE /\ m_haproxyStatus = NoStatus
    /\ m_statusMsg = <<>> /\ lines = 0
    /\ verifying = FALSE /\ stats = FALSE /\ connecting = FALSE /\ paying = FALSE
    /\ restarts = 0 /\ refused = "no"

GuiTimer == Timer \/ ReadMessage \/ MessagesRead \/ Renew

Next ==
    \/ GuiTimer
    \/ VerifyAnswered \/ StatsAnswered \/ StatsFailed \/ PaymentCreated
    \/ Reconnect \/ Connect \/ ConnectFailed \/ Disconnect \/ SwitchAutoRenew \/ Resume
    \/ CloseWallet \/ OpenWallet
    \/ TimePasses \/ LogLine \/ ClientDies \/ Restart

Spec == Init /\ [][Next]_vars

-----------------------------------------------------------------------------
\* Whatever ended a session (the user, the provider, a failed payment, a lost
\* proxy, its time), the dashboard's timer, which makes the payments, has
\* stopped, and the page that hides the dashboard while connecting is gone.
TimerFollowsFlag ==
    /\ timerRunning <=> flag = 1
    /\ loader => flag = 1

\* The first payment of a session is asked for once: neither a status that
\* stays NO_PAYMENT nor a restarted wallet that resumes the session repeats it.
FirstPaymentOnce == firsts <= 1

\* However often the timer looks, a session never prepays its proxy further than
\* the renewal margin and one doubled renewal, or the doubled first payment.
PrepaidBounded ==
    (obj = "proxy" /\ firstPayment = 0 /\ timeLeft # Undefined) =>
        \/ timeLeft <= now + First + Subsequent
        \/ timeLeft <= now + Margin + 2 * Subsequent

\* "do not send payment": after lthnvpnc reported an error nothing is paid
\* until the user connects again.
NoPaymentAfterVpnError == refused # "paid"

\* A session without renewal does not outlive the time paid for by more than a
\* tick: no path through timer(), messages and payments included, returns with
\* the time used up and the timer still running.  (Without a wallet timer() may
\* throw before it looks.)
ExpiredSessionEnds ==
    [][pc # "idle" /\ pc' = "idle" /\ wallet => ~(timerRunning' /\ Expired')]_vars
=============================================================================
