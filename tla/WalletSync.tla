------------------------------ MODULE WalletSync ------------------------------
(***************************************************************************)
(* Heights, refreshes and the history of one open wallet: the background   *)
(* refresh thread, the two cached daemon heights it shares with the GUI    *)
(* thread, the signals it queues for that thread, and what main.qml makes  *)
(* of them.  Ages are counted in ticks, and a tick is longer than a call.  *)
(***************************************************************************)
EXTENDS Naturals, Sequences

CONSTANTS
    MaxHeight,    \* bound on the block heights
    MaxSignals,   \* bound on the signals waiting when the thread goes on
    HeightTtl,    \* DAEMON_BLOCKCHAIN_HEIGHT_CACHE_TTL_SECONDS
    TargetTtl     \* DAEMON_BLOCKCHAIN_TARGET_HEIGHT_CACHE_TTL_SECONDS

ASSUME SyncAssumption ==
    /\ MaxHeight \in Nat \ {0}
    /\ MaxSignals \in Nat
    /\ HeightTtl \in Nat /\ TargetTtl \in Nat

VARIABLES
    net,          \* height of the network
    dh,           \* height of the daemon
    up,           \* the daemon can be reached
    said,         \* said[k]: least height of the network the daemon told k ticks ago
    h, hAge,      \* m_daemonBlockChainHeight and the ticks on its timer
    t, tAge,      \* m_daemonBlockChainTargetHeight and the ticks on its timer
    wh,           \* height of the wallet
    thread,       \* where the refresh thread is
    gui,          \* where the GUI thread is in onWalletRefresh, or "caught": it waits for itself
    signals,      \* signals queued for the GUI thread
    init,         \* how far initAsync and the first check of the connection are
    walletInitialized, daemonSynced, foundNewBlock, isNewWallet,   \* of main.qml
    shown         \* wallet height at which the history was last rebuilt

daemonVars == <<net, dh, up>>
cacheVars == <<h, hAge, t, tAge>>
mainVars == <<walletInitialized, daemonSynced, foundNewBlock, isNewWallet, shown>>
vars == <<daemonVars, said, cacheVars, wh, thread, gui, signals, init, mainVars>>

Signals == {"newBlock", "money", "refreshed", "status", "history"}
Heights == 0 .. MaxHeight

TypeOK ==
    /\ net \in 1 .. MaxHeight /\ dh \in 1 .. net /\ up \in BOOLEAN
    /\ said \in [0 .. TargetTtl -> Heights]
    /\ h \in Heights /\ hAge \in 0 .. HeightTtl + 1
    /\ t \in Heights /\ tAge \in 0 .. TargetTtl + 1
    /\ wh \in 1 .. MaxHeight
    /\ thread \in {"idle", "running", "raising"}
    /\ gui \in {"idle", "raising", "deciding", "caught"}
    /\ signals \in Seq(Signals)
    /\ init \in {"running", "asked", "answered"}
    /\ walletInitialized \in BOOLEAN /\ daemonSynced \in BOOLEAN
    /\ foundNewBlock \in BOOLEAN /\ isNewWallet \in BOOLEAN
    /\ shown \in Heights

-----------------------------------------------------------------------------
(* The daemon, and time.                                                    *)

\* What the library answers: 0 for a daemon out of reach, and a target of 0
\* when the daemon is synced.
RawHeight == IF up THEN dh ELSE 0
RawTarget == IF up /\ dh < net THEN net ELSE 0
SaysNow == IF up THEN net ELSE 0

DaemonStep ==
    /\ \/ net < MaxHeight /\ net' = net + 1 /\ UNCHANGED <<dh, up>>
       \/ dh < net /\ dh' = dh + 1 /\ UNCHANGED <<net, up>>
       \/ up' = ~up /\ UNCHANGED <<net, dh>>
    /\ said' = [said EXCEPT ![0] = IF SaysNow' < said[0] THEN SaysNow' ELSE said[0]]
    /\ UNCHANGED <<cacheVars, wh, thread, gui, signals, init, mainVars>>

Older(age, ttl) == IF age > ttl THEN age ELSE age + 1

Tick ==
    /\ thread # "raising" /\ gui \in {"idle", "caught"}
    /\ hAge' = Older(hAge, HeightTtl)
    /\ tAge' = Older(tAge, TargetTtl)
    /\ said' = [k \in 0 .. TargetTtl |-> IF k = 0 THEN SaysNow ELSE said[k - 1]]
    /\ UNCHANGED <<daemonVars, h, t, wh, thread, gui, signals, init, mainVars>>

-----------------------------------------------------------------------------
(* Wallet::daemonBlockChainHeight and Wallet::daemonBlockChainTargetHeight. *)
(* The second is called by both threads without a lock: it asks the daemon  *)
(* and writes the answer, then raises it and restarts the timer.            *)

\* Mutant of DaemonBlockChainHeight: the height is kept once there is one.
HeightKept == IF h = 0 THEN h' = RawHeight /\ hAge' = 0 ELSE UNCHANGED <<h, hAge>>

DaemonBlockChainHeight ==
    IF h = 0 \/ hAge > HeightTtl
    THEN h' = RawHeight /\ hAge' = 0
    ELSE UNCHANGED <<h, hAge>>

\* Mutant of TargetStale: a target is kept once there is one.
TargetKept == t <= 1
TargetStale == t <= 1 \/ tAge > TargetTtl

AskTarget == TargetStale /\ t' = RawTarget /\ UNCHANGED tAge
KeepTarget == ~TargetStale /\ UNCHANGED <<t, tAge>>

Raised(target) == IF target < h THEN h ELSE target
RaiseTarget == t' = Raised(t) /\ tAge' = 0

-----------------------------------------------------------------------------
(* The refresh thread of the library, and the listener it calls.            *)

Room == Len(signals) < MaxSignals
Emit(s) == signals' = Append(signals, s)

RefreshStarts ==
    /\ thread = "idle" /\ gui # "caught"
    /\ init # "running" /\ Room
    /\ thread' = "running"
    /\ UNCHANGED <<daemonVars, said, cacheVars, wh, gui, signals, init, mainVars>>

\* A block is scanned; the listener reads the target for the signal's argument.
NewBlock ==
    /\ thread = "running" /\ Room
    /\ up /\ wh < dh
    /\ wh' = wh + 1
    /\ \/ AskTarget /\ thread' = "raising" /\ UNCHANGED signals
       \/ KeepTarget /\ UNCHANGED thread /\ Emit("newBlock")
    /\ UNCHANGED <<daemonVars, said, h, hAge, gui, init, mainVars>>

TargetRaised ==
    /\ thread = "raising"
    /\ RaiseTarget
    /\ thread' = "running"
    /\ Emit("newBlock")
    /\ UNCHANGED <<daemonVars, said, h, hAge, wh, gui, init, mainVars>>

\* moneyReceived or moneySpent
Money ==
    /\ thread = "running" /\ Room
    /\ Emit("money")
    /\ UNCHANGED <<daemonVars, said, cacheVars, wh, thread, gui, init, mainVars>>

\* All blocks are scanned, or the daemon fails: the listener is told in any case.
RefreshEnds ==
    /\ thread = "running"
    /\ thread' = "idle"
    /\ Emit("refreshed")
    /\ UNCHANGED <<daemonVars, said, cacheVars, wh, gui, init, mainVars>>

\* initAsync is done: connected(true) asks for the status, and the refresh thread is
\* started; the first answer is told in any case.
InitDone ==
    /\ init = "running"
    /\ init' = "asked"
    /\ UNCHANGED <<daemonVars, said, cacheVars, wh, thread, gui, signals, mainVars>>

StatusAnswered ==
    /\ init = "asked"
    /\ init' = "answered"
    /\ Emit("status")
    /\ UNCHANGED <<daemonVars, said, cacheVars, wh, thread, gui, mainVars>>

-----------------------------------------------------------------------------
(* The GUI thread: the signals in their order.                              *)

Handles(s) == gui = "idle" /\ signals # <<>> /\ Head(signals) = s
Outside == UNCHANGED <<daemonVars, said, thread, init>>

\* Mutant of OnStatus: the history is left for the first refresh.
OnStatusOnly ==
    /\ Handles("status")
    /\ signals' = Tail(signals)
    /\ walletInitialized' = TRUE
    /\ Outside
    /\ UNCHANGED <<cacheVars, wh, gui, daemonSynced, foundNewBlock, isNewWallet, shown>>

\* onWalletConnectionStatusChanged: the first status builds the history.
OnStatus ==
    /\ Handles("status")
    /\ signals' = Tail(signals)
    /\ walletInitialized' = TRUE
    /\ shown' = IF walletInitialized THEN shown ELSE wh
    /\ Outside
    /\ UNCHANGED <<cacheVars, wh, gui, daemonSynced, foundNewBlock, isNewWallet>>

\* onWalletNewBlock
OnNewBlock ==
    /\ Handles("newBlock")
    /\ signals' = Tail(signals)
    /\ foundNewBlock' = TRUE
    /\ Outside
    /\ UNCHANGED <<cacheVars, wh, gui, walletInitialized, daemonSynced, isNewWallet, shown>>

\* The listener on the GUI thread, for blocks up to new: onWalletNewBlock runs at once,
\* for a target that nobody else renews meanwhile.
GuiScans(new) ==
    /\ new <= RawHeight \/ new = wh
    /\ wh' = new
    /\ IF new > wh /\ TargetStale
       THEN t' = Raised(RawTarget) /\ tAge' = 0
       ELSE UNCHANGED <<t, tAge>>
    /\ foundNewBlock' = (foundNewBlock \/ new > wh)

\* onWalletMoneyReceived, onWalletMoneySent: refresh() waits for the thread's refresh
\* and scans on the GUI thread, after which its refreshed() is handled and the history
\* is rebuilt.  If it finds money itself, the handler runs inside it and calls refresh()
\* again, which waits for the one it was called from.
OnMoney ==
    /\ Handles("money")
    /\ thread = "idle"
    /\ \E new \in wh .. MaxHeight : GuiScans(new)
    /\ \/ gui' = gui /\ signals' = <<"refreshed", "history">> \o Tail(signals)
       \/ gui' = "caught" /\ UNCHANGED signals
    /\ Outside
    /\ UNCHANGED <<h, hAge, walletInitialized, daemonSynced, isNewWallet, shown>>

OnHistory ==
    /\ Handles("history")
    /\ signals' = Tail(signals)
    /\ shown' = wh
    /\ Outside
    /\ UNCHANGED <<cacheVars, wh, gui, walletInitialized, daemonSynced, foundNewBlock, isNewWallet>>

\* onWalletRefresh: both heights ...
OnRefreshed ==
    /\ Handles("refreshed")
    /\ DaemonBlockChainHeight
    /\ \/ AskTarget /\ gui' = "raising"
       \/ KeepTarget /\ gui' = "deciding"
    /\ Outside
    /\ UNCHANGED <<wh, signals, mainVars>>

GuiRaises ==
    /\ gui = "raising"
    /\ RaiseTarget
    /\ gui' = "deciding"
    /\ Outside
    /\ UNCHANGED <<h, hAge, wh, signals, mainVars>>

\* Mutant of RefreshHandled: onWalletUpdate takes the flag down and waits for the
\* next block to rebuild the history.
RefreshHandledLate ==
    /\ gui = "deciding"
    /\ daemonSynced' = (h >= t /\ t # 1)
    /\ isNewWallet' = (isNewWallet /\ wh <= 1)
    /\ shown' = IF isNewWallet /\ wh > 1 THEN wh ELSE shown
    /\ foundNewBlock' = FALSE
    /\ signals' = Tail(signals)
    /\ gui' = "idle"
    /\ Outside
    /\ UNCHANGED <<cacheVars, wh, walletInitialized>>

\* ... and what follows from them: the daemon is taken for synced or not, the first
\* refresh of a new wallet rebuilds the history, and so does onWalletUpdate when a
\* block was found.
RefreshHandled ==
    /\ gui = "deciding"
    /\ daemonSynced' = (h >= t /\ t # 1)
    /\ isNewWallet' = (isNewWallet /\ wh <= 1)
    /\ shown' = IF (isNewWallet /\ wh > 1) \/ foundNewBlock THEN wh ELSE shown
    /\ foundNewBlock' = FALSE
    /\ signals' = Tail(signals)
    /\ gui' = "idle"
    /\ Outside
    /\ UNCHANGED <<cacheVars, wh, walletInitialized>>

-----------------------------------------------------------------------------
Init ==
    /\ net \in 1 .. MaxHeight /\ dh \in 1 .. net /\ up \in BOOLEAN
    /\ said = [k \in 0 .. TargetTtl |-> SaysNow]
    /\ h = 0 /\ hAge = 0 /\ t = 0 /\ tAge = 0
    /\ wh \in 1 .. dh
    /\ thread = "idle" /\ gui = "idle" /\ signals = <<>> /\ init = "running"
    /\ walletInitialized = FALSE /\ daemonSynced = FALSE
    /\ foundNewBlock = FALSE /\ isNewWallet \in BOOLEAN
    /\ shown = 0

Thread == RefreshStarts \/ NewBlock \/ TargetRaised \/ Money \/ RefreshEnds
Gui == OnStatus \/ OnNewBlock \/ OnMoney \/ OnHistory \/ OnRefreshed \/ GuiRaises \/ RefreshHandled

Next == DaemonStep \/ Tick \/ InitDone \/ StatusAnswered \/ Thread \/ Gui

Spec == Init /\ [][Next]_vars

\* Time passes whenever the threads let it, the library refreshes again and again,
\* the event loop of the GUI thread turns, and a refresh() that waits for one of the
\* thread's, which sleeps between two of them, gets its turn.
Fairness ==
    /\ SF_vars(Tick)
    /\ WF_vars(InitDone) /\ WF_vars(StatusAnswered)
    /\ WF_vars(RefreshStarts) /\ WF_vars(TargetRaised) /\ SF_vars(RefreshEnds)
    /\ WF_vars(Gui) /\ SF_vars(OnMoney)

FairSpec == Spec /\ Fairness

-----------------------------------------------------------------------------
\* The daemon is taken for synced only if it has, by now, the height of the network
\* as it told it at most one lifetime of the target's cache ago, although the other
\* thread may be renewing the target at that moment, and the height that a target of
\* 0 is raised to may be much older.
SyncedIsRecent ==
    [][daemonSynced' /\ ~daemonSynced =>
          \E k \in 0 .. TargetTtl : dh >= said[k]]_vars

\* A refresh will be handled after the first i signals.
RefreshAfter(i) ==
    thread # "idle" \/ \E j \in i + 1 .. Len(signals) : signals[j] = "refreshed"

\* The GUI thread waits in refresh() for a refresh() of its own, for ever.
Caught == gui = "caught"

\* A history that lacks blocks the wallet has scanned will be rebuilt: the flag is up,
\* or a block on its way will raise it, before the next refresh is handled.
HistoryLagIsNoted ==
    ~Caught /\ walletInitialized /\ shown < wh =>
        \/ thread = "raising"
        \/ foundNewBlock /\ RefreshAfter(0)
        \/ \E i \in 1 .. Len(signals) :
              signals[i] = "history" \/ (signals[i] = "newBlock" /\ RefreshAfter(i))

\* The history shows every block scanned, again and again, unless the GUI thread is
\* caught: money found by its own refresh() would do that, money found by the refresh
\* thread never does.
HistoryCatchesUp == []<>(shown = wh \/ Caught)

\* A daemon that stays synced and in reach is taken for synced in the end, unless the
\* GUI thread is caught.
SyncedInTheEnd == <>[](up /\ dh = net /\ net > 1) => <>[](daemonSynced \/ Caught)
=============================================================================
