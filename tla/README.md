# A formal model of the Lethean wallet GUI

The Lethean GUI is a Qt/QML desktop wallet with a client for paid VPN and proxy
providers built into it. Most of its own logic is glue: QML handlers on one GUI
thread, C++ wrappers that push long calls to `QThreadPool::globalInstance()`
and report back with queued signals, dialogs that share global variables, a
one-second timer that spends money, and settings that outlive the process. Each
handler is simple; what is hard is the order in which they run. These TLA+
modules model that, TLC checks them on small instances, and TLAPS proves them
for every instance: the safety properties outright, the liveness properties from
the fairness of the specification, given that a guard that holds enables its action.

Paths below are those of the repository (`src/libwalletqt/...`, `main.qml`,
...); `PROJECT.json` prefixes them with `src/` and maps every definition to the
lines it stands for.

## 1. The system

### Parts, state, operations

| Part | State it keeps | Operations | Where |
|---|---|---|---|
| Wallet manager | `m_mutex`, `m_currentWallet`; the tasks on the thread pool | create, recover, open, close, each synchronous or `...Async` | `src/libwalletqt/WalletManager.cpp` |
| GUI root | `currentWallet`, `transaction`, `daemonRunning`, `persistentSettings`, the page, the modal dialogs and their callbacks | `initialize`, `connectWallet`, `closeWallet`, `onWalletOpened`, `handlePayment`, ... | `main.qml` |
| Wallet | cached connection status with age and running flag, cached heights, history | `initAsync`, `connected`, `createTransactionAsync`, `commit`, `startRefresh` | `src/libwalletqt/Wallet.cpp`, `PendingTransaction.cpp` |
| VPN dashboard | provider, `flag`, `firstPayment`, `callProxy`, `timerHaproxy`, paid time in the settings | connect, pay, renew, disconnect, resume | `pages/IntenseDashboard.qml`, `pages/Intense.qml` |
| Clients | the processes `haproxy` and `lthnvpnc`, their status, the queue of log lines | launch, kill, status check, log reader | `src/libwalletqt/Haproxy.cpp`, `lthnvpnc.cpp`, `ThreadVerifyHaproxy.cpp`, `lthnvpncLogReaderThread.cpp` |
| Daemon manager | the process `letheand`, `m_app_exit`, watchers on the pool | start, stop, status, command | `src/daemon/DaemonManager.cpp` |
| Wizard | current path and page, `settings` object, `settings.wallet` | create, recover, open, view-only | `wizard/*.qml` |
| History, address book | snapshots of libwallet's lists, filters | refresh, filter, add, delete | `src/libwalletqt/TransactionHistory.cpp`, `AddressBook.cpp`, `src/model/*` |
| QR scanner | queue of frames, timer, scanning thread | enable, add frame, scan, stop | `src/QR-Code-scanner/*` |
| Shell | key filter, clipboard, translations, OpenPGP verification of updates | | `src/main/*`, `src/openpgp/*` |

### How they interact

* **Calls down, signals up.** The GUI calls the wallet manager and the wallet;
  long calls become `QtConcurrent::run` tasks whose `QFutureWatcher::finished`
  lambda runs later on the GUI thread and emits a signal to `main.qml`. Between
  the task's end and the lambda anything may happen.
* **Shared globals.** `currentWallet`, `transaction`, `informationPopup` and its
  `onCloseCallback` are used by all handlers. `paymentClicked` is connected when
  a wallet is attached and disconnected when it is let go.
* **The dashboard** starts the client processes, reads what they report, asks
  `main.qml` for automatic payments and writes the session to
  `persistentSettings`. Closing a `Wallet` kills its clients.
* **The daemon manager** reports to `main.qml`, which pauses and resumes the
  refresh of the wallet and forces a connection check.

### What is hard, and what makes each part correct

| Part | Hard behaviour | It is correct if |
|---|---|---|
| Wallet manager and lifecycle | opens and closes from three places, two of them asynchronous, on one pointer | no wallet object is lost; a signal carries a live wallet; a patient user's GUI and the manager agree; nothing waits for ever |
| Connection status | several checks in flight, finishing in any order, each able to start others | the panel shows the cache; sending needs a connection; the running flag is not leaked; the cache converges to the truth |
| Payment | shared popups and a shared transaction between click and commit, automatic payments in between | only what was confirmed is sent, once; a dialog is about what it will send; the splash goes away |
| VPN session | timer, late answers, dying processes, refused payments, restarts | the timer stops with the session; a session asks for its first payment once; prepayment is bounded; an expired session ends |
| Daemon manager | start and stop watchers overlap, a hanging command blocks the GUI | `daemonRunning` agrees with the last report; a stop does not kill the next daemon |
| Block heights and refresh | two caches renewed by two threads without a lock, signals queued between them, a flag read at the next refresh | the daemon is believed synced on recent knowledge; no scanned block is forgotten by the history |
| QR scanner | a timer, a thread and the GUI share a queue that outlives a scan; connections outlive one too | frames keep their order; a scan fills in one code, for pages that asked; the queue is worked off |
| Wizard | one settings object for all paths, stepping back, files that may fail, restarts | the wallet finished with is the open one; no file is replaced; the next start finds it and scans it from the right height |
| History, address book | lists rebuilt under a table | the table never shows a deleted row |

The full list of hazards, each at its line and with the properties that guard
it or the reason there is none, is in `PROJECT.json`.

## 2. The modules

Each component has a module (state, `Init`, one action per handler, `Next`,
`Spec`, properties), a `MC` module with the values TLC needs, and a `_proofs`
module. Two have an abstract specification beside them, `WalletSlot` and `Ledger`,
of what they promise. Definitions keep the source's names where they can. The *mutants* in the
modules (`...Untested`, `...Keeps`, ...) are plausible slips of the code; each
property is violated by one of them.

The same granularity is used everywhere: **a QML handler is one step**, because
the GUI thread runs it to its end before it takes the next event (a nested event
loop would break this; none of the modelled handlers runs one). A pool task is
split where it takes and releases a lock or reads what it later applies, and the
delivery of its signal is a step of its own.

### WalletLifecycle

`WalletManager.cpp`, `initialize`/`connectWallet`/`closeWallet`/`onWalletOpened`
of `main.qml`, the rescan of `pages/Settings.qml`, the wallet objects of the wizard.

* A `Wallet` is its number of construction; `alive` are those not deleted,
  `current` is `m_currentWallet`. `queue`, `thread` and `events` are the pool's
  queue, what each thread does, and the finished futures whose signal is not
  delivered. `m_mutex` is held exactly by a thread in `Holding`.
* `TakeTask`, `BeginOpen`/`EndOpen`, `BeginClose`/`EndClose` are a task taken,
  its mutex entered and left. A thread that waits for the mutex occupies its
  place in the pool, as in the code. The GUI's synchronous calls take and release
  the mutex in one step.
* `WalletOpened` is `onWalletOpened`: good status, wrong password (dialog at once
  or after a popup, the wallet closed first), or a deleted wallet
  (`OpenedDangling`), where reading freed memory may look like either or crash.
* `currentWallet` of QML reads as null once its object is deleted (`Attached`),
  which is why `closeWallet()` sometimes disconnects nothing.
* User actions: the dialogs, the wizard's create, recover, open and view-only
  paths, *Close wallet*, *Rescan*, and the end of the application. Dialogs are
  application-modal, so they guard what the user can do (`UserCanAct`).
* `habits`, chosen in `Init` from the constant `Users`, is what the user does: `"hurries"`
  (acts while opens and closes are under way), `"rescans"` (rebuilds the wallet cache),
  both, or neither. A user who does not hurry is `Patient`, also one who rescans.
* **`WalletSlot`** is what the manager promises its callers: a slot with at most one
  open wallet, always the one constructed last, and one answer per asynchronous request.
  `WalletLifecycle` implements it with `open <- alive`, `made <- created` and
  `promised <- Pending`, the requests whose handler has not run. Threads, mutex, queue
  and pages disappear; that a wallet is never opened beside another, and no answer is
  lost or given twice, is what remains.
* Bounds: `MaxWallets` objects constructed, `MaxQueue` tasks and signals under way.

### WalletConnection

`connected`, `updateConnectionStatusAsync`, `initAsync` of `Wallet.cpp`, and the
handlers of `main.qml` and `Transfer.qml` that show the status.

* The cache is `m_connectionStatus`, `m_initialized`, `m_connectionStatusRunning`
  and `age`, the three intervals of `m_connectionStatusTime` that `connected()`
  tells apart (up to 5 s, up to 30 s, above). `check` and `init` hold the calls in
  flight: running, then the answer read on the pool, then applied on the GUI thread.
* `CheckFinished` follows the order of the finished lambda: the status is stored,
  the signal's handlers run and may start another check, and only then is the
  running flag cleared. `WalletRefreshed` is `onWalletRefresh`, whose several reads
  of `connected()` start several checks until the first answer. `PageLoaded` is a visit
  to the transfer page, whose `updateStatus` reads `connected()` too.
* The model is about one wallet, but panel and transfer page are as the last one left them:
  nothing disables the page when a wallet is let go (`updateStatus` returns first), and the
  next wallet signals nothing while it is `Disconnected`. `Init` has the page open or not,
  open only under a panel that shows `Connected`, which is what `SendNeedsConnection` leaves.
* `net` is what each daemon would answer (external). Bounds: `Checks` and `Inits`
  slots, `MaxChanges` changes of daemons, reconnections and visits to the transfer page.

### Payment

From a click on *Send*, *Sweep unmixable* or an automatic payment to
`PendingTransaction::commit`, through the dialogs of `main.qml`.

* A transaction is its number; `state` is its object's life, `commits` how often it
  was committed, `decision` the user's last word on it. `transaction` is the QML
  global, `popupTx` the transaction the confirmation popup describes.
* `dialogs` is the stack of visible windows, the last on top: `StandardDialog`,
  `PasswordDialog` and `ProcessingSplash` are application-modal, so only the top one
  can be answered. Constructions complete in any order.
* `onCloseCallback` survives the popup, as the property in `main.qml` does; who
  shows the popup and does not assign it inherits it.
* `allowed`, chosen in `Init` from the constant `Surroundings`, is what else happens:
  automatic payments, payment checks, closing the splash from its title bar.
  `NothingSentUnconfirmedAlone` is about behaviours where it is empty, and each of the
  three breaks it; `DialogIsAboutTransactionAlone` bears payment checks and breaks with
  each of the others. Bound: `MaxTx`.
* **`Ledger`** is what sending money comes to without dialogs: a transaction is asked for,
  built, accepted or not, and sent at most once; one that pays the provider goes out by
  itself. The mapping reads `phase` off the object's life, `accepted` off `decision`
  and `sent` off `commits`; `guarded` is `allowed = {}`, the condition finding 2 shows to
  be needed for "only what was accepted is sent".

### VpnSession

`IntenseDashboard.qml` with `timer()` and `setPayment()`, the connect request of
`Intense.qml`, `Haproxy.cpp`, `lthnvpnc.cpp` and their threads.

* The settings (`timeLeft`, `start`, `objTimeLeft`, `flagTimeLeft`,
  `firstPaymentTimeLeft`, `autoRenew`) survive `Restart`; everything else does not,
  and the client processes do or do not, as the program was closed or crashed.
* `wallet` says whether `currentWallet` is there. `CloseWallet` (*Close wallet*, a change
  of daemon) leaves the dashboard and its timer running, ends the clients through
  `~Wallet` and with them the hearing of a pending payment; `OpenWallet` attaches the next
  one. Meanwhile a handler that reads `currentWallet` throws where it does: `setPayment` after
  it has extended and persisted the time (`Prepay`, `SetPaymentThrows`), which ends
  `timer()` there; the report of a connection (`Reported`); `Reconnect` and `Resume` before they
  do anything. An answer to an earlier request still connects. The model starts with
  the first wallet open: before, the dashboard can do nothing.
* `timer()` is three steps (`Timer`, `ReadMessage`/`MessagesRead`, `Renew`) only to
  keep formulas short: `pc` keeps other handlers of the GUI thread out until it is
  back at `"idle"`. `setPayment()` is `SetPayment`: it extends and persists the
  paid time first, then pays, refuses, or does nothing because of the status; or it is
  `SetPaymentThrows`.
* `Launches` are the outcomes of launching a client: started, failed with a message
  left in the status, failed without. `NeedPayment`, `VpnError`, `VpnConnected` are
  the lines of `lthnvpnc`'s log that `timer()` acts on.
* `getHaproxyStats` (`AskStats`, `StatsAnswered`, `StatsFailed`), the status check
  (`VerifyAnswered`), the dashboard's own request to connect (`Reconnect`,
  `ConnectFailed`) and the payment (`PaymentCreated`) answer at any later time, also
  after the session they belong to.
* `timeLeft` is `Undefined` on a new installation, where arithmetic on it throws
  and ends the handler.
* Bounds: `MaxTime`, `MaxLines` logged, `MaxRestarts`. `Offers` are the sets of kinds
  of provider a user may find; `First`, `Subsequent`, `Margin` the periods.

### DaemonManager

`DaemonManager.cpp`, `startDaemon`, `stopDaemon`, the three handlers and `onClosing`
of `main.qml`, `DaemonManagerDialog.qml`, and what the Settings page does about the
daemon.

* `daemon` is the process `letheand` (external): coming up, up, told to stop and still
  answering, writing out its database, or down. `Running` is what `letheand status`
  reports of it.
* Each call of `start()` or `stop()` has a number; `watch` is its watcher on the pool
  and then its signal, `polls` the stop watcher's counter. Watchers of different calls
  run and report in any order. A start that cannot be launched calls
  `onDaemonStartFailure` within `start()` (`NotLaunched`).
* Handlers that use `currentWallet` throw without one: `onDaemonStartFailure` then ends
  before it has cleared `daemonRunning`, `startDaemon` before it has done anything.
* `countdown` is the dialog's timer and whether its window is visible: closing the
  window does not stop the timer. `splash`, the dialogs and the popup keep the user
  from everything behind them.
* `troubles`, chosen in `Init` from `Worlds`: a splash hidden by someone else, a first
  connection status that arrives during a call, the closed countdown, and daemons that
  end without being told. `OneAtATime` bears deaths and no other trouble,
  `RunningMeansUp` none. Bounds: `MaxCalls`; `KillAfter` is 5 in the code.

### SetupWizard

`wizard/WizardMain.qml` with the create and recover forms, the file dialog, and what
`main.qml` does with the result: `initialize`, the first refresh, closing, restarting.

* `path` and `page` are where the wizard is; `settings` is the one object all its pages
  write, as in the code: `OpenCreateWalletPage` replaces only the wallet and its
  temporary file, `Restart` empties it. Pages 0 to 5 are those of `paths`; page 2 is the
  form of the chosen path.
* A wallet is its number of construction and so is its temporary file; `origin` is how it
  came about (new, or recovered from a height). `kept` is the file under each name a user
  may choose, `saved` says whose file holds what was scanned, `persisted` is
  `persistentSettings`.
* `RecoverySucceeds`, `RecoveryFails` and `RecoveryNameTaken` are the three ends of the
  recovery form's `onPageClosed`; a failed recovery leaves no wallet open, because the
  manager drops the one it has before it constructs the next.
* `Store` may fail (the result of `store` is not looked at); the rest of `applySettings`
  happens in any case. On the same disk every other write may fail too: the temporary file
  when a wallet is constructed, its deletion (`RemoveTemporary`), the store of the first
  refresh (`main.qml:399`, not looked at either: the wallet counts as stored all the same) and
  the one when a wallet is deleted (`SaveOnClose`). A wallet without a file under its name
  writes its temporary one (`SaveOpen`). `OpenKept` is `initialize()` without a wizard's wallet, shortened
  to its outcome: WalletLifecycle has the steps.
* `habits`, chosen in `Init` from `Users`: steps back, restarts or crashes, opens earlier
  wallets from files, has a disk that fails. Each property names the habits it can bear
  (section 3). Bound: `MaxWallets`.

### WalletSync

The heights of `Wallet.cpp`, the listener `WalletListenerImpl`, and `onWalletRefresh`,
`onWalletUpdate`, `onWalletNewBlock`, `onWalletMoney...` of `main.qml`, for one open wallet.

* `h`, `hAge` and `t`, `tAge` are the two caches and their timers. The target's renewal is
  two steps on either thread (`AskTarget`, then `RaiseTarget`), because nothing locks it:
  `thread = "raising"` and `gui = "raising"` may overlap.
* `signals` are the queued signals; `OnMoney` scans on the GUI thread (`GuiScans`), where the
  listener's signals are not queued but handled at once: a block found renews the target and
  raises the flag, `refreshed` is handled before those that wait. If the scan finds money, its
  handler calls `refresh()` inside `refresh()`; the library does one refresh at a time, so the
  inner call waits for the outer one, and `gui` is `"caught"` for ever. The refresh thread then
  waits as well. `HistoryLagIsNoted`, `HistoryCatchesUp` and `SyncedInTheEnd` make an exception
  of that state (`Caught`) and of nothing else. The flag `foundNewBlock` and `shown`, the height the
  history was built at, are what `HistoryLagIsNoted` relates to them.
* `said[k]` is a history variable: the least height of the network the daemon told `k`
  ticks ago. A tick is longer than a call, so time stands still while a target is raised.
* Outside the code (external): the daemon's and the network's heights, the library's
  refresh thread, the event loop, and the lock under which the library refreshes, which is
  taken to be one that a thread cannot take twice. Bounds: `MaxHeight`, `MaxSignals`.

### QrScanner

`QrCodeScanner.cpp`, `QrScanThread.cpp`, `QRCodeScanner.qml`, and the connection that
`Transfer.qml` and `AddressBook.qml` make to `qrcode_decoded`.

* A frame is what it shows and the scan it was filmed in. `curFrame`, `queue`, `signals`
  and the form's `filled` are the stations of a frame, in that order; `queue` and
  `curFrame` survive the end of a scan, as in the code.
* `state` is the QML state, `timer` whether `setEnabled` has one running. `Stop` is the
  script of the state "Stopped". `connected` are the pages connected to the signal: each
  form that is filled disconnects itself, so that none is left. The camera's picture lets
  clicks through (`propagateComposedEvents`), so `ScanButton` of another page may join a scan
  that is on.
* `Tell` gives an error for the frame that is not valid, and may give one for any other: for
  its format, its size, or an exception. An error ends whatever scan is on when it arrives.
* The thread holds the mutex from its test of the queue to the end of the scan, so a pass
  of its loop is one step: it takes a frame and tells what it found, or it sleeps.
* Assumed: the message dialog is not modal, and `disconnect` drops every connection of the
  function. `scan`, `clicked`, `served` and `filled` are history variables: the scans started,
  the scan each page's button was last clicked in, the one in which a code was last filled
  in, and that code's frame. Bounds: `MaxQueue`,
  `MaxSignals`, `MaxScans`.

## 3. What TLC checks

| Run | Specification and bounds | Shows |
|---|---|---|
| `lifecycle` | `FairSpec`, 2 threads, 4 wallets, queue 5, a patient user, a patient one who rescans, or one with all habits | `NoWalletLeaked`, `ImplementsWalletSlot`, `NoTaskStuck`; for the patient ones `OpenedSignalCarriesPatientsWallet`, `SettledGuiAgreesWithManager`, `GuiSettles` |
| `lifecycle_race` | 2 threads, 3 wallets, impatient user | violates `OpenedSignalCarriesOpenWallet` (finding 1) |
| `connection` | `FairSpec`, 2 daemons, 2 checks, 2 inits, 2 changes or visits, the page as an earlier wallet left it | `PanelShowsStatus`, `SendNeedsConnection`, `LockNotLeaked`, `StatusConverges` |
| `payments` | `FairSpec`, 3 transactions; nothing else going on, payment checks, or automatic payments, checks and a closed splash | `CommittedAtMostOnce`, `ImplementsLedger`, `SplashGoes`; while nothing else goes on `NothingSentUnconfirmedAlone`, with checks at most `DialogIsAboutTransactionAlone` |
| `payment_stale` | 2 transactions, payment checks | violates `NothingSentUnconfirmed` (finding 2) |
| `vpn_session` | periods and margin 1, time 3, 2 lines, 1 restart, wallets closed and opened at will | `TimerFollowsFlag`, `FirstPaymentOnce`, `PrepaidBounded`, `ExpiredSessionEnds` |
| `vpn_error_pays` | the same, 1 line | violates `NoPaymentAfterVpnError` (finding 3) |
| `daemon` | `FairSpec`, 3 calls, kill after 2 polls, no troubles, daemons that die, or all troubles | `RefreshNotForgotten`, `SplashGoes`; with deaths at most `OneAtATime`; without troubles `RunningMeansUp` |
| `wizard` | 3 wallets, 2 names, 2 heights, 6 users | `KeptFilesStay`; for the users of the next table `FinishIsAboutOpenWallet`, `WalletInUseIsKept`, `ScanStartsRight`, `FirstRunSaved`, `NoTemporaryFileLeft` |
| `wizard_crash` | a user who restarts | violates `RefreshedWalletSaved` (finding 4) |
| `sync` | `FairSpec`, 3 blocks, 1 signal waiting, caches of 1 and 2 ticks | `SyncedIsRecent`; until the GUI thread is caught in its own `refresh()` `HistoryLagIsNoted`, `HistoryCatchesUp`, `SyncedInTheEnd` |
| `qr` | `FairSpec`, 2 codes, 2 pages, 2 scans, queue 2, 1 signal waiting | `NoFrameSleptOn`, `FilmedInOrder`, `UnfilmedFirst`, `AskedSinceLastCode`, `OneCodePerScan`, `ScanEnds`, `QueueDrains` |

The modules' `TypeOK` is not among the runs' properties: TLAPS proves it of each module
for all instances.

**Conditions, and what breaks without them.** Several properties are about some users or
surroundings only. TLC finds a counterexample as soon as one more is let in:

| Property | Holds with | Broken by |
|---|---|---|
| `OpenedSignalCarriesPatientsWallet`, `SettledGuiAgreesWithManager`, `GuiSettles` | rescans | `"hurries"` |
| `NothingSentUnconfirmedAlone` | nothing else | each of automatic payments, checks, a closed splash |
| `DialogIsAboutTransactionAlone` | checks | automatic payments; a closed splash |
| `ExpiredSessionEnds` | a wallet open | `timer()` throws, on reporting a connection, before it looks |
| `OneAtATime` | deaths | each other trouble |
| `RunningMeansUp` | nothing else | each trouble |
| `FinishIsAboutOpenWallet`, `WalletInUseIsKept` | steps back, restarts, files | a disk that fails |
| `NoTemporaryFileLeft` | files | stepping back; restarts; a disk that fails |
| `ScanStartsRight`, a recovered wallet | steps back | files; restarts; a disk that fails |
| `ScanStartsRight`, a new wallet | nothing else | each habit |
| `FirstRunSaved` | steps back | files; restarts; a disk that fails |
| `HistoryLagIsNoted`, `HistoryCatchesUp`, `SyncedInTheEnd` | money found by the refresh thread | money found by the GUI thread's own `refresh()` |

**Why the bounds are enough.** Two pool threads are the fewest that interleave, and
everything they contend for is one mutex; four wallets let an open overlap a close,
a rescan and a wizard wallet. Two checks and two inits are the fewest that finish
out of order, two changes let a daemon change and the user reconnect or visit the transfer page. Three
transactions are one confirmed, one under construction and one automatic. With
periods of one unit and three units of time a session is paid, renewed and expires;
two log lines are an error and a request for payment in either order, or a
duplicate; one restart resumes a session whose first payment may or may not be
recorded. Three calls of the daemon manager are a start and a stop that overlap and one
more over both; a stop watcher that kills at its second poll has polls before and after
the count. Three wallets of the wizard are one created, one recovered after stepping back
and one more on the next visit; two names are one taken and one free. Three blocks let the
wallet, the daemon and the network stand at three different heights, and caches of
different lifetimes let the target be renewed while the height is stale and the other way
round. Two scans from two pages leave frames and a connection of the first to the second;
a queue of two has an order to get wrong. `Offers` has one set of kinds per user in the runs, to keep them short;
the proofs hold for users of both. The proofs of section 4 remove all these bounds.

`CHECK_DEADLOCK FALSE` is set where the system really stops: the application quits
(lifecycle, daemon), all changes of a finite environment are used up (connection), no
transaction is left to ask for (payment), the wallets of a wizard's user are used up. In VpnSession clients may die at any
time, so there is always a next step.

### Fairness

* `WalletLifecycle!Fairness`: a pool thread takes queued tasks and finishes what it
  began (weak), gets the mutex if it becomes free again and again (strong: `QMutex`
  does not starve one of two waiters for ever), and the event loop delivers posted
  signals (weak). Nothing is assumed of the user.
* `WalletConnection!Fairness`: time passes, tasks run, their signals are delivered and
  the refresh thread keeps reporting once started. `InitFinished` has strong fairness
  because it waits for a free check slot, a limit of the model and not of the code.
  Daemons and user change things only finitely often in a behaviour, which is what
  "once they leave things alone" means in `StatusConverges`.
* `Payment!FairSpec`: constructions end and their signals are delivered. Nobody has to
  answer a dialog.
* `DaemonManager!Fairness`: a start watcher's time runs out, watchers poll and report, and
  the event loop delivers. Nothing is assumed of the daemon: it may hang in any state.
* `WalletSync!Fairness`: time passes whenever the threads let it (strong), the library goes
  on refreshing and each refresh ends, the event loop turns, and a `refresh()` on the GUI
  thread that waits for the thread's gets its turn between two of them (strong: the
  library's thread sleeps there). Nothing is assumed of daemon and network:
  `SyncedInTheEnd` has its premise. A GUI thread that waits for itself (`Caught`) has no
  action to be fair to, nor has the thread whose next refresh waits for it.
* `QrScanner!Fairness`: the camera films while it is on, the timer fires, the thread is
  scheduled and the event loop delivers. Nothing is assumed of the user; the premise of
  `ScanEnds` is that something is held before the camera.
* SetupWizard and VpnSession assume none: their properties are safety, `ExpiredSessionEnds` included,
  which speaks about a run of `timer()` that reaches its end. `WalletSlot` and `Ledger` are
  safety specifications.

### Findings

1. **A signal carries a deleted wallet** (`WalletManager.cpp:63`). The lambda of
   `openWalletAsync` emits `walletOpened` after the task has left the mutex; a close or
   another open queued meanwhile has deleted that wallet, and `onWalletOpened`
   dereferences it.
2. **A stale callback revives a cancelled payment** (`main.qml:1085`). A wrong password
   leaves `onCloseCallback` assigned; the result of a later payment check does not
   reset it, so closing it asks for the password of the cancelled payment.
3. **A payment after a VPN error** (`IntenseDashboard.qml:877`). An error clears
   `firstPayment`, which is the renewal's condition too: the renewal check of the same
   `timer()` pays, where the comment says "do not send payment".
4. **A new wallet forgotten** (`main.qml:397`). That the wallet must be stored after its
   first refresh is known to `isNewWallet` only, which a restart clears: a program ended
   between the wizard and the first refresh scans, crashes, and scans from the start
   again, which is what the comment says is prevented.

Met while modelling, and stated as the condition of a property rather than run by itself:

* a rescan closes the wallet directly (`Settings.qml:556`), so that the handlers stay
  connected and are connected again by the reopened wallet: handlers only multiply
  (`SettledGuiAgreesWithManager` covers rescans, but counts a single handler only for
  users who do not rescan);
* an automatic payment assigns the global `transaction` while a confirmation is open
  (`main.qml:546`; hence `DialogIsAboutTransactionAlone` is about surroundings without);
* without a wallet `setPayment` throws after it has added time (`IntenseDashboard.qml:158`): a
  session renewed by itself is credited period after period that nobody paid for, though
  never beyond the margin (`PrepaidBounded` covers closed wallets; `ExpiredSessionEnds` does
  not, because `timer()` may end before it looks at the time);
* a failed statistics request starts haproxy and leaves the dashboard disconnected
  (`IntenseDashboard.qml:401`; `TimerFollowsFlag` speaks of the timer only);
* `startDetached` is static, so the listener for the daemon's end (`DaemonManager.cpp:85`)
  is connected to a process object that never runs; `daemonRunning` stays true of a daemon
  that died (`RunningMeansUp` holds without troubles);
* stepping back from a recovery to a new wallet leaves the recovery in the settings that are
  persisted (`WizardMain.qml:237`): a new wallet is then told that it recovers (`ScanStartsRight` speaks
  of new wallets for users who do not step back only, of recovered ones also when they do);
* a scan given up leaves its page connected, and during a scan clicks reach the menu and the
  other page's scan button (`QRCodeScanner.qml:116`): one code then fills the forms of both
  pages (`AskedSinceLastCode` says only that each was asked for since the last code);
* an error about a frame of an earlier scan, and the acceptance of an earlier error's dialog,
  stop the scan that is on (`ThreadError`, `DialogAccepted`; `ScanEnds` counts that as an end);
* the transfer page left open by a connected wallet stays open for the next one, which is
  `Disconnected`, until its first status or refresh is handled or the page is visited
  (`Transfer.qml:700`; `SendNeedsConnection` speaks of the cached status only after that);
* a store that fails at the first refresh is not tried again (`main.qml:399`; `FirstRunSaved` is
  about a disk that works);
* money found by a `refresh()` that runs on the GUI thread calls `refresh()` again from inside it
  (`main.qml:470`, `482`, through the listener, `Wallet.cpp:39`): the window freezes if the
  library's lock is as assumed (`Caught`). The `refresh()` after a payment (`main.qml:781`, `823`)
  may do the same; it is not in the model.

## 4. What TLAPS proves

The theorems are about `Spec`, for every value of the constants that satisfies the
modules' named assumptions (finite non-empty sets of threads, positive periods, natural
bounds, and so on). Every property of a passing run is the conclusion of one: the
invariants, action properties and refinements without further hypotheses, the liveness
properties under those of *What the liveness theorems assume* below.

* **`WalletLifecycle_proofs`**: `TypeCorrect`, `NothingLeaks`, `MutexExcludes`.
  `NoWalletLeaked` is not inductive: a thread that leaves the mutex with a new wallet
  must know that nobody constructed another since it deleted the old one.
  `LifecycleInv` adds `OneHolder` (at most one thread in the mutex) and
  `OpeningOnNothing` (while a thread opens, there is no current wallet).
  `ManagerIsASlot` is the refinement of `WalletSlot`: the initial states map to its
  initial states and, under `LifecycleInv`, every step maps to one of its steps or to
  none. `PatientsSignalIsFresh` and `GuiAgreesWithManager` come from `PatientInv`, which
  lists what may be under way while the user waits (nothing, one open, or one close, at each
  of its stations: `Quiet`, `OpenFlies`, `CloseFlies`) and what the GUI shows meanwhile, also
  after rescans. Liveness: whoever has the mutex leaves it (`ThreadLeaves`), so
  it gets free again and again (`MutexGetsFree`), and a thread that waits for it gets it:
  `NoTaskIsStuck`, for any number of threads. Hence the pool goes on while it has work
  (`PoolGoesOnThroughout`), and `GuiGetsSettled` follows a patient user's request through the
  stations of `PatientInv`, each of which is left for the next only: `GuiSettlesInTheEnd`.
* **`WalletConnection_proofs`**: `TypeCorrect`, `PanelNeverStale`, `SendGuarded`,
  `LockIsReleased`, from `ConnectionInv`, their conjunction; it is inductive because
  every handler that writes the cache also shows it, and a page left open by an earlier wallet
  has a panel that shows `Connected`. Liveness: `DisturbancesGetFewer` says
  that three finite sets only lose elements, each once those before it have settled: the
  changes still to come, the calls of `init` under way, the answers that are out of date.
  In the calm after that (`Calm`) each answer applied is the right one, and the cache, once
  expired, is asked for again: `StatusBecomesRight`. A call of `init` or a check stays where
  it is until it gets on (`InitStays`, `CheckStays`), so fairness to each gives what that
  needs of all (`CallsGoOn`): `StatusIsRightInTheEnd`.
* **`Payment_proofs`**: `TypeCorrect`; `NeverCommittedTwice` from `OnceInv`, which adds
  that a committed transaction is disposed of, and that a number not yet asked for has
  no object; `NothingUnconfirmed`, that is `NothingSentUnconfirmedAlone`: nothing is
  sent unconfirmed while `allowed` is empty, a condition finding 2 shows to be needed.
  It starts from the lemma that no step changes `allowed`. Its invariant
  `AloneInv` says which single window may be on show, and that while the password or
  save dialog is on show, or the popup that leads back to them, the global transaction
  is the confirmed one. With payment checks that transaction may be a cancelled one, but it
  still exists and is the one described, which is `DialogsAgree`. `PaymentIsALedger` is the
  refinement of `Ledger`, from `OnceInv` and, where the ledger is guarded, `AloneInv`.
  Liveness: `SplashHasReason` says that the splash is on show only during a construction
  and that any construction's end hides it; `SplashGoesAway` and,
  from the fairness of the specification, `SplashGoesInTheEnd` follow.
* **`VpnSession_proofs`**: `TypeCorrect`, `TimerStops`, `FirstPaymentOnceOnly`,
  `PrepaidIsBounded`, `ExpiredSessionsEnd`, from `SessionInv`. It adds `TimeKnown` (a
  session past its first payment has a paid time, unless an error made it look so),
  `VpnReads` (messages are read for a VPN only), `NotYetAsked` (while the first payment
  is owed, in the page or in the settings to resume from, none was asked for), and
  `Prepaid` (the bound, also at the points inside `timer()` where the renewal is still
  to be looked at; it holds of the time added before a throw as well, since `setPayment`
  adds to a renewal only once it is due). `ExpiredSessionEnds` is an action property
  proved from it.
* **`DaemonManager_proofs`**: `TypeCorrect`; `RefreshResumed` from `RefreshInv`, which adds
  that only an attached wallet is paused and that numbers not given out have no watcher;
  `CallsDoNotOverlap` and `RunningBelieved` from `QuietInv`. Its `WindowsInv` says that
  the splash is on show exactly while the only call is under way, and that the countdown runs
  only between calls, which deaths do not change; its `DaemonInv` that without troubles a
  daemon seen by a start watcher is still up and one told to stop still has its watcher.
  Liveness: `SplashHasItsCall` says that the splash on show is the newest call's, whose watcher
  or report is still to come; `Rank` counts that watcher's work left, with polls, a second start
  and a daemon launched anew, and `WorkGetsLess` that no step adds to it. While it stays the same the newest call stays
  what it is (`StageKept`), so fairness to that call applies (`CallIsServed`): `SplashIsLifted`.
* **`SetupWizard_proofs`**: `TypeCorrect` and `FilesAreNeverReplaced` from `WizardInv`,
  whose `NameFree` says that past the form the name tested there is still free: no page
  after it writes a file. `NextStartFindsWallet`, `FirstScanIsSaved`, `FinishIsRight`,
  `NoFileIsLeft` and `ScanIsRight` each add the invariant of the users they are about: a
  wallet not yet stored has the flag (`FlaggedUntilStored`), without restarts and files
  there are two places to be (`TwoPlaces`), the settings are about the wallet of the chosen
  path (`Chosen`), the only temporary file is the open wallet's (`OneTemporaryFile`),
  which the main window's writes leave alone (`SavedInPlace`), and what is told of a recovery is
  what was entered (`ScanInv`). On any disk, the file under the persisted path is the open
  wallet's or there is none (`KeptOrNone`); where the user may step back, past the form a
  recovered wallet has its recovery in the settings (`RecoveryTold`); who does not restart never
  sees the program off (`StaysOn`).
* **`WalletSync_proofs`**: `TypeCorrect`; `SyncedOnRecentKnowledge` from `Recent`, which
  says that a target goes back to something the daemon has said since the target's timer
  was restarted, or to a block height the daemon has by now (so that raising it to an old height
  is harmless); `NoBlockIsForgotten`: the property is inductive with the types and
  `GuiBusy`, and its proof follows each signal through the queue to the rebuilding.
  Liveness: `SignalsGetAhead` says that nothing is added to the signals ahead of one that
  waits, not even by a `refresh()` that puts its own in front; so, as long as the GUI thread is
  not caught, every signal gets its turn, and `RefreshesAreHandled`. A thread that is caught
  stays so (`CaughtForEver`), which is the other case of the two liveness properties.
  `HistoryIsCaughtUp` supposes that the history never shows all blocks: then no more are
  scanned, and the mark of the missing ones reaches `onWalletRefresh`, which rebuilds. `SyncedIsSeen` supposes that the daemon stays synced: no
  more blocks are scanned, a wrong cached value is not renewed, outlives its time, is asked
  for again and is right from then on. `HistoryIsCaughtUpInTheEnd` and `SyncedIsSeenInTheEnd`
  put the fairness of the specification in the place of what those two assume of the threads.
* **`QrScanner_proofs`**: `TypeCorrect`, `NeverSleepsOnFrames`, `FillsOnce` and
  `FormsAskedForIt` directly; `OldFramesFirst` and `UnfilmedComesFirst` from `OrderInv`. Each
  step keeps the line of frames from camera to form up to places left out or repeated
  (`LineKept`), which keeps every order along it. Liveness: what queue and signals hold
  between scans only gets less (`WaitingGetsLess`, hence `QueueIsWorkedOff`), as do the frames
  without a code ahead of the first with one (`DullGetFewer`, hence `CodeEndsScan`); with the fairness of
  the specification, `QueueDrainsInTheEnd` and `ScanEndsInTheEnd`.

Each proof has one lemma or step per action; type lemmas about the pieces handlers
share (`SetPayment`, `ChangeStatus`, `Inform`, `Initialize`, ...) are stated once.

**What the liveness theorems assume.** Three kinds of hypotheses, each a named
definition of the proof modules:

* *Fairness, and guards that suffice.* `WF_vars(A)` says that A occurs again and again
  unless it is again and again disabled; `ENABLED` is beyond the provers. Each module names
  in `GuardsSuffice` what it needs: where the guard of a fair action holds, the action is
  enabled. TLC finds `GuardsSuffice` invariant on the instances of the runs. The theorems of
  Payment, WalletSync and QrScanner start from `FairSpec`. In WalletLifecycle,
  WalletConnection and DaemonManager fairness is quantified over threads or calls, and which
  of them matters changes as the behaviour goes on; there the theorems start from `Spec` and
  `[]Fairness`. The two mean the same, as fairness is about what happens in the end, and for
  each single thread or call it is proved (`FairStays`); only the exchange of `\A` and `[]`
  is not in the prover's temporal logic.
* *What only falls settles.* The `...Settles` (in WalletConnection `...Settle`) and the
  `...Ages` of WalletSync say of one expression that if from some time on it is a natural
  number that never grows, a number of an interval that never falls, or a finite set that only
  loses elements, then it stays the same in the end. That is true of every behaviour whatever
  the specification. It is the one place where induction over data is needed, which temporal
  logic alone does not know and the provers' induction theorems cannot supply; that the
  expression does fall with the steps in question is proved each time (`SignalsGetAhead`,
  `WorkGetsLess`, `WaitingGetsLess`, `DullGetFewer`, `DisturbancesGetFewer`).
* *Room.* `SomeRoom` (WalletSync, QrScanner): the bounds leave room for a signal and a frame at
  all; `FewCalls` (WalletConnection): the sets of slots are finite, and no daemon is called as a
  state of a slot is. These are bounds of the models, the code has none.

**Only model-checked.** That the guards enable their actions (`GuardsSuffice`), on the
instances of the runs, where TLC also checks every liveness property from `FairSpec` itself;
and the temporal facts about numbers and finite sets that settle.

## 5. What is not modelled

* Data: amounts, addresses, texts, layouts; payment ids, which matter to a hazard that is
  listed without a property.
* In WalletLifecycle: mining, the update check. In Payment: the form of `Transfer.qml`,
  offline signing. In VpnSession: the provider list and feedback, and the dialogs it shares
  with Payment.
* A second reader thread left over from an earlier VPN session: the model's reader may
  hand over any sequence of lines, duplicates included.
* In DaemonManager: the console, `validateDataDir`, and a `letheand` command that never
  returns, which freezes the GUI thread.
* In SetupWizard: the view-only wallet, the password's strength, the daemon page, the
  language. In WalletSync: the progress bar, unconfirmed money, a wallet closed while it
  refreshes. In QrScanner: decoding a picture, the camera's focus, the thread's end (nothing
  calls its `stop`).
* Components without a module: history and address book (snapshots of the library's
  lists), HTTP parsing, OpenPGP, forms over single synchronous calls, widgets, glue,
  packaging and vendored code: bytes, cryptography and presentation rather than states.
* The message catalogues under `translations/` are XML data of Qt Linguist with the suffix
  `.ts`; they have no behaviour, so no definition maps to them. The program itself is C++
  and QML.

## 6. Plan

In this order:

1. **Composition of VpnSession and Payment**: the completion of an automatic payment shares
   the dialogs. Payment ids as identities belong here.
2. **Transaction history**: the unlock estimate of `getAll` and the filter of
   `TransactionHistorySortFilterModel` as operators against a reference definition; the
   rows under a reset.
3. **Transfer form** (amount, priority, enabled fields) and the **provider list** of
   `Intense.qml`: the largest parts without a module.
4. The view-only path of the wizard, and a wallet closed while it refreshes, in WalletSync.
