--------------------------- MODULE WalletLifecycle ---------------------------
(***************************************************************************)
(* Opening and closing wallets: the C++ WalletManager (a mutex, the        *)
(* QPointer m_currentWallet, and tasks run on the QtConcurrent thread      *)
(* pool) together with the QML code of main.qml, Settings.qml and the      *)
(* wizard pages that calls it from the GUI thread.                         *)
(*                                                                         *)
(* A Wallet object is a number, in the order of construction; it is alive  *)
(* from its constructor to its destructor.  A QML handler is one step: the *)
(* GUI thread runs it to its end before it takes the next event.  A pool   *)
(* task is three: a thread takes it from the queue, enters the mutex, and  *)
(* leaves it.                                                              *)
(***************************************************************************)
EXTENDS Naturals, Sequences, FiniteSets

CONSTANTS
    Threads,     \* the threads of QThreadPool::globalInstance()
    MaxWallets,  \* bound on the Wallet objects constructed in a behaviour
    MaxQueue,    \* bound on pool tasks and undelivered signals together
    Users        \* the users considered, each a set of Habits

Habits ==
    {"hurries",   \* acts while an open or close is under way
     "rescans"}   \* rebuilds the wallet cache with a new restore height

ASSUME LifecycleAssumption ==
    /\ Threads # {} /\ IsFiniteSet(Threads)
    /\ MaxWallets \in Nat \ {0}
    /\ MaxQueue \in Nat \ {0}
    /\ Users \subseteq SUBSET Habits

VARIABLES
    created,        \* Wallet objects constructed so far
    alive,          \* those not yet deleted
    current,        \* WalletManager::m_currentWallet, NoWallet when null
    queue,          \* pool tasks no thread has taken
    thread,         \* what each pool thread is doing
    events,         \* finished futures whose signal the GUI has not handled
    currentWallet,  \* main.qml's currentWallet, NoWallet when undefined
    wizardWallet,   \* wizard.settings.wallet, NoWallet when undefined
    payHandlers,    \* connections of middlePanel.paymentClicked to handlePayment
    dialog,         \* the application-modal dialog that is open
    page,           \* rootItem.state
    habits,         \* of this behaviour's user, one of Users
    outcome         \* how the process ended, "running" until it does

managerVars == <<created, alive, current>>
poolVars == <<queue, thread, events>>
guiVars == <<currentWallet, wizardWallet, payHandlers, dialog, page>>
vars == <<managerVars, poolVars, guiVars, habits, outcome>>

NoWallet == 0
Wallets == 1 .. MaxWallets
Ops == {"open", "close"}
ThreadStates == {"idle", "openWaits", "opening", "closeWaits", "closing"}
Holding == {"opening", "closing"}

TypeOK ==
    /\ created \in 0 .. MaxWallets
    /\ alive \subseteq 1 .. created
    /\ current \in 0 .. created
    /\ queue \in Seq(Ops)
    /\ thread \in [Threads -> ThreadStates]
    /\ events \in Seq([op : Ops, wallet : 0 .. created])
    /\ currentWallet \in 0 .. created
    /\ wizardWallet \in 0 .. created
    /\ payHandlers \in Nat
    /\ dialog \in {"none", "password", "info", "file"}
    /\ page \in {"wizard", "viewOnlyWizard", "normal"}
    /\ habits \in Users
    /\ outcome \in {"running", "quit", "crashed"}

-----------------------------------------------------------------------------
(* The manager.  m_mutex is held exactly while a thread is in Holding; the  *)
(* synchronous calls of the GUI thread take and release it within a step.   *)

\* Mutant of MutexFree: the methods do not lock m_mutex.
MutexNotLocked == TRUE

MutexFree == \A th \in Threads : thread[th] \notin Holding

\* delete m_currentWallet: the QPointer clears itself.
DeleteCurrent ==
    /\ alive' = alive \ {current}
    /\ current' = NoWallet

\* m_currentWallet = new Wallet(w), once the former one is deleted.
NewCurrent(remaining) ==
    /\ created < MaxWallets
    /\ created' = created + 1
    /\ alive' = remaining \cup {created + 1}
    /\ current' = created + 1

\* QtConcurrent::run: the task goes to the end of the pool's queue.
Submit(ops) == queue' = queue \o ops

\* Tasks and signals under way, and those of them that will construct a wallet.
Pending == Len(queue) + Len(events) + Cardinality({th \in Threads : thread[th] # "idle"})
Opening == Cardinality({i \in DOMAIN queue : queue[i] = "open"})
           + Cardinality({th \in Threads : thread[th] \in {"openWaits", "opening"}})

-----------------------------------------------------------------------------
(* The pool threads.                                                        *)

TakeTask(th) ==
    /\ thread[th] = "idle"
    /\ queue # <<>>
    /\ thread' = [thread EXCEPT ![th] = IF Head(queue) = "open" THEN "openWaits" ELSE "closeWaits"]
    /\ queue' = Tail(queue)
    /\ UNCHANGED <<managerVars, events, guiVars, habits, outcome>>

BeginOpen(th) ==
    /\ thread[th] = "openWaits"
    /\ MutexFree
    /\ DeleteCurrent
    /\ thread' = [thread EXCEPT ![th] = "opening"]
    /\ UNCHANGED <<created, queue, events, guiVars, habits, outcome>>

\* Mutant of EndOpen: the finished future emits the signal a second time.
EndOpenTwice(th) ==
    /\ thread[th] = "opening"
    /\ NewCurrent(alive)
    /\ thread' = [thread EXCEPT ![th] = "idle"]
    /\ LET signal == [op |-> "open", wallet |-> created + 1]
       IN events' = events \o <<signal, signal>>
    /\ UNCHANGED <<queue, guiVars, habits, outcome>>

EndOpen(th) ==
    /\ thread[th] = "opening"
    /\ NewCurrent(alive)
    /\ thread' = [thread EXCEPT ![th] = "idle"]
    /\ events' = Append(events, [op |-> "open", wallet |-> created + 1])
    /\ UNCHANGED <<queue, guiVars, habits, outcome>>

\* Mutant of BeginClose: the task waits until there is a wallet to close.
BeginCloseOfSome(th) ==
    /\ thread[th] = "closeWaits"
    /\ MutexFree
    /\ current # NoWallet
    /\ DeleteCurrent
    /\ thread' = [thread EXCEPT ![th] = "closing"]
    /\ UNCHANGED <<created, queue, events, guiVars, habits, outcome>>

BeginClose(th) ==
    /\ thread[th] = "closeWaits"
    /\ MutexFree
    /\ DeleteCurrent
    /\ thread' = [thread EXCEPT ![th] = "closing"]
    /\ UNCHANGED <<created, queue, events, guiVars, habits, outcome>>

EndClose(th) ==
    /\ thread[th] = "closing"
    /\ thread' = [thread EXCEPT ![th] = "idle"]
    /\ events' = Append(events, [op |-> "close", wallet |-> NoWallet])
    /\ UNCHANGED <<managerVars, queue, guiVars, habits, outcome>>

Pool == \E th \in Threads :
    TakeTask(th) \/ BeginOpen(th) \/ EndOpen(th) \/ BeginClose(th) \/ EndClose(th)

-----------------------------------------------------------------------------
(* The GUI thread.  currentWallet reads as null once its object is deleted. *)

Attached == currentWallet \in alive

UserCanAct(where, box) ==
    /\ outcome = "running"
    /\ page = where
    /\ dialog = box
    /\ "hurries" \in habits \/ Pending = 0
    /\ Pending + 2 <= MaxQueue
    /\ created + Opening < MaxWallets

\* connectWallet(w): the handlers of the middle panel are connected once more.
ConnectWallet(w) ==
    /\ currentWallet' = w
    /\ payHandlers' = payHandlers + 1

\* Mutant of CloseWallet: the handlers stay connected.
CloseWalletConnected == currentWallet' = NoWallet /\ UNCHANGED payHandlers

\* closeWallet(): the handlers are disconnected only if currentWallet is usable.
CloseWallet ==
    /\ currentWallet' = NoWallet
    /\ payHandlers' = IF Attached THEN 0 ELSE payHandlers

\* Mutant of InitializeFromFile: it closes the wallet even when none is attached.
InitializeClosesAlways == CloseWallet /\ Submit(<<"close", "open">>)

\* initialize() with no wizard wallet: reopen the wallet file asynchronously.
InitializeFromFile ==
    /\ CloseWallet
    /\ Submit(IF Attached THEN <<"close", "open">> ELSE <<"open">>)

\* initialize() with the wallet the wizard has opened.  connectWallet throws
\* at wallet.path if that object is deleted: no handler is connected, and the
\* wizard keeps its reference.
InitializeFromWizard ==
    LET kept == IF Attached THEN 0 ELSE payHandlers
        usable == wizardWallet \in alive
    IN  /\ currentWallet' = wizardWallet
        /\ payHandlers' = IF usable THEN kept + 1 ELSE kept
        /\ wizardWallet' = IF usable THEN NoWallet ELSE wizardWallet
        /\ Submit(IF Attached THEN <<"close">> ELSE <<>>)

Initialize ==
    \/ wizardWallet # NoWallet /\ InitializeFromWizard
    \/ wizardWallet = NoWallet /\ InitializeFromFile /\ UNCHANGED wizardWallet

\* onWalletOpened for a wallet whose status is Ok.
OpenSucceeded(w) ==
    /\ ConnectWallet(w)
    /\ UNCHANGED <<queue, dialog, outcome>>

\* Mutant of OpenFailed: the wallet is opened again without asking.
OpenFailedRetries ==
    /\ CloseWallet
    /\ Submit(<<"close", "open">>)
    /\ UNCHANGED <<dialog, outcome>>

\* onWalletOpened otherwise: at once, or after an information popup, ask for
\* the password; the wallet is closed first.
OpenFailed ==
    /\ CloseWallet
    /\ Submit(<<"close">>)
    /\ dialog' \in {"password", "info"}
    /\ UNCHANGED outcome

\* The signal carries a deleted object: its fields are whatever the freed
\* memory holds, or the access ends the process.
OpenedDangling(w) ==
    \/ OpenSucceeded(w)
    \/ OpenFailed
    \/ outcome' = "crashed" /\ UNCHANGED <<queue, currentWallet, payHandlers, dialog>>

WalletOpened ==
    /\ outcome = "running"
    /\ events # <<>>
    /\ Head(events).op = "open"
    /\ LET w == Head(events).wallet
       IN IF w \in alive THEN OpenSucceeded(w) \/ OpenFailed ELSE OpenedDangling(w)
    /\ events' = Tail(events)
    /\ UNCHANGED <<managerVars, thread, wizardWallet, page, habits>>

\* onWalletClosed only logs.
WalletClosed ==
    /\ outcome = "running"
    /\ events # <<>>
    /\ Head(events).op = "close"
    /\ events' = Tail(events)
    /\ UNCHANGED <<managerVars, queue, thread, guiVars, habits, outcome>>

PasswordAccepted ==
    /\ UserCanAct(page, "password")
    /\ Initialize
    /\ dialog' = "none"
    /\ UNCHANGED <<managerVars, thread, events, page, habits, outcome>>

PasswordRejected ==
    /\ UserCanAct(page, "password")
    /\ dialog' = "none"
    /\ page' = "wizard"
    /\ UNCHANGED <<managerVars, poolVars, currentWallet, wizardWallet, payHandlers,
                  habits, outcome>>

\* informationPopup.onCloseCallback of onWalletOpened
InfoClosed ==
    /\ UserCanAct(page, "info")
    /\ dialog' = "password"
    /\ UNCHANGED <<managerVars, poolVars, currentWallet, wizardWallet, payHandlers,
                  page, habits, outcome>>

\* Settings page, "Close wallet"
ShowWizard ==
    /\ UserCanAct("normal", "none")
    /\ CloseWallet
    /\ Submit(<<"close">>)
    /\ wizardWallet' = NoWallet
    /\ page' = "wizard"
    /\ UNCHANGED <<managerVars, thread, events, dialog, habits, outcome>>

\* Settings page, new restore height: the wallet is closed on this thread,
\* behind the back of main.qml, and opened again from its file.
RescanCache ==
    /\ "rescans" \in habits
    /\ UserCanAct("normal", "none")
    /\ Attached
    /\ MutexFree
    /\ DeleteCurrent
    /\ Submit(<<"open">>)
    /\ UNCHANGED <<created, thread, events, guiVars, habits, outcome>>

\* WizardCreateWallet.createWallet, or recoveryWallet with a good seed or keys:
\* on this thread the old wallet is deleted and the new one constructed.
WizardNewWallet ==
    /\ UserCanAct("wizard", "none")
    /\ MutexFree
    /\ NewCurrent(alive \ {current})
    /\ wizardWallet' = created + 1
    /\ UNCHANGED <<poolVars, currentWallet, payHandlers, dialog, page, habits, outcome>>

\* recoveryWallet with a wrong seed: the new wallet is closed again, and
\* settings.wallet keeps what an earlier visit to the page left in it.
WizardRecoverFailed ==
    /\ UserCanAct("wizard", "none")
    /\ MutexFree
    /\ created < MaxWallets
    /\ created' = created + 1
    /\ DeleteCurrent
    /\ UNCHANGED <<poolVars, guiVars, habits, outcome>>

\* The last page's "Use Lethean".  applySettings stores settings.wallet and
\* throws when it is deleted, so the wizard goes no further in that case.
UseMonero ==
    /\ UserCanAct("wizard", "none")
    /\ wizardWallet \in alive
    /\ Initialize
    /\ page' = "normal"
    /\ UNCHANGED <<managerVars, thread, events, dialog, habits, outcome>>

\* "Open a wallet from file": settings.wallet.destroy() deletes the object
\* without the manager's mutex, and throws if it is already deleted.
OpenWalletFromFile ==
    /\ UserCanAct("wizard", "none")
    /\ wizardWallet \in alive \cup {NoWallet}
    /\ alive' = alive \ {wizardWallet}
    /\ current' = IF current = wizardWallet THEN NoWallet ELSE current
    /\ wizardWallet' = NoWallet
    /\ page' = "normal"
    /\ dialog' = "file"
    /\ UNCHANGED <<created, poolVars, currentWallet, payHandlers, habits, outcome>>

FileAccepted ==
    /\ UserCanAct(page, "file")
    /\ Initialize
    /\ dialog' = "none"
    /\ UNCHANGED <<managerVars, thread, events, page, habits, outcome>>

FileRejected ==
    /\ UserCanAct(page, "file")
    /\ dialog' = "none"
    /\ page' = "wizard"
    /\ UNCHANGED <<managerVars, poolVars, currentWallet, wizardWallet, payHandlers,
                  habits, outcome>>

\* Settings page, "Create view only wallet": the wizard on top of the open
\* wallet; creating it or giving up restarts the wizard and returns.
OpenViewOnlyWizard ==
    /\ UserCanAct("normal", "none")
    /\ page' = "viewOnlyWizard"
    /\ UNCHANGED <<managerVars, poolVars, currentWallet, wizardWallet, payHandlers,
                  dialog, habits, outcome>>

LeaveViewOnlyWizard ==
    /\ UserCanAct("viewOnlyWizard", "none")
    /\ wizardWallet' = NoWallet
    /\ page' = "normal"
    /\ UNCHANGED <<managerVars, poolVars, currentWallet, payHandlers, dialog, habits, outcome>>

\* closeAccepted(): the wallet is closed on this thread, then the loop ends.
CloseAccepted ==
    /\ outcome = "running"
    /\ MutexFree
    /\ DeleteCurrent
    /\ outcome' = "quit"
    /\ UNCHANGED <<created, poolVars, guiVars, habits>>

Deliver == WalletOpened \/ WalletClosed

User ==
    \/ PasswordAccepted \/ PasswordRejected \/ InfoClosed
    \/ ShowWizard \/ RescanCache
    \/ WizardNewWallet \/ WizardRecoverFailed
    \/ UseMonero \/ OpenWalletFromFile \/ FileAccepted \/ FileRejected
    \/ OpenViewOnlyWizard \/ LeaveViewOnlyWizard
    \/ CloseAccepted

-----------------------------------------------------------------------------
\* Component.onCompleted: the wizard, or initialize() when a wallet file exists.
Init ==
    /\ created = 0 /\ alive = {} /\ current = NoWallet
    /\ thread = [th \in Threads |-> "idle"]
    /\ events = <<>>
    /\ currentWallet = NoWallet /\ wizardWallet = NoWallet /\ payHandlers = 0
    /\ dialog = "none"
    /\ \/ page = "wizard" /\ queue = <<>>
       \/ page = "normal" /\ queue = <<"open">>
    /\ habits \in Users
    /\ outcome = "running"

Next == Pool \/ Deliver \/ User

\* Pool threads run what they took and the event loop delivers what is posted;
\* nothing obliges the user to act.
ThreadRuns(th) ==
    /\ WF_vars(TakeTask(th))
    /\ SF_vars(BeginOpen(th)) /\ SF_vars(BeginClose(th))
    /\ WF_vars(EndOpen(th)) /\ WF_vars(EndClose(th))

Fairness == (\A th \in Threads : ThreadRuns(th)) /\ WF_vars(Deliver)

Spec == Init /\ [][Next]_vars
FairSpec == Spec /\ Fairness

-----------------------------------------------------------------------------
\* The manager never leaks a Wallet: whatever opens, closes and wizard steps
\* overlap, the only object alive is the one m_currentWallet points to, so no
\* wallet file is held open by an object nobody can close.
NoWalletLeaked == alive = {current} \ {NoWallet}

\* The wallet a walletOpened signal carries is still open when the GUI gets it
\* (WalletManager.h: "walletOpened" signal emitted when wallet opened).
OpenedSignalCarriesOpenWallet ==
    outcome = "running" =>
        \A i \in DOMAIN events : events[i].op = "open" => events[i].wallet \in alive

\* A user who waits for the GUI to finish what it began.
Patient == "hurries" \notin habits

\* The same for a patient user.
OpenedSignalCarriesPatientsWallet == Patient => OpenedSignalCarriesOpenWallet

\* When a patient user has nothing under way, the GUI and the manager agree on
\* the open wallet: the main window is on show only with that wallet attached
\* and its payment handler connected, once if the user never rescans (rescans
\* connect it again each time), and the wizard only with none attached.
SettledGuiAgreesWithManager ==
    (Patient /\ outcome = "running" /\ Pending = 0) =>
        /\ currentWallet \in {NoWallet, current}
        /\ currentWallet # NoWallet => payHandlers >= 1
        /\ "rescans" \notin habits => payHandlers = IF currentWallet = NoWallet THEN 0 ELSE 1
        /\ page = "normal" /\ dialog = "none" => Attached
        /\ page = "wizard" => currentWallet = NoWallet

\* Threads, queues, pages and dialogs come to no more than one slot: every step
\* opens the newest wallet, closes the one there is, asks, or answers once.
Slot == INSTANCE WalletSlot WITH open <- alive, made <- created, promised <- Pending
ImplementsWalletSlot == Slot!Spec

\* No pool task waits for the manager's mutex for ever.
NoTaskStuck ==
    \A th \in Threads : thread[th] # "idle" ~> thread[th] = "idle"

\* A user who waits for the GUI gets it back: every open and close started is
\* finished and its signal handled.
GuiSettles ==
    (Patient /\ Pending > 0) ~> (Pending = 0 \/ outcome # "running")
=============================================================================
