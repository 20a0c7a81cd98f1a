------------------------------- MODULE Payment -------------------------------
(***************************************************************************)
(* Sending money: the payment handlers of main.qml, the wallet's           *)
(* asynchronous transaction construction, and the dialogs between a click  *)
(* on "Send" and PendingTransaction::commit.                               *)
(*                                                                         *)
(* main.qml has one global, transaction, one confirmation popup, one       *)
(* password dialog and one information popup whose close callback is       *)
(* assigned by whoever shows it.  Every dialog is an application-modal     *)
(* window, so the user answers the one on top.  A transaction is a number, *)
(* in the order its construction is asked for.                             *)
(***************************************************************************)
EXTENDS Naturals, Sequences

CONSTANTS
    MaxTx,         \* bound on the transactions asked for
    Surroundings   \* the sets of Activities a payment may be made among

Activities ==
    {"autoPayments",    \* the VPN dashboard pays its provider by itself
     "paymentChecks",   \* the user checks payments on the TxKey page
     "splashClosing"}   \* the user closes the splash from its title bar

ASSUME PaymentAssumption ==
    /\ MaxTx \in Nat
    /\ Surroundings \subseteq SUBSET Activities

VARIABLES
    asked,            \* transactions asked for so far
    state,            \* of each PendingTransaction object
    auto,             \* the automatic payments among them
    transaction,      \* main.qml's global, NoTx before the first
    popupTx,          \* the one transactionConfirmationPopup describes
    dialogs,          \* visible modal windows, the one on top last
    onCloseCallback,  \* of informationPopup
    viewOnly,         \* the wallet cannot sign
    allowed,          \* what else goes on, one of Surroundings
    commits,          \* how often each transaction was committed
    decision          \* the user's last word on each transaction

vars == <<asked, state, auto, transaction, popupTx, dialogs, onCloseCallback,
          viewOnly, allowed, commits, decision>>

NoTx == 0
Txs == 1 .. MaxTx
Dialogs == {"splash", "popup", "password", "saveTx", "info"}

TypeOK ==
    /\ asked \in 0 .. MaxTx
    /\ state \in [Txs -> {"none", "creating", "live", "disposed"}]
    /\ auto \subseteq Txs
    /\ transaction \in Txs \cup {NoTx}
    /\ popupTx \in Txs \cup {NoTx}
    /\ dialogs \in Seq(Dialogs)
    /\ onCloseCallback \in {"null", "reopenPassword"}
    /\ viewOnly \in BOOLEAN
    /\ allowed \in Surroundings
    /\ commits \in [Txs -> Nat]
    /\ decision \in [Txs -> {"none", "confirmed", "cancelled"}]

-----------------------------------------------------------------------------
\* Windows: show() on a visible window leaves it where it is, so that it is in
\* the stack once.

Visible(ds, d) == \E i \in DOMAIN ds : ds[i] = d
Showing(ds, d) == IF Visible(ds, d) THEN ds ELSE Append(ds, d)
Without(ds, d) ==
    IF Visible(ds, d)
    THEN LET at == CHOOSE i \in DOMAIN ds : ds[i] = d
         IN [j \in 1 .. (Len(ds) - 1) |-> IF j < at THEN ds[j] ELSE ds[j + 1]]
    ELSE ds
OnTop(d) == dialogs # <<>> /\ dialogs[Len(dialogs)] = d
Idle == dialogs = <<>>

\* Mutant of Inform: the callback of an earlier popup stays assigned.
InformKeepsCallback(ds) ==
    /\ dialogs' = Showing(ds, "info")
    /\ UNCHANGED onCloseCallback

\* informationPopup shown by code that clears the callback first
Inform(ds) ==
    /\ dialogs' = Showing(ds, "info")
    /\ onCloseCallback' = "null"

-----------------------------------------------------------------------------
\* Construction: QtConcurrent::run of createTransaction, in any order of completion.

Ask ==
    /\ asked < MaxTx
    /\ asked' = asked + 1

\* handlePayment with a good amount, or "(all)"
HandlePayment ==
    /\ Idle
    /\ Ask
    /\ state' = [state EXCEPT ![asked + 1] = "creating"]
    /\ dialogs' = Showing(dialogs, "splash")
    /\ UNCHANGED <<auto, transaction, popupTx, onCloseCallback, viewOnly, allowed,
                   commits, decision>>

\* handlePayment with an amount that is not positive or above the balance
PaymentRefused ==
    /\ Idle
    /\ Inform(dialogs)
    /\ UNCHANGED <<asked, state, auto, transaction, popupTx, viewOnly, allowed,
                   commits, decision>>

\* The popup asks for confirmation of t.
Confirm(t, ds) ==
    /\ state' = [state EXCEPT ![t] = "live"]
    /\ popupTx' = t
    /\ dialogs' = Showing(ds, "popup")
    /\ UNCHANGED onCloseCallback

\* Mutant of Fail: the splash is not hidden.
FailKeepsSplash(t, ds) ==
    /\ state' = [state EXCEPT ![t] = "disposed"]
    /\ Inform(dialogs)
    /\ UNCHANGED popupTx

\* Construction failed or found nothing to send: the object is deleted.
Fail(t, ds) ==
    /\ state' = [state EXCEPT ![t] = "disposed"]
    /\ Inform(ds)
    /\ UNCHANGED popupTx

\* Mutant of OnTransactionCreated: the global is not assigned.
OnTransactionCreatedLocally(t) ==
    /\ state[t] = "creating"
    /\ t \notin auto
    /\ LET ds == Without(dialogs, "splash") IN Confirm(t, ds) \/ Fail(t, ds)
    /\ UNCHANGED <<asked, transaction, auto, viewOnly, allowed, commits, decision>>

OnTransactionCreated(t) ==
    /\ state[t] = "creating"
    /\ t \notin auto
    /\ transaction' = t
    /\ LET ds == Without(dialogs, "splash") IN Confirm(t, ds) \/ Fail(t, ds)
    /\ UNCHANGED <<asked, auto, viewOnly, allowed, commits, decision>>

\* Synchronous: the object is constructed and handled within the click.
HandleSweepUnmixable ==
    /\ Idle
    /\ Ask
    /\ transaction' = asked + 1
    /\ Confirm(asked + 1, dialogs) \/ Fail(asked + 1, dialogs)
    /\ UNCHANGED <<auto, viewOnly, allowed, commits, decision>>

-----------------------------------------------------------------------------
\* Automatic payments of the VPN dashboard.

HandleAutoPayment ==
    /\ "autoPayments" \in allowed
    /\ Ask
    /\ state' = [state EXCEPT ![asked + 1] = "creating"]
    /\ auto' = auto \cup {asked + 1}
    /\ UNCHANGED <<transaction, popupTx, dialogs, onCloseCallback, viewOnly, allowed,
                   commits, decision>>

\* The dashboard's own check of the amount fails.
AutoPaymentRefused ==
    /\ "autoPayments" \in allowed
    /\ Inform(Without(dialogs, "splash"))
    /\ UNCHANGED <<asked, state, auto, transaction, popupTx, viewOnly, allowed,
                   commits, decision>>

\* Mutant of OnTransactionAutoCreated: the committed object is not deleted.
OnTransactionAutoCreatedKeeps(t) ==
    /\ state[t] = "creating"
    /\ t \in auto
    /\ transaction' = t
    /\ LET ds == Without(dialogs, "splash")
       IN \/ Fail(t, ds) /\ UNCHANGED commits
          \/ /\ state' = [state EXCEPT ![t] = "live"]
             /\ commits' = [commits EXCEPT ![t] = @ + 1]
             /\ dialogs' = ds
             /\ UNCHANGED <<popupTx, onCloseCallback>>
    /\ UNCHANGED <<asked, auto, viewOnly, allowed, decision>>

\* Committed at once by handleTransactionAutoConfirmed, or failed; deleted anyway.
OnTransactionAutoCreated(t) ==
    /\ state[t] = "creating"
    /\ t \in auto
    /\ transaction' = t
    /\ LET ds == Without(dialogs, "splash")
       IN \/ Fail(t, ds) /\ UNCHANGED commits
          \/ /\ state' = [state EXCEPT ![t] = "disposed"]
             /\ commits' = [commits EXCEPT ![t] = @ + 1]
             /\ dialogs' = ds
             /\ UNCHANGED <<popupTx, onCloseCallback>>
    /\ UNCHANGED <<asked, auto, viewOnly, allowed, decision>>

-----------------------------------------------------------------------------
\* The user's answers.

Decide(word) ==
    decision' = IF popupTx # NoTx /\ state[popupTx] = "live"
                THEN [decision EXCEPT ![popupTx] = word]
                ELSE decision

PopupAccepted ==
    /\ OnTop("popup")
    /\ dialogs' = Showing(Without(dialogs, "popup"), "password")
    /\ Decide("confirmed")
    /\ UNCHANGED <<asked, state, auto, transaction, popupTx, onCloseCallback, viewOnly,
                   allowed, commits>>

\* None of the dialogs has a handler that deletes the transaction.
Cancelled(d) ==
    /\ d \in {"popup", "password", "saveTx"}
    /\ OnTop(d)
    /\ dialogs' = Without(dialogs, d)
    /\ Decide("cancelled")
    /\ UNCHANGED <<asked, state, auto, transaction, popupTx, onCloseCallback, viewOnly,
                   allowed, commits>>

\* Mutant of HandleTransactionConfirmed: the committed transaction is kept.
HandleTransactionConfirmedKeeps(ds) ==
    /\ UNCHANGED state
    /\ IF transaction # NoTx /\ state[transaction] = "live"
       THEN commits' = [commits EXCEPT ![transaction] = @ + 1] /\ Inform(ds)
       ELSE dialogs' = ds /\ UNCHANGED <<commits, onCloseCallback>>

\* handleTransactionConfirmed: commit, inform, delete.  The global of a deleted
\* object reads as null, and the first access to it throws.
HandleTransactionConfirmed(ds) ==
    IF transaction # NoTx /\ state[transaction] = "live"
    THEN /\ commits' = [commits EXCEPT ![transaction] = @ + 1]
         /\ state' = [state EXCEPT ![transaction] = "disposed"]
         /\ Inform(ds)
    ELSE /\ dialogs' = ds
         /\ UNCHANGED <<commits, state, onCloseCallback>>

PasswordRight ==
    /\ OnTop("password")
    /\ LET ds == Without(dialogs, "password")
       IN IF viewOnly
          THEN /\ dialogs' = Showing(ds, "saveTx")
               /\ UNCHANGED <<commits, state, onCloseCallback>>
          ELSE HandleTransactionConfirmed(ds)
    /\ UNCHANGED <<asked, auto, transaction, popupTx, viewOnly, allowed, decision>>

PasswordWrong ==
    /\ OnTop("password")
    /\ dialogs' = Showing(Without(dialogs, "password"), "info")
    /\ onCloseCallback' = "reopenPassword"
    /\ UNCHANGED <<asked, state, auto, transaction, popupTx, viewOnly, allowed,
                   commits, decision>>

SaveTxAccepted ==
    /\ OnTop("saveTx")
    /\ HandleTransactionConfirmed(Without(dialogs, "saveTx"))
    /\ UNCHANGED <<asked, auto, transaction, popupTx, viewOnly, allowed, decision>>

\* The popup closes before its callback runs; the callback stays assigned.
InfoClosed ==
    /\ OnTop("info")
    /\ LET ds == Without(dialogs, "info")
       IN dialogs' = IF onCloseCallback = "null" THEN ds ELSE Showing(ds, "password")
    /\ UNCHANGED <<asked, state, auto, transaction, popupTx, onCloseCallback, viewOnly, allowed,
                   commits, decision>>

\* The result is shown without assigning a callback, an internal error with one.
HandleCheckPayment ==
    /\ "paymentChecks" \in allowed
    /\ Idle
    /\ dialogs' = Showing(dialogs, "info")
    /\ onCloseCallback' \in {onCloseCallback, "null"}
    /\ UNCHANGED <<asked, state, auto, transaction, popupTx, viewOnly, allowed,
                   commits, decision>>

SplashClosed ==
    /\ "splashClosing" \in allowed
    /\ OnTop("splash")
    /\ dialogs' = Without(dialogs, "splash")
    /\ UNCHANGED <<asked, state, auto, transaction, popupTx, onCloseCallback, viewOnly, allowed,
                   commits, decision>>

-----------------------------------------------------------------------------
Init ==
    /\ asked = 0
    /\ state = [t \in Txs |-> "none"]
    /\ auto = {}
    /\ transaction = NoTx
    /\ popupTx = NoTx
    /\ dialogs = <<>>
    /\ onCloseCallback = "null"
    /\ viewOnly \in BOOLEAN
    /\ allowed \in Surroundings
    /\ commits = [t \in Txs |-> 0]
    /\ decision = [t \in Txs |-> "none"]

Created == \E t \in Txs : OnTransactionCreated(t) \/ OnTransactionAutoCreated(t)

User ==
    \/ HandlePayment \/ PaymentRefused \/ HandleSweepUnmixable
    \/ PopupAccepted \/ PasswordRight \/ PasswordWrong \/ SaveTxAccepted
    \/ \E d \in Dialogs : Cancelled(d)
    \/ InfoClosed \/ HandleCheckPayment \/ SplashClosed

Next == Created \/ User \/ HandleAutoPayment \/ AutoPaymentRefused

Spec == Init /\ [][Next]_vars

\* Construction ends and its signal is delivered; nobody has to answer a dialog.
FairSpec == Spec /\ WF_vars(Created)

-----------------------------------------------------------------------------
\* No money leaves the wallet by hand but what the user has accepted in the
\* confirmation popup and not cancelled since, whatever dialogs, callbacks and
\* completions come in between ("called after user confirms transaction").
NothingSentUnconfirmed ==
    \A t \in Txs \ auto : commits[t] > 0 => decision[t] = "confirmed"

\* A transaction is committed at most once, by hand or automatically.
CommittedAtMostOnce == \A t \in Txs : commits[t] <= 1

\* While the user is asked to confirm, to sign or to save, what the popup
\* described is what commit would send, and it still exists.
DialogIsAboutTransaction ==
    \A i \in DOMAIN dialogs :
        dialogs[i] \in {"popup", "password", "saveTx"} =>
            popupTx = transaction /\ transaction # NoTx /\ state[transaction] = "live"

\* The first for payments nothing else interferes with: each of the Activities
\* by itself can lead to money the user has not confirmed.
NothingSentUnconfirmedAlone == allowed = {} => NothingSentUnconfirmed

\* The second also for a user who checks payments in between: the password that
\* a stale callback asks for still signs what the popup last described.
DialogIsAboutTransactionAlone ==
    allowed \subseteq {"paymentChecks"} => DialogIsAboutTransaction

\* What Ledger calls the phase of t.
Phase(t) == CASE state[t] = "creating" -> "building"
              [] state[t] = "live" -> "built"
              [] state[t] = "disposed" -> "gone"
              [] OTHER -> "none"

\* All the dialogs come to a ledger, guarded by the user's word when nothing
\* else goes on: what is sent was built, accepted and not sent before.
Book == INSTANCE Ledger WITH
    phase <- [t \in Txs |-> Phase(t)],
    automatic <- auto,
    accepted <- {t \in Txs : decision[t] = "confirmed"},
    sent <- commits,
    guarded <- (allowed = {})
ImplementsLedger == Book!Spec

\* The splash that blocks the whole GUI while a transaction is built goes away.
SplashGoes == Visible(dialogs, "splash") ~> ~Visible(dialogs, "splash")
=============================================================================
