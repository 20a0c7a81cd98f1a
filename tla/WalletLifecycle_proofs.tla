----------------------- MODULE WalletLifecycle_proofs -----------------------
(***************************************************************************)
(* Theorems about WalletLifecycle, for any number of pool threads and any  *)
(* bounds: the manager never leaks a Wallet object, whatever tasks,        *)
(* signals and user actions interleave, and implements WalletSlot; the GUI *)
(* of a patient user agrees with it; no task is stuck, and the GUI settles.*)
(***************************************************************************)
EXTENDS WalletLifecycle, FiniteSetTheorems, TLAPS

\* A sequence over a set is a sequence over every larger set.
LEMMA SeqMono ==
    ASSUME NEW S, NEW T, S \subseteq T, NEW s \in Seq(S)
    PROVE  s \in Seq(T)
  OBVIOUS

\* What the queue operations keep of a sequence's type.
LEMMA SeqAppend ==
    ASSUME NEW S, NEW s \in Seq(S), NEW e \in S
    PROVE  Append(s, e) \in Seq(S)
  OBVIOUS

LEMMA SeqHeadTail ==
    ASSUME NEW S, NEW s \in Seq(S), s # <<>>
    PROVE  Head(s) \in S /\ Tail(s) \in Seq(S)
  OBVIOUS

\* Events of the wallets constructed so far stay well typed when one more is.
LEMMA EventsGrow ==
    ASSUME NEW n \in Nat, NEW es \in Seq([op : Ops, wallet : 0 .. n])
    PROVE  es \in Seq([op : Ops, wallet : 0 .. (n + 1)])
  <1>1. [op : Ops, wallet : 0 .. n] \subseteq [op : Ops, wallet : 0 .. (n + 1)]
    OBVIOUS
  <1>2. QED BY <1>1, SeqMono

LEMMA TypeInit == Init => TypeOK
  <1>1. SUFFICES ASSUME Init PROVE TypeOK
    OBVIOUS
  <1>2. MaxWallets \in Nat
    BY LifecycleAssumption DEF LifecycleAssumption
  <1>3. queue \in Seq(Ops)
    <2>1. <<>> \in Seq(Ops) /\ "open" \in Ops
      BY DEF Ops
    <2>2. <<"open">> \in Seq(Ops)
      BY <2>1
    <2>3. QED BY <1>1, <2>1, <2>2 DEF Init
  <1>4. thread \in [Threads -> ThreadStates]
    BY <1>1 DEF Init, ThreadStates
  <1>5. QED BY <1>1, <1>2, <1>3, <1>4 DEF Init, TypeOK, NoWallet

\* The manager's part of the type survives the deletion of the current wallet
\* and the construction of a new one.
LEMMA TypeDelete ==
    ASSUME TypeOK, DeleteCurrent, UNCHANGED created
    PROVE  alive' \subseteq 1 .. created' /\ current' \in 0 .. created'
  BY DEF TypeOK, DeleteCurrent, NoWallet

LEMMA TypeNew ==
    ASSUME TypeOK, NEW remaining, remaining \subseteq alive, NewCurrent(remaining)
    PROVE  /\ created' \in 0 .. MaxWallets
           /\ created' = created + 1
           /\ alive' \subseteq 1 .. created'
           /\ current' \in 0 .. created'
           /\ events \in Seq([op : Ops, wallet : 0 .. created'])
           /\ currentWallet \in 0 .. created'
           /\ wizardWallet \in 0 .. created'
  <1>1. MaxWallets \in Nat
    BY LifecycleAssumption DEF LifecycleAssumption
  <1>2. created \in Nat /\ events \in Seq([op : Ops, wallet : 0 .. created])
    BY <1>1 DEF TypeOK
  <1>3. events \in Seq([op : Ops, wallet : 0 .. created'])
    BY <1>2, EventsGrow DEF NewCurrent
  <1>4. QED BY <1>1, <1>2, <1>3 DEF TypeOK, NewCurrent

\* What the QML functions leave in currentWallet, payHandlers and the queue.
LEMMA TypeConnect ==
    ASSUME TypeOK, NEW w \in 0 .. created, ConnectWallet(w)
    PROVE  currentWallet' \in 0 .. created /\ payHandlers' \in Nat
  BY DEF TypeOK, ConnectWallet

LEMMA TypeClose ==
    ASSUME TypeOK, CloseWallet
    PROVE  currentWallet' \in 0 .. created /\ payHandlers' \in Nat
  <1>1. created \in Nat
    BY LifecycleAssumption DEF LifecycleAssumption, TypeOK
  <1>2. QED BY <1>1 DEF TypeOK, CloseWallet, NoWallet

LEMMA TypeSubmit ==
    ASSUME TypeOK, NEW ops \in Seq(Ops), Submit(ops)
    PROVE  queue' \in Seq(Ops)
  BY DEF TypeOK, Submit

LEMMA OpSequences == <<>> \in Seq(Ops) /\ <<"open">> \in Seq(Ops) /\ <<"close">> \in Seq(Ops)
                     /\ <<"close", "open">> \in Seq(Ops)
  <1>1. "open" \in Ops /\ "close" \in Ops
    BY DEF Ops
  <1>2. QED BY <1>1

LEMMA TypeInitialize ==
    ASSUME TypeOK, Initialize
    PROVE  /\ currentWallet' \in 0 .. created
           /\ wizardWallet' \in 0 .. created
           /\ payHandlers' \in Nat
           /\ queue' \in Seq(Ops)
  <1>1. created \in Nat
    BY LifecycleAssumption DEF LifecycleAssumption, TypeOK
  <1>2. CASE InitializeFromWizard
    <2>1. queue' \in Seq(Ops)
      BY <1>2, OpSequences, TypeSubmit DEF InitializeFromWizard
    <2>2. QED BY <1>1, <1>2, <2>1 DEF InitializeFromWizard, TypeOK, NoWallet
  <1>3. CASE InitializeFromFile /\ UNCHANGED wizardWallet
    <2>1. queue' \in Seq(Ops)
      BY <1>3, OpSequences, TypeSubmit DEF InitializeFromFile
    <2>2. QED BY <1>3, <2>1, TypeClose DEF InitializeFromFile, TypeOK
  <1>4. QED BY <1>2, <1>3 DEF Initialize

LEMMA TypePool ==
    ASSUME TypeOK, NEW th \in Threads
    PROVE  /\ TakeTask(th) => TypeOK'
           /\ BeginOpen(th) => TypeOK'
           /\ EndOpen(th) => TypeOK'
           /\ BeginClose(th) => TypeOK'
           /\ EndClose(th) => TypeOK'
  <1>1. ASSUME TakeTask(th) PROVE TypeOK'
    <2>1. queue' \in Seq(Ops)
      BY <1>1 DEF TypeOK, TakeTask
    <2>2. thread' \in [Threads -> ThreadStates]
      BY <1>1 DEF TypeOK, TakeTask, ThreadStates
    <2>3. QED BY <1>1, <2>1, <2>2 DEF TypeOK, TakeTask, managerVars, guiVars
  <1>2. ASSUME BeginOpen(th) PROVE TypeOK'
    <2>1. thread' \in [Threads -> ThreadStates]
      BY <1>2 DEF TypeOK, BeginOpen, ThreadStates
    <2>2. QED BY <1>2, <2>1, TypeDelete DEF TypeOK, BeginOpen, guiVars
  <1>3. ASSUME EndOpen(th) PROVE TypeOK'
    <2>1. thread' \in [Threads -> ThreadStates]
      BY <1>3 DEF TypeOK, EndOpen, ThreadStates
    <2>2. NewCurrent(alive)
      BY <1>3 DEF EndOpen
    <2>3. created \in Nat
      BY LifecycleAssumption DEF LifecycleAssumption, TypeOK
    <2>4. [op |-> "open", wallet |-> created + 1] \in [op : Ops, wallet : 0 .. created']
      BY <2>2, <2>3, TypeNew DEF Ops
    <2>5. events' \in Seq([op : Ops, wallet : 0 .. created'])
      <3>1. events \in Seq([op : Ops, wallet : 0 .. created'])
        BY <2>2, TypeNew
      <3>2. events' = Append(events, [op |-> "open", wallet |-> created + 1])
        BY <1>3 DEF EndOpen
      <3>3. QED BY <2>4, <3>1, <3>2, SeqAppend
    <2>6. QED BY <1>3, <2>1, <2>2, <2>5, TypeNew DEF TypeOK, EndOpen, guiVars
  <1>4. ASSUME BeginClose(th) PROVE TypeOK'
    <2>1. thread' \in [Threads -> ThreadStates]
      BY <1>4 DEF TypeOK, BeginClose, ThreadStates
    <2>2. QED BY <1>4, <2>1, TypeDelete DEF TypeOK, BeginClose, guiVars
  <1>5. ASSUME EndClose(th) PROVE TypeOK'
    <2>1. thread' \in [Threads -> ThreadStates]
      BY <1>5 DEF TypeOK, EndClose, ThreadStates
    <2>2. created \in Nat
      BY LifecycleAssumption DEF LifecycleAssumption, TypeOK
    <2>3. [op |-> "close", wallet |-> NoWallet] \in [op : Ops, wallet : 0 .. created]
      BY <2>2 DEF Ops, NoWallet
    <2>4. events' \in Seq([op : Ops, wallet : 0 .. created])
      BY <1>5, <2>3 DEF TypeOK, EndClose
    <2>5. QED BY <1>5, <2>1, <2>4 DEF TypeOK, EndClose, managerVars, guiVars
  <1>6. QED BY <1>1, <1>2, <1>3, <1>4, <1>5

LEMMA TypeDeliver ==
    ASSUME TypeOK, Deliver
    PROVE  TypeOK'
  <1>1. CASE WalletOpened
    <2> DEFINE w == Head(events).wallet
    <2>1. w \in 0 .. created /\ events' \in Seq([op : Ops, wallet : 0 .. created])
      <3>1. events \in Seq([op : Ops, wallet : 0 .. created]) /\ events # <<>>
            /\ events' = Tail(events)
        BY <1>1 DEF TypeOK, WalletOpened
      <3>2. Head(events) \in [op : Ops, wallet : 0 .. created]
            /\ Tail(events) \in Seq([op : Ops, wallet : 0 .. created])
        BY <3>1, SeqHeadTail
      <3>3. w \in 0 .. created
        BY <3>2
      <3>4. QED BY <3>1, <3>2, <3>3
    <2>2. ASSUME OpenSucceeded(w)
          PROVE  /\ currentWallet' \in 0 .. created /\ payHandlers' \in Nat
                 /\ queue' \in Seq(Ops) /\ dialog' \in {"none", "password", "info", "file"}
                 /\ outcome' = outcome
      BY <2>1, <2>2, TypeConnect DEF OpenSucceeded, TypeOK
    <2>3. ASSUME OpenFailed
          PROVE  /\ currentWallet' \in 0 .. created /\ payHandlers' \in Nat
                 /\ queue' \in Seq(Ops) /\ dialog' \in {"none", "password", "info", "file"}
                 /\ outcome' = outcome
      <3>1. queue' \in Seq(Ops)
        BY <2>3, OpSequences, TypeSubmit DEF OpenFailed
      <3>2. QED BY <2>3, <3>1, TypeClose DEF OpenFailed
    <2>4. CASE outcome' = "crashed" /\ UNCHANGED <<queue, currentWallet, payHandlers, dialog>>
      BY <1>1, <2>1, <2>4 DEF TypeOK, WalletOpened, managerVars
    <2>5. CASE OpenSucceeded(w)
      BY <1>1, <2>1, <2>2, <2>5 DEF TypeOK, WalletOpened, managerVars
    <2>6. CASE OpenFailed
      BY <1>1, <2>1, <2>3, <2>6 DEF TypeOK, WalletOpened, managerVars
    <2>7. QED BY <1>1, <2>4, <2>5, <2>6 DEF WalletOpened, OpenedDangling
  <1>2. CASE WalletClosed
    <2>1. events' \in Seq([op : Ops, wallet : 0 .. created])
      BY <1>2 DEF TypeOK, WalletClosed
    <2>2. QED BY <1>2, <2>1 DEF TypeOK, WalletClosed, managerVars, guiVars
  <1>3. QED BY <1>1, <1>2 DEF Deliver

LEMMA TypeUser ==
    ASSUME TypeOK, User
    PROVE  TypeOK'
  <1>1. created \in Nat /\ MaxWallets \in Nat
    BY LifecycleAssumption DEF LifecycleAssumption, TypeOK
  <1>2. CASE PasswordAccepted
    BY <1>2, TypeInitialize DEF TypeOK, PasswordAccepted, managerVars
  <1>3. CASE PasswordRejected
    BY <1>3 DEF TypeOK, PasswordRejected, managerVars, poolVars
  <1>4. CASE InfoClosed
    BY <1>4 DEF TypeOK, InfoClosed, managerVars, poolVars
  <1>5. CASE ShowWizard
    <2>1. queue' \in Seq(Ops)
      BY <1>5, OpSequences, TypeSubmit DEF ShowWizard
    <2>2. QED BY <1>1, <1>5, <2>1, TypeClose DEF TypeOK, ShowWizard, managerVars, NoWallet
  <1>6. CASE RescanCache
    <2>1. queue' \in Seq(Ops)
      BY <1>6, OpSequences, TypeSubmit DEF RescanCache
    <2>2. QED BY <1>6, <2>1, TypeDelete DEF TypeOK, RescanCache, guiVars
  <1>7. CASE WizardNewWallet
    <2>1. alive \ {current} \subseteq alive
      OBVIOUS
    <2>2. NewCurrent(alive \ {current})
      BY <1>7 DEF WizardNewWallet
    <2>3. wizardWallet' \in 0 .. created'
      BY <1>1, <1>7, <2>1, <2>2, TypeNew DEF WizardNewWallet
    <2>4. QED BY <1>7, <2>1, <2>2, <2>3, TypeNew DEF TypeOK, WizardNewWallet, poolVars
  <1>8. CASE WizardRecoverFailed
    <2>1. events \in Seq([op : Ops, wallet : 0 .. created'])
      BY <1>1, <1>8, EventsGrow DEF TypeOK, WizardRecoverFailed
    <2>2. alive' \subseteq 1 .. created' /\ current' \in 0 .. created'
      BY <1>1, <1>8 DEF TypeOK, WizardRecoverFailed, DeleteCurrent, NoWallet
    <2>3. QED BY <1>1, <1>8, <2>1, <2>2 DEF TypeOK, WizardRecoverFailed, poolVars, guiVars
  <1>9. CASE UseMonero
    BY <1>9, TypeInitialize DEF TypeOK, UseMonero, managerVars
  <1>10. CASE OpenWalletFromFile
    BY <1>1, <1>10 DEF TypeOK, OpenWalletFromFile, poolVars, NoWallet
  <1>11. CASE FileAccepted
    BY <1>11, TypeInitialize DEF TypeOK, FileAccepted, managerVars
  <1>12. CASE FileRejected
    BY <1>12 DEF TypeOK, FileRejected, managerVars, poolVars
  <1>13. CASE OpenViewOnlyWizard
    BY <1>13 DEF TypeOK, OpenViewOnlyWizard, managerVars, poolVars
  <1>14. CASE LeaveViewOnlyWizard
    BY <1>1, <1>14 DEF TypeOK, LeaveViewOnlyWizard, managerVars, poolVars, NoWallet
  <1>15. CASE CloseAccepted
    BY <1>15, TypeDelete DEF TypeOK, CloseAccepted, poolVars, guiVars
  <1>16. QED
    BY <1>2, <1>3, <1>4, <1>5, <1>6, <1>7, <1>8, <1>9, <1>10, <1>11, <1>12, <1>13,
       <1>14, <1>15 DEF User

\* The variables of the manager, the pool and the GUI keep their types: no
\* wallet is referred to before it is constructed, and the number of handler
\* connections never becomes negative.
THEOREM TypeCorrect == Spec => []TypeOK
  <1>1. TypeOK /\ [Next]_vars => TypeOK'
    <2>1. SUFFICES ASSUME TypeOK, [Next]_vars PROVE TypeOK'
      OBVIOUS
    <2>2. CASE UNCHANGED vars
      BY <2>1, <2>2 DEF TypeOK, vars, managerVars, poolVars, guiVars
    <2>3. CASE Pool
      BY <2>1, <2>3, TypePool DEF Pool
    <2>4. QED BY <2>1, <2>2, <2>3, TypeDeliver, TypeUser DEF Next
  <1>2. QED BY <1>1, TypeInit, PTL DEF Spec

-----------------------------------------------------------------------------
(* NoWalletLeaked needs to know why a task that constructs a wallet finds no *)
(* other one: the mutex lets one thread in, and the task has deleted the     *)
(* current wallet on entering.                                               *)

OneHolder ==
    \A th1, th2 \in Threads : thread[th1] \in Holding /\ thread[th2] \in Holding => th1 = th2

OpeningOnNothing == \A th \in Threads : thread[th] = "opening" => current = NoWallet

LifecycleInv == TypeOK /\ NoWalletLeaked /\ OneHolder /\ OpeningOnNothing

LEMMA LifecycleInvInit == Init => LifecycleInv
  <1>1. ASSUME Init PROVE NoWalletLeaked /\ OneHolder /\ OpeningOnNothing
    BY <1>1 DEF Init, NoWalletLeaked, OneHolder, OpeningOnNothing, Holding, NoWallet
  <1>2. QED BY <1>1, TypeInit DEF LifecycleInv

\* Deleting the current wallet leaves none.
LEMMA DeleteLeavesNone ==
    ASSUME NoWalletLeaked, DeleteCurrent
    PROVE  alive' = {} /\ current' = NoWallet /\ NoWalletLeaked'
  BY DEF NoWalletLeaked, DeleteCurrent, NoWallet

\* A step of the GUI that leaves the manager alone and the pool's threads too.
LEMMA ManagerUntouched ==
    ASSUME LifecycleInv, UNCHANGED <<managerVars, thread>>
    PROVE  NoWalletLeaked' /\ OneHolder' /\ OpeningOnNothing'
  BY DEF LifecycleInv, NoWalletLeaked, OneHolder, OpeningOnNothing, managerVars

LEMMA LeakPool ==
    ASSUME LifecycleInv, NEW th \in Threads
    PROVE  /\ TakeTask(th) => NoWalletLeaked' /\ OneHolder' /\ OpeningOnNothing'
           /\ BeginOpen(th) => NoWalletLeaked' /\ OneHolder' /\ OpeningOnNothing'
           /\ EndOpen(th) => NoWalletLeaked' /\ OneHolder' /\ OpeningOnNothing'
           /\ BeginClose(th) => NoWalletLeaked' /\ OneHolder' /\ OpeningOnNothing'
           /\ EndClose(th) => NoWalletLeaked' /\ OneHolder' /\ OpeningOnNothing'
  <1>0. thread \in [Threads -> ThreadStates] /\ created \in Nat
    BY LifecycleAssumption DEF LifecycleInv, TypeOK, LifecycleAssumption
  <1>1. ASSUME TakeTask(th) PROVE NoWalletLeaked' /\ OneHolder' /\ OpeningOnNothing'
    BY <1>0, <1>1 DEF LifecycleInv, TakeTask, NoWalletLeaked, OneHolder, OpeningOnNothing,
       Holding, managerVars
  <1>2. ASSUME BeginOpen(th) PROVE NoWalletLeaked' /\ OneHolder' /\ OpeningOnNothing'
    <2>1. NoWalletLeaked' /\ current' = NoWallet
      BY <1>2, DeleteLeavesNone DEF LifecycleInv, BeginOpen
    <2>2. OneHolder'
      BY <1>0, <1>2 DEF LifecycleInv, BeginOpen, MutexFree, OneHolder
    <2>3. QED BY <2>1, <2>2 DEF OpeningOnNothing
  <1>3. ASSUME EndOpen(th) PROVE NoWalletLeaked' /\ OneHolder' /\ OpeningOnNothing'
    <2>1. thread[th] = "opening" /\ thread' = [thread EXCEPT ![th] = "idle"]
      BY <1>3 DEF EndOpen
    <2>2. alive = {}
      BY <2>1 DEF LifecycleInv, NoWalletLeaked, OpeningOnNothing
    <2>3. NoWalletLeaked'
      BY <1>0, <1>3, <2>2 DEF EndOpen, NewCurrent, NoWalletLeaked, NoWallet
    <2>4. \A th2 \in Threads : thread'[th2] \notin Holding
      BY <1>0, <2>1 DEF LifecycleInv, OneHolder, Holding
    <2>5. QED BY <2>3, <2>4 DEF OneHolder, OpeningOnNothing, Holding
  <1>4. ASSUME BeginClose(th) PROVE NoWalletLeaked' /\ OneHolder' /\ OpeningOnNothing'
    <2>1. NoWalletLeaked' /\ current' = NoWallet
      BY <1>4, DeleteLeavesNone DEF LifecycleInv, BeginClose
    <2>2. OneHolder'
      BY <1>0, <1>4 DEF LifecycleInv, BeginClose, MutexFree, OneHolder
    <2>3. QED BY <2>1, <2>2 DEF OpeningOnNothing
  <1>5. ASSUME EndClose(th) PROVE NoWalletLeaked' /\ OneHolder' /\ OpeningOnNothing'
    BY <1>0, <1>5 DEF LifecycleInv, EndClose, NoWalletLeaked, OneHolder, OpeningOnNothing,
       Holding, managerVars
  <1>6. QED BY <1>1, <1>2, <1>3, <1>4, <1>5

LEMMA LeakUser ==
    ASSUME LifecycleInv, User
    PROVE  NoWalletLeaked' /\ OneHolder' /\ OpeningOnNothing'
  <1>1. CASE RescanCache \/ CloseAccepted
    <2>1. DeleteCurrent /\ UNCHANGED thread
      BY <1>1 DEF RescanCache, CloseAccepted, poolVars
    <2>2. NoWalletLeaked' /\ current' = NoWallet
      BY <2>1, DeleteLeavesNone DEF LifecycleInv
    <2>3. QED BY <2>1, <2>2 DEF LifecycleInv, OneHolder, OpeningOnNothing
  <1>2. CASE WizardRecoverFailed
    <2>1. DeleteCurrent /\ UNCHANGED thread
      BY <1>2 DEF WizardRecoverFailed, poolVars
    <2>2. NoWalletLeaked' /\ current' = NoWallet
      BY <2>1, DeleteLeavesNone DEF LifecycleInv
    <2>3. QED BY <2>1, <2>2 DEF LifecycleInv, OneHolder, OpeningOnNothing
  <1>3. CASE WizardNewWallet
    <2>1. MutexFree /\ NewCurrent(alive \ {current}) /\ UNCHANGED thread
      BY <1>3 DEF WizardNewWallet, poolVars
    <2>2. created \in Nat
      BY LifecycleAssumption DEF LifecycleInv, TypeOK, LifecycleAssumption
    <2>3. NoWalletLeaked'
      BY <2>1, <2>2 DEF LifecycleInv, NoWalletLeaked, NewCurrent, NoWallet
    <2>4. QED BY <2>1, <2>3 DEF LifecycleInv, MutexFree, OneHolder, OpeningOnNothing, Holding
  <1>4. CASE OpenWalletFromFile
    <2>1. wizardWallet \in alive \cup {NoWallet} /\ alive' = alive \ {wizardWallet}
          /\ current' = (IF current = wizardWallet THEN NoWallet ELSE current)
          /\ UNCHANGED thread
      BY <1>4 DEF OpenWalletFromFile, poolVars
    <2>2. NoWalletLeaked'
      BY <2>1 DEF LifecycleInv, NoWalletLeaked, NoWallet
    <2>3. QED BY <2>1, <2>2 DEF LifecycleInv, OneHolder, OpeningOnNothing
  <1>5. CASE UNCHANGED <<managerVars, thread>>
    BY <1>5, ManagerUntouched
  <1>6. PasswordAccepted \/ PasswordRejected \/ InfoClosed \/ ShowWizard \/ UseMonero
        \/ FileAccepted \/ FileRejected \/ OpenViewOnlyWizard \/ LeaveViewOnlyWizard
        => UNCHANGED <<managerVars, thread>>
    BY DEF PasswordAccepted, PasswordRejected, InfoClosed, ShowWizard, UseMonero,
       FileAccepted, FileRejected, OpenViewOnlyWizard, LeaveViewOnlyWizard, poolVars
  <1>7. QED BY <1>1, <1>2, <1>3, <1>4, <1>5, <1>6 DEF User

LEMMA LifecycleInvNext ==
    ASSUME LifecycleInv, [Next]_vars
    PROVE  LifecycleInv'
  <1>1. TypeOK'
    <2>1. CASE UNCHANGED vars
      BY <2>1 DEF LifecycleInv, TypeOK, vars, managerVars, poolVars, guiVars
    <2>2. CASE Pool
      BY <2>2, TypePool DEF LifecycleInv, Pool
    <2>3. QED BY <2>1, <2>2, TypeDeliver, TypeUser DEF LifecycleInv, Next
  <1>2. NoWalletLeaked' /\ OneHolder' /\ OpeningOnNothing'
    <2>1. CASE UNCHANGED vars \/ Deliver
      <3>1. UNCHANGED <<managerVars, thread>>
        BY <2>1 DEF vars, poolVars, Deliver, WalletOpened, WalletClosed
      <3>2. QED BY <3>1, ManagerUntouched
    <2>2. CASE Pool
      BY <2>2, LeakPool DEF Pool
    <2>3. QED BY <2>1, <2>2, LeakUser DEF Next
  <1>3. QED BY <1>1, <1>2 DEF LifecycleInv

\* The manager never leaks a Wallet: however the pool's tasks, the signals and
\* the wizard's synchronous calls interleave, the only object alive is the one
\* m_currentWallet points to.
THEOREM NothingLeaks == Spec => []NoWalletLeaked
  <1>1. LifecycleInv => NoWalletLeaked
    BY DEF LifecycleInv
  <1>2. QED BY <1>1, LifecycleInvInit, LifecycleInvNext, PTL DEF Spec

\* The manager's mutex admits one thread at a time.
THEOREM MutexExcludes == Spec => []OneHolder
  <1>1. LifecycleInv => OneHolder
    BY DEF LifecycleInv
  <1>2. QED BY <1>1, LifecycleInvInit, LifecycleInvNext, PTL DEF Spec
-----------------------------------------------------------------------------
(* WalletLifecycle implements WalletSlot.  Most steps leave the number of    *)
(* requests under way alone: a task moves from the queue to a thread and its *)
(* result to the event queue.                                                *)

Busy == {th \in Threads : thread[th] # "idle"}

LEMMA BusyFinite ==
    ASSUME TypeOK
    PROVE  IsFiniteSet(Busy) /\ Cardinality(Busy) \in Nat
  <1>1. IsFiniteSet(Threads)
    BY LifecycleAssumption DEF LifecycleAssumption
  <1>2. IsFiniteSet(Busy)
    BY <1>1, FS_Subset DEF Busy
  <1>3. QED BY <1>2, FS_CardinalityType

LEMMA PendingType ==
    ASSUME TypeOK
    PROVE  /\ Pending = Len(queue) + Len(events) + Cardinality(Busy)
           /\ Pending \in Nat
           /\ Len(queue) \in Nat /\ Len(events) \in Nat /\ Cardinality(Busy) \in Nat
  <1>1. Len(queue) \in Nat /\ Len(events) \in Nat
    BY DEF TypeOK
  <1>2. QED BY <1>1, BusyFinite DEF Pending, Busy

\* A thread that becomes busy, and one that becomes idle.
LEMMA BusyMore ==
    ASSUME TypeOK, NEW th \in Threads, thread[th] = "idle",
           NEW s, s # "idle", thread' = [thread EXCEPT ![th] = s]
    PROVE  Cardinality(Busy') = Cardinality(Busy) + 1
  <1>1. Busy' = Busy \cup {th} /\ th \notin Busy
    BY DEF TypeOK, Busy
  <1>2. QED BY <1>1, BusyFinite, FS_AddElement

LEMMA BusyLess ==
    ASSUME TypeOK, NEW th \in Threads, thread[th] # "idle",
           thread' = [thread EXCEPT ![th] = "idle"]
    PROVE  Cardinality(Busy') = Cardinality(Busy) - 1
  <1>1. Busy' = Busy \ {th} /\ th \in Busy
    BY DEF TypeOK, Busy
  <1>2. QED BY <1>1, BusyFinite, FS_RemoveElement

LEMMA BusySame ==
    ASSUME TypeOK, NEW th \in Threads, thread[th] # "idle",
           NEW s, s # "idle", thread' = [thread EXCEPT ![th] = s]
    PROVE  Busy' = Busy
  BY DEF TypeOK, Busy

LEMMA SlotInit == Init => Slot!Init
  <1>1. SUFFICES ASSUME Init PROVE Slot!Init
    OBVIOUS
  <1>2. Busy = {}
    BY <1>1 DEF Init, Busy
  <1>3. Len(queue) \in 0 .. 1 /\ Len(events) = 0
    BY <1>1 DEF Init
  <1>4. Pending \in 0 .. 1
    <2>1. Cardinality(Busy) = 0
      BY <1>2, FS_EmptySet
    <2>2. Pending = Len(queue) + Len(events) + Cardinality(Busy)
      BY DEF Pending, Busy
    <2>3. QED BY <1>3, <2>1, <2>2
  <1>5. QED BY <1>1, <1>4 DEF Init, Slot!Init

LEMMA SlotPool ==
    ASSUME LifecycleInv, NEW th \in Threads,
           TakeTask(th) \/ BeginOpen(th) \/ EndOpen(th) \/ BeginClose(th) \/ EndClose(th),
           TypeOK'
    PROVE  [Slot!Next]_(Slot!slot)
  <1>1. TypeOK /\ created \in Nat
    BY LifecycleAssumption DEF LifecycleInv, TypeOK, LifecycleAssumption
  <1>2. CASE TakeTask(th)
    <2>1. Len(queue') = Len(queue) - 1 /\ Len(events') = Len(events)
      BY <1>1, <1>2 DEF TypeOK, TakeTask
    <2>2. Cardinality(Busy') = Cardinality(Busy) + 1
      <3>1. PICK s \in {"openWaits", "closeWaits"} : thread' = [thread EXCEPT ![th] = s]
        BY <1>2 DEF TakeTask
      <3>2. s # "idle" /\ thread[th] = "idle"
        BY <1>2 DEF TakeTask
      <3>3. QED BY <1>1, <3>1, <3>2, BusyMore
    <2>3. Pending' = Pending
      BY <1>1, <2>1, <2>2, PendingType DEF Pending, Busy
    <2>4. QED BY <1>2, <2>3 DEF TakeTask, managerVars, Slot!slot
  <1>3. CASE BeginOpen(th) \/ BeginClose(th)
    <2>1. Busy' = Busy
      BY <1>1, <1>3, BusySame DEF BeginOpen, BeginClose
    <2>2. Pending' = Pending
      BY <1>3, <2>1 DEF Pending, Busy, BeginOpen, BeginClose
    <2>3. alive' = {} /\ created' = created
      BY <1>3, DeleteLeavesNone DEF LifecycleInv, BeginOpen, BeginClose
    <2>4. QED BY <2>2, <2>3 DEF Slot!Next, Slot!Close
  <1>4. CASE EndOpen(th)
    <2>1. Len(queue') = Len(queue) /\ Len(events') = Len(events) + 1
      BY <1>1, <1>4 DEF TypeOK, EndOpen
    <2>2. Cardinality(Busy') = Cardinality(Busy) - 1
      BY <1>1, <1>4, BusyLess DEF EndOpen
    <2>3. Pending' = Pending
      BY <1>1, <2>1, <2>2, PendingType DEF Pending, Busy
    <2>4. alive = {}
      BY <1>4 DEF LifecycleInv, NoWalletLeaked, OpeningOnNothing, EndOpen
    <2>5. created' = created + 1 /\ alive' = {created'}
      BY <1>4, <2>4 DEF EndOpen, NewCurrent
    <2>6. QED BY <2>3, <2>5 DEF Slot!Next, Slot!Open
  <1>5. CASE EndClose(th)
    <2>1. Len(queue') = Len(queue) /\ Len(events') = Len(events) + 1
      BY <1>1, <1>5 DEF TypeOK, EndClose
    <2>2. Cardinality(Busy') = Cardinality(Busy) - 1
      BY <1>1, <1>5, BusyLess DEF EndClose
    <2>3. Pending' = Pending
      BY <1>1, <2>1, <2>2, PendingType DEF Pending, Busy
    <2>4. QED BY <1>5, <2>3 DEF EndClose, managerVars, Slot!slot
  <1>6. QED BY <1>2, <1>3, <1>4, <1>5

\* Requests counted: a step that submits ops and takes no signal.
LEMMA PendingSubmit ==
    ASSUME TypeOK, NEW ops \in Seq(Ops), Submit(ops), UNCHANGED <<thread, events>>
    PROVE  Pending' = Pending + Len(ops)
  <1>1. Len(queue') = Len(queue) + Len(ops) /\ Len(ops) \in Nat
    BY DEF TypeOK, Submit
  <1>2. Len(events') = Len(events) /\ Busy' = Busy
    BY DEF Busy
  <1>3. QED BY <1>1, <1>2, PendingType DEF Pending, Busy

LEMMA SubmitLengths == /\ Len(<<>>) = 0 /\ Len(<<"open">>) = 1 /\ Len(<<"close">>) = 1
                       /\ Len(<<"close", "open">>) = 2
  OBVIOUS

\* initialize() asks for one thing, two or none.
LEMMA PendingInitialize ==
    ASSUME TypeOK, Initialize, UNCHANGED <<thread, events>>
    PROVE  \E n \in 0 .. 2 : Pending' = Pending + n
  <1>1. Submit(<<>>) \/ Submit(<<"open">>) \/ Submit(<<"close">>) \/ Submit(<<"close", "open">>)
    BY DEF Initialize, InitializeFromWizard, InitializeFromFile
  <1>2. CASE Submit(<<>>)
    BY <1>2, PendingSubmit, OpSequences, SubmitLengths, 0 \in 0 .. 2
  <1>3. CASE Submit(<<"open">>)
    BY <1>3, PendingSubmit, OpSequences, SubmitLengths, 1 \in 0 .. 2
  <1>4. CASE Submit(<<"close">>)
    BY <1>4, PendingSubmit, OpSequences, SubmitLengths, 1 \in 0 .. 2
  <1>5. CASE Submit(<<"close", "open">>)
    BY <1>5, PendingSubmit, OpSequences, SubmitLengths, 2 \in 0 .. 2
  <1>6. QED BY <1>1, <1>2, <1>3, <1>4, <1>5

LEMMA SlotDeliver ==
    ASSUME LifecycleInv, Deliver
    PROVE  [Slot!Next]_(Slot!slot)
  <1>1. TypeOK /\ Pending \in Nat
    BY PendingType DEF LifecycleInv
  <1>2. /\ Len(events') = Len(events) - 1 /\ UNCHANGED <<managerVars, thread>>
        /\ Len(events) > 0
    BY <1>1 DEF TypeOK, Deliver, WalletOpened, WalletClosed
  <1>3. Busy' = Busy
    BY <1>2 DEF Busy
  <1>4. UNCHANGED queue \/ queue' = queue \o <<"close">>
    BY DEF Deliver, WalletOpened, WalletClosed, OpenSucceeded, OpenFailed, OpenedDangling,
       Submit
  <1>5. CASE UNCHANGED queue
    <2>1. Pending' = Pending - 1 /\ Pending > 0
      BY <1>1, <1>2, <1>3, <1>5, PendingType DEF Pending, Busy
    <2>2. QED BY <1>2, <2>1 DEF managerVars, Slot!Next, Slot!Answer
  <1>6. CASE queue' = queue \o <<"close">>
    <2>1. Len(queue') = Len(queue) + 1
      BY <1>1, <1>6, OpSequences DEF TypeOK
    <2>2. Pending' = Pending
      BY <1>1, <1>2, <1>3, <2>1, PendingType DEF Pending, Busy
    <2>3. QED BY <1>2, <2>2 DEF managerVars, Slot!slot
  <1>7. QED BY <1>4, <1>5, <1>6

\* A request, or a step that only moves the GUI on.
LEMMA SlotAsks ==
    ASSUME NEW n \in 0 .. 2, Pending \in Nat, Pending' = Pending + n, created' = created,
           alive' = alive
    PROVE  [Slot!Next]_(Slot!slot)
  BY DEF Slot!Next, Slot!Ask, Slot!slot

LEMMA SlotUser ==
    ASSUME LifecycleInv, User
    PROVE  [Slot!Next]_(Slot!slot)
  <1>1. TypeOK /\ Pending \in Nat /\ NoWalletLeaked /\ created \in Nat
    BY PendingType, LifecycleAssumption DEF LifecycleInv, TypeOK, LifecycleAssumption
  <1>2. CASE PasswordAccepted \/ UseMonero \/ FileAccepted
    <2>1. Initialize /\ UNCHANGED <<thread, events, managerVars>>
      BY <1>2 DEF PasswordAccepted, UseMonero, FileAccepted
    <2>2. QED BY <1>1, <2>1, PendingInitialize, SlotAsks DEF managerVars
  <1>3. CASE ShowWizard
    <2>1. Submit(<<"close">>) /\ UNCHANGED <<thread, events, managerVars>>
      BY <1>3 DEF ShowWizard
    <2>2. Pending' = Pending + 1
      BY <1>1, <2>1, PendingSubmit, OpSequences, SubmitLengths
    <2>3. QED BY <1>1, <2>1, <2>2, SlotAsks DEF managerVars
  <1>4. CASE RescanCache
    <2>1. Submit(<<"open">>) /\ DeleteCurrent /\ UNCHANGED <<created, thread, events>>
      BY <1>4 DEF RescanCache
    <2>2. Pending' = Pending + 1 /\ alive' = {}
      BY <1>1, <2>1, PendingSubmit, OpSequences, SubmitLengths, DeleteLeavesNone
    <2>3. QED BY <2>1, <2>2 DEF Slot!Next, Slot!Ask
  <1>5. ASSUME UNCHANGED poolVars PROVE Pending' = Pending
    BY <1>5 DEF Pending, poolVars
  <1>6. CASE WizardNewWallet
    <2>1. alive \ {current} = {}
      BY <1>1 DEF NoWalletLeaked
    <2>2. UNCHANGED poolVars /\ created' = created + 1 /\ alive' = {created'}
      BY <1>6, <2>1 DEF WizardNewWallet, NewCurrent
    <2>3. QED BY <1>5, <2>2 DEF Slot!Next, Slot!Open
  <1>7. CASE WizardRecoverFailed
    <2>1. UNCHANGED poolVars /\ created' = created + 1 /\ alive' = {}
      BY <1>1, <1>7, DeleteLeavesNone DEF WizardRecoverFailed
    <2>2. QED BY <1>5, <2>1 DEF Slot!Next, Slot!Open
  <1>8. CASE OpenWalletFromFile
    <2>1. UNCHANGED poolVars /\ UNCHANGED created /\ (alive' = {} \/ alive' = alive)
      BY <1>1, <1>8 DEF OpenWalletFromFile, NoWalletLeaked, NoWallet
    <2>2. QED BY <1>5, <2>1 DEF Slot!Next, Slot!Close, Slot!slot
  <1>9. CASE CloseAccepted
    <2>1. UNCHANGED poolVars /\ UNCHANGED created /\ alive' = {}
      BY <1>1, <1>9, DeleteLeavesNone DEF CloseAccepted
    <2>2. QED BY <1>5, <2>1 DEF Slot!Next, Slot!Close
  <1>10. CASE UNCHANGED <<poolVars, managerVars>>
    BY <1>5, <1>10 DEF managerVars, Slot!slot
  <1>11. PasswordRejected \/ InfoClosed \/ FileRejected \/ OpenViewOnlyWizard
         \/ LeaveViewOnlyWizard => UNCHANGED <<poolVars, managerVars>>
    BY DEF PasswordRejected, InfoClosed, FileRejected, OpenViewOnlyWizard, LeaveViewOnlyWizard
  <1>12. QED BY <1>2, <1>3, <1>4, <1>6, <1>7, <1>8, <1>9, <1>10, <1>11 DEF User

\* Whatever threads, queues, pages and dialogs do, the manager is a slot with at
\* most one open wallet, the newest, and every asynchronous request is answered
\* at most once (WalletManager.h: one signal for each openWalletAsync).
THEOREM ManagerIsASlot == Spec => ImplementsWalletSlot
  <1>1. LifecycleInv /\ [Next]_vars => [Slot!Next]_(Slot!slot)
    <2>1. SUFFICES ASSUME LifecycleInv, [Next]_vars PROVE [Slot!Next]_(Slot!slot)
      OBVIOUS
    <2>2. CASE UNCHANGED vars
      BY <2>2 DEF vars, managerVars, poolVars, Pending, Slot!slot
    <2>3. CASE Pool
      BY <2>1, <2>3, SlotPool, LifecycleInvNext DEF Pool, LifecycleInv
    <2>4. QED BY <2>1, <2>2, <2>3, SlotDeliver, SlotUser DEF Next
  <1>2. QED
    BY <1>1, SlotInit, LifecycleInvInit, LifecycleInvNext, PTL
    DEF Spec, ImplementsWalletSlot, Slot!Spec

-----------------------------------------------------------------------------
(* A patient user has at most one request under way, and what it will do     *)
(* agrees with what the GUI shows meanwhile.  During a rescan main.qml keeps *)
(* a reference to the wallet that was deleted under it.                      *)

Idle == \A th \in Threads : thread[th] = "idle"
Quiet == queue = <<>> /\ events = <<>> /\ Idle

\* The one request: queued, on a thread, or answered.
OpenFlies ==
    \/ queue = <<"open">> /\ events = <<>> /\ Idle
    \/ /\ queue = <<>> /\ events = <<>>
       /\ \E th \in Threads : /\ thread[th] \in {"openWaits", "opening"}
                              /\ \A u \in Threads \ {th} : thread[u] = "idle"
    \/ /\ queue = <<>> /\ Idle
       /\ \E w \in alive : events = <<[op |-> "open", wallet |-> w]>>

CloseFlies ==
    \/ queue = <<"close">> /\ events = <<>> /\ Idle
    \/ /\ queue = <<>> /\ events = <<>>
       /\ \E th \in Threads : /\ thread[th] \in {"closeWaits", "closing"}
                              /\ \A u \in Threads \ {th} : thread[u] = "idle"
    \/ /\ queue = <<>> /\ Idle
       /\ events = <<[op |-> "close", wallet |-> NoWallet]>>

\* What the GUI shows while nothing is under way, an open is, or a close is.
Shown ==
    \/ /\ Quiet
       /\ currentWallet \in {NoWallet, current}
       /\ page = "normal" /\ dialog = "none" => currentWallet # NoWallet
    \/ OpenFlies /\ ~Attached /\ page = "normal" /\ dialog = "none"
    \/ CloseFlies /\ currentWallet = NoWallet /\ (page = "normal" => dialog # "none")

\* A rescan leaves a handler connected that the reopened wallet adds to.
Handlers ==
    /\ currentWallet # NoWallet => payHandlers >= 1
    /\ "rescans" \notin habits => payHandlers = IF currentWallet = NoWallet THEN 0 ELSE 1

Agrees ==
    /\ Handlers
    /\ "rescans" \notin habits /\ ~Quiet => currentWallet = NoWallet
    /\ currentWallet # NoWallet => page # "wizard" /\ dialog = "none"
    /\ page = "viewOnlyWizard" => currentWallet # NoWallet
    /\ page = "wizard" => dialog = "none"
    /\ page # "wizard" => wizardWallet = NoWallet

PatientPart == outcome = "running" => Shown /\ Agrees
PatientInv == LifecycleInv /\ PatientPart

LEMMA PendingQuiet ==
    ASSUME TypeOK, Pending = 0
    PROVE  Quiet
  <1>1. Len(queue) = 0 /\ Len(events) = 0 /\ Cardinality(Busy) = 0
    BY PendingType
  <1>2. Busy = {}
    BY <1>1, BusyFinite, FS_EmptySet
  <1>3. queue = <<>> /\ events = <<>>
    BY <1>1 DEF TypeOK
  <1>4. Idle
    BY <1>2 DEF Busy, Idle
  <1>5. QED BY <1>3, <1>4 DEF Quiet

LEMMA PatientInit == Init => PatientInv
  <1>1. SUFFICES ASSUME Init PROVE PatientInv
    OBVIOUS
  <1>2. Idle
    BY <1>1 DEF Init, Idle
  <1>3. Shown /\ Agrees
    BY <1>1, <1>2 DEF Init, Shown, Agrees, Handlers, Quiet, OpenFlies, Attached, NoWallet
  <1>4. QED BY <1>1, <1>3, LifecycleInvInit DEF PatientInv, PatientPart

\* While a request flies, no wallet is attached: the one it opens is new.
LEMMA PatientPool ==
    ASSUME LifecycleInv, Shown, Agrees, NEW th \in Threads,
           TakeTask(th) \/ BeginOpen(th) \/ EndOpen(th) \/ BeginClose(th) \/ EndClose(th)
    PROVE  Shown' /\ Agrees'
  <1>0. /\ thread \in [Threads -> ThreadStates] /\ NoWalletLeaked /\ created \in Nat
        /\ UNCHANGED <<guiVars, habits>> /\ currentWallet \in 0 .. created
    BY LifecycleAssumption
    DEF LifecycleInv, TypeOK, LifecycleAssumption, TakeTask, BeginOpen, EndOpen, BeginClose,
        EndClose
  <1>1. queue # <<>> \/ thread[th] # "idle"
    BY DEF TakeTask, BeginOpen, EndOpen, BeginClose, EndClose
  <1>2. ~Quiet
    BY <1>1 DEF Quiet, Idle
  <1>3. \/ OpenFlies /\ ~Attached /\ page = "normal" /\ dialog = "none"
        \/ CloseFlies /\ currentWallet = NoWallet /\ (page = "normal" => dialog # "none")
    BY <1>2 DEF Shown
  <1>4. Agrees'
    BY <1>0, <1>2 DEF Agrees, Handlers, guiVars
  <1>5. \A t2 \in Threads : t2 # th => thread'[t2] = thread[t2]
    BY <1>0 DEF TakeTask, BeginOpen, EndOpen, BeginClose, EndClose
  <1>6. ASSUME OpenFlies PROVE OpenFlies'
    <2>1. CASE TakeTask(th)
      <3>1. queue = <<"open">> /\ events = <<>> /\ Idle
        BY <1>6, <2>1 DEF OpenFlies, TakeTask
      <3>2. queue' = <<>> /\ thread'[th] = "openWaits" /\ events' = <<>>
        BY <1>0, <2>1, <3>1 DEF TakeTask
      <3>3. QED BY <1>5, <3>1, <3>2 DEF OpenFlies, Idle
    <2>2. CASE ~TakeTask(th)
      <3>1. thread[th] # "idle" /\ UNCHANGED queue
        BY <2>2 DEF BeginOpen, EndOpen, BeginClose, EndClose
      <3>2. /\ queue = <<>> /\ events = <<>> /\ thread[th] \in {"openWaits", "opening"}
            /\ \A u \in Threads \ {th} : thread[u] = "idle"
        BY <1>6, <3>1 DEF OpenFlies, Idle
      <3>3. CASE BeginOpen(th)
        <4>1. thread'[th] = "opening" /\ UNCHANGED events
          BY <1>0, <3>3 DEF BeginOpen
        <4>2. QED BY <1>5, <3>1, <3>2, <4>1 DEF OpenFlies
      <3>4. CASE EndOpen(th)
        <4>1. /\ thread'[th] = "idle" /\ created + 1 \in alive'
              /\ events' = Append(events, [op |-> "open", wallet |-> created + 1])
          BY <1>0, <3>4 DEF EndOpen, NewCurrent
        <4>2. events' = <<[op |-> "open", wallet |-> created + 1]>>
          BY <3>2, <4>1
        <4>3. QED BY <1>5, <3>1, <3>2, <4>1, <4>2 DEF OpenFlies, Idle
      <3>5. QED BY <2>2, <3>2, <3>3, <3>4 DEF BeginClose, EndClose
    <2>3. QED BY <2>1, <2>2
  <1>7. ASSUME CloseFlies PROVE CloseFlies'
    <2>1. CASE TakeTask(th)
      <3>1. queue = <<"close">> /\ events = <<>> /\ Idle
        BY <1>7, <2>1 DEF CloseFlies, TakeTask
      <3>2. queue' = <<>> /\ thread'[th] = "closeWaits" /\ events' = <<>>
        BY <1>0, <2>1, <3>1 DEF TakeTask
      <3>3. QED BY <1>5, <3>1, <3>2 DEF CloseFlies, Idle
    <2>2. CASE ~TakeTask(th)
      <3>1. thread[th] # "idle" /\ UNCHANGED queue
        BY <2>2 DEF BeginOpen, EndOpen, BeginClose, EndClose
      <3>2. /\ queue = <<>> /\ events = <<>> /\ thread[th] \in {"closeWaits", "closing"}
            /\ \A u \in Threads \ {th} : thread[u] = "idle"
        BY <1>7, <3>1 DEF CloseFlies, Idle
      <3>3. CASE BeginClose(th)
        <4>1. thread'[th] = "closing" /\ UNCHANGED events
          BY <1>0, <3>3 DEF BeginClose
        <4>2. QED BY <1>5, <3>1, <3>2, <4>1 DEF CloseFlies
      <3>4. CASE EndClose(th)
        <4>1. /\ thread'[th] = "idle"
              /\ events' = Append(events, [op |-> "close", wallet |-> NoWallet])
          BY <1>0, <3>4 DEF EndClose
        <4>2. events' = <<[op |-> "close", wallet |-> NoWallet]>>
          BY <3>2, <4>1
        <4>3. QED BY <1>5, <3>1, <3>2, <4>1, <4>2 DEF CloseFlies, Idle
      <3>5. QED BY <2>2, <3>2, <3>3, <3>4 DEF BeginOpen, EndOpen
    <2>3. QED BY <2>1, <2>2
  <1>8. ~Attached => ~Attached'
    <2>1. alive' \subseteq alive \cup {created + 1}
      BY DEF TakeTask, BeginOpen, EndOpen, BeginClose, EndClose, managerVars, DeleteCurrent,
         NewCurrent
    <2>2. currentWallet # created + 1
      BY <1>0
    <2>3. QED BY <1>0, <2>1, <2>2 DEF Attached, guiVars
  <1>9. Shown'
    BY <1>0, <1>3, <1>6, <1>7, <1>8 DEF Shown, guiVars
  <1>10. QED BY <1>4, <1>9

\* The answer of a request in flight finds the GUI waiting for it.
LEMMA PatientDeliver ==
    ASSUME LifecycleInv, Shown, Agrees, Deliver, outcome' = "running"
    PROVE  Shown' /\ Agrees'
  <1>0. events # <<>> /\ UNCHANGED <<managerVars, thread, wizardWallet, page>>
        /\ events' = Tail(events) /\ NoWallet \notin alive /\ ~Quiet /\ UNCHANGED habits
        /\ payHandlers \in Nat
    BY DEF Deliver, WalletOpened, WalletClosed, guiVars, LifecycleInv, TypeOK, NoWalletLeaked,
       Quiet
  <1>1. CASE WalletClosed
    <2>1. Head(events).op = "close" /\ UNCHANGED <<queue, guiVars>>
      BY <1>1 DEF WalletClosed
    <2>2. CloseFlies
      BY <1>0, <2>1 DEF Shown, Quiet, OpenFlies
    <2>3. queue = <<>> /\ Idle /\ events = <<[op |-> "close", wallet |-> NoWallet]>>
      BY <1>0, <2>2 DEF CloseFlies
    <2>4. Quiet'
      BY <1>0, <2>1, <2>3 DEF Quiet, Idle
    <2>5. currentWallet = NoWallet /\ (page = "normal" => dialog # "none")
      BY <1>0, <2>1, <2>2 DEF Shown, Quiet, OpenFlies
    <2>6. QED BY <1>0, <2>1, <2>4, <2>5 DEF Shown, Agrees, Handlers, guiVars, managerVars
  <1>2. CASE WalletOpened
    <2>1. Head(events).op = "open"
      BY <1>2 DEF WalletOpened
    <2>2. OpenFlies /\ ~Attached /\ page = "normal" /\ dialog = "none"
      BY <1>0, <2>1 DEF Shown, Quiet, CloseFlies
    <2>3. PICK w \in alive :
            queue = <<>> /\ Idle /\ events = <<[op |-> "open", wallet |-> w]>>
      BY <1>0, <2>2 DEF OpenFlies
    <2>4. Head(events).wallet = w /\ events' = <<>>
      BY <1>0, <2>3
    <2>5. w = current /\ w # NoWallet
      BY <2>3 DEF LifecycleInv, NoWalletLeaked
    <2>6. "rescans" \notin habits => payHandlers = 0
      BY <1>0 DEF Agrees, Handlers
    <2>7. wizardWallet' = NoWallet
      BY <1>0, <2>2 DEF Agrees
    <2>8. CASE OpenSucceeded(w)
      <3>1. currentWallet' = w /\ payHandlers' = payHandlers + 1 /\ UNCHANGED <<queue, dialog>>
        BY <2>8 DEF OpenSucceeded, ConnectWallet
      <3>2. Quiet'
        BY <1>0, <2>3, <2>4, <3>1 DEF Quiet, Idle
      <3>3. Handlers'
        BY <1>0, <2>5, <2>6, <3>1 DEF Handlers
      <3>4. QED BY <1>0, <2>2, <2>5, <2>7, <3>1, <3>2, <3>3 DEF Shown, Agrees, managerVars
    <2>9. CASE OpenFailed
      <3>1. /\ currentWallet' = NoWallet /\ payHandlers' = payHandlers
            /\ dialog' \in {"password", "info"} /\ Submit(<<"close">>)
        BY <2>2, <2>9 DEF OpenFailed, CloseWallet
      <3>2. queue' = <<"close">>
        BY <2>3, <3>1 DEF Submit
      <3>3. CloseFlies'
        BY <1>0, <2>3, <2>4, <3>2 DEF CloseFlies, Idle
      <3>4. Handlers'
        BY <1>0, <2>6, <3>1 DEF Handlers
      <3>5. QED BY <1>0, <2>2, <2>7, <3>1, <3>3, <3>4 DEF Shown, Agrees, managerVars
    <2>10. QED BY <1>2, <2>3, <2>4, <2>8, <2>9 DEF WalletOpened
  <1>3. QED BY <1>1, <1>2 DEF Deliver

\* initialize() with no wallet attached and no request under way.
LEMMA PatientInitialize ==
    ASSUME LifecycleInv, Quiet, currentWallet = NoWallet, Handlers, Initialize,
           wizardWallet \in alive \cup {NoWallet}, page' = "normal", dialog' = "none",
           UNCHANGED <<managerVars, thread, events, habits>>
    PROVE  Shown' /\ Agrees'
  <1>1. NoWallet \notin alive /\ ~Attached /\ payHandlers \in Nat
    BY DEF LifecycleInv, TypeOK, NoWalletLeaked, Attached
  <1>2. Idle'
    BY DEF Quiet, Idle
  <1>3. CASE wizardWallet # NoWallet /\ InitializeFromWizard
    <2>1. wizardWallet = current
      BY <1>3 DEF LifecycleInv, NoWalletLeaked
    <2>2. /\ currentWallet' = wizardWallet /\ payHandlers' = payHandlers + 1
          /\ wizardWallet' = NoWallet /\ Submit(<<>>)
      BY <1>1, <1>3 DEF InitializeFromWizard
    <2>3. queue' = <<>>
      BY <2>2 DEF Submit, Quiet
    <2>4. Handlers'
      BY <1>1, <1>3, <2>2 DEF Handlers
    <2>5. QED BY <1>2, <1>3, <2>1, <2>2, <2>3, <2>4 DEF Shown, Agrees, Quiet, managerVars
  <1>4. CASE wizardWallet = NoWallet /\ InitializeFromFile /\ UNCHANGED wizardWallet
    <2>1. currentWallet' = NoWallet /\ payHandlers' = payHandlers /\ Submit(<<"open">>)
      BY <1>1, <1>4 DEF InitializeFromFile, CloseWallet
    <2>2. queue' = <<"open">>
      BY <2>1 DEF Submit, Quiet
    <2>3. OpenFlies'
      BY <1>2, <2>2 DEF OpenFlies, Quiet
    <2>4. ~Attached' /\ Handlers'
      BY <1>1, <2>1 DEF Attached, Handlers, managerVars
    <2>5. QED BY <1>4, <2>1, <2>3, <2>4 DEF Shown, Agrees
  <1>5. QED BY <1>3, <1>4 DEF Initialize

LEMMA PatientUser ==
    ASSUME Patient, LifecycleInv, Shown, Agrees, User, outcome' = "running"
    PROVE  Shown' /\ Agrees'
  <1>0. NoWallet \notin alive /\ TypeOK /\ NoWalletLeaked
    BY DEF LifecycleInv, NoWalletLeaked
  <1>1. Quiet
    <2>1. Pending = 0
      BY DEF Patient, User, UserCanAct, PasswordAccepted, PasswordRejected, InfoClosed, ShowWizard,
         RescanCache, WizardNewWallet, WizardRecoverFailed, UseMonero, OpenWalletFromFile,
         FileAccepted, FileRejected, OpenViewOnlyWizard, LeaveViewOnlyWizard, CloseAccepted
    <2>2. QED BY <1>0, <2>1, PendingQuiet
  <1>2. ~OpenFlies /\ ~CloseFlies
    BY <1>1 DEF Quiet, OpenFlies, CloseFlies, Idle
  <1>3. /\ currentWallet \in {NoWallet, current}
        /\ page = "normal" /\ dialog = "none" => currentWallet # NoWallet
    BY <1>2 DEF Shown
  <1>4. Handlers /\ UNCHANGED habits /\ payHandlers \in Nat
    BY <1>0
    DEF Agrees, TypeOK, User, PasswordAccepted, PasswordRejected, InfoClosed, ShowWizard,
        RescanCache, WizardNewWallet, WizardRecoverFailed, UseMonero, OpenWalletFromFile,
        FileAccepted, FileRejected, OpenViewOnlyWizard, LeaveViewOnlyWizard, CloseAccepted
  <1>5. CASE PasswordAccepted
    <2>1. dialog = "password" /\ UNCHANGED <<page, managerVars, thread, events>>
          /\ Initialize /\ dialog' = "none"
      BY <1>5 DEF PasswordAccepted, UserCanAct
    <2>2. page = "normal" /\ currentWallet = NoWallet /\ wizardWallet = NoWallet
      BY <1>0, <2>1 DEF Agrees, TypeOK
    <2>3. QED BY <1>1, <1>4, <2>1, <2>2, PatientInitialize
  <1>6. CASE FileAccepted
    <2>1. dialog = "file" /\ UNCHANGED <<page, managerVars, thread, events>>
          /\ Initialize /\ dialog' = "none"
      BY <1>6 DEF FileAccepted, UserCanAct
    <2>2. page = "normal" /\ currentWallet = NoWallet /\ wizardWallet = NoWallet
      BY <1>0, <2>1 DEF Agrees, TypeOK
    <2>3. QED BY <1>1, <1>4, <2>1, <2>2, PatientInitialize
  <1>7. CASE UseMonero
    <2>1. page = "wizard" /\ dialog = "none" /\ wizardWallet \in alive /\ Initialize
          /\ page' = "normal" /\ UNCHANGED <<managerVars, thread, events, dialog>>
      BY <1>7 DEF UseMonero, UserCanAct
    <2>2. currentWallet = NoWallet
      BY <2>1 DEF Agrees
    <2>3. QED BY <1>1, <1>4, <2>1, <2>2, PatientInitialize
  <1>8. CASE ShowWizard
    <2>1. page = "normal" /\ dialog = "none" /\ CloseWallet /\ Submit(<<"close">>)
          /\ wizardWallet' = NoWallet /\ page' = "wizard"
          /\ UNCHANGED <<managerVars, thread, events, dialog>>
      BY <1>8 DEF ShowWizard, UserCanAct
    <2>2. Attached
      BY <1>0, <1>3, <2>1 DEF Attached, NoWalletLeaked
    <2>3. currentWallet' = NoWallet /\ payHandlers' = 0 /\ queue' = <<"close">>
      BY <1>1, <2>1, <2>2 DEF CloseWallet, Submit, Quiet
    <2>4. CloseFlies'
      BY <1>1, <2>1, <2>3 DEF CloseFlies, Quiet, Idle
    <2>5. QED BY <2>1, <2>3, <2>4 DEF Shown, Agrees, Handlers
  <1>9. CASE WizardNewWallet \/ WizardRecoverFailed \/ OpenWalletFromFile
    <2>1. page = "wizard" /\ dialog = "none" /\ UNCHANGED <<poolVars, currentWallet, payHandlers>>
      BY <1>9 DEF WizardNewWallet, WizardRecoverFailed, OpenWalletFromFile, UserCanAct, guiVars
    <2>2. currentWallet = NoWallet
      BY <2>1 DEF Agrees
    <2>3. Quiet'
      BY <1>1, <2>1 DEF Quiet, Idle, poolVars
    <2>4. \/ page' = "wizard" /\ dialog' = "none"
          \/ page' = "normal" /\ dialog' = "file" /\ wizardWallet' = NoWallet
      BY <1>9, <2>1 DEF WizardNewWallet, WizardRecoverFailed, OpenWalletFromFile, guiVars
    <2>5. Handlers'
      BY <1>4, <2>1, <2>2 DEF Handlers
    <2>6. QED BY <2>1, <2>2, <2>3, <2>4, <2>5 DEF Shown, Agrees
  <1>10. CASE PasswordRejected \/ FileRejected \/ InfoClosed
    <2>1. dialog # "none" /\ UNCHANGED <<poolVars, managerVars, currentWallet, wizardWallet,
                                         payHandlers>>
      BY <1>10 DEF PasswordRejected, FileRejected, InfoClosed, UserCanAct
    <2>2. currentWallet = NoWallet /\ page = "normal" /\ wizardWallet = NoWallet
      BY <1>0, <2>1 DEF Agrees, TypeOK
    <2>3. Quiet'
      BY <1>1, <2>1 DEF Quiet, Idle, poolVars
    <2>4. \/ page' = "wizard" /\ dialog' = "none"
          \/ page' = page /\ dialog' = "password"
      BY <1>10 DEF PasswordRejected, FileRejected, InfoClosed
    <2>5. Handlers'
      BY <1>4, <2>1, <2>2 DEF Handlers
    <2>6. QED BY <2>1, <2>2, <2>3, <2>4, <2>5 DEF Shown, Agrees
  <1>11. CASE OpenViewOnlyWizard
    <2>1. page = "normal" /\ dialog = "none" /\ page' = "viewOnlyWizard"
          /\ UNCHANGED <<poolVars, managerVars, currentWallet, wizardWallet, payHandlers, dialog>>
      BY <1>11 DEF OpenViewOnlyWizard, UserCanAct
    <2>2. Quiet'
      BY <1>1, <2>1 DEF Quiet, Idle, poolVars
    <2>3. Handlers'
      BY <1>4, <2>1 DEF Handlers
    <2>4. QED BY <1>3, <2>1, <2>2, <2>3 DEF Shown, Agrees, managerVars
  <1>12. CASE LeaveViewOnlyWizard
    <2>1. page = "viewOnlyWizard" /\ dialog = "none" /\ page' = "normal"
          /\ wizardWallet' = NoWallet
          /\ UNCHANGED <<poolVars, managerVars, currentWallet, payHandlers, dialog>>
      BY <1>12 DEF LeaveViewOnlyWizard, UserCanAct
    <2>2. Quiet'
      BY <1>1, <2>1 DEF Quiet, Idle, poolVars
    <2>3. Handlers'
      BY <1>4, <2>1 DEF Handlers
    <2>4. QED BY <1>3, <2>1, <2>2, <2>3 DEF Shown, Agrees, managerVars
  <1>13. CASE RescanCache
    <2>1. page = "normal" /\ dialog = "none" /\ "rescans" \in habits /\ DeleteCurrent
          /\ Submit(<<"open">>) /\ UNCHANGED <<thread, events, guiVars>>
      BY <1>13 DEF RescanCache, UserCanAct
    <2>2. alive' = {} /\ queue' = <<"open">>
      BY <1>0, <1>1, <2>1 DEF DeleteCurrent, Submit, NoWalletLeaked, Quiet
    <2>3. OpenFlies' /\ ~Attached'
      BY <1>1, <2>1, <2>2 DEF OpenFlies, Attached, Quiet, Idle
    <2>4. Handlers'
      BY <1>4, <2>1 DEF Handlers, guiVars
    <2>5. QED BY <1>4, <2>1, <2>3, <2>4 DEF Shown, Agrees, guiVars
  <1>14. ~CloseAccepted
    BY DEF CloseAccepted
  <1>15. QED BY <1>13, <1>5, <1>6, <1>7, <1>8, <1>9, <1>10, <1>11, <1>12, <1>14 DEF User

LEMMA PatientNext ==
    ASSUME Patient, PatientInv, [Next]_vars
    PROVE  PatientInv'
  <1>1. LifecycleInv'
    BY LifecycleInvNext DEF PatientInv
  <1>2. ASSUME outcome' = "running" PROVE Shown' /\ Agrees'
    <2>1. LifecycleInv
      BY DEF PatientInv
    <2>2. CASE UNCHANGED vars
      <3>1. Shown /\ Agrees
        BY <1>2, <2>2 DEF PatientInv, PatientPart, vars
      <3>2. QED
        BY <2>2, <3>1 DEF vars, managerVars, poolVars, guiVars, Shown, Agrees, Handlers, Quiet,
           OpenFlies, CloseFlies, Idle, Attached
    <2>3. CASE Pool
      <3>1. PICK th \in Threads :
              TakeTask(th) \/ BeginOpen(th) \/ EndOpen(th) \/ BeginClose(th) \/ EndClose(th)
        BY <2>3 DEF Pool
      <3>2. outcome = "running"
        BY <1>2, <3>1 DEF TakeTask, BeginOpen, EndOpen, BeginClose, EndClose
      <3>3. QED BY <2>1, <3>1, <3>2, PatientPool DEF PatientInv, PatientPart
    <2>4. CASE Deliver
      <3>1. outcome = "running"
        BY <2>4 DEF Deliver, WalletOpened, WalletClosed
      <3>2. QED BY <1>2, <2>1, <2>4, <3>1, PatientDeliver DEF PatientInv, PatientPart
    <2>5. CASE User
      <3>1. outcome = "running"
        BY <1>2, <2>5 DEF User, UserCanAct, PasswordAccepted, PasswordRejected, InfoClosed,
           ShowWizard, RescanCache, WizardNewWallet, WizardRecoverFailed, UseMonero,
           OpenWalletFromFile, FileAccepted, FileRejected, OpenViewOnlyWizard,
           LeaveViewOnlyWizard, CloseAccepted
      <3>2. QED BY <1>2, <2>1, <2>5, <3>1, PatientUser DEF PatientInv, PatientPart
    <2>6. QED BY <2>2, <2>3, <2>4, <2>5 DEF Next
  <1>3. QED BY <1>1, <1>2 DEF PatientInv, PatientPart

\* A user's habits are settled at the beginning.
LEMMA HabitsFixed == [Next]_vars => UNCHANGED habits
  <1>1. Pool => UNCHANGED habits
    BY DEF Pool, TakeTask, BeginOpen, EndOpen, BeginClose, EndClose
  <1>2. Deliver => UNCHANGED habits
    BY DEF Deliver, WalletOpened, WalletClosed
  <1>3. User => UNCHANGED habits
    BY DEF User, PasswordAccepted, PasswordRejected, InfoClosed, ShowWizard, RescanCache,
       WizardNewWallet, WizardRecoverFailed, UseMonero, OpenWalletFromFile, FileAccepted,
       FileRejected, OpenViewOnlyWizard, LeaveViewOnlyWizard, CloseAccepted
  <1>4. QED BY <1>1, <1>2, <1>3 DEF Next, vars

LEMMA PatientAlways == Spec => [](Patient => PatientInv)
  <1>1. Init => (Patient => PatientInv)
    BY PatientInit
  <1>2. (Patient => PatientInv) /\ [Next]_vars => (Patient => PatientInv)'
    BY PatientNext, HabitsFixed DEF Patient
  <1>3. QED BY <1>1, <1>2, PTL DEF Spec

\* For a user who waits for the GUI, rescans included, the wallet a walletOpened
\* signal carries is still open when main.qml's onWalletOpened gets it: no close
\* can be queued behind an open that has not been answered.
THEOREM PatientsSignalIsFresh == Spec => []OpenedSignalCarriesPatientsWallet
  <1>1. (Patient => PatientInv) => OpenedSignalCarriesPatientsWallet
    <2>1. SUFFICES ASSUME Patient, PatientInv, outcome = "running",
                          NEW i \in DOMAIN events, events[i].op = "open"
                   PROVE  events[i].wallet \in alive
      BY DEF OpenedSignalCarriesPatientsWallet, OpenedSignalCarriesOpenWallet
    <2>2. Shown
      BY <2>1 DEF PatientInv, PatientPart
    <2>3. events # <<>>
      BY <2>1
    <2>4. CASE OpenFlies
      <3>1. PICK w \in alive : events = <<[op |-> "open", wallet |-> w]>>
        BY <2>3, <2>4 DEF OpenFlies
      <3>2. QED BY <2>1, <3>1
    <2>5. CASE CloseFlies
      <3>1. events = <<[op |-> "close", wallet |-> NoWallet]>>
        BY <2>3, <2>5 DEF CloseFlies
      <3>2. QED BY <2>1, <3>1
    <2>6. QED BY <2>2, <2>3, <2>4, <2>5 DEF Shown, Quiet
  <1>2. QED BY <1>1, PatientAlways, PTL

\* Once a patient user's requests are all answered, main.qml and the manager
\* agree on the open wallet, and Send has a handler when there is one, and one
\* exactly unless the user rescans.
THEOREM GuiAgreesWithManager == Spec => []SettledGuiAgreesWithManager
  <1>1. (Patient => PatientInv) => SettledGuiAgreesWithManager
    <2>1. SUFFICES ASSUME Patient, PatientInv, outcome = "running", Pending = 0
                   PROVE  /\ currentWallet \in {NoWallet, current}
                          /\ Handlers
                          /\ page = "normal" /\ dialog = "none" => Attached
                          /\ page = "wizard" => currentWallet = NoWallet
      BY DEF SettledGuiAgreesWithManager, Handlers
    <2>2. Shown /\ Agrees /\ NoWalletLeaked /\ Quiet
      BY <2>1, PendingQuiet DEF PatientInv, PatientPart, LifecycleInv
    <2>3. ~OpenFlies /\ ~CloseFlies
      BY <2>2 DEF Quiet, OpenFlies, CloseFlies, Idle
    <2>4. page = "normal" /\ dialog = "none" => Attached
      BY <2>2, <2>3 DEF Shown, Agrees, NoWalletLeaked, Attached
    <2>5. currentWallet \in {NoWallet, current}
      BY <2>2, <2>3 DEF Shown
    <2>6. QED BY <2>2, <2>4, <2>5 DEF Agrees
  <1>2. QED BY <1>1, PatientAlways, PTL

-----------------------------------------------------------------------------
(* Progress.  Some of the following say what fairness of some actions says,  *)
(* with the condition under which they can occur spelled out.                *)

\* Thread th leaves the mutex when it has it.
Ends(th) == EndOpen(th) \/ EndClose(th)
LeavesMutex(th) == []<>~(thread[th] \in Holding) \/ []<><<Ends(th)>>_vars

\* A thread that waits for the mutex is not passed over for ever.
GetsMutex(th) ==
    /\ <>[]~(thread[th] = "openWaits" /\ MutexFree) \/ []<><<BeginOpen(th)>>_vars
    /\ <>[]~(thread[th] = "closeWaits" /\ MutexFree) \/ []<><<BeginClose(th)>>_vars

\* A thread goes from waiting to holding to idle, and nobody but itself moves it.
LEMMA ThreadMoves ==
    ASSUME TypeOK, NEW th \in Threads, [Next]_vars
    PROVE  /\ thread[th] = "openWaits" => thread'[th] = "openWaits" \/ thread'[th] \in Holding
           /\ thread[th] = "closeWaits" => thread'[th] = "closeWaits" \/ thread'[th] \in Holding
           /\ thread[th] \in Holding => thread'[th] \in Holding \/ thread'[th] = "idle"
           /\ BeginOpen(th) \/ BeginClose(th) => thread'[th] \in Holding
           /\ Ends(th) => thread'[th] = "idle"
  <1>1. ASSUME NEW u \in Threads,
               TakeTask(u) \/ BeginOpen(u) \/ EndOpen(u) \/ BeginClose(u) \/ EndClose(u)
        PROVE  /\ u # th => thread'[th] = thread[th]
               /\ TakeTask(u) => thread[u] = "idle"
               /\ BeginOpen(u) => thread[u] = "openWaits" /\ thread'[u] = "opening"
               /\ BeginClose(u) => thread[u] = "closeWaits" /\ thread'[u] = "closing"
               /\ EndOpen(u) \/ EndClose(u) => thread[u] \in Holding /\ thread'[u] = "idle"
    BY <1>1 DEF TypeOK, TakeTask, BeginOpen, EndOpen, BeginClose, EndClose, Holding
  <1>2. Deliver \/ User \/ UNCHANGED vars => UNCHANGED thread
    BY DEF vars, poolVars, Deliver, WalletOpened, WalletClosed, User, PasswordAccepted,
       PasswordRejected, InfoClosed, ShowWizard, RescanCache, WizardNewWallet,
       WizardRecoverFailed, UseMonero, OpenWalletFromFile, FileAccepted, FileRejected,
       OpenViewOnlyWizard, LeaveViewOnlyWizard, CloseAccepted
  <1>3. \/ UNCHANGED thread
        \/ \E u \in Threads :
              TakeTask(u) \/ BeginOpen(u) \/ EndOpen(u) \/ BeginClose(u) \/ EndClose(u)
    BY <1>2 DEF Next, Pool
  <1>4. /\ thread[th] = "openWaits" => thread'[th] = "openWaits" \/ thread'[th] \in Holding
        /\ thread[th] = "closeWaits" => thread'[th] = "closeWaits" \/ thread'[th] \in Holding
        /\ thread[th] \in Holding => thread'[th] \in Holding \/ thread'[th] = "idle"
    BY <1>1, <1>3 DEF Holding
  <1>5. QED BY <1>1, <1>4 DEF Holding, Ends

\* There is one holder: when it leaves, the mutex is free.
LEMMA EndFrees ==
    ASSUME LifecycleInv, NEW th \in Threads, Ends(th)
    PROVE  MutexFree'
  BY DEF LifecycleInv, TypeOK, OneHolder, Ends, EndOpen, EndClose, MutexFree, Holding

\* The stages of a patient user's request; a failed open is followed by a close.
Queued(op) == queue = <<op>> /\ events = <<>> /\ Idle
OnThread(at) ==
    /\ queue = <<>> /\ events = <<>>
    /\ \E th \in Threads : thread[th] = at /\ \A u \in Threads \ {th} : thread[u] = "idle"
Answered(op) == queue = <<>> /\ Idle /\ \E w : events = <<[op |-> op, wallet |-> w]>>

Settled == Pending = 0 \/ outcome # "running"

LEMMA QuietIsSettled == TypeOK /\ Quiet => Settled
  <1> SUFFICES ASSUME TypeOK, Quiet PROVE Pending = 0
    BY DEF Settled
  <1>1. Busy = {} /\ Len(queue) = 0 /\ Len(events) = 0
    BY DEF Quiet, Idle, Busy
  <1>2. QED BY <1>1, FS_EmptySet, PendingType

LEMMA FlightStages ==
    ASSUME PatientInv, ~Settled
    PROVE  \/ Queued("open") \/ OnThread("openWaits") \/ OnThread("opening") \/ Answered("open")
           \/ Queued("close") \/ OnThread("closeWaits") \/ OnThread("closing")
           \/ Answered("close")
  <1>1. OpenFlies \/ CloseFlies
    BY QuietIsSettled DEF PatientInv, PatientPart, LifecycleInv, Shown, Settled
  <1>2. CASE OpenFlies
    BY <1>2 DEF OpenFlies, Queued, OnThread, Answered
  <1>3. CASE CloseFlies
    BY <1>3 DEF CloseFlies, Queued, OnThread, Answered
  <1>4. QED BY <1>1, <1>2, <1>3

\* Who waits for the GUI does nothing meanwhile but quit.
LEMMA FlightUndisturbed ==
    ASSUME Patient, ~Settled, [Next]_vars, ~Pool, ~Deliver
    PROVE  UNCHANGED poolVars
  <1>1. ASSUME NEW p, NEW d PROVE ~UserCanAct(p, d)
    BY DEF Patient, Settled, UserCanAct
  <1>2. User => CloseAccepted
    BY <1>1
    DEF User, PasswordAccepted, PasswordRejected, InfoClosed, ShowWizard, RescanCache,
        WizardNewWallet, WizardRecoverFailed, UseMonero, OpenWalletFromFile, FileAccepted,
        FileRejected, OpenViewOnlyWizard, LeaveViewOnlyWizard
  <1>3. QED BY <1>2 DEF Next, vars, CloseAccepted

\* A step of the pool takes the request one stage further.
LEMMA FlightPool ==
    ASSUME TypeOK, Pool
    PROVE  /\ Queued("open") => OnThread("openWaits")'
           /\ OnThread("openWaits") => OnThread("opening")'
           /\ OnThread("opening") => Answered("open")'
           /\ Queued("close") => OnThread("closeWaits")'
           /\ OnThread("closeWaits") => OnThread("closing")'
           /\ OnThread("closing") => Answered("close")'
           /\ \A op \in Ops : ~Answered(op)
  <1>0. PICK th \in Threads :
            TakeTask(th) \/ BeginOpen(th) \/ EndOpen(th) \/ BeginClose(th) \/ EndClose(th)
    BY DEF Pool
  <1>1. /\ thread \in [Threads -> ThreadStates]
        /\ \A u \in Threads \ {th} : thread'[u] = thread[u]
    BY <1>0 DEF TypeOK, TakeTask, BeginOpen, EndOpen, BeginClose, EndClose
  <1>2. ASSUME NEW op \in Ops, Queued(op)
        PROVE  OnThread(IF op = "open" THEN "openWaits" ELSE "closeWaits")'
    <2>1. TakeTask(th)
      BY <1>0, <1>2 DEF Queued, Idle, BeginOpen, EndOpen, BeginClose, EndClose
    <2>2. Head(queue) = op /\ Tail(queue) = <<>>
      BY <1>2 DEF Queued
    <2>3. /\ queue' = <<>> /\ UNCHANGED events
          /\ thread'[th] = IF op = "open" THEN "openWaits" ELSE "closeWaits"
      BY <1>1, <2>1, <2>2 DEF TakeTask
    <2>4. QED BY <1>1, <1>2, <2>3 DEF Queued, OnThread, Idle
  <1>3. ASSUME NEW at \in ThreadStates \ {"idle"}, OnThread(at)
        PROVE  thread[th] = at /\ queue = <<>> /\ events = <<>>
               /\ \A u \in Threads \ {th} : thread'[u] = "idle"
    BY <1>0, <1>1, <1>3 DEF OnThread, TakeTask, BeginOpen, EndOpen, BeginClose, EndClose
  <1>4. {"openWaits", "opening", "closeWaits", "closing"} = ThreadStates \ {"idle"}
    BY DEF ThreadStates
  <1>5. OnThread("openWaits") => OnThread("opening")'
    <2>1. SUFFICES ASSUME OnThread("openWaits") PROVE OnThread("opening")'
      OBVIOUS
    <2>2. thread[th] = "openWaits"
      BY <1>3, <1>4, <2>1
    <2>3. BeginOpen(th)
      BY <1>0, <2>2 DEF TakeTask, EndOpen, BeginClose, EndClose
    <2>4. thread'[th] = "opening" /\ UNCHANGED <<queue, events>>
      BY <1>1, <2>3 DEF BeginOpen
    <2>5. QED BY <1>3, <1>4, <2>1, <2>4 DEF OnThread
  <1>6. OnThread("closeWaits") => OnThread("closing")'
    <2>1. SUFFICES ASSUME OnThread("closeWaits") PROVE OnThread("closing")'
      OBVIOUS
    <2>2. thread[th] = "closeWaits"
      BY <1>3, <1>4, <2>1
    <2>3. BeginClose(th)
      BY <1>0, <2>2 DEF TakeTask, EndOpen, BeginOpen, EndClose
    <2>4. thread'[th] = "closing" /\ UNCHANGED <<queue, events>>
      BY <1>1, <2>3 DEF BeginClose
    <2>5. QED BY <1>3, <1>4, <2>1, <2>4 DEF OnThread
  <1>7. OnThread("opening") => Answered("open")'
    <2>1. SUFFICES ASSUME OnThread("opening") PROVE Answered("open")'
      OBVIOUS
    <2>2. thread[th] = "opening" /\ queue = <<>> /\ events = <<>>
      BY <1>3, <1>4, <2>1
    <2>3. EndOpen(th)
      BY <1>0, <2>2 DEF TakeTask, BeginOpen, BeginClose, EndClose
    <2>4. thread'[th] = "idle" /\ UNCHANGED queue
          /\ events' = <<[op |-> "open", wallet |-> created + 1]>>
      BY <1>1, <2>2, <2>3 DEF EndOpen
    <2>5. QED BY <1>3, <1>4, <2>1, <2>2, <2>4 DEF Answered, Idle
  <1>8. OnThread("closing") => Answered("close")'
    <2>1. SUFFICES ASSUME OnThread("closing") PROVE Answered("close")'
      OBVIOUS
    <2>2. thread[th] = "closing" /\ queue = <<>> /\ events = <<>>
      BY <1>3, <1>4, <2>1
    <2>3. EndClose(th)
      BY <1>0, <2>2 DEF TakeTask, BeginOpen, BeginClose, EndOpen
    <2>4. thread'[th] = "idle" /\ UNCHANGED queue
          /\ events' = <<[op |-> "close", wallet |-> NoWallet]>>
      BY <1>1, <2>2, <2>3 DEF EndClose
    <2>5. QED BY <1>3, <1>4, <2>1, <2>2, <2>4 DEF Answered, Idle
  <1>9. \A op \in Ops : ~Answered(op)
    BY <1>0 DEF Answered, Idle, TakeTask, BeginOpen, EndOpen, BeginClose, EndClose
  <1>10. QED BY <1>2, <1>5, <1>6, <1>7, <1>8, <1>9 DEF Ops

\* The handler of an answer ends the request, or asks for the close of what did not
\* open.
LEMMA FlightDeliver ==
    ASSUME TypeOK, TypeOK', Deliver
    PROVE  /\ Answered("open") => Queued("close")' \/ Settled'
           /\ Answered("close") => Settled'
           /\ \A op \in Ops : ~Queued(op)
           /\ \A at \in ThreadStates : ~OnThread(at)
  <1>1. events # <<>>
    BY DEF Deliver, WalletOpened, WalletClosed
  <1>2. ASSUME NEW op \in Ops, Answered(op)
        PROVE  Idle' /\ events' = <<>> /\ Head(events).op = op /\ queue = <<>>
    <2>1. PICK w : events = <<[op |-> op, wallet |-> w]>>
      BY <1>2 DEF Answered
    <2>2. events' = Tail(events) /\ UNCHANGED thread
      BY DEF Deliver, WalletOpened, WalletClosed
    <2>3. QED BY <1>2, <2>1, <2>2 DEF Answered, Idle
  <1>3. ASSUME Answered("close") PROVE Settled'
    <2>1. "close" \in Ops /\ "close" # "open"
      BY DEF Ops
    <2>2. WalletClosed
      BY <1>2, <1>3, <2>1 DEF Deliver, WalletOpened
    <2>3. Quiet'
      BY <1>2, <1>3, <2>1, <2>2 DEF WalletClosed, Quiet
    <2>4. QED BY <2>3, QuietIsSettled, PTL
  <1>4. ASSUME Answered("open") PROVE Queued("close")' \/ Settled'
    <2>1. "open" \in Ops /\ "close" # "open"
      BY DEF Ops
    <2>2. WalletOpened /\ Idle' /\ events' = <<>> /\ queue = <<>>
      BY <1>2, <1>4, <2>1 DEF Deliver, WalletClosed
    <2>3. CASE outcome' # "running"
      BY <2>3 DEF Settled
    <2>4. CASE queue' = <<>>
      <3>1. Quiet'
        BY <2>2, <2>4 DEF Quiet
      <3>2. QED BY <3>1, QuietIsSettled, PTL
    <2>5. CASE queue' = <<"close">>
      BY <2>2, <2>5 DEF Queued
    <2>6. \/ queue' = queue \/ outcome' # "running"
          \/ queue' = queue \o <<"close">>
      BY <2>2 DEF WalletOpened, OpenSucceeded, OpenFailed, OpenedDangling, Submit
    <2>7. queue \o <<"close">> = <<"close">>
      BY <2>2
    <2>8. QED BY <2>2, <2>3, <2>4, <2>5, <2>6, <2>7
  <1>5. \A op \in Ops : ~Queued(op)
    BY <1>1 DEF Queued
  <1>6. \A at \in ThreadStates : ~OnThread(at)
    BY <1>1 DEF OnThread
  <1>7. QED BY <1>3, <1>4, <1>5, <1>6

\* The pool runs the tasks it has, and the event loop delivers what is posted.
PoolBusy == queue # <<>> \/ ~Idle
PoolWorks == []<>~PoolBusy \/ []<><<Pool>>_vars
Posted == events # <<>> /\ outcome = "running"
SignalsDelivered == []<>~Posted \/ []<><<Deliver>>_vars

\* Before its answer a request keeps the pool busy, and then its signal is posted.
LEMMA FlightMoved ==
    ASSUME ~Settled
    PROVE  /\ \A op \in Ops : Queued(op) => PoolBusy
           /\ \A at \in ThreadStates \ {"idle"} : OnThread(at) => PoolBusy
           /\ \A op \in Ops : Answered(op) => Posted
  BY DEF Settled, Queued, OnThread, Answered, PoolBusy, Posted, Idle

\* The stages do not depend on what the rest of the program does.
LEMMA FlightKept ==
    ASSUME UNCHANGED poolVars
    PROVE  /\ \A op \in Ops : Queued(op) => Queued(op)'
           /\ \A at \in ThreadStates : OnThread(at) => OnThread(at)'
           /\ \A op \in Ops : Answered(op) => Answered(op)'
  BY DEF poolVars, Queued, OnThread, Answered, Idle

\* A user who waits for the GUI gets it back: an open goes through the pool and is
\* answered, is followed by one close when it failed, and that is answered too.
THEOREM GuiGetsSettled == Spec /\ PoolWorks /\ SignalsDelivered => GuiSettles
  <1> DEFINE QO == Queued("open")
             WO == OnThread("openWaits")
             HO == OnThread("opening")
             AO == Answered("open")
             QC == Queued("close")
             WC == OnThread("closeWaits")
             HC == OnThread("closing")
             AC == Answered("close")
             S == Settled
  <1>1. {"open", "close"} \subseteq Ops
        /\ {"openWaits", "opening", "closeWaits", "closing"} \subseteq ThreadStates \ {"idle"}
    BY DEF Ops, ThreadStates
  <1>2. PatientInv => S \/ QO \/ WO \/ HO \/ AO \/ QC \/ WC \/ HC \/ AC
    BY FlightStages
  <1>3. ~S => /\ QO \/ WO \/ HO \/ QC \/ WC \/ HC => PoolBusy
              /\ AO \/ AC => Posted
    BY <1>1, FlightMoved
  <1>4. TypeOK /\ Pool => /\ (QO => WO') /\ (WO => HO') /\ (HO => AO')
                          /\ (QC => WC') /\ (WC => HC') /\ (HC => AC')
                          /\ ~AO /\ ~AC
    BY <1>1, FlightPool
  <1>5. TypeOK /\ TypeOK' /\ Deliver
            => /\ (AO => QC' \/ S') /\ (AC => S')
               /\ ~QO /\ ~WO /\ ~HO /\ ~QC /\ ~WC /\ ~HC
    BY <1>1, FlightDeliver
  <1>6. Patient /\ ~S /\ [Next]_vars /\ ~Pool /\ ~Deliver
            => /\ (QO => QO') /\ (WO => WO') /\ (HO => HO') /\ (AO => AO')
               /\ (QC => QC') /\ (WC => WC') /\ (HC => HC') /\ (AC => AC')
    BY <1>1, FlightUndisturbed, FlightKept
  <1>7. [Next]_vars => (Patient => Patient')
    BY HabitsFixed DEF Patient
  <1> HIDE DEF QO, WO, HO, AO, QC, WC, HC, AC, S
  <1>8. PatientInv => TypeOK
    BY DEF PatientInv, LifecycleInv
  <1>9. Spec /\ PoolWorks /\ SignalsDelivered => (Patient ~> S)
    BY <1>2, <1>3, <1>4, <1>5, <1>6, <1>7, <1>8, PatientAlways, TypeCorrect, PTL
    DEF Spec, PoolWorks, SignalsDelivered
  <1>10. S <=> Pending = 0 \/ outcome # "running"
    BY DEF S, Settled
  <1>11. QED BY <1>9, <1>10, PTL DEF GuiSettles

-----------------------------------------------------------------------------
(* Progress from the fairness of the specification.  Fairness holds at every *)
(* time if it holds at the start; boxed, it can be used at every time for    *)
(* the thread that then matters.                                             *)

CanTake(th) == thread[th] = "idle" /\ queue # <<>>
CanOpen(th) == thread[th] = "openWaits" /\ MutexFree
CanClose(th) == thread[th] = "closeWaits" /\ MutexFree
Opens(th) == thread[th] = "opening"
Closes(th) == thread[th] = "closing"

\* An action is enabled where its guard holds.
GuardsSuffice ==
    /\ \A th \in Threads :
          /\ CanTake(th) => ENABLED <<TakeTask(th)>>_vars
          /\ CanOpen(th) => ENABLED <<BeginOpen(th)>>_vars
          /\ CanClose(th) => ENABLED <<BeginClose(th)>>_vars
          /\ Opens(th) => ENABLED <<EndOpen(th)>>_vars
          /\ Closes(th) => ENABLED <<EndClose(th)>>_vars
    /\ Posted => ENABLED <<Deliver>>_vars

\* What holds throughout a fair behaviour.
Throughout == []LifecycleInv /\ [][Next]_vars /\ []GuardsSuffice /\ []Fairness

LEMMA GoesThroughout == Spec /\ []GuardsSuffice /\ []Fairness => Throughout
  <1>1. LifecycleInv /\ [Next]_vars => LifecycleInv'
    BY LifecycleInvNext
  <1>2. QED BY <1>1, LifecycleInvInit, PTL DEF Spec, Throughout

\* What fairness says of one thread.
ThreadFair(th) ==
    /\ []<>~CanTake(th) \/ []<><<TakeTask(th)>>_vars
    /\ GetsMutex(th)
    /\ []<>~Opens(th) \/ []<><<EndOpen(th)>>_vars
    /\ []<>~Closes(th) \/ []<><<EndClose(th)>>_vars

\* Fair to a thread is fair to it ever after.
LEMMA FairStays == ASSUME NEW th \in Threads PROVE ThreadRuns(th) => []ThreadRuns(th)
  BY PTL DEF ThreadRuns

AllRun == \A th \in Threads : ThreadRuns(th)

LEMMA FairToThread == ASSUME NEW th \in Threads PROVE Throughout => ThreadFair(th)
  <1>1. Fairness => AllRun
    BY PTL DEF Fairness, AllRun
  <1>2. AllRun => ThreadRuns(th)
    BY DEF AllRun
  <1>3. GuardsSuffice => /\ CanTake(th) => ENABLED <<TakeTask(th)>>_vars
                         /\ CanOpen(th) => ENABLED <<BeginOpen(th)>>_vars
                         /\ CanClose(th) => ENABLED <<BeginClose(th)>>_vars
                         /\ Opens(th) => ENABLED <<EndOpen(th)>>_vars
                         /\ Closes(th) => ENABLED <<EndClose(th)>>_vars
    BY DEF GuardsSuffice
  <1>4. QED BY <1>1, <1>2, <1>3, PTL
  DEF Throughout, ThreadRuns, ThreadFair, GetsMutex, CanOpen, CanClose

\* A thread stays where it is until it moves itself, and the queue is only taken from
\* by the pool.
LEMMA ThreadKeeps ==
    ASSUME LifecycleInv, NEW th \in Threads, [Next]_vars
    PROVE  /\ Opens(th) => Opens(th)' \/ EndOpen(th)
           /\ Closes(th) => Closes(th)' \/ EndClose(th)
           /\ CanTake(th) => CanTake(th)' \/ Pool
           /\ thread'[th] # thread[th] => Pool
  <1>1. ASSUME NEW u \in Threads,
               TakeTask(u) \/ BeginOpen(u) \/ EndOpen(u) \/ BeginClose(u) \/ EndClose(u)
        PROVE  /\ Opens(th) => Opens(th)' \/ EndOpen(th)
               /\ Closes(th) => Closes(th)' \/ EndClose(th)
    BY <1>1
    DEF LifecycleInv, TypeOK, TakeTask, BeginOpen, EndOpen, BeginClose, EndClose, Opens, Closes
  <1>2. CASE Pool
    BY <1>1, <1>2 DEF Pool
  <1>3. CASE Deliver \/ User \/ UNCHANGED vars
    <2>1. UNCHANGED thread
      BY <1>3 DEF vars, poolVars, Deliver, WalletOpened, WalletClosed, User, PasswordAccepted,
         PasswordRejected, InfoClosed, ShowWizard, RescanCache, WizardNewWallet,
         WizardRecoverFailed, UseMonero, OpenWalletFromFile, FileAccepted, FileRejected,
         OpenViewOnlyWizard, LeaveViewOnlyWizard, CloseAccepted
    <2> DEFINE Longer == \/ queue' = queue
                         \/ \E ops \in {<<>>, <<"open">>, <<"close">>, <<"close", "open">>} :
                               queue' = queue \o ops
    <2>2. Longer
      <3>1. Initialize => Longer
        <4>1. InitializeFromFile => Longer
          BY DEF InitializeFromFile, Submit
        <4>2. InitializeFromWizard => Longer
          BY DEF InitializeFromWizard, Submit
        <4>3. QED BY <4>1, <4>2 DEF Initialize
      <3>2. WalletOpened \/ WalletClosed => Longer
        BY DEF WalletOpened, OpenSucceeded, OpenFailed, OpenedDangling, WalletClosed, Submit
      <3>3. PasswordAccepted \/ UseMonero \/ FileAccepted => Initialize
        BY DEF PasswordAccepted, UseMonero, FileAccepted
      <3>4. ShowWizard \/ RescanCache => Longer
        BY DEF ShowWizard, RescanCache, Submit
      <3>5. CASE UNCHANGED queue
        BY <3>5
      <3> HIDE DEF Longer
      <3>6. QED
        BY <1>3, <3>1, <3>2, <3>3, <3>4, <3>5
        DEF vars, poolVars, Deliver, User, PasswordRejected, InfoClosed, WizardNewWallet,
            WizardRecoverFailed, OpenWalletFromFile, FileRejected, OpenViewOnlyWizard,
            LeaveViewOnlyWizard, CloseAccepted
    <2>3. queue \in Seq(Ops) /\ "open" \in Ops /\ "close" \in Ops
      BY DEF LifecycleInv, TypeOK, Ops
    <2>4. queue # <<>> => queue' # <<>>
      BY <2>2, <2>3
    <2>5. QED BY <2>1, <2>4 DEF Opens, Closes, CanTake
  <1>4. QED BY <1>2, <1>3 DEF Next

LEMMA ThreadLeaves == ASSUME NEW th \in Threads PROVE Throughout => LeavesMutex(th)
  <1> DEFINE H == thread[th] \in Holding
             O == Opens(th)
             C == Closes(th)
  <1>1. H <=> O \/ C
    BY DEF Holding, Opens, Closes
  <1>2. LifecycleInv /\ [Next]_vars
           => (O => O' \/ EndOpen(th)) /\ (C => C' \/ EndClose(th))
    BY ThreadKeeps
  <1>3. EndOpen(th) \/ EndClose(th) <=> Ends(th)
    BY DEF Ends
  <1>4. ThreadFair(th) => /\ []<>~O \/ []<><<EndOpen(th)>>_vars
                          /\ []<>~C \/ []<><<EndClose(th)>>_vars
    BY DEF ThreadFair
  <1>5. ~(O /\ C) /\ (UNCHANGED vars => (O => O') /\ (C => C'))
    BY DEF Opens, Closes, vars, poolVars
  <1> HIDE DEF H, O, C
  <1>6. Throughout => []<>~H \/ []<><<Ends(th)>>_vars
    BY <1>1, <1>2, <1>3, <1>4, <1>5, FairToThread, PTL DEF Throughout
  <1>7. QED BY <1>6, PTL DEF LeavesMutex, H

\* Whoever has the mutex leaves it, so it gets free again and again.
GetsFree == <>MutexFree
FreedBy(th) == thread[th] \in Holding => GetsFree
AllFree == \A th \in Threads : FreedBy(th)

LEMMA ThreadFrees == ASSUME NEW th \in Threads PROVE Throughout => FreedBy(th)
  <1> DEFINE H == thread[th] \in Holding
  <1>1. LifecycleInv /\ [Next]_vars => (H => H' \/ Ends(th))
    BY ThreadKeeps DEF Holding, Opens, Closes, Ends
  <1>2. LifecycleInv /\ Ends(th) => MutexFree'
    BY EndFrees
  <1>3. LeavesMutex(th) => []<>~H \/ []<><<Ends(th)>>_vars
    BY PTL DEF LeavesMutex
  <1> HIDE DEF H
  <1>4. Throughout => (H => GetsFree)
    BY <1>1, <1>2, <1>3, ThreadLeaves, PTL DEF Throughout, GetsFree
  <1>5. QED BY <1>4 DEF FreedBy, H

LEMMA MutexGetsFree == Throughout => []<>MutexFree
  <1>1. Throughout => AllFree
    BY ThreadFrees DEF AllFree
  <1>2. AllFree /\ ~MutexFree => GetsFree
    BY DEF AllFree, FreedBy, MutexFree
  <1>3. QED BY <1>1, <1>2, PTL DEF Throughout, GetsFree

LEMMA TaskEnds ==
    ASSUME NEW th \in Threads
    PROVE  Throughout => (thread[th] # "idle" ~> thread[th] = "idle")
  <1> DEFINE O == thread[th] = "openWaits"
             C == thread[th] = "closeWaits"
             H == thread[th] \in Holding
             I == thread[th] = "idle"
  <1>1. LifecycleInv => O \/ C \/ H \/ I
    BY DEF LifecycleInv, TypeOK, ThreadStates, Holding
  <1>2. LifecycleInv /\ [Next]_vars
           => (O => O' \/ H') /\ (C => C' \/ H') /\ (H => H' \/ I')
    BY ThreadMoves DEF LifecycleInv
  <1>3. LifecycleInv /\ [Next]_vars
           => (BeginOpen(th) => H') /\ (BeginClose(th) => H') /\ (Ends(th) => I')
    BY ThreadMoves DEF LifecycleInv
  <1>4. ~(O /\ C) /\ ~(O /\ H) /\ ~(C /\ H) /\ (thread[th] # "idle" <=> ~I)
    BY DEF Holding
  <1>5. GetsMutex(th) => /\ <>[]~(O /\ MutexFree) \/ []<><<BeginOpen(th)>>_vars
                         /\ <>[]~(C /\ MutexFree) \/ []<><<BeginClose(th)>>_vars
    BY DEF GetsMutex
  <1>6. LeavesMutex(th) => []<>~H \/ []<><<Ends(th)>>_vars
    BY PTL DEF LeavesMutex
  <1>7. ThreadFair(th) => GetsMutex(th)
    BY PTL DEF ThreadFair
  <1> HIDE DEF O, C, H, I
  <1>8. Throughout => (~I ~> I)
    BY <1>1, <1>2, <1>3, <1>5, <1>6, <1>7, FairToThread, ThreadLeaves, MutexGetsFree, PTL
    DEF Throughout
  <1>9. QED BY <1>8, PTL DEF I

\* No task of the pool waits for ever, with any number of threads, under the fairness
\* of the specification: the mutex has one holder, who leaves it without waiting for
\* anything.
THEOREM NoTaskIsStuck == Spec /\ []GuardsSuffice /\ []Fairness => NoTaskStuck
  <1>1. Throughout => NoTaskStuck
    BY TaskEnds DEF NoTaskStuck
  <1>2. QED BY <1>1, GoesThroughout

\* The pool takes its tasks and goes on with them.
PoolGoesOn == <><<Pool>>_vars
WorkedOn(th) == CanTake(th) \/ thread[th] # "idle" => PoolGoesOn
AllWorkedOn == \A th \in Threads : WorkedOn(th)

LEMMA ThreadWorks == ASSUME NEW th \in Threads PROVE Throughout => WorkedOn(th)
  <1> DEFINE T == CanTake(th)
             I == thread[th] = "idle"
  <1>1. LifecycleInv /\ [Next]_vars => (T => T' \/ Pool) /\ (~I /\ I' => Pool)
    BY ThreadKeeps
  <1>2. UNCHANGED vars => (T => T') /\ (~I => ~I')
    BY DEF CanTake, vars, poolVars
  <1>3. TakeTask(th) => Pool
    BY DEF Pool
  <1>4. ThreadFair(th) => []<>~T \/ []<><<TakeTask(th)>>_vars
    BY PTL DEF ThreadFair
  <1>5. thread[th] # "idle" <=> ~I
    OBVIOUS
  <1>6. Throughout => (~I ~> I)
    BY <1>5, TaskEnds, PTL DEF I
  <1> HIDE DEF T, I
  <1>7. Throughout => (T \/ ~I => PoolGoesOn)
    BY <1>1, <1>2, <1>3, <1>4, <1>6, FairToThread, PTL DEF Throughout, PoolGoesOn
  <1>8. QED BY <1>7 DEF WorkedOn, T, I

LEMMA PoolGoesOnThroughout == Throughout => PoolWorks /\ SignalsDelivered
  <1>1. Throughout => AllWorkedOn
    BY ThreadWorks DEF AllWorkedOn
  <1>2. AllWorkedOn /\ PoolBusy => PoolGoesOn
    BY LifecycleAssumption
    DEF AllWorkedOn, WorkedOn, PoolBusy, Idle, CanTake, LifecycleAssumption
  <1>3. Throughout => []<>~PoolBusy \/ []<><<Pool>>_vars
    BY <1>1, <1>2, PTL DEF Throughout, PoolGoesOn
  <1>4. GuardsSuffice => (Posted => ENABLED <<Deliver>>_vars)
    BY DEF GuardsSuffice
  <1>5. QED BY <1>3, <1>4, PTL DEF Throughout, Fairness, PoolWorks, SignalsDelivered

\* The GUI settles under the fairness of the specification.
THEOREM GuiSettlesInTheEnd == Spec /\ []GuardsSuffice /\ []Fairness => GuiSettles
  BY GuiGetsSettled, PoolGoesOnThroughout, GoesThroughout, PTL
=============================================================================
