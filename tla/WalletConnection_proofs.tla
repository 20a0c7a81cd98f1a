----------------------- MODULE WalletConnection_proofs -----------------------
(***************************************************************************)
(* Theorems about WalletConnection, for any daemons, any number of checks  *)
(* and initialisations in flight and any number of changes: what is shown  *)
(* is the cached status, and that becomes what the daemon answers.         *)
(***************************************************************************)
EXTENDS WalletConnection, FiniteSetTheorems, TLAPS

Slots == Status \cup {"none", "running"}

\* Until the first event of the wallet was handled its cached status is the one
\* it was constructed with.
BeforeFirstEvent == ~walletInitialized => m_connectionStatus = "Disconnected"

\* The three safety properties hold together with the types; BeforeFirstEvent
\* is what keeps a page visited before the first event closed.
ConnectionInv ==
    /\ TypeOK /\ PanelShowsStatus /\ SendNeedsConnection /\ LockNotLeaked
    /\ BeforeFirstEvent

LEMMA InvInit == Init => ConnectionInv
  <1>1. SUFFICES ASSUME Init PROVE ConnectionInv
    OBVIOUS
  <1>2. changes \in 0 .. MaxChanges
    BY <1>1, ConnectionAssumption DEF Init, ConnectionAssumption
  <1>3. init \in [Inits -> Daemons \cup {"none", "done"}]
    BY <1>1 DEF Init
  <1>4. check \in [Checks -> Slots]
    BY <1>1 DEF Init, Slots
  <1>5. TypeOK
    BY <1>1, <1>2, <1>3, <1>4 DEF Init, TypeOK, Slots, Status, Ages
  <1>6. QED
    BY <1>1, <1>5
    DEF Init, ConnectionInv, PanelShowsStatus, SendNeedsConnection, LockNotLeaked, BeforeFirstEvent

\* A slot taken for a new check, from slots of the right type.
LEMMA StartType ==
    ASSUME NEW cs \in [Checks -> Slots], StartCheck(cs)
    PROVE  /\ check' \in [Checks -> Slots]
           /\ age' \in Ages
           /\ \E c \in Checks : check'[c] # "none"
  BY DEF StartCheck, Ages, Slots

LEMMA ShowType ==
    ASSUME NEW st \in Status, NEW synced \in BOOLEAN, Show(st, synced)
    PROVE  /\ walletInitialized' = TRUE /\ shown' = st
           /\ sendEnabled' \in BOOLEAN
           /\ sendEnabled' => st = "Connected"
  BY DEF Show

LEMMA AnswerType == TypeOK => Answer \in Status
  BY DEF TypeOK, Answer, Status

LEMMA StepDaemonChanges ==
    ASSUME ConnectionInv, DaemonChanges PROVE ConnectionInv'
  <1>1. changes' \in 0 .. MaxChanges
    BY ConnectionAssumption DEF ConnectionInv, TypeOK, DaemonChanges, ConnectionAssumption
  <1>2. net' \in [Daemons -> Status]
    BY DEF ConnectionInv, TypeOK, DaemonChanges
  <1>3. QED
    BY <1>1, <1>2
    DEF ConnectionInv, TypeOK, DaemonChanges, walletVars, cacheVars, guiVars,
        PanelShowsStatus, SendNeedsConnection, LockNotLeaked, BeforeFirstEvent

LEMMA StepTimePasses ==
    ASSUME ConnectionInv, TimePasses PROVE ConnectionInv'
  BY DEF ConnectionInv, TypeOK, TimePasses, Ages, walletVars, guiVars,
     PanelShowsStatus, SendNeedsConnection, LockNotLeaked, BeforeFirstEvent

LEMMA StepInitAsync ==
    ASSUME ConnectionInv, InitAsync PROVE ConnectionInv'
  <1>1. /\ changes' \in 0 .. MaxChanges
        /\ init' \in [Inits -> Daemons \cup {"none", "done"}]
        /\ UNCHANGED <<net, daemon, m_initialized, refreshing>>
    BY ConnectionAssumption DEF ConnectionInv, TypeOK, InitAsync, ConnectionAssumption
  <1>2. CASE m_connectionStatus = "Disconnected"
    BY <1>1, <1>2
    DEF InitAsync, ConnectionInv, TypeOK, cacheVars, guiVars, PanelShowsStatus,
        SendNeedsConnection, LockNotLeaked, BeforeFirstEvent
  <1>3. CASE m_connectionStatus # "Disconnected"
    <2>1. m_connectionStatus' = "Disconnected" /\ "Disconnected" \in Status
      BY <1>3 DEF InitAsync, Status
    <2>2. PICK synced \in BOOLEAN : Show("Disconnected", synced)
      BY <1>3 DEF InitAsync
    <2>3. /\ walletInitialized' = TRUE /\ shown' = "Disconnected"
          /\ sendEnabled' \in BOOLEAN /\ ~sendEnabled'
      BY <2>1, <2>2, ShowType
    <2>4. CASE StartCheck(check) /\ m_connectionStatusRunning' = TRUE
      BY <1>1, <2>1, <2>3, <2>4, StartType
      DEF ConnectionInv, TypeOK, Slots, PanelShowsStatus, SendNeedsConnection, LockNotLeaked, BeforeFirstEvent
    <2>5. CASE UNCHANGED cacheVars
      BY <1>1, <2>1, <2>3, <2>5
      DEF ConnectionInv, TypeOK, cacheVars, PanelShowsStatus, SendNeedsConnection, LockNotLeaked, BeforeFirstEvent
    <2>6. QED BY <1>3, <2>4, <2>5 DEF InitAsync
  <1>4. QED BY <1>2, <1>3

LEMMA StepInit ==
    ASSUME ConnectionInv, NEW i \in Inits, InitRuns(i) \/ InitFinished(i)
    PROVE  ConnectionInv'
  <1>1. CASE InitRuns(i)
    BY <1>1
    DEF InitRuns, ConnectionInv, TypeOK, cacheVars, guiVars, PanelShowsStatus,
        SendNeedsConnection, LockNotLeaked, BeforeFirstEvent
  <1>2. CASE InitFinished(i)
    <2>1. StartCheck(check) /\ m_connectionStatusRunning' = TRUE
      BY <1>2 DEF InitFinished
    <2>2. init' \in [Inits -> Daemons \cup {"none", "done"}]
      BY <1>2 DEF InitFinished, ConnectionInv, TypeOK
    <2>3. QED
      BY <1>2, <2>1, <2>2, StartType
      DEF InitFinished, ConnectionInv, TypeOK, Slots, walletVars, guiVars, PanelShowsStatus,
          SendNeedsConnection, LockNotLeaked, BeforeFirstEvent
  <1>3. QED BY <1>1, <1>2

LEMMA StepCheckRuns ==
    ASSUME ConnectionInv, NEW c \in Checks, CheckRuns(c) PROVE ConnectionInv'
  <1>1. Answer \in Status /\ Answer # "none"
    BY AnswerType DEF ConnectionInv, Status
  <1>2. check' = [check EXCEPT ![c] = Answer] /\ check' \in [Checks -> Slots]
    BY <1>1 DEF CheckRuns, ConnectionInv, TypeOK, Slots
  <1>3. (\E d \in Checks : check[d] # "none") => \E d \in Checks : check'[d] # "none"
    BY <1>1, <1>2 DEF ConnectionInv, TypeOK
  <1>4. QED
    BY <1>2, <1>3
    DEF CheckRuns, ConnectionInv, TypeOK, Slots, walletVars, guiVars, PanelShowsStatus,
        SendNeedsConnection, LockNotLeaked, BeforeFirstEvent

LEMMA StepCheckFinished ==
    ASSUME ConnectionInv, NEW c \in Checks, CheckFinished(c) PROVE ConnectionInv'
  <1> DEFINE st == check[c]
             freed == [check EXCEPT ![c] = "none"]
  <1>1. st \in Status /\ m_connectionStatusRunning' = FALSE
        /\ UNCHANGED <<net, changes, daemon, init, refreshing>>
    BY DEF CheckFinished
  <1>2. freed \in [Checks -> Slots]
    BY DEF ConnectionInv, TypeOK, Slots
  <1>3. CASE st # m_connectionStatus \/ ~m_initialized
    <2>1. PICK synced \in BOOLEAN : Show(st, synced)
      BY <1>3 DEF CheckFinished
    <2>2. m_connectionStatus' = st /\ m_initialized' = TRUE
      BY <1>3 DEF CheckFinished
    <2>3. StartCheck(freed) \/ (check' = freed /\ UNCHANGED age)
      BY <1>3 DEF CheckFinished
    <2> HIDE DEF st, freed
    <2>4. check' \in [Checks -> Slots] /\ age' \in Ages
      BY <1>2, <2>3, StartType DEF ConnectionInv, TypeOK
    <2>5. /\ walletInitialized' = TRUE /\ shown' = st
          /\ sendEnabled' \in BOOLEAN /\ (sendEnabled' => st = "Connected")
      BY <1>1, <2>1, ShowType
    <2>6. QED
      BY <1>1, <2>2, <2>4, <2>5
      DEF ConnectionInv, TypeOK, Slots, PanelShowsStatus, SendNeedsConnection, LockNotLeaked, BeforeFirstEvent
  <1>4. CASE ~(st # m_connectionStatus \/ ~m_initialized)
    <2>1. check' = freed /\ UNCHANGED <<m_connectionStatus, m_initialized, age, guiVars>>
      BY <1>4 DEF CheckFinished
    <2> HIDE DEF st, freed
    <2>2. QED
      BY <1>1, <1>2, <2>1
      DEF ConnectionInv, TypeOK, Slots, guiVars, PanelShowsStatus, SendNeedsConnection,
          LockNotLeaked, BeforeFirstEvent
  <1>5. QED BY <1>3, <1>4

LEMMA StepWalletRefreshed ==
    ASSUME ConnectionInv, WalletRefreshed PROVE ConnectionInv'
  <1>1. /\ shown' = m_connectionStatus
        /\ UNCHANGED <<net, changes, init, refreshing, walletVars, walletInitialized>>
    BY DEF WalletRefreshed
  <1>2. sendEnabled' \in BOOLEAN /\ (sendEnabled' => m_connectionStatus = "Connected")
    BY DEF WalletRefreshed
  <1>3. /\ check' \in [Checks -> Slots] /\ age' \in Ages
        /\ m_connectionStatusRunning' \in BOOLEAN /\ LockNotLeaked'
    <2>1. CASE ~m_initialized
      <3>1. /\ check' = [c \in Checks |-> IF check[c] = "none" THEN "running" ELSE check[c]]
            /\ age' = "fresh" /\ m_connectionStatusRunning' = TRUE
        BY <2>1 DEF WalletRefreshed
      <3>2. check' \in [Checks -> Slots] /\ \A c \in Checks : check'[c] # "none"
        BY <3>1 DEF ConnectionInv, TypeOK, Slots
      <3>3. QED BY <3>1, <3>2, ConnectionAssumption DEF Ages, LockNotLeaked, ConnectionAssumption
    <2>2. CASE m_initialized /\ StartCheck(check) /\ m_connectionStatusRunning' = TRUE
      <3>1. check \in [Checks -> Slots]
        BY DEF ConnectionInv, TypeOK, Slots
      <3>2. QED BY <2>2, <3>1, StartType DEF LockNotLeaked
    <2>3. CASE UNCHANGED cacheVars
      BY <2>3 DEF cacheVars, ConnectionInv, TypeOK, Slots, LockNotLeaked
    <2>4. QED BY <2>1, <2>2, <2>3 DEF WalletRefreshed
  <1>4. QED
    BY <1>1, <1>2, <1>3
    DEF ConnectionInv, TypeOK, Slots, walletVars, PanelShowsStatus, SendNeedsConnection,
        BeforeFirstEvent

LEMMA StepDaemonSignal ==
    ASSUME ConnectionInv, DaemonSignal PROVE ConnectionInv'
  <1>1. changes' \in 0 .. MaxChanges
    BY ConnectionAssumption DEF ConnectionInv, TypeOK, DaemonSignal, ConnectionAssumption
  <1>2. check \in [Checks -> Slots]
    BY DEF ConnectionInv, TypeOK, Slots
  <1>3. QED
    BY <1>1, <1>2, StartType
    DEF DaemonSignal, ConnectionInv, TypeOK, Slots, walletVars, guiVars, PanelShowsStatus,
        SendNeedsConnection, LockNotLeaked, BeforeFirstEvent

LEMMA StepPageLoaded ==
    ASSUME ConnectionInv, PageLoaded PROVE ConnectionInv'
  <1>1. /\ changes' \in 0 .. MaxChanges
        /\ UNCHANGED <<net, init, refreshing, walletVars, walletInitialized, shown>>
    BY ConnectionAssumption DEF ConnectionInv, TypeOK, PageLoaded, ConnectionAssumption
  <1>2. sendEnabled' \in BOOLEAN /\ (sendEnabled' => m_connectionStatus = "Connected")
    BY DEF PageLoaded
  <1>3. sendEnabled' => shown = "Connected"
    BY <1>2 DEF ConnectionInv, PanelShowsStatus, BeforeFirstEvent
  <1>4. check \in [Checks -> Slots]
    BY DEF ConnectionInv, TypeOK, Slots
  <1>5. /\ check' \in [Checks -> Slots] /\ age' \in Ages
        /\ m_connectionStatusRunning' \in BOOLEAN /\ LockNotLeaked'
    <2>1. CASE StartCheck(check) /\ m_connectionStatusRunning' = TRUE
      BY <1>4, <2>1, StartType DEF LockNotLeaked
    <2>2. CASE UNCHANGED cacheVars
      BY <2>2 DEF cacheVars, ConnectionInv, TypeOK, Slots, LockNotLeaked
    <2>3. QED BY <2>1, <2>2 DEF PageLoaded
  <1>6. QED
    BY <1>1, <1>2, <1>3, <1>5
    DEF ConnectionInv, TypeOK, Slots, walletVars, PanelShowsStatus, SendNeedsConnection,
        BeforeFirstEvent

LEMMA InvNext ==
    ASSUME ConnectionInv, [Next]_vars PROVE ConnectionInv'
  <1>1. CASE UNCHANGED vars
    BY <1>1
    DEF vars, walletVars, cacheVars, guiVars, ConnectionInv, TypeOK, PanelShowsStatus,
        SendNeedsConnection, LockNotLeaked, BeforeFirstEvent
  <1>2. QED
    BY <1>1, StepDaemonChanges, StepTimePasses, StepInitAsync, StepInit, StepCheckRuns,
       StepCheckFinished, StepWalletRefreshed, StepDaemonSignal, StepPageLoaded DEF Next

LEMMA InvAlways == Spec => []ConnectionInv
  BY InvInit, InvNext, PTL DEF Spec

\* The variables of a connection keep their types.
THEOREM TypeCorrect == Spec => []TypeOK
  <1>1. ConnectionInv => TypeOK
    BY DEF ConnectionInv
  <1>2. QED BY <1>1, InvAlways, PTL

\* Once a status change was handled the panel never shows a status the wallet
\* does not have, in whatever order checks and initialisations complete.
THEOREM PanelNeverStale == Spec => []PanelShowsStatus
  <1>1. ConnectionInv => PanelShowsStatus
    BY DEF ConnectionInv
  <1>2. QED BY <1>1, InvAlways, PTL

\* The transfer page is open for input only while the panel shows Connected and,
\* once an event of the wallet was handled, only while its cached status is
\* Connected, whatever page the wallet before it left open.
THEOREM SendGuarded == Spec => []SendNeedsConnection
  <1>1. ConnectionInv => SendNeedsConnection
    BY DEF ConnectionInv
  <1>2. QED BY <1>1, InvAlways, PTL

\* The flag that suppresses further checks is never set with no check in flight.
THEOREM LockIsReleased == Spec => []LockNotLeaked
  <1>1. ConnectionInv => LockNotLeaked
    BY DEF ConnectionInv
  <1>2. QED BY <1>1, InvAlways, PTL

-----------------------------------------------------------------------------
(* The cached status becomes what the daemon answers.                      *)
(*                                                                         *)
(* The changes made by daemons and user come to an end, then the calls of  *)
(* init end, then no answer is left that differs from what the daemon      *)
(* answers now.  From there on no step disturbs a right status, and if the *)
(* status stayed wrong no check would ever finish: nothing would be in     *)
(* flight, the cache would expire and the refresh thread start a check.    *)

\* Calls in flight are finitely many, and an address is no mark of a free slot.
FewCalls == IsFiniteSet(Checks) /\ IsFiniteSet(Inits) /\ Daemons \cap {"none", "done"} = {}

\* What the fairness of Spec says, with each action's guard for its ENABLED.
TimeGoesOn == []<>(age = "expired") \/ []<><<TimePasses>>_vars
CheckDue == refreshing /\ age = "expired" /\ \E c \in Checks : check[c] = "none"
RefreshReports == []<>~CheckDue \/ []<><<WalletRefreshed>>_vars
SomeInitWaits == \E i \in Inits : init[i] \in Daemons
SomeInitRuns == \E i \in Inits : InitRuns(i)
InitsAreRun == []<>~SomeInitWaits \/ []<><<SomeInitRuns>>_vars
CheckFree == \E c \in Checks : check[c] = "none"
SomeInitDone == CheckFree /\ \E i \in Inits : init[i] = "done"
SomeInitFinished == \E i \in Inits : InitFinished(i)
InitsAreFinished == []<>~SomeInitDone \/ []<><<SomeInitFinished>>_vars
SomeCheckRunning == \E c \in Checks : check[c] = "running"
SomeCheckRuns == \E c \in Checks : CheckRuns(c)
ChecksAreRun == []<>~SomeCheckRunning \/ []<><<SomeCheckRuns>>_vars
SomeAnswer == \E c \in Checks : check[c] \in Status
SomeCheckFinished == \E c \in Checks : CheckFinished(c)
ChecksAreFinished == []<>~SomeAnswer \/ []<><<SomeCheckFinished>>_vars

\* The changes that may still come, the calls of init under way (one that has not
\* run counts twice) and the answers on their way that are out of date.
ChangesLeft == {n \in 1 .. MaxChanges : n > changes}
Pending ==
    {p \in Inits \X {"to run", "to finish"} :
        IF p[2] = "to run" THEN init[p[1]] \in Daemons ELSE init[p[1]] # "none"}
OldAnswers == {c \in Checks : check[c] \in Status \ {Answer}}

ChangesFall == ChangesLeft' \subseteq ChangesLeft
PendingFall == UNCHANGED ChangesLeft => Pending' \subseteq Pending
OldAnswersFall ==
    UNCHANGED <<ChangesLeft, Pending>> =>
        /\ OldAnswers' \subseteq OldAnswers
        /\ \A c \in OldAnswers : CheckFinished(c) => c \notin OldAnswers'

\* A finite set that only loses elements stays as it is in the end: true of every
\* behaviour, as finite sets are well-founded by inclusion, which temporal logic
\* alone does not know.
ChangesSettle ==
    <>[][IsFiniteSet(ChangesLeft) /\ ChangesLeft' \subseteq ChangesLeft]_vars
        => <>[][ChangesLeft' = ChangesLeft]_vars
PendingSettle ==
    <>[][IsFiniteSet(Pending) /\ Pending' \subseteq Pending]_vars
        => <>[][Pending' = Pending]_vars
OldAnswersSettle ==
    <>[][IsFiniteSet(OldAnswers) /\ OldAnswers' \subseteq OldAnswers]_vars
        => <>[][OldAnswers' = OldAnswers]_vars

\* The refresh thread runs, or the initialisation that starts it is under way.
RefreshComes == refreshing \/ \E i \in Inits : init[i] # "none"

\* A step once changes and initialisations have settled.
Calm ==
    \/ TimePasses \/ WalletRefreshed \/ SomeCheckRuns
    \/ \E c \in Checks : CheckFinished(c) /\ check[c] = Answer
    \/ UNCHANGED vars

LEMMA RefreshComesAlways == ASSUME FewCalls PROVE Spec => []RefreshComes
  <1>1. Init => RefreshComes
    BY FewCalls DEF Init, RefreshComes, FewCalls
  <1>2. TypeOK /\ RefreshComes /\ [Next]_vars => RefreshComes'
    <2> SUFFICES ASSUME TypeOK, RefreshComes, [Next]_vars PROVE RefreshComes'
      OBVIOUS
    <2>1. CASE InitAsync
      <3>1. PICK i \in Inits, d \in Daemons : init' = [init EXCEPT ![i] = d]
        BY <2>1 DEF InitAsync
      <3>2. QED BY <3>1, FewCalls DEF RefreshComes, FewCalls, TypeOK
    <2>2. ASSUME NEW i \in Inits, InitRuns(i) PROVE RefreshComes'
      BY <2>2 DEF InitRuns, RefreshComes, TypeOK
    <2>3. ASSUME NEW i \in Inits, InitFinished(i) PROVE RefreshComes'
      BY <2>3 DEF InitFinished, RefreshComes
    <2>4. CASE \/ DaemonChanges \/ TimePasses \/ DaemonSignal \/ PageLoaded
              \/ WalletRefreshed \/ UNCHANGED vars
      BY <2>4
      DEF DaemonChanges, TimePasses, DaemonSignal, PageLoaded, WalletRefreshed, vars, RefreshComes
    <2>5. ASSUME NEW c \in Checks, CheckRuns(c) \/ CheckFinished(c) PROVE RefreshComes'
      BY <2>5 DEF CheckRuns, CheckFinished, RefreshComes
    <2>6. QED BY <2>1, <2>2, <2>3, <2>4, <2>5 DEF Next
  <1>3. QED BY <1>1, <1>2, TypeCorrect, PTL DEF Spec

LEMMA ChangesNext == TypeOK /\ [Next]_vars => ChangesFall
  <1> SUFFICES ASSUME TypeOK, [Next]_vars PROVE ChangesFall
    OBVIOUS
  <1>1. changes' = changes \/ changes' = changes + 1
    BY DEF Next, DaemonChanges, TimePasses, InitAsync, DaemonSignal, PageLoaded, WalletRefreshed,
       InitRuns, InitFinished, CheckRuns, CheckFinished, vars
  <1>2. QED BY <1>1, ConnectionAssumption
            DEF TypeOK, ChangesFall, ChangesLeft, ConnectionAssumption

\* With no change left, nobody changes a daemon, reconnects, signals or visits.
LEMMA NoMoreChanges ==
    TypeOK /\ UNCHANGED ChangesLeft => ~DaemonChanges /\ ~InitAsync /\ ~DaemonSignal /\ ~PageLoaded
  <1> SUFFICES ASSUME TypeOK, UNCHANGED ChangesLeft, changes < MaxChanges, changes' = changes + 1
               PROVE  FALSE
    BY DEF DaemonChanges, InitAsync, DaemonSignal, PageLoaded
  <1>1. changes + 1 \in ChangesLeft /\ changes + 1 \notin ChangesLeft'
    BY ConnectionAssumption DEF TypeOK, ChangesLeft, ConnectionAssumption
  <1>2. QED BY <1>1

\* What the other actions do to the calls of init and the daemon.
LEMMA InitsKept ==
    ASSUME \/ TimePasses \/ WalletRefreshed \/ UNCHANGED vars
           \/ \E c \in Checks : CheckRuns(c) \/ CheckFinished(c)
    PROVE  UNCHANGED <<net, daemon, init>>
  BY DEF TimePasses, WalletRefreshed, CheckRuns, CheckFinished, vars, walletVars

LEMMA PendingNext == ASSUME FewCalls PROVE TypeOK /\ [Next]_vars => PendingFall
  <1> SUFFICES ASSUME TypeOK, [Next]_vars, UNCHANGED ChangesLeft PROVE Pending' \subseteq Pending
    BY DEF PendingFall
  <1>1. ASSUME NEW i \in Inits, InitRuns(i) \/ InitFinished(i)
        PROVE  \A j \in Inits : /\ init'[j] # "none" => init[j] # "none"
                                /\ init'[j] \in Daemons => init[j] \in Daemons
    BY <1>1, FewCalls DEF InitRuns, InitFinished, TypeOK, FewCalls
  <1>2. \A j \in Inits : /\ init'[j] # "none" => init[j] # "none"
                         /\ init'[j] \in Daemons => init[j] \in Daemons
    BY <1>1, NoMoreChanges, InitsKept DEF Next
  <1>3. QED BY <1>2 DEF Pending

\* With no call of init ending, nothing but time, refreshes and checks goes on.
LEMMA NoMoreInits ==
    ASSUME FewCalls, TypeOK, UNCHANGED Pending, NEW i \in Inits
    PROVE  ~InitRuns(i) /\ ~InitFinished(i)
  <1>1. ASSUME InitRuns(i) PROVE FALSE
    <2>1. <<i, "to run">> \in Pending /\ <<i, "to run">> \notin Pending'
      BY <1>1, FewCalls DEF InitRuns, Pending, TypeOK, FewCalls
    <2>2. QED BY <2>1
  <1>2. ASSUME InitFinished(i) PROVE FALSE
    <2>1. <<i, "to finish">> \in Pending /\ <<i, "to finish">> \notin Pending'
      BY <1>2 DEF InitFinished, Pending, TypeOK
    <2>2. QED BY <2>1
  <1>3. QED BY <1>1, <1>2

\* A slot that is taken for a new check holds no answer.
LEMMA SlotsAfterStart ==
    ASSUME NEW cs \in [Checks -> Slots], StartCheck(cs), NEW c \in Checks, check'[c] \in Status
    PROVE  check'[c] = cs[c]
  BY DEF StartCheck, Slots, Status

\* The answers after a step that leaves the daemon alone.
LEMMA AnswersKept ==
    ASSUME TypeOK, NEW c \in Checks, check'[c] \in Status,
           \/ TimePasses \/ WalletRefreshed \/ UNCHANGED vars
           \/ \E d \in Checks : CheckRuns(d) \/ CheckFinished(d)
    PROVE  check'[c] = check[c] \/ check'[c] = Answer
  <1>1. check \in [Checks -> Slots]
    BY DEF TypeOK, Slots
  <1>2. CASE TimePasses \/ UNCHANGED vars
    BY <1>2 DEF TimePasses, vars, cacheVars
  <1>3. CASE WalletRefreshed
    <2>1. CASE ~m_initialized
      BY <1>1, <1>3, <2>1 DEF WalletRefreshed, Status
    <2>2. CASE StartCheck(check)
      BY <1>1, <2>2, SlotsAfterStart
    <2>3. CASE UNCHANGED cacheVars
      BY <2>3 DEF cacheVars
    <2>4. QED BY <1>3, <2>1, <2>2, <2>3 DEF WalletRefreshed
  <1>4. ASSUME NEW d \in Checks, CheckRuns(d) PROVE check'[c] = check[c] \/ check'[c] = Answer
    BY <1>1, <1>4 DEF CheckRuns
  <1>5. ASSUME NEW d \in Checks, CheckFinished(d)
        PROVE  check'[c] = check[c] \/ check'[c] = Answer
    <2> DEFINE freed == [check EXCEPT ![d] = "none"]
    <2>1. freed \in [Checks -> Slots] /\ (freed[c] \in Status => freed[c] = check[c])
      BY <1>1 DEF Slots, Status
    <2>2. check' = freed \/ StartCheck(freed)
      BY <1>5 DEF CheckFinished
    <2> HIDE DEF freed
    <2>3. check'[c] = freed[c]
      BY <2>1, <2>2, SlotsAfterStart
    <2>4. QED BY <2>1, <2>3
  <1>6. QED BY <1>2, <1>3, <1>4, <1>5

LEMMA OldAnswersNext == ASSUME FewCalls PROVE TypeOK /\ [Next]_vars => OldAnswersFall
  <1> SUFFICES ASSUME TypeOK, [Next]_vars, UNCHANGED <<ChangesLeft, Pending>>
               PROVE  /\ OldAnswers' \subseteq OldAnswers
                      /\ \A c \in OldAnswers : CheckFinished(c) => c \notin OldAnswers'
    BY DEF OldAnswersFall
  <1>1. \/ TimePasses \/ WalletRefreshed \/ UNCHANGED vars
        \/ \E c \in Checks : CheckRuns(c) \/ CheckFinished(c)
    BY NoMoreChanges, NoMoreInits, FewCalls DEF Next
  <1>2. Answer' = Answer
    BY <1>1, InitsKept DEF Answer
  <1>3. OldAnswers' \subseteq OldAnswers
    <2>1. SUFFICES ASSUME NEW c \in Checks, check'[c] \in Status, check'[c] # Answer
                   PROVE  check[c] = check'[c]
      BY <1>2 DEF OldAnswers
    <2>2. QED BY <1>1, <2>1, AnswersKept
  <1>4. ASSUME NEW c \in OldAnswers, CheckFinished(c) PROVE c \notin OldAnswers'
    <2> DEFINE freed == [check EXCEPT ![c] = "none"]
    <2>1. c \in Checks /\ freed \in [Checks -> Slots] /\ freed[c] \notin Status
      BY DEF OldAnswers, TypeOK, Slots, Status
    <2>2. check' = freed \/ StartCheck(freed)
      BY <1>4 DEF CheckFinished
    <2> HIDE DEF freed
    <2>3. check'[c] \notin Status
      BY <2>1, <2>2, SlotsAfterStart
    <2>4. QED BY <2>3 DEF OldAnswers
  <1>5. QED BY <1>3, <1>4

\* Changes come to an end, then initialisations, then answers that are out of date:
\* each only gets fewer once those before it have ended.
THEOREM DisturbancesGetFewer ==
    ASSUME FewCalls PROVE Spec => [][ChangesFall /\ PendingFall /\ OldAnswersFall]_vars
  <1>1. TypeOK /\ [Next]_vars => ChangesFall /\ PendingFall /\ OldAnswersFall
    BY ChangesNext, PendingNext, OldAnswersNext, FewCalls
  <1>2. QED BY <1>1, TypeCorrect, PTL DEF Spec

LEMMA FewDisturbances ==
    ASSUME FewCalls
    PROVE  IsFiniteSet(ChangesLeft) /\ IsFiniteSet(Pending) /\ IsFiniteSet(OldAnswers)
  <1>1. IsFiniteSet(ChangesLeft)
    <2>1. IsFiniteSet(1 .. MaxChanges)
      BY ConnectionAssumption, FS_Interval DEF ConnectionAssumption
    <2>2. QED BY <2>1, FS_Subset DEF ChangesLeft
  <1>2. IsFiniteSet(Pending)
    <2>1. IsFiniteSet({"to run"}) /\ IsFiniteSet({"to run"} \cup {"to finish"})
      BY FS_Singleton, FS_Union
    <2>2. {"to run"} \cup {"to finish"} = {"to run", "to finish"}
      OBVIOUS
    <2>3. IsFiniteSet(Inits \X {"to run", "to finish"})
      BY <2>1, <2>2, FewCalls, FS_Product DEF FewCalls
    <2>4. QED BY <2>3, FS_Subset DEF Pending
  <1>3. IsFiniteSet(OldAnswers)
    BY FewCalls, FS_Subset DEF OldAnswers, FewCalls
  <1>4. QED BY <1>1, <1>2, <1>3

LEMMA CalmNext ==
    ASSUME FewCalls
    PROVE  TypeOK /\ [Next]_vars /\ OldAnswersFall /\ UNCHANGED <<ChangesLeft, Pending, OldAnswers>>
              => Calm
  <1> SUFFICES ASSUME TypeOK, [Next]_vars, OldAnswersFall,
                      UNCHANGED <<ChangesLeft, Pending, OldAnswers>>
               PROVE  Calm
    OBVIOUS
  <1>1. \/ TimePasses \/ WalletRefreshed \/ UNCHANGED vars
        \/ \E c \in Checks : CheckRuns(c) \/ CheckFinished(c)
    BY NoMoreChanges, NoMoreInits, FewCalls DEF Next
  <1>2. ASSUME NEW c \in Checks, CheckFinished(c) PROVE check[c] = Answer
    <2>1. check[c] \in Status
      BY <1>2 DEF CheckFinished
    <2>2. c \notin OldAnswers
      BY <1>2 DEF OldAnswersFall
    <2>3. QED BY <2>1, <2>2 DEF OldAnswers
  <1>3. QED BY <1>1, <1>2 DEF Calm, SomeCheckRuns

\* An answer stays in its slot until the check is finished.
LEMMA AnswerStays ==
    ASSUME TypeOK, NEW c \in Checks, check[c] \in Status,
           TimePasses \/ WalletRefreshed \/ SomeCheckRuns \/ UNCHANGED vars
    PROVE  check'[c] = check[c]
  <1>1. check \in [Checks -> Slots] /\ check[c] # "none" /\ check[c] # "running"
    BY DEF TypeOK, Slots, Status
  <1>2. CASE TimePasses \/ UNCHANGED vars
    BY <1>2 DEF TimePasses, vars, cacheVars
  <1>3. CASE WalletRefreshed
    BY <1>1, <1>3 DEF WalletRefreshed, StartCheck, cacheVars
  <1>4. CASE SomeCheckRuns
    BY <1>1, <1>4 DEF SomeCheckRuns, CheckRuns
  <1>5. QED BY <1>2, <1>3, <1>4

\* A check that is finished leaves no answer in its slot.
LEMMA AnswerTaken ==
    ASSUME TypeOK, NEW c \in Checks, CheckFinished(c)
    PROVE  check[c] \in Status /\ check'[c] \notin Status
  <1> DEFINE freed == [check EXCEPT ![c] = "none"]
  <1>1. check[c] \in Status /\ freed \in [Checks -> Slots] /\ freed[c] \notin Status
    BY DEF CheckFinished, TypeOK, Slots, Status
  <1>2. check' = freed \/ StartCheck(freed)
    BY DEF CheckFinished
  <1> HIDE DEF freed
  <1>3. QED BY <1>1, <1>2, SlotsAfterStart

\* A right status stays right, and every check that is finished makes it right.
LEMMA RightStatus ==
    ASSUME TypeOK, Calm
    PROVE  /\ m_connectionStatus = Answer => (m_connectionStatus = Answer)'
           /\ SomeCheckFinished => (m_connectionStatus = Answer)'
  <1>1. CASE TimePasses \/ WalletRefreshed \/ SomeCheckRuns \/ UNCHANGED vars
    <2>1. UNCHANGED <<net, daemon, m_connectionStatus>>
      BY <1>1 DEF TimePasses, WalletRefreshed, SomeCheckRuns, CheckRuns, vars, walletVars
    <2>2. ~SomeCheckFinished
      BY <1>1, AnswerStays, AnswerTaken DEF SomeCheckFinished
    <2>3. QED BY <2>1, <2>2 DEF Answer
  <1>2. ASSUME NEW c \in Checks, CheckFinished(c), check[c] = Answer
        PROVE  (m_connectionStatus = Answer)'
    <2>1. UNCHANGED <<net, daemon>>
      BY <1>2 DEF CheckFinished
    <2>2. m_connectionStatus' = Answer
      BY <1>2 DEF CheckFinished
    <2>3. QED BY <2>1, <2>2 DEF Answer
  <1>3. QED BY <1>1, <1>2 DEF Calm

\* While the status stays wrong, an answer stays, and so does a running check until
\* it has an answer.
LEMMA WrongStatus ==
    ASSUME TypeOK, Calm, ~(m_connectionStatus = Answer)'
    PROVE  /\ SomeAnswer => SomeAnswer'
           /\ SomeCheckRunning => SomeCheckRunning' \/ SomeAnswer'
           /\ SomeCheckRuns => SomeAnswer'
  <1>1. TimePasses \/ WalletRefreshed \/ SomeCheckRuns \/ UNCHANGED vars
    BY RightStatus DEF Calm, SomeCheckFinished
  <1>2. SomeAnswer => SomeAnswer'
    BY <1>1, AnswerStays DEF SomeAnswer
  <1>3. SomeCheckRuns => SomeAnswer'
    BY AnswerType DEF SomeCheckRuns, CheckRuns, SomeAnswer, TypeOK
  <1>4. CASE TimePasses \/ WalletRefreshed \/ UNCHANGED vars
    <2>1. SUFFICES ASSUME NEW c \in Checks, check[c] = "running" PROVE check'[c] = "running"
      BY <1>2, <1>3 DEF SomeCheckRunning
    <2>2. CASE WalletRefreshed
      BY <2>1, <2>2 DEF WalletRefreshed, StartCheck, cacheVars, TypeOK
    <2>3. QED BY <1>4, <2>1, <2>2 DEF TimePasses, vars, cacheVars
  <1>5. QED BY <1>1, <1>2, <1>3, <1>4

\* Nothing is in flight.
Idle == ~SomeAnswer /\ ~SomeCheckRunning

LEMMA IdleIsFree == TypeOK /\ Idle => CheckFree /\ \A c \in Checks : check[c] = "none"
  BY ConnectionAssumption
  DEF Idle, SomeAnswer, SomeCheckRunning, TypeOK, ConnectionAssumption, CheckFree

\* A refresh that finds the cache expired starts a check.
LEMMA DueIsStarted ==
    ASSUME TypeOK, CheckDue, WalletRefreshed PROVE SomeCheckRunning'
  <1>1. PICK c \in Checks : check[c] = "none"
    BY DEF CheckDue
  <1>2. CASE ~m_initialized
    BY <1>1, <1>2 DEF WalletRefreshed, SomeCheckRunning
  <1>3. CASE m_initialized
    <2>1. StartCheck(check)
      BY <1>3 DEF WalletRefreshed, NeedsCheck, CheckDue
    <2>2. QED BY <2>1 DEF StartCheck, SomeCheckRunning, TypeOK
  <1>4. QED BY <1>2, <1>3

\* While nothing is in flight the cache only grows older.
LEMMA IdleGrowsOld ==
    ASSUME TypeOK, Idle, Idle', Calm PROVE TimePasses \/ UNCHANGED age
  <1>1. ~SomeCheckRuns /\ \A c \in Checks : ~CheckFinished(c)
    BY DEF Idle, SomeCheckRuns, CheckRuns, SomeCheckRunning, CheckFinished, SomeAnswer
  <1>2. CASE WalletRefreshed
    <2>1. CASE ~m_initialized
      <3>1. SomeCheckRunning'
        BY <1>2, <2>1, IdleIsFree DEF WalletRefreshed, SomeCheckRunning, CheckFree
      <3>2. QED BY <3>1 DEF Idle
    <2>2. CASE StartCheck(check)
      <3>1. SomeCheckRunning'
        BY <2>2 DEF StartCheck, SomeCheckRunning, TypeOK
      <3>2. QED BY <3>1 DEF Idle
    <2>3. QED BY <1>2, <2>1, <2>2 DEF WalletRefreshed, cacheVars
  <1>3. QED BY <1>1, <1>2 DEF Calm, vars, cacheVars

SomeInitMarked == \E i \in Inits : init[i] = "done"

\* In the calm the initialisations do not change any more.
LEMMA InitsCalm ==
    ASSUME FewCalls, TypeOK, Calm
    PROVE  /\ UNCHANGED init /\ UNCHANGED refreshing
           /\ ~SomeInitRuns /\ ~SomeInitFinished
  <1>1. UNCHANGED init /\ UNCHANGED refreshing
    BY DEF Calm, TimePasses, WalletRefreshed, SomeCheckRuns, CheckRuns, CheckFinished, vars
  <1>2. ~SomeInitRuns
    BY <1>1, FewCalls DEF SomeInitRuns, InitRuns, TypeOK, FewCalls
  <1>3. ~SomeInitFinished
    BY <1>1 DEF SomeInitFinished, InitFinished, TypeOK
  <1>4. QED BY <1>1, <1>2, <1>3

\* When daemons and user leave things as they are, the cached status becomes what the
\* daemon answers and stays so, in whatever order checks and initialisations finish.
THEOREM StatusBecomesRight ==
    ASSUME FewCalls
    PROVE  Spec /\ TimeGoesOn /\ RefreshReports /\ InitsAreRun /\ InitsAreFinished
                /\ ChecksAreRun /\ ChecksAreFinished
                /\ ChangesSettle /\ PendingSettle /\ OldAnswersSettle
              => StatusConverges
  <1> DEFINE T == m_connectionStatus = Answer
             FewerChanges == IsFiniteSet(ChangesLeft) /\ ChangesLeft' \subseteq ChangesLeft
             FewerInits == IsFiniteSet(Pending) /\ Pending' \subseteq Pending
             FewerAnswers == IsFiniteSet(OldAnswers) /\ OldAnswers' \subseteq OldAnswers
             SameChanges == ChangesLeft' = ChangesLeft
             SameInits == Pending' = Pending
             SameAnswers == OldAnswers' = OldAnswers
             A == SomeAnswer
             R == SomeCheckRunning
             W == SomeInitWaits
             D == SomeInitMarked
             F == refreshing
             X == age = "expired"
             Y == age = "stale"
  \* The disturbances end.
  <1>1. ChangesFall => FewerChanges
    BY FewDisturbances, FewCalls DEF ChangesFall
  <1>2. PendingFall /\ SameChanges => FewerInits
    BY FewDisturbances, FewCalls DEF PendingFall
  <1>3. OldAnswersFall /\ SameChanges /\ SameInits => FewerAnswers
    BY FewDisturbances, FewCalls DEF OldAnswersFall
  <1>4. TypeOK /\ [Next]_vars /\ OldAnswersFall /\ SameChanges /\ SameInits /\ SameAnswers => Calm
    BY CalmNext, FewCalls
  <1>5. UNCHANGED vars => Calm
    BY DEF Calm
  <1>6. ChangesSettle => (<>[][FewerChanges]_vars => <>[][SameChanges]_vars)
    BY PTL DEF ChangesSettle
  <1>7. PendingSettle => (<>[][FewerInits]_vars => <>[][SameInits]_vars)
    BY PTL DEF PendingSettle
  <1>8. OldAnswersSettle => (<>[][FewerAnswers]_vars => <>[][SameAnswers]_vars)
    BY PTL DEF OldAnswersSettle
  <1>9. Spec => [](TypeOK /\ RefreshComes) /\ [][Next]_vars
            /\ [][ChangesFall /\ PendingFall /\ OldAnswersFall]_vars
    BY TypeCorrect, RefreshComesAlways, DisturbancesGetFewer, FewCalls, PTL DEF Spec
  \* What no step of the calm disturbs.
  <1>10. TypeOK /\ Calm => (T => T') /\ (SomeCheckFinished => T')
    BY RightStatus
  <1>11. TypeOK /\ Calm /\ ~T' => (A => A') /\ (R => R' \/ A') /\ (SomeCheckRuns => A')
    BY WrongStatus
  <1>12. TypeOK /\ Calm => /\ (W' <=> W) /\ (D' <=> D) /\ (F => F')
                           /\ ~SomeInitRuns /\ ~SomeInitFinished
    BY InitsCalm, FewCalls DEF SomeInitWaits, SomeInitMarked
  <1>13. TypeOK /\ ~A /\ ~R => CheckFree
    BY IdleIsFree DEF Idle
  <1>14. TypeOK /\ ~A /\ ~R /\ ~A' /\ ~R' /\ Calm => (X => X') /\ (Y => Y' \/ X')
    BY IdleGrowsOld DEF Idle, TimePasses
  <1>15. TypeOK /\ TimePasses => (Y => X') /\ (Y' \/ X')
    BY DEF TimePasses
  <1>16. TypeOK /\ RefreshComes /\ ~W /\ ~D => F
    BY DEF RefreshComes, TypeOK, SomeInitWaits, SomeInitMarked
  <1>17. F /\ X /\ CheckFree => CheckDue
    BY DEF CheckDue, CheckFree
  <1>18. TypeOK /\ CheckDue /\ WalletRefreshed => R'
    BY DueIsStarted
  <1>19. CheckFree /\ D => SomeInitDone
    BY DEF SomeInitDone, SomeInitMarked
  <1>20. TimeGoesOn => []<>X \/ []<><<TimePasses>>_vars
    BY PTL DEF TimeGoesOn
  <1> HIDE DEF T, FewerChanges, FewerInits, FewerAnswers, SameChanges, SameInits, SameAnswers,
               A, R, W, D, F, X, Y
  <1>21. Spec /\ ChangesSettle /\ PendingSettle /\ OldAnswersSettle => <>[][Calm]_vars
    BY <1>1, <1>2, <1>3, <1>4, <1>5, <1>6, <1>7, <1>8, <1>9, PTL
  <1>22. Spec /\ <>[][Calm]_vars => <>[]T \/ <>[]~T
    BY <1>5, <1>9, <1>10, PTL
  <1>23. Spec /\ ChecksAreRun /\ ChecksAreFinished /\ <>[][Calm]_vars /\ <>[]~T
            => <>[](~A /\ ~R)
    BY <1>5, <1>9, <1>10, <1>11, PTL DEF ChecksAreRun, ChecksAreFinished, A, R
  <1>24. Spec /\ InitsAreRun /\ InitsAreFinished /\ <>[][Calm]_vars /\ <>[](~A /\ ~R) => <>[]F
    BY <1>5, <1>9, <1>12, <1>13, <1>16, <1>19, PTL DEF InitsAreRun, InitsAreFinished, W
  <1>25. Spec /\ TimeGoesOn /\ <>[][Calm]_vars /\ <>[](~A /\ ~R) => <>[]X
    BY <1>5, <1>9, <1>14, <1>15, <1>20, PTL
  <1>26. Spec /\ RefreshReports /\ <>[]F /\ <>[]X => ~<>[](~A /\ ~R)
    BY <1>9, <1>13, <1>17, <1>18, PTL DEF RefreshReports
  <1>27. QED
    BY <1>21, <1>22, <1>23, <1>24, <1>25, <1>26, PTL DEF StatusConverges, T

-----------------------------------------------------------------------------
(* Progress from the fairness of the specification.  Fairness holds at every *)
(* time if it holds at the start; boxed, it can be used at every time for    *)
(* the call that then matters.                                               *)

Young == age # "expired"
InitWaits(i) == init[i] \in Daemons
InitDone(i) == init[i] = "done"
CheckWaits(c) == check[c] = "running"
CheckAnswered(c) == check[c] \in Status

\* An action is enabled where its guard holds.
GuardsSuffice ==
    /\ Young => ENABLED <<TimePasses>>_vars
    /\ CheckDue => ENABLED <<WalletRefreshed>>_vars
    /\ \A i \in Inits :
          /\ InitWaits(i) => ENABLED <<InitRuns(i)>>_vars
          /\ InitDone(i) /\ CheckFree => ENABLED <<InitFinished(i)>>_vars
    /\ \A c \in Checks :
          /\ CheckWaits(c) => ENABLED <<CheckRuns(c)>>_vars
          /\ CheckAnswered(c) => ENABLED <<CheckFinished(c)>>_vars

\* What holds throughout a fair behaviour.
Throughout == []TypeOK /\ [][Next]_vars /\ []GuardsSuffice /\ []Fairness

LEMMA GoesThroughout == Spec /\ []GuardsSuffice /\ []Fairness => Throughout
  BY TypeCorrect, PTL DEF Spec, Throughout

\* Fair to a call is fair to it ever after.
LEMMA FairStays ==
    ASSUME NEW i \in Inits, NEW c \in Checks
    PROVE  (InitGoesOn(i) => []InitGoesOn(i)) /\ (CheckGoesOn(c) => []CheckGoesOn(c))
  BY PTL DEF InitGoesOn, CheckGoesOn

\* What fairness says of one call of init and of one check.
AllInitsGoOn == \A i \in Inits : InitGoesOn(i)
AllChecksGoOn == \A c \in Checks : CheckGoesOn(c)

LEMMA FairToInit ==
    ASSUME NEW i \in Inits
    PROVE  Throughout => /\ []<>~InitWaits(i) \/ []<><<InitRuns(i)>>_vars
                         /\ <>[]~(InitDone(i) /\ CheckFree) \/ []<><<InitFinished(i)>>_vars
  <1>1. Fairness => AllInitsGoOn
    BY PTL DEF Fairness, AllInitsGoOn
  <1>2. AllInitsGoOn => InitGoesOn(i)
    BY DEF AllInitsGoOn
  <1>3. GuardsSuffice => /\ InitWaits(i) => ENABLED <<InitRuns(i)>>_vars
                         /\ InitDone(i) /\ CheckFree => ENABLED <<InitFinished(i)>>_vars
    BY DEF GuardsSuffice
  <1>4. QED BY <1>1, <1>2, <1>3, PTL DEF Throughout, InitGoesOn

LEMMA FairToCheck ==
    ASSUME NEW c \in Checks
    PROVE  Throughout => /\ []<>~CheckWaits(c) \/ []<><<CheckRuns(c)>>_vars
                         /\ []<>~CheckAnswered(c) \/ []<><<CheckFinished(c)>>_vars
  <1>1. Fairness => AllChecksGoOn
    BY PTL DEF Fairness, AllChecksGoOn
  <1>2. AllChecksGoOn => CheckGoesOn(c)
    BY DEF AllChecksGoOn
  <1>3. GuardsSuffice => /\ CheckWaits(c) => ENABLED <<CheckRuns(c)>>_vars
                         /\ CheckAnswered(c) => ENABLED <<CheckFinished(c)>>_vars
    BY DEF GuardsSuffice
  <1>4. QED BY <1>1, <1>2, <1>3, PTL DEF Throughout, CheckGoesOn

\* A call of init stays where it is until it runs or is finished.
LEMMA InitStays ==
    ASSUME FewCalls, TypeOK, NEW i \in Inits, [Next]_vars
    PROVE  /\ InitWaits(i) => InitWaits(i)' \/ InitRuns(i)
           /\ InitDone(i) => InitDone(i)' \/ InitFinished(i)
  <1>1. ASSUME NEW k \in Inits, InitRuns(k) \/ InitFinished(k)
        PROVE  i # k => init'[i] = init[i]
    BY <1>1 DEF TypeOK, InitRuns, InitFinished
  <1>2. CASE \E k \in Inits : InitRuns(k) \/ InitFinished(k)
    BY <1>1, <1>2, FewCalls DEF InitRuns, InitFinished, InitWaits, InitDone, FewCalls
  <1>3. CASE InitAsync
    BY <1>3, FewCalls DEF InitAsync, TypeOK, InitWaits, InitDone, FewCalls
  <1>4. CASE UNCHANGED init
    BY <1>4 DEF InitWaits, InitDone
  <1>5. QED
    BY <1>2, <1>3, <1>4, InitsKept DEF Next, DaemonChanges, DaemonSignal, PageLoaded

\* A check stays where it is until it runs or is finished: new checks take free slots.
LEMMA CheckStays ==
    ASSUME TypeOK, NEW c \in Checks, [Next]_vars
    PROVE  /\ CheckWaits(c) => CheckWaits(c)' \/ CheckRuns(c)
           /\ CheckAnswered(c) => CheckAnswered(c)' \/ CheckFinished(c)
  <1> DEFINE Stays == check[c] # "none" => check'[c] = check[c]
  <1>1. ASSUME StartCheck(check) PROVE Stays
    BY <1>1 DEF StartCheck, TypeOK
  <1>2. ASSUME WalletRefreshed PROVE Stays
    BY <1>1, <1>2 DEF WalletRefreshed, TypeOK, cacheVars
  <1>3. ASSUME NEW d \in Checks, CheckRuns(d) PROVE d # c => Stays
    BY <1>3 DEF CheckRuns, TypeOK
  <1>4. ASSUME NEW d \in Checks, CheckFinished(d) PROVE d # c => Stays
    <2> DEFINE freed == [check EXCEPT ![d] = "none"]
    <2>1. d # c => freed[c] = check[c]
      BY DEF TypeOK
    <2>2. freed \in [Checks -> Status \cup {"none", "running"}]
      BY DEF TypeOK
    <2>3. check' = freed \/ StartCheck(freed)
      BY <1>4 DEF CheckFinished
    <2> HIDE DEF freed
    <2>4. QED BY <2>1, <2>2, <2>3 DEF StartCheck
  <1>5. InitAsync \/ DaemonSignal \/ PageLoaded \/ (\E i \in Inits : InitRuns(i) \/ InitFinished(i))
        => Stays
    BY <1>1 DEF InitAsync, DaemonSignal, PageLoaded, InitRuns, InitFinished, cacheVars
  <1>6. DaemonChanges \/ TimePasses \/ UNCHANGED vars => Stays
    BY DEF DaemonChanges, TimePasses, vars, cacheVars
  <1>7. Stays => (CheckWaits(c) => CheckWaits(c)') /\ (CheckAnswered(c) => CheckAnswered(c)')
    BY DEF CheckWaits, CheckAnswered, Status
  <1> HIDE DEF Stays
  <1>8. Stays \/ CheckRuns(c) \/ CheckFinished(c)
    BY <1>2, <1>3, <1>4, <1>5, <1>6 DEF Next
  <1>9. CheckRuns(c) => ~CheckAnswered(c)
    BY DEF CheckRuns, CheckAnswered, Status
  <1>10. CheckFinished(c) => ~CheckWaits(c)
    BY DEF CheckFinished, CheckWaits, Status
  <1>11. QED BY <1>7, <1>8, <1>9, <1>10

\* While one waits, one gets on.
InitRunsSoon == <><<SomeInitRuns>>_vars
InitEndsSoon == <><<SomeInitFinished>>_vars \/ <>[]~CheckFree
CheckRunsSoon == <><<SomeCheckRuns>>_vars
CheckEndsSoon == <><<SomeCheckFinished>>_vars
InitServed(i) == (InitWaits(i) => InitRunsSoon) /\ (InitDone(i) => InitEndsSoon)
CheckServed(c) == (CheckWaits(c) => CheckRunsSoon) /\ (CheckAnswered(c) => CheckEndsSoon)
AllInitsServed == \A i \in Inits : InitServed(i)
AllChecksServed == \A c \in Checks : CheckServed(c)

LEMMA InitIsServed == ASSUME FewCalls, NEW i \in Inits PROVE Throughout => InitServed(i)
  <1> DEFINE W == InitWaits(i)
             D == InitDone(i)
  <1>1. TypeOK /\ [Next]_vars => (W => W' \/ InitRuns(i)) /\ (D => D' \/ InitFinished(i))
    BY InitStays, FewCalls
  <1>2. UNCHANGED vars => (W => W') /\ (D => D')
    BY DEF InitWaits, InitDone, vars
  <1>3. (InitRuns(i) => SomeInitRuns) /\ (InitFinished(i) => SomeInitFinished)
    BY DEF SomeInitRuns, SomeInitFinished
  <1>4. Throughout => /\ []<>~W \/ []<><<InitRuns(i)>>_vars
                      /\ <>[]~(D /\ CheckFree) \/ []<><<InitFinished(i)>>_vars
    BY FairToInit
  <1> HIDE DEF W, D
  <1>5. Throughout => (W => InitRunsSoon) /\ (D => InitEndsSoon)
    BY <1>1, <1>2, <1>3, <1>4, PTL DEF Throughout, InitRunsSoon, InitEndsSoon
  <1>6. QED BY <1>5 DEF InitServed, W, D

LEMMA CheckIsServed == ASSUME NEW c \in Checks PROVE Throughout => CheckServed(c)
  <1> DEFINE W == CheckWaits(c)
             A == CheckAnswered(c)
  <1>1. TypeOK /\ [Next]_vars => (W => W' \/ CheckRuns(c)) /\ (A => A' \/ CheckFinished(c))
    BY CheckStays
  <1>2. UNCHANGED vars => (W => W') /\ (A => A')
    BY DEF CheckWaits, CheckAnswered, vars, cacheVars
  <1>3. (CheckRuns(c) => SomeCheckRuns) /\ (CheckFinished(c) => SomeCheckFinished)
    BY DEF SomeCheckRuns, SomeCheckFinished
  <1>4. Throughout => /\ []<>~W \/ []<><<CheckRuns(c)>>_vars
                      /\ []<>~A \/ []<><<CheckFinished(c)>>_vars
    BY FairToCheck
  <1> HIDE DEF W, A
  <1>5. Throughout => (W => CheckRunsSoon) /\ (A => CheckEndsSoon)
    BY <1>1, <1>2, <1>3, <1>4, PTL DEF Throughout, CheckRunsSoon, CheckEndsSoon
  <1>6. QED BY <1>5 DEF CheckServed, W, A

LEMMA CallsGoOn ==
    ASSUME FewCalls
    PROVE  Throughout => InitsAreRun /\ InitsAreFinished /\ ChecksAreRun /\ ChecksAreFinished
  <1>1. Throughout => AllInitsServed
    BY InitIsServed, FewCalls DEF AllInitsServed
  <1>2. Throughout => AllChecksServed
    BY CheckIsServed DEF AllChecksServed
  <1>3. AllInitsServed => (SomeInitWaits => InitRunsSoon) /\ (SomeInitDone => InitEndsSoon)
    BY DEF AllInitsServed, InitServed, SomeInitWaits, SomeInitDone, InitWaits, InitDone
  <1>4. AllChecksServed => (SomeCheckRunning => CheckRunsSoon) /\ (SomeAnswer => CheckEndsSoon)
    BY DEF AllChecksServed, CheckServed, SomeCheckRunning, SomeAnswer, CheckWaits, CheckAnswered
  <1>5. SomeInitDone => CheckFree
    BY DEF SomeInitDone
  <1>6. Throughout => /\ []<>~SomeInitWaits \/ []<><<SomeInitRuns>>_vars
                      /\ []<>~SomeInitDone \/ []<><<SomeInitFinished>>_vars
    BY <1>1, <1>3, <1>5, PTL DEF Throughout, InitRunsSoon, InitEndsSoon
  <1>7. Throughout => /\ []<>~SomeCheckRunning \/ []<><<SomeCheckRuns>>_vars
                      /\ []<>~SomeAnswer \/ []<><<SomeCheckFinished>>_vars
    BY <1>2, <1>4, PTL DEF Throughout, CheckRunsSoon, CheckEndsSoon
  <1>8. QED
    BY <1>6, <1>7, PTL DEF InitsAreRun, InitsAreFinished, ChecksAreRun, ChecksAreFinished

LEMMA TimersGoOn == Throughout => TimeGoesOn /\ RefreshReports
  <1>1. GuardsSuffice => /\ Young => ENABLED <<TimePasses>>_vars
                         /\ CheckDue => ENABLED <<WalletRefreshed>>_vars
    BY DEF GuardsSuffice
  <1>2. age = "expired" <=> ~Young
    BY DEF Young
  <1>3. Throughout => WF_vars(TimePasses) /\ WF_vars(WalletRefreshed) /\ []GuardsSuffice
    BY PTL DEF Throughout, Fairness
  <1>4. QED BY <1>1, <1>2, <1>3, PTL DEF TimeGoesOn, RefreshReports

\* The status converges under the fairness of the specification.
THEOREM StatusIsRightInTheEnd ==
    ASSUME FewCalls
    PROVE  Spec /\ []GuardsSuffice /\ []Fairness
                /\ ChangesSettle /\ PendingSettle /\ OldAnswersSettle
              => StatusConverges
  BY StatusBecomesRight, CallsGoOn, TimersGoOn, GoesThroughout, FewCalls, PTL
=============================================================================
