-------------------------- MODULE WalletSync_proofs --------------------------
(***************************************************************************)
(* Theorems about WalletSync, for any bound on the heights and the signals *)
(* and any lifetimes of the two caches: the daemon is taken for synced on  *)
(* recent knowledge, no block is forgotten, the signals are handled in the *)
(* end, the history catches up and a synced daemon is seen to be.          *)
(***************************************************************************)
EXTENDS WalletSync, FiniteSetTheorems, TLAPS

\* The types, in parts that one step changes or keeps together.
WorldOK ==
    /\ net \in 1 .. MaxHeight /\ dh \in 1 .. net
    /\ said \in [0 .. TargetTtl -> Heights]
    /\ wh \in 1 .. MaxHeight /\ shown \in Heights
CacheOK ==
    /\ h \in Heights /\ hAge \in 0 .. HeightTtl + 1
    /\ t \in Heights /\ tAge \in 0 .. TargetTtl + 1
PlacesOK ==
    /\ thread \in {"idle", "running", "raising"}
    /\ gui \in {"idle", "raising", "deciding", "caught"}
    /\ init \in {"running", "asked", "answered"}
FlagsOK ==
    /\ up \in BOOLEAN
    /\ walletInitialized \in BOOLEAN /\ daemonSynced \in BOOLEAN
    /\ foundNewBlock \in BOOLEAN /\ isNewWallet \in BOOLEAN
SignalsOK == signals \in Seq(Signals)

TypesOK == WorldOK /\ CacheOK /\ PlacesOK /\ FlagsOK /\ SignalsOK

LEMMA TypeParts == (TypeOK <=> TypesOK) /\ (TypeOK' <=> TypesOK')
  BY DEF TypeOK, TypesOK, WorldOK, CacheOK, PlacesOK, FlagsOK, SignalsOK

LEMMA Bounds ==
    /\ MaxHeight \in Nat \ {0} /\ MaxSignals \in Nat
    /\ HeightTtl \in Nat /\ TargetTtl \in Nat
  BY SyncAssumption DEF SyncAssumption

-----------------------------------------------------------------------------
LEMMA TypesInit == Init => TypesOK
  <1> SUFFICES ASSUME Init PROVE TypesOK
    OBVIOUS
  <1>1. WorldOK
    <2>1. SaysNow \in Heights
      BY Bounds DEF Init, SaysNow, Heights
    <2>2. QED BY <2>1, Bounds DEF Init, WorldOK, Heights
  <1>2. CacheOK
    BY Bounds DEF Init, CacheOK, Heights
  <1>3. PlacesOK /\ SignalsOK
    BY DEF Init, PlacesOK, SignalsOK
  <1>4. FlagsOK
    BY DEF Init, FlagsOK
  <1>5. QED BY <1>1, <1>2, <1>3, <1>4 DEF TypesOK

LEMMA RawTypes ==
    ASSUME TypesOK
    PROVE  RawHeight \in Heights /\ RawTarget \in Heights /\ SaysNow \in Heights
  BY Bounds DEF TypesOK, WorldOK, Heights, RawHeight, RawTarget, SaysNow

\* Both calls keep the caches typed.
LEMMA CacheTypes ==
    ASSUME TypesOK
    PROVE  /\ DaemonBlockChainHeight => h' \in Heights /\ hAge' \in 0 .. HeightTtl + 1
           /\ AskTarget \/ KeepTarget => t' \in Heights /\ tAge' \in 0 .. TargetTtl + 1
           /\ RaiseTarget => t' \in Heights /\ tAge' \in 0 .. TargetTtl + 1
  BY RawTypes, Bounds
  DEF TypesOK, CacheOK, DaemonBlockChainHeight, AskTarget, KeepTarget, RaiseTarget, Raised

\* What a refresh() on the GUI thread changes.
LEMMA MoneyHandled ==
    ASSUME TypesOK, OnMoney
    PROVE  /\ wh' \in wh .. MaxHeight
           /\ UNCHANGED <<net, dh, up, said, thread, init, h, hAge, walletInitialized,
                         daemonSynced, isNewWallet, shown>>
           /\ \/ UNCHANGED <<t, tAge>>
              \/ TargetStale /\ t' = Raised(RawTarget) /\ tAge' = 0
           /\ foundNewBlock' = (foundNewBlock \/ wh' > wh)
           /\ gui = "idle" /\ thread = "idle" /\ signals # <<>> /\ Head(signals) = "money"
           /\ \/ gui' = "idle" /\ signals' = <<"refreshed", "history">> \o Tail(signals)
              \/ gui' = "caught" /\ UNCHANGED signals
  <1>1. PICK new \in wh .. MaxHeight : GuiScans(new)
    BY DEF OnMoney
  <1>2. /\ wh' = new
        /\ foundNewBlock' = (foundNewBlock \/ wh' > wh)
        /\ \/ UNCHANGED <<t, tAge>>
           \/ TargetStale /\ t' = Raised(RawTarget) /\ tAge' = 0
    BY <1>1 DEF GuiScans
  <1>3. QED BY <1>2 DEF OnMoney, Handles, Outside, daemonVars

\* Only the daemon and the wallet's scan change heights; each keeps them in bounds.
LEMMA WorldNext ==
    ASSUME TypesOK, [Next]_vars
    PROVE  WorldOK'
  <1>0. RawHeight \in Heights /\ SaysNow \in Heights /\ RawHeight <= MaxHeight
    BY RawTypes, Bounds DEF Heights
  <1>1. CASE DaemonStep
    <2>1. net' \in 1 .. MaxHeight /\ dh' \in 1 .. net' /\ UNCHANGED <<wh, shown>>
      BY <1>1, Bounds DEF TypesOK, WorldOK, DaemonStep, mainVars
    <2>2. SaysNow' \in Heights
      BY <2>1, Bounds DEF SaysNow, Heights
    <2>3. said' \in [0 .. TargetTtl -> Heights]
      BY <1>1, <2>2, Bounds DEF TypesOK, WorldOK, DaemonStep
    <2>4. QED BY <2>1, <2>3 DEF TypesOK, WorldOK
  <1>2. CASE Tick
    <2>1. said' \in [0 .. TargetTtl -> Heights]
      BY <1>0, <1>2, Bounds DEF TypesOK, WorldOK, Tick
    <2>2. UNCHANGED <<net, dh, wh, shown>>
      BY <1>2 DEF Tick, daemonVars, mainVars
    <2>3. QED BY <2>1, <2>2 DEF TypesOK, WorldOK
  <1>3. CASE UNCHANGED <<net, dh, said>> /\ wh' \in 1 .. MaxHeight /\ shown' \in {shown, wh}
    BY <1>3, Bounds DEF TypesOK, WorldOK, Heights
  <1>4. wh \in 1 .. MaxHeight /\ (up /\ wh < dh => wh + 1 \in 1 .. MaxHeight)
    BY Bounds DEF TypesOK, WorldOK
  <1>5. CASE NewBlock
    BY <1>3, <1>4, <1>5 DEF NewBlock, daemonVars, mainVars
  <1>6. CASE OnMoney
    <2>1. wh' \in wh .. MaxHeight /\ UNCHANGED <<net, dh, said, shown>>
      BY <1>6, MoneyHandled
    <2>2. wh' \in 1 .. MaxHeight
      BY <1>4, <2>1, Bounds
    <2>3. QED BY <1>3, <2>1, <2>2
  <1>7. CASE OnStatus \/ OnHistory \/ RefreshHandled
    BY <1>3, <1>4, <1>7 DEF OnStatus, OnHistory, RefreshHandled, Outside, daemonVars
  <1>8. CASE \/ RefreshStarts \/ TargetRaised \/ Money \/ RefreshEnds \/ InitDone \/ StatusAnswered
             \/ OnNewBlock \/ OnRefreshed \/ GuiRaises \/ UNCHANGED vars
    <2>1. UNCHANGED <<net, dh, said, wh, shown>>
      BY <1>8 DEF RefreshStarts, TargetRaised, Money, RefreshEnds, InitDone, StatusAnswered,
         OnNewBlock, OnRefreshed, GuiRaises, vars, Outside, daemonVars, mainVars
    <2>2. QED BY <1>3, <1>4, <2>1
  <1>9. QED
    BY <1>1, <1>2, <1>5, <1>6, <1>7, <1>8 DEF Next, Thread, Gui

LEMMA CacheNext ==
    ASSUME TypesOK, [Next]_vars
    PROVE  CacheOK'
  <1>1. CASE NewBlock \/ TargetRaised \/ OnRefreshed \/ GuiRaises
    BY <1>1, CacheTypes
    DEF NewBlock, TargetRaised, OnRefreshed, GuiRaises, TypesOK, CacheOK
  <1>2. CASE Tick
    BY <1>2, Bounds DEF Tick, TypesOK, CacheOK, Older
  <1>3. CASE OnMoney
    <2>1. Raised(RawTarget) \in Heights /\ 0 \in 0 .. TargetTtl + 1
      BY RawTypes, Bounds DEF TypesOK, CacheOK, Raised
    <2>2. h' = h /\ hAge' = hAge /\ t' \in {t, Raised(RawTarget)} /\ tAge' \in {tAge, 0}
      BY <1>3, MoneyHandled
    <2>3. QED BY <2>1, <2>2 DEF TypesOK, CacheOK
  <1>4. CASE UNCHANGED cacheVars
    BY <1>4 DEF cacheVars, TypesOK, CacheOK
  <1>5. QED
    BY <1>1, <1>2, <1>3, <1>4 DEF Next, Thread, Gui, vars, DaemonStep, RefreshStarts, Money,
       RefreshEnds, InitDone, StatusAnswered, OnStatus, OnNewBlock, OnHistory,
       RefreshHandled

LEMMA PlacesNext ==
    ASSUME TypesOK, [Next]_vars
    PROVE  PlacesOK'
  BY DEF TypesOK, PlacesOK, Next, Thread, Gui, vars, Tick, DaemonStep, RefreshStarts, NewBlock,
     TargetRaised, Money, RefreshEnds, InitDone, StatusAnswered, OnStatus, OnNewBlock, OnMoney,
     OnHistory, OnRefreshed, GuiRaises, RefreshHandled, Outside

LEMMA FlagsNext ==
    ASSUME TypesOK, [Next]_vars
    PROVE  FlagsOK'
  <1>1. CASE DaemonStep
    BY <1>1 DEF TypesOK, FlagsOK, DaemonStep, mainVars
  <1>2. CASE OnStatus
    BY <1>2 DEF TypesOK, FlagsOK, OnStatus, Outside, daemonVars
  <1>3. CASE OnNewBlock
    BY <1>3 DEF TypesOK, FlagsOK, OnNewBlock, Outside, daemonVars
  <1>4. CASE RefreshHandled
    <2>1. daemonSynced' \in BOOLEAN /\ isNewWallet' \in BOOLEAN
      BY <1>4 DEF RefreshHandled
    <2>2. QED BY <1>4, <2>1 DEF TypesOK, FlagsOK, RefreshHandled, Outside, daemonVars
  <1>5. CASE OnMoney
    <2>1. /\ UNCHANGED <<up, walletInitialized, daemonSynced, isNewWallet>>
          /\ foundNewBlock' = (foundNewBlock \/ wh' > wh)
      BY <1>5, MoneyHandled
    <2>2. foundNewBlock' \in BOOLEAN
      BY <2>1
    <2>3. QED BY <2>1, <2>2 DEF TypesOK, FlagsOK
  <1>6. CASE UNCHANGED <<up, walletInitialized, daemonSynced, foundNewBlock, isNewWallet>>
    BY <1>6 DEF TypesOK, FlagsOK
  <1>7. \/ DaemonStep \/ OnStatus \/ OnNewBlock \/ OnMoney \/ RefreshHandled
        \/ UNCHANGED <<up, walletInitialized, daemonSynced, foundNewBlock, isNewWallet>>
    BY DEF Next, Thread, Gui, vars, Tick, RefreshStarts, NewBlock,
     TargetRaised, Money, RefreshEnds, InitDone, StatusAnswered,
     OnHistory, OnRefreshed, GuiRaises, Outside, daemonVars, mainVars
  <1>8. QED BY <1>1, <1>2, <1>3, <1>4, <1>5, <1>6, <1>7

\* How a step changes the queue: it appends, removes the first signal, puts what
\* refresh() tells in its place, or leaves the queue alone.
Replaced ==
    signals # <<>> /\ signals' = <<"refreshed", "history">> \o Tail(signals)

LEMMA SignalsChange ==
    ASSUME TypesOK, [Next]_vars, gui # "idle" => signals # <<>>
    PROVE  \/ \E s \in Signals : signals' = Append(signals, s)
           \/ signals # <<>> /\ signals' = Tail(signals)
           \/ Replaced
           \/ UNCHANGED signals
  <1>1. CASE NewBlock \/ TargetRaised \/ Money \/ RefreshEnds \/ StatusAnswered
    BY <1>1 DEF NewBlock, TargetRaised, Money, RefreshEnds, StatusAnswered, Emit, Signals
  <1>2. CASE OnStatus \/ OnNewBlock \/ OnHistory \/ RefreshHandled
    BY <1>2 DEF OnStatus, OnNewBlock, OnHistory, RefreshHandled, Handles
  <1>3. CASE \/ DaemonStep \/ Tick \/ InitDone \/ RefreshStarts \/ OnRefreshed \/ GuiRaises
             \/ UNCHANGED vars
    BY <1>3 DEF DaemonStep, Tick, InitDone, RefreshStarts, OnRefreshed, GuiRaises, vars
  <1>4. CASE OnMoney
    BY <1>4, MoneyHandled DEF Replaced
  <1>5. QED BY <1>1, <1>2, <1>3, <1>4 DEF Next, Thread, Gui

LEMMA SignalsNext ==
    ASSUME TypesOK, [Next]_vars, gui # "idle" => signals # <<>>
    PROVE  SignalsOK'
  <1>1. CASE \E s \in Signals : signals' = Append(signals, s)
    BY <1>1 DEF TypesOK, SignalsOK
  <1>2. CASE signals # <<>> /\ signals' = Tail(signals)
    BY <1>2 DEF TypesOK, SignalsOK
  <1>3. CASE Replaced
    <2>1. <<"refreshed", "history">> \in Seq(Signals)
      BY DEF Signals
    <2>2. Tail(signals) \in Seq(Signals)
      BY <1>3 DEF TypesOK, SignalsOK, Replaced
    <2>3. QED BY <1>3, <2>1, <2>2 DEF SignalsOK, Replaced
  <1>4. CASE UNCHANGED signals
    BY <1>4 DEF TypesOK, SignalsOK
  <1>5. QED BY <1>1, <1>2, <1>3, <1>4, SignalsChange

\* While onWalletRefresh is under way, or the GUI thread is caught, the signal that is
\* being handled is at the head of the queue.
GuiBusy ==
    /\ gui # "idle" => signals # <<>>
    /\ gui \in {"raising", "deciding"} => Head(signals) = "refreshed"
    /\ gui = "caught" => Head(signals) = "money"

LEMMA GuiBusyNext ==
    ASSUME TypesOK, GuiBusy, [Next]_vars
    PROVE  GuiBusy'
  <1>1. CASE OnRefreshed \/ GuiRaises
    BY <1>1 DEF OnRefreshed, GuiRaises, Handles, GuiBusy
  <1>2. CASE RefreshHandled
    BY <1>2 DEF RefreshHandled, GuiBusy
  <1>3. CASE OnStatus \/ OnNewBlock \/ OnMoney \/ OnHistory
    BY <1>3, MoneyHandled DEF OnStatus, OnNewBlock, OnHistory, Handles, GuiBusy
  <1>4. CASE gui' = gui /\ \E s \in Signals : signals' = Append(signals, s)
    <2>1. ASSUME signals # <<>>
          PROVE  signals' # <<>> /\ Head(signals') = Head(signals)
      BY <1>4, <2>1 DEF TypesOK, SignalsOK
    <2>2. QED BY <1>4, <2>1 DEF GuiBusy
  <1>5. CASE UNCHANGED <<gui, signals>>
    BY <1>5 DEF GuiBusy
  <1>6. CASE NewBlock \/ TargetRaised \/ Money \/ RefreshEnds \/ StatusAnswered
    <2>1. \/ gui' = gui /\ \E s \in Signals : signals' = Append(signals, s)
          \/ UNCHANGED <<gui, signals>>
      BY <1>6 DEF NewBlock, TargetRaised, Money, RefreshEnds, StatusAnswered, Emit, Signals
    <2>2. QED BY <1>4, <1>5, <2>1
  <1>7. CASE \/ DaemonStep \/ Tick \/ InitDone \/ RefreshStarts \/ UNCHANGED vars
    BY <1>5, <1>7 DEF DaemonStep, Tick, InitDone, RefreshStarts, vars
  <1>8. QED BY <1>1, <1>2, <1>3, <1>6, <1>7 DEF Next, Thread, Gui

SyncInv == TypesOK /\ GuiBusy

LEMMA SyncInit == Init => SyncInv
  BY TypesInit DEF Init, SyncInv, GuiBusy

LEMMA SyncNext == SyncInv /\ [Next]_vars => SyncInv'
  <1> SUFFICES ASSUME SyncInv, [Next]_vars PROVE SyncInv'
    OBVIOUS
  <1>1. TypesOK /\ GuiBusy /\ (gui # "idle" => signals # <<>>)
    BY DEF SyncInv, GuiBusy
  <1>2. TypesOK'
    BY <1>1, WorldNext, CacheNext, PlacesNext, FlagsNext, SignalsNext DEF TypesOK
  <1>3. QED BY <1>1, <1>2, GuiBusyNext DEF SyncInv

\* The variables keep their types, the heights their bounds.
THEOREM TypeCorrect == Spec => []TypeOK
  <1>1. SyncInv => TypeOK
    BY TypeParts DEF SyncInv
  <1>2. QED BY <1>1, SyncInit, SyncNext, PTL DEF Spec

-----------------------------------------------------------------------------
(* The daemon is taken for synced on recent knowledge.                      *)

\* What the target in the cache goes back to: something the daemon says now, or has
\* said since its timer was restarted.
KnownNow == t >= said[0] \/ dh >= said[0]
Known == \E k \in 0 .. TargetTtl : k <= tAge /\ (t >= said[k] \/ dh >= said[k])

\* The cached height is not above the daemon's, what the daemon said last is not above
\* what it says now, a target being renewed goes back to now, and one that may be used
\* goes back to a time since the timer was restarted.
Recent ==
    /\ h <= dh
    /\ said[0] <= SaysNow
    /\ thread = "raising" \/ gui = "raising" => KnownNow
    /\ ~TargetStale \/ gui = "deciding" => Known

LEMMA RecentInit == Init => Recent
  BY Bounds DEF Init, Recent, TargetStale, SaysNow

LEMMA NowIsKnown ==
    ASSUME TypesOK, KnownNow
    PROVE  Known
  <1>1. 0 \in 0 .. TargetTtl /\ 0 <= tAge
    BY Bounds DEF TypesOK, CacheOK
  <1>2. QED BY <1>1 DEF KnownNow, Known

LEMMA Numbers ==
    ASSUME TypesOK
    PROVE  /\ net \in Nat /\ dh \in Nat /\ dh <= net
           /\ h \in Nat /\ hAge \in Nat /\ t \in Nat /\ tAge \in Nat /\ SaysNow \in Nat
           /\ \A k \in 0 .. TargetTtl : said[k] \in Nat
           /\ 0 \in 0 .. TargetTtl
  BY RawTypes, Bounds DEF TypesOK, WorldOK, CacheOK, Heights

\* A target just asked for goes back to what the daemon says now, and raising it
\* keeps that.
LEMMA AskedNow ==
    ASSUME TypesOK, Recent, AskTarget, UNCHANGED <<said, dh>>
    PROVE  KnownNow'
  BY Numbers DEF AskTarget, RawTarget, Recent, SaysNow, KnownNow

LEMMA RaisedNow ==
    ASSUME TypesOK, KnownNow, RaiseTarget, UNCHANGED <<said, dh>>
    PROVE  KnownNow'
  BY Numbers DEF RaiseTarget, Raised, KnownNow

\* The two in one step, on the GUI thread in refresh().
LEMMA RenewedNow ==
    ASSUME TypesOK, Recent, t' = Raised(RawTarget), UNCHANGED <<said, dh>>
    PROVE  KnownNow'
  <1>1. RawTarget >= said[0] \/ dh >= said[0]
    BY Numbers DEF RawTarget, Recent, SaysNow
  <1>2. RawTarget \in Nat /\ h \in Nat
    BY RawTypes, Numbers DEF Heights
  <1>3. t' >= RawTarget
    BY <1>2 DEF Raised
  <1>4. t' \in Nat /\ said[0] \in Nat
    BY <1>2, Numbers DEF Raised
  <1>5. QED BY <1>1, <1>2, <1>3, <1>4 DEF KnownNow

LEMMA RecentDaemon ==
    ASSUME TypesOK, TypesOK', Recent, DaemonStep
    PROVE  Recent'
  <1>1. /\ \A k \in 0 .. TargetTtl : said'[k] <= said[k]
        /\ said'[0] <= SaysNow' /\ dh <= dh'
        /\ UNCHANGED <<h, t, tAge, thread, gui>>
    <2>1. /\ SaysNow' \in Nat /\ \A k \in 0 .. TargetTtl : said[k] \in Nat
          /\ 0 \in 0 .. TargetTtl /\ said \in [0 .. TargetTtl -> Heights]
      BY Numbers, RawTypes, Bounds DEF TypesOK, WorldOK, SaysNow
    <2>2. said' = [said EXCEPT ![0] = IF SaysNow' < said[0] THEN SaysNow' ELSE said[0]]
      BY DEF DaemonStep
    <2>3. /\ \A k \in 0 .. TargetTtl : said'[k] <= said[k]
          /\ said'[0] <= SaysNow'
      BY <2>1, <2>2
    <2>4. dh <= dh' /\ UNCHANGED <<h, t, tAge, thread, gui>>
      BY Numbers DEF DaemonStep, cacheVars
    <2>5. QED BY <2>3, <2>4
  <1>2. /\ dh' \in Nat /\ dh \in Nat /\ h \in Nat /\ t \in Nat /\ 0 \in 0 .. TargetTtl
        /\ \A k \in 0 .. TargetTtl : said[k] \in Nat /\ said'[k] \in Nat
    BY Numbers, Bounds DEF TypesOK, WorldOK, Heights
  <1>3. KnownNow => KnownNow'
    BY <1>1, <1>2 DEF KnownNow
  <1>4. Known => Known'
    BY <1>1, <1>2 DEF Known
  <1>5. h' <= dh'
    BY <1>1, <1>2 DEF Recent
  <1>6. QED BY <1>1, <1>3, <1>4, <1>5 DEF Recent, TargetStale

LEMMA RecentTick ==
    ASSUME TypesOK, Recent, Tick
    PROVE  Recent'
  <1>1. /\ thread' # "raising" /\ gui' \in {"idle", "caught"}
        /\ UNCHANGED <<h, t, dh, up, net>>
        /\ said' = [k \in 0 .. TargetTtl |-> IF k = 0 THEN SaysNow ELSE said[k - 1]]
        /\ tAge' = Older(tAge, TargetTtl)
    BY DEF Tick, daemonVars
  <1>2. said'[0] <= SaysNow' /\ h' <= dh'
    BY <1>1, Numbers DEF Recent, SaysNow
  <1>3. ASSUME ~TargetStale'
        PROVE  Known'
    <2>1. ~TargetStale /\ tAge' = tAge + 1 /\ tAge + 1 <= TargetTtl
      BY <1>1, <1>3, Numbers, Bounds DEF TargetStale, Older
    <2>2. PICK k \in 0 .. TargetTtl : k <= tAge /\ (t >= said[k] \/ dh >= said[k])
      BY <2>1 DEF Recent, Known
    <2>3. k + 1 \in 0 .. TargetTtl /\ k + 1 <= tAge' /\ said'[k + 1] = said[k]
      BY <1>1, <2>1, <2>2, Numbers, Bounds
    <2>4. QED BY <1>1, <2>2, <2>3 DEF Known
  <1>4. QED BY <1>1, <1>2, <1>3 DEF Recent

LEMMA RecentNext ==
    ASSUME TypesOK, TypesOK', Recent, [Next]_vars
    PROVE  Recent'
  <1>1. CASE NewBlock \/ OnRefreshed
    <2>1. /\ UNCHANGED <<said, dh, net, up>>
          /\ AskTarget \/ KeepTarget
          /\ AskTarget => thread' = "raising" \/ gui' = "raising"
          /\ KeepTarget => thread' = thread /\ gui' \in {gui, "deciding"}
          /\ thread' = thread \/ gui' = gui
      BY <1>1 DEF NewBlock, OnRefreshed, Outside, daemonVars, AskTarget, KeepTarget
    <2>2. h' <= dh'
      BY <1>1, <2>1, Numbers DEF NewBlock, OnRefreshed, DaemonBlockChainHeight, RawHeight, Recent
    <2>3. said'[0] <= SaysNow'
      BY <2>1 DEF Recent, SaysNow
    <2>4. CASE AskTarget
      <3>1. KnownNow'
        BY <2>1, <2>4, AskedNow
      <3>2. Known'
        BY <3>1, NowIsKnown, PTL
      <3>3. QED BY <2>2, <2>3, <3>1, <3>2 DEF Recent
    <2>5. CASE KeepTarget
      <3>1. UNCHANGED <<t, tAge, thread>> /\ ~TargetStale
        BY <2>1, <2>5 DEF KeepTarget
      <3>2. Known' /\ (thread' = "raising" \/ gui' = "raising" => KnownNow')
        BY <2>1, <2>5, <3>1 DEF Recent, Known, KnownNow
      <3>3. QED BY <2>2, <2>3, <3>2 DEF Recent
    <2>6. QED BY <2>1, <2>4, <2>5
  <1>2. CASE TargetRaised \/ GuiRaises
    <2>1. UNCHANGED <<said, dh, net, up, h>> /\ RaiseTarget /\ KnownNow
      BY <1>2 DEF TargetRaised, GuiRaises, Outside, daemonVars, Recent
    <2>2. KnownNow'
      BY <2>1, RaisedNow
    <2>3. Known'
      BY <2>2, NowIsKnown, PTL
    <2>4. QED BY <2>1, <2>2, <2>3 DEF Recent, SaysNow
  <1>3. CASE /\ UNCHANGED <<said, dh, net, up, h, t, tAge>>
             /\ thread' = "raising" => thread = "raising"
             /\ gui' \in {"idle", "caught"} \/ gui' = gui
    BY <1>3 DEF Recent, Known, KnownNow, TargetStale, SaysNow
  <1>4. CASE \/ RefreshStarts \/ Money \/ RefreshEnds \/ InitDone \/ StatusAnswered
             \/ OnStatus \/ OnNewBlock \/ OnHistory \/ RefreshHandled
             \/ UNCHANGED vars
    <2>1. /\ UNCHANGED <<said, dh, net, up, h, t, tAge>>
          /\ thread' = "raising" => thread = "raising"
          /\ gui' = "idle" \/ gui' = gui
      BY <1>4 DEF RefreshStarts, Money, RefreshEnds, InitDone, StatusAnswered, OnStatus,
         OnNewBlock, OnHistory, RefreshHandled, Outside, vars, daemonVars, cacheVars
    <2>2. QED BY <1>3, <2>1
  <1>5. CASE OnMoney
    <2>1. /\ UNCHANGED <<said, dh, net, up, h, thread>> /\ thread = "idle"
          /\ gui' \in {"idle", "caught"}
          /\ UNCHANGED <<t, tAge>> \/ t' = Raised(RawTarget)
      BY <1>5, MoneyHandled
    <2>2. CASE UNCHANGED <<t, tAge>>
      BY <1>3, <2>1, <2>2
    <2>3. CASE t' = Raised(RawTarget)
      <3>1. KnownNow'
        BY <2>1, <2>3, RenewedNow
      <3>2. Known'
        BY <3>1, NowIsKnown, PTL
      <3>3. QED BY <2>1, <3>1, <3>2 DEF Recent, SaysNow
    <2>4. QED BY <2>1, <2>2, <2>3
  <1>6. QED
    BY <1>1, <1>2, <1>4, <1>5, RecentDaemon, RecentTick DEF Next, Thread, Gui

\* Whoever takes the daemon for synced does so on something the daemon said within
\* the last lifetime of the target's cache, whatever the other thread does to it.
THEOREM SyncedOnRecentKnowledge == Spec => SyncedIsRecent
  <1> DEFINE Inv == SyncInv /\ Recent
  <1>1. Init => Inv
    BY SyncInit, RecentInit
  <1>2. Inv /\ [Next]_vars => Inv'
    BY SyncNext, RecentNext DEF SyncInv
  <1>3. ASSUME Inv, [Next]_vars, daemonSynced', ~daemonSynced
        PROVE  \E k \in 0 .. TargetTtl : dh >= said[k]
    <2>1. RefreshHandled
      BY <1>3, MoneyHandled
      DEF SyncInv, Next, Thread, Gui, vars, DaemonStep, Tick, RefreshStarts, NewBlock,
         TargetRaised, Money, RefreshEnds, InitDone, StatusAnswered, OnStatus, OnNewBlock,
         OnHistory, OnRefreshed, GuiRaises, mainVars
    <2>2. h >= t /\ h <= dh /\ Known
      BY <1>3, <2>1 DEF RefreshHandled, Recent
    <2>3. PICK k \in 0 .. TargetTtl : t >= said[k] \/ dh >= said[k]
      BY <2>2 DEF Known
    <2>4. QED BY <1>3, <2>2, <2>3, Numbers DEF SyncInv
  <1>4. Inv /\ [Next]_vars
          => [daemonSynced' /\ ~daemonSynced => \E k \in 0 .. TargetTtl : dh >= said[k]]_vars
    BY <1>3
  <1>5. QED BY <1>1, <1>2, <1>4, PTL DEF Spec, SyncedIsRecent

-----------------------------------------------------------------------------
(* The history is rebuilt after every block.                                *)

\* The reasons that HistoryLagIsNoted gives.
Noted ==
    \/ thread = "raising"
    \/ foundNewBlock /\ RefreshAfter(0)
    \/ \E i \in 1 .. Len(signals) :
          signals[i] = "history" \/ (signals[i] = "newBlock" /\ RefreshAfter(i))

LEMMA LagNoted == HistoryLagIsNoted <=> (~Caught /\ walletInitialized /\ shown < wh => Noted)
  BY DEF HistoryLagIsNoted, Noted

\* The GUI thread does not come free again.
LEMMA CaughtForEver ==
    ASSUME SyncInv, [Next]_vars
    PROVE  Caught => Caught'
  BY DEF Caught, Next, Thread, Gui, vars, DaemonStep, Tick, InitDone, StatusAnswered,
     RefreshStarts, NewBlock, TargetRaised, Money, RefreshEnds, OnStatus, OnNewBlock, OnMoney,
     OnHistory, OnRefreshed, GuiRaises, RefreshHandled, Handles

\* A signal put at the end changes nothing for those before it.
LEMMA AppendedAfter ==
    ASSUME SignalsOK, NEW s \in Signals, signals' = Append(signals, s),
           thread # "idle" => thread' # "idle" \/ s = "refreshed",
           NEW i \in 0 .. Len(signals), RefreshAfter(i)
    PROVE  RefreshAfter(i)'
  <1>1. /\ Len(signals') = Len(signals) + 1 /\ Len(signals) \in Nat
        /\ \A j \in 1 .. Len(signals) : signals'[j] = signals[j]
        /\ signals'[Len(signals) + 1] = s
    BY DEF SignalsOK
  <1>2. CASE thread' # "idle"
    BY <1>2 DEF RefreshAfter
  <1>3. CASE s = "refreshed"
    <2>1. Len(signals) + 1 \in i + 1 .. Len(signals')
      BY <1>1
    <2>2. QED BY <1>1, <1>3, <2>1 DEF RefreshAfter
  <1>4. CASE thread = "idle"
    <2>1. PICK j \in i + 1 .. Len(signals) : signals[j] = "refreshed"
      BY <1>4 DEF RefreshAfter
    <2>2. j \in i + 1 .. Len(signals') /\ signals'[j] = "refreshed"
      BY <1>1, <2>1
    <2>3. QED BY <2>2 DEF RefreshAfter
  <1>5. QED BY <1>2, <1>3, <1>4

LEMMA AppendKeepsNoted ==
    ASSUME SignalsOK, NEW s \in Signals, signals' = Append(signals, s),
           thread # "idle" => thread' # "idle" \/ s = "refreshed",
           thread # "raising", foundNewBlock' = foundNewBlock, Noted
    PROVE  Noted'
  <1>1. /\ Len(signals') = Len(signals) + 1 /\ Len(signals) \in Nat
        /\ \A j \in 1 .. Len(signals) : signals'[j] = signals[j]
    BY DEF SignalsOK
  <1>2. CASE foundNewBlock /\ RefreshAfter(0)
    <2>1. RefreshAfter(0)'
      BY <1>1, <1>2, AppendedAfter
    <2>2. QED BY <1>2, <2>1 DEF Noted
  <1>3. CASE \E i \in 1 .. Len(signals) :
               signals[i] = "history" \/ (signals[i] = "newBlock" /\ RefreshAfter(i))
    <2>1. PICK i \in 1 .. Len(signals) :
             signals[i] = "history" \/ (signals[i] = "newBlock" /\ RefreshAfter(i))
      BY <1>3
    <2>2. i \in 1 .. Len(signals') /\ signals'[i] = signals[i]
      BY <1>1, <2>1
    <2>3. CASE signals[i] = "history"
      BY <2>2, <2>3 DEF Noted
    <2>4. CASE signals[i] = "newBlock" /\ RefreshAfter(i)
      <3>1. RefreshAfter(i)'
        BY <1>1, <2>4, AppendedAfter
      <3>2. QED BY <2>2, <2>4, <3>1 DEF Noted
    <2>5. QED BY <2>1, <2>3, <2>4
  <1>4. QED BY <1>2, <1>3 DEF Noted

\* A block signalled while the thread runs is noted.
LEMMA AppendedBlockNoted ==
    ASSUME SignalsOK, signals' = Append(signals, "newBlock"), thread' = "running"
    PROVE  Noted'
  <1>1. /\ Len(signals') \in 1 .. Len(signals') /\ signals'[Len(signals')] = "newBlock"
    BY DEF SignalsOK, Signals
  <1>2. RefreshAfter(Len(signals))'
    BY DEF RefreshAfter
  <1>3. QED BY <1>1, <1>2 DEF Noted

\* Taking the first signal away moves the others, and leaves what follows them.
LEMMA TailAfter ==
    ASSUME SignalsOK, signals # <<>>, signals' = Tail(signals), thread' = thread,
           NEW i \in 1 .. Len(signals), RefreshAfter(i)
    PROVE  RefreshAfter(i - 1)'
  <1>1. /\ Len(signals') = Len(signals) - 1 /\ Len(signals) \in Nat \ {0}
        /\ \A j \in 2 .. Len(signals) : signals'[j - 1] = signals[j]
    BY DEF SignalsOK
  <1>2. CASE thread # "idle"
    BY <1>2 DEF RefreshAfter
  <1>3. CASE thread = "idle"
    <2>1. PICK j \in i + 1 .. Len(signals) : signals[j] = "refreshed"
      BY <1>3 DEF RefreshAfter
    <2>2. j - 1 \in (i - 1) + 1 .. Len(signals') /\ signals'[j - 1] = "refreshed"
      BY <1>1, <2>1
    <2>3. QED BY <2>2 DEF RefreshAfter
  <1>4. QED BY <1>2, <1>3

LEMMA TailKeepsNoted ==
    ASSUME SignalsOK, signals # <<>>, signals' = Tail(signals), thread' = thread,
           Head(signals) # "history",
           Head(signals) = "newBlock" => foundNewBlock',
           foundNewBlock => foundNewBlock' /\ Head(signals) # "refreshed",
           Noted
    PROVE  Noted'
  <1>1. /\ Len(signals') = Len(signals) - 1 /\ Len(signals) \in Nat \ {0}
        /\ \A j \in 2 .. Len(signals) : signals'[j - 1] = signals[j]
        /\ Head(signals) = signals[1] /\ 1 \in 1 .. Len(signals)
    BY DEF SignalsOK
  <1>2. CASE thread = "raising"
    BY <1>2 DEF Noted
  <1>3. RefreshAfter(1) => RefreshAfter(0)'
    BY <1>1, TailAfter
  <1>4. CASE foundNewBlock /\ RefreshAfter(0)
    <2>1. RefreshAfter(1)
      <3>1. CASE thread # "idle"
        BY <3>1 DEF RefreshAfter
      <3>2. CASE thread = "idle"
        <4>1. PICK j \in 1 .. Len(signals) : signals[j] = "refreshed"
          BY <1>4, <3>2 DEF RefreshAfter
        <4>2. j \in 1 + 1 .. Len(signals)
          BY <1>1, <1>4, <4>1
        <4>3. QED BY <4>1, <4>2 DEF RefreshAfter
      <3>3. QED BY <3>1, <3>2
    <2>2. QED BY <1>3, <1>4, <2>1 DEF Noted
  <1>5. CASE \E i \in 1 .. Len(signals) :
               signals[i] = "history" \/ (signals[i] = "newBlock" /\ RefreshAfter(i))
    <2>1. PICK i \in 1 .. Len(signals) :
             signals[i] = "history" \/ (signals[i] = "newBlock" /\ RefreshAfter(i))
      BY <1>5
    <2>2. CASE i = 1
      <3>1. signals[1] = "newBlock" /\ RefreshAfter(1)
        BY <1>1, <2>1, <2>2
      <3>2. foundNewBlock' /\ RefreshAfter(0)'
        BY <1>1, <1>3, <3>1
      <3>3. QED BY <3>2 DEF Noted
    <2>3. CASE i # 1
      <3>1. i - 1 \in 1 .. Len(signals') /\ signals'[i - 1] = signals[i]
        BY <1>1, <2>1, <2>3
      <3>2. RefreshAfter(i) => RefreshAfter(i - 1)'
        BY TailAfter
      <3>3. CASE signals[i] = "history"
        BY <3>1, <3>3 DEF Noted
      <3>4. CASE signals[i] = "newBlock" /\ RefreshAfter(i)
        BY <3>1, <3>2, <3>4 DEF Noted
      <3>5. QED BY <2>1, <3>3, <3>4
    <2>4. QED BY <2>2, <2>3
  <1>6. QED BY <1>2, <1>4, <1>5 DEF Noted

LEMMA LagNext ==
    ASSUME SyncInv, HistoryLagIsNoted, [Next]_vars
    PROVE  HistoryLagIsNoted'
  <1> SUFFICES ASSUME ~Caught', walletInitialized', shown' < wh'
               PROVE  Noted'
    BY DEF HistoryLagIsNoted, Noted
  <1> ~Caught
    BY CaughtForEver
  <1>0. SignalsOK /\ wh \in Nat /\ shown \in Nat
    BY DEF SyncInv, TypesOK, WorldOK, Heights
  <1>1. CASE NewBlock \/ TargetRaised
    <2>1. CASE thread' = "raising"
      BY <2>1 DEF Noted
    <2>2. CASE signals' = Append(signals, "newBlock") /\ thread' = "running"
      BY <1>0, <2>2, AppendedBlockNoted
    <2>3. QED BY <1>1, <2>1, <2>2 DEF NewBlock, TargetRaised, Emit
  <1>2. CASE Money \/ RefreshEnds \/ StatusAnswered
    <2>1. /\ UNCHANGED <<wh, shown, walletInitialized, foundNewBlock>>
          /\ \E s \in Signals :
                /\ signals' = Append(signals, s)
                /\ thread' = thread \/ s = "refreshed"
          /\ thread # "raising" \/ thread' = "raising"
      BY <1>2 DEF Money, RefreshEnds, StatusAnswered, Emit, Signals, mainVars
    <2>2. Noted
      BY <2>1, LagNoted
    <2>3. CASE thread' = "raising"
      BY <2>3 DEF Noted
    <2>4. CASE thread # "raising"
      BY <1>0, <2>1, <2>2, <2>4, AppendKeepsNoted
    <2>5. QED BY <2>1, <2>3, <2>4
  <1>3. CASE \/ RefreshStarts \/ DaemonStep \/ Tick \/ InitDone \/ OnRefreshed \/ GuiRaises
             \/ UNCHANGED vars
    <2>1. /\ UNCHANGED <<wh, shown, walletInitialized, foundNewBlock, signals>>
          /\ thread' = thread \/ thread' = "running"
          /\ thread = "raising" => thread' = thread
      BY <1>3 DEF RefreshStarts, DaemonStep, Tick, InitDone, OnRefreshed, GuiRaises, vars,
         mainVars, Outside
    <2>2. Noted
      BY <2>1, LagNoted
    <2>3. QED BY <2>1, <2>2 DEF Noted, RefreshAfter
  <1>4. CASE OnHistory
    BY <1>0, <1>4 DEF OnHistory
  <1>5. CASE OnStatus
    <2>1. signals # <<>> /\ Head(signals) = "status" /\ signals' = Tail(signals)
      BY <1>5 DEF OnStatus, Handles
    <2>2. thread' = thread /\ wh' = wh /\ foundNewBlock' = foundNewBlock
      BY <1>5 DEF OnStatus, Outside
    <2>3. CASE ~walletInitialized
      <3>1. shown' = wh
        BY <1>5, <2>3 DEF OnStatus
      <3>2. QED BY <1>0, <2>2, <3>1
    <2>4. CASE walletInitialized
      <3>1. shown' = shown
        BY <1>5, <2>4 DEF OnStatus
      <3>2. Noted
        BY <2>2, <2>4, <3>1, LagNoted
      <3>3. foundNewBlock => foundNewBlock'
        BY <2>2
      <3>4. Head(signals) # "history" /\ Head(signals) # "refreshed" /\ Head(signals) # "newBlock"
        BY <2>1
      <3>5. QED BY <1>0, <2>1, <2>2, <3>2, <3>3, <3>4, TailKeepsNoted
    <2>5. QED BY <2>3, <2>4
  <1>6. CASE OnNewBlock
    <2>1. signals # <<>> /\ Head(signals) = "newBlock" /\ signals' = Tail(signals)
      BY <1>6 DEF OnNewBlock, Handles
    <2>2. thread' = thread /\ wh' = wh /\ shown' = shown
      BY <1>6 DEF OnNewBlock, Outside
    <2>3. foundNewBlock' = TRUE
      BY <1>6 DEF OnNewBlock
    <2>4. walletInitialized
      BY <1>6 DEF OnNewBlock
    <2>5. Noted
      BY <2>2, <2>4, LagNoted
    <2>6. foundNewBlock'
      BY <2>3
    <2>7. Head(signals) # "history" /\ Head(signals) # "refreshed"
      BY <2>1
    <2>8. QED BY <1>0, <2>1, <2>2, <2>5, <2>6, <2>7, TailKeepsNoted
  <1>7. CASE OnMoney
    <2>1. signals # <<>> /\ signals' = <<"refreshed", "history">> \o Tail(signals)
      BY <1>7, MoneyHandled DEF SyncInv, Caught
    <2>2. Tail(signals) \in Seq(Signals)
      BY <1>0, <2>1 DEF SignalsOK
    <2>3. 2 \in 1 .. Len(signals') /\ signals'[2] = "history"
      BY <2>1, <2>2
    <2>4. QED BY <2>3 DEF Noted
  <1>8. CASE RefreshHandled
    <2>1. /\ signals # <<>> /\ Head(signals) = "refreshed"
      BY <1>8 DEF RefreshHandled, SyncInv, GuiBusy
    <2>2. /\ signals' = Tail(signals) /\ thread' = thread /\ wh' = wh
          /\ ~foundNewBlock /\ shown' = shown /\ walletInitialized
      BY <1>0, <1>8 DEF RefreshHandled, Outside
    <2>3. Noted
      BY <2>2, LagNoted
    <2>4. QED BY <1>0, <2>1, <2>2, <2>3, TailKeepsNoted
  <1>9. QED
    BY <1>1, <1>2, <1>3, <1>4, <1>5, <1>7, <1>8, <1>6 DEF Next, Thread, Gui

\* A history that lacks blocks the wallet has scanned will be rebuilt: the flag is up,
\* or a block on its way will raise it, before the next refresh is handled; unless the
\* GUI thread waits for itself.
THEOREM NoBlockIsForgotten == Spec => []HistoryLagIsNoted
  <1>1. Init => HistoryLagIsNoted
    BY DEF Init, HistoryLagIsNoted
  <1>2. SyncInv /\ HistoryLagIsNoted /\ [Next]_vars => HistoryLagIsNoted'
    BY LagNext
  <1>3. QED BY <1>1, <1>2, SyncInit, SyncNext, PTL DEF Spec

-----------------------------------------------------------------------------
(* The signals are handled in the end.                                      *)
(*                                                                          *)
(* The queue is handled in its order, so the signals ahead of one get       *)
(* fewer, with one exception: refresh(), called for money, puts its own     *)
(* signals in front.                                                        *)

\* What the fairness of FairSpec says, with a guard of each action for its ENABLED.
Connecting == init = "running"
Asked == init = "asked"
InitEnds == []<>~Connecting \/ []<><<InitDone>>_vars
StatusComes == []<>~Asked \/ []<><<StatusAnswered>>_vars
Resting == thread = "idle"
Running == thread = "running"
Raising == thread = "raising"
CanStart == Resting /\ ~Caught /\ ~Connecting /\ Room
RefreshesStart == []<>~CanStart \/ []<><<RefreshStarts>>_vars
TargetsAreRaised == []<>~Raising \/ []<><<TargetRaised>>_vars
RefreshesEnd == <>[]~Running \/ []<><<RefreshEnds>>_vars
CanHandle ==
    \/ gui \in {"raising", "deciding"}
    \/ gui = "idle" /\ signals # <<>> /\ (Head(signals) = "money" => Resting)
EventsAreHandled == []<>~CanHandle \/ []<><<Gui>>_vars
CanRefresh == Handles("money") /\ Resting
MoneyIsHandled == <>[]~CanRefresh \/ []<><<OnMoney>>_vars
CanAge == ~Raising /\ gui \in {"idle", "caught"} /\ (hAge <= HeightTtl \/ tAge <= TargetTtl)
TimePasses == <>[]~CanAge \/ []<><<Tick>>_vars

ThreadsGoOn ==
    /\ InitEnds /\ StatusComes /\ RefreshesStart /\ TargetsAreRaised /\ RefreshesEnd
    /\ EventsAreHandled /\ MoneyIsHandled

\* An action is enabled where its guard holds.
GuardsSuffice ==
    /\ Connecting => ENABLED <<InitDone>>_vars
    /\ Asked => ENABLED <<StatusAnswered>>_vars
    /\ CanStart => ENABLED <<RefreshStarts>>_vars
    /\ Raising => ENABLED <<TargetRaised>>_vars
    /\ Running => ENABLED <<RefreshEnds>>_vars
    /\ CanHandle => ENABLED <<Gui>>_vars
    /\ CanRefresh => ENABLED <<OnMoney>>_vars
    /\ CanAge => ENABLED <<Tick>>_vars

\* FairSpec comes to that where the guards suffice.
THEOREM FairThreadsGoOn == FairSpec /\ []GuardsSuffice => Spec /\ ThreadsGoOn /\ TimePasses
  BY PTL
  DEF FairSpec, Fairness, GuardsSuffice, ThreadsGoOn, InitEnds, StatusComes, RefreshesStart,
      TargetsAreRaised, RefreshesEnd, EventsAreHandled, MoneyIsHandled, TimePasses

\* One of the signals in M waits behind others, and how many are ahead of the first.
Among(M) == \E i \in 1 .. Len(signals) : signals[i] \in M
Waits(M) == Among(M) /\ Head(signals) \notin M
AheadIn(q, M) == {i \in 1 .. Len(q) : \A j \in 1 .. i : q[j] \notin M}
Ahead(M) == Cardinality(AheadIn(signals, M))

\* A signal is taken off the queue.
Popped == OnStatus \/ OnNewBlock \/ OnHistory \/ RefreshHandled

\* What refresh() puts in front holds one of M behind at most one other.
Turns == {M \in SUBSET Signals : "refreshed" \in M \/ "history" \in M}

AheadFalls(M) ==
    Waits(M) /\ Waits(M)' =>
        /\ Ahead(M)' <= Ahead(M)
        /\ Popped => Ahead(M)' < Ahead(M)

\* A number that never grows stays as it is in the end, and so does one that never
\* falls and stays in bounds: true of every behaviour, as numbers are well-founded,
\* which temporal logic alone does not know.
AheadSettles(M) ==
    <>[][(Ahead(M) \in Nat) /\ (Ahead(M)' \in Nat) /\ Ahead(M)' <= Ahead(M)]_vars
        => <>[][Ahead(M)' = Ahead(M)]_vars
QueueSettles ==
    <>[][(Len(signals) \in Nat) /\ (Len(signals') \in Nat) /\ Len(signals') <= Len(signals)]_vars
        => <>[][Len(signals') = Len(signals)]_vars
ScanSettles ==
    <>[][(wh \in 1 .. MaxHeight) /\ (wh' \in 1 .. MaxHeight) /\ wh' >= wh]_vars
        => <>[][wh' = wh]_vars
HeightAges ==
    <>[][(hAge \in 0 .. HeightTtl + 1) /\ (hAge' \in 0 .. HeightTtl + 1) /\ hAge' >= hAge]_vars
        => <>[][hAge' = hAge]_vars
TargetAges ==
    <>[][(tAge \in 0 .. TargetTtl + 1) /\ (tAge' \in 0 .. TargetTtl + 1) /\ tAge' >= tAge]_vars
        => <>[][tAge' = tAge]_vars

LEMMA AheadFinite ==
    ASSUME NEW q \in Seq(Signals), NEW M
    PROVE  IsFiniteSet(AheadIn(q, M)) /\ Cardinality(AheadIn(q, M)) \in Nat
  <1>1. IsFiniteSet(1 .. Len(q)) /\ AheadIn(q, M) \in SUBSET (1 .. Len(q))
    BY FS_Interval DEF AheadIn
  <1>2. QED BY <1>1, FS_Subset, FS_CardinalityType

\* A signal taken off the front is one less ahead.
LEMMA AheadPopped ==
    ASSUME NEW q \in Seq(Signals), NEW M, q # <<>>, Head(q) \notin M
    PROVE  Cardinality(AheadIn(Tail(q), M)) < Cardinality(AheadIn(q, M))
  <1>1. /\ Len(q) \in Nat \ {0} /\ Tail(q) \in Seq(Signals) /\ Len(Tail(q)) = Len(q) - 1
        /\ \A i \in 1 .. Len(q) - 1 : Tail(q)[i] = q[i + 1]
        /\ q[1] \notin M
    OBVIOUS
  <1> DEFINE f == [i \in AheadIn(Tail(q), M) |-> i + 1]
             R == AheadIn(q, M) \ {1}
  <1>2. f \in Injection(AheadIn(Tail(q), M), R)
    <2>1. ASSUME NEW i \in AheadIn(Tail(q), M) PROVE i \in 1 .. Len(q) - 1 /\ i + 1 \in R
      <3>1. i \in 1 .. Len(q) - 1 /\ \A j \in 1 .. i : Tail(q)[j] \notin M
        BY <1>1 DEF AheadIn
      <3>2. ASSUME NEW j \in 1 .. i + 1 PROVE q[j] \notin M
        <4>1. CASE j = 1
          BY <1>1, <4>1
        <4>2. CASE j # 1
          <5>1. j - 1 \in 1 .. i /\ j - 1 \in 1 .. Len(q) - 1 /\ (j - 1) + 1 = j
            BY <3>1, <4>2
          <5>2. Tail(q)[j - 1] = q[j]
            BY <1>1, <5>1
          <5>3. QED BY <3>1, <5>1, <5>2
        <4>3. QED BY <4>1, <4>2
      <3>3. QED BY <1>1, <3>1, <3>2 DEF AheadIn
    <2>2. f \in [AheadIn(Tail(q), M) -> R]
      BY <2>1
    <2>3. \A i, j \in AheadIn(Tail(q), M) : f[i] = f[j] => i = j
      BY <2>1
    <2>4. QED BY <2>2, <2>3 DEF Injection, IsInjective
  <1>3. 1 \in AheadIn(q, M)
    BY <1>1 DEF AheadIn
  <1>4. IsFiniteSet(R) /\ Cardinality(R) = Cardinality(AheadIn(q, M)) - 1
    BY <1>3, AheadFinite, FS_RemoveElement
  <1> HIDE DEF f, R
  <1>5. Cardinality(AheadIn(Tail(q), M)) <= Cardinality(R)
    BY <1>2, <1>4, FS_Injection
  <1>6. Cardinality(AheadIn(Tail(q), M)) \in Nat /\ Cardinality(AheadIn(q, M)) \in Nat
    BY <1>1, AheadFinite
  <1>7. QED BY <1>4, <1>5, <1>6

\* A signal put at the end is not ahead.
LEMMA AheadAppended ==
    ASSUME NEW q \in Seq(Signals), NEW M, NEW x \in Signals, NEW i \in 1 .. Len(q), q[i] \in M
    PROVE  AheadIn(Append(q, x), M) = AheadIn(q, M)
  <1>1. /\ Len(Append(q, x)) = Len(q) + 1 /\ Len(q) \in Nat
        /\ \A j \in 1 .. Len(q) : Append(q, x)[j] = q[j]
    OBVIOUS
  <1>2. Append(q, x)[i] \in M
    BY <1>1
  <1>3. \A k \in AheadIn(Append(q, x), M) : k \in 1 .. Len(q) /\ k < i
    BY <1>1, <1>2 DEF AheadIn
  <1>4. QED BY <1>1, <1>3 DEF AheadIn

\* What refresh() puts in front leaves at most one signal ahead.
LEMMA AheadReplaced ==
    ASSUME NEW q \in Seq(Signals), NEW M, q # <<>>, Head(q) \notin M,
           NEW new \in Seq(Signals), Len(new) >= 2, new[2] \in M
    PROVE  Cardinality(AheadIn(new \o Tail(q), M)) <= Cardinality(AheadIn(q, M))
  <1>1. Tail(q) \in Seq(Signals) /\ new \o Tail(q) \in Seq(Signals)
    OBVIOUS
  <1>2. (new \o Tail(q))[2] \in M
    BY <1>1
  <1>3. AheadIn(new \o Tail(q), M) \subseteq AheadIn(q, M)
    <2>1. 1 \in AheadIn(q, M)
      BY DEF AheadIn
    <2>2. \A k \in AheadIn(new \o Tail(q), M) : k = 1
      BY <1>1, <1>2 DEF AheadIn
    <2>3. QED BY <2>1, <2>2
  <1>4. QED BY <1>3, AheadFinite, FS_Subset

\* refresh() puts one of M second, if it does not put one first.
LEMMA MoneyReplaces ==
    ASSUME NEW M \in Turns, SyncInv, Replaced, Waits(M)'
    PROVE  \E new \in Seq(Signals) :
              Len(new) >= 2 /\ new[2] \in M /\ signals' = new \o Tail(signals)
  <1>1. Tail(signals) \in Seq(Signals) /\ signals' = <<"refreshed", "history">> \o Tail(signals)
    BY DEF SyncInv, TypesOK, SignalsOK, Replaced
  <1>2. /\ <<"refreshed", "history">> \in Seq(Signals) /\ Len(<<"refreshed", "history">>) >= 2
        /\ <<"refreshed", "history">>[2] = "history"
    BY DEF Signals
  <1>3. Head(signals') = "refreshed"
    BY <1>1
  <1>4. "history" \in M
    BY <1>3 DEF Waits, Turns
  <1>5. QED BY <1>1, <1>2, <1>4

LEMMA AheadNext ==
    ASSUME NEW M \in Turns
    PROVE  SyncInv /\ [Next]_vars => AheadFalls(M)
  <1> SUFFICES ASSUME SyncInv, [Next]_vars, Waits(M), Waits(M)'
               PROVE  /\ Ahead(M)' <= Ahead(M)
                      /\ Popped => Ahead(M)' < Ahead(M)
    BY DEF AheadFalls
  <1>1. signals \in Seq(Signals) /\ signals # <<>> /\ Head(signals) \notin M
        /\ Ahead(M) \in Nat /\ Ahead(M)' \in Nat
    <2>1. SyncInv'
      BY SyncNext
    <2>2. signals \in Seq(Signals) /\ signals' \in Seq(Signals)
      BY <2>1 DEF SyncInv, TypesOK, SignalsOK
    <2>3. QED BY <2>2, AheadFinite DEF Waits, Among, Ahead
  <1>2. Popped => signals' = Tail(signals)
    BY DEF Popped, OnStatus, OnNewBlock, OnHistory, RefreshHandled
  <1>3. CASE signals' = Tail(signals)
    BY <1>1, <1>3, AheadPopped DEF Ahead
  <1>4. CASE OnMoney /\ Replaced
    <2>1. PICK new \in Seq(Signals) :
             Len(new) >= 2 /\ new[2] \in M /\ signals' = new \o Tail(signals)
      BY <1>4, MoneyReplaces
    <2>2. Ahead(M)' <= Ahead(M)
      BY <1>1, <2>1, AheadReplaced DEF Ahead
    <2>3. ~Popped
      BY <1>1, <1>4 DEF OnMoney, Popped, OnStatus, OnNewBlock, OnHistory, RefreshHandled, Handles,
         SyncInv, GuiBusy
    <2>4. QED BY <2>2, <2>3
  <1>5. CASE \E x \in Signals : signals' = Append(signals, x)
    <2>1. Ahead(M)' = Ahead(M)
      <3>1. PICK i \in 1 .. Len(signals) : signals[i] \in M
        BY DEF Waits, Among
      <3>2. QED BY <1>1, <1>5, <3>1, AheadAppended DEF Ahead
    <2>2. signals' # Tail(signals)
      <3>1. /\ Len(signals') = Len(signals) + 1 /\ Len(Tail(signals)) = Len(signals) - 1
            /\ Len(signals) \in Nat
        BY <1>1, <1>5
      <3>2. QED BY <3>1
    <2>3. ~Popped
      BY <1>2, <2>2
    <2>4. QED BY <1>1, <2>1, <2>3
  <1>6. CASE UNCHANGED signals
    <2>1. Ahead(M)' = Ahead(M)
      BY <1>6 DEF Ahead
    <2>2. signals # Tail(signals)
      BY <1>1
    <2>3. ~Popped
      BY <1>6, <1>2, <2>2
    <2>4. QED BY <1>1, <2>1, <2>3
  <1>7. \/ \E x \in Signals : signals' = Append(signals, x)
        \/ signals' = Tail(signals) \/ (OnMoney /\ Replaced) \/ UNCHANGED signals
    BY MoneyHandled
    DEF SyncInv, Replaced, Next, Thread, Gui, vars, DaemonStep, Tick, InitDone,
       StatusAnswered, RefreshStarts, NewBlock, TargetRaised, Money, RefreshEnds, OnStatus, OnNewBlock, OnHistory, OnRefreshed,
       GuiRaises, RefreshHandled, Emit, Signals
  <1>8. QED BY <1>3, <1>4, <1>5, <1>6, <1>7

\* Whatever signals are queued, those ahead of one that waits get fewer with each that is
\* handled, and no step adds to them, if what refresh() puts in front is, in turn, one of
\* those it is waited for.
THEOREM SignalsGetAhead == Spec => [][\A M \in Turns : AheadFalls(M)]_vars
  <1>1. SyncInv /\ [Next]_vars => \A M \in Turns : AheadFalls(M)
    BY AheadNext
  <1>2. QED BY <1>1, SyncInit, SyncNext, PTL DEF Spec

\* As long as the GUI thread is not caught.
FreeInv == SyncInv /\ ~Caught

\* The GUI thread inside and outside onWalletRefresh.
LEMMA GuiSteps ==
    ASSUME FreeInv, FreeInv', [Next]_vars
    PROVE  /\ ~(gui = "idle") /\ ~RefreshHandled => ~(gui' = "idle")
           /\ gui = "deciding" /\ ~RefreshHandled => gui' = "deciding"
           /\ Gui /\ gui = "deciding" => RefreshHandled
           /\ Gui /\ gui = "raising" => gui' = "deciding"
           /\ Gui /\ gui = "idle" => Popped \/ OnMoney \/ OnRefreshed
           /\ RefreshHandled => gui = "deciding" /\ gui' = "idle"
           /\ OnRefreshed => ~(gui' = "idle")
  <1>1. CASE \/ DaemonStep \/ Tick \/ InitDone \/ StatusAnswered \/ Thread \/ UNCHANGED vars
    <2>1. UNCHANGED gui
      BY <1>1 DEF DaemonStep, Tick, InitDone, StatusAnswered, Thread, RefreshStarts, NewBlock,
         TargetRaised, Money, RefreshEnds, vars
    <2>2. ~RefreshHandled /\ ~OnRefreshed /\ ~GuiRaises
      BY <2>1 DEF RefreshHandled, OnRefreshed, GuiRaises, Handles
    <2>3. Gui => gui = "idle" /\ (Popped \/ OnMoney)
      BY <2>2 DEF Gui, Popped, OnStatus, OnNewBlock, OnHistory, OnMoney, Handles
    <2>4. OnMoney => gui = "idle"
      BY DEF OnMoney, Handles
    <2>5. QED BY <2>1, <2>2, <2>3, <2>4
  <1>2. CASE OnStatus \/ OnNewBlock \/ OnMoney \/ OnHistory
    <2>1. gui = "idle" /\ gui' = "idle"
      BY <1>2 DEF FreeInv, Caught, OnStatus, OnNewBlock, OnMoney, OnHistory, Handles
    <2>2. ~RefreshHandled /\ ~OnRefreshed
      BY <2>1 DEF RefreshHandled, OnRefreshed
    <2>3. QED BY <1>2, <2>1, <2>2 DEF Popped
  <1>3. CASE OnRefreshed
    <2>1. gui = "idle" /\ gui' \in {"raising", "deciding"}
      BY <1>3 DEF OnRefreshed, Handles
    <2>2. ~RefreshHandled
      BY <2>1 DEF RefreshHandled
    <2>3. QED BY <1>3, <2>1, <2>2
  <1>4. CASE GuiRaises
    <2>1. gui = "raising" /\ gui' = "deciding"
      BY <1>4 DEF GuiRaises
    <2>2. ~RefreshHandled /\ ~OnRefreshed
      BY <2>1 DEF RefreshHandled, OnRefreshed, Handles
    <2>3. QED BY <2>1, <2>2
  <1>5. CASE RefreshHandled
    <2>1. gui = "deciding" /\ gui' = "idle"
      BY <1>5 DEF RefreshHandled
    <2>2. ~OnRefreshed
      BY <2>1 DEF OnRefreshed, Handles
    <2>3. QED BY <1>5, <2>1, <2>2
  <1>6. QED BY <1>1, <1>2, <1>3, <1>4, <1>5 DEF Next, Gui

\* What is at the head of the queue stays there until it is handled.
LEMMA HeadSteps ==
    ASSUME SyncInv, [Next]_vars, signals # <<>>
    PROVE  Popped \/ OnMoney \/ (signals' # <<>> /\ Head(signals') = Head(signals))
  <1>1. signals \in Seq(Signals)
    BY DEF SyncInv, TypesOK, SignalsOK
  <1>2. CASE \E s \in Signals : signals' = Append(signals, s)
    BY <1>1, <1>2
  <1>3. CASE UNCHANGED signals
    BY <1>3
  <1>4. \/ Popped \/ OnMoney \/ UNCHANGED signals
        \/ \E s \in Signals : signals' = Append(signals, s)
    BY DEF Popped, Next, Thread, Gui, vars, DaemonStep, Tick, InitDone, StatusAnswered,
       RefreshStarts, NewBlock, TargetRaised, Money, RefreshEnds, OnRefreshed, GuiRaises, Emit,
       Signals
  <1>5. QED BY <1>2, <1>3, <1>4

\* A signal among those queued stays until it is handled.
LEMMA AmongSteps ==
    ASSUME NEW M \in SUBSET Signals, "money" \notin M, SyncInv, [Next]_vars, Among(M),
           Popped => Head(signals) \notin M
    PROVE  Among(M)'
  <1>1. signals \in Seq(Signals) /\ (gui # "idle" => signals # <<>>)
    BY DEF SyncInv, TypesOK, SignalsOK, GuiBusy
  <1>2. PICK i \in 1 .. Len(signals) : signals[i] \in M
    BY DEF Among
  <1>3. CASE \E s \in Signals : signals' = Append(signals, s)
    <2>1. i \in 1 .. Len(signals') /\ signals'[i] = signals[i]
      BY <1>1, <1>3
    <2>2. QED BY <1>2, <2>1 DEF Among
  <1>4. CASE UNCHANGED signals
    BY <1>2, <1>4 DEF Among
  <1>5. CASE Popped
    <2>1. Head(signals) \notin M /\ signals' = Tail(signals)
      BY <1>5 DEF Popped, OnStatus, OnNewBlock, OnHistory, RefreshHandled
    <2>2. i # 1
      BY <1>1, <1>2, <2>1
    <2>3. i - 1 \in 1 .. Len(signals') /\ signals'[i - 1] = signals[i]
      BY <1>1, <2>1, <2>2
    <2>4. QED BY <1>2, <2>3 DEF Among
  <1>6. CASE OnMoney
    <2>1. i # 1 /\ Tail(signals) \in Seq(Signals) /\ signals # <<>>
      BY <1>1, <1>2, <1>6 DEF OnMoney, Handles
    <2>2. CASE signals' = <<"refreshed", "history">> \o Tail(signals)
      <3>1. i + 1 \in 1 .. Len(signals') /\ signals'[i + 1] = signals[i]
        BY <1>1, <2>1, <2>2
      <3>2. QED BY <1>2, <3>1 DEF Among
    <2>3. CASE UNCHANGED signals
      BY <1>4, <2>3
    <2>4. QED BY <1>6, <2>2, <2>3, MoneyHandled DEF SyncInv
  <1>7. \/ Popped \/ OnMoney \/ UNCHANGED signals
        \/ \E s \in Signals : signals' = Append(signals, s)
    BY DEF Popped, Next, Thread, Gui, vars, DaemonStep, Tick, InitDone, StatusAnswered,
       RefreshStarts, NewBlock, TargetRaised, Money, RefreshEnds, OnRefreshed, GuiRaises, Emit,
       Signals
  <1>8. QED BY <1>3, <1>4, <1>5, <1>6, <1>7

\* The refresh thread comes to rest again and again.
LEMMA ThreadRests == Spec /\ TargetsAreRaised /\ RefreshesEnd => []<>Resting
  <1>1. SyncInv => Resting \/ Running \/ Raising
    BY DEF SyncInv, TypesOK, PlacesOK, Resting, Running, Raising
  <1>2. TargetRaised => Running'
    BY DEF TargetRaised, Running
  <1>3. RefreshEnds => Resting'
    BY DEF RefreshEnds, Resting
  <1>4. Spec => []SyncInv
    BY SyncInit, SyncNext, PTL DEF Spec
  <1>5. QED BY <1>1, <1>2, <1>3, <1>4, PTL DEF TargetsAreRaised, RefreshesEnd

\* None of the signals in M waits for ever behind others.
TurnComes(M) == []<>~Waits(M)

LEMMA SignalComes ==
    ASSUME NEW M \in Turns
    PROVE  Spec /\ []~Caught /\ ThreadsGoOn /\ AheadSettles(M) => TurnComes(M)
  <1> DEFINE W == Waits(M)
             Down == (Ahead(M) \in Nat) /\ (Ahead(M)' \in Nat) /\ Ahead(M)' <= Ahead(M)
             Same == Ahead(M)' = Ahead(M)
             Y == Head(signals) = "money"
             I == gui = "idle"
             D == gui = "deciding"
  <1>1. SyncInv => Ahead(M) \in Nat
    BY AheadFinite DEF SyncInv, TypesOK, SignalsOK, Ahead
  <1>2. SyncInv /\ SyncInv' /\ W /\ W' /\ AheadFalls(M) => Down
    <2>1. (SyncInv => Ahead(M) \in Nat)'
      BY <1>1, PTL
    <2>2. QED BY <1>1, <2>1 DEF AheadFalls
  <1>3. SyncInv /\ W /\ W' /\ AheadFalls(M) /\ Same => ~Popped
    BY <1>1 DEF AheadFalls
  \* The head of the queue stays, unless it is money.
  <1>4. SyncInv /\ [Next]_vars /\ W /\ ~Popped /\ ~OnMoney => (Y <=> Y')
    BY HeadSteps DEF Waits, Among, SyncInv, TypesOK, SignalsOK
  <1>5. FreeInv /\ FreeInv' /\ OnMoney => ~Y'
    <2>1. SUFFICES ASSUME FreeInv, FreeInv', OnMoney PROVE ~Y'
      OBVIOUS
    <2>2. signals # <<>> /\ signals' = <<"refreshed", "history">> \o Tail(signals)
      BY <2>1, MoneyHandled DEF FreeInv, SyncInv, Caught
    <2>3. Tail(signals) \in Seq(Signals)
      BY <2>1, <2>2 DEF FreeInv, SyncInv, TypesOK, SignalsOK
    <2>4. QED BY <2>2, <2>3
  <1>6. FreeInv /\ W /\ Y => I
    BY DEF FreeInv, SyncInv, TypesOK, PlacesOK, GuiBusy, Caught
  <1>7. W /\ Y /\ I /\ Resting => CanRefresh
    BY DEF CanRefresh, Handles, Waits, Among
  <1>8. FreeInv /\ W /\ ~Y => CanHandle
    BY DEF CanHandle, Waits, Among, FreeInv, Caught, SyncInv, TypesOK, PlacesOK, SignalsOK
  <1>9. FreeInv /\ FreeInv' /\ [Next]_vars /\ ~Popped
          => /\ (~I => ~I') /\ (D => D')
             /\ Gui /\ ~I => D \/ D'
             /\ ~(Gui /\ D)
             /\ Gui /\ I => OnMoney \/ ~I'
    BY GuiSteps DEF Popped, FreeInv, Caught, SyncInv, TypesOK, PlacesOK
  <1>10. SyncInv /\ [Next]_vars => AheadFalls(M)
    BY AheadNext
  <1>11. Spec /\ []~Caught
            => /\ []SyncInv /\ []FreeInv /\ [][Next]_vars /\ [][AheadFalls(M)]_vars
    BY <1>10, SyncInit, SyncNext, PTL DEF Spec, FreeInv
  <1>12. AheadSettles(M) => (<>[][Down]_vars => <>[][Same]_vars)
    BY PTL DEF AheadSettles
  <1>13. OnMoney => Y
    BY DEF OnMoney, Handles
  <1>14. UNCHANGED vars => (Y <=> Y') /\ (I <=> I') /\ (D <=> D')
    BY DEF vars
  <1> HIDE DEF W, Down, Same, Y, I, D
  <1>15. Spec /\ []~Caught /\ AheadSettles(M) /\ <>[]W => <>[][~Popped]_vars
    BY <1>2, <1>3, <1>11, <1>12, PTL
  <1>16. Spec /\ []~Caught /\ ThreadsGoOn /\ <>[]W /\ <>[][~Popped]_vars => <>[]~Y
    BY <1>4, <1>5, <1>6, <1>7, <1>11, <1>14, ThreadRests, PTL DEF ThreadsGoOn, MoneyIsHandled
  <1>17. Spec /\ []~Caught /\ ThreadsGoOn /\ <>[]W /\ <>[][~Popped]_vars /\ <>[]~Y => FALSE
    BY <1>8, <1>9, <1>11, <1>13, <1>14, PTL DEF ThreadsGoOn, EventsAreHandled
  <1>18. QED BY <1>15, <1>16, <1>17, PTL DEF TurnComes, W

\* A model of a queue that never has room would hold the refresh thread for ever.
SomeRoom == MaxSignals # 0

\* The connection is answered in the end.
Connected == init = "answered"
LEMMA GetsConnected == Spec /\ ThreadsGoOn => <>[]Connected
  <1>1. SyncInv => Connecting \/ Asked \/ Connected
    BY DEF SyncInv, TypesOK, PlacesOK, Connecting, Asked, Connected
  <1>2. [Next]_vars => \/ (Connecting <=> Connecting') /\ (Asked <=> Asked')
                          /\ (Connected <=> Connected')
                       \/ InitDone \/ StatusAnswered
    BY DEF Next, Thread, Gui, vars, DaemonStep, Tick, RefreshStarts, NewBlock, TargetRaised,
       Money, RefreshEnds, OnStatus, OnNewBlock, OnMoney, OnHistory, OnRefreshed, GuiRaises,
       RefreshHandled, Outside, Connecting, Asked, Connected
  <1>3. InitDone => Connecting /\ ~Connected /\ Asked'
    BY DEF InitDone, Connecting, Asked, Connected
  <1>4. StatusAnswered => Asked /\ ~Connected /\ Connected'
    BY DEF StatusAnswered, Asked, Connected
  <1>5. Connecting => ~Asked /\ ~Connected
    BY DEF Connecting, Asked, Connected
  <1>6. Asked => ~Connected
    BY DEF Asked, Connected
  <1>7. Spec => []SyncInv /\ [][Next]_vars
    BY SyncInit, SyncNext, PTL DEF Spec
  <1>8. QED
    BY <1>1, <1>2, <1>3, <1>4, <1>5, <1>6, <1>7, PTL DEF ThreadsGoOn, InitEnds, StatusComes

\* With the thread at rest and the connection answered, nothing is queued.
QueueFalls ==
    Resting /\ Resting' /\ Connected /\ ~OnMoney =>
        /\ Len(signals') <= Len(signals)
        /\ Popped => Len(signals') < Len(signals)

LEMMA QueueNext == SyncInv /\ [Next]_vars => QueueFalls
  <1> SUFFICES ASSUME SyncInv, [Next]_vars, Resting, Resting', Connected, ~OnMoney
               PROVE  /\ Len(signals') <= Len(signals)
                      /\ Popped => Len(signals') < Len(signals)
    BY DEF QueueFalls
  <1>1. signals \in Seq(Signals) /\ (gui # "idle" => signals # <<>>)
    BY DEF SyncInv, TypesOK, SignalsOK, GuiBusy
  <1>2. CASE Popped
    <2>1. signals' = Tail(signals)
      BY <1>2 DEF Popped, OnStatus, OnNewBlock, OnHistory, RefreshHandled
    <2>2. signals # <<>>
      BY <1>1, <1>2 DEF Popped, OnStatus, OnNewBlock, OnHistory, RefreshHandled, Handles
    <2>3. QED BY <1>1, <2>1, <2>2
  <1>3. CASE UNCHANGED signals /\ ~Popped
    BY <1>1, <1>3
  <1>4. UNCHANGED signals \/ Popped
    <2>1. CASE Thread
      BY <2>1 DEF Thread, RefreshStarts, NewBlock, TargetRaised, Money, RefreshEnds, Resting
    <2>2. ~StatusAnswered
      BY DEF StatusAnswered, Connected
    <2>3. CASE Gui
      BY <2>3 DEF Gui, Popped, OnRefreshed, GuiRaises
    <2>4. QED BY <2>1, <2>2, <2>3 DEF Next, vars, DaemonStep, Tick, InitDone
  <1>5. QED BY <1>2, <1>3, <1>4

\* onWalletRefresh is run again and again, whatever the daemon does, whatever money the
\* refresh thread finds and however often the signals wait, as long as no refresh() of
\* the GUI thread finds money itself.
THEOREM RefreshesAreHandled ==
    ASSUME SomeRoom
    PROVE  Spec /\ []~Caught /\ ThreadsGoOn /\ AheadSettles({"refreshed"}) /\ QueueSettles
              => []<><<RefreshHandled>>_vars
  <1> DEFINE M == {"refreshed"}
             A == Among(M)
             H == Head(signals) \in M
             I == gui = "idle"
             D == gui = "deciding"
             E == signals = <<>>
             Down == (Len(signals) \in Nat) /\ (Len(signals') \in Nat)
                         /\ Len(signals') <= Len(signals)
             Same == Len(signals') = Len(signals)
  <1>1. M \in SUBSET Signals /\ M \in Turns /\ "money" \notin M
    BY DEF Signals, Turns
  \* A refresh that waits is handled.
  <1>2. Spec /\ []~Caught /\ ThreadsGoOn /\ AheadSettles(M) => TurnComes(M)
    BY <1>1, SignalComes
  <1>3. Waits(M) <=> A /\ ~H
    BY DEF Waits
  <1>4. TurnComes(M) => []<>(~A \/ H)
    BY <1>3, PTL DEF TurnComes
  <1>5. SyncInv /\ [Next]_vars /\ ~RefreshHandled => (A => A')
    <2>1. ASSUME Popped, ~RefreshHandled PROVE Head(signals) \notin M
      BY <2>1 DEF Popped, OnStatus, OnNewBlock, OnHistory, Handles
    <2>2. QED BY <1>1, <2>1, AmongSteps
  <1>6. SyncInv /\ [Next]_vars /\ ~RefreshHandled => (A /\ H => H')
    <2>1. SyncInv /\ A => signals # <<>>
      BY DEF SyncInv, TypesOK, SignalsOK, Among
    <2>2. H /\ ~RefreshHandled => ~Popped /\ ~OnMoney
      BY DEF Popped, OnStatus, OnNewBlock, OnHistory, OnMoney, Handles
    <2>3. QED BY <2>1, <2>2, HeadSteps
  <1>7. FreeInv /\ FreeInv' /\ [Next]_vars /\ ~RefreshHandled
          => /\ (~I => ~I') /\ (D => D')
             /\ Gui /\ ~I => D \/ D'
             /\ ~(Gui /\ D)
             /\ Gui /\ I => Popped \/ OnMoney \/ ~I'
             /\ Gui /\ I /\ A /\ H => ~I'
    <2>1. H /\ ~RefreshHandled => ~Popped /\ ~OnMoney
      BY DEF Popped, OnStatus, OnNewBlock, OnHistory, OnMoney, Handles
    <2>2. FreeInv => I \/ D \/ gui = "raising"
      BY DEF FreeInv, Caught, SyncInv, TypesOK, PlacesOK
    <2>3. QED BY <2>1, <2>2, GuiSteps
  <1>8. FreeInv /\ A /\ H => CanHandle
    BY DEF CanHandle, FreeInv, Caught, SyncInv, TypesOK, PlacesOK, SignalsOK, Among
  <1>9. FreeInv /\ ~I => CanHandle
    BY DEF CanHandle, FreeInv, Caught, SyncInv, TypesOK, PlacesOK
  \* If none is handled, none is queued, and the thread is at rest.
  <1>10. SyncInv /\ RefreshEnds => A'
    <2>1. SUFFICES ASSUME SyncInv, RefreshEnds PROVE A'
      OBVIOUS
    <2>2. signals \in Seq(Signals) /\ signals' = Append(signals, "refreshed")
      BY <2>1 DEF SyncInv, TypesOK, SignalsOK, RefreshEnds, Emit
    <2>3. /\ Len(signals') \in 1 .. Len(signals')
          /\ signals'[Len(signals')] = "refreshed"
      BY <2>2 DEF Signals
    <2>4. QED BY <2>3 DEF Among
  <1>11. FreeInv /\ FreeInv' /\ OnMoney => A'
    <2>1. SUFFICES ASSUME FreeInv, FreeInv', OnMoney PROVE A'
      OBVIOUS
    <2>2. signals # <<>> /\ signals' = <<"refreshed", "history">> \o Tail(signals)
      BY <2>1, MoneyHandled DEF FreeInv, SyncInv, Caught
    <2>3. Tail(signals) \in Seq(Signals)
      BY <2>1, <2>2 DEF FreeInv, SyncInv, TypesOK, SignalsOK
    <2>4. 1 \in 1 .. Len(signals') /\ signals'[1] = "refreshed"
      BY <2>2, <2>3
    <2>5. QED BY <2>4 DEF Among
  <1>12. [Next]_vars /\ Resting => Resting' \/ RefreshStarts
    BY DEF Next, Thread, Gui, vars, DaemonStep, Tick, InitDone, StatusAnswered, NewBlock,
       TargetRaised, Money, RefreshEnds, OnStatus, OnNewBlock, OnMoney, OnHistory, OnRefreshed,
       GuiRaises, RefreshHandled, Outside, Resting
  <1>13. RefreshStarts => Running' /\ ~Resting'
    BY DEF RefreshStarts, Running, Resting
  <1>14. RefreshHandled => Popped
    BY DEF Popped
  \* Then the queue empties.
  <1>15. SyncInv /\ SyncInv' /\ Resting /\ Resting' /\ Connected /\ ~OnMoney /\ QueueFalls => Down
    BY DEF QueueFalls, SyncInv, TypesOK, SignalsOK
  <1>16. SyncInv /\ Resting /\ Resting' /\ Connected /\ ~OnMoney /\ QueueFalls /\ Same => ~Popped
    BY DEF QueueFalls, SyncInv, TypesOK, SignalsOK
  <1>17. SyncInv /\ SyncInv' /\ Same => (E <=> E')
    BY DEF SyncInv, TypesOK, SignalsOK
  <1>18. E => Room
    BY SyncAssumption DEF Room, SomeRoom, SyncAssumption
  <1>19. FreeInv /\ ~E /\ Resting => CanHandle
    BY DEF CanHandle, FreeInv, Caught, SyncInv, TypesOK, PlacesOK
  <1>20. FreeInv /\ Resting /\ Connected /\ Room => CanStart
    BY DEF CanStart, FreeInv, Connected, Connecting
  <1>21. QueueSettles => (<>[][Down]_vars => <>[][Same]_vars)
    BY PTL DEF QueueSettles
  <1>22. Spec => []SyncInv /\ [][Next]_vars /\ [][QueueFalls]_vars
    BY QueueNext, SyncInit, SyncNext, PTL DEF Spec
  <1>23. Spec /\ []~Caught => []FreeInv
    BY <1>22, PTL DEF FreeInv
  <1>24. UNCHANGED vars => /\ (I <=> I') /\ (D <=> D') /\ (A <=> A') /\ (H <=> H')
                           /\ (E <=> E') /\ (Resting <=> Resting')
    BY DEF vars, Among, Resting
  <1> HIDE DEF M, A, H, I, D, E, Down, Same
  <1>25. Spec /\ []~Caught /\ ThreadsGoOn /\ <>[][~RefreshHandled]_vars => <>[]I
    BY <1>23, <1>7, <1>9, <1>22, <1>24, PTL DEF ThreadsGoOn, EventsAreHandled
  <1>26. Spec /\ []~Caught /\ ThreadsGoOn /\ TurnComes(M) /\ <>[][~RefreshHandled]_vars
           => <>[]~A
    BY <1>23, <1>4, <1>5, <1>6, <1>7, <1>8, <1>22, <1>24, <1>25, PTL
    DEF ThreadsGoOn, EventsAreHandled
  <1>27. Spec /\ ThreadsGoOn /\ <>[]~A => <>[]Resting
    <2>1. Running => ~Resting
      BY DEF Running, Resting
    <2>2. SyncInv => Resting \/ Running \/ Raising
      BY DEF SyncInv, TypesOK, PlacesOK, Resting, Running, Raising
    <2>3. QED
      BY <1>10, <1>12, <1>13, <1>22, <1>24, <2>1, <2>2, ThreadRests, PTL
      DEF ThreadsGoOn, RefreshesEnd
  <1>28. Spec /\ []~Caught /\ QueueSettles /\ <>[]~A /\ <>[]Resting /\ <>[]Connected
            => <>[][~Popped]_vars /\ (<>[]E \/ <>[]~E)
    BY <1>23, <1>11, <1>15, <1>16, <1>17, <1>21, <1>22, <1>24, PTL
  <1>29. Spec /\ []~Caught /\ ThreadsGoOn /\ <>[]I /\ <>[]~A /\ <>[]Resting /\ <>[][~Popped]_vars
           => ~<>[]~E
    BY <1>23, <1>7, <1>11, <1>14, <1>19, <1>22, <1>24, PTL DEF ThreadsGoOn, EventsAreHandled
  <1>30. Spec /\ []~Caught /\ ThreadsGoOn /\ <>[]Resting /\ <>[]Connected => ~<>[]E
    BY <1>23, <1>13, <1>18, <1>20, <1>22, PTL DEF ThreadsGoOn, RefreshesStart
  <1>31. QED
    BY <1>2, <1>25, <1>26, <1>27, <1>28, <1>29, <1>30, GetsConnected, PTL DEF M

\* A signal in M that stays in the queue and whose turn comes is handled, if the event
\* loop alone can handle it.
Stays(M) == <>[]Among(M)
Takes(M) == Popped /\ Head(signals) \in M
OneIsHandled(M) == []<><<Takes(M)>>_vars

LEMMA TurnIsTaken ==
    ASSUME NEW M \in SUBSET {"status", "newBlock", "history"}
    PROVE  Spec /\ ThreadsGoOn /\ TurnComes(M) /\ Stays(M) => OneIsHandled(M)
  <1> DEFINE A == Among(M)
             H == Head(signals) \in M
             T == Takes(M)
  <1>1. Waits(M) <=> A /\ ~H
    BY DEF Waits
  <1>2. TurnComes(M) /\ Stays(M) => []<>(A /\ H)
    BY <1>1, PTL DEF TurnComes, Stays
  <1>3. SyncInv /\ A => signals # <<>>
    BY DEF SyncInv, TypesOK, SignalsOK, Among
  <1>4. H => ~OnMoney /\ ~OnRefreshed
    BY DEF OnMoney, OnRefreshed, Handles
  <1>5. SyncInv /\ A /\ H => gui = "idle" /\ CanHandle
    BY <1>3 DEF SyncInv, TypesOK, PlacesOK, GuiBusy, CanHandle
  <1>6. SyncInv /\ [Next]_vars /\ A /\ H /\ ~T => H'
    BY <1>3, <1>4, HeadSteps DEF Takes
  <1>7. SyncInv /\ A /\ H /\ Gui => T
    BY <1>4, <1>5 DEF Gui, GuiRaises, Takes, Popped
  <1>8. UNCHANGED vars => (A <=> A') /\ (H <=> H')
    BY DEF vars, Among
  <1>9. Spec => []SyncInv /\ [][Next]_vars
    BY SyncInit, SyncNext, PTL DEF Spec
  <1> HIDE DEF A, H, T
  <1>10. Spec /\ ThreadsGoOn /\ <>[]A /\ []<>(A /\ H) => []<><<T>>_vars
    BY <1>5, <1>6, <1>7, <1>8, <1>9, PTL DEF ThreadsGoOn, EventsAreHandled
  <1>11. QED BY <1>2, <1>10, PTL DEF Stays, OneIsHandled, A, T

\* The answer about the connection is told, or on its way.
AnsweredIsTold == Connected /\ ~walletInitialized => Among({"status"})

LEMMA ToldNext == SyncInv /\ AnsweredIsTold /\ [Next]_vars => AnsweredIsTold'
  <1> SUFFICES ASSUME SyncInv, AnsweredIsTold, [Next]_vars, Connected', ~walletInitialized'
               PROVE  Among({"status"})'
    BY DEF AnsweredIsTold
  <1>1. CASE StatusAnswered
    <2>1. signals \in Seq(Signals) /\ signals' = Append(signals, "status")
      BY <1>1 DEF StatusAnswered, Emit, SyncInv, TypesOK, SignalsOK
    <2>2. Len(signals') \in 1 .. Len(signals') /\ signals'[Len(signals')] = "status"
      BY <2>1 DEF Signals
    <2>3. QED BY <2>2 DEF Among
  <1>2. CASE ~StatusAnswered
    <2>1. Connected
      BY <1>2 DEF Next, Thread, Gui, vars, DaemonStep, Tick, InitDone, RefreshStarts, NewBlock,
         TargetRaised, Money, RefreshEnds, OnStatus, OnNewBlock, OnMoney, OnHistory, OnRefreshed,
         GuiRaises, RefreshHandled, Outside, Connected
    <2>2. ~walletInitialized
      BY DEF SyncInv, TypesOK, FlagsOK, Next, Thread, Gui, vars, DaemonStep, Tick, InitDone,
         RefreshStarts, NewBlock, TargetRaised, Money, RefreshEnds, StatusAnswered, OnStatus,
         OnNewBlock, OnMoney, OnHistory, OnRefreshed, GuiRaises, RefreshHandled, mainVars
    <2>3. ASSUME Popped PROVE Head(signals) \notin {"status"}
      <3>1. ~OnStatus
        BY DEF OnStatus
      <3>2. RefreshHandled => Head(signals) = "refreshed"
        BY DEF SyncInv, GuiBusy, RefreshHandled
      <3>3. QED BY <2>3, <3>1, <3>2 DEF Popped, OnNewBlock, OnHistory, Handles
    <2>4. {"status"} \in SUBSET Signals /\ "money" \notin {"status"}
      BY DEF Signals
    <2>5. QED BY <2>1, <2>2, <2>3, <2>4, AmongSteps DEF AnsweredIsTold
  <1>3. QED BY <1>1, <1>2

\* The history is never ahead of the wallet, and the wallet never loses blocks.
ShownIsScanned == shown <= wh
ScanGrows == wh \in 1 .. MaxHeight /\ wh' \in 1 .. MaxHeight /\ wh' >= wh

LEMMA ScanNext ==
    ASSUME SyncInv, [Next]_vars
    PROVE  ScanGrows /\ shown' \in {shown, wh}
  <1>1. wh \in 1 .. MaxHeight /\ wh' \in 1 .. MaxHeight /\ MaxHeight \in Nat
    BY SyncNext, Bounds DEF SyncInv, TypesOK, WorldOK
  <1>2. OnMoney => wh' \in wh .. MaxHeight /\ shown' = shown
    BY MoneyHandled DEF SyncInv
  <1>3. wh' = wh \/ wh' = wh + 1 \/ wh' \in wh .. MaxHeight
    BY <1>2 DEF Next, Thread, Gui, vars, DaemonStep, Tick, InitDone, StatusAnswered, RefreshStarts,
       NewBlock, TargetRaised, Money, RefreshEnds, OnStatus, OnNewBlock, OnHistory,
       OnRefreshed, GuiRaises, RefreshHandled
  <1>4. shown' \in {shown, wh}
    BY <1>2 DEF Next, Thread, Gui, vars, DaemonStep, Tick, InitDone, StatusAnswered,
       RefreshStarts, NewBlock, TargetRaised, Money, RefreshEnds, OnStatus, OnNewBlock,
       OnHistory, OnRefreshed, GuiRaises, RefreshHandled, mainVars
  <1>5. QED BY <1>1, <1>3, <1>4 DEF ScanGrows

LEMMA ShownNext == SyncInv /\ ShownIsScanned /\ [Next]_vars => ShownIsScanned'
  <1> SUFFICES ASSUME SyncInv, ShownIsScanned, [Next]_vars PROVE ShownIsScanned'
    OBVIOUS
  <1>1. shown \in Nat
    BY Bounds DEF SyncInv, TypesOK, WorldOK, Heights
  <1>2. QED BY <1>1, ScanNext, Bounds DEF ShownIsScanned, ScanGrows

\* In the end the history shows every block scanned, again and again, whatever the
\* daemon does and whatever comes in, unless the GUI thread is caught: if it never did,
\* no block would be scanned any more, the status or a rebuilding would be handled, and
\* then the mark of the missing blocks would reach onWalletRefresh.
THEOREM HistoryIsCaughtUp ==
    ASSUME SomeRoom
    PROVE  Spec /\ ThreadsGoOn /\ ScanSettles /\ QueueSettles /\ AheadSettles({"refreshed"})
                /\ AheadSettles({"status", "history"}) /\ AheadSettles({"newBlock", "history"})
              => HistoryCatchesUp
  <1> DEFINE S == {"status", "history"}
             B == {"newBlock", "history"}
             C == shown = wh
             Still == wh' = wh
             V == walletInitialized
             F == foundNewBlock
             AS == Among(S)
             AB == Among(B)
  <1>1. /\ S \in SUBSET {"status", "newBlock", "history"} /\ S \in Turns
        /\ B \in SUBSET {"status", "newBlock", "history"} /\ B \in Turns
    BY DEF Signals, Turns
  <1>2. Spec => /\ [](SyncInv /\ ShownIsScanned /\ AnsweredIsTold /\ HistoryLagIsNoted)
                /\ [][Next]_vars
    <2>1. Init => ShownIsScanned
      BY TypesInit, Bounds DEF Init, ShownIsScanned, TypesOK, WorldOK
    <2>2. Init => AnsweredIsTold
      BY DEF Init, AnsweredIsTold, Connected
    <2>3. QED
      BY <2>1, <2>2, NoBlockIsForgotten, ShownNext, ToldNext, SyncInit, SyncNext, PTL DEF Spec
  \* The wallet's height settles, and then a rebuilding would show all of it.
  <1>3. SyncInv /\ [Next]_vars => ScanGrows
    BY ScanNext
  <1>4. ScanSettles => (<>[][ScanGrows]_vars => <>[][Still]_vars)
    BY PTL DEF ScanSettles, ScanGrows
  <1>5. SyncInv /\ [Next]_vars /\ Still /\ C => C'
    BY ScanNext
  <1>6. SyncInv /\ Still => ~NewBlock
    BY Bounds DEF SyncInv, TypesOK, WorldOK, NewBlock
  <1>7. Spec => [](SyncInv /\ (Caught => []Caught))
    BY CaughtForEver, SyncInit, SyncNext, PTL DEF Spec
  <1>8. Still /\ OnHistory => C'
    BY DEF OnHistory
  <1>9. Still /\ RefreshHandled /\ F => C'
    BY DEF RefreshHandled
  \* The first status is handled.
  <1>10. AnsweredIsTold /\ Connected /\ ~V => AS
    BY DEF AnsweredIsTold, Among
  <1>11. [Next]_vars /\ V => V'
    BY DEF Next, Thread, Gui, vars, DaemonStep, Tick, InitDone, RefreshStarts, NewBlock,
       TargetRaised, Money, RefreshEnds, StatusAnswered, OnStatus, OnNewBlock, OnMoney, OnHistory,
       OnRefreshed, GuiRaises, RefreshHandled, mainVars
  <1>12. SyncInv /\ Takes(S) => OnHistory \/ V'
    BY DEF Takes, Popped, OnStatus, OnNewBlock, Handles, RefreshHandled, SyncInv, GuiBusy
  \* No block is on its way from the thread.
  <1>13. [Next]_vars /\ ~Raising => ~Raising' \/ NewBlock
    BY DEF Next, Thread, Gui, vars, DaemonStep, Tick, InitDone, StatusAnswered, RefreshStarts,
       TargetRaised, Money, RefreshEnds, OnStatus, OnNewBlock, OnMoney, OnHistory, OnRefreshed,
       GuiRaises, RefreshHandled, Outside, Raising
  \* The flag goes down only with a rebuilding.
  <1>14. SyncInv /\ [Next]_vars /\ F /\ ~RefreshHandled => F'
    <2>1. SyncInv /\ F /\ OnMoney => F'
      BY MoneyHandled DEF SyncInv
    <2>2. QED BY <2>1
       DEF Next, Thread, Gui, vars, DaemonStep, Tick, InitDone, RefreshStarts, NewBlock,
       TargetRaised, Money, RefreshEnds, StatusAnswered, OnStatus, OnNewBlock, OnHistory,
       OnRefreshed, GuiRaises, mainVars
  <1>15. SyncInv /\ ~Caught /\ ShownIsScanned /\ HistoryLagIsNoted /\ V /\ ~Raising /\ ~F
           => C \/ AB
    <2>1. SyncInv /\ ShownIsScanned /\ ~C => shown < wh
      BY Bounds DEF SyncInv, TypesOK, WorldOK, Heights, ShownIsScanned
    <2>2. QED BY <2>1 DEF HistoryLagIsNoted, Raising, Among
  <1>16. SyncInv /\ Takes(B) => OnHistory \/ F'
    BY DEF Takes, Popped, OnStatus, OnNewBlock, Handles, RefreshHandled, SyncInv, GuiBusy
  <1>17. UNCHANGED vars => /\ Still /\ (C <=> C') /\ (V <=> V') /\ (F <=> F')
                           /\ (Raising <=> Raising') /\ (Connected <=> Connected')
    BY DEF vars, mainVars, Raising, Connected
  <1>18. /\ Spec /\ []~Caught /\ ThreadsGoOn /\ AheadSettles(S) => TurnComes(S)
         /\ Spec /\ []~Caught /\ ThreadsGoOn /\ AheadSettles(B) => TurnComes(B)
         /\ Spec /\ ThreadsGoOn /\ TurnComes(S) /\ Stays(S) => OneIsHandled(S)
         /\ Spec /\ ThreadsGoOn /\ TurnComes(B) /\ Stays(B) => OneIsHandled(B)
    BY <1>1, SignalComes, TurnIsTaken
  <1> DEFINE TS == Takes(S)
             TB == Takes(B)
  <1>19. /\ (Stays(S) <=> <>[]AS) /\ (Stays(B) <=> <>[]AB)
         /\ (OneIsHandled(S) <=> []<><<TS>>_vars) /\ (OneIsHandled(B) <=> []<><<TB>>_vars)
    BY PTL DEF Stays, OneIsHandled
  <1> HIDE DEF S, B, C, Still, V, F, AS, AB, TS, TB
  <1>20. Spec /\ ScanSettles => <>[][Still]_vars
    BY <1>2, <1>3, <1>4, PTL
  <1>21. Spec /\ <>[][Still]_vars /\ ~[]<>C
           => <>[]~C /\ <>[][~OnHistory /\ ~NewBlock]_vars
    BY <1>2, <1>5, <1>6, <1>8, <1>17, PTL
  <1>22. Spec /\ []~Caught /\ ThreadsGoOn /\ AheadSettles(S) /\ <>[][~OnHistory]_vars
            => <>[]V
    BY <1>2, <1>10, <1>11, <1>12, <1>17, <1>18, <1>19, GetsConnected, PTL DEF TS
  <1>23. Spec /\ ThreadsGoOn /\ <>[][~NewBlock]_vars => <>[]~Raising
    <2>1. TargetRaised => ~Raising'
      BY DEF TargetRaised, Raising
    <2>2. QED BY <1>2, <1>13, <1>17, <2>1, PTL DEF ThreadsGoOn, TargetsAreRaised
  <1>24. Spec /\ []<><<RefreshHandled>>_vars /\ <>[][Still]_vars /\ <>[]~C => <>[]~F
    BY <1>2, <1>9, <1>14, <1>17, PTL
  <1>25. Spec /\ []~Caught /\ ThreadsGoOn /\ AheadSettles(B) /\ <>[][~OnHistory]_vars
           /\ <>[]~C /\ <>[]V /\ <>[]~Raising => ~<>[]~F
    BY <1>2, <1>15, <1>16, <1>17, <1>18, <1>19, PTL DEF TB
  <1>26. QED
    BY <1>7, <1>20, <1>21, <1>22, <1>23, <1>24, <1>25, RefreshesAreHandled, PTL
    DEF S, B, C, HistoryCatchesUp

\* While the daemon stays synced and in reach, the caches are wrong or right for good,
\* and a wrong one grows old.
InReach == up /\ dh = net /\ net > 1
HeightRight == h = net
TargetRight == t = 0 \/ t = net
HeightYoung == hAge <= HeightTtl
TargetYoung == tAge <= TargetTtl
HeightOlder == hAge \in 0 .. HeightTtl + 1 /\ hAge' \in 0 .. HeightTtl + 1 /\ hAge' >= hAge
TargetOlder == tAge \in 0 .. TargetTtl + 1 /\ tAge' \in 0 .. TargetTtl + 1 /\ tAge' >= tAge
GuiRaising == gui = "raising"

LEMMA ReachSteps ==
    ASSUME SyncInv, [Next]_vars, InReach, InReach'
    PROVE  UNCHANGED <<net, dh, up>> /\ RawHeight = net /\ RawTarget = 0
  <1>1. net \in Nat /\ dh \in Nat /\ dh <= net
    BY Numbers DEF SyncInv
  <1>2. UNCHANGED <<net, dh, up>>
    BY <1>1 DEF InReach, Next, Thread, Gui, vars, daemonVars, Outside, DaemonStep, Tick, InitDone,
       StatusAnswered, RefreshStarts, NewBlock, TargetRaised, Money, RefreshEnds, OnStatus,
       OnNewBlock, OnMoney, OnHistory, OnRefreshed, GuiRaises, RefreshHandled
  <1>3. QED BY <1>1, <1>2 DEF InReach, RawHeight, RawTarget

\* A tick makes a cache older that has not outlived its time.
LEMMA TickAges ==
    ASSUME SyncInv, Tick
    PROVE  /\ hAge' >= hAge /\ (HeightYoung => hAge' # hAge)
           /\ tAge' >= tAge /\ (TargetYoung => tAge' # tAge)
  <1>1. hAge \in Nat /\ tAge \in Nat
    BY Numbers DEF SyncInv
  <1>2. hAge' = Older(hAge, HeightTtl) /\ tAge' = Older(tAge, TargetTtl)
    BY DEF Tick
  <1>3. QED BY <1>1, <1>2, Bounds DEF Older, HeightYoung, TargetYoung

LEMMA HeightSteps ==
    ASSUME SyncInv, [Next]_vars, InReach, InReach'
    PROVE  /\ HeightRight => HeightRight'
           /\ OnRefreshed /\ ~HeightYoung => HeightRight'
           /\ ~HeightRight' => HeightOlder
  <1>1. net' = net /\ RawHeight = net
    BY ReachSteps
  <1>2. hAge \in 0 .. HeightTtl + 1 /\ hAge' \in 0 .. HeightTtl + 1 /\ hAge \in Nat
    BY SyncNext, Bounds DEF SyncInv, TypesOK, CacheOK
  <1>3. CASE OnRefreshed
    <2>1. DaemonBlockChainHeight
      BY <1>3 DEF OnRefreshed
    <2>2. h' = RawHeight \/ (~(hAge > HeightTtl) /\ h' = h /\ hAge' = hAge)
      BY <2>1 DEF DaemonBlockChainHeight
    <2>3. QED BY <1>1, <1>2, <2>2, Bounds DEF HeightRight, HeightYoung, HeightOlder
  <1>4. CASE Tick
    <2>1. h' = h /\ hAge' >= hAge /\ ~OnRefreshed
      BY <1>4, TickAges DEF Tick, OnRefreshed, Handles
    <2>2. QED BY <1>1, <1>2, <2>1 DEF HeightRight, HeightOlder
  <1>5. CASE h' = h /\ hAge' = hAge /\ ~OnRefreshed
    BY <1>1, <1>2, <1>5 DEF HeightRight, HeightOlder
  <1>6. OnRefreshed \/ Tick \/ (h' = h /\ hAge' = hAge)
    <2>1. OnMoney => h' = h /\ hAge' = hAge
      BY MoneyHandled DEF SyncInv
    <2>2. QED BY <2>1 DEF Next, Thread, Gui, vars, cacheVars, DaemonStep, InitDone,
       StatusAnswered, RefreshStarts, NewBlock, TargetRaised, Money, RefreshEnds, OnStatus,
       OnNewBlock, OnHistory, GuiRaises, RefreshHandled
  <1>7. QED BY <1>3, <1>4, <1>5, <1>6

LEMMA TargetSteps ==
    ASSUME SyncInv, [Next]_vars, InReach, InReach', HeightRight, ~Raising
    PROVE  /\ TargetRight => TargetRight'
           /\ OnRefreshed /\ ~TargetYoung => TargetRight'
           /\ ~TargetRight' /\ ~GuiRaising => ~GuiRaising' /\ TargetOlder
  <1>1. net' = net /\ RawTarget = 0
    BY ReachSteps
  <1>2. tAge \in 0 .. TargetTtl + 1 /\ tAge' \in 0 .. TargetTtl + 1 /\ tAge \in Nat
    BY SyncNext, Bounds DEF SyncInv, TypesOK, CacheOK
  <1>3. CASE AskTarget
    BY <1>1, <1>3 DEF AskTarget, TargetRight
  <1>4. CASE GuiRaises
    <2>1. GuiRaising /\ t' = (IF t < h THEN h ELSE t) /\ ~OnRefreshed
      BY <1>4 DEF GuiRaises, GuiRaising, RaiseTarget, Raised, OnRefreshed, Handles
    <2>2. t \in Nat /\ h \in Nat /\ net \in Nat
      BY Numbers DEF SyncInv
    <2>3. QED BY <1>1, <2>1, <2>2 DEF TargetRight, HeightRight
  <1>5. CASE Tick
    <2>1. t' = t /\ tAge' >= tAge /\ gui' = gui /\ ~OnRefreshed
      BY <1>5, TickAges DEF Tick, OnRefreshed, Handles
    <2>2. QED BY <1>1, <1>2, <2>1 DEF TargetRight, TargetOlder, GuiRaising
  <1>6. CASE KeepTarget /\ (~GuiRaising => ~GuiRaising')
    BY <1>1, <1>2, <1>6, Bounds
    DEF KeepTarget, TargetStale, TargetRight, TargetOlder, TargetYoung
  <1>7. CASE t' = t /\ tAge' = tAge /\ (~GuiRaising => ~GuiRaising') /\ ~OnRefreshed
    BY <1>1, <1>2, <1>7 DEF TargetRight, TargetOlder
  <1>8. CASE OnRefreshed
    <2>1. AskTarget \/ (KeepTarget /\ (~GuiRaising => ~GuiRaising'))
      BY <1>8 DEF OnRefreshed, GuiRaising
    <2>2. QED BY <1>3, <1>6, <2>1
  <1>9. CASE NewBlock
    <2>1. AskTarget \/ (KeepTarget /\ (~GuiRaising => ~GuiRaising'))
      BY <1>9 DEF NewBlock, GuiRaising
    <2>2. QED BY <1>3, <1>6, <2>1
  <1>10. CASE OnMoney
    <2>1. ~OnRefreshed /\ (~GuiRaising => ~GuiRaising')
      BY <1>10, MoneyHandled DEF SyncInv, OnRefreshed, Handles, GuiRaising
    <2>2. CASE UNCHANGED <<t, tAge>>
      BY <1>7, <2>1, <2>2
    <2>3. CASE t' = Raised(RawTarget)
      <3>1. h \in Nat /\ h = net
        BY Numbers DEF SyncInv, HeightRight
      <3>2. t' = 0 \/ t' = h
        BY <1>1, <2>3 DEF Raised
      <3>3. QED BY <1>1, <2>1, <3>1, <3>2 DEF TargetRight
    <2>4. QED BY <1>10, <2>2, <2>3, MoneyHandled DEF SyncInv
  <1>11. ~TargetRaised
    BY DEF TargetRaised, Raising
  <1>12. \/ GuiRaises \/ Tick \/ OnRefreshed \/ NewBlock \/ OnMoney
         \/ t' = t /\ tAge' = tAge /\ (~GuiRaising => ~GuiRaising')
    BY <1>11 DEF Next, Thread, Gui, vars, cacheVars, DaemonStep, InitDone, StatusAnswered,
       RefreshStarts, Money, RefreshEnds, OnStatus, OnNewBlock, OnHistory,
       RefreshHandled, GuiRaising
  <1>13. QED BY <1>4, <1>5, <1>7, <1>8, <1>9, <1>12, <1>10

\* With both caches right, onWalletRefresh takes the daemon for synced.
LEMMA SyncedSteps ==
    ASSUME SyncInv, [Next]_vars
    PROVE  /\ RefreshHandled /\ InReach /\ HeightRight /\ TargetRight => daemonSynced'
           /\ daemonSynced /\ ~RefreshHandled => daemonSynced'
  <1>1. net \in Nat /\ h \in Nat /\ t \in Nat
    BY Numbers DEF SyncInv
  <1>2. ASSUME RefreshHandled, InReach, HeightRight, TargetRight PROVE daemonSynced'
    <2>1. h >= t /\ t # 1
      BY <1>1, <1>2 DEF InReach, HeightRight, TargetRight
    <2>2. QED BY <1>2, <2>1 DEF RefreshHandled
  <1>3. ~RefreshHandled => daemonSynced' = daemonSynced
    <2>1. OnMoney => daemonSynced' = daemonSynced
      BY MoneyHandled DEF SyncInv
    <2>2. QED BY <2>1 DEF Next, Thread, Gui, vars, mainVars, DaemonStep, Tick, InitDone,
       StatusAnswered, RefreshStarts, NewBlock, TargetRaised, Money, RefreshEnds, OnStatus,
       OnNewBlock, OnHistory, OnRefreshed, GuiRaises
  <1>4. QED BY <1>2, <1>3

\* A daemon that stays synced and in reach is taken for synced in the end, unless the GUI
\* thread is caught: no block is scanned any more, a cached height or target that is wrong is
\* not renewed and so outlives its time, the next refresh asks again and gets the right one,
\* which no later answer changes, and from then on every refresh finds the daemon synced.
THEOREM SyncedIsSeen ==
    ASSUME SomeRoom
    PROVE  Spec /\ ThreadsGoOn /\ TimePasses /\ ScanSettles /\ QueueSettles
                /\ AheadSettles({"refreshed"}) /\ HeightAges /\ TargetAges
              => SyncedInTheEnd
  <1> DEFINE I == gui = "idle"
             D == gui = "deciding"
             Still == wh' = wh
             HeightStays == hAge' = hAge
             TargetStays == tAge' = tAge
             DS == daemonSynced
  <1>1. Spec => []SyncInv /\ [][Next]_vars
    BY SyncInit, SyncNext, PTL DEF Spec
  <1>2. UNCHANGED vars
           => /\ (I <=> I') /\ (D <=> D') /\ Still /\ HeightStays /\ TargetStays /\ (DS <=> DS')
              /\ (Raising <=> Raising') /\ (GuiRaising <=> GuiRaising')
              /\ (InReach <=> InReach') /\ (HeightRight <=> HeightRight')
              /\ (TargetRight <=> TargetRight') /\ (HeightYoung <=> HeightYoung')
              /\ (TargetYoung <=> TargetYoung')
    BY DEF vars, mainVars, daemonVars, cacheVars, Raising, GuiRaising, InReach, HeightRight,
       TargetRight, HeightYoung, TargetYoung
  \* The scan settles, and the thread asks for no target any more.
  <1>3. SyncInv /\ [Next]_vars => ScanGrows
    BY ScanNext
  <1>4. ScanSettles => (<>[][ScanGrows]_vars => <>[][Still]_vars)
    BY PTL DEF ScanSettles, ScanGrows
  <1>5. SyncInv /\ Still => ~NewBlock
    BY Bounds DEF SyncInv, TypesOK, WorldOK, NewBlock
  <1>6. [Next]_vars /\ ~Raising => ~Raising' \/ NewBlock
    BY DEF Next, Thread, Gui, vars, DaemonStep, Tick, InitDone, StatusAnswered, RefreshStarts,
       TargetRaised, Money, RefreshEnds, OnStatus, OnNewBlock, OnMoney, OnHistory, OnRefreshed,
       GuiRaises, RefreshHandled, Outside, Raising
  <1>7. TargetRaised => ~Raising'
    BY DEF TargetRaised, Raising
  \* Refreshes are asked about the heights again and again.
  <1>8. FreeInv /\ FreeInv' /\ [Next]_vars
           => (RefreshHandled => D /\ I') /\ (I /\ ~OnRefreshed => I')
    <2>1. FreeInv' /\ OnMoney => I'
      BY DEF OnMoney, Handles, FreeInv, Caught
    <2>2. QED BY <2>1, GuiSteps DEF Next, Thread, Gui, vars, DaemonStep, Tick, InitDone,
       StatusAnswered, RefreshStarts, NewBlock, TargetRaised, Money, RefreshEnds, OnStatus,
       OnNewBlock, OnHistory, GuiRaises, RefreshHandled
  <1>9. D => ~I
    OBVIOUS
  <1>10. ~Raising /\ I /\ (HeightYoung \/ TargetYoung) => CanAge
    BY DEF CanAge, HeightYoung, TargetYoung
  \* The caches.
  <1>11. SyncInv /\ [Next]_vars /\ InReach /\ InReach'
           => /\ HeightRight => HeightRight'
              /\ OnRefreshed /\ ~HeightYoung => HeightRight'
              /\ ~HeightRight' => HeightOlder
    BY HeightSteps
  <1>12. SyncInv /\ [Next]_vars /\ InReach /\ InReach' /\ HeightRight /\ ~Raising
           => /\ TargetRight => TargetRight'
              /\ OnRefreshed /\ ~TargetYoung => TargetRight'
              /\ ~TargetRight' /\ ~GuiRaising => ~GuiRaising' /\ TargetOlder
    BY TargetSteps
  <1>13. HeightAges => (<>[][HeightOlder]_vars => <>[][HeightStays]_vars)
    BY PTL DEF HeightAges, HeightOlder
  <1>14. TargetAges => (<>[][TargetOlder]_vars => <>[][TargetStays]_vars)
    BY PTL DEF TargetAges, TargetOlder
  <1>15. /\ HeightStays => (HeightYoung <=> HeightYoung')
         /\ TargetStays => (TargetYoung <=> TargetYoung')
    BY DEF HeightYoung, TargetYoung
  <1>16. SyncInv /\ Tick => (HeightYoung => ~HeightStays) /\ (TargetYoung => ~TargetStays)
    BY TickAges
  <1>17. I => ~GuiRaising
    BY DEF GuiRaising
  <1>18. SyncInv /\ [Next]_vars
           => /\ RefreshHandled /\ InReach /\ HeightRight /\ TargetRight => DS'
              /\ DS /\ ~RefreshHandled => DS'
    BY SyncedSteps
  <1> HIDE DEF I, D, Still, HeightStays, TargetStays, DS
  <1>19. Spec /\ ThreadsGoOn /\ ScanSettles => <>[]~Raising
    <2>1. Spec /\ ScanSettles => <>[][~NewBlock]_vars
      BY <1>1, <1>3, <1>4, <1>5, PTL
    <2>2. Spec /\ ThreadsGoOn /\ <>[][~NewBlock]_vars => <>[]~Raising
      BY <1>1, <1>2, <1>6, <1>7, PTL DEF ThreadsGoOn, TargetsAreRaised
    <2>3. QED BY <2>1, <2>2, PTL
  <1>20. Spec /\ []~Caught /\ []<><<RefreshHandled>>_vars
           => []<>I /\ []<><<OnRefreshed>>_vars
    BY <1>1, <1>2, <1>8, <1>9, PTL DEF FreeInv
  <1>21. Spec /\ TimePasses /\ HeightAges /\ []<>I /\ []<><<OnRefreshed>>_vars /\ <>[]~Raising
           /\ <>[]InReach => <>[]HeightRight
    BY <1>1, <1>2, <1>10, <1>11, <1>13, <1>15, <1>16, PTL DEF TimePasses
  <1>22. Spec /\ TimePasses /\ TargetAges /\ []<>I /\ []<><<OnRefreshed>>_vars /\ <>[]~Raising
           /\ <>[]InReach /\ <>[]HeightRight => <>[]TargetRight
    BY <1>1, <1>2, <1>10, <1>12, <1>14, <1>15, <1>16, <1>17, PTL DEF TimePasses
  <1>23. Spec /\ []<><<RefreshHandled>>_vars /\ <>[]InReach /\ <>[]HeightRight /\ <>[]TargetRight
           => <>[]DS
    BY <1>1, <1>2, <1>18, PTL
  <1>24. Spec => [](Caught => []Caught)
    BY <1>1, CaughtForEver, PTL
  <1>25. QED
    BY <1>19, <1>20, <1>21, <1>22, <1>23, <1>24, RefreshesAreHandled, PTL
    DEF SyncedInTheEnd, InReach, DS

\* Both from the fairness of the specification, where the guards suffice.
THEOREM HistoryIsCaughtUpInTheEnd ==
    ASSUME SomeRoom
    PROVE  FairSpec /\ []GuardsSuffice /\ ScanSettles /\ QueueSettles
                /\ AheadSettles({"refreshed"}) /\ AheadSettles({"status", "history"})
                /\ AheadSettles({"newBlock", "history"})
              => HistoryCatchesUp
  BY FairThreadsGoOn, HistoryIsCaughtUp, PTL

THEOREM SyncedIsSeenInTheEnd ==
    ASSUME SomeRoom
    PROVE  FairSpec /\ []GuardsSuffice /\ ScanSettles /\ QueueSettles
                /\ AheadSettles({"refreshed"}) /\ HeightAges /\ TargetAges
              => SyncedInTheEnd
  BY FairThreadsGoOn, SyncedIsSeen, PTL
=============================================================================
