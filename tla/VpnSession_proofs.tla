-------------------------- MODULE VpnSession_proofs --------------------------
(***************************************************************************)
(* Theorems about VpnSession, for any prepaid periods, any margin, any     *)
(* offer of providers and any bounds.                                      *)
(***************************************************************************)
EXTENDS VpnSession, TLAPS

\* The invariant behind all of them: the types, TimerFollowsFlag, and
\*  - a time left that is defined is not negative, and a timer that runs without
\*    one waits for the first payment;
\*  - only the timer of a VPN reads messages;
\*  - whoever may still ask for a first payment, the session or the settings it
\*    will be resumed from, has not asked yet;
\*  - the bound on the prepaid time holds of the session and of the settings.
TimeKnown ==
    /\ timeLeft = Undefined \/ timeLeft \in Nat
    /\ timeLeft = Undefined /\ timerRunning => firstPayment = 1

VpnReads == pc = "reading" => obj = "vpn"

NotYetAsked ==
    /\ firsts <= 1
    /\ firstPayment = 1 => firsts = 0
    /\ firstPaymentTimeLeft = 1 => firsts = 0

WithinBound ==
    \/ timeLeft <= now + First + Subsequent
    \/ timeLeft <= now + Margin + 2 * Subsequent

Prepaid ==
    timeLeft # Undefined =>
        /\ obj = "proxy" /\ firstPayment = 0 => WithinBound
        /\ objTimeLeft = "proxy" /\ firstPaymentTimeLeft = 0 => WithinBound

SessionInv ==
    TypeOK /\ TimerFollowsFlag /\ TimeKnown /\ VpnReads /\ NotYetAsked /\ Prepaid

\* The flags of TypeOK, and the rest of it.
FlagsOK ==
    /\ autoRenew \in BOOLEAN /\ proxyStats \in BOOLEAN
    /\ loader \in BOOLEAN /\ timerRunning \in BOOLEAN
    /\ haproxy \in BOOLEAN /\ lthnvpnc \in BOOLEAN
    /\ verifying \in BOOLEAN /\ stats \in BOOLEAN /\ connecting \in BOOLEAN /\ paying \in BOOLEAN

DataOK ==
    /\ now \in 0 .. MaxTime
    /\ offered \in Offers /\ wallet \in BOOLEAN
    /\ timeLeft \in Int /\ start \in Int
    /\ objTimeLeft \in Kinds \cup {"none"} /\ obj \in Kinds \cup {"none"}
    /\ flagTimeLeft \in 0 .. 1 /\ firstPaymentTimeLeft \in 0 .. 1
    /\ flag \in 0 .. 1 /\ firstPayment \in 0 .. 1 /\ callProxy \in 0 .. 1
    /\ pc \in {"idle", "reading", "renewing"}
    /\ m_haproxyStatus \in Answers \cup {NoStatus}
    /\ m_statusMsg \in Seq(Messages)
    /\ lines \in 0 .. MaxLines
    /\ restarts \in 0 .. MaxRestarts
    /\ firsts \in Nat
    /\ refused \in {"no", "yes", "paid"}

LEMMA TypeParts == /\ TypeOK <=> FlagsOK /\ DataOK
                   /\ TypeOK' <=> FlagsOK' /\ DataOK'
  BY DEF TypeOK, FlagsOK, DataOK

LEMMA ConstantFacts ==
    /\ First \in Nat \ {0} /\ Subsequent \in Nat \ {0} /\ Margin \in Nat
    /\ MaxTime \in Nat /\ MaxLines \in Nat /\ MaxRestarts \in Nat
    /\ \A kinds \in Offers : kinds \subseteq Kinds
  BY SessionAssumption DEF SessionAssumption

LEMMA InvInit == Init => SessionInv
  <1>1. SUFFICES ASSUME Init PROVE SessionInv
    OBVIOUS
  <1>2. \A k \in offered : k \in Kinds
    BY <1>1, ConstantFacts DEF Init
  <1>3. TypeOK /\ TimerFollowsFlag
    <2>1. /\ timeLeft \in Int /\ firsts \in Nat
          /\ objTimeLeft \in Kinds \cup {"none"}
          /\ flagTimeLeft \in 0 .. 1 /\ firstPaymentTimeLeft \in 0 .. 1
      <3>1. CASE NewInstallation
        BY <3>1 DEF NewInstallation, Undefined
      <3>2. CASE EarlierSession
        BY <1>2, <3>2, ConstantFacts DEF EarlierSession
      <3>3. QED BY <1>1, <3>1, <3>2 DEF Init
    <2>2. now \in 0 .. MaxTime /\ lines \in 0 .. MaxLines /\ restarts \in 0 .. MaxRestarts
      BY <1>1, ConstantFacts DEF Init
    <2>3. m_statusMsg \in Seq(Messages)
      BY <1>1 DEF Init
    <2>4. /\ offered \in Offers /\ start \in Int
          /\ obj \in Kinds \cup {"none"} /\ flag \in 0 .. 1 /\ firstPayment \in 0 .. 1
          /\ callProxy \in 0 .. 1 /\ pc \in {"idle", "reading", "renewing"}
          /\ m_haproxyStatus \in Answers \cup {NoStatus}
          /\ refused \in {"no", "yes", "paid"}
      BY <1>1 DEF Init
    <2>5. /\ wallet \in BOOLEAN /\ autoRenew \in BOOLEAN
          /\ proxyStats \in BOOLEAN /\ loader \in BOOLEAN /\ timerRunning \in BOOLEAN
          /\ haproxy \in BOOLEAN /\ lthnvpnc \in BOOLEAN /\ verifying \in BOOLEAN
          /\ stats \in BOOLEAN /\ connecting \in BOOLEAN /\ paying \in BOOLEAN
      BY <1>1 DEF Init
    <2>6. TypeOK
      BY <2>1, <2>2, <2>3, <2>4, <2>5 DEF TypeOK
    <2>7. QED BY <1>1, <2>6 DEF Init, TimerFollowsFlag
  <1>4. TimeKnown /\ VpnReads /\ NotYetAsked /\ Prepaid
    BY <1>1, <1>2, ConstantFacts
    DEF Init, NewInstallation, EarlierSession, TimeKnown, VpnReads, NotYetAsked, Prepaid,
        WithinBound, Undefined, Kinds
  <1>5. QED BY <1>3, <1>4 DEF SessionInv

-----------------------------------------------------------------------------
(* changeStatus. *)

LEMMA SwitchedOff ==
    ASSUME ChangeStatus(0)
    PROVE  /\ flag' = 0 /\ timerRunning' = FALSE /\ loader' = FALSE
           /\ TimerFollowsFlag'
  <1>1. flag' = 0 /\ ~(0 = 1)
    BY DEF ChangeStatus
  <1>2. timerRunning' = FALSE /\ loader' = FALSE
    BY <1>1 DEF ChangeStatus
  <1>3. QED BY <1>1, <1>2 DEF TimerFollowsFlag

LEMMA SwitchedOn ==
    ASSUME ChangeStatus(1)
    PROVE  /\ flag' = 1 /\ timerRunning' = TRUE /\ loader' = TRUE
           /\ TimerFollowsFlag'
  BY DEF ChangeStatus, TimerFollowsFlag

-----------------------------------------------------------------------------
(* setPayment. *)

LEMMA CloseType ==
    ASSUME TypeOK, CloseProxyClient
    PROVE  /\ haproxy' \in BOOLEAN /\ lthnvpnc' \in BOOLEAN
           /\ m_haproxyStatus' \in Answers \cup {NoStatus}
  BY DEF TypeOK, CloseProxyClient, KillHAproxy, proxyVars

\* What a change of status does to the page.
Page(f) == flag' = f /\ timerRunning' = (f = 1) /\ loader' = (f = 1)

LEMMA AskPaymentEffect ==
    ASSUME TypeOK, AskPayment \/ AskNothing
    PROVE  /\ firstPayment' \in 0 .. firstPayment
           /\ firstPaymentTimeLeft' = firstPayment'
           /\ paying' \in BOOLEAN
           /\ firsts' = firsts + (firstPayment - firstPayment')
           /\ refused' \in {"no", "yes", "paid"}
  <1>1. CASE AskPayment
    BY <1>1 DEF TypeOK, AskPayment
  <1>2. CASE AskNothing
    BY <1>2 DEF TypeOK, AskNothing, history
  <1>3. QED BY <1>1, <1>2

\* The payment itself, after the time was added: at most the first payment is
\* asked for, and the page agrees with the flag.
PaymentEffect ==
    /\ firstPayment' \in 0 .. firstPayment
    /\ firstPaymentTimeLeft' = firstPayment'
    /\ paying' \in BOOLEAN
    /\ firsts' = firsts + (firstPayment - firstPayment')
    /\ refused' \in {"no", "yes", "paid"}
    /\ callProxy' \in 0 .. 1
    /\ \/ \E f \in 0 .. 1 : Page(f)
       \/ UNCHANGED page
    /\ haproxy' \in BOOLEAN /\ lthnvpnc' \in BOOLEAN
    /\ m_haproxyStatus' \in Answers \cup {NoStatus}

LEMMA RefusedEffect ==
    ASSUME TypeOK, PaymentRefused PROVE PaymentEffect
  <1>1. CloseProxyClient /\ Page(0)
    BY DEF PaymentRefused, ChangeStatus, Page
  <1>2. QED
    BY <1>1, CloseType DEF PaymentRefused, PaymentEffect, TypeOK, history

LEMMA PayVpnEffect ==
    ASSUME TypeOK, PayVpn PROVE PaymentEffect
  <1>1. AskPayment
    BY DEF PayVpn
  <1>2. \/ \E f \in 0 .. 1 : Page(f)
        \/ UNCHANGED page
    BY DEF PayVpn, TypeOK, ChangeStatus, Page
  <1>3. QED
    BY <1>1, <1>2, AskPaymentEffect DEF PayVpn, PaymentEffect, TypeOK, proxyVars

LEMMA PayProxyEffect ==
    ASSUME TypeOK, PayProxy PROVE PaymentEffect
  <1>1. PICK launch \in Launches :
          LET st == StatusAfter(launch)
              started == callProxy = 1 => launch = "started"
          IN  /\ callProxy' = 0
              /\ IF st \in {"OK", "NO_PAYMENT"} THEN AskPayment ELSE AskNothing
              /\ IF st \in {"OK", "NO_PAYMENT", "READY"}
                 THEN /\ haproxy' = UpAfter(launch) /\ m_haproxyStatus' = st
                      /\ IF callProxy = 1
                         THEN ChangeStatus(IF started THEN flag ELSE 0)
                         ELSE UNCHANGED page
                 ELSE KillHAproxy /\ ChangeStatus(0)
              /\ UNCHANGED lthnvpnc
    BY DEF PayProxy, Launches
  <1>2. StatusAfter(launch) \in Answers \cup {NoStatus} /\ UpAfter(launch) \in BOOLEAN
    BY DEF StatusAfter, UpAfter, TypeOK, Answers
  <1>3. AskPayment \/ AskNothing
    BY <1>1
  <1>4. \/ \E f \in 0 .. 1 : Page(f)
        \/ UNCHANGED page
    BY <1>1 DEF TypeOK, ChangeStatus, Page
  <1>5. haproxy' \in BOOLEAN /\ m_haproxyStatus' \in Answers \cup {NoStatus}
    BY <1>1, <1>2 DEF KillHAproxy
  <1>6. QED
    BY <1>1, <1>3, <1>4, <1>5, AskPaymentEffect DEF PaymentEffect, TypeOK

\* The time setPayment adds.
LEMMA TimeAdded ==
    ASSUME SessionInv, Prepay, firstPayment = 1 \/ timeLeft # Undefined
    PROVE  /\ start' \in Int
           /\ timeLeft' \in Nat
           /\ firstPayment = 1 => timeLeft' <= now + First + Subsequent
           /\ firstPayment = 0 => timeLeft' <= timeLeft + 2 * Subsequent
  BY ConstantFacts DEF SessionInv, TypeOK, TimeKnown, Prepay, Begun, Undefined

LEMMA ThrowEffect ==
    ASSUME TypeOK, SetPaymentThrows PROVE PaymentEffect
  <1>1. AskNothing
    BY DEF SetPaymentThrows
  <1>2. QED
    BY <1>1, AskPaymentEffect DEF SetPaymentThrows, PaymentEffect, TypeOK, proxyVars

LEMMA PaymentDone ==
    ASSUME TypeOK, SetPayment \/ SetPaymentThrows
    PROVE  Prepay /\ PaymentEffect /\ objTimeLeft' = obj /\ flagTimeLeft' = flag
  <1>1. PaymentEffect
    BY RefusedEffect, PayVpnEffect, PayProxyEffect, ThrowEffect DEF SetPayment
  <1>2. Prepay
    BY DEF SetPayment, SetPaymentThrows
  <1>3. QED BY <1>1, <1>2 DEF Prepay

\* What every caller of setPayment needs of it.
LEMMA SetPaymentStep ==
    ASSUME SessionInv, SetPayment \/ SetPaymentThrows,
           firstPayment = 1 \/ timeLeft # Undefined,
           obj = "proxy" /\ firstPayment = 0 => timeLeft <= now + Margin,
           UNCHANGED <<world, obj>>
    PROVE  /\ start' \in Int /\ timeLeft' \in Nat
           /\ objTimeLeft' \in Kinds \cup {"none"} /\ flagTimeLeft' \in 0 .. 1
           /\ firstPaymentTimeLeft' \in 0 .. 1 /\ firstPayment' \in 0 .. 1
           /\ callProxy' \in 0 .. 1 /\ paying' \in BOOLEAN
           /\ firsts' \in Nat /\ refused' \in {"no", "yes", "paid"}
           /\ haproxy' \in BOOLEAN /\ lthnvpnc' \in BOOLEAN
           /\ m_haproxyStatus' \in Answers \cup {NoStatus}
           /\ flag' \in 0 .. 1 /\ loader' \in BOOLEAN /\ timerRunning' \in BOOLEAN
           /\ TimerFollowsFlag' /\ TimeKnown' /\ NotYetAsked' /\ Prepaid'
  <1>1. Prepay /\ PaymentEffect /\ objTimeLeft' = obj /\ flagTimeLeft' = flag
    BY PaymentDone DEF SessionInv
  <1>2. /\ start' \in Int /\ timeLeft' \in Nat
        /\ firstPayment = 1 => timeLeft' <= now + First + Subsequent
        /\ firstPayment = 0 => timeLeft' <= timeLeft + 2 * Subsequent
    BY <1>1, TimeAdded
  <1>3. /\ firstPaymentTimeLeft' \in 0 .. 1 /\ firstPayment' \in 0 .. 1
        /\ firsts' \in Nat /\ NotYetAsked'
    <2>1. /\ firstPayment' \in 0 .. firstPayment /\ firstPaymentTimeLeft' = firstPayment'
          /\ firsts' = firsts + (firstPayment - firstPayment')
      BY <1>1 DEF PaymentEffect
    <2>2. /\ firstPayment \in 0 .. 1 /\ firsts \in Nat /\ firsts <= 1
          /\ firstPayment = 1 => firsts = 0
      BY DEF SessionInv, TypeOK, NotYetAsked
    <2>3. firstPayment' \in Int /\ firstPayment' <= firstPayment /\ firstPayment' >= 0
      BY <2>1, <2>2
    <2>4. CASE firstPayment = 0
      <3>1. firstPayment' = 0 /\ firsts' = firsts
        BY <2>1, <2>2, <2>3, <2>4
      <3>2. QED BY <2>1, <2>2, <3>1 DEF NotYetAsked
    <2>5. CASE firstPayment = 1 /\ firstPayment' = 0
      <3>1. firsts' = 1
        BY <2>1, <2>2, <2>5
      <3>2. QED BY <2>1, <2>5, <3>1 DEF NotYetAsked
    <2>6. CASE firstPayment = 1 /\ firstPayment' = 1
      <3>1. firsts' = 0
        BY <2>1, <2>2, <2>6
      <3>2. QED BY <2>1, <2>6, <3>1 DEF NotYetAsked
    <2>7. QED BY <2>2, <2>3, <2>4, <2>5, <2>6
  <1>4. /\ flag' \in 0 .. 1 /\ loader' \in BOOLEAN /\ timerRunning' \in BOOLEAN
        /\ TimerFollowsFlag'
    <2>1. CASE \E f \in 0 .. 1 : Page(f)
      BY <2>1 DEF Page, TimerFollowsFlag
    <2>2. CASE UNCHANGED page
      BY <2>2 DEF page, SessionInv, TypeOK, TimerFollowsFlag
    <2>3. QED BY <1>1, <2>1, <2>2 DEF PaymentEffect
  <1>5. TimeKnown'
    BY <1>2 DEF TimeKnown, Undefined
  <1>6. Prepaid'
    <2>1. CASE obj = "proxy"
      <3>1. timeLeft' <= now + First + Subsequent \/ timeLeft' <= now + Margin + 2 * Subsequent
        <4>1. CASE firstPayment = 1
          BY <1>2, <4>1
        <4>2. CASE firstPayment = 0
          BY <1>2, <2>1, <4>2, ConstantFacts DEF SessionInv, TypeOK
        <4>3. QED BY <4>1, <4>2 DEF SessionInv, TypeOK
      <3>2. QED BY <3>1 DEF Prepaid, WithinBound, world
    <2>2. CASE obj # "proxy"
      BY <1>1, <2>2 DEF Prepaid
    <2>3. QED BY <2>1, <2>2
  <1>7. QED
    BY <1>1, <1>2, <1>3, <1>4, <1>5, <1>6 DEF PaymentEffect, SessionInv, TypeOK
-----------------------------------------------------------------------------
(* The steps. *)

\* timer() of a VPN, and of a proxy by its status.
LEMMA TimerVpnStep ==
    ASSUME SessionInv, TimerOfVpn, UNCHANGED <<world, autoRenew, connecting, log>>
    PROVE  SessionInv'
  <1>1. start' \in Int
    BY DEF TimerOfVpn, SessionInv, TypeOK, Begun
  <1>2. TypeOK'
    BY <1>1 DEF TimerOfVpn, SessionInv, TypeOK, world, log, page, session, proxyVars,
                requests, history
  <1>3. QED
    BY <1>2 DEF TimerOfVpn, SessionInv, TimerFollowsFlag, TimeKnown, VpnReads, NotYetAsked,
                Prepaid, WithinBound, world, page, session, history

LEMMA TimerProxyStep ==
    ASSUME SessionInv, TimerOfProxy, UNCHANGED <<world, autoRenew, connecting, log>>
    PROVE  SessionInv'
  <1>1. obj = "proxy" /\ verifying' \in BOOLEAN
    BY DEF TimerOfProxy, StartVerify, SessionInv, TypeOK
  <1>2. Begun \in Int
    BY DEF SessionInv, TypeOK, Begun
  <1>3. CASE StatusOK
    <2>1. pc' \in {"renewing", "idle"}
      BY <1>3 DEF StatusOK, Reported
    <2>2. FlagsOK'
      BY <1>1, <1>3, TypeParts DEF StatusOK, SessionInv, FlagsOK, proxyVars
    <2>3. DataOK'
      BY <1>1, <1>2, <1>3, <2>1, TypeParts
      DEF StatusOK, SessionInv, DataOK, world, log, session, proxyVars, history
    <2>4. QED
      BY <1>3, <2>1, <2>2, <2>3, TypeParts
      DEF StatusOK, SessionInv, TimerFollowsFlag, TimeKnown, VpnReads, NotYetAsked, Prepaid,
          WithinBound, world, session, history
  <1>4. CASE StatusConnectionError
    <2>1. stats' \in BOOLEAN
      BY <1>4 DEF StatusConnectionError, AskStats, SessionInv, TypeOK
    <2>2. flag' = 0 /\ timerRunning' = FALSE /\ loader' = FALSE /\ TimerFollowsFlag'
      BY <1>4, SwitchedOff DEF StatusConnectionError
    <2>3. FlagsOK'
      BY <1>1, <1>4, <2>1, <2>2, TypeParts
      DEF StatusConnectionError, KillHAproxy, SessionInv, FlagsOK
    <2>4. DataOK'
      BY <1>1, <1>2, <1>4, <2>1, <2>2, TypeParts
      DEF StatusConnectionError, KillHAproxy, SessionInv, DataOK, world, log, session, history
    <2>5. QED
      BY <1>4, <2>2, <2>3, <2>4, TypeParts
      DEF StatusConnectionError, SessionInv, TimeKnown, VpnReads, NotYetAsked, Prepaid,
          WithinBound, world, session, history
  <1>5. CASE StatusToPay
    <2>1. /\ SetPayment \/ SetPaymentThrows
          /\ firstPayment = 1 /\ UNCHANGED <<obj, proxyStats, stats>>
          /\ pc' \in {"renewing", "idle"}
      BY <1>5 DEF StatusToPay
    <2>2. UNCHANGED <<world, obj>>
      BY <2>1
    <2>3. QED
      BY <1>1, <2>1, <2>2, SetPaymentStep DEF SessionInv, TypeOK, VpnReads, world, log
  <1>6. CASE StatusIgnored
    <2>1. TypeOK'
      BY <1>1, <1>2, <1>6
      DEF StatusIgnored, SessionInv, TypeOK, world, log, page, session, proxyVars, history
    <2>2. QED
      BY <1>6, <2>1 DEF StatusIgnored, SessionInv, TimerFollowsFlag, TimeKnown, VpnReads,
                        NotYetAsked, Prepaid, WithinBound, world, page, session, history
  <1>7. QED BY <1>3, <1>4, <1>5, <1>6 DEF TimerOfProxy

\* The message loop.
LEMMA ReadStep ==
    ASSUME SessionInv, ReadMessage PROVE SessionInv'
  <1>1. m_statusMsg' \in Seq(Messages) /\ obj = "vpn" /\ obj' = obj
    BY DEF ReadMessage, SessionInv, TypeOK, VpnReads
  <1>2. CASE NeedPayment
    <2>1. CASE firstPayment = 0 /\ timeLeft = Undefined
      <3>1. /\ pc' = "idle"
            /\ UNCHANGED <<settings, page, firstPayment, callProxy, proxyVars, lthnvpnc, paying,
                           history, proxyStats>>
        BY <1>2, <2>1 DEF NeedPayment
      <3>2. FlagsOK'
        BY <3>1, TypeParts DEF ReadMessage, SessionInv, FlagsOK, page, proxyVars
      <3>3. DataOK'
        BY <1>1, <3>1, TypeParts
        DEF ReadMessage, SessionInv, DataOK, world, settings, page, proxyVars, history
      <3>4. QED
        BY <3>1, <3>2, <3>3, TypeParts
        DEF ReadMessage, SessionInv, TimerFollowsFlag, TimeKnown, VpnReads, NotYetAsked, Prepaid,
            WithinBound, world, settings, page, history
    <2>2. CASE /\ SetPayment \/ SetPaymentThrows
               /\ firstPayment = 1 \/ timeLeft # Undefined
               /\ pc' \in {pc, "idle"}
      <3>1. UNCHANGED <<world, obj, autoRenew, lines, verifying, stats, connecting, proxyStats>>
        BY <1>2 DEF ReadMessage, NeedPayment
      <3>2. UNCHANGED <<world, obj>>
        BY <3>1
      <3>3. QED
        BY <1>1, <2>2, <3>1, <3>2, SetPaymentStep DEF SessionInv, TypeOK, VpnReads, world
    <2>3. QED BY <1>2, <2>1, <2>2 DEF NeedPayment
  <1>3. CASE VpnError
    <2>1. /\ flag' = 0 /\ timerRunning' = FALSE /\ loader' = FALSE /\ TimerFollowsFlag'
          /\ firstPayment' = 0
      BY <1>3, SwitchedOff DEF VpnError
    <2>2. FlagsOK'
      BY <1>3, <2>1, TypeParts DEF VpnError, ReadMessage, SessionInv, FlagsOK, proxyVars
    <2>3. DataOK'
      BY <1>1, <1>3, <2>1, TypeParts
      DEF VpnError, ReadMessage, SessionInv, DataOK, world, settings, proxyVars
    <2>4. QED
      BY <1>1, <1>3, <2>1, <2>2, <2>3, TypeParts
      DEF VpnError, ReadMessage, SessionInv, TimeKnown, VpnReads, NotYetAsked, Prepaid,
          WithinBound, world, settings
  <1>4. CASE VpnConnected
    <2>1. FlagsOK'
      BY <1>4, TypeParts DEF VpnConnected, ReadMessage, SessionInv, FlagsOK, proxyVars
    <2>2. DataOK'
      BY <1>1, <1>4, TypeParts
      DEF Reported, VpnConnected, ReadMessage, SessionInv, DataOK, world, settings, proxyVars,
          history
    <2>3. QED
      BY <1>1, <1>4, <2>1, <2>2, TypeParts
      DEF VpnConnected, ReadMessage, SessionInv, TimerFollowsFlag, TimeKnown, VpnReads,
          NotYetAsked, Prepaid, WithinBound, world, settings, history
  <1>5. QED BY <1>2, <1>3, <1>4 DEF ReadMessage

LEMMA AskStatsType == ASSUME FlagsOK, AskStats PROVE stats' \in BOOLEAN
  BY DEF FlagsOK, AskStats

\* The end of timer().
LEMMA RenewStep ==
    ASSUME SessionInv, Renew PROVE SessionInv'
  <1>1. /\ pc' = "idle"
        /\ UNCHANGED <<world, autoRenew, obj, proxyStats, log, verifying, connecting>>
    BY DEF Renew
  <1>2. CASE RenewSession
    <2>1. /\ SetPayment \/ SetPaymentThrows
          /\ timeLeft # Undefined /\ UNCHANGED <<world, obj>>
      BY <1>1, <1>2 DEF RenewSession
    <2>2. timeLeft <= now + Margin
      BY <1>2, ConstantFacts DEF RenewSession, RenewalDue, SessionInv, TypeOK
    <2>3. stats' \in BOOLEAN
      BY <1>2, AskStatsType, TypeParts DEF RenewSession, SessionInv, FlagsOK
    <2>4. QED
      BY <1>1, <2>1, <2>2, <2>3, SetPaymentStep DEF SessionInv, TypeOK, VpnReads, world, log
  <1>3. CASE EndSession
    <2>1. flag' = 0 /\ timerRunning' = FALSE /\ loader' = FALSE /\ TimerFollowsFlag'
      BY <1>3, SwitchedOff DEF EndSession
    <2>2. /\ haproxy' \in BOOLEAN /\ lthnvpnc' \in BOOLEAN
          /\ m_haproxyStatus' \in Answers \cup {NoStatus}
      BY <1>3, CloseType DEF EndSession, SessionInv
    <2>3. FlagsOK'
      BY <1>1, <1>3, <2>1, <2>2, AskStatsType, TypeParts DEF EndSession, SessionInv, FlagsOK
    <2>4. DataOK'
      BY <1>1, <1>3, <2>1, <2>2, TypeParts
      DEF EndSession, SessionInv, DataOK, world, log, settings, history
    <2>5. QED
      BY <1>1, <1>3, <2>1, <2>3, <2>4, TypeParts
      DEF EndSession, SessionInv, TimeKnown, VpnReads, NotYetAsked, Prepaid, WithinBound, world,
          settings, history
  <1>4. CASE KeepSession
    <2>1. stats' \in BOOLEAN
      BY <1>4, AskStatsType, TypeParts DEF KeepSession, SessionInv, FlagsOK
    <2>2. FlagsOK'
      BY <1>1, <1>4, <2>1, TypeParts DEF KeepSession, SessionInv, FlagsOK, page, proxyVars
    <2>3. DataOK'
      BY <1>1, <1>4, TypeParts
      DEF KeepSession, SessionInv, DataOK, world, log, settings, page, proxyVars, history
    <2>4. QED
      BY <1>1, <1>4, <2>2, <2>3, TypeParts
      DEF KeepSession, SessionInv, TimerFollowsFlag, TimeKnown, VpnReads, NotYetAsked, Prepaid,
          WithinBound, world, settings, page, history
  <1>5. QED BY <1>2, <1>3, <1>4 DEF Renew

LEMMA TimerStep ==
    ASSUME SessionInv, GuiTimer PROVE SessionInv'
  <1>1. CASE Timer
    BY <1>1, TimerVpnStep, TimerProxyStep DEF Timer
  <1>2. CASE MessagesRead
    BY <1>2
    DEF MessagesRead, SessionInv, TypeOK, TimerFollowsFlag, TimeKnown, VpnReads, NotYetAsked,
        Prepaid, WithinBound, world, settings, page, session, proxyVars, log, requests, history
  <1>3. QED BY <1>1, <1>2, ReadStep, RenewStep DEF GuiTimer

-----------------------------------------------------------------------------
(* The steps outside timer(). *)

LEMMA VerifyAnsweredStep ==
    ASSUME SessionInv, VerifyAnswered PROVE SessionInv'
  <1>1. FlagsOK'
    BY TypeParts DEF VerifyAnswered, SessionInv, FlagsOK, page, proxyVars, requests
  <1>2. DataOK'
    BY TypeParts
    DEF VerifyAnswered, SessionInv, DataOK, world, settings, page, session, proxyVars, log,
        requests, history
  <1>3. QED
    BY <1>1, <1>2, TypeParts
    DEF VerifyAnswered, SessionInv, TimerFollowsFlag, TimeKnown, VpnReads, NotYetAsked, Prepaid,
        WithinBound, world, settings, page, session, requests, history

LEMMA StatsAnsweredStep ==
    ASSUME SessionInv, StatsAnswered PROVE SessionInv'
  <1>1. FlagsOK'
    BY TypeParts DEF StatsAnswered, SessionInv, FlagsOK, page, proxyVars, requests
  <1>2. DataOK'
    BY TypeParts
    DEF StatsAnswered, SessionInv, DataOK, world, settings, page, session, proxyVars, log,
        requests, history
  <1>3. QED
    BY <1>1, <1>2, TypeParts
    DEF StatsAnswered, SessionInv, TimerFollowsFlag, TimeKnown, VpnReads, NotYetAsked, Prepaid,
        WithinBound, world, settings, page, session, requests, history

LEMMA ReconnectStep ==
    ASSUME SessionInv, Reconnect PROVE SessionInv'
  <1>1. FlagsOK'
    BY TypeParts DEF Reconnect, SessionInv, FlagsOK, page, proxyVars, requests
  <1>2. DataOK'
    BY TypeParts
    DEF Reconnect, SessionInv, DataOK, world, settings, page, session, proxyVars, log,
        requests, history
  <1>3. QED
    BY <1>1, <1>2, TypeParts
    DEF Reconnect, SessionInv, TimerFollowsFlag, TimeKnown, VpnReads, NotYetAsked, Prepaid,
        WithinBound, world, settings, page, session, requests, history

LEMMA SwitchAutoRenewStep ==
    ASSUME SessionInv, SwitchAutoRenew PROVE SessionInv'
  <1>1. FlagsOK'
    BY TypeParts DEF SwitchAutoRenew, SessionInv, FlagsOK, page, proxyVars, requests
  <1>2. DataOK'
    BY TypeParts
    DEF SwitchAutoRenew, SessionInv, DataOK, world, settings, page, session, proxyVars, log,
        requests, history
  <1>3. QED
    BY <1>1, <1>2, TypeParts
    DEF SwitchAutoRenew, SessionInv, TimerFollowsFlag, TimeKnown, VpnReads, NotYetAsked, Prepaid,
        WithinBound, world, settings, page, session, requests, history

LEMMA LaunchType ==
    ASSUME TypeOK, NEW launch \in Launches
    PROVE  StatusAfter(launch) \in Answers \cup {NoStatus} /\ UpAfter(launch) \in BOOLEAN
  BY DEF StatusAfter, UpAfter, TypeOK, Answers

LEMMA StatsFailedStep ==
    ASSUME SessionInv, StatsFailed PROVE SessionInv'
  <1>1. flag' = 0 /\ timerRunning' = FALSE /\ loader' = FALSE /\ TimerFollowsFlag'
    BY SwitchedOff DEF StatsFailed
  <1>2. haproxy' \in BOOLEAN /\ m_haproxyStatus' \in Answers \cup {NoStatus}
    BY LaunchType DEF StatsFailed, SessionInv
  <1>3. FlagsOK'
    BY <1>1, <1>2, TypeParts DEF StatsFailed, SessionInv, FlagsOK
  <1>4. DataOK'
    BY <1>1, <1>2, TypeParts
    DEF StatsFailed, SessionInv, DataOK, world, settings, session, log, history
  <1>5. QED
    BY <1>1, <1>3, <1>4, TypeParts
    DEF StatsFailed, SessionInv, TimeKnown, VpnReads, NotYetAsked, Prepaid, WithinBound, world,
        settings, session, history

LEMMA PaymentCreatedStep ==
    ASSUME SessionInv, PaymentCreated PROVE SessionInv'
  <1>1. CASE UNCHANGED <<page, proxyVars>>
    <2>1. FlagsOK'
      BY <1>1, TypeParts DEF PaymentCreated, SessionInv, FlagsOK, page, proxyVars
    <2>2. DataOK'
      BY <1>1, TypeParts
      DEF PaymentCreated, SessionInv, DataOK, world, settings, page, session, proxyVars, log,
          history
    <2>3. QED
      BY <1>1, <2>1, <2>2, TypeParts
      DEF PaymentCreated, SessionInv, TimerFollowsFlag, TimeKnown, VpnReads, NotYetAsked, Prepaid,
          WithinBound, world, settings, page, session, history
  <1>2. CASE ChangeStatus(0) /\ KillHAproxy
    <2>1. flag' = 0 /\ timerRunning' = FALSE /\ loader' = FALSE /\ TimerFollowsFlag'
      BY <1>2, SwitchedOff
    <2>2. FlagsOK'
      BY <1>2, <2>1, TypeParts DEF PaymentCreated, KillHAproxy, SessionInv, FlagsOK
    <2>3. DataOK'
      BY <1>2, <2>1, TypeParts
      DEF PaymentCreated, KillHAproxy, SessionInv, DataOK, world, settings, session, log, history
    <2>4. QED
      BY <2>1, <2>2, <2>3, TypeParts
      DEF PaymentCreated, SessionInv, TimeKnown, VpnReads, NotYetAsked, Prepaid, WithinBound,
          world, settings, session, history
  <1>3. QED BY <1>1, <1>2 DEF PaymentCreated

LEMMA ConnectStep ==
    ASSUME SessionInv, Connect PROVE SessionInv'
  <1>1. flag' = 1 /\ timerRunning' = TRUE /\ loader' = TRUE /\ TimerFollowsFlag'
    BY SwitchedOn DEF Connect
  <1>2. obj' \in Kinds
    BY ConstantFacts DEF Connect, SessionInv, TypeOK
  <1>3. haproxy' \in BOOLEAN /\ m_haproxyStatus' \in Answers \cup {NoStatus}
    BY DEF Connect, KillHAproxy, proxyVars, SessionInv, TypeOK
  <1>4. lthnvpnc' \in BOOLEAN /\ connecting' \in BOOLEAN
    BY DEF Connect, SessionInv, TypeOK
  <1>5. start' \in Int
    BY DEF Connect, SessionInv, TypeOK
  <1>6. FlagsOK'
    BY <1>1, <1>3, <1>4, TypeParts DEF Connect, SessionInv, FlagsOK
  <1>7. DataOK'
    BY <1>1, <1>2, <1>3, <1>5, TypeParts DEF Connect, SessionInv, DataOK, world, log
  <1>8. QED
    BY <1>1, <1>6, <1>7, TypeParts
    DEF Connect, SessionInv, TimeKnown, VpnReads, NotYetAsked, Prepaid, WithinBound, world

LEMMA ConnectFailedStep ==
    ASSUME SessionInv, ConnectFailed PROVE SessionInv'
  <1>1. flag' = 0 /\ timerRunning' = FALSE /\ loader' = FALSE /\ TimerFollowsFlag'
    BY SwitchedOff DEF ConnectFailed
  <1>2. FlagsOK'
    BY <1>1, TypeParts DEF ConnectFailed, SessionInv, FlagsOK, proxyVars
  <1>3. DataOK'
    BY <1>1, TypeParts
    DEF ConnectFailed, SessionInv, DataOK, world, settings, session, proxyVars, log, history
  <1>4. QED
    BY <1>1, <1>2, <1>3, TypeParts
    DEF ConnectFailed, SessionInv, TimeKnown, VpnReads, NotYetAsked, Prepaid, WithinBound, world,
        settings, session, history

LEMMA DisconnectStep ==
    ASSUME SessionInv, Disconnect PROVE SessionInv'
  <1>1. flag' = 0 /\ timerRunning' = FALSE /\ loader' = FALSE /\ TimerFollowsFlag'
    BY SwitchedOff DEF Disconnect
  <1>2. /\ haproxy' \in BOOLEAN /\ lthnvpnc' \in BOOLEAN
        /\ m_haproxyStatus' \in Answers \cup {NoStatus}
    BY CloseType DEF Disconnect, SessionInv
  <1>3. timeLeft' = now /\ now \in Nat
    BY ConstantFacts DEF Disconnect, SessionInv, TypeOK
  <1>4. FlagsOK'
    BY <1>1, <1>2, TypeParts DEF Disconnect, SessionInv, FlagsOK, requests
  <1>5. DataOK'
    BY <1>1, <1>2, <1>3, TypeParts
    DEF Disconnect, SessionInv, DataOK, world, session, log, history
  <1>6. TimeKnown' /\ WithinBound'
    BY <1>3, ConstantFacts DEF Disconnect, TimeKnown, WithinBound, Undefined, world
  <1>7. QED
    BY <1>1, <1>4, <1>5, <1>6, TypeParts
    DEF Disconnect, SessionInv, VpnReads, NotYetAsked, Prepaid, session, history

LEMMA ResumeStep ==
    ASSUME SessionInv, Resume PROVE SessionInv'
  <1>1. PICK f \in 0 .. 1 : ChangeStatus(f)
    BY DEF Resume, SessionInv, TypeOK
  <1>2. /\ flag' \in 0 .. 1 /\ timerRunning' \in BOOLEAN /\ loader' \in BOOLEAN
        /\ TimerFollowsFlag'
    <2>1. CASE f = 0
      BY <1>1, <2>1, SwitchedOff
    <2>2. CASE f = 1
      BY <1>1, <2>2, SwitchedOn
    <2>3. QED BY <2>1, <2>2
  <1>3. haproxy' \in BOOLEAN /\ m_haproxyStatus' \in Answers \cup {NoStatus}
    BY LaunchType DEF Resume, proxyVars, SessionInv, TypeOK
  <1>4. lthnvpnc' \in BOOLEAN
    BY DEF Resume, SessionInv, TypeOK
  <1>5. FlagsOK'
    BY <1>2, <1>3, <1>4, TypeParts DEF Resume, SessionInv, FlagsOK, requests
  <1>6. DataOK'
    BY <1>2, <1>3, TypeParts DEF Resume, SessionInv, DataOK, world, settings, log, history
  <1>7. TimeKnown'
    BY ConstantFacts DEF Resume, SessionInv, TypeOK, TimeKnown, Undefined, settings
  <1>8. QED
    BY <1>2, <1>5, <1>6, <1>7, TypeParts
    DEF Resume, SessionInv, VpnReads, NotYetAsked, Prepaid, WithinBound, world, settings, history

LEMMA CloseWalletStep ==
    ASSUME SessionInv, CloseWallet PROVE SessionInv'
  <1>1. FlagsOK'
    BY TypeParts DEF CloseWallet, SessionInv, FlagsOK, page
  <1>2. DataOK'
    BY TypeParts
    DEF CloseWallet, SessionInv, DataOK, settings, page, session, log, history
  <1>3. QED
    BY <1>1, <1>2, TypeParts
    DEF CloseWallet, SessionInv, TimerFollowsFlag, TimeKnown, VpnReads, NotYetAsked, Prepaid,
        WithinBound, settings, page, session, history

LEMMA OpenWalletStep ==
    ASSUME SessionInv, OpenWallet PROVE SessionInv'
  <1>1. FlagsOK'
    BY TypeParts DEF OpenWallet, SessionInv, FlagsOK, page, proxyVars, requests
  <1>2. DataOK'
    BY TypeParts
    DEF OpenWallet, SessionInv, DataOK, settings, page, session, proxyVars, log, history
  <1>3. QED
    BY <1>1, <1>2, TypeParts
    DEF OpenWallet, SessionInv, TimerFollowsFlag, TimeKnown, VpnReads, NotYetAsked, Prepaid,
        WithinBound, settings, page, session, history

LEMMA TimePassesStep ==
    ASSUME SessionInv, TimePasses PROVE SessionInv'
  <1>1. now' = now + 1 /\ now' \in 0 .. MaxTime /\ now \in Nat
    BY ConstantFacts DEF TimePasses, SessionInv, TypeOK
  <1>2. FlagsOK'
    BY TypeParts DEF TimePasses, SessionInv, FlagsOK, page, proxyVars, requests
  <1>3. DataOK'
    BY <1>1, TypeParts
    DEF TimePasses, SessionInv, DataOK, settings, page, session, proxyVars, log, history
  <1>4. WithinBound => WithinBound'
    BY <1>1, ConstantFacts DEF TimePasses, SessionInv, TypeOK, WithinBound, settings
  <1>5. QED
    BY <1>2, <1>3, <1>4, TypeParts
    DEF TimePasses, SessionInv, TimerFollowsFlag, TimeKnown, VpnReads, NotYetAsked, Prepaid,
        settings, page, session, history

LEMMA LogLineStep ==
    ASSUME SessionInv, LogLine PROVE SessionInv'
  <1>1. lines' \in 0 .. MaxLines
    BY ConstantFacts DEF LogLine, SessionInv, TypeOK
  <1>2. m_statusMsg' \in Seq(Messages)
    BY DEF LogLine, SessionInv, TypeOK
  <1>3. FlagsOK'
    BY TypeParts DEF LogLine, SessionInv, FlagsOK, page, proxyVars, requests
  <1>4. DataOK'
    BY <1>1, <1>2, TypeParts
    DEF LogLine, SessionInv, DataOK, world, settings, page, session, proxyVars, history
  <1>5. QED
    BY <1>3, <1>4, TypeParts
    DEF LogLine, SessionInv, TimerFollowsFlag, TimeKnown, VpnReads, NotYetAsked, Prepaid,
        WithinBound, world, settings, page, session, history

LEMMA ClientDiesStep ==
    ASSUME SessionInv, ClientDies PROVE SessionInv'
  <1>1. FlagsOK'
    BY TypeParts DEF ClientDies, SessionInv, FlagsOK, page, requests
  <1>2. DataOK'
    BY TypeParts
    DEF ClientDies, SessionInv, DataOK, world, settings, page, session, log, history
  <1>3. QED
    BY <1>1, <1>2, TypeParts
    DEF ClientDies, SessionInv, TimerFollowsFlag, TimeKnown, VpnReads, NotYetAsked, Prepaid,
        WithinBound, world, settings, page, session, history

LEMMA RestartStep ==
    ASSUME SessionInv, Restart PROVE SessionInv'
  <1>1. flag' = 0 /\ timerRunning' = FALSE /\ loader' = FALSE /\ TimerFollowsFlag'
    BY SwitchedOff DEF Restart
  <1>2. restarts' \in 0 .. MaxRestarts /\ m_statusMsg' \in Seq(Messages)
    BY ConstantFacts DEF Restart, SessionInv, TypeOK
  <1>3. FlagsOK'
    BY <1>1, TypeParts DEF Restart, SessionInv, FlagsOK
  <1>4. DataOK'
    BY <1>1, <1>2, TypeParts DEF Restart, SessionInv, DataOK, settings, history
  <1>5. QED
    BY <1>1, <1>3, <1>4, TypeParts
    DEF Restart, SessionInv, TimeKnown, VpnReads, NotYetAsked, Prepaid, WithinBound, settings,
        history

LEMMA InvStep ==
    ASSUME SessionInv, [Next]_vars PROVE SessionInv'
  <1>1. CASE UNCHANGED vars
    BY <1>1
    DEF vars, SessionInv, TypeOK, TimerFollowsFlag, TimeKnown, VpnReads, NotYetAsked, Prepaid,
        WithinBound, world, settings, page, session, proxyVars, log, requests, history
  <1>2. CASE Next
    BY <1>2, TimerStep, VerifyAnsweredStep, StatsAnsweredStep, StatsFailedStep,
       PaymentCreatedStep, ReconnectStep, ConnectStep, ConnectFailedStep, DisconnectStep,
       SwitchAutoRenewStep, ResumeStep, CloseWalletStep, OpenWalletStep, TimePassesStep,
       LogLineStep, ClientDiesStep, RestartStep
    DEF Next
  <1>3. QED BY <1>1, <1>2

LEMMA InvHolds == Spec => []SessionInv
  BY InvInit, InvStep, PTL DEF Spec

-----------------------------------------------------------------------------
(* The theorems. *)

\* The type invariant of VpnSession.
THEOREM TypeCorrect == Spec => []TypeOK
  <1>1. SessionInv => TypeOK
    BY DEF SessionInv
  <1>2. QED BY <1>1, InvHolds, PTL

\* The timer that makes the payments runs exactly while the dashboard is
\* connected (changeStatus), and nothing hides the dashboard after a session.
THEOREM TimerStops == Spec => []TimerFollowsFlag
  <1>1. SessionInv => TimerFollowsFlag
    BY DEF SessionInv
  <1>2. QED BY <1>1, InvHolds, PTL

\* setPayment asks for the first payment of a session once, over all restarts.
THEOREM FirstPaymentOnceOnly == Spec => []FirstPaymentOnce
  <1>1. SessionInv => FirstPaymentOnce
    BY DEF SessionInv, NotYetAsked, FirstPaymentOnce
  <1>2. QED BY <1>1, InvHolds, PTL

\* The renewals of timer() never prepay a proxy further than the margin allows,
\* whatever the prepaid periods and the margin are.
THEOREM PrepaidIsBounded == Spec => []PrepaidBounded
  <1>1. SessionInv => PrepaidBounded
    BY DEF SessionInv, Prepaid, WithinBound, PrepaidBounded
  <1>2. QED BY <1>1, InvHolds, PTL

\* While a wallet is open, timer() never returns with a session running that is
\* over and not renewed.
THEOREM ExpiredSessionsEnd == Spec => ExpiredSessionEnds
  <1>1. ASSUME SessionInv, [Next]_vars
        PROVE  [pc # "idle" /\ pc' = "idle" /\ wallet => ~(timerRunning' /\ Expired')]_vars
    <2>1. SUFFICES ASSUME Next, pc # "idle", pc' = "idle", wallet
                   PROVE  ~(timerRunning' /\ Expired')
      BY <1>1
    <2>2. CASE ReadMessage
      <3>1. CASE firstPayment = 0 /\ timeLeft = Undefined /\ UNCHANGED page
        BY <1>1, <3>1 DEF SessionInv, TimeKnown, page
      <3>2. CASE pc' = pc
        BY <2>1, <3>2
      <3>3. QED
        BY <2>1, <2>2, <3>1, <3>2
        DEF ReadMessage, NeedPayment, VpnError, VpnConnected, SetPaymentThrows, Reported
    <2>3. CASE Renew
      <3>1. CASE RenewSession
        BY <2>3, <3>1 DEF Renew, RenewSession, RenewalDue, Expired
      <3>2. CASE EndSession
        BY <3>2, SwitchedOff DEF EndSession
      <3>3. CASE KeepSession
        <4>1. UNCHANGED <<now, timeLeft, autoRenew, firstPayment, timerRunning>>
          BY <2>3, <3>3 DEF Renew, KeepSession, world, settings, page
        <4>2. CASE timeLeft = Undefined
          BY <1>1, <4>1, <4>2 DEF SessionInv, TimeKnown, Expired
        <4>3. CASE timeLeft # Undefined
          BY <3>3, <4>1, <4>3 DEF KeepSession, Expired
        <4>4. QED BY <4>2, <4>3
      <3>4. QED BY <2>3, <3>1, <3>2, <3>3 DEF Renew
    <2>4. CASE Restart
      BY <2>4, SwitchedOff DEF Restart
    <2>5. QED
      BY <2>1, <2>2, <2>3, <2>4
      DEF Next, GuiTimer, Timer, MessagesRead, VerifyAnswered, StatsAnswered, StatsFailed,
          PaymentCreated, Reconnect, Connect, ConnectFailed, Disconnect, SwitchAutoRenew, Resume,
          CloseWallet, OpenWallet, TimePasses, LogLine, ClientDies
  <1>2. QED BY <1>1, InvHolds, PTL DEF Spec, ExpiredSessionEnds
=============================================================================
