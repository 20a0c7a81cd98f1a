--------------------------- MODULE Payment_proofs ---------------------------
(***************************************************************************)
(* Theorems about Payment, for any number of transactions: the types, that *)
(* no transaction is committed twice whatever surrounds a payment, that    *)
(* nothing unconfirmed is sent when nothing does, that Payment implements  *)
(* Ledger, and that the splash goes away.                                  *)
(***************************************************************************)
EXTENDS Payment, TLAPS

States == {"none", "creating", "live", "disposed"}

-----------------------------------------------------------------------------
(* The stack of windows. *)

LEMMA ShowingType ==
    ASSUME NEW ds \in Seq(Dialogs), NEW d \in Dialogs
    PROVE  Showing(ds, d) \in Seq(Dialogs)
  BY DEF Showing

LEMMA WithoutType ==
    ASSUME NEW ds \in Seq(Dialogs), NEW d
    PROVE  Without(ds, d) \in Seq(Dialogs)
  <1>1. CASE ~Visible(ds, d)
    BY <1>1 DEF Without
  <1>2. CASE Visible(ds, d)
    <2> DEFINE at == CHOOSE i \in DOMAIN ds : ds[i] = d
               r == [j \in 1 .. (Len(ds) - 1) |-> IF j < at THEN ds[j] ELSE ds[j + 1]]
    <2>1. at \in 1 .. Len(ds)
      BY <1>2 DEF Visible
    <2> HIDE DEF at
    <2>2. Len(ds) - 1 \in Nat
      BY <2>1
    <2>3. \A j \in 1 .. (Len(ds) - 1) : (IF j < at THEN ds[j] ELSE ds[j + 1]) \in Dialogs
      BY <2>1
    <2>4. r \in Seq(Dialogs)
      BY <2>2, <2>3
    <2>5. Without(ds, d) = r
      BY <1>2 DEF Without, at
    <2>6. QED BY <2>4, <2>5
  <1>3. QED BY <1>1, <1>2

LEMMA InformType ==
    ASSUME NEW ds \in Seq(Dialogs), Inform(ds)
    PROVE  dialogs' \in Seq(Dialogs) /\ onCloseCallback' = "null"
  BY ShowingType DEF Inform, Dialogs

-----------------------------------------------------------------------------
(* Type correctness. *)

LEMMA TypeInit == Init => TypeOK
  BY PaymentAssumption DEF Init, TypeOK, PaymentAssumption, Dialogs, Txs, NoTx

LEMMA TypeAsk ==
    ASSUME TypeOK, Ask
    PROVE  asked' \in 0 .. MaxTx /\ asked + 1 \in Txs /\ asked' = asked + 1
  BY PaymentAssumption DEF TypeOK, Ask, PaymentAssumption, Txs

LEMMA TypeBuilt ==
    ASSUME TypeOK, NEW t \in Txs, NEW ds \in Seq(Dialogs), Confirm(t, ds) \/ Fail(t, ds)
    PROVE  /\ state' \in [Txs -> States]
           /\ popupTx' \in Txs \cup {NoTx}
           /\ dialogs' \in Seq(Dialogs)
           /\ onCloseCallback' \in {"null", "reopenPassword"}
  <1>1. CASE Confirm(t, ds)
    BY <1>1, ShowingType DEF TypeOK, Confirm, States, Dialogs
  <1>2. CASE Fail(t, ds)
    BY <1>2, InformType DEF TypeOK, Fail, States
  <1>3. QED BY <1>1, <1>2

LEMMA TypeConfirmed ==
    ASSUME TypeOK, NEW ds \in Seq(Dialogs), HandleTransactionConfirmed(ds)
    PROVE  /\ state' \in [Txs -> States]
           /\ commits' \in [Txs -> Nat]
           /\ dialogs' \in Seq(Dialogs)
           /\ onCloseCallback' \in {"null", "reopenPassword"}
  <1>1. CASE transaction # NoTx /\ state[transaction] = "live"
    <2>1. /\ commits' = [commits EXCEPT ![transaction] = commits[transaction] + 1]
          /\ state' = [state EXCEPT ![transaction] = "disposed"]
          /\ Inform(ds)
      BY <1>1 DEF HandleTransactionConfirmed
    <2>2. transaction \in Txs
      BY <1>1 DEF TypeOK
    <2>3. commits' \in [Txs -> Nat] /\ state' \in [Txs -> States]
      BY <2>1, <2>2 DEF TypeOK, States
    <2>4. QED BY <2>1, <2>3, InformType
  <1>2. CASE ~(transaction # NoTx /\ state[transaction] = "live")
    BY <1>2 DEF TypeOK, HandleTransactionConfirmed, States
  <1>3. QED BY <1>1, <1>2

LEMMA TypeDecide ==
    ASSUME TypeOK, NEW word \in {"confirmed", "cancelled"}, Decide(word)
    PROVE  decision' \in [Txs -> {"none", "confirmed", "cancelled"}]
  BY DEF TypeOK, Decide

LEMMA TypeCreated ==
    ASSUME TypeOK, NEW t \in Txs, OnTransactionCreated(t) \/ OnTransactionAutoCreated(t)
    PROVE  TypeOK'
  <1> DEFINE ds == Without(dialogs, "splash")
  <1>1. ds \in Seq(Dialogs)
    BY WithoutType DEF TypeOK
  <1> HIDE DEF ds
  <1>2. CASE OnTransactionCreated(t)
    <2>1. Confirm(t, ds) \/ Fail(t, ds)
      BY <1>2 DEF OnTransactionCreated, ds
    <2>2. QED BY <1>1, <1>2, <2>1, TypeBuilt DEF TypeOK, OnTransactionCreated, States
  <1>3. CASE OnTransactionAutoCreated(t)
    <2>1. CASE Fail(t, ds) /\ UNCHANGED commits
      BY <1>1, <1>3, <2>1, TypeBuilt DEF TypeOK, OnTransactionAutoCreated, States
    <2>2. CASE /\ state' = [state EXCEPT ![t] = "disposed"]
               /\ commits' = [commits EXCEPT ![t] = @ + 1]
               /\ dialogs' = ds
               /\ UNCHANGED <<popupTx, onCloseCallback>>
      BY <1>1, <1>3, <2>2 DEF TypeOK, OnTransactionAutoCreated
    <2>3. QED BY <1>3, <2>1, <2>2 DEF OnTransactionAutoCreated, ds
  <1>4. QED BY <1>2, <1>3

LEMMA TypeAnswer ==
    ASSUME TypeOK,
           PopupAccepted \/ PasswordRight \/ PasswordWrong \/ SaveTxAccepted \/ InfoClosed
           \/ SplashClosed \/ \E d \in Dialogs : Cancelled(d)
    PROVE  TypeOK'
  <1>1. \A d \in Dialogs : Without(dialogs, d) \in Seq(Dialogs)
    BY WithoutType DEF TypeOK
  <1>2. \A d, e \in Dialogs : Showing(Without(dialogs, d), e) \in Seq(Dialogs)
    BY <1>1, ShowingType
  <1>3. {"splash", "popup", "password", "saveTx", "info"} \subseteq Dialogs
    BY DEF Dialogs
  <1>4. CASE PopupAccepted
    BY <1>2, <1>3, <1>4, TypeDecide DEF TypeOK, PopupAccepted
  <1>5. CASE PasswordRight
    <2>1. CASE viewOnly
      BY <1>2, <1>3, <1>5, <2>1 DEF TypeOK, PasswordRight
    <2>2. CASE ~viewOnly
      <3>1. HandleTransactionConfirmed(Without(dialogs, "password"))
        BY <1>5, <2>2 DEF PasswordRight
      <3>2. QED BY <1>1, <1>3, <1>5, <3>1, TypeConfirmed DEF TypeOK, PasswordRight, States
    <2>3. QED BY <2>1, <2>2
  <1>6. CASE PasswordWrong
    BY <1>2, <1>3, <1>6 DEF TypeOK, PasswordWrong
  <1>7. CASE SaveTxAccepted
    <2>1. HandleTransactionConfirmed(Without(dialogs, "saveTx"))
      BY <1>7 DEF SaveTxAccepted
    <2>2. QED BY <1>1, <1>3, <1>7, <2>1, TypeConfirmed DEF TypeOK, SaveTxAccepted, States
  <1>8. CASE InfoClosed
    BY <1>1, <1>2, <1>3, <1>8 DEF TypeOK, InfoClosed
  <1>9. CASE SplashClosed
    BY <1>1, <1>3, <1>9 DEF TypeOK, SplashClosed
  <1>10. CASE \E d \in Dialogs : Cancelled(d)
    BY <1>1, <1>10, TypeDecide DEF TypeOK, Cancelled
  <1>11. QED BY <1>4, <1>5, <1>6, <1>7, <1>8, <1>9, <1>10

LEMMA TypeRequest ==
    ASSUME TypeOK,
           HandlePayment \/ PaymentRefused \/ HandleSweepUnmixable \/ HandleAutoPayment
           \/ AutoPaymentRefused \/ HandleCheckPayment
    PROVE  TypeOK'
  <1>1. dialogs \in Seq(Dialogs) /\ Without(dialogs, "splash") \in Seq(Dialogs)
    BY WithoutType DEF TypeOK
  <1>2. Showing(dialogs, "splash") \in Seq(Dialogs) /\ Showing(dialogs, "info") \in Seq(Dialogs)
    BY <1>1, ShowingType DEF Dialogs
  <1>3. CASE HandlePayment
    BY <1>2, <1>3, TypeAsk DEF TypeOK, HandlePayment
  <1>4. CASE PaymentRefused
    BY <1>1, <1>4, InformType DEF TypeOK, PaymentRefused
  <1>5. CASE HandleSweepUnmixable
    BY <1>1, <1>5, TypeAsk, TypeBuilt DEF TypeOK, HandleSweepUnmixable, States
  <1>6. CASE HandleAutoPayment
    BY <1>6, TypeAsk DEF TypeOK, HandleAutoPayment
  <1>7. CASE AutoPaymentRefused
    BY <1>1, <1>7, InformType DEF TypeOK, AutoPaymentRefused
  <1>8. CASE HandleCheckPayment
    BY <1>2, <1>8 DEF TypeOK, HandleCheckPayment
  <1>9. QED BY <1>3, <1>4, <1>5, <1>6, <1>7, <1>8

LEMMA TypeNext ==
    ASSUME TypeOK, [Next]_vars
    PROVE  TypeOK'
  <1>1. CASE UNCHANGED vars
    BY <1>1 DEF TypeOK, vars
  <1>2. QED BY <1>1, TypeCreated, TypeAnswer, TypeRequest DEF Next, Created, User

\* The variables of a payment keep their types.
THEOREM TypeCorrect == Spec => []TypeOK
  BY TypeInit, TypeNext, PTL DEF Spec

-----------------------------------------------------------------------------
(* Committed at most once: a transaction that was committed has been deleted *)
(* by the handler that committed it, and the handlers commit only an object  *)
(* that exists or has just been built.                                       *)

CommittedIsDisposed ==
    \A t \in Txs : commits[t] = 0 \/ (commits[t] = 1 /\ state[t] = "disposed")

\* Numbers not yet given out belong to no object.
UnaskedIsNone == \A t \in Txs : t > asked => state[t] = "none"

OnceInv == TypeOK /\ CommittedIsDisposed /\ UnaskedIsNone

LEMMA OnceInit == Init => OnceInv
  <1>1. SUFFICES ASSUME Init PROVE OnceInv
    OBVIOUS
  <1>2. commits = [t \in Txs |-> 0] /\ state = [t \in Txs |-> "none"]
    BY <1>1 DEF Init
  <1>3. \A t \in Txs : commits[t] = 0 /\ state[t] = "none"
    BY <1>2
  <1>4. CommittedIsDisposed /\ UnaskedIsNone
    BY <1>3 DEF CommittedIsDisposed, UnaskedIsNone
  <1>5. QED BY <1>1, <1>4, TypeInit DEF OnceInv

LEMMA OnceBuilt ==
    ASSUME OnceInv, NEW t \in Txs, NEW ds, state[t] # "disposed", t <= asked',
           asked' \in Nat, asked' >= asked, Confirm(t, ds) \/ Fail(t, ds), UNCHANGED commits
    PROVE  CommittedIsDisposed' /\ UnaskedIsNone'
  <1>1. \A u \in Txs : u # t => state'[u] = state[u]
    BY DEF OnceInv, TypeOK, Confirm, Fail
  <1>2. commits[t] = 0
    BY DEF OnceInv, CommittedIsDisposed
  <1>3. CommittedIsDisposed'
    BY <1>1, <1>2 DEF OnceInv, CommittedIsDisposed
  <1>4. UnaskedIsNone'
    <2>1. asked \in Nat
      BY PaymentAssumption DEF OnceInv, TypeOK, PaymentAssumption
    <2>2. ASSUME NEW u \in Txs, u > asked' PROVE state'[u] = "none"
      <3>1. u # t /\ u > asked
        BY <2>1, <2>2 DEF Txs
      <3>2. QED BY <1>1, <3>1 DEF OnceInv, UnaskedIsNone
    <2>3. QED BY <2>2 DEF UnaskedIsNone
  <1>5. QED BY <1>3, <1>4

LEMMA OnceAsked ==
    ASSUME OnceInv, Ask
    PROVE  /\ asked + 1 \in Txs /\ state[asked + 1] = "none"
           /\ asked' \in Nat /\ asked' = asked + 1 /\ asked + 1 <= asked'
  <1>1. asked \in Nat /\ asked + 1 \in Txs /\ asked' = asked + 1
    BY TypeAsk, PaymentAssumption DEF OnceInv, TypeOK, PaymentAssumption
  <1>2. state[asked + 1] = "none"
    BY <1>1 DEF OnceInv, UnaskedIsNone
  <1>3. QED BY <1>1, <1>2

\* A new construction started in the background.
LEMMA OnceStarted ==
    ASSUME OnceInv, Ask, state' = [state EXCEPT ![asked + 1] = "creating"], UNCHANGED commits
    PROVE  CommittedIsDisposed' /\ UnaskedIsNone'
  BY OnceAsked, PaymentAssumption
  DEF OnceInv, TypeOK, CommittedIsDisposed, UnaskedIsNone, Txs, PaymentAssumption

LEMMA OnceConfirmed ==
    ASSUME OnceInv, NEW ds, HandleTransactionConfirmed(ds), UNCHANGED asked
    PROVE  CommittedIsDisposed' /\ UnaskedIsNone'
  <1>1. CASE transaction # NoTx /\ state[transaction] = "live"
    <2>1. transaction \in Txs /\ commits[transaction] = 0
      BY <1>1 DEF OnceInv, TypeOK, CommittedIsDisposed
    <2>2. /\ commits' = [commits EXCEPT ![transaction] = commits[transaction] + 1]
          /\ state' = [state EXCEPT ![transaction] = "disposed"]
      BY <1>1 DEF HandleTransactionConfirmed
    <2>3. CommittedIsDisposed'
      BY <2>1, <2>2 DEF OnceInv, TypeOK, CommittedIsDisposed
    <2>4. UnaskedIsNone'
      BY <1>1, <2>1, <2>2 DEF OnceInv, TypeOK, UnaskedIsNone
    <2>5. QED BY <2>3, <2>4
  <1>2. CASE ~(transaction # NoTx /\ state[transaction] = "live")
    BY <1>2 DEF OnceInv, HandleTransactionConfirmed, CommittedIsDisposed, UnaskedIsNone
  <1>3. QED BY <1>1, <1>2

LEMMA OnceUntouched ==
    ASSUME OnceInv, UNCHANGED <<asked, state, commits>>
    PROVE  CommittedIsDisposed' /\ UnaskedIsNone'
  BY DEF OnceInv, CommittedIsDisposed, UnaskedIsNone

LEMMA OnceCreated ==
    ASSUME OnceInv, NEW t \in Txs, OnTransactionCreated(t) \/ OnTransactionAutoCreated(t)
    PROVE  CommittedIsDisposed' /\ UnaskedIsNone'
  <1> DEFINE ds == Without(dialogs, "splash")
  <1>1. asked \in Nat /\ asked' = asked /\ state[t] = "creating" /\ t <= asked
    <2>1. asked \in Nat /\ asked' = asked /\ state[t] = "creating"
      BY PaymentAssumption
      DEF OnceInv, TypeOK, PaymentAssumption, OnTransactionCreated, OnTransactionAutoCreated
    <2>2. QED BY <2>1, PaymentAssumption DEF OnceInv, UnaskedIsNone, Txs, PaymentAssumption
  <1>2. CASE (Confirm(t, ds) \/ Fail(t, ds)) /\ UNCHANGED commits
    BY <1>1, <1>2, OnceBuilt
  <1>3. CASE /\ state' = [state EXCEPT ![t] = "disposed"]
             /\ commits' = [commits EXCEPT ![t] = commits[t] + 1]
    <2>1. commits[t] = 0
      BY <1>1 DEF OnceInv, CommittedIsDisposed
    <2>2. CommittedIsDisposed'
      BY <1>3, <2>1 DEF OnceInv, TypeOK, CommittedIsDisposed
    <2>3. UnaskedIsNone'
      BY <1>1, <1>3 DEF OnceInv, TypeOK, UnaskedIsNone
    <2>4. QED BY <2>2, <2>3
  <1>4. QED BY <1>2, <1>3 DEF OnTransactionCreated, OnTransactionAutoCreated

LEMMA OnceNext ==
    ASSUME OnceInv, [Next]_vars
    PROVE  OnceInv'
  <1>1. TypeOK'
    BY TypeNext DEF OnceInv
  <1>2. CommittedIsDisposed' /\ UnaskedIsNone'
    <2>1. CASE HandlePayment \/ HandleAutoPayment
      BY <2>1, OnceStarted DEF HandlePayment, HandleAutoPayment
    <2>2. CASE HandleSweepUnmixable
      <3>1. Ask /\ UNCHANGED commits
            /\ (Confirm(asked + 1, dialogs) \/ Fail(asked + 1, dialogs))
        BY <2>2 DEF HandleSweepUnmixable
      <3>2. asked \in Nat
        BY PaymentAssumption DEF OnceInv, TypeOK, PaymentAssumption
      <3>3. QED BY <3>1, <3>2, OnceAsked, OnceBuilt
    <2>3. CASE PasswordRight
      <3>1. CASE viewOnly
        BY <2>3, <3>1, OnceUntouched DEF PasswordRight
      <3>2. CASE ~viewOnly
        BY <2>3, <3>2, OnceConfirmed DEF PasswordRight
      <3>3. QED BY <3>1, <3>2
    <2>4. CASE SaveTxAccepted
      BY <2>4, OnceConfirmed DEF SaveTxAccepted
    <2>5. CASE Created
      BY <2>5, OnceCreated DEF Created
    <2>6. CASE UNCHANGED <<asked, state, commits>>
      BY <2>6, OnceUntouched
    <2>7. UNCHANGED vars \/ PaymentRefused \/ AutoPaymentRefused \/ PopupAccepted
          \/ PasswordWrong \/ (\E d \in Dialogs : Cancelled(d)) \/ InfoClosed
          \/ HandleCheckPayment \/ SplashClosed
          => UNCHANGED <<asked, state, commits>>
      BY DEF vars, PaymentRefused, AutoPaymentRefused, PopupAccepted, PasswordWrong,
         Cancelled, InfoClosed, HandleCheckPayment, SplashClosed
    <2>8. QED BY <2>1, <2>2, <2>3, <2>4, <2>5, <2>6, <2>7 DEF Next, User
  <1>3. QED BY <1>1, <1>2 DEF OnceInv

\* No transaction is committed twice: not by a stale callback, not by a second
\* answer to the password dialog, not by an automatic payment in between.
THEOREM NeverCommittedTwice == Spec => []CommittedAtMostOnce
  <1>1. OnceInv => CommittedAtMostOnce
    BY DEF OnceInv, CommittedIsDisposed, CommittedAtMostOnce
  <1>2. QED BY <1>1, OnceInit, OnceNext, PTL DEF Spec

-----------------------------------------------------------------------------
(* Nothing unconfirmed is sent when a payment is left alone.  The windows     *)
(* are as orderly for a user who checks payments in between, except that a    *)
(* check keeps the callback of an earlier wrong password: the dialog it opens *)
(* again is about the transaction in hand, but the user may have cancelled it.*)

\* The popup described the transaction in hand, and it exists.
InHand ==
    /\ popupTx = transaction /\ transaction # NoTx
    /\ state[transaction] = "live"

\* And the user accepted it, if nothing else goes on.
AskedAndConfirmed ==
    /\ InHand
    /\ allowed = {} => decision[transaction] = "confirmed"

\* There is never more than one window, and each finds the transaction in a
\* known state.
AloneWindows ==
    \/ /\ Idle
       /\ \A t \in Txs : state[t] # "creating"
    \/ /\ dialogs = <<"splash">>
       /\ \A t \in Txs : state[t] = "creating" => t = asked
    \/ /\ dialogs = <<"info">>
       /\ \A t \in Txs : state[t] # "creating"
       /\ onCloseCallback = "reopenPassword" => AskedAndConfirmed
    \/ /\ dialogs = <<"popup">>
       /\ \A t \in Txs : state[t] # "creating"
       /\ InHand
    \/ /\ dialogs \in {<<"password">>, <<"saveTx">>}
       /\ \A t \in Txs : state[t] # "creating"
       /\ AskedAndConfirmed

\* A callback outlives its popup, and the popups after it that do not assign
\* one, but not the transaction.
CallbackInHand == onCloseCallback = "reopenPassword" => InHand

AloneInv ==
    OnceInv /\ AloneWindows /\ CallbackInHand /\ auto = {} /\ NothingSentUnconfirmedAlone

\* A window that is alone on the stack: closing and showing.
LEMMA LoneWindow ==
    ASSUME NEW d
    PROVE  Without(<<d>>, d) = <<>> /\ Showing(<<>>, d) = <<d>>
  <1>1. Showing(<<>>, d) = <<d>>
    BY DEF Showing, Visible
  <1>2. Without(<<d>>, d) = <<>>
    <2>1. Visible(<<d>>, d)
      BY DEF Visible
    <2>2. Len(<<d>>) - 1 = 0
      OBVIOUS
    <2> DEFINE at == CHOOSE i \in DOMAIN <<d>> : <<d>>[i] = d
               r == [j \in 1 .. (Len(<<d>>) - 1) |-> IF j < at THEN <<d>>[j] ELSE <<d>>[j + 1]]
    <2>3. Without(<<d>>, d) = r
      BY <2>1 DEF Without
    <2> HIDE DEF at
    <2>4. r = <<>>
      BY <2>2
    <2>5. QED BY <2>3, <2>4
  <1>3. QED BY <1>1, <1>2

\* A transaction that exists has not been committed.
LEMMA LiveUncommitted ==
    ASSUME OnceInv, NEW t \in Txs, state[t] # "disposed"
    PROVE  commits[t] = 0
  BY DEF OnceInv, CommittedIsDisposed

\* The user's word on a live transaction changes nothing sent before.
LEMMA DecideUnsent ==
    ASSUME AloneInv, NEW word, Decide(word), UNCHANGED <<auto, commits, allowed>>
    PROVE  NothingSentUnconfirmedAlone'
  <1>1. CASE popupTx # NoTx /\ state[popupTx] = "live"
    <2>1. popupTx \in Txs /\ commits[popupTx] = 0
      BY <1>1, LiveUncommitted DEF AloneInv, OnceInv, TypeOK
    <2>2. decision' = [decision EXCEPT ![popupTx] = word]
      BY <1>1 DEF Decide
    <2>3. QED BY <2>1, <2>2 DEF AloneInv, OnceInv, TypeOK, NothingSentUnconfirmedAlone,
            NothingSentUnconfirmed
  <1>2. CASE ~(popupTx # NoTx /\ state[popupTx] = "live")
    BY <1>2 DEF Decide, AloneInv, NothingSentUnconfirmedAlone, NothingSentUnconfirmed
  <1>3. QED BY <1>1, <1>2

\* A dialog on top is the only one, and what AloneWindows says of it holds.
LEMMA OnlyWindow ==
    ASSUME AloneInv, NEW d \in Dialogs, OnTop(d)
    PROVE  dialogs = <<d>>
  BY DEF AloneInv, AloneWindows, OnTop, Idle, Dialogs

LEMMA WindowFacts ==
    ASSUME AloneInv
    PROVE  /\ Idle \/ dialogs # <<"splash">> => \A t \in Txs : state[t] # "creating"
           /\ dialogs = <<"splash">> => \A t \in Txs : state[t] = "creating" => t = asked
           /\ dialogs = <<"info">> /\ onCloseCallback = "reopenPassword" => AskedAndConfirmed
           /\ dialogs = <<"popup">> => InHand
           /\ dialogs \in {<<"password">>, <<"saveTx">>} => AskedAndConfirmed
  <1>1. /\ <<"splash">> # <<>> /\ <<"info">> # <<>> /\ <<"popup">> # <<>>
        /\ <<"password">> # <<>> /\ <<"saveTx">> # <<>>
    OBVIOUS
  <1>2. /\ <<"splash">>[1] = "splash" /\ <<"info">>[1] = "info" /\ <<"popup">>[1] = "popup"
        /\ <<"password">>[1] = "password" /\ <<"saveTx">>[1] = "saveTx"
    OBVIOUS
  <1>3. QED BY <1>1, <1>2 DEF AloneInv, AloneWindows, Idle

AlonePart == AloneWindows /\ CallbackInHand /\ auto = {} /\ NothingSentUnconfirmedAlone

\* What was sent before stays as it is.
LEMMA UnsentKept ==
    ASSUME AloneInv, UNCHANGED <<auto, commits, decision, allowed>>
    PROVE  NothingSentUnconfirmedAlone'
  BY DEF AloneInv, NothingSentUnconfirmedAlone, NothingSentUnconfirmed

LEMMA InHandKept ==
    ASSUME UNCHANGED <<popupTx, transaction, state, decision, allowed>>
    PROVE  (InHand => InHand') /\ (AskedAndConfirmed => AskedAndConfirmed')
  BY DEF InHand, AskedAndConfirmed

LEMMA AloneInit == Init => AloneInv
  <1>1. SUFFICES ASSUME Init PROVE AloneInv
    OBVIOUS
  <1>2. \A t \in Txs : commits[t] = 0 /\ state[t] = "none"
    BY <1>1 DEF Init
  <1>3. AloneWindows /\ CallbackInHand
    BY <1>1, <1>2 DEF Init, AloneWindows, CallbackInHand, Idle
  <1>4. NothingSentUnconfirmedAlone
    BY <1>2 DEF NothingSentUnconfirmedAlone, NothingSentUnconfirmed
  <1>5. QED BY <1>1, <1>3, <1>4, OnceInit DEF AloneInv, Init

LEMMA AloneRequest ==
    ASSUME AloneInv, HandlePayment \/ PaymentRefused
    PROVE  AlonePart'
  <1>1. dialogs = <<>> /\ (\A t \in Txs : state[t] # "creating")
    BY WindowFacts DEF HandlePayment, PaymentRefused, Idle
  <1>2. CASE HandlePayment
    <2>1. Ask /\ state' = [state EXCEPT ![asked + 1] = "creating"]
          /\ dialogs' = <<"splash">>
          /\ UNCHANGED <<auto, transaction, popupTx, onCloseCallback, commits, decision, allowed>>
      BY <1>1, <1>2, LoneWindow DEF HandlePayment
    <2>2. asked' = asked + 1 /\ state[asked + 1] = "none" /\ asked + 1 \in Txs
      BY <2>1, OnceAsked DEF AloneInv
    <2>3. \A t \in Txs : state'[t] = "creating" => t = asked'
      BY <1>1, <2>1, <2>2 DEF AloneInv, OnceInv, TypeOK
    <2>4. AloneWindows'
      BY <2>1, <2>3 DEF AloneWindows
    <2>5. CallbackInHand'
      <3>1. ASSUME onCloseCallback = "reopenPassword" PROVE InHand'
        <4>1. InHand /\ transaction \in Txs
          BY <3>1 DEF AloneInv, CallbackInHand, InHand, OnceInv, TypeOK
        <4>2. transaction # asked + 1
          BY <2>2, <4>1 DEF InHand
        <4>3. QED BY <2>1, <2>2, <4>1, <4>2 DEF InHand, AloneInv, OnceInv, TypeOK
      <3>2. QED BY <2>1, <3>1 DEF CallbackInHand
    <2>6. QED BY <2>1, <2>4, <2>5, UnsentKept DEF AlonePart, AloneInv
  <1>3. CASE PaymentRefused
    <2>1. dialogs' = <<"info">> /\ onCloseCallback' = "null"
          /\ UNCHANGED <<state, auto, commits, decision, allowed>>
      BY <1>1, <1>3, LoneWindow DEF PaymentRefused, Inform
    <2>2. AloneWindows' /\ CallbackInHand'
      BY <1>1, <2>1 DEF AloneWindows, CallbackInHand
    <2>3. QED BY <2>1, <2>2, UnsentKept DEF AlonePart, AloneInv
  <1>4. QED BY <1>2, <1>3

\* A construction ends with no other under way, and no window left but its own.
LEMMA AloneBuilt ==
    ASSUME AloneInv, NEW t \in Txs, \A u \in Txs : u # t => state[u] # "creating",
           transaction' = t, Confirm(t, <<>>) \/ Fail(t, <<>>),
           UNCHANGED <<auto, commits, decision, allowed>>
    PROVE  AlonePart'
  <1>1. NothingSentUnconfirmedAlone'
    BY UnsentKept
  <1>2. CASE Confirm(t, <<>>)
    <2>1. dialogs' = <<"popup">> /\ popupTx' = t /\ state' = [state EXCEPT ![t] = "live"]
      BY <1>2, LoneWindow DEF Confirm
    <2>2. state'[t] = "live" /\ \A u \in Txs : state'[u] # "creating"
      BY <2>1 DEF AloneInv, OnceInv, TypeOK
    <2>3. InHand'
      BY <2>1, <2>2 DEF InHand, Txs, NoTx
    <2>4. QED BY <1>1, <2>1, <2>2, <2>3 DEF AlonePart, AloneInv, AloneWindows, CallbackInHand
  <1>3. CASE Fail(t, <<>>)
    <2>1. dialogs' = <<"info">> /\ onCloseCallback' = "null"
          /\ state' = [state EXCEPT ![t] = "disposed"]
      BY <1>3, LoneWindow DEF Fail, Inform
    <2>2. \A u \in Txs : state'[u] # "creating"
      BY <2>1 DEF AloneInv, OnceInv, TypeOK
    <2>3. QED BY <1>1, <2>1, <2>2 DEF AlonePart, AloneInv, AloneWindows, CallbackInHand
  <1>4. QED BY <1>2, <1>3

LEMMA AloneCreated ==
    ASSUME AloneInv, Created
    PROVE  AlonePart'
  <1>1. PICK t \in Txs : OnTransactionCreated(t)
    BY DEF Created, OnTransactionAutoCreated, AloneInv
  <1>2. state[t] = "creating"
    BY <1>1 DEF OnTransactionCreated
  <1>3. dialogs = <<"splash">>
    BY <1>2, WindowFacts
  <1>4. \A u \in Txs : u # t => state[u] # "creating"
    BY <1>2, <1>3, WindowFacts
  <1>5. Without(dialogs, "splash") = <<>>
    BY <1>3, LoneWindow
  <1>6. QED BY <1>1, <1>4, <1>5, AloneBuilt DEF OnTransactionCreated

LEMMA AloneSweep ==
    ASSUME AloneInv, HandleSweepUnmixable
    PROVE  AlonePart'
  <1>1. dialogs = <<>> /\ (\A t \in Txs : state[t] # "creating")
    BY WindowFacts DEF HandleSweepUnmixable, Idle
  <1>2. asked + 1 \in Txs
    BY OnceAsked DEF AloneInv, HandleSweepUnmixable
  <1>3. QED BY <1>1, <1>2, AloneBuilt DEF HandleSweepUnmixable

LEMMA AlonePopup ==
    ASSUME AloneInv, PopupAccepted
    PROVE  AlonePart'
  <1>1. dialogs = <<"popup">>
    BY OnlyWindow DEF PopupAccepted, Dialogs
  <1>2. InHand
    BY <1>1, WindowFacts
  <1>3. \A t \in Txs : state[t] # "creating"
    <2>1. "popup" # "splash" /\ <<"popup">>[1] = "popup" /\ <<"splash">>[1] = "splash"
      OBVIOUS
    <2>2. dialogs # <<"splash">>
      BY <1>1, <2>1
    <2>3. QED BY <2>2, WindowFacts
  <1>4. Decide("confirmed") /\ dialogs' = <<"password">>
        /\ UNCHANGED <<state, auto, transaction, popupTx, onCloseCallback, commits, allowed>>
    BY <1>1, LoneWindow DEF PopupAccepted
  <1>5. decision'[transaction] = "confirmed"
    BY <1>2, <1>4 DEF Decide, InHand, AloneInv, OnceInv, TypeOK
  <1>6. InHand' /\ AskedAndConfirmed'
    BY <1>2, <1>4, <1>5 DEF InHand, AskedAndConfirmed
  <1>7. AloneWindows' /\ CallbackInHand'
    BY <1>3, <1>4, <1>6 DEF AloneWindows, CallbackInHand
  <1>8. QED BY <1>4, <1>7, DecideUnsent DEF AlonePart, AloneInv

LEMMA AloneCancelled ==
    ASSUME AloneInv, NEW d \in Dialogs, Cancelled(d)
    PROVE  AlonePart'
  <1>1. dialogs = <<d>> /\ d # "splash"
    BY OnlyWindow DEF Cancelled
  <1>2. \A t \in Txs : state[t] # "creating"
    <2>1. <<d>>[1] = d /\ <<"splash">>[1] = "splash"
      OBVIOUS
    <2>2. dialogs # <<"splash">>
      BY <1>1, <2>1
    <2>3. QED BY <2>2, WindowFacts
  <1>3. dialogs' = <<>> /\ Decide("cancelled")
        /\ UNCHANGED <<state, auto, transaction, popupTx, onCloseCallback, commits, allowed>>
    BY <1>1, LoneWindow DEF Cancelled
  <1>4. AloneWindows' /\ CallbackInHand'
    BY <1>2, <1>3 DEF AloneInv, AloneWindows, CallbackInHand, InHand, Idle
  <1>5. QED BY <1>3, <1>4, DecideUnsent DEF AlonePart, AloneInv

\* handleTransactionConfirmed with the popup's transaction in hand.
LEMMA AloneConfirmed ==
    ASSUME AloneInv, AskedAndConfirmed, \A t \in Txs : state[t] # "creating",
           HandleTransactionConfirmed(<<>>), UNCHANGED <<auto, decision, allowed>>
    PROVE  AlonePart'
  <1>1. transaction \in Txs
    BY DEF AloneInv, OnceInv, TypeOK, AskedAndConfirmed, InHand
  <1>2. /\ commits' = [commits EXCEPT ![transaction] = commits[transaction] + 1]
        /\ state' = [state EXCEPT ![transaction] = "disposed"]
        /\ dialogs' = <<"info">> /\ onCloseCallback' = "null"
    BY LoneWindow DEF HandleTransactionConfirmed, AskedAndConfirmed, InHand, Inform
  <1>3. \A t \in Txs : state'[t] # "creating"
    BY <1>2 DEF AloneInv, OnceInv, TypeOK
  <1>4. NothingSentUnconfirmedAlone'
    BY <1>1, <1>2
    DEF AloneInv, OnceInv, TypeOK, NothingSentUnconfirmedAlone, NothingSentUnconfirmed,
        AskedAndConfirmed
  <1>5. QED BY <1>2, <1>3, <1>4 DEF AlonePart, AloneInv, AloneWindows, CallbackInHand

\* The password and file dialogs are shown only for the transaction in hand.
LEMMA AlonePassword ==
    ASSUME AloneInv, NEW d \in {"password", "saveTx"}, OnTop(d)
    PROVE  /\ dialogs = <<d>> /\ AskedAndConfirmed
           /\ \A t \in Txs : state[t] # "creating"
           /\ Without(dialogs, d) = <<>>
  <1>1. dialogs = <<d>>
    BY OnlyWindow DEF Dialogs
  <1>2. <<d>>[1] = d /\ <<"splash">>[1] = "splash"
    OBVIOUS
  <1>3. dialogs # <<"splash">>
    BY <1>1, <1>2
  <1>4. dialogs \in {<<"password">>, <<"saveTx">>}
    BY <1>1
  <1>5. QED BY <1>1, <1>3, <1>4, WindowFacts, LoneWindow

LEMMA AloneSigned ==
    ASSUME AloneInv, PasswordRight \/ PasswordWrong \/ SaveTxAccepted
    PROVE  AlonePart'
  <1>1. CASE PasswordRight
    <2>1. OnTop("password")
      BY <1>1 DEF PasswordRight
    <2>2. CASE viewOnly
      <3>1. dialogs' = <<"saveTx">>
            /\ UNCHANGED <<state, auto, transaction, popupTx, onCloseCallback, commits,
                           decision, allowed>>
        BY <1>1, <2>1, <2>2, AlonePassword, LoneWindow DEF PasswordRight
      <3>2. InHand' /\ AskedAndConfirmed'
        BY <2>1, <3>1, AlonePassword, InHandKept DEF AskedAndConfirmed
      <3>3. AloneWindows' /\ CallbackInHand'
        BY <2>1, <3>1, <3>2, AlonePassword DEF AloneWindows, CallbackInHand
      <3>4. QED BY <3>1, <3>3, UnsentKept DEF AlonePart, AloneInv
    <2>3. CASE ~viewOnly
      <3>1. HandleTransactionConfirmed(<<>>)
        BY <1>1, <2>1, <2>3, AlonePassword DEF PasswordRight
      <3>2. QED BY <1>1, <2>1, <3>1, AlonePassword, AloneConfirmed DEF PasswordRight
    <2>4. QED BY <2>2, <2>3
  <1>2. CASE PasswordWrong
    <2>1. OnTop("password")
      BY <1>2 DEF PasswordWrong
    <2>2. dialogs' = <<"info">>
          /\ UNCHANGED <<state, auto, transaction, popupTx, commits, decision, allowed>>
      BY <1>2, <2>1, AlonePassword, LoneWindow DEF PasswordWrong
    <2>3. InHand' /\ AskedAndConfirmed'
      BY <2>1, <2>2, AlonePassword, InHandKept DEF AskedAndConfirmed
    <2>4. AloneWindows' /\ CallbackInHand'
      BY <2>1, <2>2, <2>3, AlonePassword DEF AloneWindows, CallbackInHand
    <2>5. QED BY <2>2, <2>4, UnsentKept DEF AlonePart, AloneInv
  <1>3. CASE SaveTxAccepted
    <2>1. OnTop("saveTx")
      BY <1>3 DEF SaveTxAccepted
    <2>2. HandleTransactionConfirmed(<<>>)
      BY <1>3, <2>1, AlonePassword DEF SaveTxAccepted
    <2>3. QED BY <1>3, <2>1, <2>2, AlonePassword, AloneConfirmed DEF SaveTxAccepted
  <1>4. QED BY <1>1, <1>2, <1>3

\* The popup closes; a callback shows the password dialog for the transaction
\* in hand, which was accepted if nothing else goes on.
LEMMA AloneInfoClosed ==
    ASSUME AloneInv, InfoClosed
    PROVE  AlonePart'
  <1>1. dialogs = <<"info">> /\ Without(dialogs, "info") = <<>>
    BY OnlyWindow, LoneWindow DEF InfoClosed, Dialogs
  <1>2. <<"info">>[1] = "info" /\ <<"splash">>[1] = "splash"
    OBVIOUS
  <1>3. \A t \in Txs : state[t] # "creating"
    BY <1>1, <1>2, WindowFacts
  <1>4. UNCHANGED <<state, auto, transaction, popupTx, onCloseCallback, commits, decision, allowed>>
    BY DEF InfoClosed
  <1>5. AloneWindows'
    <2>1. CASE onCloseCallback = "null"
      BY <1>1, <1>3, <1>4, <2>1 DEF InfoClosed, AloneWindows, Idle
    <2>2. CASE onCloseCallback = "reopenPassword"
      <3>1. AskedAndConfirmed'
        BY <1>1, <1>4, <2>2, WindowFacts, InHandKept
      <3>2. dialogs' = <<"password">>
        BY <1>1, <2>2, LoneWindow DEF InfoClosed
      <3>3. QED BY <1>3, <1>4, <3>1, <3>2 DEF AloneWindows
    <2>3. QED BY <2>1, <2>2 DEF AloneInv, OnceInv, TypeOK
  <1>6. CallbackInHand'
    BY <1>4, InHandKept DEF AloneInv, CallbackInHand
  <1>7. QED BY <1>4, <1>5, <1>6, UnsentKept DEF AlonePart, AloneInv

\* A check shows its result over no other window, with the callback it finds.
LEMMA AloneChecked ==
    ASSUME AloneInv, HandleCheckPayment
    PROVE  AlonePart'
  <1>1. dialogs = <<>> /\ (\A t \in Txs : state[t] # "creating")
    BY WindowFacts DEF HandleCheckPayment, Idle
  <1>2. dialogs' = <<"info">> /\ onCloseCallback' \in {onCloseCallback, "null"}
        /\ UNCHANGED <<state, auto, transaction, popupTx, commits, decision, allowed>>
    BY <1>1, LoneWindow DEF HandleCheckPayment
  <1>3. CallbackInHand'
    BY <1>2, InHandKept DEF AloneInv, CallbackInHand
  <1>4. allowed' # {}
    BY DEF HandleCheckPayment
  <1>5. AloneWindows'
    BY <1>1, <1>2, <1>3, <1>4 DEF AloneWindows, CallbackInHand, AskedAndConfirmed
  <1>6. QED BY <1>2, <1>3, <1>5, UnsentKept DEF AlonePart, AloneInv

LEMMA AloneNext ==
    ASSUME allowed \subseteq {"paymentChecks"}, AloneInv, [Next]_vars
    PROVE  AloneInv'
  <1>1. OnceInv'
    BY OnceNext DEF AloneInv
  <1>2. ~HandleAutoPayment /\ ~AutoPaymentRefused /\ ~SplashClosed
    BY DEF HandleAutoPayment, AutoPaymentRefused, SplashClosed
  <1>3. AlonePart'
    <2>1. CASE UNCHANGED vars
      <3>1. AloneWindows' /\ CallbackInHand'
        BY <2>1, InHandKept DEF vars, AloneInv, AloneWindows, CallbackInHand, Idle
      <3>2. QED BY <2>1, <3>1, UnsentKept DEF vars, AlonePart, AloneInv
    <2>2. CASE Created
      BY <2>2, AloneCreated
    <2>3. CASE User
      BY <1>2, <2>3, AloneRequest, AloneSweep, AlonePopup, AloneCancelled, AloneSigned,
         AloneInfoClosed, AloneChecked DEF User
    <2>4. QED BY <1>2, <2>1, <2>2, <2>3 DEF Next
  <1>4. QED BY <1>1, <1>3 DEF AloneInv, AlonePart

\* What else goes on is settled at the beginning.
LEMMA AllowedFixed == [Next]_vars => UNCHANGED allowed
  BY DEF Next, vars, Created, User, OnTransactionCreated, OnTransactionAutoCreated,
     HandlePayment, PaymentRefused, HandleSweepUnmixable, HandleAutoPayment,
     AutoPaymentRefused, PopupAccepted, Cancelled, PasswordRight, PasswordWrong,
     SaveTxAccepted, InfoClosed, HandleCheckPayment, SplashClosed

\* With no automatic payment, no payment check and no closing of the splash in
\* between, nothing is sent by hand but what the user accepted in the popup and
\* has not cancelled since, however many payments are made and whatever the
\* answers to the dialogs are.
THEOREM NothingUnconfirmed == Spec => []NothingSentUnconfirmedAlone
  <1> DEFINE Inv == allowed \subseteq {"paymentChecks"} => AloneInv
  <1>1. Init => Inv
    BY AloneInit
  <1>2. Inv /\ [Next]_vars => Inv'
    BY AloneNext, AllowedFixed
  <1>3. Inv => NothingSentUnconfirmedAlone
    BY DEF AloneInv, NothingSentUnconfirmedAlone
  <1>4. QED BY <1>1, <1>2, <1>3, PTL DEF Spec

\* With payment checks in between as well every dialog speaks of the transaction
\* that commit would send: the popup's text, the global and the live object agree.
\* What a stale callback revives is thus a payment the user has cancelled, never
\* one the user has not seen.
THEOREM DialogsAgree == Spec => []DialogIsAboutTransactionAlone
  <1> DEFINE Inv == allowed \subseteq {"paymentChecks"} => AloneInv
  <1>1. Init => Inv
    BY AloneInit
  <1>2. Inv /\ [Next]_vars => Inv'
    BY AloneNext, AllowedFixed
  <1>3. Inv => DialogIsAboutTransactionAlone
    <2>1. SUFFICES ASSUME AloneInv, NEW i \in DOMAIN dialogs,
                          dialogs[i] \in {"popup", "password", "saveTx"}
                   PROVE  popupTx = transaction /\ transaction # NoTx
                          /\ state[transaction] = "live"
      BY DEF DialogIsAboutTransactionAlone, DialogIsAboutTransaction
    <2>2. dialogs \in {<<"popup">>, <<"password">>, <<"saveTx">>}
      BY <2>1 DEF AloneInv, AloneWindows, Idle
    <2>3. InHand
      BY <2>1, <2>2, WindowFacts DEF AskedAndConfirmed
    <2>4. QED BY <2>3 DEF InHand
  <1>4. QED BY <1>1, <1>2, <1>3, PTL DEF Spec

-----------------------------------------------------------------------------
(* Payment implements Ledger.                                               *)

Accepted == {t \in Txs : decision[t] = "confirmed"}
PhaseOf == [t \in Txs |-> Phase(t)]

LEMMA BookVars ==
  /\ Book!Phases = {"none", "building", "built", "gone"}
  /\ \A t \in Txs : PhaseOf[t] = Phase(t)
  BY DEF Book!Phases, PhaseOf

LEMMA BookInit == Init => Book!Init
  <1>1. SUFFICES ASSUME Init PROVE Book!Init
    OBVIOUS
  <1>2. \A t \in Txs : Phase(t) = "none" /\ decision[t] = "none"
    BY <1>1 DEF Init, Phase
  <1>3. QED BY <1>1, <1>2 DEF Init, Book!Init

\* A step that moves one object on moves its phase on, and no other.
LEMMA PhaseMoves ==
    ASSUME TypeOK, NEW t \in Txs, NEW st \in States, state' = [state EXCEPT ![t] = st]
    PROVE  /\ PhaseOf' = [PhaseOf EXCEPT ![t] = Phase(t)']
           /\ Phase(t)' = CASE st = "creating" -> "building"
                            [] st = "live" -> "built"
                            [] st = "disposed" -> "gone"
                            [] OTHER -> "none"
  <1>1. state'[t] = st /\ \A u \in Txs : u # t => state'[u] = state[u]
    BY DEF TypeOK
  <1>2. \A u \in Txs : u # t => Phase(u)' = Phase(u)
    BY <1>1 DEF Phase
  <1>3. PhaseOf' = [PhaseOf EXCEPT ![t] = Phase(t)']
    BY <1>2 DEF PhaseOf
  <1>4. QED BY <1>1, <1>3 DEF Phase

LEMMA AcceptedSame == UNCHANGED decision => Accepted' = Accepted
  BY DEF Accepted

\* A step that changes none of what the ledger records is a stutter of it.
LEMMA BookStutter ==
    ASSUME UNCHANGED <<state, auto, decision, commits, allowed>>
    PROVE  UNCHANGED Book!ledger
  BY DEF Book!ledger, Phase

\* The object of t reaches "built" or "gone" by the end of its construction.
LEMMA BookBuilt ==
    ASSUME OnceInv, NEW t \in Txs, NEW ds, state[t] = "creating", t \notin auto,
           Confirm(t, ds) \/ Fail(t, ds), UNCHANGED <<auto, decision, commits, allowed>>
    PROVE  Book!Build(t)
  <1>1. PICK st \in {"live", "disposed"} : state' = [state EXCEPT ![t] = st]
    BY DEF Confirm, Fail
  <1>2. Phase(t) = "building" /\ Phase(t)' \in {"built", "gone"}
        /\ PhaseOf' = [PhaseOf EXCEPT ![t] = Phase(t)']
    <2>1. PhaseOf' = [PhaseOf EXCEPT ![t] = Phase(t)'] /\ Phase(t)' \in {"built", "gone"}
      BY <1>1, PhaseMoves DEF OnceInv, States
    <2>2. QED BY <2>1 DEF Phase
  <1>3. Accepted' = Accepted
    BY AcceptedSame
  <1>4. QED BY <1>2, <1>3 DEF Book!Build, PhaseOf, Accepted

LEMMA BookFailed ==
    ASSUME OnceInv, NEW t \in Txs, NEW ds, state[t] = "creating", Fail(t, ds),
           UNCHANGED <<auto, decision, commits, allowed>>
    PROVE  Book!Build(t)
  <1>1. state' = [state EXCEPT ![t] = "disposed"]
    BY DEF Fail
  <1>2. Phase(t) = "building" /\ Phase(t)' = "gone"
        /\ PhaseOf' = [PhaseOf EXCEPT ![t] = Phase(t)']
    <2>1. PhaseOf' = [PhaseOf EXCEPT ![t] = Phase(t)'] /\ Phase(t)' = "gone"
      BY <1>1, PhaseMoves DEF OnceInv, States
    <2>2. QED BY <2>1 DEF Phase
  <1>3. Accepted' = Accepted
    BY AcceptedSame
  <1>4. QED BY <1>2, <1>3 DEF Book!Build, PhaseOf, Accepted

LEMMA BookSent ==
    ASSUME OnceInv, NEW t \in Txs, state' = [state EXCEPT ![t] = "disposed"],
           commits' = [commits EXCEPT ![t] = commits[t] + 1],
           \/ state[t] = "creating" /\ t \in auto
           \/ state[t] = "live" /\ (allowed = {} => decision[t] = "confirmed"),
           UNCHANGED <<auto, decision, allowed>>
    PROVE  Book!Send(t)
  <1>1. commits[t] = 0
    BY LiveUncommitted
  <1>2. commits' = [commits EXCEPT ![t] = 1]
    BY <1>1
  <1>3. Phase(t)' = "gone" /\ PhaseOf' = [PhaseOf EXCEPT ![t] = "gone"]
    BY PhaseMoves DEF OnceInv, States
  <1>4. \/ Phase(t) = "building" /\ t \in auto
        \/ Phase(t) = "built" /\ (allowed = {} => t \in Accepted)
    BY DEF Phase, Accepted
  <1>5. Accepted' = Accepted
    BY AcceptedSame
  <1>6. QED BY <1>1, <1>2, <1>3, <1>4, <1>5 DEF Book!Send, PhaseOf, Accepted

\* A transaction is asked for.
LEMMA BookAskedFor ==
    ASSUME OnceInv, NEW t \in Txs, state[t] = "none",
           NEW st \in {"creating", "live", "disposed"}, state' = [state EXCEPT ![t] = st],
           auto' = auto \/ (auto' = auto \cup {t} /\ st = "creating"),
           UNCHANGED <<decision, commits, allowed>>
    PROVE  Book!Ask(t)
  <1>1. /\ PhaseOf' = [PhaseOf EXCEPT ![t] = Phase(t)']
        /\ Phase(t)' \in Book!Phases \ {"none"}
        /\ st = "creating" => Phase(t)' = "building"
    <2>1. /\ PhaseOf' = [PhaseOf EXCEPT ![t] = Phase(t)']
          /\ Phase(t)' = CASE st = "creating" -> "building"
                           [] st = "live" -> "built"
                           [] st = "disposed" -> "gone"
                           [] OTHER -> "none"
      BY PhaseMoves DEF OnceInv, States
    <2>2. QED BY <2>1 DEF Book!Phases
  <1>2. Phase(t) = "none"
    BY DEF Phase
  <1>3. Accepted' = Accepted
    BY AcceptedSame
  <1>4. PhaseOf[t] = "none" /\ PhaseOf'[t] = Phase(t)'
    BY <1>2 DEF PhaseOf
  <1>5. QED BY <1>1, <1>3, <1>4 DEF Book!Ask, PhaseOf, Accepted

LEMMA BookAsked ==
    ASSUME OnceInv, Ask, NEW st \in {"creating", "live", "disposed"},
           state' = [state EXCEPT ![asked + 1] = st],
           auto' = auto \/ (auto' = auto \cup {asked + 1} /\ st = "creating"),
           UNCHANGED <<decision, commits, allowed>>
    PROVE  Book!Ask(asked + 1)
  BY OnceAsked, BookAskedFor

\* The user's word.
LEMMA BookSaid ==
    ASSUME OnceInv, NEW word \in {"confirmed", "cancelled"}, Decide(word),
           UNCHANGED <<state, auto, commits, allowed>>
    PROVE  [Book!Next]_(Book!ledger)
  <1>1. CASE popupTx # NoTx /\ state[popupTx] = "live"
    <2>1. PICK t \in Txs : t = popupTx
      BY <1>1 DEF OnceInv, TypeOK
    <2>2. state[t] = "live" /\ decision' = [decision EXCEPT ![t] = word]
      BY <1>1, <2>1 DEF Decide
    <2>3. Accepted' \in {Accepted \cup {t}, Accepted \ {t}}
      <3>1. CASE word = "confirmed"
        BY <2>2, <3>1 DEF Accepted, OnceInv, TypeOK
      <3>2. CASE word = "cancelled"
        BY <2>2, <3>2 DEF Accepted, OnceInv, TypeOK
      <3>3. QED BY <3>1, <3>2
    <2>4. PhaseOf[t] = "built" /\ PhaseOf' = PhaseOf
      BY <2>2 DEF PhaseOf, Phase
    <2>5. Book!Say(t)
      BY <2>3, <2>4 DEF Book!Say, PhaseOf, Accepted
    <2>6. QED BY <2>5 DEF Book!Next
  <1>2. CASE ~(popupTx # NoTx /\ state[popupTx] = "live")
    BY <1>2, BookStutter DEF Decide
  <1>3. QED BY <1>1, <1>2

\* The user's signature: what is signed was accepted, if nothing else goes on.
LEMMA BookConfirmed ==
    ASSUME OnceInv, allowed = {} => AloneInv /\ AskedAndConfirmed, NEW ds,
           HandleTransactionConfirmed(ds), UNCHANGED <<auto, decision, allowed>>
    PROVE  [Book!Next]_(Book!ledger)
  <1>1. CASE transaction # NoTx /\ state[transaction] = "live"
    <2>1. transaction \in Txs
      BY <1>1 DEF OnceInv, TypeOK
    <2>2. allowed = {} => decision[transaction] = "confirmed"
      BY DEF AskedAndConfirmed
    <2>3. commits' = [commits EXCEPT ![transaction] = commits[transaction] + 1]
          /\ state' = [state EXCEPT ![transaction] = "disposed"]
      BY <1>1 DEF HandleTransactionConfirmed
    <2>4. Book!Send(transaction)
      BY <1>1, <2>1, <2>2, <2>3, BookSent
    <2>5. QED BY <2>1, <2>4 DEF Book!Next
  <1>2. CASE ~(transaction # NoTx /\ state[transaction] = "live")
    BY <1>2, BookStutter DEF HandleTransactionConfirmed
  <1>3. QED BY <1>1, <1>2

LEMMA BookCreated ==
    ASSUME OnceInv, UNCHANGED allowed, NEW t \in Txs,
           OnTransactionCreated(t) \/ OnTransactionAutoCreated(t)
    PROVE  [Book!Next]_(Book!ledger)
  <1> DEFINE ds == Without(dialogs, "splash")
  <1> HIDE DEF ds
  <1>1. CASE OnTransactionCreated(t)
    <2>1. state[t] = "creating" /\ t \notin auto /\ (Confirm(t, ds) \/ Fail(t, ds))
          /\ UNCHANGED <<auto, decision, commits>>
      BY <1>1 DEF OnTransactionCreated, ds
    <2>2. QED BY <2>1, BookBuilt DEF Book!Next
  <1>2. CASE OnTransactionAutoCreated(t)
    <2>1. state[t] = "creating" /\ t \in auto /\ UNCHANGED <<auto, decision>>
          /\ \/ Fail(t, ds) /\ UNCHANGED commits
             \/ /\ state' = [state EXCEPT ![t] = "disposed"]
                /\ commits' = [commits EXCEPT ![t] = commits[t] + 1]
      BY <1>2 DEF OnTransactionAutoCreated, ds
    <2>2. Book!Build(t) \/ Book!Send(t)
      BY <2>1, BookFailed, BookSent
    <2>3. QED BY <2>2 DEF Book!Next
  <1>3. QED BY <1>1, <1>2

LEMMA BookNext ==
    ASSUME OnceInv, allowed = {} => AloneInv, [Next]_vars
    PROVE  [Book!Next]_(Book!ledger)
  <1>0. UNCHANGED allowed
    BY AllowedFixed
  <1>1. CASE HandlePayment \/ HandleAutoPayment
    <2>1. Ask /\ state' = [state EXCEPT ![asked + 1] = "creating"]
          /\ (auto' = auto \/ auto' = auto \cup {asked + 1}) /\ UNCHANGED <<decision, commits>>
      BY <1>1 DEF HandlePayment, HandleAutoPayment
    <2>2. Book!Ask(asked + 1)
      BY <1>0, <2>1, BookAsked
    <2>3. QED BY <2>1, <2>2, OnceAsked DEF Book!Next
  <1>2. CASE HandleSweepUnmixable
    <2>1. Ask /\ UNCHANGED <<auto, decision, commits>>
          /\ \E st \in {"live", "disposed"} : state' = [state EXCEPT ![asked + 1] = st]
      BY <1>2 DEF HandleSweepUnmixable, Confirm, Fail
    <2>2. Book!Ask(asked + 1)
      BY <1>0, <2>1, BookAsked
    <2>3. QED BY <2>1, <2>2, OnceAsked DEF Book!Next
  <1>3. CASE PopupAccepted \/ \E d \in Dialogs : Cancelled(d)
    BY <1>0, <1>3, BookSaid DEF PopupAccepted, Cancelled
  <1>4. CASE PasswordRight \/ SaveTxAccepted
    <2>1. allowed = {} => AloneInv /\ AskedAndConfirmed
      BY <1>4, AlonePassword DEF PasswordRight, SaveTxAccepted
    <2>2. UNCHANGED <<auto, decision>>
          /\ \/ UNCHANGED <<state, commits>>
             \/ \E ds \in {Without(dialogs, "password"), Without(dialogs, "saveTx")} :
                   HandleTransactionConfirmed(ds)
      BY <1>4 DEF PasswordRight, SaveTxAccepted
    <2>3. QED BY <1>0, <2>1, <2>2, BookConfirmed, BookStutter
  <1>5. CASE Created
    BY <1>0, <1>5, BookCreated DEF Created
  <1>6. CASE UNCHANGED <<state, auto, decision, commits>>
    BY <1>0, <1>6, BookStutter
  <1>7. UNCHANGED vars \/ PaymentRefused \/ AutoPaymentRefused \/ PasswordWrong \/ InfoClosed
        \/ HandleCheckPayment \/ SplashClosed => UNCHANGED <<state, auto, decision, commits>>
    BY DEF vars, PaymentRefused, AutoPaymentRefused, PasswordWrong, InfoClosed,
       HandleCheckPayment, SplashClosed
  <1>8. QED BY <1>1, <1>2, <1>3, <1>4, <1>5, <1>6, <1>7 DEF Next, User

\* Every behaviour of the payment dialogs is one of the ledger: a transaction is
\* sent at most once, only when it is built or paid automatically, and, if nothing
\* else shares the dialogs, only on the user's word.
THEOREM PaymentIsALedger == Spec => ImplementsLedger
  <1> DEFINE Inv == OnceInv /\ (allowed = {} => AloneInv)
  <1>1. Init => Inv
    BY AloneInit, OnceInit
  <1>2. Inv /\ [Next]_vars => Inv'
    BY OnceNext, AloneNext, AllowedFixed
  <1>3. Inv /\ [Next]_vars => [Book!Next]_(Book!ledger)
    BY BookNext
  <1>4. QED BY <1>1, <1>2, <1>3, BookInit, PTL DEF Spec, ImplementsLedger, Book!Spec

-----------------------------------------------------------------------------
(* The splash goes away.                                                    *)

Building == \E t \in Txs : state[t] = "creating"
Splash == Visible(dialogs, "splash")

\* No window is twice in the stack, so that hiding it once hides it.
Once(ds) == \A i, j \in DOMAIN ds : ds[i] = ds[j] => i = j

LEMMA ShowingOnce ==
    ASSUME NEW ds \in Seq(Dialogs), Once(ds), NEW d \in Dialogs
    PROVE  /\ Once(Showing(ds, d))
           /\ \A e : Visible(Showing(ds, d), e) <=> Visible(ds, e) \/ e = d
  <1>1. CASE Visible(ds, d)
    BY <1>1 DEF Showing, Visible
  <1>2. CASE ~Visible(ds, d)
    <2>1. /\ Showing(ds, d) = Append(ds, d)
          /\ DOMAIN Append(ds, d) = 1 .. Len(ds) + 1 /\ DOMAIN ds = 1 .. Len(ds)
          /\ Append(ds, d)[Len(ds) + 1] = d
          /\ \A i \in 1 .. Len(ds) : Append(ds, d)[i] = ds[i] /\ ds[i] # d
      BY <1>2 DEF Showing, Visible
    <2>2. QED BY <2>1 DEF Once, Visible
  <1>3. QED BY <1>1, <1>2

LEMMA WithoutOnce ==
    ASSUME NEW ds \in Seq(Dialogs), Once(ds), NEW d
    PROVE  /\ Once(Without(ds, d))
           /\ \A e : Visible(Without(ds, d), e) <=> Visible(ds, e) /\ e # d
  <1>1. CASE ~Visible(ds, d)
    BY <1>1 DEF Without, Visible
  <1>2. CASE Visible(ds, d)
    <2> DEFINE at == CHOOSE i \in DOMAIN ds : ds[i] = d
               r == [j \in 1 .. (Len(ds) - 1) |-> IF j < at THEN ds[j] ELSE ds[j + 1]]
    <2>1. at \in 1 .. Len(ds) /\ ds[at] = d /\ Without(ds, d) = r
      BY <1>2 DEF Visible, Without
    <2> HIDE DEF at
    <2>2. /\ DOMAIN ds = 1 .. Len(ds) /\ DOMAIN r = 1 .. (Len(ds) - 1) /\ Len(ds) \in Nat
          /\ \A j \in 1 .. (Len(ds) - 1) : r[j] = IF j < at THEN ds[j] ELSE ds[j + 1]
      OBVIOUS
    <2> HIDE DEF r
    <2>3. \A i \in 1 .. Len(ds) : i # at => ds[i] # d
      BY <2>1, <2>2 DEF Once
    <2>4. Once(r)
      BY <2>1, <2>2 DEF Once
    <2>5. ASSUME NEW e PROVE Visible(r, e) <=> Visible(ds, e) /\ e # d
      <3>1. ASSUME NEW j \in 1 .. (Len(ds) - 1) PROVE \E i \in 1 .. Len(ds) : r[j] = ds[i] /\ i # at
        <4>1. CASE j < at
          BY <2>2, <4>1
        <4>2. CASE ~(j < at)
          <5>1. j + 1 \in 1 .. Len(ds) /\ j + 1 # at /\ r[j] = ds[j + 1]
            BY <2>1, <2>2, <4>2
          <5>2. QED BY <5>1
        <4>3. QED BY <4>1, <4>2
      <3>2. ASSUME NEW i \in 1 .. Len(ds), i # at PROVE \E j \in 1 .. (Len(ds) - 1) : r[j] = ds[i]
        <4>1. CASE i < at
          BY <2>1, <2>2, <4>1
        <4>2. CASE i > at
          <5>1. i - 1 \in 1 .. (Len(ds) - 1) /\ ~(i - 1 < at) /\ (i - 1) + 1 = i
            BY <2>1, <2>2, <4>2
          <5>2. QED BY <2>2, <5>1
        <4>3. QED BY <2>1, <3>2, <4>1, <4>2
      <3>3. ASSUME Visible(r, e) PROVE Visible(ds, e) /\ e # d
        <4>1. PICK j \in 1 .. (Len(ds) - 1) : r[j] = e
          BY <2>2, <3>3 DEF Visible
        <4>2. PICK i \in 1 .. Len(ds) : e = ds[i] /\ i # at
          BY <3>1, <4>1
        <4>3. QED BY <2>2, <2>3, <4>2 DEF Visible
      <3>4. ASSUME Visible(ds, e), e # d PROVE Visible(r, e)
        <4>1. PICK i \in 1 .. Len(ds) : ds[i] = e /\ i # at
          BY <2>1, <2>2, <3>4 DEF Visible
        <4>2. PICK j \in 1 .. (Len(ds) - 1) : r[j] = e
          BY <3>2, <4>1
        <4>3. QED BY <2>2, <4>2 DEF Visible
      <3>5. QED BY <3>3, <3>4
    <2>6. QED BY <2>1, <2>4, <2>5
  <1>3. QED BY <1>1, <1>2

\* Windows come and go one by one; the splash comes with a new construction, and
\* the end of any construction takes it away.
LEMMA SplashSteps ==
    ASSUME TypeOK, Once(dialogs), [Next]_vars
    PROVE  /\ Once(dialogs')
           /\ Splash' => (Splash /\ ~Created) \/ HandlePayment
  <1> DEFINE Tame(ds) == Once(ds) /\ (Visible(ds, "splash") => Splash)
  <1>1. dialogs \in Seq(Dialogs) /\ Tame(dialogs)
    BY DEF TypeOK, Splash
  <1>2. ASSUME NEW d PROVE Without(dialogs, d) \in Seq(Dialogs) /\ Tame(Without(dialogs, d))
    BY <1>1, WithoutType, WithoutOnce DEF Splash
  <1>3. ASSUME NEW ds \in Seq(Dialogs), Tame(ds), NEW d \in Dialogs \ {"splash"}
        PROVE  Tame(Showing(ds, d))
    BY <1>3, ShowingOnce
  <1>4. {"popup", "password", "saveTx", "info"} \subseteq Dialogs \ {"splash"}
    BY DEF Dialogs
  <1> HIDE DEF Tame
  <1>5. ASSUME NEW ds \in Seq(Dialogs), Tame(ds), Inform(ds) PROVE Tame(dialogs')
    BY <1>3, <1>4, <1>5 DEF Inform
  <1>6. ASSUME NEW ds \in Seq(Dialogs), Tame(ds), HandleTransactionConfirmed(ds)
        PROVE  Tame(dialogs')
    BY <1>5, <1>6 DEF HandleTransactionConfirmed
  <1>7. ASSUME NEW t, NEW ds \in Seq(Dialogs), Tame(ds), Confirm(t, ds) \/ Fail(t, ds)
        PROVE  Tame(dialogs')
    BY <1>3, <1>4, <1>5, <1>7 DEF Confirm, Fail
  <1>8. CASE Created
    <2> DEFINE ds == Without(dialogs, "splash")
    <2>1. ds \in Seq(Dialogs) /\ Once(ds) /\ ~Visible(ds, "splash")
      BY <1>1, <1>2, WithoutOnce DEF Tame
    <2>2. ASSUME NEW d \in Dialogs \ {"splash"}
          PROVE  Once(Showing(ds, d)) /\ ~Visible(Showing(ds, d), "splash")
      BY <2>1, ShowingOnce
    <2>3. dialogs' \in {ds, Showing(ds, "popup"), Showing(ds, "info")}
      BY <1>8
      DEF Created, OnTransactionCreated, OnTransactionAutoCreated, Confirm, Fail, Inform
    <2>4. QED BY <1>4, <2>1, <2>2, <2>3 DEF Splash
  <1>9. CASE HandlePayment
    <2>1. dialogs' = Showing(dialogs, "splash") /\ "splash" \in Dialogs
      BY <1>9 DEF HandlePayment, Dialogs
    <2>2. QED BY <1>1, <1>9, <2>1, ShowingOnce
  <1>10. ~Created /\ ~HandlePayment => Tame(dialogs')
    <2>0. SUFFICES ASSUME ~Created, ~HandlePayment PROVE Tame(dialogs')
      OBVIOUS
    <2>1. CASE PaymentRefused \/ AutoPaymentRefused
      BY <1>1, <1>2, <1>5, <2>1 DEF PaymentRefused, AutoPaymentRefused
    <2>2. CASE HandleSweepUnmixable
      BY <1>1, <1>7, <2>2 DEF HandleSweepUnmixable
    <2>3. CASE PopupAccepted \/ PasswordWrong \/ InfoClosed
      BY <1>2, <1>3, <1>4, <2>3 DEF PopupAccepted, PasswordWrong, InfoClosed
    <2>4. CASE PasswordRight
      BY <1>2, <1>3, <1>4, <1>6, <2>4 DEF PasswordRight
    <2>5. CASE SaveTxAccepted
      BY <1>2, <1>6, <2>5 DEF SaveTxAccepted
    <2>6. CASE SplashClosed \/ \E d \in Dialogs : Cancelled(d)
      BY <1>2, <2>6 DEF SplashClosed, Cancelled
    <2>7. CASE HandleCheckPayment
      BY <1>1, <1>3, <1>4, <2>7 DEF HandleCheckPayment
    <2>8. CASE HandleAutoPayment \/ UNCHANGED vars
      BY <1>1, <2>8 DEF HandleAutoPayment, vars
    <2>9. QED
      BY <2>0, <2>1, <2>2, <2>3, <2>4, <2>5, <2>6, <2>7, <2>8 DEF Next, User
  <1>11. QED BY <1>8, <1>9, <1>10 DEF Tame, Splash

\* A construction under way stays so until its own signal is handled.
LEMMA BuildingStays ==
    ASSUME TypeOK, UnaskedIsNone, [Next]_vars, ~Created, Building
    PROVE  Building'
  <1>1. PICK t \in Txs : state[t] = "creating"
    BY DEF Building
  <1>2. Ask => asked + 1 # t
    <2>1. CASE Ask
      BY <1>1, <2>1, TypeAsk, PaymentAssumption DEF UnaskedIsNone, TypeOK, PaymentAssumption
    <2>2. QED BY <2>1
  <1>3. state'[t] = "creating"
    <2>1. CASE HandlePayment \/ HandleAutoPayment \/ HandleSweepUnmixable
      BY <1>1, <1>2, <2>1
      DEF HandlePayment, HandleAutoPayment, HandleSweepUnmixable, Confirm, Fail, TypeOK
    <2>2. ASSUME NEW ds, HandleTransactionConfirmed(ds) PROVE state'[t] = "creating"
      BY <1>1, <2>2 DEF HandleTransactionConfirmed, TypeOK
    <2>3. CASE PasswordRight \/ SaveTxAccepted
      BY <1>1, <2>2, <2>3 DEF PasswordRight, SaveTxAccepted
    <2>4. CASE UNCHANGED state
      BY <1>1, <2>4
    <2>5. QED
      BY <2>1, <2>3, <2>4
      DEF Next, User, vars, PaymentRefused, AutoPaymentRefused, PopupAccepted, PasswordWrong,
          Cancelled, InfoClosed, HandleCheckPayment, SplashClosed
  <1>4. QED BY <1>3 DEF Building

\* While the splash is on show a transaction is under construction.
SplashInv == OnceInv /\ Once(dialogs) /\ (Splash => Building)

LEMMA SplashInit == Init => SplashInv
  BY OnceInit DEF Init, SplashInv, Once, Splash, Visible

LEMMA SplashNext ==
    ASSUME SplashInv, [Next]_vars
    PROVE  SplashInv'
  <1>1. OnceInv' /\ Once(dialogs')
    BY OnceNext, SplashSteps DEF SplashInv, OnceInv
  <1>2. ASSUME Splash' PROVE Building'
    <2>1. CASE HandlePayment
      <3>1. asked + 1 \in Txs /\ state' = [state EXCEPT ![asked + 1] = "creating"]
        BY <2>1, TypeAsk DEF HandlePayment, SplashInv, OnceInv
      <3>2. QED BY <3>1 DEF SplashInv, OnceInv, TypeOK, Building
    <2>2. CASE Splash /\ ~Created
      BY <2>2, BuildingStays DEF SplashInv, OnceInv
    <2>3. QED BY <1>2, <2>1, <2>2, SplashSteps DEF SplashInv, OnceInv
  <1>3. QED BY <1>1, <1>2 DEF SplashInv

\* The splash that blocks the GUI has a reason: a transaction under construction,
\* the end of which hides it, whatever other windows opened and closed in between
\* and whoever closed the splash before.
THEOREM SplashHasReason ==
    Spec => [](Splash => Building) /\ [][Created => ~Splash']_vars
  <1>1. SplashInv => (Splash => Building)
    BY DEF SplashInv
  <1>2. SplashInv /\ [Next]_vars => [Created => ~Splash']_vars
    <2>1. ASSUME SplashInv, [Next]_vars, Created PROVE ~HandlePayment
      <3>1. PICK t \in Txs : state[t] = "creating" /\ asked' = asked
        BY <2>1 DEF Created, OnTransactionCreated, OnTransactionAutoCreated
      <3>2. Ask => asked' # asked
        BY TypeAsk, <2>1, PaymentAssumption
        DEF SplashInv, OnceInv, TypeOK, PaymentAssumption
      <3>3. QED BY <3>1, <3>2 DEF HandlePayment
    <2>2. QED BY <2>1, SplashSteps DEF SplashInv, OnceInv
  <1>3. QED BY <1>1, <1>2, SplashInit, SplashNext, PTL DEF Spec

\* What WF_vars(Created) says, with what a step of Created needs spelled out: unless
\* again and again nothing is under construction, constructions end.
ConstructionsEnd == []<>~Building \/ []<><<Created>>_vars

\* The splash goes away, for any number of transactions and whatever else goes on,
\* if constructions end.
THEOREM SplashGoesAway == Spec /\ ConstructionsEnd => SplashGoes
  <1>1. SplashGoes <=> (Splash ~> ~Splash)
    BY PTL DEF SplashGoes, Splash
  <1>2. QED BY <1>1, SplashHasReason, PTL DEF ConstructionsEnd

\* Created is enabled while something is under construction.
GuardsSuffice == Building => ENABLED <<Created>>_vars

\* The splash goes away under the fairness of the specification, for any number of
\* transactions, where that guard suffices.
THEOREM SplashGoesInTheEnd == FairSpec /\ []GuardsSuffice => SplashGoes
  <1>1. WF_vars(Created) /\ []GuardsSuffice => ConstructionsEnd
    BY PTL DEF ConstructionsEnd, GuardsSuffice
  <1>2. QED BY <1>1, SplashGoesAway, PTL DEF FairSpec
=============================================================================
