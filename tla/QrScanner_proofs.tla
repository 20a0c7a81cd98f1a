--------------------------- MODULE QrScanner_proofs ---------------------------
(***************************************************************************)
(* Theorems about QrScanner, for any codes, pages and bounds: what is      *)
(* filled in, in which order and for whom, and that scans end and the      *)
(* queue is worked off.                                                    *)
(***************************************************************************)
EXTENDS QrScanner, FiniteSetTheorems, TLAPS

-----------------------------------------------------------------------------
(* Types.                                                                   *)

LEMMA FrameType == ASSUME NEW s \in Scenes \union {Invalid}, NEW n \in 0 .. MaxScans
                   PROVE  [shows |-> s, scan |-> n] \in Frames
  BY DEF Frames

LEMMA TypeInit == Init => TypeOK
  <1> SUFFICES ASSUME Init PROVE TypeOK
    OBVIOUS
  <1>1. 0 \in 0 .. MaxScans
    BY QrAssumption DEF QrAssumption
  <1>2. NoFrame \in Frames
    BY <1>1, FrameType DEF NoFrame
  <1>3. queue \in Seq(Frames) /\ signals \in Seq(Signals)
    BY DEF Init
  <1>4. QED BY <1>1, <1>2, <1>3 DEF Init, TypeOK

LEMMA TypeNext == TypeOK /\ [Next]_vars => TypeOK'
  <1> SUFFICES ASSUME TypeOK, [Next]_vars PROVE TypeOK'
    OBVIOUS
  <1> USE DEF TypeOK
  <1>1. ASSUME NEW p \in Pages, ScanButton(p)
        PROVE  TypeOK'
    <2>1. scan' \in 0 .. MaxScans
      BY <1>1, QrAssumption DEF ScanButton, QrAssumption
    <2>2. timer' = (state' = "Capture") /\ state' \in {"Capture", "Stopped"}
      BY <1>1 DEF ScanButton, SetEnabled
    <2>3. clicked' \in [Pages -> 0 .. MaxScans] /\ connected' \subseteq Pages
      BY <1>1, <2>1 DEF ScanButton
    <2>4. QED BY <1>1, <2>1, <2>2, <2>3 DEF ScanButton, pipe
  <1>2. CASE DoubleClicked \/ DialogAccepted
    <2>1. timer' = (state' = "Capture") /\ state' \in {"Capture", "Stopped"}
      BY <1>2 DEF DoubleClicked, DialogAccepted, Stop, SetEnabled
    <2>2. QED BY <1>2, <2>1 DEF DoubleClicked, DialogAccepted, pipe, history
  <1>3. CASE DialogClosed
    BY <1>3 DEF DialogClosed, pipe, history
  <1>4. CASE Move
    BY <1>4 DEF Move, scanner, pipe, history
  <1>5. CASE ProcessFrame
    BY <1>5, FrameType DEF ProcessFrame, scanner, history
  <1>6. CASE TimerEvent
    <2>1. asleep' = FALSE /\ queue' \in Seq(Frames)
      BY <1>6 DEF TimerEvent, AddFrame
    <2>2. QED BY <1>6, <2>1 DEF TimerEvent, scanner, history
  <1>7. CASE WaitForFrame
    BY <1>7 DEF WaitForFrame, scanner, history
  <1>8. CASE ProcessVideoFrame
    <2>1. queue' \in Seq(Frames) /\ NextFrame.frame \in Frames
      BY <1>8 DEF ProcessVideoFrame, NextFrame
    <2>2. \A k \in {"error", "decoded"} : [about |-> NextFrame.frame, kind |-> k] \in Signals
      BY <2>1 DEF Signals
    <2>3. signals' \in Seq(Signals)
      <3>1. signals' = signals \/ \E x \in Signals : signals' = Append(signals, x)
        BY <1>8, <2>2 DEF ProcessVideoFrame, Tell
      <3>2. QED BY <3>1
    <2>4. QED BY <1>8, <2>1, <2>3 DEF ProcessVideoFrame, scanner, history
  <1>9. CASE ThreadError
    <2>1. signals' \in Seq(Signals)
      BY <1>9 DEF ThreadError, Handles
    <2>2. timer' = (state' = "Capture") /\ state' \in {"Capture", "Stopped"}
      BY <1>9 DEF ThreadError, NotifyError, Stop, SetEnabled
    <2>3. QED BY <1>9, <2>1, <2>2 DEF ThreadError, NotifyError
  <1>10. CASE ProcessCode
    <2>1. Head(signals) \in Signals
      BY <1>10 DEF ProcessCode, Handles
    <2>2. signals' \in Seq(Signals) /\ About \in Frames
      <3>1. signals' \in Seq(Signals)
        BY <1>10 DEF ProcessCode, Handles
      <3>2. QED BY <2>1, <3>1 DEF About, Signals
    <2>3. CASE ~Enabled /\ UNCHANGED <<scanner, served, filled>>
      BY <1>10, <2>2, <2>3 DEF ProcessCode, scanner
    <2>4. CASE Enabled /\ About.shows \notin Codes /\ NotifyError
      <3>1. timer' = (state' = "Capture") /\ state' \in {"Capture", "Stopped"}
        BY <2>4 DEF NotifyError, Stop, SetEnabled
      <3>2. QED BY <1>10, <2>2, <2>4, <3>1 DEF ProcessCode, NotifyError
    <2>5. CASE Enabled /\ About.shows \in Codes /\ DecodedCode
      <3>1. timer' = (state' = "Capture") /\ state' \in {"Capture", "Stopped"}
        BY <2>5 DEF DecodedCode, Stop, SetEnabled
      <3>2. dialog' \in BOOLEAN
        BY <2>5 DEF DecodedCode
      <3>3. filled' \in Frames /\ connected' = {} /\ served' = scan
        BY <2>2, <2>5 DEF DecodedCode, Disconnected
      <3>4. QED BY <1>10, <2>2, <3>1, <3>2, <3>3 DEF ProcessCode
    <2>6. QED BY <1>10, <2>3, <2>4, <2>5 DEF ProcessCode
  <1>11. CASE UNCHANGED vars
    BY <1>11 DEF vars, scanner, pipe, history
  <1>12. QED
    BY <1>1, <1>2, <1>3, <1>4, <1>5, <1>6, <1>7, <1>8, <1>9, <1>10, <1>11
    DEF Next, User, Thread, Gui

\* The scanner's state has its types, and the timer runs while a scan is on.
THEOREM TypeCorrect == Spec => []TypeOK
  BY TypeInit, TypeNext, PTL DEF Spec

-----------------------------------------------------------------------------
(* The thread and the forms.                                                *)

\* The thread never sleeps on a frame that waits, whatever the bounds: frames are
\* added and the queue is tested under one mutex.
THEOREM NeverSleepsOnFrames == Spec => []NoFrameSleptOn
  <1>1. Init => NoFrameSleptOn
    BY DEF Init, NoFrameSleptOn
  <1>2. NoFrameSleptOn /\ [Next]_vars => NoFrameSleptOn'
    <2> SUFFICES ASSUME NoFrameSleptOn, [Next]_vars PROVE NoFrameSleptOn'
      OBVIOUS
    <2> USE DEF NoFrameSleptOn
    <2>1. CASE User \/ UNCHANGED vars
      BY <2>1 DEF User, Move, DoubleClicked, DialogAccepted, DialogClosed, ScanButton, pipe, vars
    <2>2. CASE WaitForFrame
      BY <2>2 DEF WaitForFrame
    <2>3. CASE ProcessVideoFrame
      BY <2>3 DEF ProcessVideoFrame
    <2>4. CASE TimerEvent
      BY <2>4 DEF TimerEvent, AddFrame
    <2>5. CASE ProcessFrame \/ ThreadError \/ ProcessCode
      BY <2>5 DEF ProcessFrame, ThreadError, ProcessCode
    <2>6. QED BY <2>1, <2>2, <2>3, <2>4, <2>5 DEF Next, Thread, Gui
  <1>3. QED BY <1>1, <1>2, PTL DEF Spec

\* A scan fills in one code at most, and the code ends it.
THEOREM FillsOnce == Spec => OneCodePerScan
  <1>1. [Next]_vars => (filled' # filled => state = "Capture" /\ state' = "Stopped" /\ ~timer')
    <2> SUFFICES ASSUME [Next]_vars, filled' # filled
                 PROVE  state = "Capture" /\ state' = "Stopped" /\ ~timer'
      OBVIOUS
    <2>1. ProcessCode
      BY DEF Next, User, Thread, Gui, Move, DoubleClicked, DialogAccepted, DialogClosed,
         ScanButton, WaitForFrame, ProcessVideoFrame, ProcessFrame, TimerEvent, ThreadError,
         NotifyError, vars, history
    <2>2. Enabled /\ DecodedCode
      BY <2>1 DEF ProcessCode, NotifyError
    <2>3. QED BY <2>2 DEF Enabled, DecodedCode, Stop, SetEnabled
  <1>2. (filled' # filled => state = "Capture" /\ state' = "Stopped" /\ ~timer')
          => [filled' # filled => state = "Capture" /\ state' = "Stopped" /\ ~timer']_vars
    OBVIOUS
  <1>3. QED BY <1>1, PTL DEF Spec, OneCodePerScan

\* The scan that is on has filled in no code yet.
AskedInv ==
    AskedSinceLastCode /\ served <= scan /\ (state = "Capture" => served < scan)

\* Every page a code would fill has asked since the code before, and one of them in the
\* scan that is on.
THEOREM FormsAskedForIt == Spec => []AskedSinceLastCode
  <1>1. Init => AskedInv
    BY DEF Init, AskedInv, AskedSinceLastCode
  <1>2. TypeOK /\ AskedInv /\ [Next]_vars => AskedInv'
    <2> SUFFICES ASSUME TypeOK, AskedInv, [Next]_vars PROVE AskedInv'
      OBVIOUS
    <2> USE DEF AskedInv, AskedSinceLastCode
    <2>1. ASSUME NEW p \in Pages, ScanButton(p)
          PROVE  AskedInv'
      <3>1. /\ scan \in Nat /\ served \in Nat /\ served' = served
            /\ scan' = scan \/ scan' = scan + 1
            /\ served < scan'
        BY <2>1 DEF TypeOK, ScanButton
      <3>2. /\ clicked'[p] = scan' /\ \A o \in Pages \ {p} : clicked'[o] = clicked[o]
            /\ connected' = connected \union {p} /\ connected \subseteq Pages
        BY <2>1 DEF TypeOK, ScanButton
      <3>3. QED BY <3>1, <3>2
    <2>2. CASE DoubleClicked \/ DialogAccepted \/ ThreadError
      BY <2>2 DEF DoubleClicked, DialogAccepted, ThreadError, NotifyError, Stop, history
    <2>3. CASE ProcessCode
      <3>1. CASE ~Enabled /\ UNCHANGED <<scanner, served, filled>>
        BY <2>3, <3>1 DEF ProcessCode, scanner
      <3>2. CASE NotifyError
        BY <2>3, <3>2 DEF ProcessCode, NotifyError, Stop
      <3>3. CASE DecodedCode
        BY <2>3, <3>3 DEF TypeOK, ProcessCode, DecodedCode, Stop, Disconnected
      <3>4. QED BY <2>3, <3>1, <3>2, <3>3 DEF ProcessCode
    <2>4. CASE Move \/ DialogClosed \/ Thread \/ ProcessFrame \/ TimerEvent \/ UNCHANGED vars
      BY <2>4 DEF Move, DialogClosed, Thread, WaitForFrame, ProcessVideoFrame, ProcessFrame,
         TimerEvent, vars, scanner, history
    <2>5. QED BY <2>1, <2>2, <2>3, <2>4 DEF Next, User, Gui
  <1>3. QED BY <1>1, <1>2, TypeCorrect, PTL DEF Spec, AskedInv

-----------------------------------------------------------------------------
(* The order of the frames.                                                 *)

\* Whatever stood in a place of the line stood in it before, in the same order.
LineKept ==
    \A i, j \in Places' : i <= j =>
        \E k, l \in Places : k <= l /\ Line(i)' = Line(k) /\ Line(j)' = Line(l)

LEMMA KeptInOrder ==
    ASSUME LineKept
    PROVE  (FilmedInOrder => FilmedInOrder') /\ (UnfilmedFirst => UnfilmedFirst')
  BY DEF LineKept, FilmedInOrder, UnfilmedFirst

LEMMA PlacesOf ==
    ASSUME TypeOK
    PROVE  /\ Len(signals) \in Nat /\ Len(queue) \in Nat
           /\ \A i : i \in Places <=> i \in Nat /\ i <= Len(signals) + Len(queue) + 1
  BY DEF TypeOK, Places

LEMMA SameLine ==
    ASSUME UNCHANGED <<filled, signals, queue, curFrame>>
    PROVE  LineKept
  BY DEF LineKept, Line, Places

\* A frame the timer adds is the one that stays last.
LEMMA FrameAdded ==
    ASSUME TypeOK, UNCHANGED <<filled, signals, curFrame>>, queue' = Append(queue, curFrame)
    PROVE  LineKept
  <1>1. /\ Len(queue') = Len(queue) + 1 /\ queue'[Len(queue) + 1] = curFrame
        /\ \A i \in 1 .. Len(queue) : queue'[i] = queue[i]
    BY DEF TypeOK
  <1> DEFINE Last == Len(signals) + Len(queue) + 1
             Was(i) == IF i <= Last THEN i ELSE Last
  <1>2. ASSUME NEW i \in Places'
        PROVE  Was(i) \in Places /\ Line(i)' = Line(Was(i))
    <2>1. i \in Nat /\ i <= Last + 1 /\ Last \in Nat
      BY <1>1, <1>2, PlacesOf DEF Places
    <2>2. Was(i) \in Places
      BY <2>1, PlacesOf
    <2>3. CASE i <= Len(signals)
      BY <2>1, <2>3, PlacesOf DEF Line
    <2>4. CASE Len(signals) < i /\ i < Last
      BY <1>1, <2>1, <2>4, PlacesOf DEF Line
    <2>5. CASE i >= Last
      BY <1>1, <2>1, <2>5, PlacesOf DEF Line
    <2>6. QED BY <2>1, <2>2, <2>3, <2>4, <2>5, PlacesOf
  <1>3. ASSUME NEW i \in Places', NEW j \in Places', i <= j
        PROVE  Was(i) <= Was(j)
    BY <1>1, <1>3, PlacesOf DEF Places
  <1> HIDE DEF Was
  <1>4. QED BY <1>2, <1>3 DEF LineKept

\* A frame that is scanned moves from the queue to the signals, or leaves the line.
LEMMA FrameScanned ==
    ASSUME TypeOK, ProcessVideoFrame
    PROVE  LineKept
  <1>1. /\ queue # <<>> /\ queue' = Tail(queue)
        /\ Tell(Head(queue))
        /\ UNCHANGED <<filled, curFrame>>
    BY DEF ProcessVideoFrame, NextFrame, history
  <1>2. /\ Len(queue) \in Nat \ {0} /\ Len(queue') = Len(queue) - 1
        /\ \A i \in 1 .. Len(queue') : queue'[i] = queue[i + 1]
        /\ Head(queue) = queue[1] /\ Head(queue) \in Frames
    BY <1>1 DEF TypeOK
  <1>3. CASE signals' = signals
    <2>1. signals' = signals
      BY <1>3
    <2> DEFINE Was(i) == IF i <= Len(signals) THEN i ELSE i + 1
    <2>2. ASSUME NEW i \in Places'
          PROVE  Was(i) \in Places /\ Line(i)' = Line(Was(i))
      <3>1. i \in Nat /\ i <= Len(signals) + Len(queue)
        BY <1>2, <2>1, <2>2, PlacesOf DEF Places
      <3>2. CASE i <= Len(signals)
        BY <1>1, <2>1, <3>1, <3>2, PlacesOf DEF Line
      <3>3. CASE Len(signals) < i /\ i < Len(signals) + Len(queue)
        BY <1>1, <1>2, <2>1, <3>1, <3>3, PlacesOf DEF Line
      <3>4. CASE i = Len(signals) + Len(queue)
        BY <1>1, <1>2, <2>1, <3>1, <3>4, PlacesOf DEF Line
      <3>5. QED BY <3>1, <3>2, <3>3, <3>4, PlacesOf
    <2>3. ASSUME NEW i \in Places', NEW j \in Places', i <= j
          PROVE  Was(i) <= Was(j)
      BY <1>2, <2>1, <2>3, PlacesOf DEF Places
    <2> HIDE DEF Was
    <2>4. QED BY <2>2, <2>3 DEF LineKept
  <1>4. CASE \E s \in Signals : s.about = Head(queue) /\ signals' = Append(signals, s)
    <2>1. PICK s \in Signals : s.about = Head(queue) /\ signals' = Append(signals, s)
      BY <1>4
    <2>2. /\ Len(signals') = Len(signals) + 1 /\ signals'[Len(signals) + 1] = s
          /\ \A i \in 1 .. Len(signals) : signals'[i] = signals[i]
      BY <2>1 DEF TypeOK
    <2>3. ASSUME NEW i \in Places'
          PROVE  i \in Places /\ Line(i)' = Line(i)
      <3>1. i \in Nat /\ i <= Len(signals) + Len(queue) + 1
        BY <1>2, <2>2, <2>3, PlacesOf DEF Places
      <3>2. CASE i <= Len(signals)
        BY <1>1, <2>2, <3>1, <3>2, PlacesOf DEF Line
      <3>3. CASE i = Len(signals) + 1
        BY <1>1, <1>2, <2>1, <2>2, <3>1, <3>3, PlacesOf DEF Line
      <3>4. CASE i > Len(signals) + 1
        BY <1>1, <1>2, <2>2, <3>1, <3>4, PlacesOf DEF Line
      <3>5. QED BY <3>1, <3>2, <3>3, <3>4, PlacesOf
    <2>4. QED BY <2>3 DEF LineKept
  <1>5. signals' = signals \/
          \E s \in Signals : s.about = Head(queue) /\ signals' = Append(signals, s)
    <2>1. \A k \in {"error", "decoded"} :
             /\ [about |-> Head(queue), kind |-> k] \in Signals
             /\ [about |-> Head(queue), kind |-> k].about = Head(queue)
      BY <1>2 DEF Signals
    <2>2. QED BY <1>1, <2>1 DEF Tell
  <1>6. QED BY <1>3, <1>4, <1>5

\* The first signal leaves the line, or takes the place of the code filled in.
LEMMA SignalHandled ==
    ASSUME TypeOK, signals # <<>>, signals' = Tail(signals), UNCHANGED <<queue, curFrame>>,
           filled' = filled \/ filled' = Head(signals).about
    PROVE  LineKept
  <1>1. /\ Len(signals) \in Nat \ {0} /\ Len(signals') = Len(signals) - 1
        /\ \A i \in 1 .. Len(signals') : signals'[i] = signals[i + 1]
        /\ Head(signals) = signals[1]
    BY DEF TypeOK
  <1> DEFINE Was(i) == IF i = 0 /\ filled' = filled THEN 0 ELSE i + 1
  <1>2. ASSUME NEW i \in Places'
        PROVE  Was(i) \in Places /\ Line(i)' = Line(Was(i))
    <2>1. i \in Nat /\ i <= Len(signals) + Len(queue)
      BY <1>1, <1>2, PlacesOf DEF Places
    <2>2. CASE i = 0
      BY <1>1, <2>1, <2>2, PlacesOf DEF Line
    <2>3. CASE i > 0 /\ i < Len(signals)
      BY <1>1, <2>1, <2>3, PlacesOf DEF Line
    <2>4. CASE i >= Len(signals)
      BY <1>1, <2>1, <2>4, PlacesOf DEF Line
    <2>5. QED BY <2>1, <2>2, <2>3, <2>4, PlacesOf
  <1>3. ASSUME NEW i \in Places', NEW j \in Places', i <= j
        PROVE  Was(i) <= Was(j)
    BY <1>1, <1>3, PlacesOf DEF Places
  <1> HIDE DEF Was
  <1>4. QED BY <1>2, <1>3 DEF LineKept

\* No frame is of a scan to come.
NoneFromLater == \A i \in Places : Line(i).scan <= scan

OrderInv == TypeOK /\ FilmedInOrder /\ UnfilmedFirst /\ NoneFromLater

LEMMA LineScans == ASSUME TypeOK, NEW i \in Places
                   PROVE  Line(i) \in Frames
  <1>1. i \in Nat /\ i <= Len(signals) + Len(queue) + 1
    BY PlacesOf
  <1>2. CASE i = 0
    BY <1>2 DEF Line, TypeOK
  <1>3. CASE i \in 1 .. Len(signals)
    <2>1. signals[i] \in Signals
      BY <1>3 DEF TypeOK
    <2>2. QED BY <1>3, <2>1, PlacesOf DEF Line, Signals
  <1>4. CASE i > Len(signals) /\ i <= Len(signals) + Len(queue)
    <2>1. queue[i - Len(signals)] \in Frames
      BY <1>1, <1>4, PlacesOf DEF TypeOK
    <2>2. QED BY <1>1, <1>4, <2>1, PlacesOf DEF Line
  <1>5. CASE i > Len(signals) + Len(queue)
    BY <1>1, <1>5, PlacesOf DEF Line, TypeOK
  <1>6. QED BY <1>1, <1>2, <1>3, <1>4, <1>5, PlacesOf

LEMMA OrderInit == Init => OrderInv
  <1> SUFFICES ASSUME Init PROVE OrderInv
    OBVIOUS
  <1>1. TypeOK
    BY TypeInit
  <1>2. \A i \in Places : Line(i) = NoFrame
    BY DEF Init, Places, Line
  <1>3. NoFrame.scan = 0 /\ scan = 0
    BY DEF Init, NoFrame
  <1>4. QED BY <1>1, <1>2, <1>3 DEF OrderInv, FilmedInOrder, UnfilmedFirst, NoneFromLater

\* A new frame takes the last place.
LEMMA FrameFilmed ==
    ASSUME OrderInv, TypeOK', ProcessFrame
    PROVE  OrderInv'
  <1>1. UNCHANGED <<filled, signals, queue, scan>>
    BY DEF ProcessFrame, history
  <1>2. PICK last \in Places : last = Len(signals) + Len(queue) + 1
    BY PlacesOf DEF OrderInv
  <1>3. Places' = Places /\ \A i \in Places : i # last => Line(i)' = Line(i)
    <2>1. Places' = Places
      BY <1>1 DEF Places
    <2>2. ASSUME NEW i \in Places, i # last
          PROVE  Line(i)' = Line(i)
      BY <1>2, <1>1, <2>2, PlacesOf DEF Line, OrderInv
    <2>3. QED BY <2>1, <2>2
  <1>4. last \in Places /\ Line(last)' = curFrame' /\ \A i \in Places : i <= last
    BY <1>2, <1>1, PlacesOf DEF Line, OrderInv
  <1>5. curFrame'.scan = scan /\ curFrame'.shows # Invalid
    BY QrAssumption DEF ProcessFrame, OrderInv, TypeOK, Scenes, QrAssumption
  <1>6. scan \in Nat
    BY DEF OrderInv, TypeOK
  <1>7. \A i \in Places : i \in Nat
    BY PlacesOf DEF OrderInv
  <1>8. NoneFromLater'
    BY <1>1, <1>3, <1>4, <1>5, <1>6 DEF OrderInv, NoneFromLater
  <1>9. FilmedInOrder'
    <2> SUFFICES ASSUME NEW i \in Places, NEW j \in Places, i <= j
                 PROVE  Line(i)'.scan <= Line(j)'.scan
      BY <1>3 DEF FilmedInOrder
    <2>1. CASE j = last
      BY <1>1, <1>3, <1>4, <1>5, <1>8, <2>1 DEF NoneFromLater
    <2>2. CASE j # last
      BY <1>3, <1>4, <1>7, <2>2 DEF OrderInv, FilmedInOrder
    <2>3. QED BY <2>1, <2>2
  <1>10. UnfilmedFirst'
    <2> SUFFICES ASSUME NEW i \in Places, NEW j \in Places, i <= j, Line(j)'.shows = Invalid
                 PROVE  Line(i)'.shows = Invalid
      BY <1>3 DEF UnfilmedFirst
    <2>1. j # last
      BY <1>4, <1>5
    <2>2. i # last
      BY <1>4, <1>7, <2>1
    <2>3. QED BY <1>3, <2>1, <2>2 DEF OrderInv, UnfilmedFirst
  <1>11. QED BY <1>8, <1>9, <1>10 DEF OrderInv

LEMMA KeptInv ==
    ASSUME OrderInv, TypeOK', LineKept, scan <= scan'
    PROVE  OrderInv'
  <1>1. FilmedInOrder' /\ UnfilmedFirst'
    BY KeptInOrder DEF OrderInv
  <1>2. ASSUME NEW i \in Places'
        PROVE  Line(i)'.scan <= scan'
    <2>1. PICK k \in Places : Line(i)' = Line(k)
      BY <1>2, PlacesOf DEF LineKept, OrderInv, Places
    <2>2. Line(k).scan \in Nat /\ scan \in Nat /\ scan' \in Nat
      BY LineScans DEF OrderInv, Frames, TypeOK
    <2>3. QED BY <2>1, <2>2 DEF OrderInv, NoneFromLater
  <1>3. NoneFromLater'
    BY <1>2 DEF NoneFromLater
  <1>4. QED BY <1>1, <1>3 DEF OrderInv

LEMMA OrderNext == OrderInv /\ [Next]_vars => OrderInv'
  <1> SUFFICES ASSUME OrderInv, [Next]_vars PROVE OrderInv'
    OBVIOUS
  <1>1. TypeOK /\ TypeOK' /\ scan \in Nat
    BY TypeNext DEF OrderInv, TypeOK
  <1>2. CASE User \/ WaitForFrame \/ UNCHANGED vars
    <2>1. UNCHANGED <<filled, signals, queue, curFrame>>
      BY <1>2 DEF User, Move, DoubleClicked, DialogAccepted, DialogClosed, ScanButton,
         WaitForFrame, pipe, history, vars
    <2>2. scan' = scan \/ scan' = scan + 1
      BY <1>2 DEF User, Move, DoubleClicked, DialogAccepted, DialogClosed, ScanButton,
         WaitForFrame, history, vars
    <2>3. QED BY <1>1, <2>1, <2>2, SameLine, KeptInv
  <1>3. CASE ProcessVideoFrame
    <2>1. scan' = scan
      BY <1>3 DEF ProcessVideoFrame, history
    <2>2. QED BY <1>1, <1>3, <2>1, FrameScanned, KeptInv
  <1>4. CASE ProcessFrame
    BY <1>1, <1>4, FrameFilmed DEF OrderInv
  <1>5. CASE TimerEvent
    <2>1. UNCHANGED <<filled, signals, curFrame, scan>> /\ queue' = Append(queue, curFrame)
      BY <1>5 DEF TimerEvent, AddFrame, history
    <2>2. QED BY <1>1, <2>1, FrameAdded, KeptInv
  <1>6. CASE ThreadError \/ ProcessCode
    <2>1. /\ signals # <<>> /\ signals' = Tail(signals) /\ UNCHANGED <<queue, curFrame, scan>>
      BY <1>6 DEF ThreadError, ProcessCode, Handles
    <2>2. filled' = filled \/ filled' = Head(signals).about
      BY <1>6 DEF ThreadError, ProcessCode, NotifyError, DecodedCode, About
    <2>3. QED BY <1>1, <2>1, <2>2, SignalHandled, KeptInv
  <1>7. QED BY <1>2, <1>3, <1>4, <1>5, <1>6 DEF Next, Thread, Gui

\* Codes reach the forms in the order they were filmed, however many frames wait.
THEOREM OldFramesFirst == Spec => []FilmedInOrder
  BY OrderInit, OrderNext, PTL DEF Spec, OrderInv

\* Once a filmed frame is in line, no frame the camera never filmed comes after it.
THEOREM UnfilmedComesFirst == Spec => []UnfilmedFirst
  BY OrderInit, OrderNext, PTL DEF Spec, OrderInv

-----------------------------------------------------------------------------
(* Progress.  The first three say what fairness of the camera, the timer and *)
(* the thread says, the fourth what that of the event loop says, with the    *)
(* conditions under which they can act spelled out.                          *)

NotFilmed == state = "Capture" /\ curFrame # [shows |-> scene, scan |-> scan]
CameraFilms == []<>~NotFilmed \/ []<><<ProcessFrame>>_vars

TimerFires == []<>~(timer /\ Len(queue) < MaxQueue) \/ []<><<TimerEvent>>_vars

CanRun == ~asleep /\ (queue = <<>> \/ Len(signals) < MaxSignals)
ThreadRuns == []<>~CanRun \/ []<><<Thread>>_vars

Delivered == ThreadError \/ ProcessCode
SignalsHandled == []<>(signals = <<>>) \/ []<><<Delivered>>_vars

\* An action is enabled where its guard holds.
GuardsSuffice ==
    /\ NotFilmed => ENABLED <<ProcessFrame>>_vars
    /\ timer /\ Len(queue) < MaxQueue => ENABLED <<TimerEvent>>_vars
    /\ CanRun => ENABLED <<Thread>>_vars
    /\ ~(signals = <<>>) => ENABLED <<Delivered>>_vars

\* FairSpec comes to that where the guards suffice.
THEOREM FairScannerWorks ==
    FairSpec /\ []GuardsSuffice
       => Spec /\ CameraFilms /\ TimerFires /\ ThreadRuns /\ SignalsHandled
  BY PTL
  DEF FairSpec, Fairness, GuardsSuffice, CameraFilms, TimerFires, ThreadRuns, SignalsHandled,
      Delivered

\* The bounds leave room for a frame and for a signal.
SomeRoom == MaxQueue > 0 /\ MaxSignals > 0

\* Between two scans: the frames that wait, each of which may become a signal.
Stopped == state = "Stopped"
Waiting == Len(queue) + Len(queue) + Len(signals) + (IF asleep THEN 0 ELSE 1)
WaitingFalls ==
    Stopped /\ Stopped'
        => /\ Waiting' <= Waiting
           /\ Thread \/ Delivered => Waiting' < Waiting
           /\ Waiting' = Waiting => UNCHANGED <<queue, signals, asleep>>

LEMMA Lengths ==
    ASSUME TypeOK
    PROVE  Len(queue) \in Nat /\ Len(signals) \in Nat /\ Waiting \in Nat
  BY DEF TypeOK, Waiting

LEMMA Counts ==
    ASSUME NEW q \in Nat, NEW q2 \in Nat, NEW s \in Nat, NEW s2 \in Nat, NEW a \in 0 .. 1,
           NEW a2 \in 0 .. 1,
           \/ q2 = q /\ s2 = s /\ a2 < a
           \/ q2 < q /\ s2 <= s + 1 /\ a2 = a
           \/ q2 = q /\ s2 < s /\ a2 = a
    PROVE  q2 + q2 + s2 + a2 < q + q + s + a
  OBVIOUS

LEMMA WaitingNext == TypeOK /\ [Next]_vars => WaitingFalls
  <1> SUFFICES ASSUME TypeOK, [Next]_vars, Stopped, Stopped'
               PROVE  /\ Waiting' <= Waiting
                      /\ Thread \/ Delivered => Waiting' < Waiting
                      /\ Waiting' = Waiting => UNCHANGED <<queue, signals, asleep>>
    BY DEF WaitingFalls
  <1>1. TypeOK'
    BY TypeNext
  <1> DEFINE a == IF asleep THEN 0 ELSE 1
  <1>2. /\ Len(queue) \in Nat /\ Len(signals) \in Nat /\ a \in 0 .. 1 /\ Waiting \in Nat
        /\ Len(queue') \in Nat /\ Len(signals') \in Nat /\ a' \in 0 .. 1
        /\ Waiting = Len(queue) + Len(queue) + Len(signals) + a
        /\ Waiting' = Len(queue') + Len(queue') + Len(signals') + a'
    BY <1>1 DEF TypeOK, Waiting
  <1>3. CASE WaitForFrame
    <2>1. Len(queue') = Len(queue) /\ Len(signals') = Len(signals) /\ a' < a
      BY <1>3 DEF WaitForFrame
    <2> HIDE DEF a
    <2>2. Waiting' < Waiting
      BY <1>2, <2>1, Counts, Zenon
    <2>3. QED BY <1>2, <2>2
  <1>4. CASE ProcessVideoFrame
    <2>1. Len(queue') < Len(queue) /\ Len(signals') <= Len(signals) + 1 /\ a' = a
      BY <1>4 DEF ProcessVideoFrame, NextFrame, Tell, TypeOK
    <2> HIDE DEF a
    <2>2. Waiting' < Waiting
      BY <1>2, <2>1, Counts, Zenon
    <2>3. QED BY <1>2, <2>2
  <1>5. CASE Delivered
    <2>1. Len(queue') = Len(queue) /\ Len(signals') < Len(signals) /\ a' = a
      BY <1>5 DEF Delivered, ThreadError, ProcessCode, Handles, TypeOK
    <2> HIDE DEF a
    <2>2. Waiting' < Waiting
      BY <1>2, <2>1, Counts, Zenon
    <2>3. QED BY <1>2, <2>2
  <1>6. ~ProcessFrame /\ ~TimerEvent
    BY DEF Stopped, ProcessFrame, TimerEvent, TypeOK
  <1>7. CASE User \/ UNCHANGED vars
    <2>1. UNCHANGED <<queue, signals, asleep>>
      BY <1>7 DEF User, Move, DoubleClicked, DialogAccepted, DialogClosed, ScanButton, pipe, vars
    <2>2. ~Thread /\ ~Delivered
      BY <2>1 DEF Thread, WaitForFrame, ProcessVideoFrame, NextFrame, Delivered, ThreadError,
         ProcessCode, Handles, TypeOK
    <2>3. Waiting' = Waiting
      BY <2>1 DEF Waiting
    <2>4. QED BY <1>2, <2>1, <2>2, <2>3
  <1>8. QED BY <1>3, <1>4, <1>5, <1>6, <1>7 DEF Next, Thread, Gui, Delivered

\* No step between two scans leaves more to do, and each of the thread and of the event
\* loop leaves less: nothing is queued any more.
THEOREM WaitingGetsLess == Spec => [][WaitingFalls]_vars
  BY TypeCorrect, WaitingNext, PTL DEF Spec

\* A natural number that never grows stays as it is in the end: true of every
\* behaviour, as < is well-founded on Nat, which temporal logic alone does not know.
WaitingSettles ==
    <>[][(Waiting \in Nat) /\ (Waiting' \in Nat) /\ Waiting' <= Waiting]_vars
        => <>[][Waiting' = Waiting]_vars

\* What a scan leaves in the queue is worked off, and nothing is queued again.
THEOREM QueueIsWorkedOff ==
    ASSUME SomeRoom
    PROVE  Spec /\ ThreadRuns /\ SignalsHandled /\ WaitingSettles => QueueDrains
  <1> DEFINE S == Stopped
             Down == (Waiting \in Nat) /\ (Waiting' \in Nat) /\ Waiting' <= Waiting
             Same == Waiting' = Waiting
             Kept == UNCHANGED <<queue, signals, asleep>>
             E == signals = <<>>
             Q == queue = <<>>
  <1>1. TypeOK /\ TypeOK' /\ S /\ S' /\ WaitingFalls => Down
    <2>1. (TypeOK => Waiting \in Nat)'
      BY Lengths, PTL
    <2>2. QED BY <2>1, Lengths DEF WaitingFalls
  <1>2. TypeOK /\ S /\ S' /\ WaitingFalls /\ Same => Kept /\ ~Thread /\ ~Delivered
    BY Lengths DEF WaitingFalls
  <1>3. UNCHANGED vars => Kept
    BY DEF vars, pipe
  <1>4. Kept => (E => E') /\ (Q => Q') /\ (CanRun => CanRun')
    BY DEF CanRun
  <1>5. NoFrameSleptOn /\ E => CanRun \/ Q
    BY QrAssumption DEF SomeRoom, QrAssumption, NoFrameSleptOn, CanRun
  <1>6. Spec => [](TypeOK /\ NoFrameSleptOn) /\ [][Next]_vars /\ [][WaitingFalls]_vars
    BY TypeCorrect, NeverSleepsOnFrames, WaitingGetsLess, PTL DEF Spec
  <1>7. WaitingSettles => (<>[][Down]_vars => <>[][Same]_vars)
    BY PTL DEF WaitingSettles
  <1>8. SignalsHandled => []<>E \/ []<><<Delivered>>_vars
    BY PTL DEF SignalsHandled
  <1>9. S <=> state = "Stopped"
    BY DEF Stopped
  <1> HIDE DEF S, Down, Same, Kept, E, Q
  <1>10. Spec /\ ThreadRuns /\ SignalsHandled /\ WaitingSettles
            => (<>[]S => <>[](Q /\ E))
    BY <1>1, <1>2, <1>3, <1>4, <1>5, <1>6, <1>7, <1>8, PTL DEF ThreadRuns
  <1>11. QED BY <1>9, <1>10, PTL DEF QueueDrains, Q, E

\* A scan at work: a picture with a code is the last one filmed, and what is held
\* before the camera has one; no frame scanned so far had.
AtWork ==
    state = "Capture" /\ signals = <<>> /\ curFrame.shows # Nothing /\ scene # Nothing
DullIn(q) == {i \in 1 .. Len(q) : q[i].shows = Nothing}
Dull == Cardinality(DullIn(queue))
DullFalls ==
    AtWork /\ AtWork' => /\ Dull' <= Dull
                         /\ ProcessVideoFrame => Dull' < Dull
                         /\ Dull' = Dull => (queue # <<>> => queue' # <<>>)

LEMMA DullFinite ==
    ASSUME NEW q \in Seq(Frames)
    PROVE  IsFiniteSet(DullIn(q)) /\ Cardinality(DullIn(q)) \in Nat
  <1>1. IsFiniteSet(1 .. Len(q)) /\ DullIn(q) \in SUBSET (1 .. Len(q))
    BY FS_Interval DEF DullIn
  <1>2. QED BY <1>1, FS_Subset, FS_CardinalityType

\* A dull frame scanned is one less.
LEMMA DullScanned ==
    ASSUME NEW q \in Seq(Frames), q # <<>>, Head(q).shows = Nothing
    PROVE  Cardinality(DullIn(Tail(q))) < Cardinality(DullIn(q))
  <1>1. /\ Len(q) \in Nat \ {0} /\ Tail(q) \in Seq(Frames) /\ Len(Tail(q)) = Len(q) - 1
        /\ \A i \in 1 .. Len(q) - 1 : Tail(q)[i] = q[i + 1]
        /\ q[1].shows = Nothing
    OBVIOUS
  <1> DEFINE f == [i \in DullIn(Tail(q)) |-> i + 1]
             R == DullIn(q) \ {1}
  <1>2. f \in Injection(DullIn(Tail(q)), R)
    <2>1. \A i \in DullIn(Tail(q)) : i \in 1 .. Len(q) - 1 /\ i + 1 \in R
      BY <1>1 DEF DullIn
    <2>2. f \in [DullIn(Tail(q)) -> R]
      BY <2>1
    <2>3. \A i, j \in DullIn(Tail(q)) : f[i] = f[j] => i = j
      BY <2>1
    <2>4. QED BY <2>2, <2>3 DEF Injection, IsInjective
  <1>3. 1 \in DullIn(q)
    BY <1>1 DEF DullIn
  <1>4. IsFiniteSet(R) /\ Cardinality(R) = Cardinality(DullIn(q)) - 1
    BY <1>3, DullFinite, FS_RemoveElement
  <1> HIDE DEF f, R
  <1>5. Cardinality(DullIn(Tail(q))) <= Cardinality(R)
    BY <1>2, <1>4, FS_Injection
  <1>6. Cardinality(DullIn(Tail(q))) \in Nat /\ Cardinality(DullIn(q)) \in Nat
    BY <1>1, DullFinite
  <1>7. QED BY <1>4, <1>5, <1>6

\* A frame with a code is added to those behind the dull ones.
LEMMA DullAdded ==
    ASSUME NEW q \in Seq(Frames), NEW frame \in Frames, frame.shows # Nothing
    PROVE  DullIn(Append(q, frame)) = DullIn(q)
  BY DEF DullIn

LEMMA DullNext == TypeOK /\ [Next]_vars => DullFalls
  <1> SUFFICES ASSUME TypeOK, [Next]_vars, AtWork, AtWork'
               PROVE  /\ Dull' <= Dull
                      /\ ProcessVideoFrame => Dull' < Dull
                      /\ Dull' = Dull => (queue # <<>> => queue' # <<>>)
    BY DEF DullFalls
  <1>1. /\ queue \in Seq(Frames) /\ queue' \in Seq(Frames) /\ curFrame \in Frames
        /\ Dull \in Nat /\ Dull' \in Nat
    <2>1. TypeOK'
      BY TypeNext
    <2>2. queue \in Seq(Frames) /\ queue' \in Seq(Frames) /\ curFrame \in Frames
      BY <2>1 DEF TypeOK
    <2>3. QED BY <2>2, DullFinite DEF Dull
  <1>2. CASE ProcessVideoFrame
    <2>1. queue # <<>> /\ queue' = Tail(queue) /\ Tell(Head(queue))
      BY <1>2 DEF ProcessVideoFrame, NextFrame
    <2>2. signals = <<>> /\ signals' = <<>>
      BY DEF AtWork
    <2>3. \A x : Append(signals, x) # <<>>
      BY <2>2
    <2>4. Head(queue).shows = Nothing
      BY <2>1, <2>2, <2>3 DEF Tell
    <2>5. Dull' < Dull
      BY <1>1, <2>1, <2>4, DullScanned DEF Dull
    <2>6. QED BY <1>1, <2>5
  <1>3. CASE TimerEvent
    <2>1. queue' = Append(queue, curFrame)
      BY <1>3 DEF TimerEvent, AddFrame
    <2>2. Dull' = Dull /\ queue' # <<>>
      BY <1>1, <2>1, DullAdded DEF Dull, AtWork
    <2>3. ~ProcessVideoFrame
      BY <1>1, <2>1 DEF ProcessVideoFrame, NextFrame
    <2>4. QED BY <1>1, <2>2, <2>3
  <1>4. CASE User \/ WaitForFrame \/ ProcessFrame \/ UNCHANGED vars
    <2>1. UNCHANGED queue
      BY <1>4 DEF User, Move, DoubleClicked, DialogAccepted, DialogClosed, ScanButton,
         WaitForFrame, ProcessFrame, pipe, vars
    <2>2. ~ProcessVideoFrame
      BY <1>1, <2>1 DEF ProcessVideoFrame, NextFrame
    <2>3. Dull' = Dull
      BY <2>1 DEF Dull
    <2>4. QED BY <1>1, <2>1, <2>2, <2>3
  <1>5. ~ThreadError /\ ~ProcessCode
    BY DEF ThreadError, ProcessCode, Handles, AtWork
  <1>6. QED BY <1>2, <1>3, <1>4, <1>5 DEF Next, Thread, Gui

\* The dull frames before the first that shows a code get fewer with every scan.
THEOREM DullGetFewer == Spec => [][DullFalls]_vars
  BY TypeCorrect, DullNext, PTL DEF Spec

\* True of every behaviour, as WaitingSettles is.
DullSettles ==
    <>[][(Dull \in Nat) /\ (Dull' \in Nat) /\ Dull' <= Dull]_vars => <>[][Dull' = Dull]_vars

\* A code that is held before the camera ends the scan, however many frames without
\* one wait in the queue.
THEOREM CodeEndsScan ==
    ASSUME SomeRoom
    PROVE  Spec /\ CameraFilms /\ TimerFires /\ ThreadRuns /\ SignalsHandled /\ DullSettles
              => ScanEnds
  <1> DEFINE C == state = "Capture"
             N == scene # Nothing
             E == signals = <<>>
             Q == queue = <<>>
             G == curFrame.shows # Nothing
             R == timer /\ Len(queue) < MaxQueue
             Down == (Dull \in Nat) /\ (Dull' \in Nat) /\ Dull' <= Dull
             Same == Dull' = Dull
  \* The thread has told nothing, since what it tells ends the scan.
  <1>1. C /\ Delivered => ~C'
    BY DEF Delivered, ThreadError, ProcessCode, NotifyError, Stop, Enabled,
       DecodedCode
  <1>2. TypeOK /\ [Next]_vars /\ ~Delivered => (~E => ~E')
    <2>1. User \/ WaitForFrame \/ ProcessFrame \/ TimerEvent \/ UNCHANGED vars
            => UNCHANGED signals
      BY DEF User, Move, DoubleClicked, DialogAccepted, DialogClosed, ScanButton, WaitForFrame,
         ProcessFrame, TimerEvent, pipe, vars
    <2>2. TypeOK /\ ProcessVideoFrame => (~E => ~E')
      BY DEF TypeOK, ProcessVideoFrame, Tell
    <2>3. QED BY <2>1, <2>2 DEF Next, Thread, Gui, Delivered
  \* The picture with the code is filmed, and stays.
  <1>3. C /\ N /\ ~NotFilmed => G
    BY DEF NotFilmed
  <1>4. N /\ ProcessFrame => G'
    BY DEF ProcessFrame
  <1>5. N /\ G /\ [Next]_vars => G'
    <2>1. User \/ Thread \/ TimerEvent \/ ThreadError \/ ProcessCode \/ UNCHANGED vars
            => UNCHANGED curFrame
      BY DEF User, Move, DoubleClicked, DialogAccepted, DialogClosed, ScanButton, Thread,
         WaitForFrame, ProcessVideoFrame, TimerEvent, ThreadError, ProcessCode, pipe, vars
    <2>2. QED BY <1>4, <2>1 DEF Next, Gui
  <1>6. C /\ N /\ E /\ G => AtWork
    BY DEF AtWork
  \* What is in the queue is scanned, and a frame is in the queue.
  <1>7. TypeOK /\ TypeOK' /\ AtWork /\ AtWork' /\ DullFalls => Down
    <2>1. TypeOK => Dull \in Nat
      BY DullFinite DEF Dull, TypeOK
    <2>2. (TypeOK => Dull \in Nat)'
      BY <2>1, PTL
    <2>3. QED BY <2>1, <2>2 DEF DullFalls
  <1>8. TypeOK /\ AtWork /\ AtWork' /\ DullFalls /\ Same
            => ~ProcessVideoFrame /\ (~Q => ~Q')
    <2>1. TypeOK => Dull \in Nat
      BY DullFinite DEF Dull, TypeOK
    <2>2. QED BY <2>1 DEF DullFalls
  <1>9. UNCHANGED vars => (~Q => ~Q')
    BY DEF vars, pipe
  <1>10. TypeOK /\ C /\ Q => R
    BY QrAssumption DEF SomeRoom, QrAssumption, TypeOK
  <1>11. TypeOK /\ TimerEvent => ~Q'
    BY DEF TypeOK, TimerEvent, AddFrame
  <1>12. NoFrameSleptOn /\ E /\ ~Q => CanRun
    BY QrAssumption DEF SomeRoom, QrAssumption, NoFrameSleptOn, CanRun
  <1>13. Thread /\ ~Q => ProcessVideoFrame
    BY DEF Thread, WaitForFrame
  <1>14. TypeOK => (~C <=> state = "Stopped")
    BY DEF TypeOK
  <1>15. Spec => [](TypeOK /\ NoFrameSleptOn) /\ [][Next]_vars /\ [][DullFalls]_vars
    BY TypeCorrect, NeverSleepsOnFrames, DullGetFewer, PTL DEF Spec
  <1>16. DullSettles => (<>[][Down]_vars => <>[][Same]_vars)
    BY PTL DEF DullSettles
  <1>17. SignalsHandled => []<>E \/ []<><<Delivered>>_vars
    BY PTL DEF SignalsHandled
  <1>18. TimerFires => []<>~R \/ []<><<TimerEvent>>_vars
    BY PTL DEF TimerFires
  <1> HIDE DEF C, N, E, Q, G, R, Down, Same
  <1>19. Spec /\ CameraFilms /\ ThreadRuns /\ TimerFires /\ SignalsHandled /\ DullSettles
            /\ <>[]N => []<>~C
    BY <1>1, <1>2, <1>3, <1>4, <1>5, <1>6, <1>7, <1>8, <1>9, <1>10, <1>11, <1>12, <1>13,
       <1>15, <1>16, <1>17, <1>18, PTL DEF CameraFilms, ThreadRuns
  <1>20. QED BY <1>14, <1>19, TypeCorrect, PTL DEF ScanEnds, N

\* Both from the fairness of the specification, where the guards suffice.
THEOREM QueueDrainsInTheEnd ==
    ASSUME SomeRoom
    PROVE  FairSpec /\ []GuardsSuffice /\ WaitingSettles => QueueDrains
  BY FairScannerWorks, QueueIsWorkedOff, PTL

THEOREM ScanEndsInTheEnd ==
    ASSUME SomeRoom
    PROVE  FairSpec /\ []GuardsSuffice /\ DullSettles => ScanEnds
  BY FairScannerWorks, CodeEndsScan, PTL
=============================================================================
