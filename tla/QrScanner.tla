------------------------------ MODULE QrScanner ------------------------------
(***************************************************************************)
(* The QR code scanner: the camera's last frame, the timer that queues it  *)
(* again and again, the thread that scans the queue, the signals it queues *)
(* for the GUI thread, and the pages whose forms a code fills.             *)
(***************************************************************************)
EXTENDS Naturals, Sequences

CONSTANTS
    Codes,        \* texts that parse as a payment URI
    Odd,          \* those with parameters the wallet does not know
    NotUri,       \* a code with any other text
    Nothing,      \* a picture without a code
    Invalid,      \* the frame before the camera's first one
    Pages,        \* the pages with a scan button: Transfer and AddressBook
    MaxQueue,     \* bound on the frames the timer lets wait
    MaxSignals,   \* bound on the signals waiting when the thread goes on
    MaxScans      \* bound on the scans

ASSUME QrAssumption ==
    /\ Odd \subseteq Codes
    /\ NotUri \notin Codes /\ Nothing \notin Codes /\ Invalid \notin Codes
    /\ NotUri # Nothing /\ NotUri # Invalid /\ Nothing # Invalid
    /\ MaxQueue \in Nat /\ MaxSignals \in Nat /\ MaxScans \in Nat

VARIABLES
    scene,        \* what is before the camera
    state,        \* "Capture" or "Stopped"; m_enabled is state = "Capture"
    timer,        \* m_processTimerId is a timer
    curFrame,     \* m_curFrame
    queue,        \* m_queue
    asleep,       \* the thread waits on m_waitCondition
    signals,      \* signals queued for the GUI thread
    connected,    \* pages connected to qrcode_decoded
    dialog,       \* messageDialog is visible
    scan,         \* how many scans were started
    clicked,      \* for each page, the scan in which its button was last clicked
    served,       \* the scan in which a code was last filled in
    filled        \* the frame that code was read from

scanner == <<state, timer, connected, dialog>>
pipe == <<curFrame, queue, asleep, signals>>
history == <<scan, clicked, served, filled>>
vars == <<scene, scanner, pipe, history>>

Scenes == Codes \union {NotUri, Nothing}
Frames == [shows : Scenes \union {Invalid}, scan : 0 .. MaxScans]
Signals == [about : Frames, kind : {"decoded", "error"}]

TypeOK ==
    /\ scene \in Scenes
    /\ state \in {"Capture", "Stopped"}
    /\ timer = (state = "Capture")
    /\ asleep \in BOOLEAN /\ dialog \in BOOLEAN
    /\ curFrame \in Frames
    /\ queue \in Seq(Frames)
    /\ signals \in Seq(Signals)
    /\ connected \subseteq Pages
    /\ scan \in 0 .. MaxScans /\ served \in 0 .. MaxScans
    /\ clicked \in [Pages -> 0 .. MaxScans]
    /\ filled \in Frames

-----------------------------------------------------------------------------
(* The states of QRCodeScanner.qml: entering one switches the camera and    *)
(* calls setEnabled; assigning the state it has does nothing.               *)

\* Mutant of SetEnabled: the timer is left running.
SetEnabledKeepsTimer(on) == timer' = (timer \/ on)

SetEnabled(on) == timer' = on

Stop ==
    /\ state' = "Stopped"
    /\ SetEnabled(FALSE)

\* The button of page p.  The camera's picture lets clicks through to the menu and to
\* the buttons below it, so that a second page may join the scan that is on.
ScanButton(p) ==
    /\ \/ state = "Stopped" /\ scan < MaxScans /\ scan' = scan + 1
       \/ state = "Capture" /\ scan' = scan
    /\ state' = "Capture"
    /\ SetEnabled(TRUE)
    /\ connected' = connected \union {p}
    /\ clicked' = [clicked EXCEPT ![p] = scan']
    /\ UNCHANGED <<scene, pipe, dialog, served, filled>>

DoubleClicked ==
    /\ state = "Capture"
    /\ Stop
    /\ UNCHANGED <<scene, pipe, connected, dialog, history>>

\* The dialog is not taken to be modal.
DialogAccepted ==
    /\ dialog
    /\ dialog' = FALSE
    /\ Stop
    /\ UNCHANGED <<scene, pipe, connected, history>>

DialogClosed ==
    /\ dialog
    /\ dialog' = FALSE
    /\ UNCHANGED <<scene, pipe, state, timer, connected, history>>

-----------------------------------------------------------------------------
(* Camera and timer, on the GUI thread.                                     *)

Move ==
    /\ scene' \in Scenes \ {scene}
    /\ UNCHANGED <<scanner, pipe, history>>

\* Mutant of ProcessFrame: a frame that is not valid is kept.
ProcessFrameUnchecked ==
    /\ state = "Capture"
    /\ \E s \in {scene, Invalid} : curFrame' = [shows |-> s, scan |-> scan]
    /\ UNCHANGED <<scene, scanner, queue, asleep, signals, history>>

\* QrCodeScanner::processFrame keeps the camera's frame if it is valid, and keeps
\* it when the camera is stopped.
ProcessFrame ==
    /\ state = "Capture"
    /\ curFrame' = [shows |-> scene, scan |-> scan]
    /\ UNCHANGED <<scene, scanner, queue, asleep, signals, history>>

\* Mutant of AddFrame: nobody is woken.
AddFrameQuietly(frame) ==
    /\ queue' = Append(queue, frame)
    /\ UNCHANGED asleep

AddFrame(frame) ==
    /\ queue' = Append(queue, frame)
    /\ asleep' = FALSE

TimerEvent ==
    /\ timer
    /\ Len(queue) < MaxQueue
    /\ AddFrame(curFrame)
    /\ UNCHANGED <<scene, scanner, curFrame, signals, history>>

-----------------------------------------------------------------------------
(* The thread holds the mutex from the test of the queue to the end of the  *)
(* scan, so that each pass of its loop is one step.                         *)

WaitForFrame ==
    /\ ~asleep /\ queue = <<>>
    /\ asleep' = TRUE
    /\ UNCHANGED <<scene, scanner, curFrame, queue, signals, history>>

\* Mutant of NextFrame: the last frame is the first to be scanned.
LastFrame == [frame |-> queue[Len(queue)], rest |-> SubSeq(queue, 1, Len(queue) - 1)]

NextFrame == [frame |-> Head(queue), rest |-> Tail(queue)]

\* processQImage tells nothing of a picture without a code and the text of a code.  An
\* error comes for the frame that is not valid, and may come for any other: its format
\* is not the one expected, its sizes do not agree, or the scanner throws.
Tell(frame) ==
    \/ frame.shows = Nothing /\ UNCHANGED signals
    \/ /\ frame.shows \notin {Nothing, Invalid}
       /\ signals' = Append(signals, [about |-> frame, kind |-> "decoded"])
    \/ signals' = Append(signals, [about |-> frame, kind |-> "error"])

ProcessVideoFrame ==
    /\ ~asleep /\ queue # <<>>
    /\ Len(signals) < MaxSignals
    /\ queue' = NextFrame.rest
    /\ Tell(NextFrame.frame)
    /\ UNCHANGED <<scene, scanner, curFrame, asleep, history>>

-----------------------------------------------------------------------------
(* The signals, on the GUI thread.                                          *)

About == Head(signals).about
Handles(kind) == signals # <<>> /\ Head(signals).kind = kind /\ signals' = Tail(signals)

\* An error that is no warning shows the dialog and stops.
NotifyError ==
    /\ Stop
    /\ dialog' = TRUE
    /\ UNCHANGED <<connected, served, filled>>

\* The thread's errors are passed on, whether the scanner is enabled or not.
ThreadError ==
    /\ Handles("error")
    /\ NotifyError
    /\ UNCHANGED <<scene, curFrame, queue, asleep, scan, clicked>>

\* Mutant of Disconnected: updateFromQrCode stays connected.
StillConnected == connected

\* Each updateFromQrCode that is called disconnects itself.
Disconnected == {}

\* A warning of unknown parameters leaves the dialog up; the code is filled in either
\* way, into the form of every page that is connected, and the scan is over.
DecodedCode ==
    /\ dialog' = (dialog \/ About.shows \in Odd)
    /\ filled' = About
    /\ connected' = Disconnected
    /\ served' = scan
    /\ Stop

\* Mutant of Enabled: processCode does not look at m_enabled.
EnabledAlways == TRUE
Enabled == state = "Capture"

\* QrCodeScanner::processCode
ProcessCode ==
    /\ Handles("decoded")
    /\ \/ ~Enabled /\ UNCHANGED <<scanner, served, filled>>
       \/ Enabled /\ About.shows \notin Codes /\ NotifyError
       \/ Enabled /\ About.shows \in Codes /\ DecodedCode
    /\ UNCHANGED <<scene, curFrame, queue, asleep, scan, clicked>>

-----------------------------------------------------------------------------
NoFrame == [shows |-> Invalid, scan |-> 0]

\* The constructor enables the scanner without a timer; the initial state "Stopped"
\* disables it.
Init ==
    /\ scene \in Scenes
    /\ state = "Stopped" /\ timer = FALSE
    /\ curFrame = NoFrame /\ queue = <<>> /\ asleep = FALSE /\ signals = <<>>
    /\ connected = {} /\ dialog = FALSE
    /\ scan = 0 /\ clicked = [p \in Pages |-> 0] /\ served = 0 /\ filled = NoFrame

User == Move \/ DoubleClicked \/ DialogAccepted \/ DialogClosed \/ \E p \in Pages : ScanButton(p)
Thread == WaitForFrame \/ ProcessVideoFrame
Gui == ProcessFrame \/ TimerEvent \/ ThreadError \/ ProcessCode

Next == User \/ Thread \/ Gui

Spec == Init /\ [][Next]_vars

\* The camera films while it is on, the timer fires, the thread is scheduled and the
\* event loop delivers the signals.  The user need not do anything.
Fairness ==
    /\ WF_vars(ProcessFrame) /\ WF_vars(TimerEvent) /\ WF_vars(Thread)
    /\ WF_vars(ThreadError \/ ProcessCode)

FairSpec == Spec /\ Fairness

-----------------------------------------------------------------------------
\* The thread never sleeps on a frame that waits: addFrame wakes it, and it looks at
\* the queue under the mutex before it sleeps.
NoFrameSleptOn == asleep => queue = <<>>

\* The frames on their way, the oldest first: the one filled in last, those in the
\* signals, those in the queue, and the one the timer will queue next.
Line(i) ==
    IF i = 0 THEN filled
    ELSE IF i <= Len(signals) THEN signals[i].about
    ELSE IF i <= Len(signals) + Len(queue) THEN queue[i - Len(signals)]
    ELSE curFrame

Places == 0 .. Len(signals) + Len(queue) + 1

\* Codes reach the forms in the order they were filmed: frames may wait in the queue
\* over the end of their scan and be filled in by a later one, but never after a
\* newer one.
FilmedInOrder ==
    \A i, j \in Places : i <= j => Line(i).scan <= Line(j).scan

\* The frame before the camera's first one is never queued behind a filmed one: once a
\* filmed frame was scanned, none is refused any more for not being valid, however long
\* frames wait in the queue and whatever scan they are of.
UnfilmedFirst ==
    \A i, j \in Places : i <= j /\ Line(j).shows = Invalid => Line(i).shows = Invalid

\* A scan fills in one code at most, and only while it is on: the other frames that
\* were queued with the same code are dropped.
OneCodePerScan ==
    [][filled' # filled => state = "Capture" /\ state' = "Stopped" /\ ~timer']_vars

\* A code fills the forms of pages whose button was clicked since the code before it,
\* in this scan or in one given up, and some page clicked in the scan that is on.
AskedSinceLastCode ==
    /\ \A p \in connected : clicked[p] > served
    /\ state = "Capture" => \E p \in connected : clicked[p] = scan

\* A code that is held before the camera ends the scan.
ScanEnds == <>[](scene # Nothing) => []<>(state = "Stopped")

\* When no scan is started any more, what was queued is worked off and nothing is
\* queued again.
QueueDrains == <>[](state = "Stopped") => <>[](queue = <<>> /\ signals = <<>>)
=============================================================================
