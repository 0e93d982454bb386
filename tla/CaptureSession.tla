---------------------------- MODULE CaptureSession ----------------------------
(***************************************************************************)
(* The capture thread, the bounded channel it feeds the interface through, *)
(* and the interface thread that drains the channel every frame, starts,   *)
(* restarts and stops captures (src/capture.rs, App::drain_capture and     *)
(* App::start_capture of src/app.rs, run of src/main.rs).                  *)
(*                                                                         *)
(* Every spawned thread is a session.  A step of a thread is one operation *)
(* on shared state: a send, a counter increment, a look at the stop flag.  *)
(* A step of the interface is one receive, one read of the drop counter,   *)
(* one look at the joined thread or at the clock.  Packet contents do not  *)
(* matter here, only their numbers.                                        *)
(***************************************************************************)
EXTENDS Naturals, Sequences, FiniteSets

CONSTANTS
    Sessions,         \* the capture threads that may be spawned, one after the other
    NoSession,        \* App::capture is None
    ChannelCapacity,  \* CHANNEL_CAPACITY
    DrainBudget,      \* DRAIN_BUDGET
    MaxPackets        \* bound on the packets one session reads

ASSUME CaptureAssumption ==
    /\ NoSession \notin Sessions
    /\ ChannelCapacity \in Nat \ {0}
    /\ DrainBudget \in Nat \ {0}
    /\ MaxPackets \in Nat

VARIABLES
    pc,            \* where each thread stands in run()
    seq,           \* packets each thread has read: the number of the newest one
    uiDropped,     \* AtomicU64 shared with each thread: packets the full queue refused
    stop,          \* AtomicBool shared with each thread
    queue,         \* the channel whose receiver the held handle owns
    capture,       \* the session whose handle App::capture holds
    ui,            \* where the interface thread stands in its loop
    next,          \* what the key handler does once stop() has returned
    deadline,      \* STOP_TIMEOUT has passed since stop() was called
    budget,        \* what is left of DRAIN_BUDGET in this frame
    status,        \* App::status
    total,         \* Counters::total
    last,          \* number of the packet counted last, 0 before the first
    shownDropped   \* Counters::ui_dropped

threadVars == <<pc, seq, uiDropped>>
stopVars == <<next, deadline>>
counters == <<total, last, shownDropped>>
vars == <<pc, seq, uiDropped, stop, queue, capture, ui, next, deadline, budget,
          status, total, last, shownDropped>>

ThreadPcs == {"unborn", "opening", "announce", "poll", "reading", "offer", "count",
              "stats", "failing", "signOff", "exited"}
StopPcs == {"stopWait", "stopDrain", "stopClock"}
UiPcs == {"drain", "tally", "input", "resume", "ended"} \cup StopPcs
Statuses == {"Idle", "Starting", "Running", "Error", "Stopped"}
Event == [kind : {"Started", "Packet", "Stats", "Error", "Stopped"}, no : Nat]

Signal(k) == [kind |-> k, no |-> 0]
PacketNo(n) == [kind |-> "Packet", no |-> n]

Init ==
    /\ pc = [s \in Sessions |-> "unborn"]
    /\ seq = [s \in Sessions |-> 0]
    /\ uiDropped = [s \in Sessions |-> 0]
    /\ stop = [s \in Sessions |-> FALSE]
    /\ queue = <<>>
    /\ capture = NoSession
    /\ ui = "input"
    /\ next = "idle"
    /\ deadline = FALSE
    /\ budget = DrainBudget
    /\ status = "Idle"
    /\ total = 0 /\ last = 0 /\ shownDropped = 0

-------------------------------------------------------------------------------
(* The capture thread: run(). The process ends with the interface thread.  *)

At(s, where) == ui # "ended" /\ pc[s] = where
Goto(s, where) == pc' = [pc EXCEPT ![s] = where]

Connected(s) == capture = s

\* Faulty: a queue that accepts one event too many.
RoomOffByOne == Len(queue) <= ChannelCapacity

Room == Len(queue) < ChannelCapacity

Deposit(e) == queue' = Append(queue, e)

\* Faulty: a thread whose receiver is gone waits for it for ever.
SendOrWait(s, e) == Connected(s) /\ Room /\ Deposit(e)

\* SyncSender::send waits for room, and fails at once when the receiver is gone.
SendOrGone(s, e) ==
    \/ Connected(s) /\ Room /\ Deposit(e)
    \/ ~Connected(s) /\ UNCHANGED queue

uiState == <<stop, capture, ui, next, deadline, budget, status, total, last, shownDropped>>

OpenSucceeds(s) ==
    /\ At(s, "opening")
    /\ Goto(s, "announce")
    /\ UNCHANGED <<seq, uiDropped, queue, uiState>>

OpenFails(s) ==
    /\ At(s, "opening")
    /\ Goto(s, "failing")
    /\ UNCHANGED <<seq, uiDropped, queue, uiState>>

SendStarted(s) ==
    /\ At(s, "announce")
    /\ SendOrGone(s, Signal("Started"))
    /\ Goto(s, IF Connected(s) THEN "poll" ELSE "exited")
    /\ UNCHANGED <<seq, uiDropped, uiState>>

\* Faulty: the loop never looks at the flag.
CheckStopBlind(s) ==
    /\ At(s, "poll")
    /\ Goto(s, "reading")
    /\ UNCHANGED <<seq, uiDropped, queue, uiState>>

CheckStop(s) ==
    /\ At(s, "poll")
    /\ Goto(s, IF stop[s] THEN "signOff" ELSE "reading")
    /\ UNCHANGED <<seq, uiDropped, queue, uiState>>

\* Faulty: two packets get one number.
ReadPacketUnnumbered(s) ==
    /\ At(s, "reading")
    /\ seq[s] < MaxPackets
    /\ Goto(s, "offer")
    /\ UNCHANGED <<seq, uiDropped, queue, uiState>>

\* MaxPackets bounds what one session reads.
ReadPacket(s) ==
    /\ At(s, "reading")
    /\ seq[s] < MaxPackets
    /\ seq' = [seq EXCEPT ![s] = @ + 1]
    /\ Goto(s, "offer")
    /\ UNCHANGED <<uiDropped, queue, uiState>>

ReadNothing(s) ==
    /\ At(s, "reading")
    /\ Goto(s, "stats")
    /\ UNCHANGED <<seq, uiDropped, queue, uiState>>

\* Faulty: the loop returns at the end of the capture instead of breaking.
ReadEndSilently(s) ==
    /\ At(s, "reading")
    /\ Goto(s, "exited")
    /\ UNCHANGED <<seq, uiDropped, queue, uiState>>

ReadEnd(s) ==
    /\ At(s, "reading")
    /\ Goto(s, "signOff")
    /\ UNCHANGED <<seq, uiDropped, queue, uiState>>

ReadError(s) ==
    /\ At(s, "reading")
    /\ Goto(s, "failing")
    /\ UNCHANGED <<seq, uiDropped, queue, uiState>>

\* Faulty: a thread that reports an error leaves without the closing Stopped.
SendErrorOnly(s) ==
    /\ At(s, "failing")
    /\ SendOrGone(s, Signal("Error"))
    /\ Goto(s, "exited")
    /\ UNCHANGED <<seq, uiDropped, uiState>>

\* open() failed, or a read did: either way Error is followed by Stopped.
SendError(s) ==
    /\ At(s, "failing")
    /\ SendOrGone(s, Signal("Error"))
    /\ Goto(s, "signOff")
    /\ UNCHANGED <<seq, uiDropped, uiState>>

\* try_send of the packet just read: queued, refused by a full queue, or orphaned.
Offer(s) ==
    /\ At(s, "offer")
    /\ \/ Connected(s) /\ Room /\ Deposit(PacketNo(seq[s])) /\ Goto(s, "stats")
       \/ Connected(s) /\ ~Room /\ Goto(s, "count") /\ UNCHANGED queue
       \/ ~Connected(s) /\ Goto(s, "exited") /\ UNCHANGED queue
    /\ UNCHANGED <<seq, uiDropped, uiState>>

\* Faulty: the refused packet is forgotten.
DropUncounted(s) ==
    /\ At(s, "count")
    /\ Goto(s, "stats")
    /\ UNCHANGED <<seq, uiDropped, queue, uiState>>

CountDrop(s) ==
    /\ At(s, "count")
    /\ uiDropped' = [uiDropped EXCEPT ![s] = @ + 1]
    /\ Goto(s, "stats")
    /\ UNCHANGED <<seq, queue, uiState>>

\* Every STATS_INTERVAL the driver's counters are offered; a full queue loses them.
StatsStep(s) ==
    /\ At(s, "stats")
    /\ \/ Connected(s) /\ Room /\ Deposit(Signal("Stats"))
       \/ UNCHANGED queue
    /\ Goto(s, "poll")
    /\ UNCHANGED <<seq, uiDropped, uiState>>

SignOff(s) ==
    /\ At(s, "signOff")
    /\ SendOrGone(s, Signal("Stopped"))
    /\ Goto(s, "exited")
    /\ UNCHANGED <<seq, uiDropped, uiState>>

ThreadStep(s) ==
    \/ OpenSucceeds(s) \/ OpenFails(s) \/ SendStarted(s) \/ CheckStop(s)
    \/ ReadPacket(s) \/ ReadNothing(s) \/ ReadEnd(s) \/ ReadError(s)
    \/ SendError(s) \/ Offer(s) \/ CountDrop(s) \/ StatsStep(s) \/ SignOff(s)

-------------------------------------------------------------------------------
(* The interface thread: drain_capture(), once per turn of the main loop.  *)

Receiving(kind) ==
    /\ ui = "drain"
    /\ budget > 0
    /\ capture # NoSession
    /\ queue # <<>>
    /\ Head(queue).kind = kind
    /\ queue' = Tail(queue)

recvFrame == <<pc, seq, uiDropped, stop, capture, ui, next, deadline, shownDropped>>

RecvStarted ==
    /\ Receiving("Started")
    /\ status' = "Running"
    /\ UNCHANGED <<recvFrame, budget, total, last>>

\* Only packets are charged to the budget.
RecvPacket ==
    /\ Receiving("Packet")
    /\ total' = total + 1
    /\ last' = Head(queue).no
    /\ budget' = budget - 1
    /\ UNCHANGED <<recvFrame, status>>

RecvStats ==
    /\ Receiving("Stats")
    /\ UNCHANGED <<recvFrame, budget, status, total, last>>

RecvError ==
    /\ Receiving("Error")
    /\ status' = "Error"
    /\ UNCHANGED <<recvFrame, budget, total, last>>

\* Faulty: the closing Stopped hides the error before it.
StoppedAlways == "Stopped"

\* The error a capture ended with stays on screen.
StatusOnStopped == IF status = "Error" THEN "Error" ELSE "Stopped"

RecvStopped ==
    /\ Receiving("Stopped")
    /\ status' = StatusOnStopped
    /\ UNCHANGED <<recvFrame, budget, total, last>>

DrainEnd ==
    /\ ui = "drain"
    /\ budget = 0 \/ capture = NoSession \/ queue = <<>>
    /\ ui' = "tally"
    /\ UNCHANGED <<threadVars, stop, queue, capture, stopVars, budget, status, counters>>

\* Faulty: the drop counter is read only while the capture is live.
DropsWhileLive == IF status = "Running" THEN uiDropped[capture] ELSE shownDropped

DropsNow == IF capture # NoSession THEN uiDropped[capture] ELSE shownDropped

Tally ==
    /\ ui = "tally"
    /\ ui' = "input"
    /\ shownDropped' = DropsNow
    /\ UNCHANGED <<threadVars, stop, queue, capture, stopVars, budget, status, total, last>>

\* event::poll timed out, or the key changed nothing modelled here.
NextFrame ==
    /\ ui = "input"
    /\ ui' = "drain"
    /\ budget' = DrainBudget
    /\ UNCHANGED <<threadVars, stop, queue, capture, stopVars, status, counters>>

-------------------------------------------------------------------------------
(* Key handlers: all of them first run stop_capture(), then go on.         *)

\* Faulty: the handle is given up without telling the thread.
StopUnflagged(then) ==
    /\ ui = "input"
    /\ next' = then
    /\ deadline' = FALSE
    /\ ui' = IF capture = NoSession THEN "resume" ELSE "stopWait"
    /\ UNCHANGED <<threadVars, stop, queue, capture, budget, status, counters>>

\* CaptureHandle::stop raises the flag and starts the clock; no handle, no wait.
StopCapture(then) ==
    /\ ui = "input"
    /\ next' = then
    /\ deadline' = FALSE
    /\ IF capture = NoSession
       THEN ui' = "resume" /\ UNCHANGED stop
       ELSE ui' = "stopWait" /\ stop' = [stop EXCEPT ![capture] = TRUE]
    /\ UNCHANGED <<threadVars, queue, capture, budget, status, counters>>

\* Enter on an interface, a committed filter, Ctrl-R, or -i on the command line.
StartCapture ==
    /\ \E s \in Sessions : pc[s] = "unborn"
    /\ StopCapture("spawn")

\* Esc on the monitor screen, which is shown only while a handle is held.
LeaveCapture == capture # NoSession /\ StopCapture("idle")

\* Quitting drops the application, and with it the handle.
Quit == StopCapture("exit")

\* The handle is dropped with its receiver and whatever the channel still holds.
DropHandle ==
    /\ ui' = "resume"
    /\ capture' = NoSession
    /\ queue' = <<>>

stopFrame == <<threadVars, stop, stopVars, budget, status, counters>>

StopFinished ==
    /\ ui = "stopWait"
    /\ pc[capture] = "exited"
    /\ DropHandle
    /\ UNCHANGED stopFrame

\* Faulty: a plain join loop, which frees no room for the closing send.
StopWithoutDraining ==
    /\ ui = "stopWait"
    /\ pc[capture] # "exited"
    /\ ui' = "stopClock"
    /\ UNCHANGED <<stopFrame, queue, capture>>

StopUnfinished ==
    /\ ui = "stopWait"
    /\ pc[capture] # "exited"
    /\ ui' = "stopDrain"
    /\ UNCHANGED <<stopFrame, queue, capture>>

StopDiscard ==
    /\ ui = "stopDrain"
    /\ queue # <<>>
    /\ queue' = Tail(queue)
    /\ UNCHANGED <<stopFrame, ui, capture>>

StopDrained ==
    /\ ui = "stopDrain"
    /\ queue = <<>>
    /\ ui' = "stopClock"
    /\ UNCHANGED <<stopFrame, queue, capture>>

\* Faulty: the loop only ever waits for the thread.
StopNoDeadline ==
    /\ ui = "stopClock"
    /\ ui' = "stopWait"
    /\ UNCHANGED <<stopFrame, queue, capture>>

\* Past the deadline the thread is detached: the handle goes, the thread stays.
StopClock ==
    /\ ui = "stopClock"
    /\ IF deadline
       THEN DropHandle
       ELSE ui' = "stopWait" /\ UNCHANGED <<queue, capture>>
    /\ UNCHANGED stopFrame

DeadlinePasses ==
    /\ ui \in StopPcs
    /\ ~deadline
    /\ deadline' = TRUE
    /\ UNCHANGED <<threadVars, stop, queue, capture, ui, next, budget, status, counters>>

BackToDevices ==
    /\ ui = "resume" /\ next = "idle"
    /\ ui' = "drain"
    /\ budget' = DrainBudget
    /\ status' = "Idle"
    /\ UNCHANGED <<threadVars, stop, queue, capture, stopVars, counters>>

\* CaptureHandle::spawn and the rest of start_capture, counters reset included.
Spawn(s) ==
    /\ ui = "resume" /\ next = "spawn"
    /\ pc[s] = "unborn"
    /\ Goto(s, "opening")
    /\ capture' = s
    /\ status' = "Starting"
    /\ total' = 0 /\ last' = 0 /\ shownDropped' = 0
    /\ ui' = "drain"
    /\ budget' = DrainBudget
    /\ UNCHANGED <<seq, uiDropped, stop, queue, stopVars>>

Exit ==
    /\ ui = "resume" /\ next = "exit"
    /\ ui' = "ended"
    /\ UNCHANGED <<threadVars, stop, queue, capture, stopVars, budget, status, counters>>

Terminated == ui = "ended" /\ UNCHANGED vars

\* The steps the interface takes on its own, without waiting for a key.
UiStep ==
    \/ RecvStarted \/ RecvPacket \/ RecvStats \/ RecvError \/ RecvStopped
    \/ DrainEnd \/ Tally \/ NextFrame
    \/ StopFinished \/ StopUnfinished \/ StopDiscard \/ StopDrained \/ StopClock
    \/ BackToDevices \/ Exit \/ \E s \in Sessions : Spawn(s)

Key == StartCapture \/ LeaveCapture \/ Quit

Next ==
    \/ \E s \in Sessions : ThreadStep(s)
    \/ UiStep \/ Key \/ DeadlinePasses \/ Terminated

\* The main loop polls for keys with a timeout, so it always comes round again.
Spec == Init /\ [][Next]_vars /\ WF_vars(UiStep)

-------------------------------------------------------------------------------
(* Properties                                                              *)

\* Types, and CHANNEL_CAPACITY: sync_channel never holds more than its bound.
TypeOK ==
    /\ pc \in [Sessions -> ThreadPcs]
    /\ seq \in [Sessions -> Nat]
    /\ uiDropped \in [Sessions -> Nat]
    /\ stop \in [Sessions -> BOOLEAN]
    /\ queue \in Seq(Event) /\ Len(queue) <= ChannelCapacity
    /\ capture \in Sessions \cup {NoSession}
    /\ ui \in UiPcs
    /\ next \in {"idle", "spawn", "exit"}
    /\ deadline \in BOOLEAN
    /\ budget \in Nat
    /\ status \in Statuses
    /\ total \in Nat /\ last \in Nat /\ shownDropped \in Nat

\* The interface is not inside stop(), so what the channel carries will be read.
Listening == capture # NoSession /\ ui \notin StopPcs

KindAt(i) == queue[i].kind

\* Started is the first event of a session that opened, and comes exactly once.
StartedFirst ==
    /\ status = "Starting" =>
         IF queue = <<>> THEN pc[capture] \in {"opening", "announce", "failing"}
         ELSE /\ KindAt(1) \in {"Started", "Error"}
              /\ pc[capture] \notin {"opening", "announce"}
    /\ \A i \in 1..Len(queue) : KindAt(i) = "Started" => i = 1 /\ status = "Starting"
    /\ status = "Running" => pc[capture] \notin {"opening", "announce"}

\* An error is the last thing before the closing Stopped, read or unread.
ErrorThenStopped ==
    /\ \A i \in 1..Len(queue) : KindAt(i) = "Error" =>
         \/ i = Len(queue) /\ pc[capture] = "signOff"
         \/ i = Len(queue) - 1 /\ pc[capture] = "exited"
    /\ status = "Error" =>
         \/ queue = <<>> /\ pc[capture] \in {"signOff", "exited"}
         \/ Len(queue) = 1 /\ KindAt(1) = "Stopped" /\ pc[capture] = "exited"

\* Stopped is the last event, is sent by every session that ends, and is sent once.
StoppedLast ==
    /\ \A i \in 1..Len(queue) :
          KindAt(i) = "Stopped" => i = Len(queue) /\ pc[capture] = "exited"
    /\ status \in {"Starting", "Running"} /\ pc[capture] = "exited" =>
          queue # <<>> /\ KindAt(Len(queue)) = "Stopped"
    /\ status = "Stopped" => queue = <<>> /\ pc[capture] = "exited"

\* A handle is held exactly between its spawn and its drop, and its channel with it.
HandleOwnsChannel ==
    /\ capture = NoSession => queue = <<>>
    /\ capture # NoSession => pc[capture] # "unborn"
    /\ ui \in StopPcs => capture # NoSession
    /\ ui \in {"resume", "ended"} => capture = NoSession
    /\ \A s \in Sessions : pc[s] = "unborn" => seq[s] = 0

\* The event protocol between run() and drain_capture(), which the enum
\* CaptureEvent does not enforce: Started, then packets and statistics, then at
\* most one Error, then Stopped, and the status line is in step with it.
ChannelProtocol ==
    /\ HandleOwnsChannel
    /\ Listening => status # "Idle" /\ StartedFirst /\ ErrorThenStopped /\ StoppedLast
    /\ status = "Idle" => capture = NoSession

\* The numbers in the channel ascend, beyond the last one counted and up to the
\* last one read: nothing is delivered twice or out of order.
NumbersAscend ==
    Listening =>
        LET newest == seq[capture] - (IF pc[capture] = "offer" THEN 1 ELSE 0)
        IN  /\ last <= newest
            /\ \A i \in 1..Len(queue) : KindAt(i) = "Packet" =>
                  /\ last < queue[i].no /\ queue[i].no <= newest
                  /\ \A j \in (i + 1)..Len(queue) :
                        KindAt(j) = "Packet" => queue[i].no < queue[j].no

\* The inductive invariant behind ChannelProtocol and the lifecycle.
CaptureInv == TypeOK /\ ChannelProtocol /\ NumbersAscend

PacketsQueued == Cardinality({i \in 1..Len(queue) : KindAt(i) = "Packet"})

InFlight(s) == IF pc[s] \in {"offer", "count"} THEN 1 ELSE 0

\* Every packet read is counted by the interface, still queued, in the reader's
\* hands, or added to ui_dropped: none is lost twice and none is lost silently.
Accounted ==
    Listening =>
        seq[capture] = total + PacketsQueued + uiDropped[capture] + InFlight(capture)

\* Once a capture has ended the header is exact: packets shown plus drops shown
\* is what was read, because drain_capture reads the counter after the channel.
FinalCountExact ==
    ui = "input" /\ capture # NoSession /\ status \in {"Error", "Stopped"} =>
        total + shownDropped = seq[capture]

\* A capture that has ended can drop nothing more, and the frame that showed its end
\* read the drop counter after it.  A thread not spawned yet has dropped nothing.
DropsSettled ==
    /\ \A s \in Sessions : pc[s] = "unborn" => uiDropped[s] = 0
    /\ ui = "input" /\ capture # NoSession /\ status \in {"Error", "Stopped"} =>
         shownDropped = uiDropped[capture]

\* The inductive invariant behind Accounted and FinalCountExact, beside CaptureInv.
AccountInv == Accounted /\ DropsSettled

\* At most one thread is not on its way out: a thread that is no longer the held
\* one, detached at the deadline or left behind by a restart, was told to stop.
OneLiveReader ==
    \A s \in Sessions : s # capture /\ pc[s] \notin {"unborn", "exited"} => stop[s]

\* The status line and the counters follow the life of a capture.
Lifecycle == INSTANCE CaptureLifecycle
LifecycleSpec == Lifecycle!Spec

ThreadsRun == \A s \in Sessions : WF_vars(ThreadStep(s))
StopReturns == ui \in StopPcs ~> ui \notin StopPcs

\* stop() needs no clock: draining frees the room the closing send waits for,
\* so a scheduled thread exits and the join returns.
StopByDraining == ThreadsRun => StopReturns

\* stop() needs no thread: past STOP_TIMEOUT it returns even if the reader never
\* runs again.
StopByDeadline == WF_vars(DeadlinePasses) => StopReturns

\* A thread told to stop exits, detached ones included, unless the program ends first.
StoppedThreadExits ==
    ThreadsRun => \A s \in Sessions : stop[s] ~> (pc[s] = "exited" \/ ui = "ended")

\* The header does not claim a live capture for ever once the thread is gone.
EndIsShown ==
    \A s \in Sessions :
        capture = s /\ pc[s] = "exited" ~> status \in {"Error", "Stopped"} \/ capture # s
===============================================================================
