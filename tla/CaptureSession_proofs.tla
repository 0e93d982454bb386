------------------------ MODULE CaptureSession_proofs ------------------------
(***************************************************************************)
(* Theorems about CaptureSession, for every set of sessions, every channel *)
(* capacity, every drain budget and every bound on the packets.            *)
(***************************************************************************)
EXTENDS CaptureSession, SequenceTheorems, FiniteSetTheorems, TLAPS

-------------------------------------------------------------------------------
(* The channel as a sequence.                                              *)

\* Depositing an event leaves those before it where they are.
LEMMA AppendEvent ==
    ASSUME NEW q \in Seq(Event), NEW e \in Event
    PROVE  /\ Append(q, e) \in Seq(Event)
           /\ Append(q, e) # <<>>
           /\ Len(Append(q, e)) = Len(q) + 1
           /\ \A i \in 1..Len(q) : Append(q, e)[i] = q[i]
           /\ Append(q, e)[Len(q) + 1] = e
    BY AppendProperties

\* Taking the head moves every other event up by one.
LEMMA TailEvent ==
    ASSUME NEW q \in Seq(Event), q # <<>>
    PROVE  /\ Head(q) = q[1] /\ Head(q) \in Event
           /\ Len(q) \in Nat /\ Len(q) >= 1
           /\ Tail(q) \in Seq(Event)
           /\ Len(Tail(q)) = Len(q) - 1
           /\ \A i \in 1..(Len(q) - 1) : Tail(q)[i] = q[i + 1]
           /\ Tail(q) = <<>> <=> Len(q) = 1
<1>1. /\ Head(q) = q[1] /\ Head(q) \in Event
      /\ Len(q) \in Nat /\ Len(q) >= 1
      /\ Tail(q) \in Seq(Event)
      /\ Len(Tail(q)) = Len(q) - 1
      /\ \A i \in 1..(Len(q) - 1) : Tail(q)[i] = q[i + 1]
    BY HeadTailProperties
<1>2. \A t \in Seq(Event) : t = <<>> <=> Len(t) = 0
    <2> TAKE t \in Seq(Event)
    <2>1. Len(<<>>) = 0
        BY EmptySeq
    <2>2. t # <<>> => Len(t) \in Nat \ {0}
        BY EmptySeq
    <2> QED BY <2>1, <2>2
<1>3. Tail(q) = <<>> <=> Len(Tail(q)) = 0
    BY <1>1, <1>2
<1> QED BY <1>1, <1>3

LEMMA SignalIsEvent ==
    /\ \A k \in {"Started", "Stats", "Error", "Stopped"} :
          Signal(k) \in Event /\ Signal(k).kind = k
    /\ \A n \in Nat : PacketNo(n) \in Event /\ PacketNo(n).kind = "Packet" /\ PacketNo(n).no = n
    BY DEF Signal, PacketNo, Event

-------------------------------------------------------------------------------
(* Types.                                                                  *)

LEMMA InitTypeOK == Init => TypeOK
<1> SUFFICES ASSUME Init PROVE TypeOK
    OBVIOUS
<1>1. queue \in Seq(Event) /\ Len(queue) <= ChannelCapacity
    BY EmptySeq, CaptureAssumption DEF Init, CaptureAssumption
<1>2. pc \in [Sessions -> ThreadPcs] /\ stop \in [Sessions -> BOOLEAN]
    BY DEF Init, ThreadPcs
<1>3. budget \in Nat
    BY CaptureAssumption DEF Init, CaptureAssumption
<1> QED BY <1>1, <1>2, <1>3 DEF Init, TypeOK, UiPcs, Statuses

LEMMA ThreadTypeOK ==
    ASSUME TypeOK, NEW s \in Sessions, ThreadStep(s)
    PROVE  TypeOK'
<1> USE CaptureAssumption DEF CaptureAssumption
<1>1. ASSUME NEW e \in Event, Room, Deposit(e)
      PROVE  queue' \in Seq(Event) /\ Len(queue') <= ChannelCapacity
    BY <1>1, AppendEvent DEF TypeOK, Room, Deposit
<1>2. ASSUME NEW e \in Event, SendOrGone(s, e)
      PROVE  queue' \in Seq(Event) /\ Len(queue') <= ChannelCapacity
    BY <1>1, <1>2 DEF TypeOK, SendOrGone
<1>3. ASSUME NEW where \in ThreadPcs, Goto(s, where)
      PROVE  pc' \in [Sessions -> ThreadPcs]
    BY <1>3 DEF TypeOK, Goto
<1> USE DEF At, uiState
<1>4. CASE OpenSucceeds(s) \/ OpenFails(s) \/ CheckStop(s) \/ ReadNothing(s)
           \/ ReadEnd(s) \/ ReadError(s)
    <2>1. pc' \in [Sessions -> ThreadPcs]
        BY <1>4, <1>3 DEF OpenSucceeds, OpenFails, CheckStop, ReadNothing, ReadEnd,
                          ReadError, ThreadPcs
    <2>2. UNCHANGED <<seq, uiDropped, queue, uiState>>
        BY <1>4 DEF OpenSucceeds, OpenFails, CheckStop, ReadNothing, ReadEnd, ReadError
    <2> QED BY <2>1, <2>2 DEF TypeOK
<1>5. CASE SendStarted(s) \/ SendError(s) \/ SignOff(s)
    <2>1. pc' \in [Sessions -> ThreadPcs]
        BY <1>5, <1>3 DEF SendStarted, SendError, SignOff, ThreadPcs
    <2>2. queue' \in Seq(Event) /\ Len(queue') <= ChannelCapacity
        BY <1>5, <1>2, SignalIsEvent DEF SendStarted, SendError, SignOff
    <2>3. UNCHANGED <<seq, uiDropped, uiState>>
        BY <1>5 DEF SendStarted, SendError, SignOff
    <2> QED BY <2>1, <2>2, <2>3 DEF TypeOK
<1>6. CASE ReadPacket(s)
    <2>1. pc' \in [Sessions -> ThreadPcs]
        BY <1>6, <1>3 DEF ReadPacket, ThreadPcs
    <2>2. seq' \in [Sessions -> Nat]
        BY <1>6 DEF ReadPacket, TypeOK
    <2> QED BY <1>6, <2>1, <2>2 DEF ReadPacket, TypeOK
<1>7. CASE Offer(s)
    <2>1. pc' \in [Sessions -> ThreadPcs]
        BY <1>7, <1>3 DEF Offer, ThreadPcs
    <2>2. PacketNo(seq[s]) \in Event
        BY SignalIsEvent DEF TypeOK
    <2>3. queue' \in Seq(Event) /\ Len(queue') <= ChannelCapacity
        BY <1>7, <1>1, <2>2 DEF Offer, TypeOK
    <2> QED BY <1>7, <2>1, <2>3 DEF Offer, TypeOK
<1>8. CASE CountDrop(s)
    <2>1. pc' \in [Sessions -> ThreadPcs]
        BY <1>8, <1>3 DEF CountDrop, ThreadPcs
    <2>2. uiDropped' \in [Sessions -> Nat]
        BY <1>8 DEF CountDrop, TypeOK
    <2> QED BY <1>8, <2>1, <2>2 DEF CountDrop, TypeOK
<1>9. CASE StatsStep(s)
    <2>1. pc' \in [Sessions -> ThreadPcs]
        BY <1>9, <1>3 DEF StatsStep, ThreadPcs
    <2>2. queue' \in Seq(Event) /\ Len(queue') <= ChannelCapacity
        BY <1>9, <1>1, SignalIsEvent DEF StatsStep, TypeOK
    <2> QED BY <1>9, <2>1, <2>2 DEF StatsStep, TypeOK
<1> QED BY <1>4, <1>5, <1>6, <1>7, <1>8, <1>9 DEF ThreadStep

LEMMA UiTypeOK ==
    ASSUME TypeOK, UiStep \/ Key \/ DeadlinePasses
    PROVE  TypeOK'
<1> USE CaptureAssumption DEF CaptureAssumption
<1>1. ASSUME queue # <<>>, queue' = Tail(queue)
      PROVE  queue' \in Seq(Event) /\ Len(queue') <= ChannelCapacity
    BY <1>1, TailEvent DEF TypeOK
<1>2. CASE RecvStarted \/ RecvPacket \/ RecvStats \/ RecvError \/ RecvStopped
    <2>1. queue' \in Seq(Event) /\ Len(queue') <= ChannelCapacity
        BY <1>2, <1>1 DEF RecvStarted, RecvPacket, RecvStats, RecvError, RecvStopped, Receiving
    <2>2. UNCHANGED recvFrame
        BY <1>2 DEF RecvStarted, RecvPacket, RecvStats, RecvError, RecvStopped
    <2>3. status' \in Statuses
        BY <1>2 DEF RecvStarted, RecvPacket, RecvStats, RecvError, RecvStopped,
                    StatusOnStopped, Statuses, TypeOK
    <2>4. budget' \in Nat /\ total' \in Nat /\ last' \in Nat
        <3>1. CASE RecvPacket
            <4>1. Head(queue).no \in Nat
                BY <3>1, TailEvent DEF RecvPacket, Receiving, TypeOK, Event
            <4> QED BY <3>1, <4>1 DEF RecvPacket, Receiving, TypeOK
        <3> QED BY <1>2, <3>1 DEF RecvStarted, RecvStats, RecvError, RecvStopped, TypeOK
    <2> QED BY <2>1, <2>2, <2>3, <2>4 DEF TypeOK, recvFrame
<1>3. CASE DrainEnd \/ NextFrame
    BY <1>3 DEF DrainEnd, NextFrame, TypeOK, UiPcs, threadVars, stopVars, counters
<1>4. CASE Tally
    <2>1. DropsNow \in Nat
        BY DEF DropsNow, TypeOK
    <2> QED BY <1>4, <2>1 DEF Tally, TypeOK, UiPcs, threadVars, stopVars
<1>5. CASE Key
    <2>1. PICK then \in {"idle", "spawn", "exit"} : StopCapture(then)
        BY <1>5 DEF Key, StartCapture, LeaveCapture, Quit
    <2>2. stop' \in [Sessions -> BOOLEAN]
        BY <2>1 DEF StopCapture, TypeOK
    <2> QED BY <2>1, <2>2 DEF StopCapture, TypeOK, UiPcs, StopPcs, threadVars, counters
<1>6. CASE StopFinished \/ StopUnfinished \/ StopDrained \/ StopClock
    <2>1. \/ queue' = queue /\ capture' = capture
          \/ queue' = <<>> /\ capture' = NoSession
        BY <1>6 DEF StopFinished, StopUnfinished, StopDrained, StopClock, DropHandle
    <2>2. queue' \in Seq(Event) /\ Len(queue') <= ChannelCapacity
        <3>1. <<>> \in Seq(Event) /\ Len(<<>>) = 0
            BY EmptySeq
        <3>2. CASE queue' = <<>>
            BY <3>1, <3>2
        <3>3. CASE queue' = queue
            BY <3>3 DEF TypeOK
        <3> QED BY <2>1, <3>2, <3>3
    <2>3. ui' \in UiPcs /\ UNCHANGED stopFrame
        BY <1>6 DEF StopFinished, StopUnfinished, StopDrained, StopClock, DropHandle,
                    UiPcs, StopPcs
    <2> QED BY <2>1, <2>2, <2>3 DEF TypeOK, stopFrame, threadVars, stopVars, counters
<1>7. CASE StopDiscard
    <2>1. queue' \in Seq(Event) /\ Len(queue') <= ChannelCapacity
        BY <1>7, <1>1 DEF StopDiscard
    <2> QED BY <1>7, <2>1 DEF StopDiscard, TypeOK, stopFrame, threadVars, stopVars, counters
<1>8. CASE DeadlinePasses \/ BackToDevices \/ Exit
    BY <1>8 DEF DeadlinePasses, BackToDevices, Exit, TypeOK, UiPcs, Statuses, threadVars,
                stopVars, counters
<1>9. ASSUME NEW s \in Sessions, Spawn(s) PROVE TypeOK'
    <2>1. pc' \in [Sessions -> ThreadPcs]
        BY <1>9 DEF Spawn, Goto, ThreadPcs, TypeOK
    <2> QED BY <1>9, <2>1 DEF Spawn, TypeOK, UiPcs, Statuses, stopVars
<1> QED BY <1>2, <1>3, <1>4, <1>5, <1>6, <1>7, <1>8, <1>9 DEF UiStep

\* Every variable keeps its type and the channel its bound (CHANNEL_CAPACITY).
THEOREM TypeCorrect == Spec => []TypeOK
<1>1. TypeOK /\ [Next]_vars => TypeOK'
    <2> SUFFICES ASSUME TypeOK, [Next]_vars PROVE TypeOK'
        OBVIOUS
    <2>1. CASE \E s \in Sessions : ThreadStep(s)
        BY <2>1, ThreadTypeOK
    <2>2. CASE UiStep \/ Key \/ DeadlinePasses
        BY <2>2, UiTypeOK
    <2>3. CASE Terminated \/ UNCHANGED vars
        BY <2>3 DEF Terminated, vars, TypeOK
    <2> QED BY <2>1, <2>2, <2>3 DEF Next
<1> QED BY <1>1, InitTypeOK, PTL DEF Spec
-------------------------------------------------------------------------------
(* The protocol on the channel.                                            *)

LEMMA InitCaptureInv == Init => CaptureInv
<1> SUFFICES ASSUME Init PROVE CaptureInv
    OBVIOUS
<1>1. HandleOwnsChannel
    BY DEF Init, HandleOwnsChannel, StopPcs
<1>2. ~Listening
    BY DEF Init, Listening
<1>3. capture = NoSession
    BY DEF Init
<1> QED BY <1>1, <1>2, <1>3, InitTypeOK DEF CaptureInv, ChannelProtocol, NumbersAscend

LEMMA QueueEvents ==
    ASSUME TypeOK
    PROVE  \A i \in 1..Len(queue) : queue[i] \in Event /\ queue[i].no \in Nat
<1> TAKE i \in 1..Len(queue)
<1>1. queue[i] \in Event
    BY ElementOfSeq DEF TypeOK
<1> QED BY <1>1 DEF Event

\* What a session that no handle holds does is not seen on the held channel.
LEMMA OtherThreadInv ==
    ASSUME CaptureInv, NEW s \in Sessions, ThreadStep(s), s # capture
    PROVE  ChannelProtocol' /\ NumbersAscend'
<1> USE DEF At, uiState
<1>1. UNCHANGED <<queue, uiState>>
    BY DEF ThreadStep, OpenSucceeds, OpenFails, SendStarted, CheckStop, ReadPacket, ReadNothing,
           ReadEnd, ReadError, SendError, Offer, CountDrop, StatsStep, SignOff, SendOrGone,
           Connected
<1>2. PICK where \in ThreadPcs : Goto(s, where) /\ where # "unborn" /\ pc[s] # "unborn"
    BY DEF ThreadStep, OpenSucceeds, OpenFails, SendStarted, CheckStop, ReadPacket, ReadNothing,
           ReadEnd, ReadError, SendError, Offer, CountDrop, StatsStep, SignOff, ThreadPcs
<1>3. pc'[s] # "unborn" /\ \A t \in Sessions \ {s} : pc'[t] = pc[t]
    BY <1>2 DEF Goto, CaptureInv, TypeOK
<1>4. \A t \in Sessions \ {s} : seq'[t] = seq[t]
    BY DEF ThreadStep, OpenSucceeds, OpenFails, SendStarted, CheckStop, ReadPacket, ReadNothing,
           ReadEnd, ReadError, SendError, Offer, CountDrop, StatsStep, SignOff, CaptureInv, TypeOK
<1>5. capture # NoSession => capture \in Sessions \ {s}
    BY DEF CaptureInv, TypeOK
<1>6. capture # NoSession => pc'[capture] = pc[capture] /\ seq'[capture] = seq[capture]
    BY <1>3, <1>4, <1>5
<1>7. HandleOwnsChannel'
    BY <1>1, <1>3, <1>4, <1>6 DEF HandleOwnsChannel, CaptureInv, ChannelProtocol
<1>8. Listening' = Listening
    BY <1>1 DEF Listening
<1>9. Listening => StartedFirst' /\ ErrorThenStopped' /\ StoppedLast'
    <2> SUFFICES ASSUME Listening PROVE StartedFirst' /\ ErrorThenStopped' /\ StoppedLast'
        OBVIOUS
    <2>1. StartedFirst /\ ErrorThenStopped /\ StoppedLast
        BY DEF CaptureInv, ChannelProtocol
    <2>2. capture' = capture /\ queue' = queue /\ status' = status
          /\ pc'[capture] = pc[capture]
        BY <1>1, <1>6 DEF Listening
    <2> QED BY <2>1, <2>2 DEF StartedFirst, ErrorThenStopped, StoppedLast, KindAt
<1>10. ChannelProtocol'
    BY <1>1, <1>7, <1>8, <1>9 DEF ChannelProtocol, CaptureInv
<1>11. NumbersAscend'
    BY <1>1, <1>6, <1>8 DEF NumbersAscend, CaptureInv, Listening, KindAt
<1> QED BY <1>10, <1>11

\* The held thread's steps that leave the channel alone: none of them is the
\* sign-off, so nothing closing is in the channel yet.
LEMMA QuietStepInv ==
    ASSUME CaptureInv, NEW s \in Sessions, s = capture, ui # "ended",
           UNCHANGED <<queue, uiState>>,
           NEW from \in {"opening", "poll", "reading", "offer", "count", "stats"}, pc[s] = from,
           NEW to \in {"announce", "poll", "reading", "offer", "count", "stats", "failing",
                       "signOff"},
           Goto(s, to), from = "opening" => to \in {"announce", "failing"},
           to = "announce" => from = "opening",
           IF to = "offer" THEN seq' = [seq EXCEPT ![s] = @ + 1] ELSE seq' = seq
    PROVE  ChannelProtocol' /\ NumbersAscend'
<1> USE DEF uiState
<1>1. pc' = [pc EXCEPT ![s] = to] /\ pc'[s] = to
    BY DEF Goto, CaptureInv, TypeOK
<1>2. HandleOwnsChannel'
    BY <1>1 DEF HandleOwnsChannel, CaptureInv, ChannelProtocol, TypeOK
<1>3. Listening' = Listening
    BY DEF Listening
<1>4. ASSUME Listening
      PROVE  StartedFirst' /\ ErrorThenStopped' /\ StoppedLast'
    <2>1. StartedFirst /\ ErrorThenStopped /\ StoppedLast
        BY <1>4 DEF CaptureInv, ChannelProtocol
    <2>2. capture' = capture /\ queue' = queue /\ status' = status
          /\ pc'[capture] = to /\ pc[capture] = from
        BY <1>1
    <2>3. StartedFirst'
        BY <2>1, <2>2 DEF StartedFirst, KindAt
    <2>4. ErrorThenStopped'
        BY <2>1, <2>2 DEF ErrorThenStopped, KindAt
    <2>5. StoppedLast'
        BY <2>1, <2>2 DEF StoppedLast, KindAt
    <2> QED BY <2>3, <2>4, <2>5
<1>5. ChannelProtocol'
    BY <1>2, <1>3, <1>4 DEF ChannelProtocol, CaptureInv
<1>6. ASSUME Listening PROVE NumbersAscend'
    <2>1. capture' = capture /\ queue' = queue /\ last' = last
          /\ pc'[capture] = to /\ pc[capture] = from
        BY <1>1
    <2>2. seq[capture] \in Nat /\ last \in Nat
        BY DEF CaptureInv, TypeOK
    <2>3. seq'[capture] = IF to = "offer" THEN seq[capture] + 1 ELSE seq[capture]
        BY DEF CaptureInv, TypeOK
    <2>4. \A i \in 1..Len(queue) : queue[i].no \in Nat
        BY QueueEvents DEF CaptureInv
    <2>5. NumbersAscend
        BY DEF CaptureInv
    <2> QED BY <1>3, <1>6, <2>1, <2>2, <2>3, <2>4, <2>5 DEF NumbersAscend, KindAt
<1> QED BY <1>3, <1>5, <1>6 DEF NumbersAscend

\* The held thread's steps that deposit an event.
LEMMA DepositStepInv ==
    ASSUME CaptureInv, NEW s \in Sessions, s = capture, ui # "ended",
           UNCHANGED <<seq, uiState>>, NEW e \in Event, Deposit(e),
           NEW from \in ThreadPcs, pc[s] = from, NEW to \in ThreadPcs, Goto(s, to),
           \/ e.kind = "Started" /\ from = "announce" /\ to = "poll"
           \/ e.kind = "Packet" /\ from = "offer" /\ to = "stats" /\ e.no = seq[s]
           \/ e.kind = "Stats" /\ from = "stats" /\ to = "poll"
           \/ e.kind = "Error" /\ from = "failing" /\ to = "signOff"
           \/ e.kind = "Stopped" /\ from = "signOff" /\ to = "exited"
    PROVE  ChannelProtocol' /\ NumbersAscend'
<1> USE DEF uiState
<1>1. pc' = [pc EXCEPT ![s] = to] /\ pc'[s] = to
    BY DEF Goto, CaptureInv, TypeOK
<1>2. HandleOwnsChannel'
    BY <1>1, CaptureAssumption
    DEF HandleOwnsChannel, CaptureInv, ChannelProtocol, TypeOK, CaptureAssumption
<1>3. Listening' = Listening
    BY DEF Listening
<1> DEFINE n == Len(queue)
<1>4. /\ n \in Nat /\ Len(queue') = n + 1 /\ queue' # <<>>
      /\ \A i \in 1..n : queue'[i] = queue[i]
      /\ queue'[n + 1] = e
      /\ queue = <<>> <=> n = 0
    BY AppendEvent, EmptySeq, LenProperties DEF Deposit, CaptureInv, TypeOK
<1>5. capture' = capture /\ status' = status /\ pc'[capture] = to /\ pc[capture] = from
      /\ last' = last /\ seq' = seq
    BY <1>1
<1> HIDE DEF n
<1>6. ASSUME Listening
      PROVE  StartedFirst' /\ ErrorThenStopped' /\ StoppedLast'
    <2>1. StartedFirst /\ ErrorThenStopped /\ StoppedLast /\ status # "Idle"
        BY <1>6 DEF CaptureInv, ChannelProtocol
    <2>2. status \in Statuses
        BY DEF CaptureInv, TypeOK
    <2>3. StartedFirst'
        BY <2>1, <2>2, <1>4, <1>5 DEF StartedFirst, ErrorThenStopped, StoppedLast, KindAt, n, Statuses
    <2>4. ErrorThenStopped'
        BY <2>1, <2>2, <1>4, <1>5 DEF StartedFirst, ErrorThenStopped, StoppedLast, KindAt, n, Statuses
    <2>5. StoppedLast'
        BY <2>1, <2>2, <1>4, <1>5 DEF StartedFirst, ErrorThenStopped, StoppedLast, KindAt, n, Statuses
    <2> QED BY <2>3, <2>4, <2>5
<1>7. ChannelProtocol'
    BY <1>2, <1>3, <1>5, <1>6 DEF ChannelProtocol, CaptureInv
<1>8. ASSUME Listening PROVE NumbersAscend'
    <2>1. seq[capture] \in Nat /\ last \in Nat
        BY DEF CaptureInv, TypeOK
    <2>2. \A i \in 1..n : queue[i].no \in Nat
        BY QueueEvents DEF CaptureInv, n
    <2> DEFINE newest == seq[capture] - (IF from = "offer" THEN 1 ELSE 0)
    <2>3. /\ last <= newest
          /\ \A i \in 1..n : queue[i].kind = "Packet" =>
                /\ last < queue[i].no /\ queue[i].no <= newest
                /\ \A j \in (i + 1)..n : queue[j].kind = "Packet" => queue[i].no < queue[j].no
        BY <1>5, <1>8 DEF CaptureInv, NumbersAscend, KindAt, n
    <2>4. newest <= seq[capture] /\ newest \in Int
        BY <2>1
    <2>5. e.kind = "Packet" => newest < e.no /\ e.no = seq[capture]
        BY <2>1, <1>5
    <2>6. to # "offer"
        OBVIOUS
    <2> HIDE DEF newest
    <2>7. last <= seq[capture]
        BY <2>1, <2>3, <2>4
    <2>8. \A i \in 1..(n + 1) : queue'[i].kind = "Packet" =>
             last < queue'[i].no /\ queue'[i].no <= seq[capture]
        BY <1>4, <2>1, <2>2, <2>3, <2>4, <2>5
    <2>9. \A i \in 1..(n + 1) : queue'[i].kind = "Packet" =>
             \A j \in (i + 1)..(n + 1) :
                queue'[j].kind = "Packet" => queue'[i].no < queue'[j].no
        BY <1>4, <2>1, <2>2, <2>3, <2>4, <2>5
    <2> QED BY <1>4, <1>5, <2>1, <2>6, <2>7, <2>8, <2>9 DEF NumbersAscend, KindAt
<1> QED BY <1>3, <1>7, <1>8 DEF NumbersAscend

LEMMA ThreadInv ==
    ASSUME CaptureInv, NEW s \in Sessions, ThreadStep(s)
    PROVE  ChannelProtocol' /\ NumbersAscend'
<1>1. CASE s # capture
    BY <1>1, OtherThreadInv
<1>2. CASE s = capture
    <2> USE <1>2 DEF At, ThreadPcs, Connected
    <2>1. CASE OpenSucceeds(s) \/ OpenFails(s)
        BY <2>1, QuietStepInv DEF OpenSucceeds, OpenFails
    <2>2. CASE CheckStop(s)
        BY <2>2, QuietStepInv DEF CheckStop
    <2>3. CASE ReadNothing(s) \/ ReadEnd(s) \/ ReadError(s)
        BY <2>3, QuietStepInv DEF ReadNothing, ReadEnd, ReadError
    <2>4. CASE ReadPacket(s)
        BY <2>4, QuietStepInv DEF ReadPacket
    <2>5. CASE CountDrop(s)
        BY <2>5, QuietStepInv DEF CountDrop
    <2>6. CASE SendStarted(s)
        <3>1. Deposit(Signal("Started")) /\ Goto(s, "poll")
            BY <2>6 DEF SendStarted, SendOrGone
        <3> QED BY <2>6, <3>1, SignalIsEvent, DepositStepInv DEF SendStarted
    <2>7. CASE SendError(s)
        <3>1. Deposit(Signal("Error"))
            BY <2>7 DEF SendError, SendOrGone
        <3> QED BY <2>7, <3>1, SignalIsEvent, DepositStepInv DEF SendError
    <2>8. CASE SignOff(s)
        <3>1. Deposit(Signal("Stopped"))
            BY <2>8 DEF SignOff, SendOrGone
        <3> QED BY <2>8, <3>1, SignalIsEvent, DepositStepInv DEF SignOff
    <2>9. CASE Offer(s)
        <3>1. seq[s] \in Nat
            BY DEF CaptureInv, TypeOK
        <3>2. CASE Deposit(PacketNo(seq[s])) /\ Goto(s, "stats")
            BY <2>9, <3>1, <3>2, SignalIsEvent, DepositStepInv DEF Offer
        <3>3. CASE Goto(s, "count") /\ UNCHANGED queue
            BY <2>9, <3>3, QuietStepInv DEF Offer
        <3> QED BY <2>9, <3>2, <3>3 DEF Offer
    <2>10. CASE StatsStep(s)
        <3>1. CASE Deposit(Signal("Stats"))
            BY <2>10, <3>1, SignalIsEvent, DepositStepInv DEF StatsStep
        <3>2. CASE UNCHANGED queue
            BY <2>10, <3>2, QuietStepInv DEF StatsStep
        <3> QED BY <2>10, <3>1, <3>2 DEF StatsStep
    <2> QED BY <2>1, <2>2, <2>3, <2>4, <2>5, <2>6, <2>7, <2>8, <2>9, <2>10 DEF ThreadStep
<1> QED BY <1>1, <1>2

\* What drain_capture may meet at the head of the channel, given the status.
LEMMA HeadFitsStatus ==
    ASSUME CaptureInv, ui = "drain", capture # NoSession, queue # <<>>
    PROVE  /\ KindAt(1) = "Started" => status = "Starting"
           /\ KindAt(1) = "Packet" => status = "Running" /\ queue[1].no > last
           /\ KindAt(1) = "Error" => status \in {"Starting", "Running"}
           /\ KindAt(1) = "Stopped" => status \in {"Running", "Error"}
<1>1. Listening
    BY DEF Listening, StopPcs
<1>2. StartedFirst /\ ErrorThenStopped /\ StoppedLast /\ status # "Idle" /\ NumbersAscend
    BY <1>1 DEF CaptureInv, ChannelProtocol
<1>3. Len(queue) \in Nat /\ Len(queue) >= 1 /\ status \in Statuses /\ last \in Nat
    BY TailEvent DEF CaptureInv, TypeOK
<1>4. KindAt(1) = "Packet" => queue[1].no > last
    BY <1>1, <1>2, <1>3, QueueEvents DEF NumbersAscend, CaptureInv
<1> QED BY <1>2, <1>3, <1>4 DEF StartedFirst, ErrorThenStopped, StoppedLast, KindAt, Statuses

LEMMA RecvInv ==
    ASSUME CaptureInv, RecvStarted \/ RecvPacket \/ RecvStats \/ RecvError \/ RecvStopped
    PROVE  ChannelProtocol' /\ NumbersAscend'
<1>1. ui = "drain" /\ capture # NoSession /\ queue # <<>> /\ queue' = Tail(queue)
    BY DEF RecvStarted, RecvPacket, RecvStats, RecvError, RecvStopped, Receiving
<1>2. UNCHANGED <<pc, seq, capture, ui>>
    BY DEF RecvStarted, RecvPacket, RecvStats, RecvError, RecvStopped, recvFrame
<1>3. Listening /\ Listening'
    BY <1>1, <1>2 DEF Listening, StopPcs
<1>4. StartedFirst /\ ErrorThenStopped /\ StoppedLast /\ status # "Idle" /\ NumbersAscend
    BY <1>3 DEF CaptureInv, ChannelProtocol
<1> DEFINE n == Len(queue)
<1>5. /\ n \in Nat /\ n >= 1 /\ Len(queue') = n - 1
      /\ \A i \in 1..(n - 1) : queue'[i] = queue[i + 1]
      /\ queue' = <<>> <=> n = 1
      /\ Head(queue) = queue[1]
    BY <1>1, TailEvent, EmptySeq DEF CaptureInv, TypeOK
<1>6. /\ \/ KindAt(1) = "Started" /\ status' = "Running" /\ last' = last
         \/ KindAt(1) = "Packet" /\ status' = status /\ last' = queue[1].no
         \/ KindAt(1) = "Stats" /\ status' = status /\ last' = last
         \/ KindAt(1) = "Error" /\ status' = "Error" /\ last' = last
         \/ /\ KindAt(1) = "Stopped" /\ last' = last
            /\ status' = IF status = "Error" THEN "Error" ELSE "Stopped"
    BY <1>5 DEF RecvStarted, RecvPacket, RecvStats, RecvError, RecvStopped, Receiving, KindAt,
                StatusOnStopped
<1>7. status \in Statuses /\ last \in Nat /\ capture \in Sessions /\ seq[capture] \in Nat
    BY <1>1 DEF CaptureInv, TypeOK
<1> HIDE DEF n
<1>8. HandleOwnsChannel'
    BY <1>1, <1>2 DEF HandleOwnsChannel, CaptureInv, ChannelProtocol, StopPcs
<1>9. StartedFirst'
    BY <1>2, <1>4, <1>5, <1>6, <1>7
    DEF StartedFirst, ErrorThenStopped, StoppedLast, KindAt, n, Statuses
<1>10. ErrorThenStopped'
    BY <1>2, <1>4, <1>5, <1>6, <1>7
    DEF StartedFirst, ErrorThenStopped, StoppedLast, KindAt, n, Statuses
<1>11. StoppedLast'
    BY <1>2, <1>4, <1>5, <1>6, <1>7
    DEF StartedFirst, ErrorThenStopped, StoppedLast, KindAt, n, Statuses
<1>12. ChannelProtocol'
    BY <1>1, <1>2, <1>3, <1>4, <1>6, <1>8, <1>9, <1>10, <1>11 DEF ChannelProtocol
<1>13. NumbersAscend'
    <2>1. \A i \in 1..n : queue[i].no \in Nat
        BY QueueEvents DEF CaptureInv, n
    <2> DEFINE newest == seq[capture] - (IF pc[capture] = "offer" THEN 1 ELSE 0)
    <2>2. /\ last <= newest
          /\ \A i \in 1..n : queue[i].kind = "Packet" =>
                /\ last < queue[i].no /\ queue[i].no <= newest
                /\ \A j \in (i + 1)..n : queue[j].kind = "Packet" => queue[i].no < queue[j].no
        BY <1>3, <1>4 DEF NumbersAscend, KindAt, n
    <2>3. newest \in Int
        BY <1>7
    <2> HIDE DEF newest
    <2>4. last' \in Nat /\ last' <= newest
        BY <1>5, <1>6, <1>7, <2>1, <2>2 DEF KindAt
    <2>5. \A i \in 1..(n - 1) : queue'[i].kind = "Packet" =>
             last' < queue'[i].no /\ queue'[i].no <= newest
        BY <1>5, <1>6, <1>7, <2>1, <2>2, <2>3 DEF KindAt
    <2>6. \A i \in 1..(n - 1) : queue'[i].kind = "Packet" =>
             \A j \in (i + 1)..(n - 1) :
                queue'[j].kind = "Packet" => queue'[i].no < queue'[j].no
        <3> SUFFICES ASSUME NEW i \in 1..(n - 1), NEW j \in (i + 1)..(n - 1),
                            queue'[i].kind = "Packet", queue'[j].kind = "Packet"
                     PROVE  queue'[i].no < queue'[j].no
            OBVIOUS
        <3>1. i + 1 \in 1..n /\ j + 1 \in ((i + 1) + 1)..n
            BY <1>5
        <3>2. queue'[i] = queue[i + 1] /\ queue'[j] = queue[j + 1]
            BY <1>5
        <3> QED BY <2>2, <3>1, <3>2
    <2>7. newest = seq'[capture'] - (IF pc'[capture'] = "offer" THEN 1 ELSE 0)
        BY <1>2 DEF newest
    <2>8. \A i \in 1..Len(queue') : queue'[i].kind = "Packet" =>
             /\ last' < queue'[i].no /\ queue'[i].no <= newest
             /\ \A j \in (i + 1)..Len(queue') :
                   queue'[j].kind = "Packet" => queue'[i].no < queue'[j].no
        BY <1>5, <2>5, <2>6
    <2> QED BY <2>4, <2>7, <2>8 DEF NumbersAscend, KindAt
<1> QED BY <1>12, <1>13

\* The rest of the interface: turns of the loop, keys and stop().
LEMMA LoopInv ==
    ASSUME CaptureInv, DrainEnd \/ Tally \/ NextFrame
    PROVE  ChannelProtocol' /\ NumbersAscend'
<1>1. UNCHANGED <<pc, seq, queue, capture, status, last>> /\ ui \notin StopPcs
      /\ ui' \in {"drain", "tally", "input"}
    BY DEF DrainEnd, Tally, NextFrame, threadVars, counters, StopPcs
<1>2. Listening' = Listening
    BY <1>1 DEF Listening, StopPcs
<1>3. HandleOwnsChannel'
    BY <1>1 DEF HandleOwnsChannel, CaptureInv, ChannelProtocol, StopPcs
<1>4. ChannelProtocol'
    BY <1>1, <1>2, <1>3
    DEF CaptureInv, ChannelProtocol, StartedFirst, ErrorThenStopped, StoppedLast, KindAt
<1>5. NumbersAscend'
    BY <1>1, <1>2 DEF CaptureInv, NumbersAscend, KindAt
<1> QED BY <1>4, <1>5

LEMMA StopInv ==
    ASSUME CaptureInv,
           Key \/ StopFinished \/ StopUnfinished \/ StopDiscard \/ StopDrained \/ StopClock
           \/ DeadlinePasses \/ BackToDevices \/ Exit
    PROVE  ChannelProtocol' /\ NumbersAscend'
<1>1. HandleOwnsChannel /\ (status = "Idle" => capture = NoSession)
    BY DEF CaptureInv, ChannelProtocol
<1> SUFFICES ~Listening' /\ HandleOwnsChannel' /\ (status' = "Idle" => capture' = NoSession)
    BY DEF ChannelProtocol, NumbersAscend
<1> USE DEF Listening, HandleOwnsChannel, StopPcs, threadVars, counters, stopFrame
<1>2. CASE Key
    <2>1. PICK then \in {"idle", "spawn", "exit"} : StopCapture(then)
        BY <1>2 DEF Key, StartCapture, LeaveCapture, Quit
    <2> QED BY <1>1, <2>1 DEF StopCapture
<1>3. CASE StopFinished
    BY <1>1, <1>3 DEF StopFinished, DropHandle
<1>4. CASE StopUnfinished \/ StopDrained
    BY <1>1, <1>4 DEF StopUnfinished, StopDrained
<1>5. CASE StopDiscard
    BY <1>1, <1>5 DEF StopDiscard
<1>6. CASE StopClock
    BY <1>1, <1>6 DEF StopClock, DropHandle
<1>7. CASE DeadlinePasses \/ BackToDevices \/ Exit
    BY <1>1, <1>7 DEF DeadlinePasses, BackToDevices, Exit
<1> QED BY <1>2, <1>3, <1>4, <1>5, <1>6, <1>7

LEMMA SpawnInv ==
    ASSUME CaptureInv, NEW s \in Sessions, Spawn(s)
    PROVE  ChannelProtocol' /\ NumbersAscend'
<1>1. HandleOwnsChannel
    BY DEF CaptureInv, ChannelProtocol
<1>2. /\ capture = NoSession /\ queue = <<>> /\ queue' = <<>>
      /\ seq[s] = 0 /\ seq' = seq
    BY <1>1 DEF Spawn, HandleOwnsChannel
<1>3. pc'[s] = "opening" /\ \A t \in Sessions \ {s} : pc'[t] = pc[t]
    BY DEF Spawn, Goto, CaptureInv, TypeOK
<1>4. capture' = s /\ status' = "Starting" /\ ui' = "drain" /\ last' = 0
    BY DEF Spawn
<1>5. Len(queue') = 0 /\ s # NoSession
    BY <1>2, EmptySeq, CaptureAssumption DEF CaptureAssumption
<1>6. HandleOwnsChannel'
    BY <1>1, <1>2, <1>3, <1>4, <1>5 DEF HandleOwnsChannel, StopPcs
<1>7. StartedFirst' /\ ErrorThenStopped' /\ StoppedLast'
    BY <1>2, <1>3, <1>4, <1>5 DEF StartedFirst, ErrorThenStopped, StoppedLast, KindAt
<1>8. NumbersAscend'
    BY <1>2, <1>3, <1>4, <1>5 DEF NumbersAscend, KindAt
<1> QED BY <1>4, <1>6, <1>7, <1>8 DEF ChannelProtocol

LEMMA CaptureInvStep == CaptureInv /\ [Next]_vars => CaptureInv'
<1> SUFFICES ASSUME CaptureInv, [Next]_vars PROVE CaptureInv'
    OBVIOUS
<1>1. TypeOK
    BY DEF CaptureInv
<1>2. ASSUME NEW s \in Sessions, ThreadStep(s) PROVE CaptureInv'
    BY <1>1, <1>2, ThreadTypeOK, ThreadInv DEF CaptureInv
<1>3. ASSUME UiStep \/ Key \/ DeadlinePasses PROVE CaptureInv'
    <2>1. TypeOK'
        BY <1>1, <1>3, UiTypeOK
    <2>2. ChannelProtocol' /\ NumbersAscend'
        BY <1>3, RecvInv, LoopInv, StopInv, SpawnInv DEF UiStep
    <2> QED BY <2>1, <2>2 DEF CaptureInv
<1>4. CASE Terminated \/ UNCHANGED vars
    <2>1. UNCHANGED vars
        BY <1>4 DEF Terminated
    <2> QED BY <2>1
        DEF vars, CaptureInv, TypeOK, ChannelProtocol, HandleOwnsChannel, NumbersAscend,
            Listening, StartedFirst, ErrorThenStopped, StoppedLast, KindAt
<1> QED BY <1>2, <1>3, <1>4 DEF Next

\* Types, the event protocol and the order of the numbers hold together (run, drain_capture).
THEOREM CaptureInvariant == Spec => []CaptureInv
    BY InitCaptureInv, CaptureInvStep, PTL DEF Spec

\* Started, packets and statistics, at most one Error, Stopped: the channel carries
\* this order, and the status line keeps step with it, for every channel capacity.
THEOREM ProtocolHolds == Spec => []ChannelProtocol
<1>1. CaptureInv => ChannelProtocol
    BY DEF CaptureInv
<1> QED BY <1>1, CaptureInvariant, PTL

\* No packet reaches the interface twice or out of order.
THEOREM NumbersAscendAlways == Spec => []NumbersAscend
<1>1. CaptureInv => NumbersAscend
    BY DEF CaptureInv
<1> QED BY <1>1, CaptureInvariant, PTL

-------------------------------------------------------------------------------
(* Every packet is accounted for.                                          *)

PacketsIn(q) == {i \in 1..Len(q) : q[i].kind = "Packet"}

LEMMA PacketsAreFinite ==
    ASSUME NEW q \in Seq(Event)
    PROVE  IsFiniteSet(PacketsIn(q)) /\ Cardinality(PacketsIn(q)) \in Nat
<1>1. IsFiniteSet(1..Len(q))
    BY FS_Interval, LenProperties
<1>2. IsFiniteSet(PacketsIn(q))
    BY <1>1, FS_Subset DEF PacketsIn
<1> QED BY <1>2, FS_CardinalityType

\* A deposited event is one packet more, or none.
LEMMA AppendPackets ==
    ASSUME NEW q \in Seq(Event), NEW e \in Event
    PROVE  Cardinality(PacketsIn(Append(q, e))) =
              Cardinality(PacketsIn(q)) + (IF e.kind = "Packet" THEN 1 ELSE 0)
<1> DEFINE n == Len(q)
<1>1. /\ n \in Nat
      /\ Len(Append(q, e)) = n + 1
      /\ \A i \in 1..n : Append(q, e)[i] = q[i]
      /\ Append(q, e)[n + 1] = e
    BY AppendEvent, LenProperties
<1>2. IsFiniteSet(PacketsIn(q)) /\ Cardinality(PacketsIn(q)) \in Nat
    BY PacketsAreFinite
<1>3. n + 1 \notin PacketsIn(q)
    BY <1>1 DEF PacketsIn
<1> HIDE DEF n
<1>4. CASE e.kind = "Packet"
    <2>1. PacketsIn(Append(q, e)) = PacketsIn(q) \cup {n + 1}
        BY <1>1, <1>4 DEF PacketsIn, n
    <2> QED BY <1>2, <1>3, <1>4, <2>1, FS_AddElement
<1>5. CASE e.kind # "Packet"
    <2>1. PacketsIn(Append(q, e)) = PacketsIn(q)
        BY <1>1, <1>5 DEF PacketsIn, n
    <2> QED BY <1>2, <1>5, <2>1
<1> QED BY <1>4, <1>5

\* An event taken from the head is one packet less, or none.
LEMMA TailPackets ==
    ASSUME NEW q \in Seq(Event), q # <<>>
    PROVE  Cardinality(PacketsIn(Tail(q))) =
              Cardinality(PacketsIn(q)) - (IF q[1].kind = "Packet" THEN 1 ELSE 0)
<1> DEFINE n == Len(q)
<1> DEFINE rest == PacketsIn(q) \ {1}
<1>1. /\ n \in Nat /\ n >= 1
      /\ Tail(q) \in Seq(Event)
      /\ Len(Tail(q)) = n - 1
      /\ \A i \in 1..(n - 1) : Tail(q)[i] = q[i + 1]
    BY TailEvent
<1>2. IsFiniteSet(PacketsIn(q)) /\ IsFiniteSet(PacketsIn(Tail(q)))
    BY <1>1, PacketsAreFinite
<1> HIDE DEF n
<1>3. Cardinality(rest) = Cardinality(PacketsIn(q)) - (IF q[1].kind = "Packet" THEN 1 ELSE 0)
    <2>1. 1 \in PacketsIn(q) <=> q[1].kind = "Packet"
        BY <1>1 DEF PacketsIn, n
    <2>2. Cardinality(PacketsIn(q)) \in Nat
        BY PacketsAreFinite
    <2>3. Cardinality(rest) = IF 1 \in PacketsIn(q) THEN Cardinality(PacketsIn(q)) - 1
                              ELSE Cardinality(PacketsIn(q))
        BY <1>2, FS_RemoveElement
    <2> QED BY <2>1, <2>2, <2>3
<1>4. Cardinality(rest) = Cardinality(PacketsIn(Tail(q)))
    <2> DEFINE up == [i \in PacketsIn(Tail(q)) |-> i + 1]
    <2>1. up \in Injection(PacketsIn(Tail(q)), rest)
        <3>1. \A i \in PacketsIn(Tail(q)) : i \in 1..(n - 1) /\ i + 1 \in rest
            BY <1>1 DEF PacketsIn, n
        <3> QED BY <3>1 DEF Injection, IsInjective
    <2>2. \A t \in rest : \E i \in PacketsIn(Tail(q)) : up[i] = t
        <3> TAKE t \in rest
        <3>1. t \in 1..n /\ t # 1 /\ q[t].kind = "Packet"
            BY DEF PacketsIn, n
        <3>2. t - 1 \in 1..(n - 1) /\ (t - 1) + 1 = t
            BY <1>1, <3>1
        <3>3. t - 1 \in PacketsIn(Tail(q))
            BY <1>1, <3>1, <3>2 DEF PacketsIn
        <3> WITNESS t - 1 \in PacketsIn(Tail(q))
        <3> QED BY <3>2, <3>3
    <2>3. up \in Bijection(PacketsIn(Tail(q)), rest)
        BY <2>1, <2>2 DEF Bijection, Surjection, Injection
    <2> QED BY <1>2, <2>3, FS_Bijection DEF ExistsBijection
<1> QED BY <1>3, <1>4

LEMMA NoPackets ==
    ASSUME NEW q \in Seq(Event), \A i \in 1..Len(q) : q[i].kind # "Packet"
    PROVE  Cardinality(PacketsIn(q)) = 0
<1>1. PacketsIn(q) = {}
    BY DEF PacketsIn
<1> QED BY <1>1, FS_EmptySet

LEMMA QueuedPackets == PacketsQueued = Cardinality(PacketsIn(queue))
    BY DEF PacketsQueued, PacketsIn, KindAt

LEMMA InitAccountInv == Init => AccountInv
    BY DEF Init, AccountInv, Accounted, DropsSettled, Listening

\* A session that no handle holds touches neither the channel nor the numbers of the
\* one that is held.
LEMMA OtherThreadAccount ==
    ASSUME CaptureInv, AccountInv, NEW s \in Sessions, ThreadStep(s), s # capture
    PROVE  AccountInv'
<1> USE DEF At, uiState
<1>1. UNCHANGED <<queue, uiState>> /\ pc[s] # "unborn"
    BY DEF ThreadStep, OpenSucceeds, OpenFails, SendStarted, CheckStop, ReadPacket, ReadNothing,
           ReadEnd, ReadError, SendError, Offer, CountDrop, StatsStep, SignOff, SendOrGone,
           Connected
<1>2. \A t \in Sessions \ {s} : pc'[t] = pc[t] /\ seq'[t] = seq[t] /\ uiDropped'[t] = uiDropped[t]
    BY DEF ThreadStep, OpenSucceeds, OpenFails, SendStarted, CheckStop, ReadPacket, ReadNothing,
           ReadEnd, ReadError, SendError, Offer, CountDrop, StatsStep, SignOff, Goto, CaptureInv,
           TypeOK
<1>3. pc'[s] # "unborn"
    BY DEF ThreadStep, OpenSucceeds, OpenFails, SendStarted, CheckStop, ReadPacket, ReadNothing,
           ReadEnd, ReadError, SendError, Offer, CountDrop, StatsStep, SignOff, Goto, CaptureInv,
           TypeOK
<1>4. capture # NoSession => capture \in Sessions \ {s}
    BY DEF CaptureInv, TypeOK
<1>5. PacketsQueued' = PacketsQueued
    BY <1>1 DEF PacketsQueued, KindAt
<1>6. Accounted'
    BY <1>1, <1>2, <1>4, <1>5 DEF AccountInv, Accounted, Listening, InFlight
<1>7. DropsSettled'
    BY <1>1, <1>2, <1>3, <1>4 DEF AccountInv, DropsSettled
<1> QED BY <1>6, <1>7 DEF AccountInv

\* A step of the held thread moves each packet to one place: read, it is in the
\* reader's hands; offered, it is queued or about to be counted as dropped.
LEMMA HeldThreadAccount ==
    ASSUME CaptureInv, AccountInv, NEW s \in Sessions, ThreadStep(s), s = capture
    PROVE  AccountInv'
<1> USE DEF At
<1> DEFINE queued == PacketsQueued
<1>1. /\ pc \in [Sessions -> ThreadPcs] /\ queue \in Seq(Event)
      /\ seq \in [Sessions -> Nat] /\ uiDropped \in [Sessions -> Nat] /\ total \in Nat
    BY DEF CaptureInv, TypeOK
<1>2. queued \in Nat
    BY <1>1, PacketsAreFinite, QueuedPackets
<1>3. UNCHANGED uiState /\ pc[s] # "unborn"
    BY DEF ThreadStep, OpenSucceeds, OpenFails, SendStarted, CheckStop, ReadPacket, ReadNothing,
           ReadEnd, ReadError, SendError, Offer, CountDrop, StatsStep, SignOff
<1>4. /\ pc'[s] # "unborn"
      /\ \A t \in Sessions \ {s} : pc'[t] = pc[t] /\ uiDropped'[t] = uiDropped[t]
    BY <1>1 DEF ThreadStep, OpenSucceeds, OpenFails, SendStarted, CheckStop, ReadPacket,
           ReadNothing, ReadEnd, ReadError, SendError, Offer, CountDrop, StatsStep, SignOff, Goto,
           ThreadPcs
<1>5. ASSUME queue' = queue PROVE queued' = queued
    BY <1>5 DEF PacketsQueued, KindAt
<1>6. ASSUME NEW e \in Event, Deposit(e)
      PROVE  queued' = queued + (IF e.kind = "Packet" THEN 1 ELSE 0)
    BY <1>1, <1>6, AppendPackets, QueuedPackets DEF Deposit, PacketsQueued, PacketsIn, KindAt
<1> HIDE DEF queued
<1>7. Listening => seq[s] = total + queued + uiDropped[s] + InFlight(s)
    BY DEF AccountInv, Accounted, queued
<1> DEFINE After == seq'[s] = total + queued' + uiDropped'[s] + InFlight(s)'
<1>8. Listening => After
    <2> SUFFICES ASSUME Listening PROVE After
        OBVIOUS
    <2> USE <1>1, <1>2, <1>7 DEF InFlight, Goto
    <2>1. CASE OpenSucceeds(s) \/ OpenFails(s) \/ CheckStop(s) \/ ReadNothing(s) \/ ReadEnd(s)
               \/ ReadError(s)
        BY <2>1, <1>5 DEF OpenSucceeds, OpenFails, CheckStop, ReadNothing, ReadEnd, ReadError
    <2>2. CASE SendStarted(s) \/ SendError(s) \/ SignOff(s)
        <3>1. PICK k \in {"Started", "Error", "Stopped"} : Deposit(Signal(k))
            BY <2>2 DEF SendStarted, SendError, SignOff, SendOrGone, Connected
        <3>2. queued' = queued
            BY <3>1, <1>6, SignalIsEvent
        <3> QED BY <2>2, <3>2 DEF SendStarted, SendError, SignOff
    <2>3. CASE ReadPacket(s)
        BY <2>3, <1>5 DEF ReadPacket
    <2>4. CASE Offer(s)
        <3>1. CASE Deposit(PacketNo(seq[s])) /\ Goto(s, "stats")
            <4>1. queued' = queued + 1
                BY <3>1, <1>6, SignalIsEvent
            <4> QED BY <2>4, <3>1, <4>1 DEF Offer
        <3>2. CASE Goto(s, "count") /\ UNCHANGED queue
            BY <2>4, <3>2, <1>5 DEF Offer
        <3> QED BY <2>4, <3>1, <3>2 DEF Offer, Connected
    <2>5. CASE CountDrop(s)
        BY <2>5, <1>5 DEF CountDrop
    <2>6. CASE StatsStep(s)
        <3>1. queued' = queued
            BY <2>6, <1>5, <1>6, SignalIsEvent DEF StatsStep
        <3> QED BY <2>6, <3>1 DEF StatsStep
    <2> QED BY <2>1, <2>2, <2>3, <2>4, <2>5, <2>6 DEF ThreadStep
<1>9. Accounted'
    BY <1>3, <1>8 DEF Accounted, Listening, uiState, InFlight, queued
<1>10. ASSUME ui = "input", status \in {"Error", "Stopped"} PROVE uiDropped'[s] = shownDropped
    <2>1. Listening
        BY <1>10, CaptureAssumption DEF Listening, StopPcs, CaptureAssumption
    <2>2. pc[s] \in {"signOff", "exited"} /\ uiDropped[s] = shownDropped
        BY <1>10, <2>1, CaptureAssumption
        DEF AccountInv, DropsSettled, CaptureInv, ChannelProtocol, ErrorThenStopped, StoppedLast,
            CaptureAssumption
    <2>3. uiDropped' = uiDropped
        BY <2>2 DEF ThreadStep, OpenSucceeds, OpenFails, SendStarted, CheckStop, ReadPacket,
           ReadNothing, ReadEnd, ReadError, SendError, Offer, CountDrop, StatsStep, SignOff
    <2> QED BY <2>2, <2>3
<1>11. DropsSettled'
    BY <1>3, <1>4, <1>10 DEF AccountInv, DropsSettled, uiState
<1> QED BY <1>9, <1>11 DEF AccountInv

\* A packet received is one less in the channel and one more in the total.
LEMMA RecvAccount ==
    ASSUME CaptureInv, AccountInv,
           RecvStarted \/ RecvPacket \/ RecvStats \/ RecvError \/ RecvStopped
    PROVE  AccountInv'
<1>1. /\ ui = "drain" /\ capture # NoSession /\ queue # <<>> /\ queue' = Tail(queue)
      /\ UNCHANGED recvFrame
    BY DEF RecvStarted, RecvPacket, RecvStats, RecvError, RecvStopped, Receiving
<1>2. queue \in Seq(Event) /\ capture \in Sessions /\ total \in Nat
      /\ seq[capture] \in Nat /\ uiDropped[capture] \in Nat
    BY <1>1 DEF CaptureInv, TypeOK
<1>3. Head(queue) = queue[1]
    BY <1>1, <1>2, TailEvent
<1>4. total' = total + (IF queue[1].kind = "Packet" THEN 1 ELSE 0)
    BY <1>2, <1>3 DEF RecvStarted, RecvPacket, RecvStats, RecvError, RecvStopped, Receiving
<1>5. PacketsQueued' = PacketsQueued - (IF queue[1].kind = "Packet" THEN 1 ELSE 0)
    BY <1>1, <1>2, TailPackets, QueuedPackets DEF PacketsQueued, PacketsIn, KindAt
<1>6. PacketsQueued \in Nat /\ InFlight(capture) \in Nat
    BY <1>2, PacketsAreFinite, QueuedPackets DEF InFlight
<1>7. seq[capture] = total + PacketsQueued + uiDropped[capture] + InFlight(capture)
    BY <1>1 DEF AccountInv, Accounted, Listening, StopPcs
<1>8. InFlight(capture)' = InFlight(capture)
    BY <1>1 DEF InFlight, recvFrame
<1>9. seq'[capture'] = total' + PacketsQueued' + uiDropped'[capture'] + InFlight(capture)'
    BY <1>1, <1>2, <1>4, <1>5, <1>6, <1>7, <1>8 DEF recvFrame
<1>10. Accounted'
    BY <1>1, <1>9 DEF Accounted, recvFrame
<1>11. DropsSettled'
    BY <1>1 DEF AccountInv, DropsSettled, recvFrame
<1> QED BY <1>10, <1>11 DEF AccountInv

\* The tally that ends the frame is what settles the drops of a capture that has ended.
LEMMA LoopAccount ==
    ASSUME CaptureInv, AccountInv, DrainEnd \/ Tally \/ NextFrame
    PROVE  AccountInv'
<1>1. UNCHANGED <<queue, capture, status, total>> /\ ui \notin StopPcs
      /\ ui' \in {"drain", "tally", "input"}
    BY DEF DrainEnd, Tally, NextFrame, counters, StopPcs
<1>2. UNCHANGED <<pc, seq, uiDropped>>
    BY DEF DrainEnd, Tally, NextFrame, threadVars
<1>3. PacketsQueued' = PacketsQueued
    BY <1>1 DEF PacketsQueued, KindAt
<1>4. Accounted'
    BY <1>1, <1>2, <1>3 DEF AccountInv, Accounted, Listening, InFlight, StopPcs
<1>5. CASE Tally
    BY <1>1, <1>2, <1>4, <1>5 DEF AccountInv, DropsSettled, Tally, DropsNow
<1>6. CASE DrainEnd \/ NextFrame
    BY <1>1, <1>2, <1>4, <1>6 DEF AccountInv, DropsSettled, DrainEnd, NextFrame
<1> QED BY <1>5, <1>6

\* Inside stop() and between captures nothing is promised; a new session starts from zero.
LEMMA StopAccount ==
    ASSUME CaptureInv, AccountInv,
           Key \/ StopFinished \/ StopUnfinished \/ StopDiscard \/ StopDrained \/ StopClock
           \/ DeadlinePasses \/ BackToDevices \/ Exit
    PROVE  AccountInv'
<1>1. HandleOwnsChannel
    BY DEF CaptureInv, ChannelProtocol
<1>2. UNCHANGED <<pc, uiDropped>>
    BY DEF Key, StartCapture, LeaveCapture, Quit, StopCapture, StopFinished, StopUnfinished,
           StopDiscard, StopDrained, StopClock, DeadlinePasses, BackToDevices, Exit, stopFrame,
           threadVars
<1>3. ~Listening' /\ (ui' # "input")
    BY <1>1 DEF Key, StartCapture, LeaveCapture, Quit, StopCapture, StopFinished, StopUnfinished,
           StopDiscard, StopDrained, StopClock, DeadlinePasses, BackToDevices, Exit, DropHandle,
           Listening, HandleOwnsChannel, StopPcs
<1> QED BY <1>2, <1>3 DEF AccountInv, Accounted, DropsSettled

LEMMA SpawnAccount ==
    ASSUME CaptureInv, AccountInv, NEW s \in Sessions, Spawn(s)
    PROVE  AccountInv'
<1>1. HandleOwnsChannel /\ pc \in [Sessions -> ThreadPcs] /\ queue \in Seq(Event)
    BY DEF CaptureInv, ChannelProtocol, TypeOK
<1>2. /\ pc[s] = "unborn" /\ capture' = s /\ ui' = "drain" /\ total' = 0
      /\ UNCHANGED <<seq, uiDropped, queue>>
    BY DEF Spawn
<1>3. queue = <<>> /\ seq[s] = 0 /\ uiDropped[s] = 0
    BY <1>1, <1>2 DEF HandleOwnsChannel, AccountInv, DropsSettled, Spawn
<1>4. pc'[s] = "opening" /\ \A t \in Sessions \ {s} : pc'[t] = pc[t]
    BY <1>1 DEF Spawn, Goto
<1>5. PacketsQueued' = 0
    <2>1. Len(queue') = 0
        BY <1>2, <1>3, EmptySeq
    <2>2. {i \in 1..Len(queue') : queue'[i].kind = "Packet"} = {}
        BY <2>1
    <2> QED BY <2>2, FS_EmptySet DEF PacketsQueued, KindAt
<1>6. Accounted'
    BY <1>2, <1>3, <1>4, <1>5 DEF Accounted, InFlight
<1>7. DropsSettled'
    BY <1>2, <1>4 DEF AccountInv, DropsSettled
<1> QED BY <1>6, <1>7 DEF AccountInv

LEMMA AccountStep == CaptureInv /\ AccountInv /\ [Next]_vars => AccountInv'
<1> SUFFICES ASSUME CaptureInv, AccountInv, [Next]_vars PROVE AccountInv'
    OBVIOUS
<1>1. ASSUME NEW s \in Sessions, ThreadStep(s) PROVE AccountInv'
    BY <1>1, OtherThreadAccount, HeldThreadAccount
<1>2. CASE UiStep \/ Key \/ DeadlinePasses
    BY <1>2, RecvAccount, LoopAccount, StopAccount, SpawnAccount DEF UiStep
<1>3. CASE Terminated \/ UNCHANGED vars
    BY <1>3 DEF Terminated, vars, AccountInv, Accounted, DropsSettled, Listening, PacketsQueued,
                KindAt, InFlight
<1> QED BY <1>1, <1>2, <1>3 DEF Next

LEMMA AccountInvariant == Spec => []AccountInv
    BY InitAccountInv, AccountStep, CaptureInvariant, PTL DEF Spec

\* Every packet a session reads is counted, queued, in the reader's hands or in
\* ui_dropped, whatever the order of its steps and those of the interface.
THEOREM AccountedAlways == Spec => []Accounted
<1>1. AccountInv => Accounted
    BY DEF AccountInv
<1> QED BY <1>1, AccountInvariant, PTL

\* The header of a capture that has ended adds up: what it shows as counted and as
\* dropped is what was read, because the counter is read after the channel is drained.
THEOREM FinalCountIsExact == Spec => []FinalCountExact
<1>1. CaptureInv /\ AccountInv => FinalCountExact
    <2> SUFFICES ASSUME CaptureInv, AccountInv, ui = "input", capture # NoSession,
                        status \in {"Error", "Stopped"}
                 PROVE  total + shownDropped = seq[capture]
        BY DEF FinalCountExact
    <2>1. Listening
        BY DEF Listening, StopPcs
    <2>2. /\ queue \in Seq(Event) /\ total \in Nat
          /\ capture \in Sessions /\ uiDropped[capture] \in Nat
        BY DEF CaptureInv, TypeOK
    <2>3. ErrorThenStopped /\ StoppedLast
        BY <2>1 DEF CaptureInv, ChannelProtocol
    <2>4. PacketsQueued = 0
        <3>1. \A i \in 1..Len(queue) : queue[i].kind # "Packet"
            BY <2>2, <2>3, EmptySeq DEF ErrorThenStopped, StoppedLast, KindAt
        <3> QED BY <2>2, <3>1, NoPackets, QueuedPackets
    <2>5. InFlight(capture) = 0
        BY <2>3 DEF ErrorThenStopped, StoppedLast, InFlight
    <2>6. seq[capture] = total + uiDropped[capture]
        BY <2>1, <2>2, <2>4, <2>5 DEF AccountInv, Accounted
    <2> QED BY <2>6 DEF AccountInv, DropsSettled
<1> QED BY <1>1, CaptureInvariant, AccountInvariant, PTL

-------------------------------------------------------------------------------
(* Detached threads.                                                       *)

\* A handle that is being dropped has raised its flag.
LEMMA StopRaised == Spec => [](OneLiveReader /\ (ui \in StopPcs => stop[capture]))
<1> DEFINE Raised == OneLiveReader /\ (ui \in StopPcs => stop[capture])
<1>1. Init => Raised
    BY DEF Init, OneLiveReader, StopPcs
<1>2. CaptureInv /\ Raised /\ [Next]_vars => Raised'
    <2> SUFFICES ASSUME CaptureInv, Raised, [Next]_vars PROVE Raised'
        OBVIOUS
    <2>1. TypeOK /\ HandleOwnsChannel
        BY DEF CaptureInv, ChannelProtocol
    <2> USE DEF OneLiveReader, At, uiState, recvFrame, stopFrame, threadVars, stopVars, counters
    <2>2. ASSUME NEW s \in Sessions, ThreadStep(s) PROVE Raised'
        <3>1. UNCHANGED <<stop, capture, ui>> /\ pc[s] \notin {"unborn", "exited"}
            BY <2>2 DEF ThreadStep, OpenSucceeds, OpenFails, SendStarted, CheckStop, ReadPacket,
                ReadNothing, ReadEnd, ReadError, SendError, Offer, CountDrop, StatsStep, SignOff
        <3>2. \A t \in Sessions \ {s} : pc'[t] = pc[t]
            BY <2>1, <2>2 DEF ThreadStep, OpenSucceeds, OpenFails, SendStarted, CheckStop,
                ReadPacket, ReadNothing, ReadEnd, ReadError, SendError, Offer, CountDrop,
                StatsStep, SignOff, Goto, TypeOK
        <3> QED BY <3>1, <3>2
    <2>3. CASE Key
        <3>1. PICK then \in {"idle", "spawn", "exit"} : StopCapture(then)
            BY <2>3 DEF Key, StartCapture, LeaveCapture, Quit
        <3> QED BY <2>1, <3>1 DEF StopCapture, TypeOK, StopPcs
    <2>4. ASSUME NEW s \in Sessions, Spawn(s) PROVE Raised'
        <3>1. capture = NoSession /\ capture' = s /\ stop' = stop /\ ui' = "drain"
            BY <2>1, <2>4 DEF Spawn, HandleOwnsChannel
        <3>2. \A t \in Sessions \ {s} : pc'[t] = pc[t]
            BY <2>1, <2>4 DEF Spawn, Goto, TypeOK
        <3>3. NoSession \notin Sessions
            BY CaptureAssumption DEF CaptureAssumption
        <3> QED BY <3>1, <3>2, <3>3 DEF StopPcs
    <2>5. CASE StopFinished \/ StopUnfinished \/ StopDiscard \/ StopDrained \/ StopClock
        BY <2>1, <2>5 DEF StopFinished, StopUnfinished, StopDiscard, StopDrained, StopClock,
            DropHandle, StopPcs, HandleOwnsChannel
    <2>6. CASE RecvStarted \/ RecvPacket \/ RecvStats \/ RecvError \/ RecvStopped
               \/ DrainEnd \/ Tally \/ NextFrame \/ DeadlinePasses \/ BackToDevices \/ Exit
        BY <2>6 DEF RecvStarted, RecvPacket, RecvStats, RecvError, RecvStopped, DrainEnd, Tally,
            NextFrame, DeadlinePasses, BackToDevices, Exit, StopPcs
    <2>7. CASE Terminated \/ UNCHANGED vars
        BY <2>7 DEF Terminated, vars
    <2> QED BY <2>2, <2>3, <2>4, <2>5, <2>6, <2>7 DEF Next, UiStep
<1> QED BY <1>1, <1>2, CaptureInvariant, PTL DEF Spec

\* However many captures were started and detached, one thread at most keeps reading.
THEOREM OneReader == Spec => []OneLiveReader
    BY StopRaised, PTL

-------------------------------------------------------------------------------
(* The capture as the person watching it knows it.                         *)

\* Threads, channel and stop protocol implement the life of a capture.
THEOREM LifecycleRefined == Spec => LifecycleSpec
<1>1. Init => Lifecycle!Init
    BY DEF Init, Lifecycle!Init
<1>2. CaptureInv /\ [Next]_vars => [Lifecycle!Next]_(Lifecycle!vars)
    <2> SUFFICES ASSUME CaptureInv, [Next]_vars, ~UNCHANGED <<status, total, last>>
                 PROVE  Lifecycle!Next
        BY DEF Lifecycle!vars
    <2>1. TypeOK
        BY DEF CaptureInv
    <2>2. CASE RecvStarted \/ RecvPacket \/ RecvStats \/ RecvError \/ RecvStopped
        <3>1. ui = "drain" /\ capture # NoSession /\ queue # <<>>
            BY <2>2 DEF RecvStarted, RecvPacket, RecvStats, RecvError, RecvStopped, Receiving
        <3>2. Head(queue) = queue[1] /\ Head(queue) \in Event
            BY <2>1, <3>1, TailEvent DEF TypeOK
        <3>3. Head(queue).no \in Nat
            BY <3>2 DEF Event
        <3>4. CASE RecvStarted
            BY <3>1, <3>2, <3>4, HeadFitsStatus
            DEF RecvStarted, Receiving, KindAt, Lifecycle!Next, Lifecycle!GoLive
        <3>5. CASE RecvPacket
            BY <3>1, <3>2, <3>3, <3>5, HeadFitsStatus
            DEF RecvPacket, Receiving, KindAt, Lifecycle!Next, Lifecycle!Deliver
        <3>6. CASE RecvStats
            BY <3>6 DEF RecvStats
        <3>7. CASE RecvError
            BY <3>1, <3>2, <3>7, HeadFitsStatus
            DEF RecvError, Receiving, KindAt, Lifecycle!Next, Lifecycle!Fail
        <3>8. CASE RecvStopped
            BY <3>1, <3>2, <3>8, HeadFitsStatus
            DEF RecvStopped, Receiving, KindAt, StatusOnStopped, Lifecycle!Next, Lifecycle!Finish
        <3> QED BY <2>2, <3>4, <3>5, <3>6, <3>7, <3>8
    <2>3. CASE BackToDevices
        BY <2>3 DEF BackToDevices, counters, Lifecycle!Next, Lifecycle!Leave
    <2>4. ASSUME NEW s \in Sessions, Spawn(s) PROVE Lifecycle!Next
        BY <2>4 DEF Spawn, Lifecycle!Next, Lifecycle!Start
    <2>5. CASE \/ \E s \in Sessions : ThreadStep(s)
               \/ Key \/ DeadlinePasses \/ Terminated \/ UNCHANGED vars
               \/ DrainEnd \/ Tally \/ NextFrame \/ Exit
               \/ StopFinished \/ StopUnfinished \/ StopDiscard \/ StopDrained \/ StopClock
        <3>1. UNCHANGED <<status, total, last>>
            <4>1. CASE \E s \in Sessions : ThreadStep(s)
                BY <4>1 DEF ThreadStep, OpenSucceeds, OpenFails, SendStarted, CheckStop,
                    ReadPacket, ReadNothing, ReadEnd, ReadError, SendError, Offer, CountDrop,
                    StatsStep, SignOff, uiState
            <4>2. CASE Key \/ DeadlinePasses \/ Terminated \/ UNCHANGED vars
                BY <4>2 DEF Key, StartCapture, LeaveCapture, Quit, StopCapture, DeadlinePasses,
                    Terminated, vars, counters
            <4>3. CASE DrainEnd \/ Tally \/ NextFrame \/ Exit
                BY <4>3 DEF DrainEnd, Tally, NextFrame, Exit, counters
            <4>4. CASE StopFinished \/ StopUnfinished \/ StopDiscard \/ StopDrained \/ StopClock
                BY <4>4 DEF StopFinished, StopUnfinished, StopDiscard, StopDrained, StopClock,
                    stopFrame, counters
            <4> QED BY <2>5, <4>1, <4>2, <4>3, <4>4
        <3> QED BY <3>1
    <2> QED BY <2>2, <2>3, <2>4, <2>5 DEF Next, UiStep
<1> QED BY <1>1, <1>2, CaptureInvariant, PTL DEF Spec, LifecycleSpec, Lifecycle!Spec
==============================================================================
