---------------------------- MODULE EspNowProofs ----------------------------
(***************************************************************************)
(* Proofs about EspNow, for any magic numbers, count and queue, any loss   *)
(* of frames and any number of restarts.                                   *)
(*                                                                         *)
(* That one of two devices becomes the sender rests on what the frames say *)
(* while nobody has restarted: a frame carries the magic number of its     *)
(* sender, and a state that its sender still has (Honest).  Who became the *)
(* sender has compared its number with that of another device, which had   *)
(* heard somebody (Started).                                               *)
(***************************************************************************)
EXTENDS EspNow, FiniteSetTheorems, TLAPS

\* What a frame says when its sender's magic number is m and its state s.
FrameOK(f, m, s) == f.magic = m /\ (f.state = 1 => s = 1)
EventOK(o, e, m, s) == e.id = "recv" => e.mac # o /\ FrameOK(e.frame, m[e.mac], s[e.mac])

Honest ==
    restarts = 0 =>
        /\ \A d \in Devices : FrameOK(buffer[d], magic[d], state[d])
        /\ \A d \in Devices : \A i \in DOMAIN air[d] : FrameOK(air[d][i].frame, magic[d], state[d])
        /\ \A o \in Devices : \A i \in DOMAIN queue[o] : EventOK(o, queue[o][i], magic, state)

Started ==
    restarts = 0 => \A d \in Devices : unicast[d] =>
        \E o \in Devices \ {d} : state[o] = 1 /\ magic[d] >= magic[o]

IInv == TypeOK /\ Honest /\ Started
-----------------------------------------------------------------------------
LEMMA AppendSeq ==
    ASSUME NEW S, NEW s \in Seq(S), NEW e \in S
    PROVE  /\ Append(s, e) \in Seq(S) /\ Len(Append(s, e)) = Len(s) + 1
           /\ \A i \in DOMAIN Append(s, e) :
                  (i \in DOMAIN s /\ Append(s, e)[i] = s[i]) \/ Append(s, e)[i] = e
OBVIOUS

LEMMA TailSeq ==
    ASSUME NEW S, NEW s \in Seq(S), s # <<>>
    PROVE  /\ Tail(s) \in Seq(S) /\ Len(Tail(s)) <= Len(s)
           /\ \A i \in DOMAIN Tail(s) : i + 1 \in DOMAIN s /\ Tail(s)[i] = s[i + 1]
           /\ Head(s) \in S /\ 1 \in DOMAIN s /\ Head(s) = s[1]
OBVIOUS

LEMMA EmptySeq == ASSUME NEW S PROVE <<>> \in Seq(S) /\ Len(<<>>) = 0 /\ DOMAIN <<>> = {}
OBVIOUS

\* What a device prepares is a frame of its own.
LEMMA PreparedOK ==
    ASSUME NEW to, NEW s \in {0, 1}, NEW m \in Magics
    PROVE  /\ Prepared(to, s, m) \in Frames
           /\ Prepared(to, s, m).magic = m /\ Prepared(to, s, m).state = s
BY DEF Prepared, Frames, Type

\* An event that is taken out of a queue.
LEMMA EventTaken ==
    ASSUME TypeOK, NEW d \in Devices, queue[d] # <<>>
    PROVE  /\ Event(d) \in Events /\ Tail(queue[d]) \in Seq(Events)
           /\ Len(Tail(queue[d])) <= QueueSize
           /\ \A i \in DOMAIN Tail(queue[d]) : i + 1 \in DOMAIN queue[d]
                  /\ Tail(queue[d])[i] = queue[d][i + 1]
           /\ 1 \in DOMAIN queue[d] /\ Event(d) = queue[d][1]
<1>1. queue[d] \in Seq(Events) /\ Len(queue[d]) <= QueueSize /\ QueueSize \in Nat
  BY NumbersAssumption DEF TypeOK
<1>2. /\ Tail(queue[d]) \in Seq(Events) /\ Len(Tail(queue[d])) <= Len(queue[d])
      /\ \A i \in DOMAIN Tail(queue[d]) : i + 1 \in DOMAIN queue[d]
             /\ Tail(queue[d])[i] = queue[d][i + 1]
      /\ Head(queue[d]) \in Events /\ 1 \in DOMAIN queue[d] /\ Head(queue[d]) = queue[d][1]
  BY <1>1, TailSeq
<1>3. Len(Tail(queue[d])) \in Nat /\ Len(queue[d]) \in Nat
  BY <1>1, <1>2
<1>4. Len(Tail(queue[d])) <= QueueSize
  BY <1>1, <1>2, <1>3
<1> QED
  BY <1>2, <1>4 DEF Event

LEMMA EventFields ==
    ASSUME NEW e \in Events
    PROVE  /\ e.id \in {"recv", "send"} /\ e.mac \in Addresses
           /\ e.id = "recv" => e.mac \in Devices /\ e.frame \in Frames
BY DEF Events, Addresses
-----------------------------------------------------------------------------
(* The parts of the invariant, by what a step does to the variables.       *)

QueuesTyped == \A d \in Devices : queue[d] \in Seq(Events) /\ Len(queue[d]) <= QueueSize

\* The queue of d after an event was taken, or after vQueueDelete.
LEMMA QueueTyped ==
    ASSUME TypeOK, NEW d \in Devices,
           \/ queue[d] # <<>> /\ Took(d)
           \/ queue' = [queue EXCEPT ![d] = <<>>]
           \/ UNCHANGED queue
    PROVE  /\ queue' \in [Devices -> Seq(Events)]
           /\ \A o \in Devices : Len(queue'[o]) <= QueueSize
           /\ \A o \in Devices : \A i \in DOMAIN queue'[o] :
                  \E j \in DOMAIN queue[o] : queue'[o][i] = queue[o][j]
<1>1. /\ queue \in [Devices -> Seq(Events)] /\ \A o \in Devices : Len(queue[o]) <= QueueSize
      /\ QueueSize \in Nat
  BY NumbersAssumption DEF TypeOK
<1>2. CASE UNCHANGED queue
  BY <1>1, <1>2
<1>3. CASE queue' = [queue EXCEPT ![d] = <<>>]
  BY <1>1, <1>3, EmptySeq
<1>4. CASE queue[d] # <<>> /\ Took(d)
  <2>1. queue' = [queue EXCEPT ![d] = Tail(queue[d])]
    BY <1>4 DEF Took
  <2>2. /\ Tail(queue[d]) \in Seq(Events) /\ Len(Tail(queue[d])) <= QueueSize
        /\ \A i \in DOMAIN Tail(queue[d]) : i + 1 \in DOMAIN queue[d]
                  /\ Tail(queue[d])[i] = queue[d][i + 1]
    BY <1>4, EventTaken
  <2>3. ASSUME NEW o \in Devices
        PROVE  /\ queue'[o] \in Seq(Events) /\ Len(queue'[o]) <= QueueSize
               /\ \A i \in DOMAIN queue'[o] : \E j \in DOMAIN queue[o] : queue'[o][i] = queue[o][j]
    <3>1. CASE o = d
      BY <1>1, <2>1, <2>2, <3>1
    <3>2. CASE o # d
      BY <1>1, <2>1, <3>2
    <3> QED
      BY <3>1, <3>2
  <2> QED
    BY <1>1, <2>1, <2>3
<1> QED
  BY <1>2, <1>3, <1>4

\* The frames in the air after esp_now_send of a frame, or of none.
LEMMA AirTyped ==
    ASSUME TypeOK, NEW d \in Devices, NEW to \in Addresses, NEW f \in Frames, Send(d, to, f)
    PROVE  /\ air' \in [Devices -> Seq(Sends)] /\ sent' \in [Devices -> Nat]
           /\ \A o \in Devices : \A i \in DOMAIN air'[o] :
                  \/ i \in DOMAIN air[o] /\ air'[o][i] = air[o][i]
                  \/ o = d /\ air'[o][i].frame = f
<1>1. air \in [Devices -> Seq(Sends)] /\ sent \in [Devices -> Nat]
  BY DEF TypeOK
<1> DEFINE e == [to |-> to, frame |-> f]
<1>2. e \in Sends /\ e.frame = f
  BY DEF Sends
<1>3. air' = [air EXCEPT ![d] = Append(air[d], e)]
  BY DEF Send
<1> HIDE DEF e
<1>4. /\ Append(air[d], e) \in Seq(Sends)
      /\ \A i \in DOMAIN Append(air[d], e) :
             (i \in DOMAIN air[d] /\ Append(air[d], e)[i] = air[d][i]) \/ Append(air[d], e)[i] = e
  BY <1>1, <1>2, AppendSeq
<1>5. air' \in [Devices -> Seq(Sends)]
  BY <1>1, <1>3, <1>4
<1>6. sent' \in [Devices -> Nat]
  BY <1>1 DEF Send
<1>7. ASSUME NEW o \in Devices, NEW i \in DOMAIN air'[o]
      PROVE  (i \in DOMAIN air[o] /\ air'[o][i] = air[o][i]) \/ (o = d /\ air'[o][i].frame = f)
  <2>1. CASE o = d
    BY <1>1, <1>2, <1>3, <1>4, <2>1
  <2>2. CASE o # d
    BY <1>1, <1>3, <2>2
  <2> QED
    BY <2>1, <2>2
<1> QED
  BY <1>5, <1>6, <1>7

\* A step in which no device restarts, states only grow, events only leave the
\* queues, and a device prepares and sends its own frames.
LEMMA HonestStep ==
    ASSUME IInv, UNCHANGED <<magic, restarts>>,
           \A d \in Devices : state[d] = 1 => state'[d] = 1,
           \A d \in Devices : buffer'[d] = buffer[d] \/ FrameOK(buffer'[d], magic[d], state'[d]),
           \A d \in Devices : \A i \in DOMAIN air'[d] :
               \/ \E j \in DOMAIN air[d] : air'[d][i] = air[d][j]
               \/ FrameOK(air'[d][i].frame, magic[d], state'[d]),
           \A o \in Devices : \A i \in DOMAIN queue'[o] :
               \/ \E j \in DOMAIN queue[o] : queue'[o][i] = queue[o][j]
               \/ EventOK(o, queue'[o][i], magic, state')
    PROVE  Honest'
<1> SUFFICES ASSUME restarts = 0 PROVE Honest'
  BY DEF Honest
<1>1. \A f : \A d \in Devices : FrameOK(f, magic[d], state[d]) => FrameOK(f, magic[d], state'[d])
  BY DEF FrameOK
<1>2. ASSUME NEW o \in Devices, NEW i \in DOMAIN queue[o]
      PROVE  EventOK(o, queue[o][i], magic, state')
  <2>1. queue[o] \in Seq(Events)
    BY DEF IInv, TypeOK
  <2>2. queue[o][i] \in Events
    BY <2>1
  <2>3. EventOK(o, queue[o][i], magic, state)
    BY DEF IInv, Honest
  <2> QED
    BY <1>1, <2>2, <2>3, EventFields DEF EventOK
<1>3. \A d \in Devices : FrameOK(buffer'[d], magic[d], state'[d])
  BY <1>1 DEF IInv, Honest
<1>4. \A d \in Devices : \A i \in DOMAIN air'[d] : FrameOK(air'[d][i].frame, magic[d], state'[d])
  BY <1>1 DEF IInv, Honest
<1>5. \A o \in Devices : \A i \in DOMAIN queue'[o] : EventOK(o, queue'[o][i], magic, state')
  BY <1>2
<1> QED
  BY <1>3, <1>4, <1>5 DEF Honest

\* A step in which the senders and their numbers stay and states only grow.
LEMMA StartedStep ==
    ASSUME IInv, UNCHANGED <<magic, restarts, unicast>>,
           \A d \in Devices : state[d] = 1 => state'[d] = 1
    PROVE  Started'
BY DEF IInv, Started

\* The types but for what a step of a task gives to send or takes out of a queue.
ParamsTyped ==
    /\ task \in [Devices -> {"starting", "loop", "deinit", "off"}]
    /\ unicast \in [Devices -> BOOLEAN] /\ broadcast \in [Devices -> BOOLEAN]
    /\ state \in [Devices -> {0, 1}]
    /\ count \in [Devices -> 0..SendCount]
    /\ dest \in [Devices -> Addresses]
    /\ buffer \in [Devices -> Frames]
    /\ dropped \in BOOLEAN

LEMMA TypeStep ==
    ASSUME TypeOK, UNCHANGED <<bmac, magic, restarts, senderLost>>, ParamsTyped',
           queue' \in [Devices -> Seq(Events)], \A o \in Devices : Len(queue'[o]) <= QueueSize,
           air' \in [Devices -> Seq(Sends)], sent' \in [Devices -> Nat]
    PROVE  TypeOK'
BY DEF TypeOK, ParamsTyped

LEMMA InitHolds == Init => IInv
<1> SUFFICES ASSUME Init PROVE IInv
  OBVIOUS
<1> USE DEF Init
<1>1. bmac \in Addresses /\ magic \in [Devices -> Magics]
  OBVIOUS
<1>2. \A d \in Devices : buffer[d] \in Frames /\ FrameOK(buffer[d], magic[d], state[d])
  BY <1>1, PreparedOK DEF FrameOK
<1>3. buffer \in [Devices -> Frames]
  BY <1>2
<1>4. ParamsTyped
  <2>1. /\ task \in [Devices -> {"starting", "loop", "deinit", "off"}]
        /\ state \in [Devices -> {0, 1}] /\ dest \in [Devices -> Addresses]
    BY <1>1
  <2>2. count \in [Devices -> 0..SendCount]
    BY NumbersAssumption
  <2>3. unicast \in [Devices -> BOOLEAN] /\ broadcast \in [Devices -> BOOLEAN] /\ dropped \in BOOLEAN
    BY Zenon
  <2> QED
    BY <1>3, <2>1, <2>2, <2>3 DEF ParamsTyped
<1>5. \A d \in Devices : queue[d] = <<>> /\ air[d] = <<>> /\ sent[d] = 0
  OBVIOUS
<1>6. queue \in [Devices -> Seq(Events)] /\ air \in [Devices -> Seq(Sends)] /\ sent \in [Devices -> Nat]
  BY EmptySeq
<1>7. \A d \in Devices : Len(queue[d]) <= QueueSize
  BY <1>5, EmptySeq, NumbersAssumption
<1>8. TypeOK
  <2>1. restarts \in 0..MaxRestarts
    BY NumbersAssumption
  <2>2. senderLost \in BOOLEAN
    BY Zenon
  <2> QED
    BY <1>1, <1>4, <1>6, <1>7, <2>1, <2>2, Zenon DEF TypeOK, ParamsTyped
<1>9. Honest
  BY <1>2, <1>5, EmptySeq DEF Honest
<1> QED
  BY <1>8, <1>9 DEF IInv, Started

\* A step that sends nothing and leaves states and senders alone.
LEMMA QuietStep ==
    ASSUME IInv, NEW d \in Devices, UNCHANGED <<bmac, unicast, state, magic, dest, buffer, sent, restarts, senderLost>>,
           \/ queue[d] # <<>> /\ Took(d)
           \/ queue' = [queue EXCEPT ![d] = <<>>]
           \/ UNCHANGED queue,
           air' = air \/ air' = [air EXCEPT ![d] = <<>>],
           ParamsTyped'
    PROVE  IInv'
<1>1. /\ queue' \in [Devices -> Seq(Events)]
      /\ \A o \in Devices : Len(queue'[o]) <= QueueSize
      /\ \A o \in Devices : \A i \in DOMAIN queue'[o] : \E j \in DOMAIN queue[o] : queue'[o][i] = queue[o][j]
  BY QueueTyped DEF IInv
<1>2. air \in [Devices -> Seq(Sends)] /\ sent \in [Devices -> Nat]
  BY DEF IInv, TypeOK
<1>3. /\ air' \in [Devices -> Seq(Sends)]
      /\ \A o \in Devices : \A i \in DOMAIN air'[o] : \E j \in DOMAIN air[o] : air'[o][i] = air[o][j]
  BY <1>2, EmptySeq
<1>4. TypeOK'
  BY <1>1, <1>2, <1>3, TypeStep DEF IInv
<1>5. Honest'
  BY <1>1, <1>3, HonestStep
<1>6. Started'
  BY StartedStep
<1> QED
  BY <1>4, <1>5, <1>6 DEF IInv

\* A step that prepares and sends a frame, with the state of before or with 1.
LEMMA SendingStep ==
    ASSUME IInv, NEW d \in Devices, NEW to \in Addresses,
           UNCHANGED <<bmac, magic, restarts, senderLost>>,
           state' = state \/ state' = [state EXCEPT ![d] = 1],
           queue[d] # <<>> /\ Took(d),
           Prepare(d, to), Send(d, to, buffer'[d]),
           task' = task, dropped' = dropped, count' \in [Devices -> 0..SendCount],
           unicast' \in [Devices -> BOOLEAN], broadcast' \in [Devices -> BOOLEAN]
    PROVE  TypeOK' /\ Honest' /\ \A o \in Devices : state[o] = 1 => state'[o] = 1
<1>1. /\ task \in [Devices -> {"starting", "loop", "deinit", "off"}] /\ dropped \in BOOLEAN
      /\ state \in [Devices -> {0, 1}] /\ magic \in [Devices -> Magics]
      /\ dest \in [Devices -> Addresses] /\ buffer \in [Devices -> Frames]
  BY DEF IInv, TypeOK
<1>2. state' \in [Devices -> {0, 1}] /\ \A o \in Devices : state[o] = 1 => state'[o] = 1
  BY <1>1
<1>3. buffer' = [buffer EXCEPT ![d] = Prepared(to, state'[d], magic[d])] /\ dest' = [dest EXCEPT ![d] = to]
  BY DEF Prepare
<1>4. state'[d] \in {0, 1} /\ magic[d] \in Magics
  BY <1>1, <1>2
<1>5. /\ buffer'[d] = Prepared(to, state'[d], magic[d])
      /\ Prepared(to, state'[d], magic[d]) \in Frames
      /\ Prepared(to, state'[d], magic[d]).magic = magic[d]
      /\ Prepared(to, state'[d], magic[d]).state = state'[d]
  <2>1. \A s \in {0, 1}, m \in Magics :
            /\ Prepared(to, s, m) \in Frames
            /\ Prepared(to, s, m).magic = m /\ Prepared(to, s, m).state = s
    BY PreparedOK
  <2>2. buffer'[d] = Prepared(to, state'[d], magic[d])
    BY <1>1, <1>3
  <2> QED
    BY <1>4, <2>1, <2>2
<1>6. buffer'[d] \in Frames /\ FrameOK(buffer'[d], magic[d], state'[d])
  BY <1>5 DEF FrameOK
<1>7. /\ buffer' \in [Devices -> Frames] /\ dest' \in [Devices -> Addresses]
      /\ \A o \in Devices : buffer'[o] = buffer[o] \/ o = d
  BY <1>1, <1>3, <1>5
<1>8. /\ air' \in [Devices -> Seq(Sends)] /\ sent' \in [Devices -> Nat]
      /\ \A o \in Devices : \A i \in DOMAIN air'[o] :
             \/ i \in DOMAIN air[o] /\ air'[o][i] = air[o][i]
             \/ o = d /\ air'[o][i].frame = buffer'[d]
  BY <1>6, AirTyped DEF IInv
<1>9. /\ queue' \in [Devices -> Seq(Events)]
      /\ \A o \in Devices : Len(queue'[o]) <= QueueSize
      /\ \A o \in Devices : \A i \in DOMAIN queue'[o] : \E j \in DOMAIN queue[o] : queue'[o][i] = queue[o][j]
  BY QueueTyped DEF IInv
<1>10. ParamsTyped'
  BY <1>1, <1>2, <1>7 DEF ParamsTyped
<1>11. TypeOK'
  BY <1>8, <1>9, <1>10, TypeStep DEF IInv
<1>12. \A o \in Devices : buffer'[o] = buffer[o] \/ FrameOK(buffer'[o], magic[o], state'[o])
  BY <1>6, <1>7
<1>13. \A o \in Devices : \A i \in DOMAIN air'[o] :
           \/ \E j \in DOMAIN air[o] : air'[o][i] = air[o][j]
           \/ FrameOK(air'[o][i].frame, magic[o], state'[o])
  BY <1>6, <1>8
<1>14. Honest'
  BY <1>2, <1>9, <1>12, <1>13, HonestStep
<1> QED
  BY <1>2, <1>11, <1>14
-----------------------------------------------------------------------------
(* The steps.                                                              *)

\* What the steps start from.
LEMMA Typed ==
    ASSUME IInv
    PROVE  /\ bmac \in Addresses /\ ParamsTyped
           /\ magic \in [Devices -> Magics] /\ senderLost \in BOOLEAN
           /\ restarts \in 0..MaxRestarts
BY DEF IInv, TypeOK, ParamsTyped

LEMMA OffStep ==
    ASSUME IInv, NEW d \in Devices, Off(d) PROVE IInv'
<1>1. ParamsTyped'
  BY Typed DEF Off, ParamsTyped, paramVars, history
<1> QED
  BY <1>1, QuietStep DEF Off, paramVars, history

LEMMA RefusedStep ==
    ASSUME IInv, NEW d \in Devices, Refused(d) PROVE IInv'
<1>1. task' \in [Devices -> {"starting", "loop", "deinit", "off"}]
  BY Typed DEF Refused, Deinit, ParamsTyped
<1>2. dropped' \in BOOLEAN
  BY Zenon DEF Refused
<1>3. ParamsTyped'
  BY <1>1, <1>2, Typed DEF Refused, ParamsTyped, paramVars
<1> QED
  BY <1>3, QuietStep DEF Refused, Deinit, paramVars

LEMMA ChainEndsStep ==
    ASSUME IInv, NEW d \in Devices, ChainEnds(d) PROVE IInv'
<1>1. ParamsTyped'
  BY Typed DEF ChainEnds, ParamsTyped, paramVars, history
<1> QED
  BY <1>1, QuietStep DEF ChainEnds, Has, paramVars, history

LEMMA SendDoneStep ==
    ASSUME IInv, NEW d \in Devices, SendDone(d) PROVE IInv'
<1>1. task' \in [Devices -> {"starting", "loop", "deinit", "off"}]
  BY Typed DEF SendDone, Deinit, ParamsTyped
<1>2. count' \in [Devices -> 0..SendCount]
  BY Typed, NumbersAssumption DEF SendDone, ParamsTyped
<1>3. ParamsTyped'
  BY <1>1, <1>2, Typed DEF SendDone, ParamsTyped, history
<1> QED
  BY <1>3, QuietStep DEF SendDone, Deinit, history

LEMMA RecvUnicastStep ==
    ASSUME IInv, NEW d \in Devices, RecvUnicast(d) PROVE IInv'
<1>1. broadcast' \in [Devices -> BOOLEAN]
  BY Typed, Zenon DEF RecvUnicast, ParamsTyped
<1>2. ParamsTyped'
  BY <1>1, Typed DEF RecvUnicast, ParamsTyped, history
<1> QED
  BY <1>2, QuietStep DEF RecvUnicast, Has, history

\* The first frame: the one of example_espnow_init.
LEMMA StartStep ==
    ASSUME IInv, NEW d \in Devices, Start(d) PROVE IInv'
<1>1. /\ task' \in [Devices -> {"starting", "loop", "deinit", "off"}]
      /\ UNCHANGED <<bmac, paramVars, queue, restarts, history>>
      /\ Send(d, dest[d], buffer[d])
  BY Typed DEF Start, ParamsTyped
<1>2. dest[d] \in Addresses /\ buffer[d] \in Frames
  BY Typed DEF ParamsTyped
<1>3. /\ air' \in [Devices -> Seq(Sends)] /\ sent' \in [Devices -> Nat]
      /\ \A o \in Devices : \A i \in DOMAIN air'[o] :
             \/ i \in DOMAIN air[o] /\ air'[o][i] = air[o][i]
             \/ o = d /\ air'[o][i].frame = buffer[d]
  BY <1>1, <1>2, AirTyped DEF IInv
<1>4. /\ queue' \in [Devices -> Seq(Events)]
      /\ \A o \in Devices : Len(queue'[o]) <= QueueSize
      /\ \A o \in Devices : \A i \in DOMAIN queue'[o] : \E j \in DOMAIN queue[o] : queue'[o][i] = queue[o][j]
  BY <1>1, QueueTyped DEF IInv
<1>5. ParamsTyped'
  BY <1>1, Typed DEF ParamsTyped, paramVars, history
<1>6. TypeOK'
  BY <1>1, <1>3, <1>4, <1>5, TypeStep DEF IInv, paramVars, history
<1>7. Honest'
  <2>1. CASE restarts = 0
    <3>1. FrameOK(buffer[d], magic[d], state[d])
      BY <2>1 DEF IInv, Honest
    <3>2. \A o \in Devices : \A i \in DOMAIN air'[o] :
              \/ \E j \in DOMAIN air[o] : air'[o][i] = air[o][j]
              \/ FrameOK(air'[o][i].frame, magic[o], state'[o])
      BY <1>1, <1>3, <3>1 DEF paramVars
    <3> QED
      BY <1>1, <1>4, <3>2, HonestStep DEF paramVars
  <2>2. CASE restarts # 0
    BY <1>1, <2>2 DEF Honest
  <2> QED
    BY <2>1, <2>2
<1>8. Started'
  BY <1>1, StartedStep DEF paramVars
<1> QED
  BY <1>6, <1>7, <1>8 DEF IInv

LEMMA SendNextBroadcastStep ==
    ASSUME IInv, NEW d \in Devices, SendNextBroadcast(d) PROVE IInv'
<1>1. Event(d) \in Events /\ queue[d] # <<>>
  BY EventTaken DEF SendNextBroadcast, Has, IInv
<1>2. Event(d).mac \in Addresses
  BY <1>1, EventFields
<1>3. TypeOK' /\ Honest'
  BY <1>1, <1>2, Typed, SendingStep DEF SendNextBroadcast, ParamsTyped, history
<1>4. Started'
  BY StartedStep DEF SendNextBroadcast
<1> QED
  BY <1>3, <1>4 DEF IInv

LEMMA SendNextUnicastStep ==
    ASSUME IInv, NEW d \in Devices, SendNextUnicast(d) PROVE IInv'
<1>1. Event(d) \in Events /\ queue[d] # <<>>
  BY EventTaken DEF SendNextUnicast, Has, IInv
<1>2. Event(d).mac \in Addresses
  BY <1>1, EventFields
<1>3. count' \in [Devices -> 0..SendCount]
  BY Typed, NumbersAssumption DEF SendNextUnicast, ParamsTyped
<1>4. TypeOK' /\ Honest'
  BY <1>1, <1>2, <1>3, Typed, SendingStep DEF SendNextUnicast, ParamsTyped, history
<1>5. Started'
  BY StartedStep DEF SendNextUnicast
<1> QED
  BY <1>4, <1>5 DEF IInv

\* A broadcast that was heard: its state and number are those of another device.
LEMMA Heard ==
    ASSUME IInv, NEW d \in Devices, HearsBroadcast(d)
    PROVE  /\ queue[d] # <<>> /\ Event(d) \in Events /\ Event(d).id = "recv"
           /\ Event(d).mac \in Devices /\ Event(d).frame \in Frames
           /\ restarts = 0 => /\ Event(d).mac # d
                              /\ FrameOK(Event(d).frame, magic[Event(d).mac], state[Event(d).mac])
<1>1. queue[d] # <<>> /\ Event(d).id = "recv"
  BY DEF HearsBroadcast, Has, Event
<1>2. Event(d) \in Events /\ 1 \in DOMAIN queue[d] /\ Event(d) = queue[d][1]
  BY <1>1, EventTaken DEF IInv
<1>3. restarts = 0 => EventOK(d, Event(d), magic, state)
  BY <1>2 DEF IInv, Honest
<1> QED
  BY <1>1, <1>2, <1>3, EventFields DEF EventOK

LEMMA RecvBroadcastStep ==
    ASSUME IInv, NEW d \in Devices, RecvBroadcast(d) PROVE IInv'
<1>1. /\ queue[d] # <<>> /\ Took(d) /\ state' = [state EXCEPT ![d] = 1]
      /\ UNCHANGED <<bmac, task, unicast, broadcast, magic, count, dest, buffer, air, sent, restarts,
                     dropped, senderLost>>
  BY Heard DEF RecvBroadcast, history
<1>2. state \in [Devices -> {0, 1}]
  BY Typed DEF ParamsTyped
<1>3. state' \in [Devices -> {0, 1}] /\ \A o \in Devices : state[o] = 1 => state'[o] = 1
  BY <1>1, <1>2
<1>4. ParamsTyped'
  BY <1>1, <1>3, Typed DEF ParamsTyped
<1>5. /\ queue' \in [Devices -> Seq(Events)]
      /\ \A o \in Devices : Len(queue'[o]) <= QueueSize
      /\ \A o \in Devices : \A i \in DOMAIN queue'[o] : \E j \in DOMAIN queue[o] : queue'[o][i] = queue[o][j]
  BY <1>1, QueueTyped DEF IInv
<1>6. air' \in [Devices -> Seq(Sends)] /\ sent' \in [Devices -> Nat]
  BY <1>1 DEF IInv, TypeOK
<1>7. TypeOK'
  BY <1>1, <1>4, <1>5, <1>6, TypeStep DEF IInv
<1>8. Honest'
  BY <1>1, <1>3, <1>5, HonestStep
<1>9. Started'
  BY <1>1, <1>3, StartedStep
<1> QED
  BY <1>7, <1>8, <1>9 DEF IInv

LEMMA RecvStartsStep ==
    ASSUME IInv, NEW d \in Devices, RecvStarts(d) PROVE IInv'
<1>1. /\ queue[d] # <<>> /\ Took(d) /\ state' = [state EXCEPT ![d] = 1]
      /\ Prepare(d, Event(d).mac) /\ Send(d, Event(d).mac, buffer'[d])
      /\ unicast' = [unicast EXCEPT ![d] = TRUE]
      /\ UNCHANGED <<bmac, task, magic, count, restarts, dropped, senderLost>>
  BY Heard DEF RecvStarts, history
<1>2. /\ Event(d).mac \in Devices /\ Event(d).frame \in Frames
      /\ restarts = 0 => /\ Event(d).mac # d
                         /\ FrameOK(Event(d).frame, magic[Event(d).mac], state[Event(d).mac])
      /\ Event(d).frame.state = 1 /\ magic[d] >= Event(d).frame.magic
  BY Heard DEF RecvStarts, StartsUnicast
<1>3. unicast' \in [Devices -> BOOLEAN] /\ broadcast' \in [Devices -> BOOLEAN]
  BY Typed, Zenon DEF RecvStarts, ParamsTyped
<1>4. Event(d).mac \in Addresses
  BY <1>2 DEF Addresses
<1>5. TypeOK' /\ Honest' /\ \A o \in Devices : state[o] = 1 => state'[o] = 1
  BY <1>1, <1>3, <1>4, Typed, SendingStep DEF ParamsTyped
<1>6. Started'
  <2> SUFFICES ASSUME restarts = 0, NEW e \in Devices, unicast'[e]
               PROVE  \E o \in Devices \ {e} : state'[o] = 1 /\ magic[e] >= magic[o]
    BY <1>1 DEF Started
  <2>1. CASE e = d
    <3>1. /\ Event(d).mac \in Devices \ {d} /\ state[Event(d).mac] = 1
          /\ magic[d] >= magic[Event(d).mac]
      BY <1>2 DEF FrameOK
    <3> QED
      BY <1>5, <2>1, <3>1
  <2>2. CASE e # d
    <3>1. unicast[e]
      BY <1>1, <2>2, Typed DEF ParamsTyped
    <3> QED
      BY <1>5, <3>1 DEF IInv, Started
  <2> QED
    BY <2>1, <2>2
<1> QED
  BY <1>5, <1>6 DEF IInv

\* An event is put into a queue, or dropped.
LEMMA PutSeq ==
    ASSUME NEW q \in Seq(Events), Len(q) <= QueueSize, NEW e \in Events
    PROVE  /\ Put(q, e) \in Seq(Events) /\ Len(Put(q, e)) <= QueueSize
           /\ \A i \in DOMAIN Put(q, e) : (i \in DOMAIN q /\ Put(q, e)[i] = q[i]) \/ Put(q, e)[i] = e
<1>1. /\ Append(q, e) \in Seq(Events) /\ Len(Append(q, e)) = Len(q) + 1
      /\ \A i \in DOMAIN Append(q, e) :
             (i \in DOMAIN q /\ Append(q, e)[i] = q[i]) \/ Append(q, e)[i] = e
  BY AppendSeq
<1>2. Len(q) \in Nat /\ QueueSize \in Nat
  BY NumbersAssumption
<1>3. CASE Len(q) < QueueSize
  BY <1>1, <1>2, <1>3 DEF Put
<1>4. CASE ~(Len(q) < QueueSize)
  BY <1>4 DEF Put
<1> QED
  BY <1>3, <1>4

LEMMA TransmitStep ==
    ASSUME IInv, NEW d \in Devices, NEW who \in SUBSET (Devices \ {d}), Transmit(d, who)
    PROVE  IInv'
<1> DEFINE f == Head(air[d])
           recv == [id |-> "recv", mac |-> d, frame |-> f.frame]
           send == [id |-> "send", mac |-> f.to]
<1>1. /\ UNCHANGED <<bmac, task, unicast, broadcast, state, magic, count, dest, buffer, sent,
                     restarts, senderLost>>
      /\ air[d] # <<>> /\ air' = [air EXCEPT ![d] = Tail(air[d])]
      /\ queue' = [o \in Devices |-> IF o = d THEN Put(queue[o], send)
                                      ELSE IF o \in who THEN Put(queue[o], recv)
                                      ELSE queue[o]]
  BY DEF Transmit, paramVars
<1>2. dropped' \in BOOLEAN
  BY Zenon DEF Transmit
<1>3. air \in [Devices -> Seq(Sends)] /\ sent \in [Devices -> Nat] /\ queue \in [Devices -> Seq(Events)]
  BY DEF IInv, TypeOK
<1>4. /\ Tail(air[d]) \in Seq(Sends)
      /\ \A i \in DOMAIN Tail(air[d]) : i + 1 \in DOMAIN air[d] /\ Tail(air[d])[i] = air[d][i + 1]
      /\ f \in Sends /\ 1 \in DOMAIN air[d] /\ f = air[d][1]
  BY <1>1, <1>3, TailSeq
<1>5. f.frame \in Frames /\ f.to \in Addresses
  BY <1>4 DEF Sends
<1>6. recv \in Events /\ send \in Events
  BY <1>5 DEF Events
<1>7. /\ recv.id = "recv" /\ recv.mac = d /\ recv.frame = f.frame /\ send.id = "send"
  OBVIOUS
<1>8. restarts = 0 => FrameOK(f.frame, magic[d], state[d])
  BY <1>4 DEF IInv, Honest
<1> HIDE DEF f, recv, send
<1>9. /\ air' \in [Devices -> Seq(Sends)]
      /\ \A o \in Devices : \A i \in DOMAIN air'[o] : \E j \in DOMAIN air[o] : air'[o][i] = air[o][j]
  <2>1. air' \in [Devices -> Seq(Sends)]
    BY <1>1, <1>3, <1>4
  <2>2. ASSUME NEW o \in Devices, NEW i \in DOMAIN air'[o]
        PROVE  \E j \in DOMAIN air[o] : air'[o][i] = air[o][j]
    <3>1. CASE o = d
      BY <1>1, <1>3, <1>4, <3>1
    <3>2. CASE o # d
      BY <1>1, <1>3, <3>2
    <3> QED
      BY <3>1, <3>2
  <2> QED
    BY <2>1, <2>2
<1>10. ASSUME NEW o \in Devices
       PROVE  /\ queue'[o] \in Seq(Events) /\ Len(queue'[o]) <= QueueSize
              /\ \A i \in DOMAIN queue'[o] :
                    \/ i \in DOMAIN queue[o] /\ queue'[o][i] = queue[o][i]
                    \/ queue'[o][i] = send
                    \/ o # d /\ queue'[o][i] = recv
  <2>1. queue[o] \in Seq(Events) /\ Len(queue[o]) <= QueueSize
    BY DEF IInv, TypeOK
  <2>2. CASE o = d
    BY <1>1, <1>6, <2>1, <2>2, PutSeq
  <2>3. CASE o # d /\ o \in who
    BY <1>1, <1>6, <2>1, <2>3, PutSeq
  <2>4. CASE o # d /\ o \notin who
    BY <1>1, <2>1, <2>4
  <2> QED
    BY <2>2, <2>3, <2>4
<1>11. queue' \in [Devices -> Seq(Events)] /\ \A o \in Devices : Len(queue'[o]) <= QueueSize
  BY <1>1, <1>10
<1>12. ParamsTyped'
  BY <1>1, <1>2, Typed DEF ParamsTyped
<1>13. TypeOK'
  BY <1>1, <1>3, <1>9, <1>11, <1>12, TypeStep DEF IInv
<1>14. Honest'
  <2>1. CASE restarts = 0
    <3>1. \A o \in Devices : \A i \in DOMAIN queue'[o] :
              \/ \E j \in DOMAIN queue[o] : queue'[o][i] = queue[o][j]
              \/ EventOK(o, queue'[o][i], magic, state')
      <4> SUFFICES ASSUME NEW o \in Devices, NEW i \in DOMAIN queue'[o],
                          queue'[o][i] = send \/ (o # d /\ queue'[o][i] = recv)
                   PROVE  EventOK(o, queue'[o][i], magic, state')
        BY <1>10
      <4>1. EventOK(o, send, magic, state')
        BY <1>7 DEF EventOK
      <4>2. o # d => EventOK(o, recv, magic, state')
        BY <1>1, <1>7, <1>8, <2>1 DEF EventOK
      <4> QED
        BY <4>1, <4>2
    <3> QED
      BY <1>1, <1>9, <3>1, HonestStep
  <2>2. CASE restarts # 0
    BY <1>1, <2>2 DEF Honest
  <2> QED
    BY <2>1, <2>2
<1>15. Started'
  BY <1>1, StartedStep
<1> QED
  BY <1>13, <1>14, <1>15 DEF IInv

\* After a restart the invariant says no more than the types.
LEMMA RestartStep ==
    ASSUME IInv, NEW d \in Devices, Restart(d) PROVE IInv'
<1>1. PICK m \in Magics : /\ magic' = [magic EXCEPT ![d] = m]
                          /\ buffer' = [buffer EXCEPT ![d] = Prepared(bmac, 0, m)]
  BY DEF Restart
<1>2. /\ bmac \in Addresses /\ ParamsTyped /\ magic \in [Devices -> Magics]
      /\ restarts \in 0..MaxRestarts /\ MaxRestarts \in Nat
  BY Typed, NumbersAssumption
<1>3. Prepared(bmac, 0, m) \in Frames
  BY PreparedOK
<1>4. magic' \in [Devices -> Magics] /\ buffer' \in [Devices -> Frames] /\ bmac' \in Addresses
  BY <1>1, <1>2, <1>3 DEF ParamsTyped, Restart
<1>5. restarts' \in 0..MaxRestarts /\ restarts' # 0
  BY <1>2 DEF Restart
<1>6. /\ task' \in [Devices -> {"starting", "loop", "deinit", "off"}]
      /\ state' \in [Devices -> {0, 1}] /\ dest' \in [Devices -> Addresses]
  BY <1>2 DEF Restart, ParamsTyped
<1>7. count' \in [Devices -> 0..SendCount]
  BY <1>2, NumbersAssumption DEF Restart, ParamsTyped
<1>8. unicast' \in [Devices -> BOOLEAN] /\ broadcast' \in [Devices -> BOOLEAN]
  BY <1>2, Zenon DEF Restart, ParamsTyped
<1>9. senderLost' \in BOOLEAN /\ dropped' \in BOOLEAN
  BY <1>2, Zenon DEF Restart, ParamsTyped
<1>10. /\ queue' \in [Devices -> Seq(Events)]
       /\ \A o \in Devices : Len(queue'[o]) <= QueueSize
  BY QueueTyped DEF Restart, IInv
<1>11. air' \in [Devices -> Seq(Sends)] /\ sent' \in [Devices -> Nat]
  BY EmptySeq DEF IInv, TypeOK, Restart
<1>12. TypeOK'
  BY <1>4, <1>5, <1>6, <1>7, <1>8, <1>9, <1>10, <1>11, Zenon DEF TypeOK
<1> QED
  BY <1>5, <1>12 DEF IInv, Honest, Started

THEOREM Invariance == Spec => []IInv
<1>1. IInv /\ [Next]_vars => IInv'
  <2> SUFFICES ASSUME IInv, [Next]_vars PROVE IInv'
    OBVIOUS
  <2>1. ASSUME NEW d \in Devices, Task(d) PROVE IInv'
    BY <2>1, StartStep, OffStep, ChainEndsStep, SendNextBroadcastStep, SendNextUnicastStep,
       SendDoneStep, RecvBroadcastStep, RecvStartsStep, RecvUnicastStep DEF Task
  <2>2. ASSUME NEW d \in Devices, Refused(d) PROVE IInv'
    BY <2>2, RefusedStep
  <2>3. ASSUME NEW d \in Devices, Restart(d) PROVE IInv'
    BY <2>3, RestartStep
  <2>4. ASSUME NEW d \in Devices, NEW who \in SUBSET (Devices \ {d}), Transmit(d, who) PROVE IInv'
    BY <2>4, TransmitStep
  <2>5. CASE UNCHANGED vars
    BY <2>5 DEF vars, paramVars, history, IInv, TypeOK, Honest, Started
  <2> QED
    BY <2>1, <2>2, <2>3, <2>4, <2>5 DEF Next
<1> QED
  BY <1>1, InitHolds, PTL DEF Spec

\* Every variable has its type; no queue is longer than ESPNOW_QUEUE_SIZE
\* (espnow_example_main.c, all of it).
THEOREM TypeCorrect == Spec => []TypeOK
<1>1. IInv => TypeOK
  BY DEF IInv
<1> QED
  BY <1>1, Invariance, PTL

\* Who sends unicast frames was heard before (espnow_example_main.c, the branch
\* of EXAMPLE_ESPNOW_RECV_CB for a broadcast).
THEOREM SenderWasHeardHolds == Spec => []SenderWasHeard
<1>1. IInv => SenderWasHeard
  BY DEF IInv, Started, SenderWasHeard
<1> QED
  BY <1>1, Invariance, PTL

\* Of a pair of devices one becomes the sender, unless their magic numbers are the
\* same (the comparison of magic numbers in the same branch).  Of three devices two
\* may: each has heard another one.
Pair == \A d, o, p \in Devices : d = o \/ d = p \/ o = p

THEOREM OneSenderHolds == Pair => (Spec => []OneSender)
<1> SUFFICES ASSUME Pair PROVE Spec => []OneSender
  OBVIOUS
<1>1. IInv => OneSender
  <2> SUFFICES ASSUME IInv, restarts = 0, NEW d \in Devices, NEW o \in Devices,
                      unicast[d], unicast[o], d # o
               PROVE  magic[d] = magic[o]
    BY DEF OneSender
  <2>1. Devices \ {d} = {o} /\ Devices \ {o} = {d}
    BY DEF Pair
  <2>2. magic[d] >= magic[o] /\ magic[o] >= magic[d]
    BY <2>1 DEF IInv, Started
  <2>3. magic[d] \in Nat /\ magic[o] \in Nat
    BY Typed, NumbersAssumption
  <2> QED
    BY <2>2, <2>3
<1> QED
  BY <1>1, Invariance, PTL
-----------------------------------------------------------------------------
(***************************************************************************)
(* SendsItsCount: of the unicast chain there is at most one frame, in the  *)
(* air or as a SEND_CB event in the queue; while there is one, the frames  *)
(* that were sent and the count that is left add up.                       *)
(***************************************************************************)
NoneOf(s, M) == \A i \in DOMAIN s : s[i] \notin M
AtMostOneOf(s, M) == \A i, j \in DOMAIN s : s[i] \in M /\ s[j] \in M => i = j

UnicastSends(b) == {f \in Sends : f.to # b}
UnicastEvents(b) == {e \in Events : e.id = "send" /\ e.mac # b}
Idle(b, a, q) == NoneOf(a, UnicastSends(b)) /\ NoneOf(q, UnicastEvents(b))

\* Of one device: unicast u, count c, n frames sent, a in the air and q in the queue.
Chain(b, u, c, n, a, q) ==
    /\ AtMostOneOf(a, UnicastSends(b)) /\ AtMostOneOf(q, UnicastEvents(b))
    /\ NoneOf(a, UnicastSends(b)) \/ NoneOf(q, UnicastEvents(b))
    /\ Idle(b, a, q) => n <= SendCount /\ (c = 0 => n = SendCount)
    /\ ~Idle(b, a, q) => c >= 1 /\ n = SendCount - c + 1
    /\ ~u => n = 0 /\ c = SendCount /\ Idle(b, a, q)

\* The first frame is a broadcast.
FirstFrame(d) == task[d] = "starting" => dest[d] = bmac /\ buffer[d].type = "broadcast"

ChainOf(d) == Chain(bmac, unicast[d], count[d], sent[d], air[d], queue[d])
Chained == \A d \in Devices : FirstFrame(d) /\ ChainOf(d)

CInv == IInv /\ Chained

LEMMA AppendMarked ==
    ASSUME NEW S, NEW s \in Seq(S), NEW e \in S, NEW M
    PROVE  /\ e \notin M => (NoneOf(Append(s, e), M) <=> NoneOf(s, M))
           /\ e \notin M /\ AtMostOneOf(s, M) => AtMostOneOf(Append(s, e), M)
           /\ e \in M => ~NoneOf(Append(s, e), M)
           /\ NoneOf(s, M) => AtMostOneOf(Append(s, e), M)
<1> DEFINE r == Append(s, e)
<1>1. /\ r \in Seq(S) /\ DOMAIN s = 1..Len(s) /\ DOMAIN r = 1..(Len(s) + 1) /\ Len(s) \in Nat
      /\ \A i \in 1..Len(s) : r[i] = s[i]
      /\ r[Len(s) + 1] = e
  OBVIOUS
<1> HIDE DEF r
<1>2. /\ \A i \in DOMAIN r : (i \in DOMAIN s /\ r[i] = s[i]) \/ (i = Len(s) + 1 /\ r[i] = e)
      /\ \A i \in DOMAIN s : i \in DOMAIN r /\ r[i] = s[i]
      /\ Len(s) + 1 \in DOMAIN r
  BY <1>1
<1>3. e \notin M => (NoneOf(r, M) <=> NoneOf(s, M))
  BY <1>2 DEF NoneOf
<1>4. e \notin M /\ AtMostOneOf(s, M) => AtMostOneOf(r, M)
  BY <1>2 DEF AtMostOneOf
<1>5. e \in M => ~NoneOf(r, M)
  BY <1>1, <1>2 DEF NoneOf
<1>6. NoneOf(s, M) => AtMostOneOf(r, M)
  BY <1>2 DEF NoneOf, AtMostOneOf
<1> QED
  BY <1>3, <1>4, <1>5, <1>6 DEF r

LEMMA TailMarked ==
    ASSUME NEW S, NEW s \in Seq(S), s # <<>>, NEW M
    PROVE  /\ NoneOf(s, M) => NoneOf(Tail(s), M)
           /\ AtMostOneOf(s, M) => AtMostOneOf(Tail(s), M)
           /\ Head(s) \in M => ~NoneOf(s, M)
           /\ Head(s) \in M /\ AtMostOneOf(s, M) => NoneOf(Tail(s), M)
           /\ Head(s) \notin M /\ NoneOf(Tail(s), M) => NoneOf(s, M)
<1> DEFINE r == Tail(s)
<1>1. /\ Len(s) \in Nat \ {0} /\ DOMAIN s = 1..Len(s) /\ DOMAIN r = 1..(Len(s) - 1)
      /\ \A i \in 1..(Len(s) - 1) : r[i] = s[i + 1]
      /\ Head(s) = s[1]
  OBVIOUS
<1> HIDE DEF r
<1>2. /\ \A i \in DOMAIN r : i + 1 \in DOMAIN s /\ i + 1 # 1 /\ r[i] = s[i + 1] /\ i \in Nat
      /\ \A k \in DOMAIN s : k # 1 => k - 1 \in DOMAIN r /\ r[k - 1] = s[k]
      /\ 1 \in DOMAIN s
  BY <1>1
<1>3. NoneOf(s, M) => NoneOf(r, M)
  BY <1>2 DEF NoneOf
<1>4. AtMostOneOf(s, M) => AtMostOneOf(r, M)
  BY <1>2 DEF AtMostOneOf
<1>5. Head(s) \in M => ~NoneOf(s, M)
  BY <1>1, <1>2 DEF NoneOf
<1>6. Head(s) \in M /\ AtMostOneOf(s, M) => NoneOf(r, M)
  BY <1>1, <1>2 DEF NoneOf, AtMostOneOf
<1>7. Head(s) \notin M /\ NoneOf(r, M) => NoneOf(s, M)
  BY <1>1, <1>2 DEF NoneOf
<1> QED
  BY <1>3, <1>4, <1>5, <1>6, <1>7 DEF r

LEMMA EmptyMarked == ASSUME NEW M PROVE NoneOf(<<>>, M) /\ AtMostOneOf(<<>>, M)
BY EmptySeq DEF NoneOf, AtMostOneOf

LEMMA NoneIsAtMostOne == ASSUME NEW s, NEW M, NoneOf(s, M) PROVE AtMostOneOf(s, M)
BY DEF NoneOf, AtMostOneOf
-----------------------------------------------------------------------------
(* What happens to a chain.                                                *)

LEMMA ChainTakesOther ==
    ASSUME NEW b, NEW u, NEW c \in Nat, NEW n \in Nat, NEW a \in Seq(Sends), NEW q \in Seq(Events),
           Chain(b, u, c, n, a, q), q # <<>>, Head(q) \notin UnicastEvents(b)
    PROVE  Chain(b, u, c, n, a, Tail(q))
<1>1. /\ AtMostOneOf(q, UnicastEvents(b)) => AtMostOneOf(Tail(q), UnicastEvents(b))
      /\ NoneOf(q, UnicastEvents(b)) <=> NoneOf(Tail(q), UnicastEvents(b))
  BY TailMarked
<1> QED
  BY <1>1 DEF Chain, Idle

LEMMA ChainQueueGone ==
    ASSUME NEW b, NEW u, NEW c \in Nat, NEW n \in Nat, NEW a \in Seq(Sends), NEW q \in Seq(Events),
           Chain(b, u, c, n, a, q)
    PROVE  Chain(b, u, c, n, a, <<>>)
<1>1. NoneOf(<<>>, UnicastEvents(b)) /\ AtMostOneOf(<<>>, UnicastEvents(b))
  BY EmptyMarked
<1> QED
  BY <1>1, NumbersAssumption DEF Chain, Idle

LEMMA ChainAirGone ==
    ASSUME NEW b, NEW u, NEW c \in Nat, NEW n \in Nat, NEW a \in Seq(Sends), NEW q \in Seq(Events),
           Chain(b, u, c, n, a, q)
    PROVE  Chain(b, u, c, n, <<>>, q)
<1>1. NoneOf(<<>>, UnicastSends(b)) /\ AtMostOneOf(<<>>, UnicastSends(b))
  BY EmptyMarked
<1> QED
  BY <1>1, NumbersAssumption DEF Chain, Idle

LEMMA ChainHearsOther ==
    ASSUME NEW b, NEW u, NEW c \in Nat, NEW n \in Nat, NEW a \in Seq(Sends), NEW q \in Seq(Events),
           Chain(b, u, c, n, a, q), NEW e \in Events, e \notin UnicastEvents(b)
    PROVE  Chain(b, u, c, n, a, Append(q, e))
<1>1. /\ NoneOf(Append(q, e), UnicastEvents(b)) <=> NoneOf(q, UnicastEvents(b))
      /\ AtMostOneOf(q, UnicastEvents(b)) => AtMostOneOf(Append(q, e), UnicastEvents(b))
  BY AppendMarked
<1> QED
  BY <1>1 DEF Chain, Idle

LEMMA ChainSendsOther ==
    ASSUME NEW b, NEW u, NEW c \in Nat, NEW n \in Nat, NEW a \in Seq(Sends), NEW q \in Seq(Events),
           Chain(b, u, c, n, a, q), NEW f \in Sends, f \notin UnicastSends(b)
    PROVE  Chain(b, u, c, n, Append(a, f), q)
<1>1. /\ NoneOf(Append(a, f), UnicastSends(b)) <=> NoneOf(a, UnicastSends(b))
      /\ AtMostOneOf(a, UnicastSends(b)) => AtMostOneOf(Append(a, f), UnicastSends(b))
  BY AppendMarked
<1> QED
  BY <1>1 DEF Chain, Idle

\* SEND_CB of a unicast frame: the next one is sent, or the count is used up.
LEMMA ChainGoesOn ==
    ASSUME NEW b, NEW u, NEW c \in Nat, NEW n \in Nat, NEW a \in Seq(Sends), NEW q \in Seq(Events),
           Chain(b, u, c, n, a, q), q # <<>>, Head(q) \in UnicastEvents(b)
    PROVE  /\ c > 1 => \A f \in UnicastSends(b) : Chain(b, u, c - 1, n + 1, Append(a, f), Tail(q))
           /\ c = 1 => Chain(b, u, 0, n, a, <<>>)
<1>1. /\ ~NoneOf(q, UnicastEvents(b)) /\ AtMostOneOf(q, UnicastEvents(b))
      /\ NoneOf(Tail(q), UnicastEvents(b)) /\ AtMostOneOf(Tail(q), UnicastEvents(b))
  BY TailMarked, NoneIsAtMostOne DEF Chain
<1>2. NoneOf(a, UnicastSends(b)) /\ u /\ c >= 1 /\ n = SendCount - c + 1
  BY <1>1 DEF Chain, Idle
<1>3. ASSUME NEW f \in UnicastSends(b), c > 1
      PROVE  Chain(b, u, c - 1, n + 1, Append(a, f), Tail(q))
  <2>1. f \in Sends
    BY DEF UnicastSends
  <2>2. AtMostOneOf(Append(a, f), UnicastSends(b)) /\ ~NoneOf(Append(a, f), UnicastSends(b))
    BY <1>2, <2>1, AppendMarked
  <2>3. c - 1 >= 1 /\ n + 1 = SendCount - (c - 1) + 1
    BY <1>2, <1>3, NumbersAssumption
  <2> QED
    BY <1>1, <1>2, <2>2, <2>3 DEF Chain, Idle
<1>4. ASSUME c = 1 PROVE Chain(b, u, 0, n, a, <<>>)
  <2>1. NoneOf(<<>>, UnicastEvents(b)) /\ AtMostOneOf(<<>>, UnicastEvents(b))
    BY EmptyMarked
  <2>2. n = SendCount /\ AtMostOneOf(a, UnicastSends(b))
    BY <1>2, <1>4, NumbersAssumption DEF Chain
  <2> QED
    BY <1>2, <2>1, <2>2, NumbersAssumption DEF Chain, Idle
<1> QED
  BY <1>3, <1>4

\* A device becomes the sender.
LEMMA ChainBegins ==
    ASSUME NEW b, NEW c \in Nat, NEW n \in Nat, NEW a \in Seq(Sends), NEW q \in Seq(Events),
           Chain(b, FALSE, c, n, a, q), NEW f \in Sends
    PROVE  /\ f \in UnicastSends(b) => Chain(b, TRUE, c, n + 1, Append(a, f), q)
           /\ f \notin UnicastSends(b) => Chain(b, TRUE, c, n, Append(a, f), q)
<1>1. /\ n = 0 /\ c = SendCount /\ NoneOf(a, UnicastSends(b)) /\ NoneOf(q, UnicastEvents(b))
      /\ AtMostOneOf(q, UnicastEvents(b))
  BY DEF Chain, Idle
<1>2. /\ AtMostOneOf(Append(a, f), UnicastSends(b))
      /\ f \in UnicastSends(b) => ~NoneOf(Append(a, f), UnicastSends(b))
      /\ f \notin UnicastSends(b) => NoneOf(Append(a, f), UnicastSends(b))
  BY <1>1, AppendMarked
<1> QED
  BY <1>1, <1>2, NumbersAssumption DEF Chain, Idle

\* The frame at the head of the air goes, with or without an event in the queue.
LEMMA ChainTransmits ==
    ASSUME NEW b, NEW u, NEW c \in Nat, NEW n \in Nat, NEW a \in Seq(Sends), NEW q \in Seq(Events),
           Chain(b, u, c, n, a, q), a # <<>>, NEW e \in Events,
           e \in UnicastEvents(b) <=> Head(a) \in UnicastSends(b)
    PROVE  Chain(b, u, c, n, Tail(a), q) /\ Chain(b, u, c, n, Tail(a), Append(q, e))
<1>1. /\ NoneOf(a, UnicastSends(b)) => NoneOf(Tail(a), UnicastSends(b))
      /\ AtMostOneOf(Tail(a), UnicastSends(b))
      /\ Head(a) \in UnicastSends(b) => ~NoneOf(a, UnicastSends(b)) /\ NoneOf(Tail(a), UnicastSends(b))
      /\ Head(a) \notin UnicastSends(b) /\ NoneOf(Tail(a), UnicastSends(b)) => NoneOf(a, UnicastSends(b))
  BY TailMarked DEF Chain
<1>2. Chain(b, u, c, n, Tail(a), q)
  BY <1>1, NumbersAssumption DEF Chain, Idle
<1>3. CASE e \notin UnicastEvents(b)
  BY <1>2, <1>3, ChainHearsOther, TailSeq
<1>4. CASE e \in UnicastEvents(b)
  <2>1. NoneOf(q, UnicastEvents(b)) /\ u /\ c >= 1 /\ n = SendCount - c + 1
    BY <1>1, <1>4 DEF Chain, Idle
  <2>2. AtMostOneOf(Append(q, e), UnicastEvents(b)) /\ ~NoneOf(Append(q, e), UnicastEvents(b))
    BY <1>4, <2>1, AppendMarked
  <2> QED
    BY <1>1, <1>2, <1>4, <2>1, <2>2 DEF Chain, Idle
<1> QED
  BY <1>2, <1>3, <1>4
-----------------------------------------------------------------------------
(* The steps, again.                                                       *)

OthersStay(d) == \A o \in Devices \ {d} :
    /\ task'[o] = task[o] /\ dest'[o] = dest[o] /\ buffer'[o] = buffer[o]
    /\ unicast'[o] = unicast[o] /\ count'[o] = count[o] /\ sent'[o] = sent[o]
    /\ air'[o] = air[o] /\ queue'[o] = queue[o]

LEMMA ChainedStep ==
    ASSUME CInv, NEW d \in Devices, bmac' = bmac, OthersStay(d), FirstFrame(d)', ChainOf(d)'
    PROVE  Chained'
BY DEF CInv, Chained, OthersStay, FirstFrame, ChainOf

LEMMA ChainTyped ==
    ASSUME CInv, NEW d \in Devices
    PROVE  /\ count[d] \in Nat /\ sent[d] \in Nat /\ air[d] \in Seq(Sends) /\ queue[d] \in Seq(Events)
           /\ unicast[d] \in BOOLEAN /\ bmac \in Addresses /\ FirstFrame(d)
           /\ Chain(bmac, unicast[d], count[d], sent[d], air[d], queue[d])
<1>1. FirstFrame(d) /\ Chain(bmac, unicast[d], count[d], sent[d], air[d], queue[d])
  BY DEF CInv, Chained, ChainOf
<1>2. count[d] \in Nat /\ sent[d] \in Nat /\ air[d] \in Seq(Sends) /\ queue[d] \in Seq(Events) /\ bmac \in Addresses
  BY NumbersAssumption DEF CInv, IInv, TypeOK
<1>3. unicast[d] \in BOOLEAN
  BY Zenon DEF CInv, IInv, TypeOK
<1> QED
  BY <1>1, <1>2, <1>3

LEMMA Domains ==
    ASSUME CInv
    PROVE  /\ DOMAIN task = Devices /\ DOMAIN dest = Devices /\ DOMAIN buffer = Devices
           /\ DOMAIN unicast = Devices /\ DOMAIN count = Devices /\ DOMAIN sent = Devices
           /\ DOMAIN air = Devices /\ DOMAIN queue = Devices
BY DEF CInv, IInv, TypeOK

\* A step that takes an event that is no SEND_CB of a unicast frame, deletes the
\* queue, or ends the callbacks, and sends nothing.
LEMMA QuietChain ==
    ASSUME CInv, NEW d \in Devices, UNCHANGED <<bmac, unicast, count, sent, dest, buffer>>,
           \/ queue[d] # <<>> /\ Head(queue[d]) \notin UnicastEvents(bmac) /\ Took(d)
           \/ queue' = [queue EXCEPT ![d] = <<>>]
           \/ UNCHANGED queue,
           air' = air \/ air' = [air EXCEPT ![d] = <<>>],
           task' = task \/ task' = [task EXCEPT ![d] = "deinit"] \/ task' = [task EXCEPT ![d] = "off"]
    PROVE  Chained'
<1>1. OthersStay(d)
  BY Domains DEF OthersStay, Took
<1>2. FirstFrame(d)'
  BY ChainTyped, Domains DEF FirstFrame
<1>3. /\ queue'[d] \in Seq(Events)
      /\ Chain(bmac, unicast[d], count[d], sent[d], air[d], queue'[d])
  <2>1. CASE queue' = [queue EXCEPT ![d] = <<>>]
    BY <2>1, ChainTyped, Domains, ChainQueueGone, EmptySeq
  <2>2. CASE UNCHANGED queue
    BY <2>2, ChainTyped
  <2>3. CASE queue[d] # <<>> /\ Head(queue[d]) \notin UnicastEvents(bmac) /\ Took(d)
    <3>1. queue'[d] = Tail(queue[d])
      BY <2>3, Domains DEF Took
    <3> QED
      BY <2>3, <3>1, ChainTyped, ChainTakesOther, TailSeq
  <2> QED
    BY <2>1, <2>2, <2>3
<1>4. Chain(bmac, unicast[d], count[d], sent[d], air'[d], queue'[d])
  <2>1. CASE air' = air
    BY <1>3, <2>1
  <2>2. CASE air' = [air EXCEPT ![d] = <<>>]
    BY <1>3, <2>2, ChainTyped, Domains, ChainAirGone
  <2> QED
    BY <2>1, <2>2
<1>5. ChainOf(d)'
  BY <1>4 DEF ChainOf
<1> QED
  BY <1>1, <1>2, <1>5, ChainedStep

\* What esp_now_send does to the chain's variables.
LEMMA SendEffect ==
    ASSUME CInv, NEW d \in Devices, NEW to \in Addresses, NEW f \in Frames, Send(d, to, f)
    PROVE  \E g \in Sends :
               /\ air'[d] = Append(air[d], g)
               /\ g \in UnicastSends(bmac) <=> to # bmac
               /\ sent'[d] = IF f.type = "unicast" THEN sent[d] + 1 ELSE sent[d]
               /\ \A o \in Devices \ {d} : air'[o] = air[o] /\ sent'[o] = sent[o]
<1> DEFINE g == [to |-> to, frame |-> f]
<1>1. g \in Sends /\ (g \in UnicastSends(bmac) <=> to # bmac)
  BY DEF Sends, UnicastSends
<1>2. air' = [air EXCEPT ![d] = Append(air[d], g)]
  BY DEF Send
<1> HIDE DEF g
<1>3. air'[d] = Append(air[d], g) /\ \A o \in Devices \ {d} : air'[o] = air[o]
  BY <1>2, Domains
<1>4. /\ sent'[d] = IF f.type = "unicast" THEN sent[d] + 1 ELSE sent[d]
      /\ \A o \in Devices \ {d} : sent'[o] = sent[o]
  BY Domains DEF Send
<1> QED
  BY <1>1, <1>3, <1>4

LEMMA StartChain ==
    ASSUME CInv, NEW d \in Devices, Start(d) PROVE Chained'
<1>1. /\ task[d] = "starting" /\ task' = [task EXCEPT ![d] = "loop"] /\ Send(d, dest[d], buffer[d])
      /\ UNCHANGED <<bmac, unicast, count, dest, buffer, queue>>
  BY DEF Start, paramVars
<1>2. dest[d] = bmac /\ buffer[d].type = "broadcast" /\ dest[d] \in Addresses /\ buffer[d] \in Frames
  BY <1>1, ChainTyped, Typed DEF FirstFrame, CInv, ParamsTyped
<1>3. PICK g \in Sends :
          /\ air'[d] = Append(air[d], g) /\ g \notin UnicastSends(bmac)
          /\ sent'[d] = sent[d]
          /\ \A o \in Devices \ {d} : air'[o] = air[o] /\ sent'[o] = sent[o]
  BY <1>1, <1>2, SendEffect
<1>4. OthersStay(d)
  BY <1>1, <1>3, Domains DEF OthersStay
<1>5. FirstFrame(d)'
  BY <1>1, Domains DEF FirstFrame
<1>6. ChainOf(d)'
  BY <1>1, <1>3, ChainTyped, ChainSendsOther DEF ChainOf
<1> QED
  BY <1>1, <1>4, <1>5, <1>6, ChainedStep

LEMMA RefusedChain ==
    ASSUME CInv, NEW d \in Devices, Refused(d) PROVE Chained'
BY QuietChain DEF Refused, Deinit, paramVars

LEMMA OffChain ==
    ASSUME CInv, NEW d \in Devices, Off(d) PROVE Chained'
BY QuietChain DEF Off, paramVars

LEMMA ChainEndsChain ==
    ASSUME CInv, NEW d \in Devices, ChainEnds(d) PROVE Chained'
<1>1. queue[d] # <<>> /\ Head(queue[d]) \notin UnicastEvents(bmac)
  BY DEF ChainEnds, Has, Event, IsBroadcast, UnicastEvents
<1> QED
  BY <1>1, QuietChain DEF ChainEnds, paramVars

\* Taking a frame that was heard.
LEMMA HeardIsNoSend ==
    ASSUME NEW d \in Devices, Has(d, "recv")
    PROVE  queue[d] # <<>> /\ Head(queue[d]) \notin UnicastEvents(bmac)
BY DEF Has, UnicastEvents

LEMMA RecvBroadcastChain ==
    ASSUME CInv, NEW d \in Devices, RecvBroadcast(d) PROVE Chained'
BY HeardIsNoSend, QuietChain DEF RecvBroadcast, HearsBroadcast

LEMMA RecvUnicastChain ==
    ASSUME CInv, NEW d \in Devices, RecvUnicast(d) PROVE Chained'
BY HeardIsNoSend, QuietChain DEF RecvUnicast

LEMMA SendNextBroadcastChain ==
    ASSUME CInv, NEW d \in Devices, SendNextBroadcast(d) PROVE Chained'
<1>1. /\ queue[d] # <<>> /\ Event(d) = Head(queue[d]) /\ Event(d) \in Events /\ Event(d).mac = bmac
      /\ Took(d) /\ Prepare(d, bmac) /\ Send(d, bmac, buffer'[d])
      /\ UNCHANGED <<bmac, task, unicast, count, state, magic>>
  BY EventTaken DEF SendNextBroadcast, Has, Event, IsBroadcast, CInv, IInv
<1>2. Head(queue[d]) \notin UnicastEvents(bmac) /\ queue'[d] = Tail(queue[d])
  BY <1>1, Domains DEF UnicastEvents, Took
<1>3. /\ buffer' = [buffer EXCEPT ![d] = Prepared(bmac, state[d], magic[d])]
      /\ dest' = [dest EXCEPT ![d] = bmac]
  BY <1>1 DEF Prepare
<1>4. buffer'[d] \in Frames /\ buffer'[d].type = "broadcast"
  <2>1. state[d] \in {0, 1} /\ magic[d] \in Magics
    BY Typed DEF CInv, ParamsTyped
  <2>2. buffer'[d] = Prepared(bmac, state[d], magic[d])
    BY <1>3, Domains
  <2>3. Prepared(bmac, state[d], magic[d]) \in Frames
    BY <2>1, PreparedOK
  <2> QED
    BY <2>2, <2>3 DEF Prepared, Type, IsBroadcast
<1>5. PICK g \in Sends :
          /\ air'[d] = Append(air[d], g) /\ g \notin UnicastSends(bmac)
          /\ sent'[d] = sent[d]
          /\ \A o \in Devices \ {d} : air'[o] = air[o] /\ sent'[o] = sent[o]
  BY <1>1, <1>4, SendEffect, ChainTyped
<1>6. OthersStay(d)
  BY <1>1, <1>3, <1>5, Domains DEF OthersStay, Took
<1>7. FirstFrame(d)'
  BY <1>1, <1>3, <1>4, Domains DEF FirstFrame
<1>8. Chain(bmac, unicast[d], count[d], sent[d], air[d], queue'[d]) /\ queue'[d] \in Seq(Events)
  BY <1>1, <1>2, ChainTyped, ChainTakesOther, TailSeq
<1>9. ChainOf(d)'
  BY <1>1, <1>5, <1>8, ChainTyped, ChainSendsOther DEF ChainOf
<1> QED
  BY <1>1, <1>6, <1>7, <1>9, ChainedStep

\* The event of a unicast frame that was sent.
LEMMA UnicastSent ==
    ASSUME CInv, NEW d \in Devices, Has(d, "send"), ~IsBroadcast(Event(d).mac)
    PROVE  /\ queue[d] # <<>> /\ Head(queue[d]) \in UnicastEvents(bmac)
           /\ Event(d).mac \in Addresses /\ Event(d).mac # bmac
<1>1. queue[d] # <<>> /\ Event(d) = Head(queue[d]) /\ Event(d) \in Events /\ Event(d).id = "send"
  BY EventTaken DEF Has, Event, CInv, IInv
<1> QED
  BY <1>1, EventFields DEF IsBroadcast, UnicastEvents

LEMMA SendNextUnicastChain ==
    ASSUME CInv, NEW d \in Devices, SendNextUnicast(d) PROVE Chained'
<1> DEFINE to == Event(d).mac
<1>1. /\ queue[d] # <<>> /\ Head(queue[d]) \in UnicastEvents(bmac)
      /\ to \in Addresses /\ to # bmac
  BY UnicastSent DEF SendNextUnicast
<1>2. /\ Took(d) /\ Prepare(d, to) /\ Send(d, to, buffer'[d]) /\ count[d] > 1
      /\ count' = [count EXCEPT ![d] = count[d] - 1]
      /\ UNCHANGED <<bmac, task, unicast, state, magic>>
  BY DEF SendNextUnicast
<1> HIDE DEF to
<1>3. /\ buffer' = [buffer EXCEPT ![d] = Prepared(to, state[d], magic[d])]
      /\ dest' = [dest EXCEPT ![d] = to]
  BY <1>2 DEF Prepare
<1>4. buffer'[d] \in Frames /\ buffer'[d].type = "unicast"
  <2>1. state[d] \in {0, 1} /\ magic[d] \in Magics
    BY Typed DEF CInv, ParamsTyped
  <2>2. buffer'[d] = Prepared(to, state[d], magic[d])
    BY <1>3, Domains
  <2>3. Prepared(to, state[d], magic[d]) \in Frames
    BY <2>1, PreparedOK
  <2> QED
    BY <1>1, <2>2, <2>3 DEF Prepared, Type, IsBroadcast
<1>5. PICK g \in Sends :
          /\ air'[d] = Append(air[d], g) /\ g \in UnicastSends(bmac)
          /\ sent'[d] = sent[d] + 1
          /\ \A o \in Devices \ {d} : air'[o] = air[o] /\ sent'[o] = sent[o]
  BY <1>1, <1>2, <1>4, SendEffect
<1>6. queue'[d] = Tail(queue[d]) /\ count'[d] = count[d] - 1
  BY <1>2, Domains DEF Took
<1>7. OthersStay(d)
  BY <1>2, <1>3, <1>5, Domains DEF OthersStay, Took
<1>8. FirstFrame(d)'
  BY <1>2 DEF FirstFrame, SendNextUnicast, Has
<1>9. Chain(bmac, unicast[d], count[d] - 1, sent[d] + 1, Append(air[d], g), Tail(queue[d]))
  BY <1>1, <1>2, <1>5, ChainTyped, ChainGoesOn
<1>10. ChainOf(d)'
  BY <1>2, <1>5, <1>6, <1>9 DEF ChainOf
<1> QED
  BY <1>2, <1>7, <1>8, <1>10, ChainedStep

LEMMA SendDoneChain ==
    ASSUME CInv, NEW d \in Devices, SendDone(d) PROVE Chained'
<1>1. queue[d] # <<>> /\ Head(queue[d]) \in UnicastEvents(bmac)
  BY UnicastSent DEF SendDone
<1>2. /\ count[d] = 1 /\ count' = [count EXCEPT ![d] = 0]
      /\ task' = [task EXCEPT ![d] = "deinit"] /\ queue' = [queue EXCEPT ![d] = <<>>]
      /\ UNCHANGED <<bmac, unicast, sent, air, dest, buffer>>
  BY DEF SendDone, Deinit
<1>3. OthersStay(d)
  BY <1>2, Domains DEF OthersStay
<1>4. FirstFrame(d)'
  BY <1>2, Domains DEF FirstFrame
<1>5. Chain(bmac, unicast[d], 0, sent[d], air[d], <<>>)
  BY <1>1, <1>2, ChainTyped, ChainGoesOn
<1>6. count'[d] = 0 /\ queue'[d] = <<>>
  BY <1>2, Domains
<1>7. ChainOf(d)'
  BY <1>2, <1>5, <1>6 DEF ChainOf
<1> QED
  BY <1>2, <1>3, <1>4, <1>7, ChainedStep

LEMMA RecvStartsChain ==
    ASSUME CInv, NEW d \in Devices, RecvStarts(d) PROVE Chained'
<1> DEFINE to == Event(d).mac
<1>1. /\ queue[d] # <<>> /\ Head(queue[d]) \notin UnicastEvents(bmac)
  BY HeardIsNoSend DEF RecvStarts, HearsBroadcast
<1>2. to \in Addresses
  BY Heard DEF RecvStarts, CInv, Addresses
<1>3. /\ Took(d) /\ Prepare(d, to) /\ Send(d, to, buffer'[d]) /\ ~unicast[d]
      /\ unicast' = [unicast EXCEPT ![d] = TRUE] /\ state' = [state EXCEPT ![d] = 1]
      /\ UNCHANGED <<bmac, task, magic, count>>
  BY DEF RecvStarts, StartsUnicast
<1> HIDE DEF to
<1>4. /\ buffer' = [buffer EXCEPT ![d] = Prepared(to, state'[d], magic[d])]
      /\ dest' = [dest EXCEPT ![d] = to]
  BY <1>3 DEF Prepare
<1>5. buffer'[d] \in Frames /\ buffer'[d].type = IF to = bmac THEN "broadcast" ELSE "unicast"
  <2>1. state'[d] = 1 /\ magic[d] \in Magics
    BY <1>3, Typed DEF CInv, ParamsTyped
  <2>2. buffer'[d] = Prepared(to, 1, magic[d])
    BY <1>4, <2>1, Domains
  <2>3. Prepared(to, 1, magic[d]) \in Frames
    BY <2>1, PreparedOK
  <2> QED
    BY <2>2, <2>3 DEF Prepared, Type, IsBroadcast
<1>6. PICK g \in Sends :
          /\ air'[d] = Append(air[d], g) /\ (g \in UnicastSends(bmac) <=> to # bmac)
          /\ sent'[d] = IF to = bmac THEN sent[d] ELSE sent[d] + 1
          /\ \A o \in Devices \ {d} : air'[o] = air[o] /\ sent'[o] = sent[o]
  BY <1>2, <1>3, <1>5, SendEffect
<1>7. queue'[d] = Tail(queue[d]) /\ unicast'[d] = TRUE
  BY <1>3, Domains DEF Took
<1>8. OthersStay(d)
  BY <1>3, <1>4, <1>6, Domains DEF OthersStay, Took
<1>9. FirstFrame(d)'
  BY <1>3 DEF FirstFrame, RecvStarts, HearsBroadcast, Has
<1>10. unicast[d] = FALSE
  BY <1>3, ChainTyped
<1>11. Chain(bmac, FALSE, count[d], sent[d], air[d], Tail(queue[d])) /\ Tail(queue[d]) \in Seq(Events)
  BY <1>1, <1>10, ChainTyped, ChainTakesOther, TailSeq
<1>12. Chain(bmac, TRUE, count[d], sent'[d], Append(air[d], g), Tail(queue[d]))
  BY <1>6, <1>11, ChainTyped, ChainBegins
<1>13. ChainOf(d)'
  BY <1>3, <1>6, <1>7, <1>12 DEF ChainOf
<1> QED
  BY <1>3, <1>8, <1>9, <1>13, ChainedStep

\* After a restart nothing of the device is in the air or in its queue.
LEMMA RestartChain ==
    ASSUME CInv, NEW d \in Devices, Restart(d) PROVE Chained'
<1>1. PICK m \in Magics : buffer' = [buffer EXCEPT ![d] = Prepared(bmac, 0, m)]
  BY DEF Restart
<1>2. OthersStay(d) /\ bmac' = bmac
  BY <1>1, Domains DEF OthersStay, Restart
<1>3. FirstFrame(d)'
  BY <1>1, <1>2, Domains DEF FirstFrame, Restart, Prepared, Type, IsBroadcast
<1>4. /\ unicast'[d] = FALSE /\ count'[d] = SendCount /\ sent'[d] = 0
      /\ air'[d] = <<>> /\ queue'[d] = <<>>
  BY Domains DEF Restart
<1>5. Chain(bmac, FALSE, SendCount, 0, <<>>, <<>>)
  BY EmptyMarked, NumbersAssumption DEF Chain, Idle
<1>6. ChainOf(d)'
  BY <1>2, <1>4, <1>5 DEF ChainOf
<1> QED
  BY <1>2, <1>3, <1>6, ChainedStep

LEMMA TransmitChain ==
    ASSUME CInv, NEW d \in Devices, NEW who \in SUBSET (Devices \ {d}), Transmit(d, who)
    PROVE  Chained'
<1> DEFINE f == Head(air[d])
           recv == [id |-> "recv", mac |-> d, frame |-> f.frame]
           send == [id |-> "send", mac |-> f.to]
<1>1. /\ UNCHANGED <<bmac, task, unicast, count, dest, buffer, sent>>
      /\ air[d] # <<>> /\ air' = [air EXCEPT ![d] = Tail(air[d])]
      /\ queue' = [o \in Devices |-> IF o = d THEN Put(queue[o], send)
                                      ELSE IF o \in who THEN Put(queue[o], recv)
                                      ELSE queue[o]]
  BY DEF Transmit, paramVars
<1>2. f \in Sends
  BY <1>1, ChainTyped, TailSeq
<1>3. f.frame \in Frames /\ f.to \in Addresses
  BY <1>2 DEF Sends
<1>4. /\ recv \in Events /\ send \in Events
      /\ recv \notin UnicastEvents(bmac)
      /\ send \in UnicastEvents(bmac) <=> f \in UnicastSends(bmac)
  BY <1>2, <1>3 DEF Events, UnicastEvents, UnicastSends
<1> HIDE DEF f, recv, send
<1> SUFFICES ASSUME NEW o \in Devices PROVE FirstFrame(o)' /\ ChainOf(o)'
  BY DEF Chained
<1>5. FirstFrame(o)'
  BY <1>1, ChainTyped DEF FirstFrame
<1>6. CASE o = d
  <2>1. Chain(bmac, unicast[d], count[d], sent[d], Tail(air[d]), queue[d])
    BY <1>1, <1>4, ChainTyped, ChainTransmits DEF f
  <2>2. Chain(bmac, unicast[d], count[d], sent[d], Tail(air[d]), Append(queue[d], send))
    BY <1>1, <1>4, ChainTyped, ChainTransmits DEF f
  <2>3. air'[d] = Tail(air[d]) /\ queue'[d] \in {queue[d], Append(queue[d], send)}
    BY <1>1, Domains DEF Put
  <2> QED
    BY <1>1, <1>5, <1>6, <2>1, <2>2, <2>3 DEF ChainOf
<1>7. CASE o # d
  <2>1. Chain(bmac, unicast[o], count[o], sent[o], air[o], Append(queue[o], recv))
    BY <1>4, ChainTyped, ChainHearsOther
  <2>2. air'[o] = air[o] /\ queue'[o] \in {queue[o], Append(queue[o], recv)}
    BY <1>1, <1>7, Domains DEF Put
  <2> QED
    BY <1>1, <1>5, <2>1, <2>2, ChainTyped DEF ChainOf
<1> QED
  BY <1>6, <1>7

LEMMA InitChained == Init => Chained
<1> SUFFICES ASSUME Init, NEW d \in Devices PROVE FirstFrame(d) /\ ChainOf(d)
  BY DEF Chained
<1>1. /\ unicast[d] = FALSE /\ count[d] = SendCount /\ sent[d] = 0
      /\ air[d] = <<>> /\ queue[d] = <<>> /\ dest[d] = bmac
      /\ buffer[d] = Prepared(bmac, 0, magic[d])
  BY DEF Init
<1>2. FirstFrame(d)
  BY <1>1 DEF FirstFrame, Prepared, Type, IsBroadcast
<1>3. Chain(bmac, FALSE, SendCount, 0, <<>>, <<>>)
  BY EmptyMarked, NumbersAssumption DEF Chain, Idle
<1> QED
  BY <1>1, <1>2, <1>3 DEF ChainOf

THEOREM ChainInvariance == Spec => []Chained
<1>1. CInv /\ [Next]_vars => Chained'
  <2> SUFFICES ASSUME CInv, [Next]_vars PROVE Chained'
    OBVIOUS
  <2>1. ASSUME NEW d \in Devices, Task(d) PROVE Chained'
    BY <2>1, StartChain, OffChain, ChainEndsChain, SendNextBroadcastChain, SendNextUnicastChain,
       SendDoneChain, RecvBroadcastChain, RecvStartsChain, RecvUnicastChain DEF Task
  <2>2. ASSUME NEW d \in Devices, Refused(d) PROVE Chained'
    BY <2>2, RefusedChain
  <2>3. ASSUME NEW d \in Devices, Restart(d) PROVE Chained'
    BY <2>3, RestartChain
  <2>4. ASSUME NEW d \in Devices, NEW who \in SUBSET (Devices \ {d}), Transmit(d, who) PROVE Chained'
    BY <2>4, TransmitChain
  <2>5. CASE UNCHANGED vars
    BY <2>5 DEF vars, paramVars, CInv, Chained, FirstFrame, ChainOf
  <2> QED
    BY <2>1, <2>2, <2>3, <2>4, <2>5 DEF Next
<1> QED
  BY <1>1, Invariance, InitChained, PTL DEF Spec, CInv

\* A device sends no more unicast frames than it was configured to, and all of them
\* before it gives up its queue, whatever is lost, dropped or restarted
\* (espnow_example_main.c, the branches of example_espnow_task).
THEOREM SendsItsCountHolds == Spec => []SendsItsCount
<1>1. IInv /\ Chained => SendsItsCount
  <2> SUFFICES ASSUME IInv, Chained, NEW d \in Devices
               PROVE  sent[d] <= SendCount /\ (count[d] = 0 => sent[d] = SendCount)
    BY DEF SendsItsCount
  <2>1. Chain(bmac, unicast[d], count[d], sent[d], air[d], queue[d])
    BY DEF Chained, ChainOf
  <2>2. count[d] \in Nat /\ sent[d] \in Nat
    BY NumbersAssumption DEF IInv, TypeOK
  <2> QED
    BY <2>1, <2>2, NumbersAssumption DEF Chain
<1> QED
  BY <1>1, Invariance, ChainInvariance, PTL
-----------------------------------------------------------------------------
(***************************************************************************)
(* What a device has on its way, its frames in the air and the SEND_CB     *)
(* events in its queue: each event is taken before a frame is sent, so     *)
(* only the start and RecvStarts add to it.                                *)
(***************************************************************************)
SendsIn(q) == {k \in DOMAIN q : q[k].id = "send"}
OnWay(a, q) == Len(a) + Cardinality(SendsIn(q))

Light(t, u, a, q) ==
    /\ OnWay(a, q) <= IF u THEN 2 ELSE 1
    /\ t = "starting" => OnWay(a, q) = 0
LightOf(d) == Light(task[d], unicast[d], air[d], queue[d])
AllLight == \A d \in Devices : LightOf(d)

LEMMA SendsFinite ==
    ASSUME NEW q \in Seq(Events)
    PROVE  IsFiniteSet(SendsIn(q)) /\ Cardinality(SendsIn(q)) \in Nat
<1>1. Len(q) \in Nat /\ DOMAIN q = 1..Len(q)
  OBVIOUS
<1>2. IsFiniteSet(1..Len(q)) /\ SendsIn(q) \in SUBSET (1..Len(q))
  BY <1>1, FS_Interval DEF SendsIn
<1>3. IsFiniteSet(SendsIn(q))
  BY <1>2, FS_Subset
<1> QED
  BY <1>3, FS_CardinalityType

\* An event that is put into a queue.
LEMMA SendsAppended ==
    ASSUME NEW q \in Seq(Events), NEW e \in Events
    PROVE  Cardinality(SendsIn(Append(q, e))) =
               IF e.id = "send" THEN Cardinality(SendsIn(q)) + 1 ELSE Cardinality(SendsIn(q))
<1> DEFINE n == Len(q) + 1
           r == Append(q, e)
<1>1. /\ DOMAIN q = 1..Len(q) /\ DOMAIN r = 1..n /\ Len(q) \in Nat
      /\ r[n] = e /\ \A k \in 1..Len(q) : r[k] = q[k]
  OBVIOUS
<1>2. 1..n = (1..Len(q)) \union {n} /\ n \notin 1..Len(q)
  BY <1>1
<1> HIDE DEF n, r
<1>3. e.id = "send" => SendsIn(r) = SendsIn(q) \union {n}
  BY <1>1, <1>2 DEF SendsIn
<1>4. e.id # "send" => SendsIn(r) = SendsIn(q)
  BY <1>1, <1>2 DEF SendsIn
<1>5. n \notin SendsIn(q)
  BY <1>1, <1>2 DEF SendsIn
<1>6. Cardinality(SendsIn(q) \union {n}) = Cardinality(SendsIn(q)) + 1
  BY <1>5, SendsFinite, FS_AddElement
<1> QED
  BY <1>3, <1>4, <1>6 DEF r

\* The event that is taken out of a queue.
LEMMA SendsTaken ==
    ASSUME NEW q \in Seq(Events), q # <<>>
    PROVE  Cardinality(SendsIn(Tail(q))) =
               IF Head(q).id = "send" THEN Cardinality(SendsIn(q)) - 1 ELSE Cardinality(SendsIn(q))
<1> DEFINE r == Tail(q)
           S == SendsIn(r)
           T == SendsIn(q) \ {1}
           next == [k \in S |-> k + 1]
<1>1. /\ Len(q) \in Nat \ {0} /\ DOMAIN q = 1..Len(q) /\ DOMAIN r = 1..(Len(q) - 1)
      /\ \A k \in 1..(Len(q) - 1) : r[k] = q[k + 1]
      /\ Head(q) = q[1] /\ r \in Seq(Events)
  OBVIOUS
<1> HIDE DEF r
<1>2. S \subseteq Nat /\ T \subseteq Int
  BY <1>1 DEF SendsIn
<1>3. \A k \in S : k + 1 \in T
  BY <1>1 DEF SendsIn
<1>4. \A m \in T : m - 1 \in S /\ (m - 1) + 1 = m
  BY <1>1 DEF SendsIn
<1> HIDE DEF S, T
<1>5. next \in [S -> T] /\ \A k \in S : next[k] = k + 1
  BY <1>3
<1> HIDE DEF next
<1>6. \A k, m \in S : next[k] = next[m] => k = m
  BY <1>2, <1>5
<1>7. \A m \in T : \E k \in S : next[k] = m
  BY <1>4, <1>5
<1>8. ExistsBijection(S, T)
  BY <1>5, <1>6, <1>7 DEF ExistsBijection, Bijection, Injection, Surjection, IsInjective
<1>9. IsFiniteSet(S) /\ IsFiniteSet(SendsIn(q))
  BY <1>1, SendsFinite DEF S
<1>10. Cardinality(T) = Cardinality(S)
  BY <1>8, <1>9, FS_Bijection
<1>11. Cardinality(T) = IF 1 \in SendsIn(q) THEN Cardinality(SendsIn(q)) - 1 ELSE Cardinality(SendsIn(q))
  BY <1>9, FS_RemoveElement DEF T
<1>12. 1 \in SendsIn(q) <=> Head(q).id = "send"
  BY <1>1 DEF SendsIn
<1> QED
  BY <1>10, <1>11, <1>12 DEF S, r

LEMMA NoneOnWay == OnWay(<<>>, <<>>) = 0 /\ Cardinality(SendsIn(<<>>)) = 0
<1>1. SendsIn(<<>>) = {} /\ Len(<<>>) = 0
  BY DEF SendsIn
<1> QED
  BY <1>1, FS_EmptySet DEF OnWay

\* What is on its way of a device, before and after what its steps do.
LEMMA OnWayMoves ==
    ASSUME NEW a \in Seq(Sends), NEW q \in Seq(Events)
    PROVE  /\ OnWay(a, q) \in Nat
           /\ OnWay(<<>>, q) <= OnWay(a, q) /\ OnWay(a, <<>>) <= OnWay(a, q)
           /\ OnWay(<<>>, q) \in Nat /\ OnWay(a, <<>>) \in Nat
           /\ \A f \in Sends : OnWay(Append(a, f), q) = OnWay(a, q) + 1
           /\ \A e \in Events : OnWay(a, Append(q, e)) =
                  IF e.id = "send" THEN OnWay(a, q) + 1 ELSE OnWay(a, q)
           /\ a # <<>> => OnWay(Tail(a), q) = OnWay(a, q) - 1
           /\ q # <<>> => OnWay(a, Tail(q)) =
                  IF Head(q).id = "send" THEN OnWay(a, q) - 1 ELSE OnWay(a, q)
<1> DEFINE c == Cardinality(SendsIn(q))
<1>1. Len(a) \in Nat /\ c \in Nat /\ Len(<<>>) = 0 /\ Cardinality(SendsIn(<<>>)) = 0
  BY SendsFinite, NoneOnWay
<1>2. /\ \A f \in Sends : Len(Append(a, f)) = Len(a) + 1
      /\ a # <<>> => Len(Tail(a)) = Len(a) - 1
  OBVIOUS
<1>3. \A e \in Events : Cardinality(SendsIn(Append(q, e))) = IF e.id = "send" THEN c + 1 ELSE c
  BY SendsAppended
<1>4. q # <<>> => Cardinality(SendsIn(Tail(q))) = IF Head(q).id = "send" THEN c - 1 ELSE c
  BY SendsTaken
<1>5. OnWay(a, q) = Len(a) + c /\ OnWay(<<>>, q) = c /\ OnWay(a, <<>>) = Len(a)
  BY <1>1 DEF OnWay
<1>6. \A f \in Sends : OnWay(Append(a, f), q) = OnWay(a, q) + 1
  BY <1>1, <1>2 DEF OnWay
<1>7. \A e \in Events : OnWay(a, Append(q, e)) = IF e.id = "send" THEN OnWay(a, q) + 1 ELSE OnWay(a, q)
  BY <1>1, <1>3 DEF OnWay
<1>8. a # <<>> => OnWay(Tail(a), q) = OnWay(a, q) - 1
  BY <1>1, <1>2 DEF OnWay
<1>9. q # <<>> => OnWay(a, Tail(q)) = IF Head(q).id = "send" THEN OnWay(a, q) - 1 ELSE OnWay(a, q)
  BY <1>1, <1>4 DEF OnWay
<1> HIDE DEF c
<1> QED
  BY <1>1, <1>5, <1>6, <1>7, <1>8, <1>9

LEMMA LightTyped ==
    ASSUME IInv, AllLight, NEW d \in Devices
    PROVE  /\ air[d] \in Seq(Sends) /\ queue[d] \in Seq(Events) /\ OnWay(air[d], queue[d]) \in Nat
           /\ Light(task[d], unicast[d], air[d], queue[d])
           /\ DOMAIN task = Devices /\ DOMAIN unicast = Devices
           /\ DOMAIN air = Devices /\ DOMAIN queue = Devices
<1>1. air[d] \in Seq(Sends) /\ queue[d] \in Seq(Events)
  BY DEF IInv, TypeOK
<1>2. OnWay(air[d], queue[d]) \in Nat
  BY <1>1, OnWayMoves
<1> QED
  BY <1>1, <1>2 DEF AllLight, LightOf, IInv, TypeOK

LEMMA LightStep ==
    ASSUME AllLight, NEW d \in Devices, LightOf(d)',
           \A o \in Devices \ {d} : task'[o] = task[o] /\ unicast'[o] = unicast[o]
                                      /\ air'[o] = air[o] /\ queue'[o] = queue[o]
    PROVE  AllLight'
BY DEF AllLight, LightOf

\* What esp_now_send does to the air.
LEMMA AirAppended ==
    ASSUME IInv, NEW d \in Devices, NEW to \in Addresses, NEW f \in Frames, Send(d, to, f)
    PROVE  \E g \in Sends : air' = [air EXCEPT ![d] = Append(air[d], g)]
<1>1. [to |-> to, frame |-> f] \in Sends
  BY DEF Sends
<1> QED
  BY <1>1 DEF Send

\* A step that takes an event at most, and sends nothing.
LEMMA QuietIsLight ==
    ASSUME IInv, AllLight, NEW d \in Devices, UNCHANGED unicast,
           \/ queue[d] # <<>> /\ Took(d)
           \/ queue' = [queue EXCEPT ![d] = <<>>]
           \/ UNCHANGED queue,
           air' = air \/ air' = [air EXCEPT ![d] = <<>>],
           task' = task \/ task' = [task EXCEPT ![d] = "deinit"] \/ task' = [task EXCEPT ![d] = "off"]
    PROVE  AllLight'
<1> USE LightTyped
<1>1. queue'[d] \in Seq(Events) /\ OnWay(air[d], queue'[d]) <= OnWay(air[d], queue[d])
      /\ OnWay(air[d], queue'[d]) \in Nat
  <2>1. CASE queue[d] # <<>> /\ Took(d)
    <3>1. queue'[d] = Tail(queue[d]) /\ Tail(queue[d]) \in Seq(Events)
      BY <2>1, TailSeq DEF Took
    <3>2. OnWay(air[d], Tail(queue[d])) \in Nat
      BY <3>1, OnWayMoves
    <3>3. OnWay(air[d], Tail(queue[d])) <= OnWay(air[d], queue[d])
      BY <2>1, OnWayMoves
    <3> QED
      BY <3>1, <3>2, <3>3
  <2>2. CASE queue' = [queue EXCEPT ![d] = <<>>]
    BY <2>2, OnWayMoves, EmptySeq
  <2>3. CASE UNCHANGED queue
    BY <2>3
  <2> QED
    BY <2>1, <2>2, <2>3
<1>2. OnWay(air'[d], queue'[d]) <= OnWay(air[d], queue'[d]) /\ OnWay(air'[d], queue'[d]) \in Nat
  <2>1. CASE air' = air
    BY <1>1, <2>1
  <2>2. CASE air' = [air EXCEPT ![d] = <<>>]
    BY <1>1, <2>2, OnWayMoves
  <2> QED
    BY <2>1, <2>2
<1>3. task'[d] = "starting" => task[d] = "starting"
  OBVIOUS
<1>4. LightOf(d)'
  <2>1. OnWay(air'[d], queue'[d]) <= OnWay(air[d], queue[d])
    BY <1>1, <1>2
  <2> QED
    BY <2>1, <1>2, <1>3 DEF Light, LightOf
<1> QED
  BY <1>4, LightStep DEF Took

\* A SEND_CB event is taken and a frame is sent.
LEMMA NextIsLight ==
    ASSUME IInv, AllLight, NEW d \in Devices, SendNextBroadcast(d) \/ SendNextUnicast(d)
    PROVE  AllLight'
<1> DEFINE to == Event(d).mac
<1>1. /\ Has(d, "send") /\ Took(d) /\ Prepare(d, to) /\ Send(d, to, buffer'[d])
      /\ UNCHANGED <<task, unicast>> /\ task[d] = "loop"
  BY DEF SendNextBroadcast, SendNextUnicast, Has
<1>2. queue[d] # <<>> /\ Head(queue[d]).id = "send" /\ to \in Addresses
  BY <1>1, EventTaken, EventFields DEF Has, IInv
<1>3. buffer'[d] \in Frames
  <2>1. IInv'
    BY SendNextBroadcastStep, SendNextUnicastStep
  <2> QED
    BY <2>1 DEF IInv, TypeOK
<1> HIDE DEF to
<1>4. PICK g \in Sends : air' = [air EXCEPT ![d] = Append(air[d], g)]
  BY <1>1, <1>2, <1>3, AirAppended
<1>5. air'[d] = Append(air[d], g) /\ queue'[d] = Tail(queue[d])
  BY <1>1, <1>4, LightTyped DEF Took
<1>6. OnWay(air[d], Tail(queue[d])) = OnWay(air[d], queue[d]) - 1 /\ Tail(queue[d]) \in Seq(Events)
  BY <1>2, LightTyped, OnWayMoves, TailSeq
<1>7. OnWay(air'[d], queue'[d]) = OnWay(air[d], Tail(queue[d])) + 1
  BY <1>5, <1>6, LightTyped, OnWayMoves
<1>8. OnWay(air'[d], queue'[d]) = OnWay(air[d], queue[d])
  BY <1>6, <1>7, LightTyped
<1>9. LightOf(d)'
  BY <1>1, <1>8, LightTyped DEF LightOf, Light
<1> QED
  BY <1>1, <1>4, <1>9, LightTyped, LightStep DEF Took

LEMMA StartIsLight ==
    ASSUME IInv, AllLight, NEW d \in Devices, Start(d)
    PROVE  AllLight'
<1>1. /\ task[d] = "starting" /\ task' = [task EXCEPT ![d] = "loop"]
      /\ Send(d, dest[d], buffer[d]) /\ UNCHANGED <<unicast, queue>>
  BY DEF Start, paramVars
<1>2. dest[d] \in Addresses /\ buffer[d] \in Frames
  BY DEF IInv, TypeOK
<1>3. PICK g \in Sends : air' = [air EXCEPT ![d] = Append(air[d], g)]
  BY <1>1, <1>2, AirAppended
<1>4. OnWay(air[d], queue[d]) = 0
  BY <1>1, LightTyped DEF Light
<1>5. OnWay(Append(air[d], g), queue[d]) = OnWay(air[d], queue[d]) + 1
  BY LightTyped, OnWayMoves
<1>6. task'[d] = "loop" /\ air'[d] = Append(air[d], g) /\ queue'[d] = queue[d]
  BY <1>1, <1>3, LightTyped
<1>7. LightOf(d)'
  BY <1>4, <1>5, <1>6 DEF LightOf, Light
<1> QED
  BY <1>1, <1>3, <1>7, LightTyped, LightStep

LEMMA StartsUnicastIsLight ==
    ASSUME IInv, AllLight, NEW d \in Devices, RecvStarts(d)
    PROVE  AllLight'
<1> DEFINE to == Event(d).mac
<1>1. /\ Has(d, "recv") /\ Took(d) /\ Send(d, to, buffer'[d]) /\ ~unicast[d]
      /\ unicast' = [unicast EXCEPT ![d] = TRUE] /\ UNCHANGED task /\ task[d] = "loop"
  BY DEF RecvStarts, HearsBroadcast, StartsUnicast, Has
<1>2. queue[d] # <<>> /\ Head(queue[d]).id = "recv" /\ to \in Addresses
  BY <1>1, EventTaken, EventFields DEF Has, IInv
<1>3. buffer'[d] \in Frames
  <2>1. IInv'
    BY RecvStartsStep
  <2> QED
    BY <2>1 DEF IInv, TypeOK
<1> HIDE DEF to
<1>4. PICK g \in Sends : air' = [air EXCEPT ![d] = Append(air[d], g)]
  BY <1>1, <1>2, <1>3, AirAppended
<1>5. air'[d] = Append(air[d], g) /\ queue'[d] = Tail(queue[d]) /\ unicast'[d] = TRUE
  BY <1>1, <1>4, LightTyped DEF Took
<1>6. OnWay(air[d], Tail(queue[d])) = OnWay(air[d], queue[d]) /\ Tail(queue[d]) \in Seq(Events)
  BY <1>2, LightTyped, OnWayMoves, TailSeq
<1>7. OnWay(air'[d], queue'[d]) = OnWay(air[d], Tail(queue[d])) + 1
  <2>1. air[d] \in Seq(Sends)
    BY LightTyped
  <2>2. OnWay(Append(air[d], g), Tail(queue[d])) = OnWay(air[d], Tail(queue[d])) + 1
    BY ONLY <2>1, <1>6, g \in Sends, OnWayMoves
  <2> QED
    BY ONLY <2>2, <1>5
<1>8. OnWay(air[d], queue[d]) <= 1
  BY <1>1, LightTyped DEF Light
<1>9. OnWay(air'[d], queue'[d]) <= 2
  BY <1>6, <1>7, <1>8, LightTyped
<1>10. LightOf(d)'
  BY <1>1, <1>5, <1>9 DEF LightOf, Light
<1> QED
  BY <1>1, <1>4, <1>10, LightTyped, LightStep DEF Took

LEMMA RestartIsLight ==
    ASSUME IInv, AllLight, NEW d \in Devices, Restart(d)
    PROVE  AllLight'
<1>1. /\ task' = [task EXCEPT ![d] = "starting"] /\ unicast' = [unicast EXCEPT ![d] = FALSE]
      /\ air' = [air EXCEPT ![d] = <<>>] /\ queue' = [queue EXCEPT ![d] = <<>>]
  BY DEF Restart
<1>2. LightOf(d)'
  BY <1>1, LightTyped, NoneOnWay DEF LightOf, Light
<1> QED
  BY <1>1, <1>2, LightTyped, LightStep

\* A frame leaves the air and its callback comes, or is dropped; who hears it gets
\* an event that is no callback.
LEMMA TransmitIsLight ==
    ASSUME IInv, AllLight, NEW d \in Devices, NEW who \in SUBSET (Devices \ {d}), Transmit(d, who)
    PROVE  AllLight'
<1> DEFINE f == Head(air[d])
           recv == [id |-> "recv", mac |-> d, frame |-> f.frame]
           send == [id |-> "send", mac |-> f.to]
<1>1. /\ UNCHANGED <<task, unicast>>
      /\ air[d] # <<>> /\ air' = [air EXCEPT ![d] = Tail(air[d])]
      /\ queue' = [o \in Devices |-> IF o = d THEN Put(queue[o], send)
                                      ELSE IF o \in who THEN Put(queue[o], recv)
                                      ELSE queue[o]]
  BY DEF Transmit, paramVars
<1>2. f \in Sends /\ Tail(air[d]) \in Seq(Sends)
  BY <1>1, LightTyped, TailSeq
<1>3. recv \in Events /\ send \in Events /\ recv.id = "recv" /\ send.id = "send"
  BY <1>2 DEF Events, Sends
<1> HIDE DEF f, recv, send
<1> SUFFICES ASSUME NEW o \in Devices PROVE LightOf(o)'
  BY DEF AllLight
<1>4. OnWay(air'[o], queue'[o]) <= OnWay(air[o], queue[o]) /\ OnWay(air'[o], queue'[o]) \in Nat
  <2>1. CASE o = d
    <3>1. air'[d] = Tail(air[d]) /\ queue'[d] = Put(queue[d], send)
      BY <1>1, LightTyped
    <3>2. OnWay(Tail(air[d]), queue[d]) = OnWay(air[d], queue[d]) - 1
      BY <1>1, LightTyped, OnWayMoves
    <3>3. OnWay(Tail(air[d]), Append(queue[d], send)) = OnWay(Tail(air[d]), queue[d]) + 1
      BY <1>2, <1>3, LightTyped, OnWayMoves
    <3>4. OnWay(Tail(air[d]), queue[d]) \in Nat /\ OnWay(air[d], queue[d]) \in Nat
      BY <1>2, LightTyped, OnWayMoves
    <3>5. CASE Put(queue[d], send) = queue[d]
      <4>1. air'[o] = Tail(air[d]) /\ queue'[o] = queue[d] /\ air[o] = air[d] /\ queue[o] = queue[d]
        BY ONLY <2>1, <3>1, <3>5
      <4> QED
        BY ONLY <4>1, <3>2, <3>4
    <3>6. CASE Put(queue[d], send) = Append(queue[d], send)
      <4>1. air'[o] = Tail(air[d]) /\ queue'[o] = Append(queue[d], send)
            /\ air[o] = air[d] /\ queue[o] = queue[d]
        BY ONLY <2>1, <3>1, <3>6
      <4> QED
        BY ONLY <4>1, <3>2, <3>3, <3>4
    <3>7. Put(queue[d], send) \in {queue[d], Append(queue[d], send)}
      BY DEF Put
    <3> QED
      BY ONLY <3>5, <3>6, <3>7
  <2>2. CASE o # d
    <3>1. air'[o] = air[o] /\ queue'[o] = (IF o \in who THEN Put(queue[o], recv) ELSE queue[o])
      BY <1>1, <2>2, LightTyped
    <3>2. queue'[o] \in {queue[o], Append(queue[o], recv)}
      BY ONLY <3>1 DEF Put
    <3>3. OnWay(air[o], Append(queue[o], recv)) = OnWay(air[o], queue[o])
      BY <1>3, LightTyped, OnWayMoves
    <3>4. OnWay(air[o], queue[o]) \in Nat
      BY LightTyped
    <3>5. CASE queue'[o] = queue[o]
      BY ONLY <3>1, <3>4, <3>5
    <3>6. CASE queue'[o] = Append(queue[o], recv)
      <4>1. OnWay(air'[o], queue'[o]) = OnWay(air[o], Append(queue[o], recv))
        BY ONLY <3>1, <3>6
      <4> QED
        BY ONLY <4>1, <3>3, <3>4
    <3> QED
      BY ONLY <3>2, <3>5, <3>6
  <2> QED
    BY <2>1, <2>2
<1>5. Light(task[o], unicast[o], air[o], queue[o]) /\ OnWay(air[o], queue[o]) \in Nat
  BY LightTyped
<1> QED
  BY <1>1, <1>4, <1>5 DEF LightOf, Light

\* A task answers each callback with one frame at most: beside the unicast chain
\* only the last broadcast is on its way, and a queue with room for two callbacks
\* drops none of its own (espnow_example_main.c:205).
THEOREM TwoChainsHolds == Spec => []TwoChains
<1>1. Init => AllLight
  <2> SUFFICES ASSUME Init, NEW d \in Devices PROVE LightOf(d)
    BY DEF AllLight
  <2>1. air[d] = <<>> /\ queue[d] = <<>>
    BY DEF Init
  <2> QED
    BY <2>1, NoneOnWay DEF LightOf, Light
<1>2. IInv /\ AllLight /\ [Next]_vars => AllLight'
  <2> SUFFICES ASSUME IInv, AllLight, [Next]_vars PROVE AllLight'
    OBVIOUS
  <2>1. ASSUME NEW d \in Devices,
               \/ ChainEnds(d) \/ RecvBroadcast(d) \/ RecvUnicast(d)
               \/ Off(d) \/ SendDone(d) \/ Refused(d)
        PROVE  AllLight'
    <3>1. CASE ChainEnds(d) \/ RecvBroadcast(d) \/ RecvUnicast(d)
      BY <3>1, QuietIsLight DEF ChainEnds, RecvBroadcast, RecvUnicast, HearsBroadcast, Has, paramVars
    <3>2. CASE Off(d) \/ SendDone(d) \/ Refused(d)
      BY <3>2, QuietIsLight DEF Off, SendDone, Refused, Deinit, paramVars
    <3> QED
      BY <2>1, <3>1, <3>2
  <2>2. ASSUME NEW d \in Devices, SendNextBroadcast(d) \/ SendNextUnicast(d) PROVE AllLight'
    BY <2>2, NextIsLight
  <2>3. ASSUME NEW d \in Devices, Start(d) \/ RecvStarts(d) \/ Restart(d) PROVE AllLight'
    BY <2>3, StartIsLight, StartsUnicastIsLight, RestartIsLight
  <2>4. ASSUME NEW d \in Devices, NEW who \in SUBSET (Devices \ {d}), Transmit(d, who) PROVE AllLight'
    BY <2>4, TransmitIsLight
  <2>5. CASE UNCHANGED vars
    BY <2>5 DEF vars, paramVars, AllLight, LightOf
  <2> QED
    BY <2>1, <2>2, <2>3, <2>4, <2>5 DEF Next, Task
<1>3. IInv /\ AllLight => TwoChains
  <2> SUFFICES ASSUME IInv, AllLight, NEW d \in Devices
               PROVE  Len(air[d]) + Cardinality(SendEvents(d)) <= 2
    BY DEF TwoChains
  <2>1. OnWay(air[d], queue[d]) \in Nat /\ OnWay(air[d], queue[d]) <= IF unicast[d] THEN 2 ELSE 1
    BY LightTyped DEF Light
  <2>2. OnWay(air[d], queue[d]) <= 2
    BY <2>1
  <2> QED
    BY <2>2 DEF OnWay, SendEvents, SendsIn
<1> QED
  BY <1>1, <1>2, <1>3, Invariance, PTL DEF Spec
=============================================================================
