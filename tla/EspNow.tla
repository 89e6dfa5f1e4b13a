------------------------------- MODULE EspNow -------------------------------
(***************************************************************************)
(* Devices that run espnow/espnow_example_main.c: each broadcasts until it *)
(* knows that the other has heard it; then the one with the bigger magic   *)
(* number sends its count of unicast frames and the other stops.           *)
(*                                                                         *)
(* On each device the WiFi task runs two callbacks that put events into a  *)
(* queue, and example_espnow_task takes them out.  Sending is a chain:     *)
(* each SEND_CB event makes the task send the next frame.                  *)
(*                                                                         *)
(* The radio loses frames; the sender's callback comes all the same.  A    *)
(* device restarts at any time.  bmac is s_example_broadcast_mac, which    *)
(* the code compares with and sends to whoever it belongs to: everybody,   *)
(* one of the devices or none.  A frame's payload and number are left out, *)
(* and so is memory that malloc does not give.                             *)
(*                                                                         *)
(* Operators marked "fault" are slips a later change could make; nothing   *)
(* uses them but the runs that show each property would notice.            *)
(***************************************************************************)
EXTENDS Integers, Sequences, FiniteSets

CONSTANTS Devices,
          All, Nobody,    \* addresses that are not a device's
          Magics,         \* what esp_random gives
          SendCount,      \* CONFIG_ESPNOW_SEND_COUNT
          QueueSize,      \* ESPNOW_QUEUE_SIZE
          MaxRestarts     \* bound: how often devices restart

ASSUME NumbersAssumption ==
    /\ Magics \subseteq Nat
    /\ SendCount \in Nat \ {0} /\ QueueSize \in Nat \ {0} /\ MaxRestarts \in Nat

ASSUME AddressesAssumption == All \notin Devices /\ Nobody \notin Devices /\ All # Nobody

VARIABLES
    bmac,
    task,      \* where example_espnow_task is
    unicast, broadcast, state, magic, count, dest,  \* *send_param
    buffer,    \* send_param->buffer: type, state and magic of the frame
    queue,     \* s_example_espnow_queue
    air,       \* frames given to esp_now_send, before their callback
    sent,      \* history: unicast frames given to esp_now_send
    restarts,
    dropped,   \* history: an event was dropped or a send was refused
    senderLost \* history: a device restarted that had begun to send unicast frames

paramVars == <<unicast, broadcast, state, magic, count, dest, buffer>>
history == <<dropped, senderLost>>
vars == <<bmac, task, paramVars, queue, air, sent, restarts, history>>

Addresses == Devices \union {All, Nobody}
IsBroadcast(a) == a = bmac
Hears(d, a) == a \in {d, All}

Frames == [type : {"broadcast", "unicast"}, state : {0, 1}, magic : Magics]
Type(to) == IF IsBroadcast(to) THEN "broadcast" ELSE "unicast"
Prepared(to, s, m) == [type |-> Type(to), state |-> s, magic |-> m]

Init ==
    /\ bmac \in Addresses
    /\ task = [d \in Devices |-> "starting"]
    /\ unicast = [d \in Devices |-> FALSE]
    /\ broadcast = [d \in Devices |-> TRUE]
    /\ state = [d \in Devices |-> 0]
    /\ magic \in [Devices -> Magics]
    /\ count = [d \in Devices |-> SendCount]
    /\ dest = [d \in Devices |-> bmac]
    /\ buffer = [d \in Devices |-> Prepared(bmac, 0, magic[d])]
    /\ queue = [d \in Devices |-> <<>>]
    /\ air = [d \in Devices |-> <<>>]
    /\ sent = [d \in Devices |-> 0]
    /\ restarts = 0
    /\ dropped = FALSE /\ senderLost = FALSE

\* esp_now_send of a prepared frame.
Send(d, to, frame) ==
    /\ air' = [air EXCEPT ![d] = Append(@, [to |-> to, frame |-> frame])]
    /\ sent' = [sent EXCEPT ![d] = IF frame.type = "unicast" THEN @ + 1 ELSE @]

Prepare(d, to) ==
    /\ dest' = [dest EXCEPT ![d] = to]
    /\ buffer' = [buffer EXCEPT ![d] = Prepared(to, state'[d], magic[d])]

\* free, vQueueDelete and NULL: until esp_now_deinit the callbacks still come.
Deinit(d) ==
    /\ task' = [task EXCEPT ![d] = "deinit"]
    /\ queue' = [queue EXCEPT ![d] = <<>>]

Off(d) ==
    /\ task[d] = "deinit"
    /\ task' = [task EXCEPT ![d] = "off"]
    /\ air' = [air EXCEPT ![d] = <<>>]
    /\ UNCHANGED <<bmac, paramVars, queue, sent, restarts, history>>

\* The first frame, five seconds after the start.
Start(d) ==
    /\ task[d] = "starting"
    /\ task' = [task EXCEPT ![d] = "loop"]
    /\ Send(d, dest[d], buffer[d])
    /\ UNCHANGED <<bmac, paramVars, queue, restarts, history>>

\* esp_now_send is refused: the task gives up.
Refused(d) ==
    /\ task[d] \in {"starting", "loop"} /\ ~dropped
    /\ dropped' = TRUE
    /\ Deinit(d)
    /\ UNCHANGED <<bmac, paramVars, air, sent, restarts, senderLost>>

Has(d, id) == task[d] = "loop" /\ queue[d] # <<>> /\ Head(queue[d]).id = id
Event(d) == Head(queue[d])
Took(d) == queue' = [queue EXCEPT ![d] = Tail(@)]

\* SEND_CB of a broadcast frame after the device stopped broadcasting.
ChainEnds(d) ==
    /\ Has(d, "send") /\ IsBroadcast(Event(d).mac) /\ ~broadcast[d]
    /\ Took(d)
    /\ UNCHANGED <<bmac, task, paramVars, air, sent, restarts, history>>

SendNextBroadcast(d) ==
    /\ Has(d, "send") /\ IsBroadcast(Event(d).mac) /\ broadcast[d]
    /\ Took(d)
    /\ UNCHANGED state
    /\ Prepare(d, Event(d).mac)
    /\ Send(d, Event(d).mac, buffer'[d])
    /\ UNCHANGED <<bmac, task, unicast, broadcast, magic, count, restarts, history>>

\* SEND_CB of a unicast frame.
SendNextUnicast(d) ==
    /\ Has(d, "send") /\ ~IsBroadcast(Event(d).mac) /\ count[d] > 1
    /\ Took(d)
    /\ count' = [count EXCEPT ![d] = @ - 1]
    /\ UNCHANGED state
    /\ Prepare(d, Event(d).mac)
    /\ Send(d, Event(d).mac, buffer'[d])
    /\ UNCHANGED <<bmac, task, unicast, broadcast, magic, restarts, history>>

SendDone(d) ==
    /\ Has(d, "send") /\ ~IsBroadcast(Event(d).mac) /\ count[d] = 1
    /\ count' = [count EXCEPT ![d] = 0]
    /\ Deinit(d)
    /\ UNCHANGED <<bmac, unicast, broadcast, state, magic, dest, buffer, air, sent, restarts, history>>

HearsBroadcast(d) == Has(d, "recv") /\ Event(d).frame.type = "broadcast"

StartsAnyway(d) ==  \* fault: the magic numbers are not compared
    Event(d).frame.state = 1 /\ ~unicast[d]

StartsUnheard(d) ==  \* fault: starts before the other device has heard it
    ~unicast[d] /\ magic[d] >= Event(d).frame.magic

StartsAgain(d) ==  \* fault: at every broadcast that it hears
    Event(d).frame.state = 1 /\ magic[d] >= Event(d).frame.magic

\* The other device has heard this one, which has the bigger magic number.
StartsUnicast(d) ==
    Event(d).frame.state = 1 /\ ~unicast[d] /\ magic[d] >= Event(d).frame.magic

StopsWhenHeard(d) ==  \* fault: who has heard a broadcast stops broadcasting
    /\ HearsBroadcast(d) /\ ~StartsUnicast(d)
    /\ Took(d)
    /\ state' = [state EXCEPT ![d] = 1]
    /\ broadcast' = [broadcast EXCEPT ![d] = FALSE]
    /\ UNCHANGED <<bmac, task, unicast, magic, count, dest, buffer, air, sent, restarts, history>>

RecvBroadcast(d) ==
    /\ HearsBroadcast(d) /\ ~StartsUnicast(d)
    /\ Took(d)
    /\ state' = [state EXCEPT ![d] = 1]
    /\ UNCHANGED <<bmac, task, unicast, broadcast, magic, count, dest, buffer, air, sent, restarts, history>>

RecvStarts(d) ==
    /\ HearsBroadcast(d) /\ StartsUnicast(d)
    /\ Took(d)
    /\ state' = [state EXCEPT ![d] = 1]
    /\ Prepare(d, Event(d).mac)
    /\ Send(d, Event(d).mac, buffer'[d])
    /\ broadcast' = [broadcast EXCEPT ![d] = FALSE]
    /\ unicast' = [unicast EXCEPT ![d] = TRUE]
    /\ UNCHANGED <<bmac, task, magic, count, restarts, history>>

RecvUnicast(d) ==
    /\ Has(d, "recv") /\ Event(d).frame.type = "unicast"
    /\ Took(d)
    /\ broadcast' = [broadcast EXCEPT ![d] = FALSE]
    /\ UNCHANGED <<bmac, task, unicast, state, magic, count, dest, buffer, air, sent, restarts, history>>

Task(d) ==
    \/ Start(d) \/ Off(d)
    \/ ChainEnds(d) \/ SendNextBroadcast(d) \/ SendNextUnicast(d) \/ SendDone(d)
    \/ RecvBroadcast(d) \/ RecvStarts(d) \/ RecvUnicast(d)

\* The callbacks run while the task has a queue; an event is dropped when the
\* queue stays full for ESPNOW_MAXDELAY.
Listening(d) == task[d] \in {"starting", "loop"}
RoomFor(ds) == \A d \in ds : Len(queue[d]) < QueueSize
PutAlways(q, e) == Append(q, e)  \* fault: the queue has no end
Put(q, e) == IF Len(q) < QueueSize THEN Append(q, e) ELSE q

\* The frame at the head of a device's air reaches who (or nobody), and the
\* sender's callback comes.
Transmit(d, who) ==
    /\ air[d] # <<>> /\ Listening(d)
    /\ LET f == Head(air[d])
           recv == [id |-> "recv", mac |-> d, frame |-> f.frame]
           send == [id |-> "send", mac |-> f.to]
       IN /\ \A o \in who : Hears(o, f.to) /\ Listening(o)
          /\ queue' = [o \in Devices |-> IF o = d THEN Put(queue[o], send)
                                         ELSE IF o \in who THEN Put(queue[o], recv)
                                         ELSE queue[o]]
    /\ air' = [air EXCEPT ![d] = Tail(@)]
    /\ dropped' = (dropped \/ ~RoomFor(who \union {d}))
    /\ UNCHANGED <<bmac, task, paramVars, sent, restarts, senderLost>>

\* The power fails; or a callback finds the queue deleted, and xQueueSend stops
\* the program.
Restart(d) ==
    /\ restarts < MaxRestarts /\ restarts' = restarts + 1
    /\ task' = [task EXCEPT ![d] = "starting"]
    /\ unicast' = [unicast EXCEPT ![d] = FALSE]
    /\ broadcast' = [broadcast EXCEPT ![d] = TRUE]
    /\ state' = [state EXCEPT ![d] = 0]
    /\ \E m \in Magics :
          /\ magic' = [magic EXCEPT ![d] = m]
          /\ buffer' = [buffer EXCEPT ![d] = Prepared(bmac, 0, m)]
    /\ count' = [count EXCEPT ![d] = SendCount]
    /\ dest' = [dest EXCEPT ![d] = bmac]
    /\ queue' = [queue EXCEPT ![d] = <<>>]
    /\ air' = [air EXCEPT ![d] = <<>>]
    /\ sent' = [sent EXCEPT ![d] = 0]
    /\ senderLost' = (senderLost \/ unicast[d])
    /\ UNCHANGED <<bmac, dropped>>

Next == \E d \in Devices :
    \/ Task(d) \/ Refused(d) \/ Restart(d)
    \/ \E who \in SUBSET (Devices \ {d}) : Transmit(d, who)

Spec == Init /\ [][Next]_vars

\* Tasks and radios run; a frame that is sent again and again is heard by all who
\* can hear it now and then.
FairSpec ==
    /\ Spec
    /\ \A d \in Devices :
          /\ WF_vars(Task(d))
          /\ WF_vars(\E who \in SUBSET (Devices \ {d}) : Transmit(d, who))
          /\ SF_vars(Transmit(d, Devices \ {d}))
-----------------------------------------------------------------------------
(***************************************************************************)
(* Properties.                                                             *)
(***************************************************************************)

Sends == [to : Addresses, frame : Frames]
Events == [id : {"recv"}, mac : Devices, frame : Frames]
              \union [id : {"send"}, mac : Addresses]

TypeOK ==
    /\ bmac \in Addresses
    /\ task \in [Devices -> {"starting", "loop", "deinit", "off"}]
    /\ unicast \in [Devices -> BOOLEAN] /\ broadcast \in [Devices -> BOOLEAN]
    /\ state \in [Devices -> {0, 1}]
    /\ magic \in [Devices -> Magics]
    /\ count \in [Devices -> 0..SendCount]
    /\ dest \in [Devices -> Addresses]
    /\ buffer \in [Devices -> Frames]
    /\ queue \in [Devices -> Seq(Events)] /\ \A d \in Devices : Len(queue[d]) <= QueueSize
    /\ air \in [Devices -> Seq(Sends)]
    /\ sent \in [Devices -> Nat]
    /\ restarts \in 0..MaxRestarts
    /\ dropped \in BOOLEAN /\ senderLost \in BOOLEAN

\* Of two devices that have not restarted only one becomes the sender, unless
\* their magic numbers are the same.
OneSender ==
    restarts = 0 => \A d, o \in Devices :
        unicast[d] /\ unicast[o] /\ d # o => magic[d] = magic[o]

\* Who sends unicast frames was heard before: the receiver knows it as a peer.
SenderWasHeard ==
    restarts = 0 => \A d \in Devices : unicast[d] => \E o \in Devices \ {d} : state[o] = 1

\* However the two chains of a device overlap, it sends no more unicast frames
\* than it was configured to, and all of them before it gives up its queue.
SendsItsCount ==
    \A d \in Devices : sent[d] <= SendCount /\ (count[d] = 0 => sent[d] = SendCount)

\* The task answers each callback with one frame at most: beside the unicast chain
\* only the last broadcast is on its way, and the queue has room for both.
SendEvents(d) == {k \in DOMAIN queue[d] : queue[d][k].id = "send"}
TwoChains == \A d \in Devices : Len(air[d]) + Cardinality(SendEvents(d)) <= 2

\* With the broadcast address for all, and while nothing is dropped, one device
\* becomes the sender and finishes, also when a device restarts that had not begun
\* to send: the other goes on broadcasting.  (After a restart of the sender nothing
\* makes the receiver, which has stopped, broadcast again.)
SenderFinishes ==
    bmac = All ~> (dropped \/ senderLost \/ \E d \in Devices : count[d] = 0)

=============================================================================
