----------------------------- MODULE DeviceLink -----------------------------
(***************************************************************************)
(* The TCP connection of a device that runs esp-idf/tcp_client_v4.c (or    *)
(* tcp_client.c, which only differs in what it does when it cannot         *)
(* connect) with the server, byte by byte.                                 *)
(*                                                                         *)
(* On the stream "up" the device's main task sends its name and then its   *)
(* values, and read_sock_task answers SEND_STATUS; the server's            *)
(* listen_thread reads.  On "down" the server's timer_thread sends         *)
(* SEND_STATUS and the listen_threads of other clients what is for the     *)
(* device; read_sock_task reads.  No lock orders the sends on a stream.    *)
(*                                                                         *)
(* What the server does with its table of clients is in ThreadServer; here *)
(* it is the other end of one connection, until it closes it.  A socket's  *)
(* buffer is unbounded, and a text is the number of its frame, repeated.   *)
(*                                                                         *)
(* Operators marked "fault" are slips a later change could make; nothing   *)
(* uses them but the runs that show each property would notice.            *)
(***************************************************************************)
EXTENDS Integers, Sequences, SequencesExt

CONSTANTS Forwarders,     \* listen_threads that send to the device
          PreambleLength, \* 8: pre_preamble
          Base,           \* 16: a length is sent as two numbers below it
          NameLength,     \* strlen(client_name), of "testing IOT" too
          TimerLength,    \* strlen of timer_thread's text
          ForwardLengths, \* lengths of what others send to the device
          MaxFrames       \* bound: how often main and timer, and the others, send

ASSUME FramingAssumption ==
    /\ PreambleLength \in Nat \ {0} /\ Base \in Nat \ {0, 1}
    /\ NameLength \in 0..(Base * Base - 1) /\ TimerLength \in 0..(Base * Base - 1)
    /\ ForwardLengths \subseteq 0..(Base * Base - 1)
    /\ MaxFrames \in [{"main", "timer", "others"} -> Nat]
    /\ Forwarders \intersect {"main", "reader", "timer"} = {}

VARIABLES
    link,    \* "connecting", "up", "failed" or "closed" (by the server)
    stream,  \* bytes sent and not yet read, of each direction
    rest,    \* the calls of send that are left of a thread's frame
    pc,      \* where the reader of a stream is in get_msg and after it
    want,    \* how many bytes it reads next
    answer,  \* read_sock_task has to answer SEND_STATUS
    frames,  \* how many frames a thread has sent or begun to send
    begun,   \* history: the frames whose sending has begun, of each direction
    got,     \* history: the frames that were read
    torn     \* history: the sends of two threads have overlapped

vars == <<link, stream, rest, pc, want, answer, frames, begun, got, torn>>

Streams == {"up", "down"}
DeviceTasks == {"main", "reader"}
ServerThreads == {"timer"} \union Forwarders
Senders(s) == IF s = "up" THEN DeviceTasks ELSE ServerThreads
StreamOf(t) == IF t \in DeviceTasks THEN "up" ELSE "down"

\* The commands by number; Other is any that the device does nothing with.
SEND_STATUS == 58
UPDATE_STATUS == 62
SET_CLIENT_NAME == 72
SEND_IOT_VALUES == 73
Other == 1

Byte(k, v) == [is |-> k, value |-> v]
Preamble == [i \in 1..PreambleLength |-> Byte("preamble", i)]
Low(n) == n % Base
High(n) == (n \div Base) % Base
LengthByBytes(lo, hi) == hi * Base * Base + lo  \* fault: as in get_msgb
LengthOf(lo, hi) == hi * Base + lo
SwappedBytes(n) == <<Byte("nibble", High(n)), Byte("nibble", Low(n))>>  \* fault
LengthBytes(n) == <<Byte("nibble", Low(n)), Byte("nibble", High(n))>>

\* What follows the length of frame number k; the server sends no dest.
Text(n, k) == [i \in 1..n |-> Byte("text", k)]
BodyWithoutDest(cmd, n, k) == <<Byte("type", cmd)>> \o Text(n, k)  \* fault
DeviceBody(cmd, n, k) == <<Byte("type", cmd), Byte("dest", 5)>> \o Text(n, k)
ServerBody(cmd, n, k) == <<Byte("type", cmd)>> \o Text(n, k)
Body(t, cmd, n, k) ==
    IF t \in DeviceTasks THEN DeviceBody(cmd, n, k) ELSE ServerBody(cmd, n, k)

OneByOne(bytes) == [i \in 1..Len(bytes) |-> <<bytes[i]>>]

\* The calls of send for a frame: the server sends all but the preamble one byte
\* at a time, the device the first four bytes after it at once.
Calls(t, n, body) ==
    IF t \in DeviceTasks
    THEN <<Preamble, LengthBytes(n) \o SubSeq(body, 1, 2)>> \o OneByOne(SubSeq(body, 3, Len(body)))
    ELSE <<Preamble>> \o OneByOne(LengthBytes(n) \o body)

Init ==
    /\ link = "connecting"
    /\ stream = [s \in Streams |-> <<>>]
    /\ rest = [t \in DeviceTasks \union ServerThreads |-> <<>>]
    /\ pc = [s \in Streams |-> "preamble"]
    /\ want = [s \in Streams |-> 0]
    /\ answer = FALSE
    /\ frames = [t \in DeviceTasks \union ServerThreads |-> 0]
    /\ begun = [s \in Streams |-> <<>>]
    /\ got = [s \in Streams |-> <<>>]
    /\ torn = [s \in Streams |-> FALSE]

\* tcp_client: socket, connect, and the task that reads.
Connect ==
    /\ link = "connecting"
    /\ link' = "up"
    /\ UNCHANGED <<stream, rest, pc, want, answer, frames, begun, got, torn>>

\* tcp_client_v4.c leaves its loop.  (tcp_client.c tries again at once.)
ConnectFails ==
    /\ link = "connecting"
    /\ link' = "failed"
    /\ UNCHANGED <<stream, rest, pc, want, answer, frames, begun, got, torn>>

Bound(t) ==
    CASE t \in {"main", "timer"} -> MaxFrames[t]
      [] t = "reader" -> MaxFrames["timer"]
      [] OTHER -> MaxFrames["others"]

\* The first call of send_msg: the preamble.
Begin(t, cmd, n) ==
    LET s == StreamOf(t)
        body == Body(t, cmd, n, Len(begun[s]) + 1)
        calls == Calls(t, n, body)
    IN /\ link = "up" /\ rest[t] = <<>> /\ frames[t] < Bound(t)
       /\ stream' = [stream EXCEPT ![s] = @ \o Head(calls)]
       /\ rest' = [rest EXCEPT ![t] = Tail(calls)]
       /\ frames' = [frames EXCEPT ![t] = @ + 1]
       /\ begun' = [begun EXCEPT ![s] = Append(@, body)]
       /\ torn' = [torn EXCEPT ![s] = @ \/ \E o \in Senders(s) : rest[o] # <<>>]

SendCall(t) ==
    /\ link = "up" /\ rest[t] # <<>>
    /\ stream' = [stream EXCEPT ![StreamOf(t)] = @ \o Head(rest[t])]
    /\ rest' = [rest EXCEPT ![t] = Tail(@)]
    /\ UNCHANGED <<link, pc, want, answer, frames, begun, got, torn>>

\* The name comes first; then the values, for ever.
MainSends ==
    /\ Begin("main", IF frames["main"] = 0 THEN SET_CLIENT_NAME ELSE SEND_IOT_VALUES, NameLength)
    /\ UNCHANGED <<link, pc, want, answer, got>>

TimerSends ==
    /\ Begin("timer", SEND_STATUS, TimerLength)
    /\ UNCHANGED <<link, pc, want, answer, got>>

ForwarderSends(t) ==
    /\ \E n \in ForwardLengths : Begin(t, Other, n)
    /\ UNCHANGED <<link, pc, want, answer, got>>

ReaderAnswers ==
    /\ answer /\ answer' = FALSE
    /\ Begin("reader", UPDATE_STATUS, NameLength)
    /\ UNCHANGED <<link, pc, want, got>>

\* The device's reader answers before it reads on.
Reading(s) == s = "down" => ~answer /\ rest["reader"] = <<>>
Waits(s, at, n) == link \in {"up", "closed"} /\ pc[s] = at /\ Reading(s) /\ Len(stream[s]) >= n
Took(s, n) == stream' = [stream EXCEPT ![s] = SubSeq(@, n + 1, Len(@))]
Goto(s, to) == pc' = [pc EXCEPT ![s] = to]

\* The server goes on with the next eight bytes; read_sock_task deletes itself.
BadPreamble(s) ==
    /\ Goto(s, IF s = "up" THEN "preamble" ELSE "ended")
    /\ UNCHANGED <<want, answer, got>>

GetPreamble(s) ==
    /\ Waits(s, "preamble", PreambleLength)
    /\ Took(s, PreambleLength)
    /\ IF SubSeq(stream[s], 1, PreambleLength) = Preamble
       THEN Goto(s, "length") /\ UNCHANGED <<want, answer, got>>
       ELSE BadPreamble(s)
    /\ UNCHANGED <<link, rest, frames, begun, torn>>

\* The server reads the type, dest and the text; the device has no dest to read.
BodyWithDest(s, n) == n + 2  \* fault: the device reads a dest too
BodyLength(s, n) == IF s = "up" THEN n + 2 ELSE n + 1

\* The two halves of the length.  A byte that is none makes a number beyond all
\* lengths that are sent: the reader waits for more than it has room for, and is not
\* followed.
GetLength(s) ==
    LET low == stream[s][1]
        high == stream[s][2]
    IN /\ Waits(s, "length", 2)
       /\ Took(s, 2)
       /\ IF low.is = "nibble" /\ high.is = "nibble"
          THEN /\ Goto(s, "body")
               /\ want' = [want EXCEPT ![s] = BodyLength(s, LengthOf(low.value, high.value))]
          ELSE Goto(s, "lost") /\ UNCHANGED want
       /\ UNCHANGED <<link, rest, answer, frames, begun, got, torn>>

GetBody(s) ==
    LET body == SubSeq(stream[s], 1, want[s])
    IN /\ Waits(s, "body", want[s])
       /\ Took(s, want[s])
       /\ Goto(s, "preamble")
       /\ got' = [got EXCEPT ![s] = Append(@, body)]
       /\ answer' = IF s = "up" THEN answer
                    ELSE body[1].is = "type" /\ body[1].value = SEND_STATUS
       /\ UNCHANGED <<link, rest, want, frames, begun, torn>>

\* logoff_client and DISCONNECT close the socket, whatever its threads are doing;
\* their calls of send fail from then on, which send_msg does not look at.
ServerCloses ==
    /\ link = "up"
    /\ link' = "closed"
    /\ rest' = [t \in DOMAIN rest |-> IF t \in ServerThreads THEN <<>> ELSE rest[t]]
    /\ Goto("up", "ended")
    /\ UNCHANGED <<stream, want, answer, frames, begun, got, torn>>

\* The device's send_msg gives up at the first call that fails.  (The main task
\* goes on trying a whole frame at a time and never connects again.)
SendFails(t) ==
    /\ link = "closed" /\ t \in DeviceTasks
    /\ rest[t] # <<>> \/ (t = "reader" /\ answer)
    /\ rest' = [rest EXCEPT ![t] = <<>>]
    /\ answer' = (answer /\ t # "reader")
    /\ UNCHANGED <<link, stream, pc, want, frames, begun, got, torn>>

\* recv finds the connection closed, or reset with bytes still unread.  (In the
\* middle of a frame it is get_msg's next call that ends the task.)
Eof ==
    /\ link = "closed" /\ Reading("down") /\ pc["down"] \notin {"ended", "lost"}
    /\ Goto("down", "ended")
    /\ UNCHANGED <<link, stream, rest, want, answer, frames, begun, got, torn>>

Read(s) == GetPreamble(s) \/ GetLength(s) \/ GetBody(s)

Next ==
    \/ Connect \/ ConnectFails \/ ServerCloses \/ Eof
    \/ MainSends \/ TimerSends \/ ReaderAnswers
    \/ \E t \in Forwarders : ForwarderSends(t)
    \/ \E t \in DeviceTasks \union ServerThreads : SendCall(t) \/ SendFails(t)
    \/ \E s \in Streams : Read(s)

Spec == Init /\ [][Next]_vars

\* The scheduler runs every task and thread, and the network delivers.
FairSpec ==
    /\ Spec
    /\ WF_vars(ReaderAnswers)
    /\ \A t \in DeviceTasks \union ServerThreads : WF_vars(SendCall(t))
    /\ \A s \in Streams : WF_vars(Read(s))
-----------------------------------------------------------------------------
(***************************************************************************)
(* Properties.                                                             *)
(***************************************************************************)

Kinds == {"preamble", "nibble", "type", "dest", "text"}
Bytes == [is : Kinds, value : Nat]

TypeOK ==
    /\ link \in {"connecting", "up", "failed", "closed"}
    /\ stream \in [Streams -> Seq(Bytes)]
    /\ rest \in [DeviceTasks \union ServerThreads -> Seq(Seq(Bytes))]
    /\ pc \in [Streams -> {"preamble", "length", "body", "lost", "ended"}]
    /\ want \in [Streams -> 0..(Base * Base + 1)]
    /\ answer \in BOOLEAN
    /\ frames \in [DeviceTasks \union ServerThreads -> Nat]
    /\ \A t \in DOMAIN frames : frames[t] <= Bound(t)
    /\ begun \in [Streams -> Seq(Seq(Bytes))]
    /\ got \in [Streams -> Seq(Seq(Bytes))]
    /\ torn \in [Streams -> BOOLEAN]

\* Unless two threads have sent at the same time, what was read from a stream is
\* what was sent, each frame whole and in the order the sends began.
FramesArriveWhole == \A s \in Streams : torn[s] \/ IsPrefix(got[s], begun[s])

\* Only overlapping sends put a reader out of step: without them it finds a preamble
\* where it looks for one and half a length where it looks for that, and the task
\* that reads on the device ends with the connection only.
StaysInStep ==
    \A s \in Streams : torn[s] \/
        /\ pc[s] # "lost"
        /\ pc[s] = "ended" => link = "closed"
        /\ pc[s] = "preamble" /\ Len(stream[s]) >= PreambleLength
              => SubSeq(stream[s], 1, PreambleLength) = Preamble

\* Every SEND_STATUS is answered, and the answer reaches the server, unless sends
\* overlap or the connection is closed: what timer_thread counts on when it logs
\* off who does not answer.
Count(cmd, bodies) == Len(SelectSeq(bodies, LAMBDA b : b[1] = Byte("type", cmd)))
StatusGetsAnswer ==
    \A k \in 1..MaxFrames["timer"] :
        Count(SEND_STATUS, begun["down"]) >= k
            ~> (torn["up"] \/ torn["down"] \/ link = "closed"
                  \/ Count(UPDATE_STATUS, got["up"]) >= k)

=============================================================================
