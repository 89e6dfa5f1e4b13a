-------------------------- MODULE ClientCommands --------------------------
(***************************************************************************)
(* The client program: a thread that reads commands from the server        *)
(* (client/thread_client.c), and two tasks that carry them out             *)
(* (get_host_cmd_task in cmd_tasks.c, basic_controls_task in tasks.c).     *)
(* They hand commands on through System V queues, which outlive the        *)
(* process.                                                                *)
(*                                                                         *)
(* main_qid, basic_controls_qid and close_program are static variables of  *)
(* the header tasks.h, so each source file has its own.  Only              *)
(* thread_client.c ever assigns the queue ids; the other two files use     *)
(* what static storage starts with.                                        *)
(*                                                                         *)
(* Operators marked "fault" are slips a later change could make; the       *)
(* specification does not use them.                                        *)
(***************************************************************************)
EXTENDS Naturals, Sequences, FiniteSets

CONSTANTS
    Commands,       \* the commands under consideration, each sent once
    KindOf,         \* what each of them is: an output, or one of Kinds
    TextOf,         \* its parameter, "ON", "OFF" or another text
    Outputs,        \* the lights, heaters and valves of this client
    EastLight,      \* the one whose relay is wired normally closed
    Layouts,        \* the ids that the kernel may give to the two queues
    StaleTexts,     \* what an uninitialised message may read as
    QueueLimit,     \* bound: messages that fit into a queue
    MaxRestarts     \* bound: how often the program is started again

Kinds == {"poll", "disconnect", "close", "other"}
Texts == {"ON", "OFF", "other"}
Tasks == {"host", "basic"}

\* Of a message, mtext[0] is told by its command, mtext[1] is the number,
\* and text what follows.
Messages == [command : Commands, number : Nat, text : Texts]

ASSUME ConstantsAssumption ==
    /\ KindOf \in [Commands -> Outputs \union Kinds]
    /\ TextOf \in [Commands -> Texts]
    /\ Outputs \intersect Kinds = {}
    /\ Layouts \subseteq [main : Nat, basic : Nat]
    /\ \A l \in Layouts : l.main # l.basic
    /\ StaleTexts \subseteq Texts
    /\ QueueLimit \in Nat \ {0}
    /\ MaxRestarts \in Nat

VARIABLES
    qid,        \* the kernel's ids of the two queues
    queue,      \* the messages in them, by id
    up,         \* whether the process runs
    closing,    \* close_program of thread_client.c; listen_thread has returned
    inbox,      \* what the server has sent and listen_thread not yet read
    task,       \* whether a task waits in msgrcv, handles a message, has ended
    held,       \* the message that a task last received
    relay,      \* the output bits
    sent,       \* the commands sent so far
    done,       \* how often each was carried out by basic_controls_task
    restarts    \* how often the program was started again

vars == <<qid, queue, up, closing, inbox, task, held, relay, sent, done, restarts>>

\* What held is in a task that has received no message.
NoMessage == <<>>

Qids == {qid.main, qid.basic}

\* fault: tasks.c alone is given the id that main got for it.
TaskQidRepaired(t) == IF t = "basic" THEN qid.basic ELSE 0

\* fault: add_msg_queue alone is given that id.
AddQueueQidRepaired == qid.basic

\* The queue a task reads and the one add_msg_queue writes: the files' own
\* copies of main_qid and basic_controls_qid, which nothing assigns.
TaskQid(t) == 0

AddQueueQid == 0

----------------------------------------------------------------------------

Init ==
    /\ qid \in Layouts
    /\ queue = [q \in Qids |-> <<>>]
    /\ up = TRUE
    /\ closing = FALSE
    /\ inbox = <<>>
    /\ task = [t \in Tasks |-> "receiving"]
    /\ held = [t \in Tasks |-> NoMessage]
    /\ relay \in [Outputs -> BOOLEAN]
    /\ sent = {}
    /\ done = [c \in Commands |-> 0]
    /\ restarts = 0

HasRoom(q) == Len(queue[q]) < QueueLimit
Enqueue(q, m) == queue' = [queue EXCEPT ![q] = Append(@, m)]

\* listen_thread and aux_client2a put the length of the text in front of it;
\* texts that are not ON or OFF are taken to be longer than those.
Length(text) == CASE text = "ON" -> 2 [] text = "OFF" -> 3 [] OTHER -> 4
Frame(c) == [command |-> c, number |-> Length(TextOf[c]), text |-> TextOf[c]]

----------------------------------------------------------------------------
(* The world: the server, the command-line program, and process ends.      *)

ServerSends(c) ==
    /\ up
    /\ c \notin sent
    /\ inbox' = Append(inbox, c)
    /\ sent' = sent \union {c}
    /\ UNCHANGED <<qid, queue, up, closing, task, held, relay, done, restarts>>

\* aux_client2a puts a command into the client's main queue, whether or not
\* the client runs.
AuxSends(c) ==
    /\ c \notin sent
    /\ HasRoom(qid.main)
    /\ Enqueue(qid.main, Frame(c))
    /\ sent' = sent \union {c}
    /\ UNCHANGED <<qid, up, closing, inbox, task, held, relay, done, restarts>>

\* The process is killed, or get_msg finds no preamble because the server has
\* closed the connection, and exits.
ProcessEnds ==
    /\ up
    /\ up' = FALSE
    /\ UNCHANGED <<qid, queue, closing, inbox, task, held, relay, sent, done, restarts>>

\* The program is started again.  The queues are where they were, with what
\* is in them; the rest is new.
Restart ==
    /\ ~up
    /\ restarts < MaxRestarts
    /\ up' = TRUE
    /\ closing' = FALSE
    /\ inbox' = <<>>
    /\ task' = [t \in Tasks |-> "receiving"]
    /\ held' = [t \in Tasks |-> NoMessage]
    /\ restarts' = restarts + 1
    /\ UNCHANGED <<qid, queue, relay, sent, done>>

----------------------------------------------------------------------------
(* listen_thread and main.                                                 *)

Listens == up /\ ~closing /\ inbox # <<>>

\* SEND_STATUS is answered.
AnswersPoll ==
    /\ Listens
    /\ KindOf[Head(inbox)] = "poll"
    /\ inbox' = Tail(inbox)
    /\ UNCHANGED <<qid, queue, up, closing, task, held, relay, sent, done, restarts>>

\* On DISCONNECT the thread shuts the socket down and returns: the
\* pthread_kill calls send signal 0, which does nothing.
Disconnects ==
    /\ Listens
    /\ KindOf[Head(inbox)] = "disconnect"
    /\ inbox' = Tail(inbox)
    /\ closing' = TRUE
    /\ UNCHANGED <<qid, queue, up, task, held, relay, sent, done, restarts>>

\* Everything else goes to the main queue; msgsnd waits while that is full.
PassesOn ==
    /\ Listens
    /\ KindOf[Head(inbox)] \notin {"poll", "disconnect"}
    /\ HasRoom(qid.main)
    /\ inbox' = Tail(inbox)
    /\ Enqueue(qid.main, Frame(Head(inbox)))
    /\ UNCHANGED <<qid, up, closing, task, held, relay, sent, done, restarts>>

\* main sees close_program and returns, which ends all threads.
MainReturns ==
    /\ up
    /\ closing
    /\ up' = FALSE
    /\ UNCHANGED <<qid, queue, closing, inbox, task, held, relay, sent, done, restarts>>

----------------------------------------------------------------------------
(* The two tasks.                                                          *)

\* msgrcv on an id that no queue has fails, and the task exits the process.
NoQueue(t) ==
    /\ up
    /\ task[t] = "receiving"
    /\ TaskQid(t) \notin Qids
    /\ up' = FALSE
    /\ UNCHANGED <<qid, queue, closing, inbox, task, held, relay, sent, done, restarts>>

\* fault: with MSG_COPY, msgrcv leaves the message where it is
ReceiveCopy(t) ==
    /\ up
    /\ task[t] = "receiving"
    /\ TaskQid(t) \in Qids
    /\ queue[TaskQid(t)] # <<>>
    /\ held' = [held EXCEPT ![t] = Head(queue[TaskQid(t)])]
    /\ task' = [task EXCEPT ![t] = "handling"]
    /\ UNCHANGED <<qid, queue, up, closing, inbox, relay, sent, done, restarts>>

\* fault: msgrcv does not wait, and ENOMSG is taken for success, as the test of errno
\* would have it: the last message is handled again.
ReceiveNoWait(t) ==
    /\ up
    /\ task[t] = "receiving"
    /\ TaskQid(t) \in Qids
    /\ IF queue[TaskQid(t)] # <<>>
       THEN /\ held' = [held EXCEPT ![t] = Head(queue[TaskQid(t)])]
            /\ queue' = [queue EXCEPT ![TaskQid(t)] = Tail(@)]
       ELSE UNCHANGED <<held, queue>>
    /\ task' = [task EXCEPT ![t] = "handling"]
    /\ UNCHANGED <<qid, up, closing, inbox, relay, sent, done, restarts>>

\* msgrcv: whichever task is there first gets the message.
Receive(t) ==
    /\ up
    /\ task[t] = "receiving"
    /\ TaskQid(t) \in Qids
    /\ queue[TaskQid(t)] # <<>>
    /\ held' = [held EXCEPT ![t] = Head(queue[TaskQid(t)])]
    /\ queue' = [queue EXCEPT ![TaskQid(t)] = Tail(@)]
    /\ task' = [task EXCEPT ![t] = "handling"]
    /\ UNCHANGED <<qid, up, closing, inbox, relay, sent, done, restarts>>

\* A task goes back to msgrcv, or returns after one of the closing commands.
GoesOn(t) ==
    task' = [task EXCEPT ![t] =
                 IF KindOf[held[t].command] = "close" THEN "ended" ELSE "receiving"]

\* get_host_cmd_task hands on ON and OFF for its outputs and the closing
\* commands, by a message of which only two bytes are set.
HandsOn ==
    /\ KindOf[held["host"].command] \in Outputs \union {"close"}
    /\ held["host"].text \in {"ON", "OFF"}

AddMsgQueue ==
    /\ up
    /\ task["host"] = "handling"
    /\ HandsOn
    /\ HasRoom(AddQueueQid)
    /\ \E text \in StaleTexts :
         Enqueue(AddQueueQid, [command |-> held["host"].command,
                               number  |-> IF held["host"].text = "ON" THEN 1 ELSE 0,
                               text    |-> text])
    /\ GoesOn("host")
    /\ UNCHANGED <<qid, up, closing, inbox, held, relay, sent, done, restarts>>

\* Whatever else it receives it drops or deals with itself.
HostDrops ==
    /\ up
    /\ task["host"] = "handling"
    /\ ~HandsOn
    /\ GoesOn("host")
    /\ UNCHANGED <<qid, queue, up, closing, inbox, held, relay, sent, done, restarts>>

\* The bit that OutPortA, B or C writes: it is set by 1 and cleared by any
\* other number.  For the east light the number is inverted first.
Bit(output, number) == IF output = EastLight THEN number = 0 ELSE number = 1

Drive(output, number) == relay' = [relay EXCEPT ![output] = Bit(output, number)]

\* basic_controls_task takes the second byte for the state that is wanted.
ChangeOutput ==
    /\ up
    /\ task["basic"] = "handling"
    /\ LET m == held["basic"]
       IN  /\ KindOf[m.command] \in Outputs
           /\ Drive(KindOf[m.command], m.number)
           /\ done' = [done EXCEPT ![m.command] = @ + 1]
    /\ GoesOn("basic")
    /\ UNCHANGED <<qid, queue, up, closing, inbox, held, sent, restarts>>

\* A closing command sets close_program of tasks.c, which only this task
\* reads; others it does not know.
ControlsDrop ==
    /\ up
    /\ task["basic"] = "handling"
    /\ KindOf[held["basic"].command] \notin Outputs
    /\ GoesOn("basic")
    /\ UNCHANGED <<qid, queue, up, closing, inbox, held, relay, sent, done, restarts>>

----------------------------------------------------------------------------

World == (\E c \in Commands : ServerSends(c) \/ AuxSends(c)) \/ ProcessEnds \/ Restart
Listen == AnswersPoll \/ Disconnects \/ PassesOn
Host == NoQueue("host") \/ Receive("host") \/ AddMsgQueue \/ HostDrops
Basic == NoQueue("basic") \/ Receive("basic") \/ ChangeOutput \/ ControlsDrop

Next == World \/ Listen \/ MainReturns \/ Host \/ Basic

Spec == Init /\ [][Next]_vars

\* The kernel schedules every thread.  Nothing is assumed of the world.
FairSpec == Spec /\ WF_vars(Listen) /\ WF_vars(MainReturns) /\ WF_vars(Host) /\ WF_vars(Basic)

----------------------------------------------------------------------------
(* Properties.                                                             *)

TypeOK ==
    /\ qid \in Layouts
    /\ queue \in [Qids -> Seq(Messages)]
    /\ up \in BOOLEAN /\ closing \in BOOLEAN
    /\ inbox \in Seq(Commands)
    /\ task \in [Tasks -> {"receiving", "handling", "ended"}]
    /\ held \in [Tasks -> Messages \union {NoMessage}]
    /\ \A t \in Tasks : task[t] # "receiving" => held[t] \in Messages
    /\ relay \in [Outputs -> BOOLEAN]
    /\ sent \in SUBSET Commands
    /\ done \in [Commands -> Nat]
    /\ restarts \in 0..MaxRestarts

\* Whatever is killed and started again, and whichever task takes a message,
\* no command is carried out twice: the queues keep messages over a restart,
\* but msgrcv takes them out before they are acted on.
AtMostOnce == \A c \in Commands : done[c] <= 1

\* While both tasks run, listen_thread gets to everything the server sends: it
\* waits for room in the queue, and never forever, although one of the tasks
\* writes to the queue that it reads.  So SEND_STATUS is answered.
KeepsReading ==
    inbox # <<>> ~> (inbox = <<>> \/ ~up \/ \E t \in Tasks : task[t] = "ended")

\* get_host_cmd_task ends after a closing command, which it has handed on if the
\* text is ON or OFF.
HandedClose == task["host"] = "ended" /\ held["host"].text \in {"ON", "OFF"}

\* A closing command that get_host_cmd_task handed on reaches basic_controls_task
\* as well: nobody else is left to take it out of the queue.
CloseReachesBoth == HandedClose ~> (task["basic"] = "ended" \/ ~up)

\* README.md:12-13: the client answers every SEND_STATUS.
StatusIsAnswered ==
    \A c \in Commands :
        KindOf[c] = "poll" =>
            ((\E i \in DOMAIN inbox : inbox[i] = c)
                 ~> ((\A i \in DOMAIN inbox : inbox[i] # c) \/ ~up))

============================================================================
