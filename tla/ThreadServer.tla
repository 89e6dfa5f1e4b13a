---------------------------- MODULE ThreadServer ----------------------------
(***************************************************************************)
(* The server's client table, pthreads_list, and the threads that share it *)
(* without any lock (server/thread_server.c): new_sock_thread accepts      *)
(* connections into slots, one listen_thread per connection reads and      *)
(* dispatches commands, timer_thread polls the slots and logs silent       *)
(* clients off, tester_thread logs one client off by name.                 *)
(*                                                                         *)
(* Nothing keeps two threads apart, so a step has at most one store into   *)
(* sock, dest, name, win, no_threads or highest_sock, and at most one read *)
(* of no_threads: a slot is filled in field by field, emptied field by     *)
(* field, and ++ and -- are a load and a store.  Where a thread only looks *)
(* (the scan of get_dest, the condition of an if) it looks in one step.    *)
(* Each recv of a whole message is one step; two threads in recv on the    *)
(* same connection may tear a message between them.                        *)
(*                                                                         *)
(* Each element of Conns is one TCP connection, made once; a client that   *)
(* reboots comes back as another connection of the same client.            *)
(* Operators marked "fault" are slips a later change could make; nothing   *)
(* uses them but the runs that show each property would notice.            *)
(***************************************************************************)
EXTENDS Integers, FiniteSets, Sequences

CONSTANTS
    MaxThreads,   \* MAX_THREADS, slots in pthreads_list
    Conns,        \* the connections that may be made
    ClientOf,     \* which client makes each connection: its name
    DestOf,       \* the dest of its address, -1 for an address not in the code
    WinConns,     \* connections from address 158, the Windows client
    Names,        \* the clients' names
    NoName,       \* the empty string
    LongNamed,    \* connections of thread_client with a name of more than 7 bytes
    CutName,      \* what is left of such a name
    PastNames,    \* the strings that may lie past the table: empty, or nobody's name
    Failures,     \* how clients fail here: "silent", "closed"
    NoConn,
    Timer, Tester, Acceptor,  \* the threads of the server but for the listen_threads
    TesterName,   \* "wifi client", the name behind the console key 'b'
    Commands,     \* what clients send besides their name and their answers
    MaxCommands,  \* bound on such commands and console keys in a behaviour
    MaxUnread,    \* bound on the messages of a client that the server has not read yet
    Prompt        \* every answer is handled within one timer delay

ASSUME ConstantsAssumption ==
    /\ MaxThreads \in Nat \ {0}
    /\ IsFiniteSet(Conns) /\ NoConn \notin Conns
    /\ Conns \intersect {Timer, Tester, Acceptor} = {}
    /\ Timer # Tester /\ Acceptor \notin {Timer, Tester}
    /\ NoName \notin Names /\ CutName \notin Names \union {NoName}
    /\ PastNames # {} /\ PastNames \intersect (Names \union {CutName}) = {}
    /\ LongNamed \subseteq Conns
    /\ Failures \subseteq {"silent", "closed"}
    /\ ClientOf \in [Conns -> Names]
    /\ DestOf \in [Conns -> Int]
    /\ WinConns \subseteq Conns
    /\ TesterName \in Names
    /\ Commands \subseteq {"route", "list", "disconnect", "disconnect_all"}
    /\ MaxCommands \in Nat /\ MaxUnread \in Nat \ {0}
    /\ Prompt \in BOOLEAN

Slots == 0 .. MaxThreads - 1
\* A process never has more descriptors for clients than connections made.
Fds == 1 .. Cardinality(Conns)
Dests == {DestOf[c] : c \in Conns}

\* The threads that empty slots, and those that write no_threads.
Closers == Conns \union {Timer, Tester}
Writers == Closers \union {Acceptor}

Messages ==
    [kind : {"name", "update"}, name : Names \union {CutName}]
        \union [kind : {"route", "list", "disconnect"}, dest : Dests]
        \union [kind : {"disconnect_all"}]

VARIABLES
    sock, dest, name, win, stamped, dirty,  \* pthreads_list[i]; stamped is time_stamp > 0
    noThreads, highestSock, winClIndex,
    clientName,    \* the static buffer client_name[30] of the file
    owner,         \* kernel: which connection a descriptor stands for
    accPc, accConn,  \* new_sock_thread
    pc, fd, index, src,  \* listen_thread of each connection: fd its local sock,
                   \*   index its slot, src the connection its recv is on
    step, at,      \* of a thread that empties slots: how far it is with slot at
    reg,           \* a value loaded and not stored again yet
    timerPc, timerI,  \* timer_thread, its loop counter
    link,          \* what became of each connection at the client's end
    inbox,         \* bytes the server has not read yet, as messages
    polled,        \* SEND_STATUS delivered and not answered yet
    running,       \* the server process is alive
    budget,
    mishaps,       \* history: which accidents of the missing lock have happened
    asked          \* history: the connections SEND_STATUS was sent to

table == <<sock, dest, name, win, stamped, dirty>>
globals == <<noThreads, highestSock, winClIndex, clientName>>
acceptor == <<accPc, accConn>>
listeners == <<pc, fd, index, src>>
closing == <<step, at>>
timer == <<timerPc, timerI>>
clients == <<link, inbox, polled>>
histories == <<mishaps, asked>>
vars == <<table, globals, owner, acceptor, listeners, closing, reg, timer, clients,
          running, budget, histories>>

Live == {i \in Slots : sock[i] > 0}

Init ==
    /\ sock = [i \in Slots |-> -1]
    /\ dest = [i \in Slots |-> -1]
    /\ name = [i \in Slots |-> NoName]
    /\ win = [i \in Slots |-> FALSE]
    /\ stamped = [i \in Slots |-> FALSE]
    /\ dirty = [i \in Slots |-> 0]
    /\ noThreads = 0 /\ highestSock = 0 /\ winClIndex = -1
    /\ clientName = NoName
    /\ owner = [f \in Fds |-> NoConn]
    /\ accPc = "accept" /\ accConn = NoConn
    /\ pc = [c \in Conns |-> "none"]
    /\ fd = [c \in Conns |-> -1]
    /\ index = [c \in Conns |-> 0]
    /\ src = [c \in Conns |-> NoConn]
    /\ step = [t \in Closers |-> "idle"]
    /\ at = [t \in Closers |-> 0]
    /\ reg = [t \in Writers |-> 0]
    /\ timerPc = "slot" /\ timerI = 0
    /\ link = [c \in Conns |-> "new"]
    /\ inbox = [c \in Conns |-> <<>>]
    /\ polled = [c \in Conns |-> FALSE]
    /\ running = TRUE
    /\ budget = MaxCommands
    /\ mishaps = {} /\ asked = {}

-----------------------------------------------------------------------------
(* Shared helpers *)

\* get_dest: the scan stops at a slot with this dest, at a slot whose socket is
\* above highest_sock, or past the table.
IsGetDest(d, i) ==
    LET Stops(j) == j \in Slots => (dest[j] = d \/ sock[j] > highestSock)
    IN  /\ i \in 0 .. MaxThreads
        /\ Stops(i)
        /\ \A j \in Slots : j < i => ~Stops(j)

\* The connection at the other end of a slot's socket, if there is one.
Peers(i) == IF i \in Live /\ owner[sock[i]] # NoConn THEN {owner[sock[i]]} ELSE {}

\* A send to a connection its client has closed raises SIGPIPE in the end; no
\* code handles or masks the signal, so the process may not survive it.  What
\* other frames than SEND_STATUS and DISCONNECT do to a client is not followed.
Sending(i) ==
    \/ UNCHANGED running
    \/ (\E c \in Peers(i) : link[c] = "closed") /\ running' = FALSE

\* A store of a count that another thread has stored since it was loaded.
Stores(t, n) ==
    /\ noThreads' = n
    /\ reg' = [reg EXCEPT ![t] = 0]
    /\ mishaps' = IF noThreads = reg[t] THEN mishaps ELSE mishaps \union {"lost"}

-----------------------------------------------------------------------------
(* new_sock_thread *)

\* Bound: the code has no check of no_threads against MAX_THREADS; behaviours
\* are followed up to the point where it would index outside the table.
InTable == noThreads \in Slots

\* accept takes the lowest free descriptor and the listen_thread is created
\* before the slot is filled in.  The client sends its name first of all.
Accept(c) ==
    /\ accPc = "accept" /\ link[c] = "new"
    /\ \A d \in Conns : ClientOf[d] = ClientOf[c] => link[d] # "up"
    /\ \E f \in Fds :
          /\ owner[f] = NoConn
          /\ \A g \in Fds : g < f => owner[g] # NoConn
          /\ owner' = [owner EXCEPT ![f] = c]
          /\ fd' = [fd EXCEPT ![c] = f]
    /\ link' = [link EXCEPT ![c] = "up"]
    /\ inbox' = [inbox EXCEPT ![c] = <<[kind |-> "name", name |-> ClientOf[c]]>>]
    /\ pc' = [pc EXCEPT ![c] = "start"]
    /\ accPc' = "sock" /\ accConn' = c
    /\ UNCHANGED <<table, globals, index, src, closing, reg, timer, polled, running, budget,
                   histories>>

\* From here on no_threads is read afresh for every field.
Fills(from, to) ==
    /\ accPc = from /\ InTable
    /\ accPc' = to
    /\ UNCHANGED <<owner, listeners, closing, timer, clients, running, budget, asked>>

RegisterSock ==
    /\ Fills("sock", "compare")
    /\ sock' = [sock EXCEPT ![noThreads] = fd[accConn]]
    /\ UNCHANGED <<dest, name, win, stamped, dirty, globals, accConn, reg, mishaps>>

\* The socket that is compared and stored is read from the slot that no_threads
\* names by now, which another thread may have changed, or emptied.
Reads == mishaps' = IF sock[noThreads] = fd[accConn] THEN mishaps
                    ELSE mishaps \union {"misread"}

IsFirst(f) == highestSock = 0  \* fault: set once
IsHighest(f) == f > highestSock

CompareSock ==
    /\ Fills("compare", IF IsHighest(sock[noThreads]) THEN "raise" ELSE "win")
    /\ Reads
    /\ UNCHANGED <<table, globals, accConn, reg>>

RaiseHighest ==
    /\ Fills("raise", "win")
    /\ highestSock' = sock[noThreads]
    /\ Reads
    /\ UNCHANGED <<table, noThreads, winClIndex, clientName, accConn, reg>>

RegisterWin ==
    /\ Fills("win", "dest")
    /\ win' = [win EXCEPT ![noThreads] = accConn \in WinConns]
    /\ UNCHANGED <<sock, dest, name, stamped, dirty, globals, accConn, reg, mishaps>>

\* An address the code does not know leaves dest as the slot had it.
RegisterDest ==
    /\ Fills("dest", "load")
    /\ dest' = [dest EXCEPT ![noThreads] = IF DestOf[accConn] = -1 THEN @ ELSE DestOf[accConn]]
    /\ UNCHANGED <<sock, name, win, stamped, dirty, globals, accConn, reg, mishaps>>

LoadCount ==
    /\ Fills("load", "store")
    /\ reg' = [reg EXCEPT ![Acceptor] = noThreads]
    /\ UNCHANGED <<table, globals, accConn, mishaps>>

StoreCount ==
    /\ accPc = "store"
    /\ Stores(Acceptor, reg[Acceptor] + 1)
    /\ accPc' = "accept" /\ accConn' = NoConn
    /\ UNCHANGED <<table, highestSock, winClIndex, clientName, owner, listeners, closing, timer,
                   clients, running, budget, asked>>

Register == \/ RegisterSock \/ CompareSock \/ RaiseHighest \/ RegisterWin \/ RegisterDest
            \/ LoadCount \/ StoreCount

-----------------------------------------------------------------------------
(* Emptying a slot: logoff_client, DISCONNECT and DISCONNECT_ALL *)

Job(t) == IF t \in Conns THEN pc[t] ELSE "logoff"
To(t, s) == step' = [step EXCEPT ![t] = s]

\* A call begins with the first slot.
Begins(t) == To(t, "check") /\ at' = [at EXCEPT ![t] = 0]

\* The end of the call: a listen_thread goes back to its loop, or ends after
\* DISCONNECT_ALL; the timer goes on to its next slot.
Returns(t) ==
    /\ To(t, "idle") /\ at' = [at EXCEPT ![t] = 0]
    /\ pc' = IF t \in Conns THEN [pc EXCEPT ![t] = IF @ = "all" THEN "done" ELSE "loop"] ELSE pc
    /\ IF t = Timer THEN timerPc' = "slot" /\ timerI' = timerI + 1 ELSE UNCHANGED timer

\* The condition of a loop over the table, for the slot after i.
InTableToo(i) == i + 1 <= MaxThreads  \* fault: off by one
HasNext(i) == i + 1 < MaxThreads

\* The next slot, until there is none.
GoesOn(t) ==
    IF HasNext(at[t])
      THEN To(t, "check") /\ at' = [at EXCEPT ![t] = @ + 1] /\ UNCHANGED <<pc, timer>>
      ELSE Returns(t)

\* The threads that have found this slot live and have not emptied it yet.
Holding(i) == {t \in Closers : at[t] = i /\ step[t] \in {"send", "close", "sock"}}

\* A thread takes slot i on.
Takes(t, i, s) ==
    /\ step' = [step EXCEPT ![t] = s] /\ at' = [at EXCEPT ![t] = i]
    /\ mishaps' = IF Holding(i) = {} THEN mishaps ELSE mishaps \union {"doubled"}

\* The name that logoff_client is called with.  The timer passes that of its slot by
\* address.  A listen_thread passes pthreads_list[MAX_THREADS].client_name, which
\* lies past the table: whatever string the build has there.
Wanted(t) ==
    CASE t = Timer -> {name[timerI]}
      [] t = Tester -> {TesterName}
      [] OTHER -> PastNames

NamedSlot(i, n) == name[i] = n  \* fault: a dead slot is not skipped
LogoffSlot(i, n) == name[i] = n /\ i \in Live

CheckName(t) ==
    /\ step[t] = "check" /\ Job(t) = "logoff"
    /\ \E n \in Wanted(t) :
          IF LogoffSlot(at[t], n)
            THEN Takes(t, at[t], "close") /\ UNCHANGED <<pc, timer>>
            ELSE GoesOn(t) /\ UNCHANGED mishaps
    /\ UNCHANGED <<table, globals, owner, acceptor, fd, index, src, reg, clients, running, budget,
                   asked>>

\* DISCONNECT_ALL goes over the slots that are counted at the time.
CheckCounted(t) ==
    /\ step[t] = "check" /\ Job(t) = "all"
    /\ \/ /\ at[t] < noThreads /\ at[t] \in Live
          /\ Takes(t, at[t], "send") /\ UNCHANGED <<pc, timer>>
       \/ /\ ~(at[t] < noThreads /\ at[t] \in Live)
          /\ IF at[t] < noThreads THEN GoesOn(t) ELSE Returns(t)
          /\ UNCHANGED mishaps
    /\ UNCHANGED <<table, globals, owner, acceptor, fd, index, src, reg, clients, running, budget,
                   asked>>

\* The client ends its connection when DISCONNECT reaches it.
SendDisconnect(t) ==
    /\ step[t] = "send"
    /\ Sending(at[t])
    /\ link' = [c \in Conns |-> IF c \in Peers(at[t]) /\ link[c] = "up" THEN "closed" ELSE link[c]]
    /\ To(t, "close")
    /\ UNCHANGED <<table, globals, owner, acceptor, listeners, at, reg, timer, inbox, polled,
                   budget, histories>>

\* Whatever socket the slot has by now is closed; the number may be handed out
\* again before it is taken out of the slot.
CloseSock(t) ==
    /\ step[t] = "close"
    /\ owner' = [f \in Fds |-> IF f = sock[at[t]] THEN NoConn ELSE owner[f]]
    /\ To(t, "sock")
    /\ UNCHANGED <<table, globals, acceptor, listeners, at, reg, timer, clients, running, budget,
                   histories>>

KeepSock(i) == sock  \* fault: not taken out of the slot
WithoutSock(i) == [sock EXCEPT ![i] = -1]

ClearSock(t) ==
    /\ step[t] = "sock"
    /\ sock' = WithoutSock(at[t])
    /\ To(t, "dest")
    /\ UNCHANGED <<dest, name, win, stamped, dirty, globals, owner, acceptor, listeners, at, reg,
                   timer, clients, running, budget, histories>>

\* logoff_client leaves the name, and nobody the flags.
ClearDest(t) ==
    /\ step[t] = "dest"
    /\ dest' = [dest EXCEPT ![at[t]] = -1]
    /\ To(t, IF Job(t) = "logoff" THEN "load" ELSE "name")
    /\ UNCHANGED <<sock, name, win, stamped, dirty, globals, owner, acceptor, listeners, at, reg,
                   timer, clients, running, budget, histories>>

\* DISCONNECT_ALL leaves no_threads as it is.
ClearName(t) ==
    /\ step[t] = "name"
    /\ name' = [name EXCEPT ![at[t]] = NoName]
    /\ IF Job(t) = "all" THEN GoesOn(t) ELSE To(t, "load") /\ UNCHANGED <<at, pc, timer>>
    /\ UNCHANGED <<sock, dest, win, stamped, dirty, globals, owner, acceptor, fd, index, src, reg,
                   clients, running, budget, histories>>

LoadUncount(t) ==
    /\ step[t] = "load"
    /\ reg' = [reg EXCEPT ![t] = noThreads]
    /\ To(t, "store")
    /\ UNCHANGED <<table, globals, owner, acceptor, listeners, at, timer, clients, running, budget,
                   histories>>

StoreUncount(t) ==
    /\ step[t] = "store"
    /\ Stores(t, reg[t] - 1)
    /\ IF Job(t) = "logoff" THEN GoesOn(t) ELSE Returns(t)
    /\ UNCHANGED <<table, highestSock, winClIndex, clientName, owner, acceptor, fd, index, src,
                   clients, running, budget, asked>>

Closing(t) == \/ CheckName(t) \/ CheckCounted(t) \/ SendDisconnect(t) \/ CloseSock(t)
              \/ ClearSock(t) \/ ClearDest(t) \/ ClearName(t) \/ LoadUncount(t) \/ StoreUncount(t)

-----------------------------------------------------------------------------
(* listen_thread of connection c *)

Goto(c, l) == pc' = [pc EXCEPT ![c] = l]

\* On to a part of the command that takes several steps.
Calls(c, l) ==
    /\ Goto(c, l)
    /\ index' = [index EXCEPT ![c] = 0]
    /\ src' = [src EXCEPT ![c] = NoConn]

\* Back to the head of the for (;;), where index is set to 0 and looked up anew.
Again(c) == Calls(c, "loop")

\* The thread clears the one client_name buffer all threads use.
Start(c) ==
    /\ pc[c] = "start"
    /\ clientName' = NoName
    /\ Goto(c, "loop")
    /\ UNCHANGED <<table, noThreads, highestSock, winClIndex, owner, acceptor, fd, index, src,
                   closing, reg, timer, clients, running, budget, histories>>

\* The last slot with the thread's socket, or slot 0 when there is none.
IsIndex(c, i) ==
    \/ sock[i] = fd[c] /\ \A j \in Slots : j > i => sock[j] # fd[c]
    \/ i = 0 /\ \A j \in Slots : sock[j] # fd[c]

\* The Windows branch reads the thread's own descriptor, the other one the
\* descriptor of the slot.
ReadFd(c, i) == IF win[i] THEN fd[c] ELSE sock[i]
Readable(f) == f \in Fds /\ owner[f] # NoConn

SetWinClIndex(i) == winClIndex' = IF win[i] /\ winClIndex < 0 THEN i ELSE winClIndex

\* A read that fails: log off "the client" (past the table) unless this is a
\* Windows slot; the command byte is then 0, "bad cmd", and the thread sleeps.
FailRead(c, i) ==
    /\ IF win[i] THEN Again(c) /\ UNCHANGED closing ELSE Calls(c, "logoff") /\ Begins(c)
    /\ SetWinClIndex(i)
    /\ UNCHANGED <<table, noThreads, highestSock, clientName, owner, acceptor, fd, reg, timer,
                   clients, running, budget, histories>>

Loop(c) ==
    /\ pc[c] = "loop"
    /\ \E i \in Slots :
          /\ IsIndex(c, i)
          /\ \/ /\ Readable(ReadFd(c, i))
                /\ index' = [index EXCEPT ![c] = i]
                /\ src' = [src EXCEPT ![c] = owner[ReadFd(c, i)]]
                /\ Goto(c, "recv")
                /\ UNCHANGED <<table, globals, owner, acceptor, fd, closing, reg, timer, clients,
                               running, budget, histories>>
             \/ ~Readable(ReadFd(c, i)) /\ FailRead(c, i)

\* The client closed its end: recv returns 0.
Eof(c) ==
    /\ pc[c] = "recv" /\ link[src[c]] = "closed" /\ inbox[src[c]] = <<>>
    /\ FailRead(c, index[c])

Take(c) ==
    /\ pc[c] = "recv" /\ inbox[src[c]] # <<>>
    /\ inbox' = [inbox EXCEPT ![src[c]] = Tail(@)]

\* Two threads in recv on one connection share the bytes of a message: neither
\* has a preamble and what belongs to it.
TornRead(c) ==
    /\ Take(c)
    /\ \E d \in Conns \ {c} :
          /\ pc[d] \in {"recv", "torn"} /\ src[d] = src[c]
          /\ pc' = [pc EXCEPT ![c] = "torn", ![d] = "torn"]
    /\ UNCHANGED <<table, globals, owner, acceptor, fd, index, src, closing, reg, timer, link,
                   polled, running, budget, histories>>

\* The read of such a part fails, at once or when more bytes have come.
FailTorn(c) == pc[c] = "torn" /\ FailRead(c, index[c])

\* What every command handler leaves alone.
Handling(c, kind) ==
    /\ Take(c) /\ Head(inbox[src[c]]).kind = kind
    /\ SetWinClIndex(index[c])
    /\ UNCHANGED <<sock, dest, name, win, noThreads, highestSock, owner, acceptor, fd, reg, timer,
                   link, polled, budget, asked>>

\* SET_CLIENT_NAME copies the name into the shared buffer, prints, and then
\* copies the buffer into the slot.
SetClientName(c) ==
    /\ Handling(c, "name")
    /\ clientName' = Head(inbox[src[c]]).name
    /\ Goto(c, "name")
    /\ src' = [src EXCEPT ![c] = NoConn]
    /\ UNCHANGED <<stamped, dirty, index, closing, running, mishaps>>

StoreName(c) ==
    /\ pc[c] = "name"
    /\ name' = [name EXCEPT ![index[c]] = clientName]
    /\ Again(c)
    /\ UNCHANGED <<sock, dest, win, stamped, dirty, globals, owner, acceptor, fd, closing, reg,
                   timer, clients, running, budget, histories>>

\* UPDATE_STATUS goes over all slots with the sender's name.  A slot that was
\* stamped before also makes the text that is sent on to the Windows client, in
\* the same buffer as the name: no later slot matches any more.
UpdateStatus(c) ==
    /\ Handling(c, "update")
    /\ LET named == {i \in Slots : name[i] = Head(inbox[src[c]]).name}
           reached == {i \in named : \A j \in named : stamped[j] => i <= j}
       IN  /\ dirty' = [i \in Slots |-> IF i \in reached THEN 0 ELSE dirty[i]]
           /\ stamped' = [i \in Slots |-> i \in reached \/ stamped[i]]
           /\ IF \E i \in reached : stamped[i] THEN Sending(winClIndex') ELSE UNCHANGED running
    /\ Again(c)
    /\ UNCHANGED <<clientName, closing, mishaps>>

\* A command is passed to the first slot with the wanted dest, if the sender's
\* slot is live and is not slot 0.
Forward(c) ==
    /\ \E i \in 0 .. MaxThreads :
          /\ IsGetDest(Head(inbox[src[c]]).dest, i)
          /\ IF i < noThreads /\ index[c] \in Live /\ index[c] > 0 THEN Sending(i)
             ELSE UNCHANGED running
    /\ Again(c)
    /\ UNCHANGED <<closing, stamped, dirty, clientName, mishaps>>

\* "EVERYTHING ELSE"
Route(c) == Handling(c, "route") /\ Forward(c)

\* SEND_CLIENT_LIST describes every live slot to the Windows client; as long as
\* that one is unknown or in slot 0, it is a command like any other.
SendClientList(c) ==
    /\ Handling(c, "list")
    /\ \/ winClIndex' <= 0 /\ Forward(c)
       \/ /\ winClIndex' > 0
          /\ Calls(c, "list")
          /\ at' = [at EXCEPT ![c] = 0]
          /\ UNCHANGED <<step, stamped, dirty, clientName, running, mishaps>>

\* One slot of the list; the thread sleeps after each that it sends.
ListSlot(c) ==
    /\ pc[c] = "list"
    /\ IF at[c] \in Live /\ ~win[at[c]] THEN Sending(winClIndex) ELSE UNCHANGED running
    /\ IF HasNext(at[c])
         THEN at' = [at EXCEPT ![c] = @ + 1] /\ UNCHANGED <<pc, index, src>>
         ELSE at' = [at EXCEPT ![c] = 0] /\ Again(c)
    /\ UNCHANGED <<table, globals, owner, acceptor, fd, step, reg, timer, clients, budget,
                   histories>>

\* DISCONNECT sends the command to the addressed slot and then, without looking
\* again, closes what the slot holds by now.
Disconnect(c) ==
    /\ Handling(c, "disconnect")
    /\ \E i \in 0 .. MaxThreads :
          /\ IsGetDest(Head(inbox[src[c]]).dest, i)
          /\ IF i < noThreads /\ i \in Live /\ index[c] > 0
               THEN Calls(c, "disconnect") /\ Takes(c, i, "send")
               ELSE Again(c) /\ UNCHANGED <<closing, mishaps>>
    /\ UNCHANGED <<stamped, dirty, clientName, running>>

\* The one command after which the thread returns.
DisconnectAll(c) ==
    /\ Handling(c, "disconnect_all")
    /\ Calls(c, "all") /\ Begins(c)
    /\ UNCHANGED <<stamped, dirty, clientName, running, mishaps>>

Listen(c) ==
    \/ Start(c) \/ Loop(c) \/ Eof(c) \/ TornRead(c)
    \/ SetClientName(c) \/ StoreName(c) \/ UpdateStatus(c) \/ Route(c)
    \/ SendClientList(c) \/ ListSlot(c) \/ Disconnect(c) \/ DisconnectAll(c)

-----------------------------------------------------------------------------
(* timer_thread and tester_thread *)

\* A thread with something to do other than to fail reading once more.
Busy(c) ==
    \/ pc[c] \in {"start", "name", "list", "disconnect", "all"}
    \/ pc[c] \in {"recv", "torn"} /\ inbox[src[c]] # <<>>
    \/ pc[c] \in {"loop", "logoff"} /\ \E i \in Slots :
           /\ IsIndex(c, i) /\ Readable(ReadFd(c, i))
           /\ LET s == owner[ReadFd(c, i)] IN link[s] # "closed" \/ inbox[s] # <<>>

\* TIME_DELAY_1 is two minutes: under Prompt it only runs out when every client
\* that is up has answered and every thread has handled what it can read.
TimerReady ==
    Prompt => /\ accPc = "accept" /\ step[Tester] = "idle"
              /\ \A c \in Conns : ~Busy(c) /\ ~(link[c] = "up" /\ polled[c])

\* Bound: dirty_flag is only ever compared with 1, so the model stops at 2.
RaisedOnce(d) == 1  \* fault: set instead of incremented
Raised(d) == IF d < 2 THEN d + 1 ELSE d

AllButNewest == noThreads - 1  \* fault: off by one
TimerBound == noThreads

\* At the condition of the for loop, after a sleep.
Awake == timerPc = "slot" /\ step[Timer] = "idle" /\ TimerReady

SkipSlot ==
    /\ Awake /\ timerI < TimerBound /\ timerI \notin Live
    /\ timerI' = timerI + 1
    /\ UNCHANGED <<table, globals, owner, acceptor, listeners, closing, reg, timerPc, clients,
                   running, budget, histories>>

\* dirty_flag++
LoadDirty ==
    /\ Awake /\ timerI < TimerBound /\ timerI \in Live
    /\ reg' = [reg EXCEPT ![Timer] = dirty[timerI]]
    /\ timerPc' = "raise"
    /\ UNCHANGED <<table, globals, owner, acceptor, listeners, closing, timerI, clients, running,
                   budget, histories>>

StoreDirty ==
    /\ timerPc = "raise"
    /\ dirty' = [dirty EXCEPT ![timerI] = Raised(reg[Timer])]
    /\ reg' = [reg EXCEPT ![Timer] = 0]
    /\ timerPc' = "ask"
    /\ UNCHANGED <<sock, dest, name, win, stamped, globals, owner, acceptor, listeners, closing,
                   timerI, clients, running, budget, histories>>

\* SEND_STATUS asks the client to have the flag cleared.
PollSlot ==
    /\ timerPc = "ask" /\ dirty[timerI] <= 1
    /\ Sending(timerI)
    /\ polled' = [c \in Conns |-> IF c \in Peers(timerI) THEN link[c] = "up" ELSE polled[c]]
    /\ asked' = asked \union Peers(timerI)
    /\ timerPc' = "slot" /\ timerI' = timerI + 1
    /\ UNCHANGED <<table, globals, owner, acceptor, listeners, closing, reg, link, inbox, budget,
                   mishaps>>

\* Still set from the last round: the client counts as dead.
LogoffDead ==
    /\ timerPc = "ask" /\ dirty[timerI] > 1
    /\ timerPc' = "logoff"
    /\ Begins(Timer)
    /\ UNCHANGED <<table, globals, owner, acceptor, listeners, reg, timerI, clients, running,
                   budget, histories>>

\* The loop over the slots that are counted ends and starts again.
TimerRound ==
    /\ timerPc = "slot" /\ step[Timer] = "idle"
    /\ timerI >= TimerBound /\ timerI # 0
    /\ timerI' = 0
    /\ UNCHANGED <<table, globals, owner, acceptor, listeners, closing, reg, timerPc, clients,
                   running, budget, histories>>

TimerThread == \/ SkipSlot \/ LoadDirty \/ StoreDirty \/ PollSlot \/ LogoffDead \/ TimerRound
               \/ Closing(Timer)

\* The key 'b' on the server's console.
PressKey ==
    /\ step[Tester] = "idle" /\ budget > 0
    /\ budget' = budget - 1
    /\ Begins(Tester)
    /\ UNCHANGED <<table, globals, owner, acceptor, listeners, reg, timer, clients, running,
                   histories>>

-----------------------------------------------------------------------------
(* The clients: client/thread_client.c *)

Sends(c, m) == inbox' = [inbox EXCEPT ![c] = Append(@, m)]

OnlyClients == UNCHANGED <<table, globals, owner, acceptor, listeners, closing, reg, timer,
                           running, histories>>

\* SEND_STATUS is answered with the client's name.  thread_client takes the
\* length of the name from the wrong buffer, so a long one may arrive cut.
Answer(c) ==
    /\ link[c] = "up" /\ polled[c] /\ Len(inbox[c]) < MaxUnread
    /\ polled' = [polled EXCEPT ![c] = FALSE]
    /\ \E n \in {ClientOf[c]} \union (IF c \in LongNamed THEN {CutName} ELSE {}) :
          Sends(c, [kind |-> "update", name |-> n])
    /\ OnlyClients /\ UNCHANGED <<link, budget>>

Command(c) ==
    /\ link[c] = "up" /\ budget > 0 /\ Len(inbox[c]) < MaxUnread
    /\ budget' = budget - 1
    /\ \E m \in Messages : m.kind \in Commands /\ Sends(c, m)
    /\ OnlyClients /\ UNCHANGED <<link, polled>>

\* Power or radio is lost without a word, or the program ends and the server's
\* recv sees the end of the stream.
Fail(c) ==
    /\ link[c] = "up"
    /\ \E how \in Failures : link' = [link EXCEPT ![c] = how]
    /\ polled' = [polled EXCEPT ![c] = FALSE]
    /\ OnlyClients /\ UNCHANGED <<inbox, budget>>

Client(c) == Answer(c) \/ Command(c) \/ Fail(c)

-----------------------------------------------------------------------------

Next ==
    /\ running
    /\ \/ Register \/ TimerThread \/ PressKey \/ Closing(Tester)
       \/ \E c \in Conns : Accept(c) \/ Listen(c) \/ FailTorn(c) \/ Closing(c) \/ Client(c)

Spec == Init /\ [][Next]_vars

\* The threads of the server are scheduled.  Whether a client ever connects,
\* commands or fails is up to it, and so is, but under Prompt, whether it answers;
\* a thread that has part of a message waits until more bytes come.
Fairness ==
    /\ WF_vars(running /\ Register)
    /\ WF_vars(running /\ TimerThread)
    /\ WF_vars(running /\ Closing(Tester))
    /\ \A c \in Conns :
          /\ WF_vars(running /\ (Listen(c) \/ Closing(c)))
          /\ WF_vars(running /\ FailTorn(c) /\ inbox[src[c]] # <<>>)
          /\ Prompt => WF_vars(running /\ Answer(c))

FairSpec == Spec /\ Fairness

-----------------------------------------------------------------------------
(* Properties *)

TableTyped ==
    /\ sock \in [Slots -> {-1} \union Fds]
    /\ dest \in [Slots -> {-1} \union Dests]
    /\ name \in [Slots -> {NoName, CutName} \union Names]
    /\ win \in [Slots -> BOOLEAN] /\ stamped \in [Slots -> BOOLEAN]
    /\ dirty \in [Slots -> 0 .. 2]
    /\ noThreads \in Int /\ highestSock \in {-1, 0} \union Fds
    /\ winClIndex \in {-1} \union Slots
    /\ clientName \in {NoName, CutName} \union Names
    /\ owner \in [Fds -> Conns \union {NoConn}]

ThreadsTyped ==
    /\ accPc \in {"accept", "sock", "compare", "raise", "win", "dest", "load", "store"}
    /\ accConn \in Conns \union {NoConn}
    /\ accPc # "accept" => accConn \in Conns /\ fd[accConn] \in Fds
    /\ pc \in [Conns -> {"none", "start", "loop", "recv", "torn", "name", "list", "logoff",
                         "disconnect", "all", "done"}]
    /\ fd \in [Conns -> {-1} \union Fds]
    /\ index \in [Conns -> Slots]
    /\ src \in [Conns -> Conns \union {NoConn}]
    /\ \A c \in Conns : pc[c] \in {"recv", "torn"} => src[c] \in Conns
    /\ step \in [Closers -> {"idle", "check", "send", "close", "sock", "dest", "name", "load",
                             "store"}]
    /\ \A c \in Conns : step[c] # "idle" => pc[c] \in {"logoff", "disconnect", "all"}
    /\ at \in [Closers -> Slots]
    /\ reg \in [Writers -> Int] /\ (timerPc = "raise" => reg[Timer] \in 0 .. 2)
    /\ timerPc \in {"slot", "raise", "ask", "logoff"}
    /\ timerI \in Nat /\ (timerPc # "slot" => timerI \in Slots)
    /\ step[Timer] # "idle" => timerPc = "logoff"

ClientsTyped ==
    /\ link \in [Conns -> {"new", "up", "silent", "closed"}]
    /\ \A c \in Conns : link[c] = "new" => pc[c] = "none"
    /\ inbox \in [Conns -> Seq(Messages)]
    /\ polled \in [Conns -> BOOLEAN]
    /\ running \in BOOLEAN
    /\ budget \in Nat
    /\ mishaps \subseteq {"doubled", "lost", "misread"}
    /\ asked \subseteq Conns

TypeOK == TableTyped /\ ThreadsTyped /\ ClientsTyped

\* A slot whose socket no thread has closed and not taken out yet.
Settled == {i \in Live : \A t \in Closers : ~(at[t] = i /\ step[t] = "sock")}

\* Until two threads have emptied one slot at once: but for the moment between
\* close and sock = -1, no two slots share a socket and no slot keeps one that
\* is closed, although the kernel hands a closed descriptor's number to the next
\* client at once and a thread may close what a slot has come to hold meanwhile.
SlotsOwnSockets ==
    "doubled" \notin mishaps =>
        /\ \A i \in Settled : owner[sock[i]] # NoConn
        /\ \A i, j \in Settled : sock[i] = sock[j] => i = j

\* get_dest ends its scan at the first socket above highest_sock.  Once a new
\* socket has been compared with it, and as long as each comparison found the
\* socket it was for, that never hides a slot: if any slot has the dest, the
\* scan ends at one that has it.
GetDestFinds ==
    "misread" \notin mishaps /\ accPc \notin {"compare", "raise"} =>
        \A i \in Slots, j \in 0 .. MaxThreads :
            IsGetDest(dest[i], j) => j \in Slots /\ dest[j] = dest[i]

\* The threads that have taken a slot out of the table and not out of the count.
Uncounting == {t \in Closers : step[t] \in {"dest", "name", "load", "store"} /\ Job(t) # "all"}

\* As long as no two threads emptied one slot at once and no ++ or -- was lost,
\* no_threads counts every live slot and every slot some thread is about to
\* count down (the newest may be filled in and not counted yet).  The timer,
\* get_dest's callers and DISCONNECT_ALL all trust it as an upper bound.
LiveWithinCount ==
    mishaps \intersect {"doubled", "lost"} = {} =>
        Cardinality(Live) + Cardinality(Uncounting)
            <= noThreads + (IF accPc \in {"accept", "sock"} THEN 0 ELSE 1)

\* c is in a slot the timer's loop goes over.
Listed(c) == \E i \in Live : i < noThreads /\ owner[sock[i]] = c

\* The timer gets to every counted slot: a client that is up and has answered so
\* far is sent SEND_STATUS again, whatever logoffs do to the bounds of the loop
\* meanwhile, unless it leaves the list first (AskedFirst says how it may).
CountedAreAsked ==
    \A c \in Conns :
        (Listed(c) /\ link[c] = "up" /\ ~polled[c])
            ~> (~running \/ polled[c] \/ link[c] # "up" \/ ~Listed(c))

\* Once all clients are gone, none of them stays in a counted slot.
DeadAreLoggedOff ==
    (\A c \in Conns : link[c] \in {"silent", "closed"})
        ~> (~running \/ \A i \in Live : i >= noThreads)

-----------------------------------------------------------------------------
(* What comments and the README say of this code and it does not do *)

\* The timer takes slot timerI for dead.
TakesForDead == timerPc = "ask" /\ timerPc' = "logoff"

\* tasks.h: an UPDATE_STATUS clears dirty_flag "so we know the client is
\* responding (alive)".  So the timer must not log off a client that is up and
\* has answered (under Prompt: every SEND_STATUS) in time.
RespondersStay ==
    [][TakesForDead => \A c \in Peers(timerI) : link[c] # "up"]_vars

\* thread_server.c: "periodically send a SEND_STATUS to each client and see if
\* it responds".  So the timer must not take a client for dead that it has never
\* sent one.
AskedFirst ==
    [][TakesForDead => Peers(timerI) \subseteq asked]_vars

=============================================================================
