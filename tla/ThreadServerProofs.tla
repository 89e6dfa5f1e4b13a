------------------------- MODULE ThreadServerProofs -------------------------
(***************************************************************************)
(* Proofs about ThreadServer for every set of connections, every table     *)
(* size and every mixture of commands and failures: the types, the sockets *)
(* of the slots, get_dest's shortcut and the count of live slots, each as  *)
(* long as the accident that breaks it has not happened.                   *)
(***************************************************************************)
EXTENDS ThreadServer, FiniteSetTheorems, TLAPS

\* no_threads is counted down after DISCONNECT and logoff_client only.
UncountsOne == \A t \in Closers : step[t] \in {"load", "store"} => Job(t) # "all"

Held(t) == step[t] \in {"send", "close", "sock"}

\* Until two threads took one slot on, a slot that is being emptied is still
\* live and has one thread that empties it.
HeldApart ==
    "doubled" \notin mishaps =>
        /\ \A t \in Closers : Held(t) => at[t] \in Live
        /\ \A t, u \in Closers : Held(t) /\ Held(u) /\ at[t] = at[u] => t = u

\* Between accept and the store into the table the new descriptor is open and in
\* nobody's slot, so whoever closes sockets meanwhile does not close it.
AcceptedIsFresh ==
    "doubled" \notin mishaps /\ accPc = "sock" =>
        /\ owner[fd[accConn]] # NoConn
        /\ \A i \in Settled : sock[i] # fd[accConn]

\* highest_sock is never lowered and raised to each socket after it is stored.
SocketsBounded ==
    "misread" \notin mishaps =>
        /\ \A i \in Slots : \/ sock[i] <= highestSock
                            \/ accPc \in {"compare", "raise"} /\ sock[i] = fd[accConn]
        /\ accPc = "raise" => fd[accConn] > highestSock

Shared == /\ UncountsOne /\ HeldApart /\ SlotsOwnSockets /\ AcceptedIsFresh
          /\ SocketsBounded /\ LiveWithinCount

IInv == TypeOK /\ Shared

-----------------------------------------------------------------------------
(* Sets and messages *)

\* Any set of slots or of threads is finite and has a number of elements.
LEMMA FiniteSets ==
    /\ \A S \in SUBSET Slots : IsFiniteSet(S) /\ Cardinality(S) \in Nat
    /\ \A S \in SUBSET Closers : IsFiniteSet(S) /\ Cardinality(S) \in Nat
<1>1. IsFiniteSet(Slots)
  BY FS_Interval, ConstantsAssumption DEF Slots
<1>2. IsFiniteSet({Timer, Tester}) /\ IsFiniteSet(Conns)
  <2>1. IsFiniteSet({Timer})
    BY FS_Singleton
  <2>2. IsFiniteSet({Timer} \union {Tester})
    BY <2>1, FS_Singleton, FS_Union
  <2>3. {Timer} \union {Tester} = {Timer, Tester}
    OBVIOUS
  <2> QED
    BY <2>2, <2>3, ConstantsAssumption
<1>3. IsFiniteSet(Closers)
  BY <1>2, FS_Union DEF Closers
<1> QED
  BY <1>1, <1>3, FS_Subset, FS_CardinalityType

\* The kind of a message tells which fields it has.
LEMMA MessageFields ==
    ASSUME NEW m \in Messages
    PROVE  /\ m.kind \in {"name", "update"} => m.name \in Names \union {CutName}
           /\ m.kind \in {"route", "list", "disconnect"} => m.dest \in Dests
  BY DEF Messages

\* Reading or appending one message leaves a queue of messages.
LEMMA Queues ==
    ASSUME NEW q \in Seq(Messages)
    PROVE  /\ q # <<>> => Head(q) \in Messages /\ Tail(q) \in Seq(Messages)
           /\ \A m \in Messages : Append(q, m) \in Seq(Messages)
  OBVIOUS

\* get_dest's scan and the threads' look-up find slots of the table.
LEMMA SlotZero == 0 \in Slots
  BY ConstantsAssumption DEF Slots

\* Descriptors are positive.
LEMMA FdNumbers == Fds \subseteq Nat \ {0}
  BY ConstantsAssumption, FS_CardinalityType DEF Fds

\* A live slot holds a descriptor.
LEMMA LiveFds == ASSUME TypeOK, NEW i \in Live PROVE i \in Slots /\ sock[i] \in Fds
  BY FdNumbers DEF Live, TypeOK, TableTyped

\* The threads are different from each other.
LEMMA ThreadsApart ==
    /\ Timer \in Closers /\ Tester \in Closers /\ Conns \subseteq Closers
    /\ Closers \subseteq Writers /\ Acceptor \in Writers /\ Acceptor \notin Closers
    /\ Timer \notin Conns /\ Tester \notin Conns /\ Timer # Tester
    /\ NoConn \notin Conns
  BY ConstantsAssumption DEF Closers, Writers

-----------------------------------------------------------------------------
(* The types: new_sock_thread *)

USE DEF TableTyped, ThreadsTyped, ClientsTyped

LEMMA InitType == Init => TypeOK
  BY SlotZero, ThreadsApart, ConstantsAssumption DEF Init, TypeOK

\* What is sent reaches the connection at the other end.
LEMMA PeersType == ASSUME TypeOK, NEW i PROVE Peers(i) \subseteq Conns
  BY LiveFds DEF Peers, TypeOK

LEMMA SendingType == ASSUME TypeOK, NEW i, Sending(i) PROVE running' \in BOOLEAN
  BY DEF Sending, TypeOK

\* What a thread had loaded is forgotten.
LEMMA StoredType ==
    ASSUME NEW r \in [Writers -> Int], NEW t
    PROVE  [r EXCEPT ![t] = 0] \in [Writers -> Int]
<1> DEFINE s == [r EXCEPT ![t] = 0]
<1>1. s = [u \in Writers |-> s[u]]
  OBVIOUS
<1>2. \A u \in Writers : s[u] \in Int
  OBVIOUS
<1> QED
  BY <1>1, <1>2

LEMMA StoresType ==
    ASSUME TypeOK, NEW t \in Writers, NEW n \in Int, Stores(t, n)
    PROVE  /\ noThreads' \in Int /\ reg' \in [Writers -> Int]
           /\ timerPc = "raise" => reg'[Timer] \in 0 .. 2
           /\ mishaps' \subseteq {"doubled", "lost", "misread"}
  BY ThreadsApart DEF Stores, TypeOK

LEMMA AcceptType == ASSUME TypeOK, NEW c \in Conns, Accept(c) PROVE TypeOK'
<1> USE DEF Accept
<1>1. PICK f \in Fds : /\ owner' = [owner EXCEPT ![f] = c]
                       /\ fd' = [fd EXCEPT ![c] = f]
  OBVIOUS
<1>2. [kind |-> "name", name |-> ClientOf[c]] \in Messages
  BY ConstantsAssumption DEF Messages
<1>3. <<[kind |-> "name", name |-> ClientOf[c]]>> \in Seq(Messages)
  BY <1>2
<1>4. inbox' \in [Conns -> Seq(Messages)]
  BY <1>3 DEF TypeOK
<1>5. accConn' \in Conns /\ fd'[accConn'] \in Fds
  BY <1>1 DEF TypeOK
<1> QED
  BY <1>1, <1>4, <1>5 DEF TypeOK, table, globals, closing, timer, histories

LEMMA RegisterSockType == ASSUME TypeOK, RegisterSock PROVE TypeOK'
  BY DEF RegisterSock, Fills, InTable, TypeOK, globals, listeners, closing, timer, clients

LEMMA CompareSockType == ASSUME TypeOK, CompareSock PROVE TypeOK'
<1>1. mishaps' \subseteq {"doubled", "lost", "misread"}
  BY DEF CompareSock, Reads, TypeOK
<1> QED
  BY <1>1 DEF CompareSock, Fills, InTable, TypeOK, table, globals, listeners, closing, timer,
              clients

LEMMA RaiseHighestType == ASSUME TypeOK, RaiseHighest PROVE TypeOK'
<1>1. mishaps' \subseteq {"doubled", "lost", "misread"}
  BY DEF RaiseHighest, Reads, TypeOK
<1> QED
  BY <1>1 DEF RaiseHighest, Fills, InTable, TypeOK, table, listeners, closing, timer, clients

LEMMA RegisterWinType == ASSUME TypeOK, RegisterWin PROVE TypeOK'
  BY DEF RegisterWin, Fills, InTable, TypeOK, globals, listeners, closing, timer, clients

LEMMA RegisterDestType == ASSUME TypeOK, RegisterDest PROVE TypeOK'
<1>1. accConn \in Conns /\ DestOf[accConn] \in Dests
  BY DEF RegisterDest, Fills, TypeOK, Dests
<1> QED
  BY <1>1 DEF RegisterDest, Fills, InTable, TypeOK, globals, listeners, closing, timer, clients

LEMMA LoadCountType == ASSUME TypeOK, LoadCount PROVE TypeOK'
  BY ThreadsApart
  DEF LoadCount, Fills, InTable, TypeOK, table, globals, listeners, closing, timer, clients

LEMMA StoreCountType == ASSUME TypeOK, StoreCount PROVE TypeOK'
<1>1. reg[Acceptor] + 1 \in Int
  BY ThreadsApart DEF TypeOK
<1> QED
  BY <1>1, StoresType, ThreadsApart
  DEF StoreCount, TypeOK, table, listeners, closing, timer, clients

LEMMA RegisterType == ASSUME TypeOK, Register PROVE TypeOK'
  BY RegisterSockType, CompareSockType, RaiseHighestType, RegisterWinType, RegisterDestType,
     LoadCountType, StoreCountType
  DEF Register

-----------------------------------------------------------------------------
(* The types: emptying a slot *)

\* Going to another step changes nothing else of what a thread does.
Stepped ==
    /\ step' \in [Closers -> {"idle", "check", "send", "close", "sock", "dest", "name", "load",
                              "store"}]
    /\ \A c \in Conns : step'[c] # "idle" => pc[c] \in {"logoff", "disconnect", "all"}
    /\ step'[Timer] # "idle" => timerPc = "logoff"

LEMMA ToType ==
    ASSUME TypeOK, NEW t \in Closers, step[t] # "idle",
           NEW s \in {"check", "send", "close", "sock", "dest", "name", "load", "store"},
           To(t, s)
    PROVE  Stepped
  BY ThreadsApart DEF To, TypeOK, Stepped

\* Where a thread stands that empties slots, after any of its steps.
ClosingTyped ==
    /\ pc' \in [Conns -> {"none", "start", "loop", "recv", "torn", "name", "list", "logoff",
                          "disconnect", "all", "done"}]
    /\ \A c \in Conns : pc'[c] \in {"recv", "torn"} \/ pc[c] = "none" => pc'[c] = pc[c]
    /\ step' \in [Closers -> {"idle", "check", "send", "close", "sock", "dest", "name", "load",
                              "store"}]
    /\ \A c \in Conns : step'[c] # "idle" => pc'[c] \in {"logoff", "disconnect", "all"}
    /\ at' \in [Closers -> Slots]
    /\ timerPc' \in {"slot", "raise", "ask", "logoff"}
    /\ timerI' \in Nat /\ (timerPc' # "slot" => timerI' \in Slots)
    /\ step'[Timer] # "idle" => timerPc' = "logoff"
    /\ timerPc' = "raise" => timerPc = "raise"

LEMMA ReturnsType ==
    ASSUME TypeOK, NEW t \in Closers, step[t] # "idle", Returns(t)
    PROVE  ClosingTyped
<1> USE DEF Returns
<1>1. /\ step' = [step EXCEPT ![t] = "idle"]
      /\ step' \in [Closers -> {"idle", "check", "send", "close", "sock", "dest", "name", "load",
                                "store"}]
      /\ at' \in [Closers -> Slots]
  BY SlotZero DEF To, TypeOK
<1>2. /\ timerPc' \in {"slot", "raise", "ask", "logoff"}
      /\ timerI' \in Nat /\ (timerPc' # "slot" => timerI' \in Slots)
      /\ timerPc' = "raise" => timerPc = "raise"
  BY DEF TypeOK, timer
<1>3. step'[Timer] # "idle" => timerPc' = "logoff"
  BY <1>1, ThreadsApart DEF TypeOK, timer
<1>4. pc \in [Conns -> {"none", "start", "loop", "recv", "torn", "name", "list", "logoff",
                       "disconnect", "all", "done"}]
  BY DEF TypeOK
<1>5. t \in Conns => pc[t] \in {"logoff", "disconnect", "all"}
  BY DEF TypeOK
<1>6. /\ pc' \in [Conns -> {"none", "start", "loop", "recv", "torn", "name", "list", "logoff",
                            "disconnect", "all", "done"}]
      /\ \A c \in Conns \ {t} : pc'[c] = pc[c]
      /\ t \in Conns => pc'[t] \in {"done", "loop"}
  BY <1>4
<1>7. \A c \in Conns : step'[c] # "idle" => pc'[c] \in {"logoff", "disconnect", "all"}
  BY <1>1, <1>6, ThreadsApart DEF TypeOK
<1>8. \A c \in Conns : pc'[c] \in {"recv", "torn"} \/ pc[c] = "none" => pc'[c] = pc[c]
  BY <1>5, <1>6
<1> QED
  BY <1>1, <1>2, <1>3, <1>6, <1>7, <1>8 DEF ClosingTyped

LEMMA GoesOnType ==
    ASSUME TypeOK, NEW t \in Closers, step[t] # "idle", GoesOn(t)
    PROVE  ClosingTyped
<1>1. CASE HasNext(at[t])
  <2>1. at[t] + 1 \in Slots
    BY <1>1, ConstantsAssumption DEF HasNext, TypeOK, Slots
  <2>2. To(t, "check") /\ at' = [at EXCEPT ![t] = at[t] + 1] /\ UNCHANGED <<pc, timer>>
    BY <1>1 DEF GoesOn
  <2>3. at' \in [Closers -> Slots]
    BY <2>1, <2>2 DEF TypeOK
  <2>4. Stepped
    BY <2>2, ToType
  <2> QED
    BY <2>2, <2>3, <2>4 DEF Stepped, TypeOK, timer, ClosingTyped
<1>2. CASE ~HasNext(at[t])
  BY <1>2, ReturnsType DEF GoesOn
<1> QED
  BY <1>1, <1>2

LEMMA TakesOnType ==
    ASSUME TypeOK, NEW t \in Closers, step[t] # "idle", NEW i \in Slots,
           NEW s \in {"send", "close"}, Takes(t, i, s), UNCHANGED <<pc, timer>>
    PROVE  ClosingTyped /\ mishaps' \subseteq {"doubled", "lost", "misread"}
<1>1. Stepped
  <2>1. To(t, s)
    BY DEF Takes, To
  <2> QED
    BY <2>1, ToType
<1> QED
  BY <1>1 DEF Takes, Stepped, TypeOK, timer, ClosingTyped

LEMMA CheckNameType == ASSUME TypeOK, NEW t \in Closers, CheckName(t) PROVE TypeOK'
<1> USE DEF CheckName
<1>1. at[t] \in Slots /\ step[t] # "idle"
  BY DEF TypeOK
<1>2. ClosingTyped /\ mishaps' \subseteq {"doubled", "lost", "misread"}
  BY <1>1, TakesOnType, GoesOnType DEF TypeOK
<1> QED
  BY <1>2 DEF ClosingTyped, TypeOK, table, globals, acceptor, clients

LEMMA CheckCountedType == ASSUME TypeOK, NEW t \in Closers, CheckCounted(t) PROVE TypeOK'
<1> USE DEF CheckCounted
<1>1. at[t] \in Slots /\ step[t] # "idle"
  BY DEF TypeOK
<1>2. ClosingTyped /\ mishaps' \subseteq {"doubled", "lost", "misread"}
  BY <1>1, TakesOnType, GoesOnType, ReturnsType DEF TypeOK
<1> QED
  BY <1>2 DEF ClosingTyped, TypeOK, table, globals, acceptor, clients

LEMMA SendDisconnectType == ASSUME TypeOK, NEW t \in Closers, SendDisconnect(t) PROVE TypeOK'
<1> USE DEF SendDisconnect
<1>1. running' \in BOOLEAN /\ link' \in [Conns -> {"new", "up", "silent", "closed"}]
      /\ \A c \in Conns : link'[c] = "new" => link[c] = "new"
  BY SendingType DEF TypeOK
<1>2. Stepped
  BY ToType
<1> QED
  BY <1>1, <1>2 DEF Stepped, TypeOK, table, globals, acceptor, listeners, timer, histories

LEMMA CloseSockType == ASSUME TypeOK, NEW t \in Closers, CloseSock(t) PROVE TypeOK'
<1> USE DEF CloseSock
<1>1. owner' \in [Fds -> Conns \union {NoConn}]
  BY DEF TypeOK
<1>2. Stepped
  BY ToType
<1> QED
  BY <1>1, <1>2 DEF Stepped, TypeOK, table, globals, acceptor, listeners, timer, clients, histories

LEMMA ClearSockType == ASSUME TypeOK, NEW t \in Closers, ClearSock(t) PROVE TypeOK'
<1> USE DEF ClearSock, WithoutSock
<1>1. sock' \in [Slots -> {-1} \union Fds]
  BY DEF TypeOK
<1>2. Stepped
  BY ToType
<1> QED
  BY <1>1, <1>2 DEF Stepped, TypeOK, globals, acceptor, listeners, timer, clients, histories

LEMMA ClearDestType == ASSUME TypeOK, NEW t \in Closers, ClearDest(t) PROVE TypeOK'
<1> USE DEF ClearDest
<1>1. dest' \in [Slots -> {-1} \union Dests]
  BY DEF TypeOK
<1>2. Stepped
  BY ToType
<1> QED
  BY <1>1, <1>2 DEF Stepped, TypeOK, globals, acceptor, listeners, timer, clients, histories

LEMMA ClearNameType == ASSUME TypeOK, NEW t \in Closers, ClearName(t) PROVE TypeOK'
<1> USE DEF ClearName
<1>1. name' \in [Slots -> {NoName, CutName} \union Names]
  BY DEF TypeOK
<1>2. ClosingTyped
  <2>1. CASE Job(t) = "all"
    BY <2>1, GoesOnType
  <2>2. CASE Job(t) # "all"
    <3>1. Stepped /\ UNCHANGED <<at, pc, timer>>
      BY <2>2, ToType
    <3> QED
      BY <3>1 DEF Stepped, TypeOK, timer, ClosingTyped
  <2> QED
    BY <2>1, <2>2
<1> QED
  BY <1>1, <1>2 DEF ClosingTyped, TypeOK, globals, acceptor, clients, histories

LEMMA LoadUncountType == ASSUME TypeOK, NEW t \in Closers, LoadUncount(t) PROVE TypeOK'
<1> USE DEF LoadUncount
<1>1. reg' \in [Writers -> Int] /\ (timerPc = "raise" => reg'[Timer] \in 0 .. 2)
  BY ThreadsApart DEF TypeOK
<1>2. Stepped
  BY ToType
<1> QED
  BY <1>1, <1>2 DEF Stepped, TypeOK, table, globals, acceptor, listeners, timer, clients, histories

LEMMA StoreUncountType == ASSUME TypeOK, NEW t \in Closers, StoreUncount(t) PROVE TypeOK'
<1> USE DEF StoreUncount
<1>1. t \in Writers /\ reg[t] - 1 \in Int
  BY ThreadsApart DEF TypeOK
<1>2. ClosingTyped
  BY GoesOnType, ReturnsType
<1>3. /\ noThreads' \in Int /\ reg' \in [Writers -> Int]
      /\ timerPc = "raise" => reg'[Timer] \in 0 .. 2
      /\ mishaps' \subseteq {"doubled", "lost", "misread"}
  BY <1>1, StoresType
<1> QED
  BY <1>2, <1>3 DEF ClosingTyped, TypeOK, table, acceptor, clients

LEMMA ClosingType == ASSUME TypeOK, NEW t \in Closers, Closing(t) PROVE TypeOK'
  BY CheckNameType, CheckCountedType, SendDisconnectType, CloseSockType, ClearSockType,
     ClearDestType, ClearNameType, LoadUncountType, StoreUncountType
  DEF Closing

-----------------------------------------------------------------------------
(* The types: listen_thread *)

\* A thread that goes on elsewhere than to a read has no connection to read.
Called(c, l) ==
    /\ step[c] = "idle"
    /\ pc' \in [Conns -> {"none", "start", "loop", "recv", "torn", "name", "list", "logoff",
                          "disconnect", "all", "done"}]
    /\ \A d \in Conns \ {c} : pc'[d] = pc[d]
    /\ pc'[c] = l
    /\ index' \in [Conns -> Slots]
    /\ src' \in [Conns -> Conns \union {NoConn}]
    /\ \A d \in Conns : pc'[d] \in {"recv", "torn"} => src'[d] \in Conns
    /\ \A d \in Conns : link[d] = "new" => pc'[d] = "none"
    /\ \A d \in Conns : step[d] # "idle" => pc'[d] \in {"logoff", "disconnect", "all"}

LEMMA CallsType ==
    ASSUME TypeOK, NEW c \in Conns, pc[c] \notin {"none", "logoff", "disconnect", "all"},
           NEW l \in {"loop", "list", "logoff", "disconnect", "all"}, Calls(c, l)
    PROVE  Called(c, l)
<1> USE DEF Called
<1>1. step[c] = "idle"
  BY ThreadsApart DEF TypeOK
<1>2. /\ pc' = [pc EXCEPT ![c] = l] /\ src' = [src EXCEPT ![c] = NoConn]
      /\ index' = [index EXCEPT ![c] = 0]
  BY DEF Calls, Goto
<1>3. /\ pc' \in [Conns -> {"none", "start", "loop", "recv", "torn", "name", "list", "logoff",
                            "disconnect", "all", "done"}]
      /\ src' \in [Conns -> Conns \union {NoConn}]
      /\ index' \in [Conns -> Slots]
  BY <1>2, SlotZero DEF TypeOK
<1>4. \A d \in Conns : /\ d # c => pc'[d] = pc[d] /\ src'[d] = src[d]
                       /\ d = c => pc'[d] = l
  BY <1>2 DEF TypeOK
<1>5. \A d \in Conns : /\ pc[d] \in {"recv", "torn"} => src[d] \in Conns
                       /\ link[d] = "new" => pc[d] = "none"
                       /\ step[d] # "idle" => pc[d] \in {"logoff", "disconnect", "all"}
  BY DEF TypeOK
<1>6. /\ pc'[c] \notin {"recv", "torn"} /\ link[c] # "new"
      /\ \A d \in Conns \ {c} : pc'[d] = pc[d] /\ src'[d] = src[d]
  BY <1>4, <1>5
<1>7. \A d \in Conns : /\ pc'[d] \in {"recv", "torn"} => src'[d] \in Conns
                       /\ link[d] = "new" => pc'[d] = "none"
                       /\ step[d] # "idle" => pc'[d] \in {"logoff", "disconnect", "all"}
  BY <1>1, <1>5, <1>6
<1>8. pc'[c] = l
  BY <1>4
<1> QED
  BY <1>1, <1>3, <1>6, <1>7, <1>8 DEF Called

\* One thread has begun to empty slots.
Begun(t) ==
    /\ step' \in [Closers -> {"idle", "check", "send", "close", "sock", "dest", "name", "load",
                              "store"}]
    /\ at' \in [Closers -> Slots]
    /\ \A u \in Closers \ {t} : step'[u] = step[u]

LEMMA BeginsType ==
    ASSUME TypeOK, NEW t \in Closers, Begins(t)
    PROVE  Begun(t)
  BY SlotZero DEF Begins, To, TypeOK, Begun

LEMMA WinClIndexType ==
    ASSUME TypeOK, NEW i \in Slots, SetWinClIndex(i)
    PROVE  winClIndex' \in {-1} \union Slots
  BY DEF SetWinClIndex, TypeOK

LEMMA StartType == ASSUME TypeOK, NEW c \in Conns, Start(c) PROVE TypeOK'
<1>1. step[c] = "idle" /\ pc' = [pc EXCEPT ![c] = "loop"] /\ pc[c] = "start"
  BY ThreadsApart DEF Start, Goto, TypeOK
<1> QED
  BY <1>1 DEF Start, TypeOK, table, acceptor, closing, timer, clients, histories

\* A failed read ends at the head of the loop or in logoff_client.
LEMMA FailReadType ==
    ASSUME TypeOK, NEW c \in Conns, NEW i \in Slots, FailRead(c, i),
           pc[c] \in {"loop", "recv", "torn"}
    PROVE  TypeOK'
<1> USE DEF FailRead
<1>1. winClIndex' \in {-1} \union Slots
  BY WinClIndexType
<1>2. CASE win[i]
  <2>1. Calls(c, "loop") /\ UNCHANGED closing
    BY <1>2 DEF Again
  <2>2. Called(c, "loop")
    BY <2>1, CallsType
  <2>7. TableTyped'
    BY <2>1, <2>2, <1>1 DEF Called, TypeOK, table, acceptor, closing, timer, clients, histories
  <2>8. ThreadsTyped'
    BY <2>1, <2>2, <1>1 DEF Called, TypeOK, table, acceptor, closing, timer, clients, histories
  <2>9. ClientsTyped'
    BY <2>1, <2>2, <1>1 DEF Called, TypeOK, table, acceptor, closing, timer, clients, histories
  <2> QED
    BY <2>7, <2>8, <2>9 DEF TypeOK
<1>3. CASE ~win[i]
  <2>1. Called(c, "logoff") /\ Begun(c)
    BY <1>3, CallsType, BeginsType, ThreadsApart
  <2>2. \A d \in Conns : step'[d] # "idle" => pc'[d] \in {"logoff", "disconnect", "all"}
    BY <2>1, ThreadsApart DEF Called, Begun
  <2>3. step'[Timer] = step[Timer]
    BY <2>1, ThreadsApart DEF Begun
  <2>7. TableTyped'
    BY <2>1, <2>2, <2>3, <1>1
    DEF Called, Begun, TypeOK, table, acceptor, timer, clients, histories
  <2>8. ThreadsTyped'
    BY <2>1, <2>2, <2>3, <1>1
    DEF Called, Begun, TypeOK, table, acceptor, timer, clients, histories
  <2>9. ClientsTyped'
    BY <2>1, <2>2, <2>3, <1>1
    DEF Called, Begun, TypeOK, table, acceptor, timer, clients, histories
  <2> QED
    BY <2>7, <2>8, <2>9 DEF TypeOK
<1> QED
  BY <1>2, <1>3

LEMMA LoopType == ASSUME TypeOK, NEW c \in Conns, Loop(c) PROVE TypeOK'
<1>1. PICK i \in Slots :
        \/ /\ Readable(ReadFd(c, i))
           /\ index' = [index EXCEPT ![c] = i]
           /\ src' = [src EXCEPT ![c] = owner[ReadFd(c, i)]]
           /\ Goto(c, "recv")
           /\ UNCHANGED <<table, globals, owner, acceptor, fd, closing, reg, timer, clients,
                          running, budget, histories>>
        \/ FailRead(c, i)
  BY DEF Loop
<1>2. pc[c] = "loop" /\ step[c] = "idle"
  BY ThreadsApart DEF Loop, TypeOK
<1>3. CASE FailRead(c, i)
  BY <1>2, <1>3, FailReadType
<1>4. CASE /\ Readable(ReadFd(c, i))
           /\ index' = [index EXCEPT ![c] = i]
           /\ src' = [src EXCEPT ![c] = owner[ReadFd(c, i)]]
           /\ Goto(c, "recv")
           /\ UNCHANGED <<table, globals, owner, acceptor, fd, closing, reg, timer, clients,
                          running, budget, histories>>
  <2>1. owner[ReadFd(c, i)] \in Conns
    BY <1>4 DEF Readable, TypeOK
  <2> QED
    BY <1>2, <1>4, <2>1
    DEF TypeOK, Goto, table, globals, acceptor, closing, timer, clients, histories
<1> QED
  BY <1>1, <1>3, <1>4

LEMMA EofType == ASSUME TypeOK, NEW c \in Conns, Eof(c) PROVE TypeOK'
  BY FailReadType DEF Eof, TypeOK

LEMMA FailTornType == ASSUME TypeOK, NEW c \in Conns, FailTorn(c) PROVE TypeOK'
  BY FailReadType DEF FailTorn, TypeOK

\* Taking a message off the connection a thread reads.
LEMMA TakeType ==
    ASSUME TypeOK, NEW c \in Conns, Take(c)
    PROVE  /\ src[c] \in Conns /\ index[c] \in Slots
           /\ pc[c] = "recv" /\ step[c] = "idle"
           /\ Head(inbox[src[c]]) \in Messages
           /\ inbox' \in [Conns -> Seq(Messages)]
<1>1. src[c] \in Conns /\ index[c] \in Slots /\ pc[c] = "recv" /\ step[c] = "idle"
  BY ThreadsApart DEF TypeOK, Take
<1>2. inbox[src[c]] \in Seq(Messages) /\ inbox[src[c]] # <<>>
  BY <1>1 DEF TypeOK, Take
<1> QED
  BY <1>1, <1>2, Queues DEF TypeOK, Take

LEMMA TornReadType == ASSUME TypeOK, NEW c \in Conns, TornRead(c) PROVE TypeOK'
<1> USE DEF TornRead
<1>1. PICK d \in Conns \ {c} :
        /\ pc[d] \in {"recv", "torn"} /\ src[d] = src[c]
        /\ pc' = [pc EXCEPT ![c] = "torn", ![d] = "torn"]
  OBVIOUS
<1>2. /\ inbox' \in [Conns -> Seq(Messages)] /\ src[c] \in Conns
      /\ step[c] = "idle" /\ step[d] = "idle" /\ pc[c] = "recv"
  BY <1>1, TakeType, ThreadsApart DEF TypeOK
<1>3. pc' \in [Conns -> {"none", "start", "loop", "recv", "torn", "name", "list", "logoff",
                         "disconnect", "all", "done"}]
  <2>1. pc \in [Conns -> {"none", "start", "loop", "recv", "torn", "name", "list", "logoff",
                         "disconnect", "all", "done"}]
    BY DEF TypeOK
  <2> QED
    BY <1>1, <2>1
<1>4. src[d] \in Conns /\ UNCHANGED src /\ pc[d] \in {"recv", "torn"}
  BY <1>1, <1>2
<1>5. \A e \in Conns : /\ pc'[e] \in {"recv", "torn"} => src'[e] \in Conns
                       /\ step[e] # "idle" => pc'[e] \in {"logoff", "disconnect", "all"}
                       /\ link[e] = "new" => pc'[e] = "none"
  <2>1. \A e \in Conns : pc'[e] = IF e \in {c, d} THEN "torn" ELSE pc[e]
    BY <1>1 DEF TypeOK
  <2> QED
    BY <1>2, <1>4, <2>1 DEF TypeOK
<1>7. TableTyped'
  BY DEF TypeOK, table, globals
<1>6. \A e \in Conns : /\ pc'[e] \in {"recv", "torn"} => src'[e] \in Conns
                       /\ step[e] # "idle" => pc'[e] \in {"logoff", "disconnect", "all"}
  BY <1>5
<1>8. ThreadsTyped'
  <2> HIDE DEF TornRead
  <2>1. /\ UNCHANGED <<acceptor, fd, index, src, closing, reg, timer>>
        /\ ThreadsTyped
    BY DEF TornRead, TypeOK
  <2> QED
    BY <2>1, <1>3, <1>6 DEF ThreadsTyped, acceptor, closing, timer
<1>9. ClientsTyped'
  BY <1>2, <1>5 DEF TypeOK, histories
<1> QED
  BY <1>7, <1>8, <1>9 DEF TypeOK

\* What every command handler keeps, whatever it does to the rest.
Handled(c, kind) ==
    /\ src[c] \in Conns /\ index[c] \in Slots
    /\ pc[c] = "recv" /\ step[c] = "idle"
    /\ Head(inbox[src[c]]) \in Messages /\ Head(inbox[src[c]]).kind = kind
    /\ inbox' \in [Conns -> Seq(Messages)]
    /\ winClIndex' \in {-1} \union Slots

LEMMA HandlingType ==
    ASSUME TypeOK, NEW c \in Conns, NEW kind, Handling(c, kind)
    PROVE  Handled(c, kind)
  BY TakeType, WinClIndexType DEF Handling, Handled

\* A command whose handler goes back to the head of the loop.
LEMMA AgainType ==
    ASSUME TypeOK, NEW c \in Conns, NEW kind, Handling(c, kind), Again(c),
           running' \in BOOLEAN, stamped' \in [Slots -> BOOLEAN], dirty' \in [Slots -> 0 .. 2],
           UNCHANGED <<clientName, closing, mishaps>>
    PROVE  TypeOK'
<1>1. Handled(c, kind)
  BY HandlingType
<1>2. Called(c, "loop")
  BY <1>1, CallsType DEF Again, Handled
<1>7. TableTyped'
  BY <1>1, <1>2 DEF Handling, Handled, Called, TypeOK, acceptor, closing, timer
<1>8. ThreadsTyped'
  BY <1>1, <1>2 DEF Handling, Handled, Called, TypeOK, acceptor, closing, timer
<1>9. ClientsTyped'
  BY <1>1, <1>2 DEF Handling, Handled, Called, TypeOK, acceptor, closing, timer
<1> QED
  BY <1>7, <1>8, <1>9 DEF TypeOK

LEMMA SetClientNameType == ASSUME TypeOK, NEW c \in Conns, SetClientName(c) PROVE TypeOK'
<1> USE DEF SetClientName
<1>1. Handled(c, "name")
  BY HandlingType
<1>3. clientName' \in Names \union {CutName}
  BY <1>1, MessageFields DEF Handled
<1>2. /\ \A d \in Conns : pc'[d] = IF d = c THEN "name" ELSE pc[d]
      /\ pc' \in [Conns -> {"none", "start", "loop", "recv", "torn", "name", "list", "logoff",
                            "disconnect", "all", "done"}]
      /\ src' \in [Conns -> Conns \union {NoConn}]
      /\ \A d \in Conns \ {c} : src'[d] = src[d]
  BY DEF Goto, TypeOK
<1>7. TableTyped'
  BY <1>1, <1>2, <1>3 DEF Handling, Handled, TypeOK, acceptor, closing, timer
<1>8. ThreadsTyped'
  BY <1>1, <1>2, <1>3 DEF Handling, Handled, TypeOK, acceptor, closing, timer
<1>9. ClientsTyped'
  BY <1>1, <1>2, <1>3 DEF Handling, Handled, TypeOK, acceptor, closing, timer
<1> QED
  BY <1>7, <1>8, <1>9 DEF TypeOK

LEMMA StoreNameType == ASSUME TypeOK, NEW c \in Conns, StoreName(c) PROVE TypeOK'
<1> USE DEF StoreName
<1>1. name' \in [Slots -> {NoName, CutName} \union Names]
  BY DEF TypeOK
<1>2. Called(c, "loop")
  BY CallsType DEF Again
<1>7. TableTyped'
  BY <1>1, <1>2 DEF Called, TypeOK, globals, acceptor, closing, timer, clients, histories
<1>8. ThreadsTyped'
  BY <1>1, <1>2 DEF Called, TypeOK, globals, acceptor, closing, timer, clients, histories
<1>9. ClientsTyped'
  BY <1>1, <1>2 DEF Called, TypeOK, globals, acceptor, closing, timer, clients, histories
<1> QED
  BY <1>7, <1>8, <1>9 DEF TypeOK

LEMMA UpdateStatusType == ASSUME TypeOK, NEW c \in Conns, UpdateStatus(c) PROVE TypeOK'
<1> USE DEF UpdateStatus
<1> DEFINE named == {i \in Slots : name[i] = Head(inbox[src[c]]).name}
           reached == {i \in named : \A j \in named : stamped[j] => i <= j}
<1>1. /\ dirty' = [i \in Slots |-> IF i \in reached THEN 0 ELSE dirty[i]]
      /\ stamped' = [i \in Slots |-> i \in reached \/ stamped[i]]
  OBVIOUS
<1>2. dirty' \in [Slots -> 0 .. 2] /\ stamped' \in [Slots -> BOOLEAN]
  BY <1>1 DEF TypeOK
<1>3. running' \in BOOLEAN
  BY SendingType DEF TypeOK
<1> QED
  BY <1>2, <1>3, AgainType

LEMMA ForwardType ==
    ASSUME TypeOK, NEW c \in Conns, NEW kind, Handling(c, kind), Forward(c)
    PROVE  TypeOK'
<1> USE DEF Forward
<1>1. running' \in BOOLEAN
  BY SendingType DEF TypeOK
<1> QED
  BY <1>1, AgainType DEF TypeOK

LEMMA RouteType == ASSUME TypeOK, NEW c \in Conns, Route(c) PROVE TypeOK'
  BY ForwardType DEF Route

LEMMA SendClientListType == ASSUME TypeOK, NEW c \in Conns, SendClientList(c) PROVE TypeOK'
<1>1. CASE Forward(c)
  BY <1>1, ForwardType DEF SendClientList
<1>2. CASE /\ Calls(c, "list")
           /\ at' = [at EXCEPT ![c] = 0]
           /\ UNCHANGED <<step, stamped, dirty, clientName, running, mishaps>>
  <2>1. at' \in [Closers -> Slots]
    BY <1>2, SlotZero DEF TypeOK
  <2>2. Handling(c, "list") /\ Handled(c, "list")
    BY HandlingType DEF SendClientList
  <2>3. Called(c, "list")
    BY <1>2, <2>2, CallsType DEF Handled
  <2>7. TableTyped'
    BY <1>2, <2>1, <2>2, <2>3 DEF Handling, Handled, Called, TypeOK, acceptor, timer
  <2>8. ThreadsTyped'
    BY <1>2, <2>1, <2>2, <2>3 DEF Handling, Handled, Called, TypeOK, acceptor, timer
  <2>9. ClientsTyped'
    BY <1>2, <2>1, <2>2, <2>3 DEF Handling, Handled, Called, TypeOK, acceptor, timer
  <2> QED
    BY <2>7, <2>8, <2>9 DEF TypeOK
<1> QED
  BY <1>1, <1>2 DEF SendClientList

LEMMA ListSlotType == ASSUME TypeOK, NEW c \in Conns, ListSlot(c) PROVE TypeOK'
<1> USE DEF ListSlot
<1>1. running' \in BOOLEAN
  BY SendingType DEF TypeOK
<1>2. CASE HasNext(at[c])
  <2>1. at \in [Closers -> Slots] /\ at[c] \in Slots
    BY ThreadsApart DEF TypeOK
  <2>2. at[c] + 1 \in Slots
    BY <1>2, <2>1, ConstantsAssumption DEF HasNext, Slots
  <2>3. at' = [at EXCEPT ![c] = at[c] + 1] /\ UNCHANGED <<pc, index, src>>
    BY <1>2
  <2>4. at' \in [Closers -> Slots]
    BY <2>1, <2>2, <2>3
  <2> QED
    BY <1>1, <2>3, <2>4 DEF TypeOK, table, globals, acceptor, timer, clients, histories
<1>3. CASE ~HasNext(at[c])
  <2>1. at \in [Closers -> Slots]
    BY DEF TypeOK
  <2>2. at' = [at EXCEPT ![c] = 0] /\ Again(c)
    BY <1>3
  <2>3. at' \in [Closers -> Slots]
    BY <2>1, <2>2, SlotZero
  <2>4. Called(c, "loop")
    BY <2>2, CallsType DEF Again
  <2>7. TableTyped'
    BY <1>1, <2>3, <2>4 DEF Called, TypeOK, table, globals, acceptor, timer, clients, histories
  <2>8. ThreadsTyped'
    BY <1>1, <2>3, <2>4 DEF Called, TypeOK, table, globals, acceptor, timer, clients, histories
  <2>9. ClientsTyped'
    BY <1>1, <2>3, <2>4 DEF Called, TypeOK, table, globals, acceptor, timer, clients, histories
  <2> QED
    BY <2>7, <2>8, <2>9 DEF TypeOK
<1> QED
  BY <1>2, <1>3

LEMMA DisconnectType == ASSUME TypeOK, NEW c \in Conns, Disconnect(c) PROVE TypeOK'
<1>1. Handling(c, "disconnect") /\ UNCHANGED <<stamped, dirty, clientName, running>>
  BY DEF Disconnect
<1>2. CASE Again(c) /\ UNCHANGED <<closing, mishaps>>
  BY <1>1, <1>2, AgainType DEF TypeOK
<1>3. ASSUME NEW i \in Live, Calls(c, "disconnect"), Takes(c, i, "send") PROVE TypeOK'
  <2>1. c \in Closers /\ i \in Slots
    BY ThreadsApart DEF Live
  <2>2. /\ step' \in [Closers -> {"idle", "check", "send", "close", "sock", "dest", "name",
                                  "load", "store"}]
        /\ \A u \in Closers \ {c} : step'[u] = step[u]
        /\ at' \in [Closers -> Slots]
        /\ mishaps' \subseteq {"doubled", "lost", "misread"}
    BY <1>3, <2>1 DEF Takes, TypeOK
  <2>3. Handled(c, "disconnect")
    BY <1>1, HandlingType
  <2>4. Called(c, "disconnect")
    BY <1>3, <2>3, CallsType DEF Handled
  <2>5. \A d \in Conns : step'[d] # "idle" => pc'[d] \in {"logoff", "disconnect", "all"}
    BY <2>2, <2>4, ThreadsApart DEF Called
  <2>6. step'[Timer] = step[Timer]
    BY <2>2, ThreadsApart
  <2>7. TableTyped'
    BY <1>1, <2>2, <2>3, <2>4, <2>5, <2>6 DEF Handling, Handled, Called, TypeOK, acceptor, timer
  <2>8. ThreadsTyped'
    BY <1>1, <2>2, <2>3, <2>4, <2>5, <2>6 DEF Handling, Handled, Called, TypeOK, acceptor, timer
  <2>9. ClientsTyped'
    BY <1>1, <2>2, <2>3, <2>4, <2>5, <2>6 DEF Handling, Handled, Called, TypeOK, acceptor, timer
  <2> QED
    BY <2>7, <2>8, <2>9 DEF TypeOK
<1> QED
  BY <1>2, <1>3 DEF Disconnect

LEMMA DisconnectAllType == ASSUME TypeOK, NEW c \in Conns, DisconnectAll(c) PROVE TypeOK'
<1> USE DEF DisconnectAll
<1>1. Handled(c, "disconnect_all")
  BY HandlingType
<1>2. Called(c, "all")
  BY <1>1, CallsType DEF Handled
<1>3. Begun(c)
  BY BeginsType, ThreadsApart
<1>4. step'[Timer] = step[Timer]
  BY <1>3, ThreadsApart DEF Begun
<1>5. \A d \in Conns : step'[d] # "idle" => pc'[d] \in {"logoff", "disconnect", "all"}
  BY <1>2, <1>3, ThreadsApart DEF Called, Begun
<1>7. TableTyped'
  BY <1>1, <1>2, <1>3, <1>4, <1>5
  DEF Handling, Handled, Called, Begun, TypeOK, acceptor, timer
<1>8. ThreadsTyped'
  BY <1>1, <1>2, <1>3, <1>4, <1>5
  DEF Handling, Handled, Called, Begun, TypeOK, acceptor, timer
<1>9. ClientsTyped'
  BY <1>1, <1>2, <1>3, <1>4, <1>5
  DEF Handling, Handled, Called, Begun, TypeOK, acceptor, timer
<1> QED
  BY <1>7, <1>8, <1>9 DEF TypeOK

LEMMA ListenType == ASSUME TypeOK, NEW c \in Conns, Listen(c) PROVE TypeOK'
  BY StartType, LoopType, EofType, TornReadType, SetClientNameType, StoreNameType,
     UpdateStatusType, RouteType, SendClientListType, ListSlotType, DisconnectType,
     DisconnectAllType
  DEF Listen

-----------------------------------------------------------------------------
(* The types: timer_thread, tester_thread and the clients *)

\* dirty_flag counts up to where it is compared.
LEMMA RaisedType == ASSUME NEW d \in 0 .. 2 PROVE Raised(d) \in 0 .. 2
  BY DEF Raised

LEMMA SkipSlotType == ASSUME TypeOK, SkipSlot PROVE TypeOK'
  BY DEF SkipSlot, Awake, TypeOK, table, globals, acceptor, listeners, closing, clients, histories

LEMMA LoadDirtyType == ASSUME TypeOK, LoadDirty PROVE TypeOK'
<1> USE DEF LoadDirty
<1>1. timerI \in Slots
  BY DEF Live
<1>2. reg' \in [Writers -> Int] /\ reg'[Timer] \in 0 .. 2
  BY <1>1, ThreadsApart DEF TypeOK
<1> QED
  BY <1>1, <1>2
  DEF Awake, TypeOK, table, globals, acceptor, listeners, closing, clients, histories

LEMMA StoreDirtyType == ASSUME TypeOK, StoreDirty PROVE TypeOK'
<1> USE DEF StoreDirty
<1>1. dirty' \in [Slots -> 0 .. 2]
  BY RaisedType DEF TypeOK
<1>2. reg' \in [Writers -> Int]
  BY StoredType DEF TypeOK
<1>3. step[Timer] = "idle"
  BY DEF TypeOK
<1> QED
  BY <1>1, <1>2, <1>3
  DEF TypeOK, globals, acceptor, listeners, closing, clients, histories

LEMMA PollSlotType == ASSUME TypeOK, PollSlot PROVE TypeOK'
<1> USE DEF PollSlot
<1>1. running' \in BOOLEAN /\ polled' \in [Conns -> BOOLEAN] /\ asked' \subseteq Conns
  BY SendingType, PeersType DEF TypeOK
<1>2. step[Timer] = "idle" /\ timerI' \in Nat
  BY DEF TypeOK
<1> QED
  BY <1>1, <1>2 DEF TypeOK, table, globals, acceptor, listeners, closing

LEMMA LogoffDeadType == ASSUME TypeOK, LogoffDead PROVE TypeOK'
<1> USE DEF LogoffDead
<1>1. timerI \in Slots
  BY DEF TypeOK
<1>2. Begun(Timer)
  BY BeginsType, ThreadsApart
<1>3. \A d \in Conns : step'[d] = step[d]
  BY <1>2, ThreadsApart DEF Begun
<1> QED
  BY <1>1, <1>2, <1>3
  DEF Begun, TypeOK, table, globals, acceptor, listeners, clients, histories

LEMMA TimerRoundType == ASSUME TypeOK, TimerRound PROVE TypeOK'
  BY DEF TimerRound, TypeOK, table, globals, acceptor, listeners, closing, clients, histories

LEMMA PressKeyType == ASSUME TypeOK, PressKey PROVE TypeOK'
<1> USE DEF PressKey
<1>1. Begun(Tester)
  BY BeginsType, ThreadsApart
<1>2. /\ \A d \in Conns : step'[d] = step[d]
      /\ step'[Timer] = step[Timer]
  BY <1>1, ThreadsApart DEF Begun
<1>3. budget' \in Nat
  BY DEF TypeOK
<1> QED
  BY <1>1, <1>2, <1>3
  DEF Begun, TypeOK, table, globals, acceptor, listeners, timer, clients, histories

LEMMA TimerThreadType == ASSUME TypeOK, TimerThread PROVE TypeOK'
  BY SkipSlotType, LoadDirtyType, StoreDirtyType, PollSlotType, LogoffDeadType, TimerRoundType,
     ClosingType, ThreadsApart
  DEF TimerThread

\* What a client writes arrives as one more message.
LEMMA SendsType ==
    ASSUME TypeOK, NEW c \in Conns, NEW m \in Messages, Sends(c, m)
    PROVE  inbox' \in [Conns -> Seq(Messages)]
  BY Queues DEF Sends, TypeOK

LEMMA ClientType == ASSUME TypeOK, NEW c \in Conns, Client(c) PROVE TypeOK'
<1> USE DEF OnlyClients
<1>1. ASSUME Answer(c) PROVE TypeOK'
  <2>1. PICK n \in Names \union {CutName} : Sends(c, [kind |-> "update", name |-> n])
    BY <1>1, ConstantsAssumption DEF Answer
  <2>2. [kind |-> "update", name |-> n] \in Messages
    BY DEF Messages
  <2>3. inbox' \in [Conns -> Seq(Messages)]
    BY <2>1, <2>2, SendsType
  <2>7. TableTyped'
    BY <1>1, <2>3
    DEF Answer, TypeOK, table, globals, acceptor, listeners, closing, timer, histories
  <2>8. ThreadsTyped'
    BY <1>1, <2>3
    DEF Answer, TypeOK, table, globals, acceptor, listeners, closing, timer, histories
  <2>9. ClientsTyped'
    BY <1>1, <2>3
    DEF Answer, TypeOK, table, globals, acceptor, listeners, closing, timer, histories
  <2> QED
    BY <2>7, <2>8, <2>9 DEF TypeOK
<1>2. ASSUME Command(c) PROVE TypeOK'
  <2>1. inbox' \in [Conns -> Seq(Messages)]
    BY <1>2, SendsType DEF Command
  <2> QED
    BY <1>2, <2>1
    DEF Command, TypeOK, table, globals, acceptor, listeners, closing, timer, histories
<1>3. ASSUME Fail(c) PROVE TypeOK'
  <2>1. /\ link' \in [Conns -> {"new", "up", "silent", "closed"}]
        /\ \A d \in Conns : link'[d] = "new" => link[d] = "new"
    BY <1>3, ConstantsAssumption DEF Fail, TypeOK
  <2> QED
    BY <1>3, <2>1
    DEF Fail, TypeOK, table, globals, acceptor, listeners, closing, timer, histories
<1> QED
  BY <1>1, <1>2, <1>3 DEF Client

LEMMA StutterType == ASSUME TypeOK, UNCHANGED vars PROVE TypeOK'
  BY DEF TypeOK, vars, table, globals, acceptor, listeners, closing, timer, clients, histories

HIDE DEF TableTyped, ThreadsTyped, ClientsTyped

-----------------------------------------------------------------------------
(* What the threads that empty slots hold *)

\* Nothing that the invariant says depends on where such a thread is.
Off(t) == /\ step[t] \notin {"send", "close", "sock", "load", "store"}
          /\ step[t] \in {"dest", "name"} => Job(t) = "all"

\* A thread that holds, or is about to count down, what it did before.
Steady(t) ==
    \/ step'[t] = step[t] /\ at'[t] = at[t] /\ Job(t)' = Job(t)
    \/ Off(t) /\ Off(t)'
    \/ step[t] \in {"send", "close"} /\ step'[t] \in {"send", "close"} /\ at'[t] = at[t]
    \/ /\ step[t] \in {"dest", "name", "load", "store"} /\ Job(t) # "all"
       /\ step'[t] \in {"dest", "name", "load", "store"} /\ Job(t)' = Job(t)

\* Any other thread than t stays as it is.
Alone(t) ==
    \A u \in Closers \ {t} : step'[u] = step[u] /\ at'[u] = at[u] /\ Job(u)' = Job(u)

Unmoved ==
    /\ UncountsOne' /\ Uncounting' = Uncounting
    /\ \A t \in Closers : /\ Held(t)' <=> Held(t)
                          /\ Held(t) => at'[t] = at[t]
                          /\ step'[t] = "sock" <=> step[t] = "sock"

LEMMA SteadyThreads ==
    ASSUME UncountsOne, \A t \in Closers : Steady(t)
    PROVE  Unmoved
<1>1. \A t \in Closers : /\ Held(t)' <=> Held(t)
                         /\ Held(t) => at'[t] = at[t]
                         /\ step'[t] = "sock" <=> step[t] = "sock"
  BY DEF Steady, Off, Held
<1>2. \A t \in Closers : t \in Uncounting' <=> t \in Uncounting
  BY DEF Steady, Off, Uncounting, UncountsOne
<1>3. Uncounting' = Uncounting
  BY <1>2 DEF Uncounting
<1>4. UncountsOne'
  BY DEF Steady, Off, UncountsOne
<1> QED
  BY <1>1, <1>3, <1>4 DEF Unmoved

\* A step that leaves the slots' sockets and these threads alone.
LEMMA SameHeld ==
    ASSUME Unmoved, HeldApart, UNCHANGED sock, "doubled" \in mishaps => "doubled" \in mishaps'
    PROVE  HeldApart' /\ Live' = Live /\ Settled' = Settled
<1>1. Live' = Live
  BY DEF Live
<1>2. HeldApart'
  BY <1>1 DEF Unmoved, HeldApart
<1>3. Settled' = Settled
  <2>1. Settled' \subseteq Settled /\ Settled \subseteq Settled'
    BY <1>1 DEF Settled, Unmoved, Held
  <2> QED
    BY <2>1
<1> QED
  BY <1>1, <1>2, <1>3

\* new_sock_thread filling in fields that the invariant does not look at.
SamePlace == \/ accPc' = accPc
             \/ /\ accPc \in {"win", "dest", "load", "store"}
                /\ accPc' \in {"win", "dest", "load", "store"}

LEMMA Quiet ==
    ASSUME Shared, \A t \in Closers : Steady(t), SamePlace,
           UNCHANGED <<sock, owner, noThreads, highestSock, accConn, fd, mishaps>>
    PROVE  Shared'
<1>1. Unmoved
  BY SteadyThreads DEF Shared
<1>2. HeldApart' /\ Live' = Live /\ Settled' = Settled
  BY <1>1, SameHeld DEF Shared
<1>3. SlotsOwnSockets' /\ AcceptedIsFresh' /\ SocketsBounded'
  BY <1>2 DEF Shared, SlotsOwnSockets, AcceptedIsFresh, SocketsBounded, SamePlace
<1>4. LiveWithinCount'
  BY <1>1, <1>2 DEF Shared, LiveWithinCount, SamePlace, Unmoved
<1> QED
  BY <1>1, <1>2, <1>3, <1>4 DEF Shared, Unmoved

\* All a step has to keep if no thread but t does anything to the slots, and t
\* only begins, ends or passes a slot over.
LEMMA QuietThread ==
    ASSUME Shared, NEW t \in Closers, Alone(t), Steady(t),
           UNCHANGED <<sock, owner, noThreads, highestSock, acceptor, fd, mishaps>>
    PROVE  Shared'
<1>1. \A u \in Closers : Steady(u)
  BY DEF Alone, Steady
<1> QED
  BY <1>1, Quiet DEF SamePlace, acceptor

-----------------------------------------------------------------------------
(* new_sock_thread *)

\* What the kernel hands out is nobody's socket, or no longer anybody's.
LEMMA AcceptShared ==
    ASSUME IInv, NEW c \in Conns, Accept(c)
    PROVE  Shared'
<1> USE DEF Accept
<1>1. \A t \in Closers : Steady(t)
  <2>1. step[c] = "idle"
    BY ThreadsApart DEF IInv, TypeOK, ThreadsTyped, ClientsTyped
  <2>2. \A t \in Conns \ {c} : pc'[t] = pc[t]
    BY DEF IInv, TypeOK, ThreadsTyped
  <2> QED
    BY <2>1, <2>2, ThreadsApart DEF Steady, Off, Job, closing
<1>2. Unmoved
  BY <1>1, SteadyThreads DEF IInv, Shared
<1>3. HeldApart' /\ Live' = Live /\ Settled' = Settled
  BY <1>2, SameHeld DEF IInv, Shared, table, histories
<1>4. PICK f \in Fds : /\ owner[f] = NoConn
                       /\ owner' = [owner EXCEPT ![f] = c]
                       /\ fd' = [fd EXCEPT ![c] = f]
  OBVIOUS
<1>5. /\ fd'[accConn'] = f /\ owner'[f] # NoConn
      /\ \A g \in Fds : g # f => owner'[g] = owner[g]
  BY <1>4, ThreadsApart DEF IInv, TypeOK, TableTyped, ThreadsTyped
<1>6. \A i \in Settled : sock[i] \in Fds
  BY LiveFds DEF Settled, IInv
<1>7. "doubled" \notin mishaps => \A i \in Settled : sock[i] # f
  BY <1>4 DEF IInv, Shared, SlotsOwnSockets
<1>8. SlotsOwnSockets' /\ AcceptedIsFresh'
  BY <1>3, <1>5, <1>6, <1>7
  DEF IInv, Shared, SlotsOwnSockets, AcceptedIsFresh, table, histories
<1>9. SocketsBounded'
  BY DEF IInv, Shared, SocketsBounded, table, globals, histories
<1>10. LiveWithinCount'
  BY <1>2, <1>3 DEF IInv, Shared, LiveWithinCount, Unmoved, table, globals, histories
<1> QED
  BY <1>2, <1>3, <1>8, <1>9, <1>10 DEF Shared, Unmoved

\* No thread that empties slots moves.
LEMMA AllSteady == ASSUME UNCHANGED <<step, at, pc>> PROVE \A t \in Closers : Steady(t)
  BY DEF Steady, Job

\* Sockets are numbers, and the one that is being filled in is a real one.
LEMMA Numbers ==
    ASSUME TypeOK
    PROVE  /\ \A i \in Slots : sock[i] \in Int
           /\ highestSock \in Int
           /\ accPc # "accept" => /\ fd[accConn] \in Fds /\ fd[accConn] \in Int
                                  /\ fd[accConn] > 0
<1>1. /\ sock \in [Slots -> {-1} \union Fds] /\ highestSock \in {-1, 0} \union Fds
      /\ accPc # "accept" => fd[accConn] \in Fds
  BY DEF TypeOK, TableTyped, ThreadsTyped
<1>2. \A f \in Fds : f \in Int /\ f > 0
  BY FdNumbers
<1>3. \A i \in Slots : sock[i] = -1 \/ sock[i] \in Fds
  BY <1>1
<1> QED
  BY <1>1, <1>2, <1>3

LEMMA RegisterSockShared ==
    ASSUME IInv, RegisterSock
    PROVE  Shared'
<1> USE DEF RegisterSock, Fills, InTable
<1>1. Unmoved
  BY AllSteady, SteadyThreads DEF IInv, Shared, listeners, closing
<1> DEFINE f == fd[accConn]
<1>2. /\ noThreads \in Slots /\ f \in Fds /\ f > 0 /\ sock'[noThreads] = f
      /\ \A i \in Slots \ {noThreads} : sock'[i] = sock[i]
      /\ UNCHANGED <<owner, noThreads, highestSock, mishaps, accConn, fd>>
      /\ accPc = "sock" /\ accPc' = "compare"
  <2>1. sock \in [Slots -> {-1} \union Fds] /\ f \in Fds /\ f > 0
    BY Numbers DEF IInv, TypeOK, TableTyped
  <2> QED
    BY <2>1 DEF listeners, globals
<1> HIDE DEF f, RegisterSock, Fills, InTable
<1>3. Live' = Live \union {noThreads}
  BY <1>2 DEF Live
<1>4. HeldApart'
  BY <1>1, <1>2, <1>3 DEF IInv, Shared, HeldApart, Unmoved
<1>5. Settled' \subseteq Settled \union {noThreads}
  BY <1>1, <1>3 DEF Settled, Unmoved, Held
<1>6. f = fd[accConn]
  BY DEF f
<1>7. "doubled" \notin mishaps => owner[f] # NoConn /\ \A i \in Settled : sock[i] # f
  BY <1>2, <1>6 DEF IInv, Shared, AcceptedIsFresh
<1>8. Settled \subseteq Slots
  BY DEF Settled, Live
<1>9. SlotsOwnSockets'
  <2> SUFFICES ASSUME "doubled" \notin mishaps
               PROVE  /\ \A i \in Settled' : owner[sock'[i]] # NoConn
                      /\ \A i, j \in Settled' : sock'[i] = sock'[j] => i = j
    BY <1>2 DEF SlotsOwnSockets
  <2>1. /\ \A i \in Settled : owner[sock[i]] # NoConn
        /\ \A i, j \in Settled : sock[i] = sock[j] => i = j
    BY DEF IInv, Shared, SlotsOwnSockets
  <2> QED
    BY <1>2, <1>5, <1>7, <1>8, <2>1
<1>10. AcceptedIsFresh' /\ SocketsBounded'
  BY <1>2, <1>6 DEF IInv, Shared, SocketsBounded, AcceptedIsFresh
<1>11. LiveWithinCount'
  <2>1. Live \in SUBSET Slots /\ Cardinality(Live') <= Cardinality(Live) + 1
    BY <1>2, <1>3, FiniteSets, FS_AddElement DEF Live
  <2>2. Live' \in SUBSET Slots /\ Uncounting \in SUBSET Closers
    BY <1>2, <1>3 DEF Live, Uncounting
  <2>3. /\ Cardinality(Live) \in Nat /\ Cardinality(Live') \in Nat
        /\ Cardinality(Uncounting) \in Nat /\ noThreads \in Int
    BY <2>1, <2>2, FiniteSets DEF IInv, TypeOK, TableTyped
  <2> QED
    BY <1>1, <1>2, <2>1, <2>3 DEF IInv, Shared, LiveWithinCount, Unmoved
<1> QED
  BY <1>1, <1>4, <1>9, <1>10, <1>11 DEF Shared, Unmoved

\* Comparing and raising look at sockets only; a slot that has changed meanwhile
\* counts as misread.
LEMMA OnlyHighest ==
    ASSUME IInv, UNCHANGED <<sock, owner, noThreads, accConn, fd, step, at, pc>>,
           accPc \in {"compare", "raise"}, accPc' \in {"raise", "win"},
           Reads, SocketsBounded'
    PROVE  Shared'
<1>1. Unmoved
  BY AllSteady, SteadyThreads DEF IInv, Shared
<1>2. \A m \in {"doubled", "lost"} : m \in mishaps' <=> m \in mishaps
  BY DEF Reads
<1>3. HeldApart' /\ Live' = Live /\ Settled' = Settled
  BY <1>1, <1>2, SameHeld DEF IInv, Shared
<1>4. SlotsOwnSockets' /\ AcceptedIsFresh'
  BY <1>2, <1>3 DEF IInv, Shared, SlotsOwnSockets, AcceptedIsFresh
<1>5. mishaps \intersect {"doubled", "lost"} = mishaps' \intersect {"doubled", "lost"}
  BY <1>2
<1>6. LiveWithinCount'
  BY <1>1, <1>3, <1>5 DEF IInv, Shared, LiveWithinCount, Unmoved
<1> QED
  BY <1>1, <1>3, <1>4, <1>6 DEF Shared, Unmoved

LEMMA CompareSockShared == ASSUME IInv, CompareSock PROVE Shared'
<1> USE DEF CompareSock, Fills
<1>1. /\ \A i \in Slots : sock[i] \in Int
      /\ highestSock \in Int /\ fd[accConn] \in Int /\ noThreads \in Slots
  BY Numbers DEF IInv, InTable
<1>2. SocketsBounded'
  <2> SUFFICES ASSUME "misread" \notin mishaps'
               PROVE  /\ \A i \in Slots : \/ sock[i] <= highestSock
                                          \/ accPc' \in {"compare", "raise"}
                                             /\ sock[i] = fd[accConn]
                      /\ accPc' = "raise" => fd[accConn] > highestSock
    BY DEF SocketsBounded, table, globals, listeners
  <2>1. "misread" \notin mishaps /\ sock[noThreads] = fd[accConn]
    BY DEF Reads
  <2>2. \A i \in Slots : sock[i] <= highestSock \/ sock[i] = fd[accConn]
    BY <2>1 DEF IInv, Shared, SocketsBounded
  <2>3. CASE fd[accConn] > highestSock
    BY <2>1, <2>2, <2>3 DEF IsHighest
  <2>4. CASE ~(fd[accConn] > highestSock)
    BY <1>1, <2>1, <2>2, <2>4 DEF IsHighest
  <2> QED
    BY <2>3, <2>4
<1> QED
  BY <1>2, OnlyHighest DEF table, globals, listeners, closing

LEMMA RaiseHighestShared == ASSUME IInv, RaiseHighest PROVE Shared'
<1> USE DEF RaiseHighest, Fills
<1>1. /\ \A i \in Slots : sock[i] \in Int
      /\ highestSock \in Int /\ fd[accConn] \in Int /\ noThreads \in Slots
  BY Numbers DEF IInv, InTable
<1>2. SocketsBounded'
  <2> SUFFICES ASSUME "misread" \notin mishaps'
               PROVE  \A i \in Slots : sock[i] <= highestSock'
    BY DEF SocketsBounded, table
  <2>1. "misread" \notin mishaps /\ highestSock' = fd[accConn]
    BY DEF Reads
  <2>2. /\ \A i \in Slots : sock[i] <= highestSock \/ sock[i] = fd[accConn]
        /\ fd[accConn] > highestSock
    BY <2>1 DEF IInv, Shared, SocketsBounded
  <2> QED
    BY <1>1, <2>1, <2>2
<1> QED
  BY <1>2, OnlyHighest DEF table, listeners, closing

\* A store that another one has not overtaken adds to the count there is.
LEMMA StoreIsExact ==
    ASSUME TypeOK, NEW t \in Writers, NEW n, Stores(t, n),
           mishaps' \intersect {"doubled", "lost"} = {}
    PROVE  noThreads = reg[t] /\ mishaps' = mishaps /\ noThreads' = n
  BY DEF Stores

\* The numbers that LiveWithinCount adds up.
LEMMA Cardinals ==
    ASSUME TypeOK
    PROVE  /\ Cardinality(Live) \in Nat /\ Cardinality(Uncounting) \in Nat
           /\ noThreads \in Int /\ \A t \in Writers : reg[t] \in Int
<1>1. Live \in SUBSET Slots /\ Uncounting \in SUBSET Closers
  BY DEF Live, Uncounting
<1> QED
  BY <1>1, FiniteSets DEF TypeOK, TableTyped, ThreadsTyped

LEMMA StoreCountShared == ASSUME IInv, StoreCount PROVE Shared'
<1> USE DEF StoreCount
<1>1. Unmoved
  BY AllSteady, SteadyThreads DEF IInv, Shared, listeners, closing
<1>2. \A m \in {"doubled", "misread"} : m \in mishaps' <=> m \in mishaps
  BY DEF Stores
<1>3. HeldApart' /\ Live' = Live /\ Settled' = Settled
  BY <1>1, <1>2, SameHeld DEF IInv, Shared, table
<1>4. SlotsOwnSockets' /\ AcceptedIsFresh' /\ SocketsBounded'
  BY <1>2, <1>3
  DEF IInv, Shared, SlotsOwnSockets, AcceptedIsFresh, SocketsBounded, table
<1>5. LiveWithinCount'
  <2> SUFFICES ASSUME mishaps' \intersect {"doubled", "lost"} = {}
               PROVE  Cardinality(Live) + Cardinality(Uncounting) <= noThreads'
    <3>1. accPc' = "accept" /\ Uncounting' = Uncounting /\ Live' = Live
      BY <1>1, <1>3 DEF Unmoved
    <3>2. Cardinality(Live) \in Nat /\ Cardinality(Uncounting) \in Nat /\ noThreads' \in Int
      BY Cardinals, ThreadsApart DEF IInv, Stores
    <3> QED
      BY <3>1, <3>2 DEF LiveWithinCount
  <2>1. mishaps' = mishaps /\ noThreads' = noThreads + 1
    BY StoreIsExact, ThreadsApart DEF IInv
  <2> QED
    BY <2>1 DEF IInv, Shared, LiveWithinCount
<1> QED
  BY <1>1, <1>3, <1>4, <1>5 DEF Shared, Unmoved

LEMMA RegisterShared == ASSUME IInv, Register PROVE Shared'
<1>1. ASSUME RegisterWin \/ RegisterDest \/ LoadCount PROVE Shared'
  <2>1. /\ \A t \in Closers : Steady(t)
        /\ SamePlace
        /\ UNCHANGED <<sock, owner, noThreads, highestSock, accConn, fd, mishaps>>
    BY <1>1, AllSteady
    DEF RegisterWin, RegisterDest, LoadCount, Fills, SamePlace, table, globals, listeners, closing
  <2> QED
    BY <2>1, Quiet DEF IInv
<1> QED
  BY <1>1, RegisterSockShared, CompareSockShared, RaiseHighestShared, StoreCountShared
  DEF Register

-----------------------------------------------------------------------------
(* Emptying a slot *)

\* Whoever takes on a slot that nobody else is emptying is alone with it.
LEMMA TakesShared ==
    ASSUME IInv, NEW t \in Closers, NEW i \in Live, NEW s \in {"send", "close"},
           step[t] \in {"idle", "check"}, Takes(t, i, s),
           \A u \in Conns \ {t} : pc'[u] = pc[u],
           UNCHANGED <<sock, owner, noThreads, highestSock, acceptor, fd>>
    PROVE  Shared'
<1>1. /\ step'[t] = s /\ at'[t] = i
      /\ \A u \in Closers \ {t} : step'[u] = step[u] /\ at'[u] = at[u] /\ Job(u)' = Job(u)
  BY ThreadsApart DEF Takes, IInv, TypeOK, ThreadsTyped, Job
<1>2. \A u \in Closers : /\ step'[u] = "sock" <=> step[u] = "sock"
                         /\ step[u] = "sock" => at'[u] = at[u]
  BY <1>1
<1>3. Live' = Live
  BY DEF Live
<1>4. Settled' = Settled
  <2>1. Settled' \subseteq Settled /\ Settled \subseteq Settled'
    BY <1>2, <1>3 DEF Settled
  <2> QED
    BY <2>1
<1>5. \A u \in Closers : u \in Uncounting' <=> u \in Uncounting
  BY <1>1 DEF Uncounting
<1>6. Uncounting' = Uncounting /\ UncountsOne'
  BY <1>1, <1>5 DEF Uncounting, UncountsOne, IInv, Shared
<1>7. /\ mishaps \subseteq mishaps'
      /\ "lost" \in mishaps' => "lost" \in mishaps
      /\ "misread" \in mishaps' => "misread" \in mishaps
      /\ "doubled" \notin mishaps' => Holding(i) = {}
  BY DEF Takes
<1>8. HeldApart'
  <2> SUFFICES ASSUME "doubled" \notin mishaps'
               PROVE  /\ \A u \in Closers : Held(u)' => at'[u] \in Live
                      /\ \A u, v \in Closers :
                           Held(u)' /\ Held(v)' /\ at'[u] = at'[v] => u = v
    BY <1>3 DEF HeldApart
  <2>1. \A u \in Closers : at[u] = i => ~Held(u)
    BY <1>7 DEF Holding, Held
  <2>2. /\ \A u \in Closers : Held(u) => at[u] \in Live
        /\ \A u, v \in Closers : Held(u) /\ Held(v) /\ at[u] = at[v] => u = v
    BY <1>7 DEF IInv, Shared, HeldApart
  <2>3. /\ \A u \in Closers \ {t} : (Held(u)' <=> Held(u)) /\ at'[u] = at[u]
        /\ at'[t] = i
    BY <1>1 DEF Held
  <2> QED
    BY <2>1, <2>2, <2>3
<1>9. SlotsOwnSockets' /\ AcceptedIsFresh'
  BY <1>4, <1>7 DEF IInv, Shared, SlotsOwnSockets, AcceptedIsFresh, acceptor
<1>10. SocketsBounded'
  BY <1>7 DEF IInv, Shared, SocketsBounded, acceptor
<1>11. LiveWithinCount'
  BY <1>3, <1>6, <1>7 DEF IInv, Shared, LiveWithinCount, acceptor
<1> QED
  BY <1>6, <1>8, <1>9, <1>10, <1>11 DEF Shared

\* A thread that goes on to another slot, or returns, holds nothing.
LEMMA GoesOnQuietly ==
    ASSUME TypeOK, NEW t \in Closers, GoesOn(t) \/ Returns(t)
    PROVE  Alone(t) /\ Off(t)'
<1>1. /\ step'[t] \in {"idle", "check"}
      /\ \A u \in Closers \ {t} : step'[u] = step[u] /\ at'[u] = at[u]
  BY DEF GoesOn, Returns, To, TypeOK, ThreadsTyped
<1>2. \A u \in Conns \ {t} : pc'[u] = pc[u]
  BY DEF GoesOn, Returns, TypeOK, ThreadsTyped
<1> QED
  BY <1>1, <1>2 DEF Alone, Off, Job

LEMMA CheckNameShared == ASSUME IInv, NEW t \in Closers, CheckName(t) PROVE Shared'
<1>1. step[t] = "check" /\ UNCHANGED <<sock, owner, noThreads, highestSock, acceptor, fd>>
  BY DEF CheckName, table, globals
<1>2. CASE at[t] \in Live /\ Takes(t, at[t], "close") /\ UNCHANGED pc
  BY <1>1, <1>2, TakesShared
<1>3. CASE GoesOn(t) /\ UNCHANGED mishaps
  <2>1. Alone(t) /\ Steady(t)
    BY <1>1, <1>3, GoesOnQuietly DEF IInv, Steady, Off
  <2> QED
    BY <1>1, <1>3, <2>1, QuietThread DEF IInv
<1> QED
  BY <1>2, <1>3 DEF CheckName, LogoffSlot

LEMMA CheckCountedShared == ASSUME IInv, NEW t \in Closers, CheckCounted(t) PROVE Shared'
<1>1. step[t] = "check" /\ UNCHANGED <<sock, owner, noThreads, highestSock, acceptor, fd>>
  BY DEF CheckCounted, table, globals
<1>2. CASE at[t] \in Live /\ Takes(t, at[t], "send") /\ UNCHANGED pc
  BY <1>1, <1>2, TakesShared
<1>3. CASE (GoesOn(t) \/ Returns(t)) /\ UNCHANGED mishaps
  <2>1. Alone(t) /\ Steady(t)
    BY <1>1, <1>3, GoesOnQuietly DEF IInv, Steady, Off
  <2> QED
    BY <1>1, <1>3, <2>1, QuietThread DEF IInv
<1> QED
  BY <1>2, <1>3 DEF CheckCounted

\* One thread goes to its next step with the slot it has.
LEMMA ToNext ==
    ASSUME TypeOK, NEW t \in Closers, NEW s, To(t, s), UNCHANGED <<at, pc>>
    PROVE  Alone(t) /\ step'[t] = s /\ at'[t] = at[t] /\ Job(t)' = Job(t)
  BY DEF To, TypeOK, ThreadsTyped, Alone, Job

LEMMA SendDisconnectShared ==
    ASSUME IInv, NEW t \in Closers, SendDisconnect(t)
    PROVE  Shared'
<1>1. Alone(t) /\ Steady(t)
  BY ToNext DEF SendDisconnect, listeners, IInv, Steady
<1> QED
  BY <1>1, QuietThread DEF SendDisconnect, IInv, table, globals, listeners, histories

\* The socket of the slot is closed; as nobody else empties it, no other slot
\* had that socket and the slot is live until it is taken out.
LEMMA CloseSockShared == ASSUME IInv, NEW t \in Closers, CloseSock(t) PROVE Shared'
<1> DEFINE i == at[t]
<1>1. /\ Alone(t) /\ step[t] = "close" /\ step'[t] = "sock" /\ at'[t] = i
      /\ UNCHANGED <<sock, noThreads, highestSock, accPc, accConn, fd, mishaps>>
  BY ToNext DEF CloseSock, IInv, table, globals, acceptor, listeners, histories
<1>2. \A f \in Fds : f # sock[i] => owner'[f] = owner[f]
  BY DEF CloseSock
<1> HIDE DEF i
<1>3. /\ \A u \in Closers : (Held(u)' <=> Held(u)) /\ at'[u] = at[u]
      /\ \A u \in Closers \ {t} : step'[u] = step[u]
      /\ Live' = Live /\ Uncounting' = Uncounting /\ UncountsOne'
  <2>1. \A u \in Closers : u \in Uncounting' <=> u \in Uncounting
    BY <1>1 DEF Alone, Uncounting
  <2>2. Uncounting' = Uncounting /\ UncountsOne'
    BY <1>1, <2>1 DEF Alone, Uncounting, UncountsOne, IInv, Shared
  <2> QED
    BY <1>1, <2>2 DEF Alone, Held, i, Live
<1>4. HeldApart'
  BY <1>1, <1>3 DEF IInv, Shared, HeldApart
<1>5. Settled' = Settled \ {i}
  <2>1. \A j \in Live : j \in Settled' <=> j \in Settled /\ j # i
    BY <1>1, <1>3 DEF Settled, i
  <2> QED
    BY <1>3, <2>1 DEF Settled
<1>6. "doubled" \notin mishaps => i \in Settled
  BY <1>1 DEF IInv, Shared, HeldApart, Held, Settled, i
<1>7. \A j \in Settled : sock[j] \in Fds
  BY LiveFds DEF Settled, IInv
<1>8. SlotsOwnSockets'
  <2> SUFFICES ASSUME "doubled" \notin mishaps
               PROVE  /\ \A j \in Settled \ {i} : owner'[sock[j]] # NoConn
                      /\ \A j, k \in Settled \ {i} : sock[j] = sock[k] => j = k
    BY <1>1, <1>5 DEF SlotsOwnSockets
  <2> QED
    BY <1>2, <1>6, <1>7 DEF IInv, Shared, SlotsOwnSockets
<1>9. AcceptedIsFresh'
  <2> SUFFICES ASSUME "doubled" \notin mishaps, accPc = "sock"
               PROVE  /\ owner'[fd[accConn]] # NoConn
                      /\ \A j \in Settled \ {i} : sock[j] # fd[accConn]
    BY <1>1, <1>5 DEF AcceptedIsFresh
  <2>1. fd[accConn] \in Fds
    BY Numbers DEF IInv
  <2> QED
    BY <1>2, <1>6, <2>1 DEF IInv, Shared, AcceptedIsFresh
<1>10. SocketsBounded' /\ LiveWithinCount'
  BY <1>1, <1>3 DEF IInv, Shared, SocketsBounded, LiveWithinCount
<1> QED
  BY <1>3, <1>4, <1>8, <1>9, <1>10 DEF Shared

\* A slot leaves the table and, but for DISCONNECT_ALL, is to be counted down.
LEMMA ClearSockShared == ASSUME IInv, NEW t \in Closers, ClearSock(t) PROVE Shared'
<1> DEFINE i == at[t]
<1>1. /\ Alone(t) /\ step[t] = "sock" /\ step'[t] = "dest" /\ at'[t] = i
      /\ Job(t)' = Job(t)
      /\ UNCHANGED <<owner, noThreads, highestSock, accPc, accConn, fd, mishaps>>
  BY ToNext DEF ClearSock, IInv, globals, acceptor, listeners, histories
<1>2. sock'[i] = -1 /\ \A j \in Slots \ {i} : sock'[j] = sock[j]
  BY DEF ClearSock, WithoutSock, IInv, TypeOK, TableTyped, ThreadsTyped
<1>3. i \in Slots
  BY DEF IInv, TypeOK, ThreadsTyped
<1> HIDE DEF i
<1>4. Live' = Live \ {i}
  BY <1>2 DEF Live
<1>5. /\ \A u \in Closers \ {t} : (Held(u)' <=> Held(u)) /\ at'[u] = at[u]
                                  /\ step'[u] = step[u] /\ Job(u)' = Job(u)
      /\ ~Held(t)' /\ Held(t)
  BY <1>1 DEF Alone, Held
<1>6. HeldApart'
  <2> SUFFICES ASSUME "doubled" \notin mishaps
               PROVE  /\ \A u \in Closers : Held(u)' => at'[u] \in Live'
                      /\ \A u, v \in Closers :
                           Held(u)' /\ Held(v)' /\ at'[u] = at'[v] => u = v
    BY <1>1 DEF HeldApart
  <2>1. /\ \A u \in Closers : Held(u) => at[u] \in Live
        /\ \A u, v \in Closers : Held(u) /\ Held(v) /\ at[u] = at[v] => u = v
    BY DEF IInv, Shared, HeldApart
  <2>2. \A u \in Closers \ {t} : Held(u) => at[u] # i
    BY <1>5, <2>1 DEF i
  <2> QED
    BY <1>4, <1>5, <2>1, <2>2
<1>7. Settled' \subseteq Settled \ {i}
  BY <1>1, <1>4, <1>5 DEF Settled, i
<1>8. \A j \in Settled : j \in Slots
  BY DEF Settled, Live
<1>9. SlotsOwnSockets' /\ AcceptedIsFresh'
  <2>1. \A j \in Settled' : j \in Settled /\ sock'[j] = sock[j]
    BY <1>2, <1>7, <1>8
  <2> QED
    BY <1>1, <2>1 DEF IInv, Shared, SlotsOwnSockets, AcceptedIsFresh
<1>10. SocketsBounded'
  <2>1. -1 <= highestSock
    BY FdNumbers DEF IInv, TypeOK, TableTyped
  <2>2. \A j \in Slots : sock'[j] = -1 \/ sock'[j] = sock[j]
    BY <1>2
  <2> QED
    BY <1>1, <2>1, <2>2 DEF IInv, Shared, SocketsBounded
<1>11. UncountsOne'
  BY <1>1, <1>5 DEF IInv, Shared, UncountsOne
<1>12. LiveWithinCount'
  <2> SUFFICES ASSUME mishaps \intersect {"doubled", "lost"} = {}
               PROVE  Cardinality(Live') + Cardinality(Uncounting')
                         <= Cardinality(Live) + Cardinality(Uncounting)
    <3>1. Cardinality(Live') \in Nat /\ Cardinality(Uncounting') \in Nat
      <4>1. Live' \in SUBSET Slots /\ Uncounting' \in SUBSET Closers
        BY <1>4 DEF Live, Uncounting
      <4> QED
        BY <4>1, FiniteSets
    <3> QED
      BY <1>1, <3>1, Cardinals DEF IInv, Shared, LiveWithinCount
  <2>1. i \in Live
    BY <1>5 DEF IInv, Shared, HeldApart, i
  <2>2. Live \in SUBSET Slots /\ Uncounting \in SUBSET Closers
    BY DEF Live, Uncounting
  <2>3. IsFiniteSet(Live) /\ IsFiniteSet(Uncounting)
    BY <2>2, FiniteSets
  <2>4. Cardinality(Live') = Cardinality(Live) - 1
    BY <1>4, <2>1, <2>3, FS_RemoveElement
  <2>5. Uncounting' \subseteq Uncounting \union {t}
    BY <1>5 DEF Uncounting
  <2>6. IsFiniteSet(Uncounting \union {t})
        /\ Cardinality(Uncounting \union {t}) <= Cardinality(Uncounting) + 1
    <3>1. Cardinality(Uncounting) \in Nat
      BY Cardinals DEF IInv
    <3>2. /\ IsFiniteSet(Uncounting \union {t})
          /\ Cardinality(Uncounting \union {t})
               = IF t \in Uncounting THEN Cardinality(Uncounting) ELSE Cardinality(Uncounting) + 1
      BY <2>3, FS_AddElement
    <3> QED
      BY <3>1, <3>2
  <2>7. Cardinality(Uncounting') <= Cardinality(Uncounting \union {t})
    BY <2>5, <2>6, FS_Subset
  <2>8. Cardinality(Uncounting') \in Nat /\ Cardinality(Uncounting \union {t}) \in Nat
    BY <2>5, <2>6, FS_Subset, FS_CardinalityType
  <2> QED
    BY <2>4, <2>6, <2>7, <2>8, Cardinals DEF IInv
<1> QED
  BY <1>6, <1>9, <1>10, <1>11, <1>12 DEF Shared

LEMMA StoreUncountShared == ASSUME IInv, NEW t \in Closers, StoreUncount(t) PROVE Shared'
<1>1. /\ step[t] = "store" /\ Stores(t, reg[t] - 1)
      /\ UNCHANGED <<sock, highestSock, owner, accPc, accConn, fd>>
  BY DEF StoreUncount, table, acceptor
<1>2. Alone(t) /\ step'[t] \in {"idle", "check"}
  <2>1. GoesOn(t) \/ Returns(t)
    BY DEF StoreUncount
  <2> QED
    BY <2>1, GoesOnQuietly DEF IInv, GoesOn, Returns, To, TypeOK, ThreadsTyped
<1>3. \A m \in {"doubled", "misread"} : m \in mishaps' <=> m \in mishaps
  BY <1>1 DEF Stores
<1>4. /\ \A u \in Closers : (Held(u)' <=> Held(u)) /\ (step'[u] = "sock" <=> step[u] = "sock")
      /\ \A u \in Closers : Held(u) => at'[u] = at[u]
      /\ Live' = Live
  BY <1>1, <1>2 DEF Alone, Held, Live
<1>5. HeldApart'
  BY <1>3, <1>4 DEF IInv, Shared, HeldApart
<1>6. Settled' = Settled
  <2>1. Settled' \subseteq Settled /\ Settled \subseteq Settled'
    BY <1>4 DEF Settled, Held
  <2> QED
    BY <2>1
<1>7. SlotsOwnSockets' /\ AcceptedIsFresh' /\ SocketsBounded'
  BY <1>1, <1>3, <1>6 DEF IInv, Shared, SlotsOwnSockets, AcceptedIsFresh, SocketsBounded
<1>8. t \in Uncounting /\ Uncounting' = Uncounting \ {t}
  <2>1. t \in Uncounting
    BY <1>1 DEF IInv, Shared, UncountsOne, Uncounting
  <2>2. \A u \in Closers : u \in Uncounting' <=> u \in Uncounting /\ u # t
    BY <1>1, <1>2 DEF Alone, Uncounting
  <2> QED
    BY <2>1, <2>2 DEF Uncounting
<1>9. UncountsOne'
  BY <1>2 DEF Alone, IInv, Shared, UncountsOne
<1>10. LiveWithinCount'
  <2>1. Uncounting \in SUBSET Closers
    BY DEF Uncounting
  <2>2. IsFiniteSet(Uncounting)
    BY <2>1, FiniteSets
  <2>3. Cardinality(Uncounting') = Cardinality(Uncounting) - 1
    BY <1>8, <2>2, FS_RemoveElement
  <2>4. mishaps' \intersect {"doubled", "lost"} = {}
          => mishaps' = mishaps /\ noThreads' = noThreads - 1
    BY <1>1, StoreIsExact, ThreadsApart DEF IInv
  <2> QED
    BY <1>1, <1>4, <2>3, <2>4, Cardinals DEF IInv, Shared, LiveWithinCount
<1> QED
  BY <1>5, <1>7, <1>9, <1>10 DEF Shared

LEMMA ClosingShared == ASSUME IInv, NEW t \in Closers, Closing(t) PROVE Shared'
<1>1. ASSUME ClearDest(t) PROVE Shared'
  <2>1. Alone(t) /\ Steady(t)
    <3>1. To(t, IF Job(t) = "logoff" THEN "load" ELSE "name") /\ step[t] = "dest"
          /\ UNCHANGED <<at, pc>>
      BY <1>1 DEF ClearDest, listeners
    <3>2. /\ Alone(t) /\ Job(t)' = Job(t)
          /\ step'[t] = IF Job(t) = "logoff" THEN "load" ELSE "name"
      BY <3>1, ToNext DEF IInv
    <3> QED
      BY <3>1, <3>2 DEF Steady, Off
  <2> QED
    BY <1>1, <2>1, QuietThread DEF ClearDest, IInv, globals, listeners, histories
<1>2. ASSUME ClearName(t) PROVE Shared'
  <2>1. CASE Job(t) = "all"
    <3>1. Alone(t) /\ Steady(t)
      BY <1>2, <2>1, GoesOnQuietly DEF ClearName, IInv, Steady, Off
    <3> QED
      BY <1>2, <3>1, QuietThread DEF ClearName, IInv, globals, histories
  <2>2. CASE Job(t) # "all"
    <3>1. To(t, "load") /\ step[t] = "name" /\ UNCHANGED <<at, pc>>
      BY <1>2, <2>2 DEF ClearName
    <3>2. Alone(t) /\ Job(t)' = Job(t) /\ step'[t] = "load"
      BY <3>1, ToNext DEF IInv
    <3>3. Alone(t) /\ Steady(t)
      BY <2>2, <3>1, <3>2 DEF Steady
    <3> QED
      BY <1>2, <3>3, QuietThread DEF ClearName, IInv, globals, histories
  <2> QED
    BY <2>1, <2>2
<1>3. ASSUME LoadUncount(t) PROVE Shared'
  <2>1. Alone(t) /\ Steady(t)
    BY <1>3, ToNext DEF LoadUncount, listeners, IInv, Shared, UncountsOne, Steady
  <2> QED
    BY <1>3, <2>1, QuietThread DEF LoadUncount, IInv, table, globals, listeners, histories
<1> QED
  BY <1>1, <1>2, <1>3, CheckNameShared, CheckCountedShared, SendDisconnectShared,
     CloseSockShared, ClearSockShared, StoreUncountShared
  DEF Closing

-----------------------------------------------------------------------------
(* listen_thread, timer_thread, tester_thread and the clients *)

\* A listen_thread that is not emptying slots, and at most begins to.
LEMMA ListenerQuiet ==
    ASSUME IInv, NEW c \in Conns, step[c] = "idle", step'[c] \in {"idle", "check"},
           \A u \in Closers \ {c} : step'[u] = step[u] /\ at'[u] = at[u],
           \A u \in Conns \ {c} : pc'[u] = pc[u],
           UNCHANGED <<sock, owner, noThreads, highestSock, acceptor, fd, mishaps>>
    PROVE  Shared'
<1>1. Alone(c) /\ Steady(c) /\ c \in Closers
  BY ThreadsApart DEF Alone, Job, Steady, Off
<1> QED
  BY <1>1, QuietThread DEF IInv

LEMMA FailReadShared ==
    ASSUME IInv, NEW c \in Conns, NEW i, FailRead(c, i), pc[c] \in {"loop", "recv", "torn"}
    PROVE  Shared'
<1>1. /\ step[c] = "idle"
      /\ UNCHANGED <<sock, owner, noThreads, highestSock, acceptor, fd, mishaps>>
  BY DEF FailRead, IInv, TypeOK, ThreadsTyped, ClientsTyped, table, histories
<1>2. \A u \in Conns \ {c} : pc'[u] = pc[u]
  BY DEF FailRead, Again, Calls, Goto, IInv, TypeOK, ThreadsTyped
<1>3. /\ step'[c] \in {"idle", "check"}
      /\ \A u \in Closers \ {c} : step'[u] = step[u] /\ at'[u] = at[u]
  BY <1>1, ThreadsApart DEF FailRead, Begins, To, closing, IInv, TypeOK, ThreadsTyped
<1> QED
  BY <1>1, <1>2, <1>3, ListenerQuiet

LEMMA LoopShared == ASSUME IInv, NEW c \in Conns, Loop(c) PROVE Shared'
<1>1. CASE \E i \in Slots : FailRead(c, i)
  BY <1>1, FailReadShared DEF Loop
<1>2. CASE /\ Goto(c, "recv")
           /\ UNCHANGED <<table, globals, owner, acceptor, fd, closing, mishaps>>
  <2>1. step[c] = "idle" /\ \A u \in Conns \ {c} : pc'[u] = pc[u]
    BY <1>2 DEF Loop, Goto, IInv, TypeOK, ThreadsTyped
  <2> QED
    BY <1>2, <2>1, ListenerQuiet DEF table, globals, closing
<1> QED
  BY <1>1, <1>2 DEF Loop, histories

LEMMA TornReadShared == ASSUME IInv, NEW c \in Conns, TornRead(c) PROVE Shared'
<1>1. PICK d \in Conns \ {c} : /\ pc[d] \in {"recv", "torn"}
                               /\ pc' = [pc EXCEPT ![c] = "torn", ![d] = "torn"]
  BY DEF TornRead
<1>2. step[c] = "idle" /\ step[d] = "idle"
  BY <1>1 DEF TornRead, Take, IInv, TypeOK, ThreadsTyped
<1>3. \A u \in Conns \ {c, d} : pc'[u] = pc[u]
  BY <1>1 DEF IInv, TypeOK, ThreadsTyped
<1>4. \A u \in Closers : Steady(u)
  BY <1>2, <1>3 DEF TornRead, closing, Steady, Off, Job
<1> QED
  BY <1>4, Quiet DEF TornRead, IInv, SamePlace, table, globals, acceptor, histories

\* A command handler that leaves the slots to others.
LEMMA HandlerQuiet ==
    ASSUME IInv, NEW c \in Conns, NEW kind, Handling(c, kind), NEW l, Goto(c, l),
           UNCHANGED <<closing, mishaps>>
    PROVE  Shared'
<1>1. step[c] = "idle" /\ \A u \in Conns \ {c} : pc'[u] = pc[u]
  BY DEF Handling, Take, Goto, IInv, TypeOK, ThreadsTyped
<1> QED
  BY <1>1, ListenerQuiet DEF Handling, closing

\* A step of a thread that is in a handler already.
LEMMA HandlerGoesOn ==
    ASSUME IInv, NEW c \in Conns, pc[c] \in {"start", "name", "list"},
           UNCHANGED pc \/ \E l \in {"loop"} : Goto(c, l),
           UNCHANGED step, \A u \in Closers \ {c} : at'[u] = at[u],
           UNCHANGED <<sock, owner, noThreads, highestSock, acceptor, fd, mishaps>>
    PROVE  Shared'
<1>1. step[c] = "idle" /\ \A u \in Conns \ {c} : pc'[u] = pc[u]
  BY DEF Goto, IInv, TypeOK, ThreadsTyped
<1> QED
  BY <1>1, ListenerQuiet

LEMMA DisconnectShared == ASSUME IInv, NEW c \in Conns, Disconnect(c) PROVE Shared'
<1>1. CASE Again(c) /\ UNCHANGED <<closing, mishaps>>
  BY <1>1, HandlerQuiet DEF Disconnect, Again, Calls
<1>2. ASSUME NEW i \in Live, Calls(c, "disconnect"), Takes(c, i, "send")
      PROVE  Shared'
  <2>1. step[c] = "idle" /\ \A u \in Conns \ {c} : pc'[u] = pc[u]
    BY <1>2 DEF Disconnect, Handling, Take, Calls, Goto, IInv, TypeOK, ThreadsTyped
  <2> QED
    BY <1>2, <2>1, TakesShared, ThreadsApart DEF Disconnect, Handling
<1> QED
  BY <1>1, <1>2 DEF Disconnect

LEMMA DisconnectAllShared == ASSUME IInv, NEW c \in Conns, DisconnectAll(c) PROVE Shared'
<1>1. step[c] = "idle" /\ \A u \in Conns \ {c} : pc'[u] = pc[u]
  BY DEF DisconnectAll, Handling, Take, Calls, Goto, IInv, TypeOK, ThreadsTyped
<1>2. /\ step'[c] = "check"
      /\ \A u \in Closers \ {c} : step'[u] = step[u] /\ at'[u] = at[u]
  BY ThreadsApart DEF DisconnectAll, Begins, To, IInv, TypeOK, ThreadsTyped
<1> QED
  BY <1>1, <1>2, ListenerQuiet DEF DisconnectAll, Handling

LEMMA ListenShared ==
    ASSUME IInv, NEW c \in Conns, Listen(c) \/ FailTorn(c)
    PROVE  Shared'
<1>1. ASSUME Start(c) \/ StoreName(c) PROVE Shared'
  BY <1>1, HandlerGoesOn
  DEF Start, StoreName, Again, Calls, table, globals, closing, histories
<1>2. ASSUME ListSlot(c) PROVE Shared'
  <2>1. \A u \in Closers \ {c} : at'[u] = at[u]
    BY <1>2 DEF ListSlot, IInv, TypeOK, ThreadsTyped
  <2> QED
    BY <1>2, <2>1, HandlerGoesOn DEF ListSlot, Again, Calls, table, globals, histories
<1>3. ASSUME SetClientName(c) \/ UpdateStatus(c) PROVE Shared'
  BY <1>3, HandlerQuiet DEF SetClientName, UpdateStatus, Again, Calls
<1>4. ASSUME NEW kind, Handling(c, kind), Forward(c) PROVE Shared'
  BY <1>4, HandlerQuiet DEF Forward, Again, Calls
<1>5. ASSUME SendClientList(c) PROVE Shared'
  <2>1. CASE Forward(c)
    BY <1>5, <2>1, <1>4 DEF SendClientList
  <2>2. CASE Calls(c, "list") /\ at' = [at EXCEPT ![c] = 0] /\ UNCHANGED <<step, mishaps>>
    <3>1. step[c] = "idle" /\ \A u \in Conns \ {c} : pc'[u] = pc[u]
      BY <1>5, <2>2 DEF SendClientList, Handling, Take, Calls, Goto, IInv, TypeOK, ThreadsTyped
    <3>2. \A u \in Closers \ {c} : at'[u] = at[u]
      BY <2>2 DEF IInv, TypeOK, ThreadsTyped
    <3> QED
      BY <1>5, <2>2, <3>1, <3>2, ListenerQuiet DEF SendClientList, Handling
  <2> QED
    BY <1>5, <2>1, <2>2 DEF SendClientList
<1>6. ASSUME Eof(c) \/ FailTorn(c) PROVE Shared'
  BY <1>6, FailReadShared DEF Eof, FailTorn
<1> QED
  BY <1>1, <1>2, <1>3, <1>4, <1>5, <1>6, LoopShared, TornReadShared, DisconnectShared,
     DisconnectAllShared
  DEF Listen, Route

\* A call of logoff_client begins without holding a slot.
LEMMA BeginsShared ==
    ASSUME IInv, NEW t \in {Timer, Tester}, step[t] = "idle", Begins(t),
           UNCHANGED <<sock, owner, noThreads, highestSock, acceptor, fd, mishaps, pc>>
    PROVE  Shared'
<1>1. Alone(t) /\ step'[t] = "check" /\ t \in Closers
  BY ThreadsApart DEF Begins, To, Alone, Job, IInv, TypeOK, ThreadsTyped
<1>2. Steady(t)
  BY <1>1 DEF Steady, Off
<1> QED
  BY <1>1, <1>2, QuietThread DEF IInv

LEMMA TimerShared == ASSUME IInv, TimerThread \/ PressKey PROVE Shared'
<1>1. ASSUME SkipSlot \/ LoadDirty \/ StoreDirty \/ PollSlot \/ TimerRound PROVE Shared'
  <2>1. /\ \A t \in Closers : Steady(t)
        /\ UNCHANGED <<sock, owner, noThreads, highestSock, acceptor, fd, mishaps>>
    BY <1>1, AllSteady
    DEF SkipSlot, LoadDirty, StoreDirty, PollSlot, TimerRound, table, globals, listeners, closing,
        histories
  <2> QED
    BY <2>1, Quiet DEF IInv, SamePlace, acceptor
<1>2. ASSUME LogoffDead PROVE Shared'
  <2>1. step[Timer] = "idle"
    BY <1>2, ThreadsApart DEF LogoffDead, IInv, TypeOK, ThreadsTyped
  <2> QED
    BY <1>2, <2>1, BeginsShared DEF LogoffDead, table, globals, listeners, histories
<1>3. ASSUME PressKey PROVE Shared'
  BY <1>3, BeginsShared DEF PressKey, table, globals, listeners, histories
<1> QED
  BY <1>1, <1>2, <1>3, ClosingShared, ThreadsApart DEF TimerThread

LEMMA ElsewhereShared ==
    ASSUME IInv, (\E c \in Conns : Client(c)) \/ UNCHANGED vars
    PROVE  Shared'
<1>1. UNCHANGED <<sock, owner, noThreads, highestSock, acceptor, fd, mishaps, step, at, pc>>
  BY DEF Client, Answer, Command, Fail, OnlyClients, vars, table, globals, listeners, closing,
         histories
<1> QED
  BY <1>1, AllSteady, Quiet DEF IInv, SamePlace, acceptor

-----------------------------------------------------------------------------
(* The theorems *)

LEMMA InitShared == Init => Shared
<1> SUFFICES ASSUME Init PROVE Shared
  OBVIOUS
<1>1. Live = {} /\ Settled = {} /\ Uncounting = {} /\ \A t \in Closers : ~Held(t)
  BY DEF Init, Live, Settled, Uncounting, Held
<1>2. UncountsOne /\ HeldApart /\ SlotsOwnSockets /\ AcceptedIsFresh
  BY <1>1 DEF Init, UncountsOne, HeldApart, SlotsOwnSockets, AcceptedIsFresh
<1>3. SocketsBounded
  BY DEF Init, SocketsBounded
<1>4. LiveWithinCount
  BY <1>1, FS_EmptySet DEF Init, LiveWithinCount
<1> QED
  BY <1>2, <1>3, <1>4 DEF Shared

LEMMA NextIInv == ASSUME IInv, [Next]_vars PROVE IInv'
<1>1. TypeOK'
  BY RegisterType, TimerThreadType, PressKeyType, ClosingType, AcceptType, ListenType,
     FailTornType, ClientType, StutterType, ThreadsApart
  DEF IInv, Next
<1>2. Shared'
  BY RegisterShared, TimerShared, ClosingShared, AcceptShared, ListenShared, ElsewhereShared,
     ThreadsApart
  DEF Next
<1> QED
  BY <1>1, <1>2 DEF IInv

\* The types, the sockets, the bound on them and the count hold together: none
\* is inductive without what the threads that empty slots hold.
THEOREM Invariance == Spec => []IInv
<1>1. Init => IInv
  BY InitType, InitShared DEF IInv
<1>2. IInv /\ [Next]_vars => IInv'
  BY NextIInv
<1> QED
  BY <1>1, <1>2, PTL DEF Spec

\* Type correctness of the table, its threads and its clients.
THEOREM TypeCorrect == Spec => []TypeOK
  BY Invariance, PTL DEF IInv

\* Up to the first time that two threads empty one slot, every slot in the table
\* has an open socket of its own, but for the moment between close and sock = -1:
\* what the unlocked logoff_client, DISCONNECT, DISCONNECT_ALL and accept do to
\* sockets is right whenever they meet on different slots.
THEOREM SocketsOwned == Spec => []SlotsOwnSockets
<1>1. IInv => SlotsOwnSockets
  BY DEF IInv, Shared
<1> QED
  BY <1>1, Invariance, PTL

\* Up to the first time that highest_sock is compared with, or set to, another
\* slot's socket than the new one's, get_dest's way of ending its scan hides no
\* slot, but while new_sock_thread is between the store of a new socket and
\* highest_sock.
THEOREM GetDestCorrect == Spec => []GetDestFinds
<1>1. ASSUME TypeOK, SocketsBounded PROVE GetDestFinds
  <2> SUFFICES ASSUME "misread" \notin mishaps, accPc \notin {"compare", "raise"},
                      NEW i \in Slots, NEW j \in 0 .. MaxThreads, IsGetDest(dest[i], j)
               PROVE  j \in Slots /\ dest[j] = dest[i]
    BY DEF GetDestFinds
  <2>1. \A k \in Slots : sock[k] <= highestSock
    BY <1>1 DEF SocketsBounded
  <2>2. \A k \in Slots : ~(sock[k] > highestSock)
    BY <1>1, <2>1, Numbers
  <2>3. j \in Slots => dest[j] = dest[i]
    BY <2>2 DEF IsGetDest
  <2>4. CASE j \notin Slots
    <3>1. i < j
      BY <2>4, ConstantsAssumption DEF Slots
    <3> QED
      BY <3>1 DEF IsGetDest
  <2> QED
    BY <2>3, <2>4
<1>2. IInv => GetDestFinds
  BY <1>1 DEF IInv, Shared
<1> QED
  BY <1>2, Invariance, PTL

\* Up to the first lost ++ or --, and the first slot that is emptied twice,
\* no_threads covers every live slot and every one still to be counted down:
\* any number of threads may log different clients off while one is accepted.
THEOREM CountBoundsLive == Spec => []LiveWithinCount
<1>1. IInv => LiveWithinCount
  BY DEF IInv, Shared
<1> QED
  BY <1>1, Invariance, PTL

=============================================================================
