------------------------------ MODULE NBusProofs ------------------------------
(***************************************************************************)
(* Proofs about NBus for any processes, ports and bits: one process at a   *)
(* time is on the bus, the semaphore is not lost once it was raised, and a *)
(* call changes its own output only.                                       *)
(***************************************************************************)
EXTENDS NBus, TLAPS

OnBus == {p \in Procs : pc[p] \in InBus}

\* The kernel's books: who is on the bus has taken one, and nobody else; the
\* value is what is left of the one that was raised.
Books ==
    /\ \A p \in Procs : undo[p] = IF p \in OnBus THEN 1 ELSE 0
    /\ semval \in {0, 1}
    /\ OnBus # {} => semval = 0
    /\ ~raised => semval = 0 /\ OnBus = {}

\* There is one creator, and until it has raised the semaphore nobody passes.
OneCreator ==
    /\ \A p \in Procs : pc[p] = "raise" => made /\ ~raised
    /\ \A p, q \in Procs : pc[p] = "raise" /\ pc[q] = "raise" => p = q
    /\ raised => made

CallsAreCalls ==
    /\ \A p \in Procs : pc[p] \in InBus \union {"semget", "raise", "wait"} => call[p] \in Calls
    /\ \A p \in Procs : pc[p] \in {"reselect", "write"} => call[p] \in OutCalls

\* Between its two accesses OutPort's byte is that of the port.
ValIsPort == \A p \in Procs : pc[p] \in {"reselect", "write"} => val[p] = port[call[p].port]

\* MutualExclusion rests on the value, the value on who has taken it, and
\* WindowIsOwn and ValIsPort on being alone: together they are inductive.
IInv ==
    /\ TypeOK
    /\ Books /\ MutualExclusion /\ SemaphoreIsKept
    /\ OneCreator
    /\ CallsAreCalls /\ WindowIsOwn /\ ValIsPort

LEMMA InitIInv == Init => IInv
<1> SUFFICES ASSUME Init PROVE IInv
  OBVIOUS
<1>1. OnBus = {}
  BY DEF Init, OnBus, InBus
<1>2. TypeOK
  <2>1. 0 \in 0..MaxStarts
    BY StartsAssumption
  <2>2. starts \in [Procs -> 0..MaxStarts]
    BY <2>1 DEF Init
  <2>3. /\ made \in BOOLEAN /\ semval \in Nat /\ raised \in BOOLEAN
        /\ undo \in [Procs -> {0, 1}]
        /\ semid \subseteq Procs /\ nbuslocked \subseteq Procs
        /\ call \in [Procs -> Calls \union {NoCall}] /\ window \in Ports
        /\ pc \in [Procs -> InBus \union {"off", "idle", "semget", "raise", "wait"}]
    BY DEF Init
  <2>4. val \in [Procs -> SUBSET Bits] /\ port \in [Ports -> SUBSET Bits]
    BY DEF Init
  <2> QED
    BY <2>2, <2>3, <2>4 DEF TypeOK
<1>3. Books /\ OneCreator
  BY <1>1 DEF Init, Books, OneCreator
<1>4. MutualExclusion /\ SemaphoreIsKept /\ CallsAreCalls /\ WindowIsOwn /\ ValIsPort
  BY DEF Init, MutualExclusion, SemaphoreIsKept, CallsAreCalls, WindowIsOwn, ValIsPort, InBus
<1> QED
  BY <1>2, <1>3, <1>4 DEF IInv

LEMMA StartStep ==
    ASSUME IInv, NEW p \in Procs, Start(p)
    PROVE  IInv'
<1> USE DEF IInv, Start, Goto
<1>1. TypeOK'
  <2>1. starts'[p] \in 0..MaxStarts
    BY StartsAssumption DEF TypeOK
  <2> QED
    BY <2>1 DEF TypeOK, semVars, fpgaVars
<1>2. OnBus' = OnBus
  BY DEF TypeOK, OnBus, InBus
<1>3. Books' /\ OneCreator'
  BY <1>2 DEF TypeOK, Books, OneCreator, semVars
<1>4. MutualExclusion' /\ SemaphoreIsKept'
  BY <1>2 DEF TypeOK, MutualExclusion, SemaphoreIsKept, OnBus, InBus, semVars
<1>5. CallsAreCalls' /\ WindowIsOwn' /\ ValIsPort'
  BY DEF TypeOK, CallsAreCalls, WindowIsOwn, ValIsPort, InBus, fpgaVars
<1> QED
  BY <1>1, <1>3, <1>4, <1>5

LEMMA CallStep ==
    ASSUME IInv, NEW p \in Procs, NEW c \in Calls, Call(p, c)
    PROVE  IInv'
<1> USE DEF IInv, Call, Goto
<1>1. TypeOK'
  BY DEF TypeOK, semVars, fpgaVars
<1>2. OnBus' = OnBus
  BY DEF TypeOK, OnBus, InBus
<1>3. Books' /\ OneCreator'
  BY <1>2 DEF TypeOK, Books, OneCreator, semVars
<1>4. MutualExclusion' /\ SemaphoreIsKept'
  BY <1>2 DEF TypeOK, MutualExclusion, SemaphoreIsKept, OnBus, InBus, semVars
<1>5. CallsAreCalls' /\ WindowIsOwn' /\ ValIsPort'
  BY DEF TypeOK, CallsAreCalls, WindowIsOwn, ValIsPort, InBus, fpgaVars
<1> QED
  BY <1>1, <1>3, <1>4, <1>5

LEMMA SemgetStep ==
    ASSUME IInv, NEW p \in Procs, Semget(p)
    PROVE  IInv'
<1> USE DEF IInv, Semget, Goto
<1>1. TypeOK'
  BY DEF TypeOK, fpgaVars
<1>2. OnBus' = OnBus
  BY DEF TypeOK, OnBus, InBus
<1>3. Books'
  BY <1>2 DEF TypeOK, Books
<1>4. OneCreator'
  BY DEF TypeOK, OneCreator
<1>5. MutualExclusion' /\ SemaphoreIsKept'
  BY <1>2 DEF TypeOK, MutualExclusion, SemaphoreIsKept, OnBus, InBus
<1>6. CallsAreCalls' /\ WindowIsOwn' /\ ValIsPort'
  BY DEF TypeOK, CallsAreCalls, WindowIsOwn, ValIsPort, InBus, fpgaVars
<1> QED
  BY <1>1, <1>3, <1>4, <1>5, <1>6

LEMMA RaiseStep ==
    ASSUME IInv, NEW p \in Procs, Raise(p)
    PROVE  IInv'
<1> USE DEF IInv, Raise, Goto
<1>1. OnBus' = OnBus /\ OnBus = {} /\ semval = 0 /\ made
  BY DEF TypeOK, OnBus, InBus, OneCreator, Books
<1>2. TypeOK'
  BY DEF TypeOK, fpgaVars
<1>3. Books'
  BY <1>1 DEF TypeOK, Books
<1>4. OneCreator'
  BY <1>1 DEF TypeOK, OneCreator
<1>5. MutualExclusion' /\ SemaphoreIsKept'
  BY <1>1 DEF TypeOK, MutualExclusion, SemaphoreIsKept, OnBus
<1>6. CallsAreCalls' /\ WindowIsOwn' /\ ValIsPort'
  BY DEF TypeOK, CallsAreCalls, WindowIsOwn, ValIsPort, InBus, fpgaVars
<1> QED
  BY <1>2, <1>3, <1>4, <1>5, <1>6

LEMMA LockStep ==
    ASSUME IInv, NEW p \in Procs, Lock(p)
    PROVE  IInv'
<1> USE DEF IInv, Lock, Goto
<1>1. OnBus = {} /\ semval = 1 /\ raised
  BY DEF TypeOK, Books
<1>2. OnBus' = {p}
  BY <1>1 DEF TypeOK, OnBus, InBus
<1>3. undo[p] = 0
  BY <1>1 DEF Books
<1>4. TypeOK'
  BY <1>1, <1>3 DEF TypeOK, InBus, fpgaVars
<1>5. Books'
  BY <1>1, <1>2, <1>3 DEF TypeOK, Books
<1>6. OneCreator'
  BY DEF TypeOK, OneCreator
<1>7. MutualExclusion' /\ SemaphoreIsKept'
  BY <1>2 DEF MutualExclusion, SemaphoreIsKept, OnBus
<1>8. CallsAreCalls' /\ WindowIsOwn' /\ ValIsPort'
  BY DEF TypeOK, CallsAreCalls, WindowIsOwn, ValIsPort, InBus, fpgaVars
<1> QED
  BY <1>4, <1>5, <1>6, <1>7, <1>8

\* A step of the process on the bus that keeps it there.
LEMMA OnBusStays ==
    ASSUME IInv, NEW p \in Procs, pc[p] \in InBus, NEW l \in InBus, Goto(p, l),
           UNCHANGED <<semVars, semid, nbuslocked, starts>>
    PROVE  /\ OnBus' = OnBus /\ OnBus = {p}
           /\ Books' /\ OneCreator' /\ MutualExclusion' /\ SemaphoreIsKept'
<1> USE DEF IInv, Goto
<1>1. OnBus = {p}
  BY DEF MutualExclusion, OnBus
<1>2. OnBus' = OnBus
  BY <1>1 DEF TypeOK, OnBus
<1>3. Books' /\ OneCreator'
  BY <1>2 DEF TypeOK, Books, OneCreator, InBus, semVars
<1>4. MutualExclusion' /\ SemaphoreIsKept'
  BY <1>1, <1>2 DEF MutualExclusion, SemaphoreIsKept, OnBus, semVars
<1> QED
  BY <1>1, <1>2, <1>3, <1>4

LEMMA SelectStep ==
    ASSUME IInv, NEW p \in Procs, Select(p)
    PROVE  IInv'
<1> DEFINE to == IF pc[p] = "select" THEN "read" ELSE "write"
<1>1. pc[p] \in InBus /\ to \in InBus /\ Goto(p, to)
  BY DEF Select, InBus
<1>2. /\ OnBus' = OnBus /\ OnBus = {p}
      /\ Books' /\ OneCreator' /\ MutualExclusion' /\ SemaphoreIsKept'
  BY <1>1, OnBusStays DEF Select
<1> USE DEF IInv, Select, Goto
<1>3. call[p] \in Calls /\ call[p].port \in Ports
  BY <1>1 DEF CallsAreCalls, Calls, OutCalls, InCalls
<1>4. TypeOK'
  BY <1>3 DEF TypeOK, InBus, semVars
<1>5. CallsAreCalls'
  BY DEF TypeOK, CallsAreCalls, InBus
<1>6. WindowIsOwn'
  BY <1>2 DEF TypeOK, WindowIsOwn, OnBus, InBus
<1>7. ValIsPort'
  BY DEF TypeOK, ValIsPort
<1> QED
  BY <1>2, <1>4, <1>5, <1>6, <1>7

LEMMA ReadStep ==
    ASSUME IInv, NEW p \in Procs, Read(p)
    PROVE  IInv'
<1> DEFINE to == IF call[p].out THEN "reselect" ELSE "unlock"
<1>1. pc[p] \in InBus /\ to \in InBus /\ Goto(p, to)
  BY DEF Read, InBus
<1>2. /\ OnBus' = OnBus /\ OnBus = {p}
      /\ Books' /\ OneCreator' /\ MutualExclusion' /\ SemaphoreIsKept'
  BY <1>1, OnBusStays DEF Read, fpgaVars
<1> USE DEF IInv, Read, Goto
<1>3. call[p] \in Calls /\ window = call[p].port
  BY DEF CallsAreCalls, WindowIsOwn, InBus
<1>4. call[p].out => call[p] \in OutCalls
  BY <1>3 DEF Calls, OutCalls, InCalls
<1>5. TypeOK'
  BY DEF TypeOK, InBus, semVars, fpgaVars
<1>6. CallsAreCalls'
  BY <1>3, <1>4 DEF TypeOK, CallsAreCalls, InBus
<1>7. WindowIsOwn' /\ ValIsPort'
  BY <1>3 DEF TypeOK, WindowIsOwn, ValIsPort, fpgaVars
<1> QED
  BY <1>2, <1>5, <1>6, <1>7

LEMMA NewByteType ==
    ASSUME IInv, NEW p \in Procs, pc[p] = "write"
    PROVE  NewByte(p) \in SUBSET Bits
<1>1. call[p] \in OutCalls /\ val[p] \in SUBSET Bits
  BY DEF IInv, TypeOK, CallsAreCalls
<1> QED
  BY <1>1 DEF NewByte, OutCalls

LEMMA WriteStep ==
    ASSUME IInv, NEW p \in Procs, Write(p)
    PROVE  IInv'
<1>1. pc[p] \in InBus /\ "unlock" \in InBus /\ Goto(p, "unlock")
  BY DEF Write, InBus
<1>2. /\ OnBus' = OnBus /\ OnBus = {p}
      /\ Books' /\ OneCreator' /\ MutualExclusion' /\ SemaphoreIsKept'
  BY <1>1, OnBusStays DEF Write
<1> USE DEF IInv, Write, Goto
<1>3. TypeOK'
  BY NewByteType DEF TypeOK, InBus, semVars, Store
<1>4. CallsAreCalls'
  BY DEF TypeOK, CallsAreCalls, InBus
<1>5. WindowIsOwn' /\ ValIsPort'
  BY <1>2 DEF TypeOK, WindowIsOwn, ValIsPort, OnBus, InBus
<1> QED
  BY <1>2, <1>3, <1>4, <1>5

LEMMA UnlockStep ==
    ASSUME IInv, NEW p \in Procs, Unlock(p)
    PROVE  IInv'
<1> USE DEF IInv, Unlock, ReturnTo, Goto
<1>1. OnBus = {p} /\ semval = 0 /\ undo[p] = 1 /\ raised
  BY DEF MutualExclusion, OnBus, InBus, Books
<1>2. OnBus' = {}
  BY <1>1 DEF TypeOK, OnBus, InBus
<1>3. TypeOK'
  BY <1>1 DEF TypeOK, fpgaVars
<1>4. Books'
  BY <1>1, <1>2 DEF TypeOK, Books
<1>5. OneCreator'
  BY DEF TypeOK, OneCreator
<1>6. MutualExclusion' /\ SemaphoreIsKept'
  BY <1>1, <1>2 DEF MutualExclusion, SemaphoreIsKept, OnBus
<1>7. CallsAreCalls' /\ WindowIsOwn' /\ ValIsPort'
  BY DEF TypeOK, CallsAreCalls, WindowIsOwn, ValIsPort, InBus, fpgaVars
<1> QED
  BY <1>3, <1>4, <1>5, <1>6, <1>7

LEMMA DieStep ==
    ASSUME IInv, NEW p \in Procs, Die(p)
    PROVE  IInv'
<1> USE DEF IInv, Die, ReturnTo, Goto
<1>1. OnBus' = OnBus \ {p}
  BY DEF TypeOK, OnBus, InBus
<1>2. p \in OnBus => OnBus = {p} /\ raised /\ semval = 0 /\ undo[p] = 1
  BY DEF MutualExclusion, OnBus, Books
<1>3. p \notin OnBus => undo[p] = 0
  BY DEF Books
<1>4. semval' = semval + undo[p] /\ semval' \in {0, 1}
  BY <1>2, <1>3 DEF TypeOK, Books, Undone
<1>5. \A q \in Procs : q # p => pc'[q] = pc[q]
  BY DEF TypeOK
<1>6. TypeOK'
  BY <1>4, NewByteType DEF TypeOK, Store
<1>7. Books'
  BY <1>1, <1>2, <1>3, <1>4 DEF TypeOK, Books
<1>8. OneCreator'
  BY DEF TypeOK, OneCreator
<1>9. MutualExclusion'
  BY <1>5 DEF TypeOK, MutualExclusion, InBus
<1>10. SemaphoreIsKept'
  BY <1>1, <1>2, <1>3, <1>4 DEF SemaphoreIsKept, OnBus, Books
<1>11. CallsAreCalls' /\ WindowIsOwn'
  BY DEF TypeOK, CallsAreCalls, WindowIsOwn, InBus
<1>12. ValIsPort'
  <2>1. CASE UNCHANGED port
    BY <2>1 DEF TypeOK, ValIsPort
  <2>2. CASE pc[p] = "write"
    <3>1. OnBus = {p}
      BY <2>2, <1>2 DEF OnBus, InBus
    <3> QED
      BY <3>1 DEF TypeOK, ValIsPort, OnBus, InBus
  <2> QED
    BY <2>1, <2>2
<1> QED
  BY <1>6, <1>7, <1>8, <1>9, <1>10, <1>11, <1>12

LEMMA StutterStep == IInv /\ UNCHANGED vars => IInv'
  BY DEF IInv, vars, semVars, fpgaVars, TypeOK, Books, OnBus, MutualExclusion, SemaphoreIsKept,
         OneCreator, CallsAreCalls, WindowIsOwn, ValIsPort

LEMMA NextIInv == IInv /\ [Next]_vars => IInv'
<1> SUFFICES ASSUME IInv, Next PROVE IInv'
  BY StutterStep
<1>1. PICK p \in Procs : Start(p) \/ Die(p) \/ Step(p) \/ \E c \in Calls : Call(p, c)
  BY DEF Next
<1> QED
  BY <1>1, StartStep, DieStep, CallStep, SemgetStep, RaiseStep, LockStep, SelectStep, ReadStep,
     WriteStep, UnlockStep DEF Step

THEOREM Invariance == Spec => []IInv
  BY InitIInv, NextIInv, PTL DEF Spec

\* What the kernel keeps, the processes' places and the ports stay what they are.
THEOREM TypeCorrect == Spec => []TypeOK
  BY Invariance, PTL DEF IInv

\* nbuslock lets one process at a time onto the bus, although any of them may make
\* the semaphore, and end at any step.
THEOREM MutualExclusionHolds == Spec => []MutualExclusion
  BY Invariance, PTL DEF IInv

\* The data register shows the port of the call that uses it.
THEOREM WindowHolds == Spec => []WindowIsOwn
  BY Invariance, PTL DEF IInv

\* SEM_UNDO gives back what a process had taken: the raised semaphore is not lost.
THEOREM SemaphoreHolds == Spec => []SemaphoreIsKept
  BY Invariance, PTL DEF IInv

\* A call of OutPort changes the output that it is for and no other.
OnlyTheBitStep ==
    \A a \in Ports : port'[a] # port[a] =>
          \E p \in Procs :
              /\ pc[p] = "write" /\ call[p].out /\ call[p].port = a
              /\ port'[a] \in {port[a] \union {call[p].bit}, port[a] \ {call[p].bit}}

LEMMA StoreChangesTheBit ==
    ASSUME IInv, NEW p \in Procs, pc[p] = "write", Store(p)
    PROVE  OnlyTheBitStep
<1>1. call[p] \in OutCalls /\ call[p].out /\ window = call[p].port /\ val[p] = port[window]
  BY DEF IInv, CallsAreCalls, OutCalls, WindowIsOwn, ValIsPort
<1>2. NewByte(p) \in {port[window] \union {call[p].bit}, port[window] \ {call[p].bit}}
  BY <1>1 DEF NewByte
<1>3. port' = [port EXCEPT ![window] = NewByte(p)] /\ port \in [Ports -> SUBSET Bits]
  BY DEF Store, IInv, TypeOK
<1> QED
  BY <1>1, <1>2, <1>3 DEF OnlyTheBitStep

LEMMA OnlyTheBitNext == IInv /\ [Next]_vars => OnlyTheBitStep
<1> SUFFICES ASSUME IInv, [Next]_vars, UNCHANGED port \/ \E p \in Procs : pc[p] = "write" /\ Store(p)
             PROVE  OnlyTheBitStep
  BY DEF Next, Step, Start, Call, Semget, Raise, Lock, Select, Read, Write, Unlock, Die, vars, fpgaVars
<1> QED
  BY StoreChangesTheBit DEF OnlyTheBitStep

THEOREM OnlyTheBitHolds == Spec => OnlyTheBit
<1>1. IInv /\ [Next]_vars => [OnlyTheBitStep]_vars
  BY OnlyTheBitNext
<1> QED
  BY <1>1, Invariance, PTL DEF Spec, OnlyTheBit, OnlyTheBitStep
=============================================================================
