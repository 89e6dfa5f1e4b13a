-------------------------------- MODULE NBus --------------------------------
(***************************************************************************)
(* The input and output ports behind the FPGA bus (client/ioports.c), and  *)
(* the semaphore by which the processes of one board share that bus        *)
(* (client/nbus.c; the server is built with the same two files).           *)
(*                                                                         *)
(* The kernel keeps the semaphore when a process ends, and gives back what *)
(* the process had taken with SEM_UNDO.  Processes may end at any step and *)
(* be started again.  In each of them one thread uses the bus: nbuslocked  *)
(* belongs to the process, and monitor_input_task is never started.        *)
(*                                                                         *)
(* A port is the set of its bits that are on.  All port addresses share    *)
(* their upper half, so the pokes of MW_ADR and MW_CONF are one step, and  *)
(* so are the stores to the pins of one poke or peek: that no other        *)
(* process stores between them is MutualExclusion.                         *)
(*                                                                         *)
(* Operators marked "fault" are slips a later change could make; nothing   *)
(* uses them but the runs that show each property would notice.            *)
(***************************************************************************)
EXTENDS Integers

CONSTANTS Procs, Ports, Bits,
          NoCall,    \* not a call
          MaxStarts  \* bound: how often each process is started

ASSUME StartsAssumption == MaxStarts \in Nat

VARIABLES
    made, semval,  \* the kernel's semaphore set
    raised,        \* history: its creator has raised it
    undo,          \* the kernel's semadj of each process
    semid,         \* the processes that know the set
    nbuslocked,
    pc, call,      \* where a process is, and the call it makes
    val,           \* the local variable of OutPort and InPortByte
    window,        \* the port that MW_DAT1 shows
    port,          \* the FPGA's ports
    starts

semVars == <<made, semval, raised, undo>>
fpgaVars == <<window, port>>
vars == <<semVars, semid, nbuslocked, pc, call, val, fpgaVars, starts>>

OutCalls == [out : {TRUE}, port : Ports, bit : Bits, onoff : BOOLEAN]
InCalls == [out : {FALSE}, port : Ports]
Calls == OutCalls \union InCalls

InBus == {"select", "read", "reselect", "write", "unlock"}

Init ==
    /\ made = FALSE /\ semval = 0 /\ raised = FALSE
    /\ undo = [p \in Procs |-> 0]
    /\ semid = {} /\ nbuslocked = {}
    /\ pc = [p \in Procs |-> "off"]
    /\ call = [p \in Procs |-> NoCall]
    /\ val = [p \in Procs |-> {}]
    /\ window \in Ports
    /\ port = [a \in Ports |-> {}]
    /\ starts = [p \in Procs |-> 0]

Goto(p, label) == pc' = [pc EXCEPT ![p] = label]

Start(p) ==
    /\ pc[p] = "off" /\ starts[p] < MaxStarts
    /\ starts' = [starts EXCEPT ![p] = @ + 1]
    /\ Goto(p, "idle")
    /\ UNCHANGED <<semVars, semid, nbuslocked, call, val, fpgaVars>>

\* OutPort or InPortByte is called and calls nbuslock.
Call(p, c) ==
    /\ pc[p] = "idle"
    /\ call' = [call EXCEPT ![p] = c]
    /\ Goto(p, IF p \in semid THEN "wait" ELSE "semget")
    /\ UNCHANGED <<semVars, semid, nbuslocked, val, fpgaVars, starts>>

\* semget with IPC_EXCL; who fails to create the set takes the one that exists.
Semget(p) ==
    /\ pc[p] = "semget"
    /\ made' = TRUE /\ semid' = semid \union {p}
    /\ Goto(p, IF made THEN "wait" ELSE "raise")
    /\ UNCHANGED <<semval, raised, undo, nbuslocked, call, val, fpgaVars, starts>>

RaiseWithUndo(p) ==  \* fault: the first +1 is taken back when its process ends
    /\ pc[p] = "raise"
    /\ semval' = semval + 1 /\ raised' = TRUE
    /\ undo' = [undo EXCEPT ![p] = @ - 1]
    /\ Goto(p, "wait")
    /\ UNCHANGED <<made, semid, nbuslocked, call, val, fpgaVars, starts>>

\* The creator's first semop, without SEM_UNDO.
Raise(p) ==
    /\ pc[p] = "raise"
    /\ semval' = semval + 1 /\ raised' = TRUE
    /\ Goto(p, "wait")
    /\ UNCHANGED <<made, undo, semid, nbuslocked, call, val, fpgaVars, starts>>

LockWithoutUndo(p) ==  \* fault: nobody gives back what a dead process took
    /\ pc[p] = "wait" /\ semval > 0
    /\ semval' = semval - 1
    /\ nbuslocked' = nbuslocked \union {p}
    /\ Goto(p, "select")
    /\ UNCHANGED <<made, raised, undo, semid, call, val, fpgaVars, starts>>

LockByFlag(p) ==  \* fault: passes while another process has the bus
    /\ pc[p] = "wait" /\ p \notin nbuslocked
    /\ semval' = IF semval > 0 THEN semval - 1 ELSE 0
    /\ undo' = [undo EXCEPT ![p] = IF semval > 0 THEN @ + 1 ELSE @]
    /\ nbuslocked' = nbuslocked \union {p}
    /\ Goto(p, "select")
    /\ UNCHANGED <<made, raised, semid, call, val, fpgaVars, starts>>

\* semop -1 with SEM_UNDO, tried again after a signal.
Lock(p) ==
    /\ pc[p] = "wait" /\ semval > 0
    /\ semval' = semval - 1
    /\ undo' = [undo EXCEPT ![p] = @ + 1]
    /\ nbuslocked' = nbuslocked \union {p}
    /\ Goto(p, "select")
    /\ UNCHANGED <<made, raised, semid, call, val, fpgaVars, starts>>

\* winpeek8 and winpoke8, called with the lock: MW_ADR and MW_CONF.
Select(p) ==
    /\ pc[p] \in {"select", "reselect"}
    /\ window' = call[p].port
    /\ Goto(p, IF pc[p] = "select" THEN "read" ELSE "write")
    /\ UNCHANGED <<semVars, semid, nbuslocked, call, val, port, starts>>

\* winpeek8: MW_DAT1.
Read(p) ==
    /\ pc[p] = "read"
    /\ val' = [val EXCEPT ![p] = port[window]]
    /\ Goto(p, IF call[p].out THEN "reselect" ELSE "unlock")
    /\ UNCHANGED <<semVars, semid, nbuslocked, call, fpgaVars, starts>>

\* OutPort's byte: val | (1 << bit), or val & ~(1 << bit).
NewByte(p) == IF call[p].onoff THEN val[p] \union {call[p].bit} ELSE val[p] \ {call[p].bit}

Store(p) == port' = [port EXCEPT ![window] = NewByte(p)]

\* winpoke8: MW_DAT1.
Write(p) ==
    /\ pc[p] = "write"
    /\ Store(p)
    /\ Goto(p, "unlock")
    /\ UNCHANGED <<semVars, semid, nbuslocked, call, val, window, starts>>

\* The call's arguments and its local variable end with it.
ReturnTo(p, label) ==
    /\ Goto(p, label)
    /\ call' = [call EXCEPT ![p] = NoCall]
    /\ val' = [val EXCEPT ![p] = {}]

Unlock(p) ==
    /\ pc[p] = "unlock"
    /\ semval' = semval + 1
    /\ undo' = [undo EXCEPT ![p] = @ - 1]
    /\ nbuslocked' = nbuslocked \ {p}
    /\ ReturnTo(p, "idle")
    /\ UNCHANGED <<made, raised, semid, fpgaVars, starts>>

\* At the end of a process the kernel adds its semadj, at least to zero.
Undone(p) == IF semval + undo[p] < 0 THEN 0 ELSE semval + undo[p]

\* A process ends, between two steps or in the middle of a store.
Die(p) ==
    /\ pc[p] # "off"
    /\ semval' = Undone(p)
    /\ undo' = [undo EXCEPT ![p] = 0]
    /\ semid' = semid \ {p} /\ nbuslocked' = nbuslocked \ {p}
    /\ \/ UNCHANGED port
       \/ pc[p] = "write" /\ Store(p)
    /\ ReturnTo(p, "off")
    /\ UNCHANGED <<made, raised, window, starts>>

Step(p) ==
    \/ Semget(p) \/ Raise(p) \/ Lock(p) \/ Select(p)
    \/ Read(p) \/ Write(p) \/ Unlock(p)

Next == \E p \in Procs :
    \/ Start(p) \/ Die(p) \/ Step(p)
    \/ \E c \in Calls : Call(p, c)

Spec == Init /\ [][Next]_vars

\* A process that is in a call is scheduled; the kernel serves those that wait
\* for the semaphore in the order in which they came, so none is passed over
\* for ever.
FairSpec == Spec /\ \A p \in Procs : WF_vars(Step(p)) /\ SF_vars(Lock(p))
-----------------------------------------------------------------------------
(***************************************************************************)
(* Properties.                                                             *)
(***************************************************************************)

TypeOK ==
    /\ made \in BOOLEAN /\ semval \in Nat /\ raised \in BOOLEAN
    /\ undo \in [Procs -> {0, 1}]
    /\ semid \subseteq Procs /\ nbuslocked \subseteq Procs
    /\ pc \in [Procs -> InBus \union {"off", "idle", "semget", "raise", "wait"}]
    /\ call \in [Procs -> Calls \union {NoCall}]
    /\ val \in [Procs -> SUBSET Bits]
    /\ window \in Ports
    /\ port \in [Ports -> SUBSET Bits]
    /\ starts \in [Procs -> 0..MaxStarts]

\* One process at a time is on the bus, whichever of them made the semaphore
\* and whichever ended with the lock: the value is raised once for all.
MutualExclusion ==
    \A p, q \in Procs : pc[p] \in InBus /\ pc[q] \in InBus => p = q

\* The data register shows the port of the call that is about to use it, also
\* after a process that ended in the middle of a call left it elsewhere.
WindowIsOwn == \A p \in Procs : pc[p] \in {"read", "write"} => window = call[p].port

\* A call changes no output but its own: the bits that OutPort writes back are
\* those of the port now (no update of another process is lost).
OnlyTheBit ==
    [][\A a \in Ports : port'[a] # port[a] =>
          \E p \in Procs :
              /\ pc[p] = "write" /\ call[p].out /\ call[p].port = a
              /\ port'[a] \in {port[a] \union {call[p].bit}, port[a] \ {call[p].bit}}]_vars

\* Once it was raised the semaphore is not lost: it is free, or a process that
\* will give it back has it.  (A creator that ends before its first semop leaves
\* it at zero, and nobody raises it again.)
SemaphoreIsKept == raised => semval = 1 \/ \E p \in Procs : pc[p] \in InBus

\* Then a process that waits for the bus gets it, however the others end.
LockIsGranted == \A p \in Procs : raised /\ pc[p] = "wait" ~> pc[p] # "wait"

=============================================================================
