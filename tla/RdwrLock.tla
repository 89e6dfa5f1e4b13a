------------------------------ MODULE RdwrLock ------------------------------
(***************************************************************************)
(* The reader/writer lock of queue/rdwr.c that guards the port lists of    *)
(* queue/ollist_threads_rw.c: a mutex, one condition variable (lock_free)  *)
(* and two counters.                                                       *)
(*                                                                         *)
(* All four functions touch the counters only while they hold the mutex,   *)
(* so each critical section is one step.  pthread_cond_wait releases the   *)
(* mutex in the middle of a function: the thread then joins the wait set   *)
(* lockFree, and after a wakeup it takes the mutex again and re-evaluates  *)
(* the loop condition from the top.  A waiter may also wake for no reason, *)
(* which POSIX allows and the while loops are there for.                   *)
(*                                                                         *)
(* Operators marked "fault" are slips a later change could make; nothing   *)
(* uses them but the runs that show each property would notice.            *)
(***************************************************************************)
EXTENDS Naturals, FiniteSets

CONSTANT Threads

ASSUME ThreadsAssumption == IsFiniteSet(Threads)

VARIABLES
    readersReading,  \* rdwrp->readers_reading
    writerWriting,   \* rdwrp->writer_writing
    lockFree,        \* threads blocked in pthread_cond_wait(&lock_free, ...)
    pc               \* where each thread is in its use of the lock

vars == <<readersReading, writerWriting, lockFree, pc>>

\* "rlock" and "wlock" are threads inside the acquiring function, on their way
\* to the mutex unless they are in lockFree.
Reading == {t \in Threads : pc[t] = "reading"}
Writing == {t \in Threads : pc[t] = "writing"}

Init ==
    /\ readersReading = 0
    /\ writerWriting = 0
    /\ lockFree = {}
    /\ pc = [t \in Threads |-> "idle"]

\* A list operation begins with the rlock or the wlock.
Call(t) ==
    /\ pc[t] = "idle"
    /\ \E op \in {"rlock", "wlock"} : pc' = [pc EXCEPT ![t] = op]
    /\ UNCHANGED <<readersReading, writerWriting, lockFree>>

WaitForWriters == writerWriting # 0  \* fault: a writer joins readers
WaitForReaders == readersReading # 0  \* fault: a writer joins a writer
ReadersMustWait == writerWriting # 0
WritersMustWait == writerWriting # 0 \/ readersReading # 0

Wait(t) ==
    /\ lockFree' = lockFree \union {t}
    /\ UNCHANGED <<readersReading, writerWriting, pc>>

RLock(t) ==
    /\ pc[t] = "rlock" /\ t \notin lockFree
    /\ \/ ReadersMustWait /\ Wait(t)
       \/ /\ ~ReadersMustWait
          /\ readersReading' = readersReading + 1
          /\ pc' = [pc EXCEPT ![t] = "reading"]
          /\ UNCHANGED <<writerWriting, lockFree>>

WLock(t) ==
    /\ pc[t] = "wlock" /\ t \notin lockFree
    /\ \/ WritersMustWait /\ Wait(t)
       \/ /\ ~WritersMustWait
          /\ writerWriting' = writerWriting + 1
          /\ pc' = [pc EXCEPT ![t] = "writing"]
          /\ UNCHANGED <<readersReading, lockFree>>

\* pthread_cond_signal: one waiter, any of them, goes back to the mutex.
SignalNobody == UNCHANGED lockFree  \* fault
Signal ==
    \/ lockFree = {} /\ UNCHANGED lockFree
    \/ \E w \in lockFree : lockFree' = lockFree \ {w}

\* pthread_cond_broadcast
Broadcast == lockFree' = {}

\* A reader that finds the count at zero is refused (-1) and changes nothing.
RUnlock(t) ==
    /\ pc[t] = "reading"
    /\ pc' = [pc EXCEPT ![t] = "idle"]
    /\ IF readersReading = 0
         THEN UNCHANGED <<readersReading, lockFree>>
         ELSE /\ readersReading' = readersReading - 1
              /\ IF readersReading' = 0 THEN Signal ELSE UNCHANGED lockFree
    /\ UNCHANGED writerWriting

\* fault: the body of runlock, copied
WUnlockCountsReaders(t) ==
    /\ pc[t] = "writing"
    /\ pc' = [pc EXCEPT ![t] = "idle"]
    /\ readersReading' = readersReading - 1 /\ Broadcast
    /\ UNCHANGED writerWriting

WUnlock(t) ==
    /\ pc[t] = "writing"
    /\ pc' = [pc EXCEPT ![t] = "idle"]
    /\ IF writerWriting = 0
         THEN UNCHANGED <<writerWriting, lockFree>>
         ELSE writerWriting' = 0 /\ Broadcast
    /\ UNCHANGED readersReading

SpuriousWakeup(t) ==
    /\ t \in lockFree
    /\ lockFree' = lockFree \ {t}
    /\ UNCHANGED <<readersReading, writerWriting, pc>>

Next ==
    \E t \in Threads :
        \/ Call(t) \/ RLock(t) \/ WLock(t)
        \/ RUnlock(t) \/ WUnlock(t) \/ SpuriousWakeup(t)

Spec == Init /\ [][Next]_vars

\* A thread that is not blocked gets the processor and the mutex in the end,
\* and every list operation ends by unlocking.  Nothing says that a thread
\* calls the lock at all, or that a spurious wakeup ever happens.
Fairness ==
    \A t \in Threads :
        WF_vars(RLock(t)) /\ WF_vars(WLock(t)) /\ WF_vars(RUnlock(t)) /\ WF_vars(WUnlock(t))

FairSpec == Spec /\ Fairness

-----------------------------------------------------------------------------

TypeOK ==
    /\ readersReading \in Nat
    /\ writerWriting \in Nat
    /\ lockFree \subseteq {t \in Threads : pc[t] \in {"rlock", "wlock"}}
    /\ pc \in [Threads -> {"idle", "rlock", "wlock", "reading", "writing"}]

\* The two counters are exactly the threads between their lock and unlock: no
\* wakeup, retry or refused unlock ever makes them drift (rdwr.c:25-76).
CountersMatch ==
    /\ readersReading = Cardinality(Reading)
    /\ writerWriting = Cardinality(Writing)

\* A writer is alone in the list: no second writer and no reader with it.
Exclusion ==
    \A w \in Writing : Writing = {w} /\ Reading = {}

\* runlock signals ONE waiter and wunlock wakes all.  One is enough only
\* because a reader never sleeps for a reader: whoever waits to read waits for
\* a writer, whose unlock is the broadcast.
ReadersWaitForWriters ==
    \A t \in lockFree : pc[t] = "rlock" => writerWriting # 0

\* No lost wakeup: a free lock with sleepers always has a thread awake that is
\* about to take it (and will, when it lets go, wake the next).
NoLostWakeup ==
    (lockFree # {} /\ readersReading = 0 /\ writerWriting = 0)
        => \E t \in Threads \ lockFree : pc[t] \in {"rlock", "wlock"}

Held == readersReading # 0 \/ writerWriting # 0

\* While somebody wants the lock it does not stay free for ever.
LockIsTaken ==
    (\E t \in Threads : pc[t] \in {"rlock", "wlock"}) ~> Held

\* A reader asleep on the condition variable is woken again; a writer need not
\* be, because runlock may pick another sleeper each time.
ReaderIsWoken ==
    \A t \in Threads : (t \in lockFree /\ pc[t] = "rlock") ~> t \notin lockFree

\* The lock implements the abstract exclusion: every step of rdwr.c enters or
\* leaves for one thread, or is invisible to the list operations.
Abstract == INSTANCE RWExclusion WITH readers <- Reading, writers <- Writing
ImplementsExclusion == Abstract!Spec

=============================================================================
