--------------------------- MODULE RdwrLockProofs ---------------------------
(***************************************************************************)
(* Proofs about RdwrLock for every finite set of threads: the counters     *)
(* match the threads inside, a writer is alone, no wakeup is lost, and the *)
(* lock implements RWExclusion.                                            *)
(***************************************************************************)
EXTENDS RdwrLock, FiniteSetTheorems, TLAPS

\* Exclusion and NoLostWakeup are about the threads, the code about the
\* counters: CountersMatch ties the two, so the conjunction is inductive.
IInv ==
    /\ TypeOK
    /\ CountersMatch
    /\ Exclusion
    /\ ReadersWaitForWriters
    /\ NoLostWakeup

\* The threads inside the lock are finite sets, so a zero count means nobody.
LEMMA CountsFinite ==
    /\ IsFiniteSet(Reading) /\ IsFiniteSet(Writing)
    /\ Cardinality(Reading) = 0 <=> Reading = {}
    /\ Cardinality(Writing) = 0 <=> Writing = {}
<1>1. Reading \in SUBSET Threads /\ Writing \in SUBSET Threads
  BY DEF Reading, Writing
<1>2. IsFiniteSet(Reading) /\ IsFiniteSet(Writing)
  BY <1>1, FS_Subset, ThreadsAssumption
<1> QED
  BY <1>2, FS_EmptySet

LEMMA InitIInv == Init => IInv
<1> SUFFICES ASSUME Init PROVE IInv
  OBVIOUS
<1>1. Reading = {} /\ Writing = {}
  BY DEF Init, Reading, Writing
<1>2. CountersMatch
  BY <1>1, FS_EmptySet DEF Init, CountersMatch
<1> QED
  BY <1>1, <1>2 DEF Init, IInv, TypeOK, Exclusion, ReadersWaitForWriters, NoLostWakeup

\* A step that moves no thread into or out of the lock keeps the counts.
LEMMA CountsStutter ==
    ASSUME CountersMatch, Exclusion, UNCHANGED <<readersReading, writerWriting>>,
           Reading' = Reading, Writing' = Writing
    PROVE  CountersMatch' /\ Exclusion'
  BY DEF CountersMatch, Exclusion

LEMMA CallStep ==
    ASSUME IInv, NEW t \in Threads, Call(t)
    PROVE  IInv'
<1> USE DEF IInv
<1>1. TypeOK'
  BY DEF TypeOK, Call
<1>2. Reading' = Reading /\ Writing' = Writing
  BY DEF TypeOK, Call, Reading, Writing
<1>3. CountersMatch' /\ Exclusion'
  BY <1>2, CountsStutter DEF Call
<1>4. ReadersWaitForWriters' /\ NoLostWakeup'
  BY DEF TypeOK, Call, ReadersWaitForWriters, NoLostWakeup
<1> QED
  BY <1>1, <1>3, <1>4

LEMMA RLockStep ==
    ASSUME IInv, NEW t \in Threads, RLock(t)
    PROVE  IInv'
<1> USE DEF IInv
<1>1. CASE ReadersMustWait /\ Wait(t)
  <2>1. TypeOK'
    BY <1>1 DEF TypeOK, RLock, Wait
  <2>2. Reading' = Reading /\ Writing' = Writing
    BY <1>1 DEF Wait, Reading, Writing
  <2>3. CountersMatch' /\ Exclusion'
    BY <1>1, <2>2, CountsStutter DEF Wait
  <2>4. ReadersWaitForWriters' /\ NoLostWakeup'
    BY <1>1 DEF Wait, ReadersMustWait, ReadersWaitForWriters, NoLostWakeup
  <2> QED
    BY <2>1, <2>3, <2>4
<1>2. CASE /\ ~ReadersMustWait
           /\ readersReading' = readersReading + 1
           /\ pc' = [pc EXCEPT ![t] = "reading"]
           /\ UNCHANGED <<writerWriting, lockFree>>
  <2>1. TypeOK'
    BY <1>2 DEF TypeOK, RLock
  <2>2. Reading' = Reading \union {t} /\ t \notin Reading /\ Writing' = Writing
    BY <1>2 DEF TypeOK, RLock, Reading, Writing
  <2>3. Writing = {}
    BY <1>2, CountsFinite DEF ReadersMustWait, CountersMatch
  <2>4. Cardinality(Reading') = Cardinality(Reading) + 1
    BY <2>2, CountsFinite, FS_AddElement
  <2>5. CountersMatch' /\ Exclusion'
    BY <1>2, <2>2, <2>3, <2>4 DEF CountersMatch, Exclusion
  <2>6. ReadersWaitForWriters' /\ NoLostWakeup'
    BY <1>2 DEF TypeOK, ReadersWaitForWriters, NoLostWakeup
  <2> QED
    BY <2>1, <2>5, <2>6
<1> QED
  BY <1>1, <1>2 DEF RLock

LEMMA WLockStep ==
    ASSUME IInv, NEW t \in Threads, WLock(t)
    PROVE  IInv'
<1> USE DEF IInv
<1>1. CASE WritersMustWait /\ Wait(t)
  <2>1. TypeOK'
    BY <1>1 DEF TypeOK, WLock, Wait
  <2>2. Reading' = Reading /\ Writing' = Writing
    BY <1>1 DEF Wait, Reading, Writing
  <2>3. CountersMatch' /\ Exclusion'
    BY <1>1, <2>2, CountsStutter DEF Wait
  <2>4. ReadersWaitForWriters' /\ NoLostWakeup'
    BY <1>1 DEF WLock, Wait, WritersMustWait, ReadersWaitForWriters, NoLostWakeup
  <2> QED
    BY <2>1, <2>3, <2>4
<1>2. CASE /\ ~WritersMustWait
           /\ writerWriting' = writerWriting + 1
           /\ pc' = [pc EXCEPT ![t] = "writing"]
           /\ UNCHANGED <<readersReading, lockFree>>
  <2>1. TypeOK'
    BY <1>2 DEF TypeOK, WLock
  <2>2. Reading = {} /\ Writing = {} /\ writerWriting = 0
    BY <1>2, CountsFinite DEF WritersMustWait, CountersMatch
  <2>3. Reading' = {} /\ Writing' = {t}
    BY <1>2, <2>2 DEF TypeOK, WLock, Reading, Writing
  <2>4. CountersMatch' /\ Exclusion'
    <3>1. Cardinality({t}) = 1 /\ Cardinality({}) = 0
      BY FS_EmptySet, FS_Singleton
    <3> QED
      BY <1>2, <2>2, <2>3, <3>1 DEF CountersMatch, Exclusion
  <2>5. ReadersWaitForWriters' /\ NoLostWakeup'
    BY <1>2, <2>2 DEF TypeOK, ReadersWaitForWriters, NoLostWakeup
  <2> QED
    BY <2>1, <2>4, <2>5
<1> QED
  BY <1>1, <1>2 DEF WLock

LEMMA RUnlockStep ==
    ASSUME IInv, NEW t \in Threads, RUnlock(t)
    PROVE  IInv'
<1> USE DEF IInv
<1>1. Reading' = Reading \ {t} /\ t \in Reading /\ Writing' = Writing
  BY DEF TypeOK, RUnlock, Reading, Writing
<1>2. readersReading # 0
  BY <1>1, CountsFinite DEF CountersMatch
<1>3. /\ readersReading' = readersReading - 1
      /\ UNCHANGED writerWriting
      /\ IF readersReading' = 0 THEN Signal ELSE UNCHANGED lockFree
  BY <1>2 DEF RUnlock
<1>4. lockFree' \subseteq lockFree
  BY <1>3 DEF Signal
<1>5. TypeOK'
  BY <1>2, <1>3, <1>4 DEF TypeOK, RUnlock
<1>6. Cardinality(Reading') = Cardinality(Reading) - 1
  BY <1>1, CountsFinite, FS_RemoveElement
<1>7. CountersMatch' /\ Exclusion'
  BY <1>1, <1>3, <1>6 DEF CountersMatch, Exclusion
<1>8. ReadersWaitForWriters'
  BY <1>3, <1>4 DEF TypeOK, RUnlock, ReadersWaitForWriters
<1>9. NoLostWakeup'
  <2>1. CASE readersReading' = 0
    BY <1>3, <2>1 DEF TypeOK, RUnlock, Signal, NoLostWakeup
  <2>2. CASE readersReading' # 0
    BY <2>2 DEF NoLostWakeup
  <2> QED
    BY <2>1, <2>2
<1> QED
  BY <1>5, <1>7, <1>8, <1>9

LEMMA WUnlockStep ==
    ASSUME IInv, NEW t \in Threads, WUnlock(t)
    PROVE  IInv'
<1> USE DEF IInv
<1>1. Writing' = Writing \ {t} /\ t \in Writing /\ Reading' = Reading
  BY DEF TypeOK, WUnlock, Reading, Writing
<1>2. writerWriting # 0
  BY <1>1, CountsFinite DEF CountersMatch
<1>3. writerWriting' = 0 /\ lockFree' = {} /\ UNCHANGED readersReading
  BY <1>2 DEF WUnlock, Broadcast
<1>4. TypeOK'
  BY <1>3 DEF TypeOK, WUnlock
<1>5. Writing' = {}
  BY <1>1 DEF Exclusion
<1>6. CountersMatch' /\ Exclusion'
  BY <1>1, <1>3, <1>5, FS_EmptySet DEF CountersMatch, Exclusion
<1>7. ReadersWaitForWriters' /\ NoLostWakeup'
  BY <1>3 DEF ReadersWaitForWriters, NoLostWakeup
<1> QED
  BY <1>4, <1>6, <1>7

LEMMA SpuriousStep ==
    ASSUME IInv, NEW t \in Threads, SpuriousWakeup(t)
    PROVE  IInv'
<1> USE DEF IInv
<1>1. Reading' = Reading /\ Writing' = Writing
  BY DEF SpuriousWakeup, Reading, Writing
<1>2. CountersMatch' /\ Exclusion'
  BY <1>1, CountsStutter DEF SpuriousWakeup
<1>3. TypeOK' /\ ReadersWaitForWriters' /\ NoLostWakeup'
  BY DEF TypeOK, SpuriousWakeup, ReadersWaitForWriters, NoLostWakeup
<1> QED
  BY <1>2, <1>3

LEMMA StutterStep ==
    ASSUME IInv, UNCHANGED vars
    PROVE  IInv'
<1>1. Reading' = Reading /\ Writing' = Writing
  BY DEF vars, Reading, Writing
<1>2. CountersMatch' /\ Exclusion'
  BY <1>1, CountsStutter DEF vars, IInv
<1> QED
  BY <1>2 DEF vars, IInv, TypeOK, ReadersWaitForWriters, NoLostWakeup

\* The conjunction holds in every reachable state, whatever the number of
\* threads that share the list.
THEOREM Invariance == Spec => []IInv
<1>1. IInv /\ [Next]_vars => IInv'
  BY CallStep, RLockStep, WLockStep, RUnlockStep, WUnlockStep, SpuriousStep, StutterStep
     DEF Next
<1> QED
  BY InitIInv, <1>1, PTL DEF Spec

\* Type correctness.
THEOREM TypeCorrect == Spec => []TypeOK
  BY Invariance, PTL DEF IInv

\* A writer in the list is alone (rdwr.c:52-61 against 25-33).
THEOREM MutualExclusion == Spec => []Exclusion
  BY Invariance, PTL DEF IInv

\* The counters never drift from the threads inside.
THEOREM CountersExact == Spec => []CountersMatch
  BY Invariance, PTL DEF IInv

\* One signal from the last reader is enough: no reader sleeps for a reader.
THEOREM ReadersSleepForWriters == Spec => []ReadersWaitForWriters
  BY Invariance, PTL DEF IInv

\* A free lock is never left with sleepers and nobody on the way to it.
THEOREM WakeupsNotLost == Spec => []NoLostWakeup
  BY Invariance, PTL DEF IInv

-----------------------------------------------------------------------------

\* Each step of rdwr.c is one abstract entry or exit, or changes nothing that
\* the list operations see.
LEMMA StepRefines ==
    ASSUME IInv, NEW t \in Threads,
           \/ Call(t) \/ RLock(t) \/ WLock(t)
           \/ RUnlock(t) \/ WUnlock(t) \/ SpuriousWakeup(t)
    PROVE  Abstract!Next \/ UNCHANGED <<Reading, Writing>>
<1> USE DEF IInv, TypeOK
<1>1. CASE Call(t)
  BY <1>1 DEF Call, Reading, Writing
<1>2. CASE RLock(t)
  <2>1. CASE Wait(t)
    BY <2>1 DEF Wait, Reading, Writing
  <2>2. CASE ~ReadersMustWait /\ pc' = [pc EXCEPT ![t] = "reading"]
    <3>1. Writing = {}
      BY <2>2, CountsFinite DEF ReadersMustWait, CountersMatch
    <3>2. Reading' = Reading \union {t} /\ t \notin Reading /\ Writing' = Writing
      BY <1>2, <2>2 DEF RLock, Reading, Writing
    <3> QED
      BY <3>1, <3>2 DEF Abstract!Next, Abstract!EnterRead
  <2> QED
    BY <1>2, <2>1, <2>2 DEF RLock
<1>3. CASE WLock(t)
  <2>1. CASE Wait(t)
    BY <2>1 DEF Wait, Reading, Writing
  <2>2. CASE ~WritersMustWait /\ pc' = [pc EXCEPT ![t] = "writing"]
    <3>1. Writing = {} /\ Reading = {}
      BY <2>2, CountsFinite DEF WritersMustWait, CountersMatch
    <3>2. Reading' = {} /\ Writing' = {t}
      BY <1>3, <2>2, <3>1 DEF WLock, Reading, Writing
    <3> QED
      BY <3>1, <3>2 DEF Abstract!Next, Abstract!EnterWrite
  <2> QED
    BY <1>3, <2>1, <2>2 DEF WLock
<1>4. CASE RUnlock(t)
  <2>1. Reading' = Reading \ {t} /\ t \in Reading /\ Writing' = Writing
    BY <1>4 DEF RUnlock, Reading, Writing
  <2> QED
    BY <2>1 DEF Abstract!Next, Abstract!LeaveRead
<1>5. CASE WUnlock(t)
  <2>1. Writing' = Writing \ {t} /\ t \in Writing /\ Reading' = Reading
    BY <1>5 DEF WUnlock, Reading, Writing
  <2> QED
    BY <2>1 DEF Abstract!Next, Abstract!LeaveWrite
<1>6. CASE SpuriousWakeup(t)
  BY <1>6 DEF SpuriousWakeup, Reading, Writing
<1> QED
  BY <1>1, <1>2, <1>3, <1>4, <1>5, <1>6

\* The lock implements the exclusion the list operations rely on.
THEOREM Refinement == Spec => ImplementsExclusion
<1>1. Init => Abstract!Init
  BY DEF Init, Abstract!Init, Reading, Writing
<1>2. IInv /\ [Next]_vars => [Abstract!Next]_<<Reading, Writing>>
  <2> SUFFICES ASSUME IInv, [Next]_vars
               PROVE  Abstract!Next \/ UNCHANGED <<Reading, Writing>>
    OBVIOUS
  <2>1. CASE Next
    BY <2>1, StepRefines DEF Next
  <2>2. CASE UNCHANGED vars
    BY <2>2 DEF vars, Reading, Writing
  <2> QED
    BY <2>1, <2>2
<1> QED
  BY <1>1, <1>2, Invariance, PTL DEF Spec, ImplementsExclusion, Abstract!Spec

=============================================================================
