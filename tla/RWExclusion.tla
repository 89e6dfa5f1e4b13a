----------------------------- MODULE RWExclusion -----------------------------
(***************************************************************************)
(* What the users of the port lists rely on: a set of threads that read    *)
(* and a set of threads that write, entered and left one thread at a time, *)
(* with a writer always alone.  How threads wait is not visible here.      *)
(***************************************************************************)
CONSTANT Threads

VARIABLES readers, writers

Init == readers = {} /\ writers = {}

EnterRead(t) ==
    /\ t \notin readers \union writers
    /\ writers = {}
    /\ readers' = readers \union {t} /\ UNCHANGED writers

EnterWrite(t) ==
    /\ readers = {} /\ writers = {}
    /\ writers' = {t} /\ UNCHANGED readers

LeaveRead(t) ==
    /\ t \in readers
    /\ readers' = readers \ {t} /\ UNCHANGED writers

LeaveWrite(t) ==
    /\ t \in writers
    /\ writers' = writers \ {t} /\ UNCHANGED readers

Next == \E t \in Threads :
            EnterRead(t) \/ EnterWrite(t) \/ LeaveRead(t) \/ LeaveWrite(t)

Spec == Init /\ [][Next]_<<readers, writers>>
=============================================================================
