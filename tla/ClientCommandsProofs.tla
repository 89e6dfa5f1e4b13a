------------------------ MODULE ClientCommandsProofs ------------------------
(***************************************************************************)
(* Proofs about ClientCommands for every set of commands, every queue      *)
(* layout, any number of restarts and any content of uninitialised         *)
(* messages: types are kept, no command is carried out twice, and a        *)
(* closing command that was handed on is not lost.                         *)
(***************************************************************************)
EXTENDS ClientCommands, TLAPS

\* Where a command that was sent may be: on its way, in a queue, with a task,
\* or carried out.
InboxSet == {inbox[i] : i \in DOMAIN inbox}
QueueSet(q) == {queue[q][i].command : i \in DOMAIN queue[q]}
HeldSet(t) == IF task[t] = "handling" THEN {held[t].command} ELSE {}
DoneSet == {c \in Commands : done[c] # 0}

NoRepeats ==
    /\ \A i, j \in DOMAIN inbox : inbox[i] = inbox[j] => i = j
    /\ \A q \in Qids : \A i, j \in DOMAIN queue[q] :
           queue[q][i].command = queue[q][j].command => i = j

\* A command is in one place only.
OnePlace ==
    /\ \A q \in Qids : /\ QueueSet(q) \intersect InboxSet = {}
                       /\ QueueSet(q) \intersect DoneSet = {}
                       /\ \A t \in Tasks : QueueSet(q) \intersect HeldSet(t) = {}
                       /\ \A p \in Qids \ {q} : QueueSet(q) \intersect QueueSet(p) = {}
    /\ \A t \in Tasks : /\ HeldSet(t) \intersect InboxSet = {}
                        /\ HeldSet(t) \intersect DoneSet = {}
    /\ HeldSet("host") \intersect HeldSet("basic") = {}
    /\ InboxSet \intersect DoneSet = {}

OnlySent ==
    /\ InboxSet \subseteq sent
    /\ DoneSet \subseteq sent
    /\ \A q \in Qids : QueueSet(q) \subseteq sent
    /\ \A t \in Tasks : HeldSet(t) \subseteq sent

\* A task that handles a message has found its queue.
QueueFound == \A t \in Tasks : task[t] = "handling" => TaskQid(t) \in Qids

IInv == TypeOK /\ AtMostOnce /\ NoRepeats /\ OnePlace /\ OnlySent /\ QueueFound

----------------------------------------------------------------------------
(* Sequences whose elements, or the commands of whose elements, do not     *)
(* repeat.                                                                 *)

LEMMA AppendElements ==
    ASSUME NEW S, NEW s \in Seq(S), NEW e \in S,
           \A i, j \in DOMAIN s : s[i] = s[j] => i = j,
           e \notin {s[i] : i \in DOMAIN s}
    PROVE  /\ Append(s, e) \in Seq(S)
           /\ \A i, j \in DOMAIN Append(s, e) : Append(s, e)[i] = Append(s, e)[j] => i = j
           /\ {Append(s, e)[i] : i \in DOMAIN Append(s, e)} = {s[i] : i \in DOMAIN s} \union {e}
<1> DEFINE r == Append(s, e)
<1>1. /\ r \in Seq(S) /\ DOMAIN s = 1..Len(s) /\ DOMAIN r = 1..(Len(s) + 1) /\ Len(s) \in Nat
      /\ \A i \in 1..Len(s) : r[i] = s[i]
      /\ r[Len(s) + 1] = e
  OBVIOUS
<1> HIDE DEF r
<1>2. \A i \in DOMAIN r : i \in DOMAIN s \/ i = Len(s) + 1
  BY <1>1
<1>3. \A i, j \in DOMAIN r : r[i] = r[j] => i = j
  BY <1>1, <1>2
<1>4. {r[i] : i \in DOMAIN r} = {s[i] : i \in DOMAIN s} \union {e}
  <2>1. ASSUME NEW i \in DOMAIN r PROVE r[i] \in {s[k] : k \in DOMAIN s} \union {e}
    BY <1>1, <1>2
  <2>2. ASSUME NEW i \in DOMAIN s PROVE s[i] \in {r[k] : k \in DOMAIN r}
    BY <1>1
  <2>3. e \in {r[k] : k \in DOMAIN r}
    BY <1>1
  <2> QED
    BY <2>1, <2>2, <2>3
<1> QED
  BY <1>1, <1>3, <1>4 DEF r

LEMMA TailElements ==
    ASSUME NEW S, NEW s \in Seq(S), s # <<>>,
           \A i, j \in DOMAIN s : s[i] = s[j] => i = j
    PROVE  /\ Head(s) \in S /\ Tail(s) \in Seq(S)
           /\ \A i, j \in DOMAIN Tail(s) : Tail(s)[i] = Tail(s)[j] => i = j
           /\ {Tail(s)[i] : i \in DOMAIN Tail(s)} = {s[i] : i \in DOMAIN s} \ {Head(s)}
           /\ Head(s) \in {s[i] : i \in DOMAIN s}
<1> DEFINE r == Tail(s)
<1>1. /\ r \in Seq(S) /\ Len(s) \in Nat \ {0}
      /\ DOMAIN s = 1..Len(s) /\ DOMAIN r = 1..(Len(s) - 1)
      /\ \A i \in 1..(Len(s) - 1) : r[i] = s[i + 1]
      /\ Head(s) = s[1] /\ Head(s) \in S
  OBVIOUS
<1> HIDE DEF r
<1>2. \A i \in DOMAIN r : i + 1 \in DOMAIN s /\ i + 1 # 1 /\ r[i] = s[i + 1] /\ i \in Nat
  BY <1>1
<1>3. \A i, j \in DOMAIN r : r[i] = r[j] => i = j
  BY <1>2
<1>4. \A k \in DOMAIN s : k # 1 => k - 1 \in DOMAIN r /\ r[k - 1] = s[k]
  BY <1>1
<1>5. {r[i] : i \in DOMAIN r} = {s[i] : i \in DOMAIN s} \ {Head(s)}
  <2>1. 1 \in DOMAIN s
    BY <1>1
  <2>2. ASSUME NEW i \in DOMAIN r PROVE r[i] \in {s[k] : k \in DOMAIN s} \ {Head(s)}
    BY <1>1, <1>2, <2>1
  <2>3. ASSUME NEW i \in DOMAIN s, s[i] # Head(s) PROVE s[i] \in {r[k] : k \in DOMAIN r}
    BY <1>1, <1>4, <2>3
  <2> QED
    BY <2>2, <2>3
<1>6. Head(s) \in {s[i] : i \in DOMAIN s}
  BY <1>1
<1> QED
  BY <1>1, <1>3, <1>5, <1>6 DEF r

\* Appending a message whose command is not in the sequence.
LEMMA AppendCommands ==
    ASSUME NEW s \in Seq(Messages), NEW m \in Messages,
           \A i, j \in DOMAIN s : s[i].command = s[j].command => i = j,
           m.command \notin {s[i].command : i \in DOMAIN s}
    PROVE  /\ Append(s, m) \in Seq(Messages)
           /\ \A i, j \in DOMAIN Append(s, m) :
                  Append(s, m)[i].command = Append(s, m)[j].command => i = j
           /\ {Append(s, m)[i].command : i \in DOMAIN Append(s, m)}
                  = {s[i].command : i \in DOMAIN s} \union {m.command}
<1> DEFINE r == Append(s, m)
<1>1. /\ r \in Seq(Messages) /\ DOMAIN s = 1..Len(s)
      /\ DOMAIN r = 1..(Len(s) + 1) /\ Len(s) \in Nat
      /\ \A i \in 1..Len(s) : r[i] = s[i]
      /\ r[Len(s) + 1] = m
  OBVIOUS
<1> HIDE DEF r
<1>2. \A i \in DOMAIN r : i \in DOMAIN s \/ i = Len(s) + 1
  BY <1>1
<1>3. \A i, j \in DOMAIN r : r[i].command = r[j].command => i = j
  BY <1>1, <1>2
<1>4. {r[i].command : i \in DOMAIN r} = {s[i].command : i \in DOMAIN s} \union {m.command}
  <2>1. ASSUME NEW i \in DOMAIN r
        PROVE  r[i].command \in {s[k].command : k \in DOMAIN s} \union {m.command}
    BY <1>1, <1>2
  <2>2. ASSUME NEW i \in DOMAIN s PROVE s[i].command \in {r[k].command : k \in DOMAIN r}
    BY <1>1
  <2>3. m.command \in {r[k].command : k \in DOMAIN r}
    BY <1>1
  <2> QED
    BY <2>1, <2>2, <2>3
<1> QED
  BY <1>1, <1>3, <1>4 DEF r

\* Taking the first message takes its command.
LEMMA TailCommands ==
    ASSUME NEW s \in Seq(Messages), s # <<>>,
           \A i, j \in DOMAIN s : s[i].command = s[j].command => i = j
    PROVE  /\ Head(s) \in Messages /\ Tail(s) \in Seq(Messages)
           /\ \A i, j \in DOMAIN Tail(s) :
                  Tail(s)[i].command = Tail(s)[j].command => i = j
           /\ {Tail(s)[i].command : i \in DOMAIN Tail(s)}
                  = {s[i].command : i \in DOMAIN s} \ {Head(s).command}
           /\ Head(s).command \in {s[i].command : i \in DOMAIN s}
<1> DEFINE r == Tail(s)
<1>1. /\ r \in Seq(Messages) /\ Len(s) \in Nat \ {0}
      /\ DOMAIN s = 1..Len(s) /\ DOMAIN r = 1..(Len(s) - 1)
      /\ \A i \in 1..(Len(s) - 1) : r[i] = s[i + 1]
      /\ Head(s) = s[1] /\ Head(s) \in Messages
  OBVIOUS
<1> HIDE DEF r
<1>2. \A i \in DOMAIN r : i + 1 \in DOMAIN s /\ i + 1 # 1 /\ r[i] = s[i + 1] /\ i \in Nat
  BY <1>1
<1>3. \A i, j \in DOMAIN r : r[i].command = r[j].command => i = j
  BY <1>2
<1>4. \A k \in DOMAIN s : k # 1 => k - 1 \in DOMAIN r /\ r[k - 1] = s[k]
  BY <1>1
<1>5. {r[i].command : i \in DOMAIN r} = {s[i].command : i \in DOMAIN s} \ {Head(s).command}
  <2>1. 1 \in DOMAIN s
    BY <1>1
  <2>2. ASSUME NEW i \in DOMAIN r
        PROVE  r[i].command \in {s[k].command : k \in DOMAIN s} \ {Head(s).command}
    BY <1>1, <1>2, <2>1
  <2>3. ASSUME NEW i \in DOMAIN s, s[i].command # Head(s).command
        PROVE  s[i].command \in {r[k].command : k \in DOMAIN r}
    BY <1>1, <1>4, <2>3
  <2> QED
    BY <2>2, <2>3
<1>6. Head(s).command \in {s[i].command : i \in DOMAIN s}
  BY <1>1
<1> QED
  BY <1>1, <1>3, <1>5, <1>6 DEF r

----------------------------------------------------------------------------
(* What a step on a queue or on the inbox does to the sets above.          *)

QueueNoRepeats ==
    \A q \in Qids : \A i, j \in DOMAIN queue[q] :
        queue[q][i].command = queue[q][j].command => i = j

LEMMA Enqueued ==
    ASSUME IInv, NEW q \in Qids, NEW m \in Messages, m.command \notin QueueSet(q),
           Enqueue(q, m), UNCHANGED qid
    PROVE  /\ queue' \in [Qids' -> Seq(Messages)]
           /\ QueueNoRepeats'
           /\ QueueSet(q)' = QueueSet(q) \union {m.command}
           /\ \A p \in Qids \ {q} : QueueSet(p)' = QueueSet(p)
<1>1. queue \in [Qids -> Seq(Messages)] /\ Qids' = Qids
  BY DEF IInv, TypeOK, Qids
<1>2. /\ queue'[q] = Append(queue[q], m) /\ DOMAIN queue' = Qids
      /\ \A p \in Qids \ {q} : queue'[p] = queue[p]
  BY <1>1 DEF Enqueue
<1>3. QueueNoRepeats
  BY DEF IInv, NoRepeats, QueueNoRepeats
<1>4. /\ queue'[q] \in Seq(Messages)
      /\ \A i, j \in DOMAIN queue'[q] : queue'[q][i].command = queue'[q][j].command => i = j
      /\ QueueSet(q)' = QueueSet(q) \union {m.command}
  <2> DEFINE s == queue[q]
  <2>1. /\ s \in Seq(Messages)
        /\ \A i, j \in DOMAIN s : s[i].command = s[j].command => i = j
        /\ m.command \notin {s[i].command : i \in DOMAIN s}
    BY <1>1, <1>3 DEF QueueNoRepeats, QueueSet
  <2> HIDE DEF s
  <2>2. /\ Append(s, m) \in Seq(Messages)
        /\ \A i, j \in DOMAIN Append(s, m) :
               Append(s, m)[i].command = Append(s, m)[j].command => i = j
        /\ {Append(s, m)[i].command : i \in DOMAIN Append(s, m)}
               = {s[i].command : i \in DOMAIN s} \union {m.command}
    BY <2>1, AppendCommands
  <2>3. queue'[q] = Append(s, m)
    BY <1>2 DEF s
  <2>4. QueueSet(q) = {s[i].command : i \in DOMAIN s}
    BY DEF s, QueueSet
  <2>5. QueueSet(q)' = {queue'[q][i].command : i \in DOMAIN queue'[q]}
    BY DEF QueueSet
  <2> QED
    BY <2>2, <2>3, <2>4, <2>5
<1>5. queue' \in [Qids' -> Seq(Messages)]
  BY <1>1, <1>2, <1>4 DEF Enqueue
<1>6. ASSUME NEW p \in Qids \ {q} PROVE QueueSet(p)' = QueueSet(p)
  BY <1>2 DEF QueueSet
<1>7. QueueNoRepeats'
  <2> SUFFICES ASSUME NEW p \in Qids
               PROVE  \A i, j \in DOMAIN queue'[p] :
                          queue'[p][i].command = queue'[p][j].command => i = j
    BY <1>1 DEF QueueNoRepeats
  <2>1. CASE p = q
    BY <1>4, <2>1
  <2>2. CASE p # q
    BY <1>2, <1>3, <2>2 DEF QueueNoRepeats
  <2> QED
    BY <2>1, <2>2
<1> QED
  BY <1>4, <1>5, <1>6, <1>7

LEMMA Dequeued ==
    ASSUME IInv, NEW q \in Qids, queue[q] # <<>>,
           queue' = [queue EXCEPT ![q] = Tail(@)], UNCHANGED qid
    PROVE  /\ queue' \in [Qids' -> Seq(Messages)]
           /\ QueueNoRepeats'
           /\ Head(queue[q]) \in Messages
           /\ Head(queue[q]).command \in QueueSet(q)
           /\ QueueSet(q)' = QueueSet(q) \ {Head(queue[q]).command}
           /\ \A p \in Qids \ {q} : QueueSet(p)' = QueueSet(p)
<1>1. queue \in [Qids -> Seq(Messages)] /\ Qids' = Qids
  BY DEF IInv, TypeOK, Qids
<1>2. /\ queue'[q] = Tail(queue[q]) /\ DOMAIN queue' = Qids
      /\ \A p \in Qids \ {q} : queue'[p] = queue[p]
  BY <1>1
<1>3. QueueNoRepeats
  BY DEF IInv, NoRepeats, QueueNoRepeats
<1>4. /\ queue'[q] \in Seq(Messages)
      /\ \A i, j \in DOMAIN queue'[q] : queue'[q][i].command = queue'[q][j].command => i = j
      /\ QueueSet(q)' = QueueSet(q) \ {Head(queue[q]).command}
      /\ Head(queue[q]) \in Messages
      /\ Head(queue[q]).command \in QueueSet(q)
  <2> DEFINE s == queue[q]
  <2>1. /\ s \in Seq(Messages) /\ s # <<>>
        /\ \A i, j \in DOMAIN s : s[i].command = s[j].command => i = j
    BY <1>1, <1>3 DEF QueueNoRepeats
  <2> HIDE DEF s
  <2>2. /\ Head(s) \in Messages /\ Tail(s) \in Seq(Messages)
        /\ \A i, j \in DOMAIN Tail(s) :
               Tail(s)[i].command = Tail(s)[j].command => i = j
        /\ {Tail(s)[i].command : i \in DOMAIN Tail(s)}
               = {s[i].command : i \in DOMAIN s} \ {Head(s).command}
        /\ Head(s).command \in {s[i].command : i \in DOMAIN s}
    BY <2>1, TailCommands
  <2> DEFINE h == Head(s)
             r == Tail(s)
  <2>3. queue'[q] = r /\ Head(queue[q]) = h
    BY <1>2 DEF s
  <2>4. QueueSet(q) = {s[i].command : i \in DOMAIN s}
    BY DEF s, QueueSet
  <2>5. QueueSet(q)' = {queue'[q][i].command : i \in DOMAIN queue'[q]}
    BY DEF QueueSet
  <2>6. /\ h \in Messages /\ r \in Seq(Messages)
        /\ \A i, j \in DOMAIN r : r[i].command = r[j].command => i = j
        /\ {r[i].command : i \in DOMAIN r} = QueueSet(q) \ {h.command}
        /\ h.command \in QueueSet(q)
    BY <2>2, <2>4
  <2> HIDE DEF h, r
  <2>7. /\ queue'[q] \in Seq(Messages)
        /\ \A i, j \in DOMAIN queue'[q] : queue'[q][i].command = queue'[q][j].command => i = j
    <3>1. \A x : x = r => /\ x \in Seq(Messages)
                          /\ \A i, j \in DOMAIN x : x[i].command = x[j].command => i = j
      BY <2>6
    <3> QED
      BY <2>3, <3>1
  <2>8. QueueSet(q)' = QueueSet(q) \ {h.command}
    BY <2>3, <2>5, <2>6
  <2> QED
    BY <2>3, <2>6, <2>7, <2>8
<1>5. queue' \in [Qids' -> Seq(Messages)]
  BY <1>1, <1>2, <1>4
<1>6. ASSUME NEW p \in Qids \ {q} PROVE QueueSet(p)' = QueueSet(p)
  BY <1>2 DEF QueueSet
<1>7. QueueNoRepeats'
  <2> SUFFICES ASSUME NEW p \in Qids
               PROVE  \A i, j \in DOMAIN queue'[p] :
                          queue'[p][i].command = queue'[p][j].command => i = j
    BY <1>1 DEF QueueNoRepeats
  <2>1. CASE p = q
    BY <1>4, <2>1
  <2>2. CASE p # q
    BY <1>2, <1>3, <2>2 DEF QueueNoRepeats
  <2> QED
    BY <2>1, <2>2
<1> QED
  BY <1>4, <1>5, <1>6, <1>7

LEMMA InboxRead ==
    ASSUME IInv, inbox # <<>>, inbox' = Tail(inbox)
    PROVE  /\ Head(inbox) \in Commands /\ Head(inbox) \in InboxSet
           /\ inbox' \in Seq(Commands)
           /\ \A i, j \in DOMAIN inbox' : inbox'[i] = inbox'[j] => i = j
           /\ InboxSet' = InboxSet \ {Head(inbox)}
<1>1. inbox \in Seq(Commands) /\ \A i, j \in DOMAIN inbox : inbox[i] = inbox[j] => i = j
  BY DEF IInv, TypeOK, NoRepeats
<1> QED
  BY <1>1, TailElements DEF InboxSet

\* What the model sends is a message.
LEMMA FrameIsMessage ==
    ASSUME NEW c \in Commands
    PROVE  Frame(c) \in Messages /\ Frame(c).command = c
<1>1. TextOf[c] \in Texts /\ Length(TextOf[c]) \in Nat
  BY ConstantsAssumption DEF Texts, Length
<1> QED
  BY <1>1 DEF Frame, Messages

LEMMA MainIsQueue == ASSUME TypeOK PROVE qid.main \in Qids
  BY DEF Qids

----------------------------------------------------------------------------
(* The initial states, and each action.                                    *)

LEMMA InitIInv == Init => IInv
<1> SUFFICES ASSUME Init PROVE IInv
  OBVIOUS
<1>1. TypeOK
  <2>1. queue \in [Qids -> Seq(Messages)]
    <3>1. <<>> \in Seq(Messages)
      OBVIOUS
    <3> QED
      BY <3>1 DEF Init
  <2>2. inbox \in Seq(Commands)
    BY DEF Init
  <2>3. restarts \in 0..MaxRestarts /\ done \in [Commands -> Nat]
    BY ConstantsAssumption DEF Init
  <2> QED
    BY <2>1, <2>2, <2>3 DEF Init, TypeOK
<1>2. /\ InboxSet = {} /\ DoneSet = {}
      /\ \A q \in Qids : QueueSet(q) = {}
      /\ \A t \in Tasks : HeldSet(t) = {}
  BY DEF Init, InboxSet, DoneSet, QueueSet, HeldSet
<1> QED
  BY <1>1, <1>2 DEF Init, IInv, AtMostOnce, NoRepeats, OnePlace, OnlySent, QueueFound, Tasks

LEMMA ServerSendsStep ==
    ASSUME IInv, NEW c \in Commands, ServerSends(c)
    PROVE  IInv'
<1>1. c \notin InboxSet
  BY DEF IInv, OnlySent, ServerSends
<1>2. /\ inbox' \in Seq(Commands)
      /\ \A i, j \in DOMAIN inbox' : inbox'[i] = inbox'[j] => i = j
      /\ InboxSet' = InboxSet \union {c}
  <2>1. /\ inbox \in Seq(Commands)
        /\ \A i, j \in DOMAIN inbox : inbox[i] = inbox[j] => i = j
        /\ c \notin {inbox[i] : i \in DOMAIN inbox}
    BY <1>1 DEF IInv, TypeOK, NoRepeats, InboxSet
  <2>2. inbox' = Append(inbox, c)
    BY DEF ServerSends
  <2>3. InboxSet' = {inbox'[i] : i \in DOMAIN inbox'} /\ InboxSet = {inbox[i] : i \in DOMAIN inbox}
    BY DEF InboxSet
  <2>4. /\ Append(inbox, c) \in Seq(Commands)
        /\ \A i, j \in DOMAIN Append(inbox, c) :
               Append(inbox, c)[i] = Append(inbox, c)[j] => i = j
        /\ {Append(inbox, c)[i] : i \in DOMAIN Append(inbox, c)}
               = {inbox[i] : i \in DOMAIN inbox} \union {c}
    BY <2>1, AppendElements
  <2> QED
    BY <2>2, <2>3, <2>4
<1>3. /\ Qids' = Qids /\ DoneSet' = DoneSet /\ sent' = sent \union {c} /\ c \notin sent
      /\ \A q \in Qids : QueueSet(q)' = QueueSet(q)
      /\ \A t \in Tasks : HeldSet(t)' = HeldSet(t)
  BY DEF ServerSends, Qids, DoneSet, QueueSet, HeldSet
<1>4. TypeOK'
  BY <1>2, <1>3 DEF IInv, TypeOK, ServerSends, Tasks
<1>5. AtMostOnce' /\ NoRepeats' /\ QueueFound'
  BY <1>2, <1>3 DEF IInv, AtMostOnce, NoRepeats, QueueFound, ServerSends, TaskQid
<1>6. OnePlace' /\ OnlySent'
  BY <1>2, <1>3 DEF IInv, OnePlace, OnlySent, Tasks
<1> QED
  BY <1>4, <1>5, <1>6 DEF IInv

LEMMA AuxSendsStep ==
    ASSUME IInv, NEW c \in Commands, AuxSends(c)
    PROVE  IInv'
<1>0. PICK q \in Qids : q = qid.main
  BY DEF Qids
<1>1. Frame(c) \in Messages /\ Frame(c).command = c
  BY FrameIsMessage
<1>2. c \notin sent /\ c \notin QueueSet(q)
  BY <1>1 DEF IInv, OnlySent, AuxSends
<1>3. /\ queue' \in [Qids' -> Seq(Messages)] /\ QueueNoRepeats'
      /\ QueueSet(q)' = QueueSet(q) \union {c}
      /\ \A p \in Qids \ {q} : QueueSet(p)' = QueueSet(p)
  BY <1>1, <1>2, Enqueued, <1>0 DEF AuxSends
<1>4. /\ Qids' = Qids /\ DoneSet' = DoneSet /\ InboxSet' = InboxSet /\ sent' = sent \union {c}
      /\ \A t \in Tasks : HeldSet(t)' = HeldSet(t)
  BY DEF AuxSends, Qids, DoneSet, InboxSet, HeldSet
<1>5. TypeOK'
  BY <1>3, <1>4 DEF IInv, TypeOK, AuxSends, Tasks
<1>6. AtMostOnce' /\ NoRepeats' /\ QueueFound'
  BY <1>3, <1>4 DEF IInv, AtMostOnce, NoRepeats, QueueNoRepeats, QueueFound, AuxSends, TaskQid
<1>7. OnePlace' /\ OnlySent'
  <2>1. /\ \A p \in Qids : c \notin QueueSet(p)
        /\ c \notin InboxSet' /\ c \notin DoneSet /\ c \in sent'
        /\ \A t \in Tasks : c \notin HeldSet(t)
        /\ InboxSet' \subseteq InboxSet
    BY <1>1, <1>2, <1>4 DEF IInv, OnePlace, OnlySent
  <2>2. ASSUME NEW p \in Qids
        PROVE  /\ QueueSet(p)' \subseteq QueueSet(p) \union {c}
               /\ p # q => QueueSet(p)' = QueueSet(p)
    BY <1>3
  <2>3. ASSUME NEW p \in Qids, NEW u \in Qids \ {p}
        PROVE  QueueSet(p)' \intersect QueueSet(u)' = {}
    BY <2>1, <2>2 DEF IInv, OnePlace
  <2>4. ASSUME NEW p \in Qids
        PROVE  /\ QueueSet(p)' \intersect InboxSet' = {}
               /\ QueueSet(p)' \intersect DoneSet' = {}
               /\ \A t \in Tasks : QueueSet(p)' \intersect HeldSet(t)' = {}
               /\ QueueSet(p)' \subseteq sent'
    BY <1>4, <2>1, <2>2 DEF IInv, OnePlace, OnlySent
  <2> QED
    BY <1>4, <2>1, <2>3, <2>4 DEF IInv, OnePlace, OnlySent, Tasks
<1> QED
  BY <1>5, <1>6, <1>7 DEF IInv

\* The steps after which every command is where it was, or nowhere.
LEMMA QuietStep ==
    ASSUME IInv,
           ProcessEnds \/ MainReturns \/ (\E t \in Tasks : NoQueue(t)) \/ UNCHANGED vars
    PROVE  IInv'
<1>1. UNCHANGED <<qid, queue, inbox, task, held, relay, sent, done, restarts>> /\ up' \in BOOLEAN
      /\ closing' \in BOOLEAN
  BY DEF IInv, TypeOK, ProcessEnds, MainReturns, NoQueue, vars
<1>2. /\ Qids' = Qids /\ DoneSet' = DoneSet /\ InboxSet' = InboxSet
      /\ \A q \in Qids : QueueSet(q)' = QueueSet(q)
      /\ \A t \in Tasks : HeldSet(t)' = HeldSet(t)
  BY <1>1 DEF Qids, DoneSet, InboxSet, QueueSet, HeldSet
<1>3. TypeOK'
  BY <1>1, <1>2 DEF IInv, TypeOK
<1>4. AtMostOnce' /\ NoRepeats' /\ QueueFound'
  BY <1>1, <1>2 DEF IInv, AtMostOnce, NoRepeats, QueueFound, TaskQid
<1>5. OnePlace' /\ OnlySent'
  BY <1>1, <1>2 DEF IInv, OnePlace, OnlySent, Tasks
<1> QED
  BY <1>3, <1>4, <1>5 DEF IInv

LEMMA RestartStep ==
    ASSUME IInv, Restart
    PROVE  IInv'
<1>1. /\ Qids' = Qids /\ DoneSet' = DoneSet /\ InboxSet' = {}
      /\ \A q \in Qids : QueueSet(q)' = QueueSet(q)
      /\ \A t \in Tasks : HeldSet(t)' = {}
  BY DEF Restart, Qids, DoneSet, InboxSet, QueueSet, HeldSet
<1>2. inbox' \in Seq(Commands) /\ DOMAIN inbox' = {}
  BY DEF Restart
<1>3. restarts' \in 0..MaxRestarts
  BY ConstantsAssumption DEF IInv, TypeOK, Restart
<1>4. TypeOK'
  BY <1>1, <1>2, <1>3 DEF IInv, TypeOK, Restart
<1>5. AtMostOnce' /\ NoRepeats' /\ QueueFound'
  BY <1>1, <1>2 DEF IInv, AtMostOnce, NoRepeats, QueueFound, Restart
<1>6. OnePlace' /\ OnlySent'
  BY <1>1 DEF IInv, OnePlace, OnlySent, Restart, Tasks
<1> QED
  BY <1>4, <1>5, <1>6 DEF IInv

LEMMA ReadStep ==
    ASSUME IInv, AnswersPoll \/ Disconnects
    PROVE  IInv'
<1>1. /\ inbox # <<>> /\ inbox' = Tail(inbox) /\ closing' \in BOOLEAN
      /\ UNCHANGED <<qid, queue, up, task, held, relay, sent, done, restarts>>
  BY DEF IInv, TypeOK, AnswersPoll, Disconnects, Listens
<1>2. /\ inbox' \in Seq(Commands) /\ InboxSet' = InboxSet \ {Head(inbox)}
      /\ \A i, j \in DOMAIN inbox' : inbox'[i] = inbox'[j] => i = j
  BY <1>1, InboxRead
<1>3. /\ Qids' = Qids /\ DoneSet' = DoneSet
      /\ \A q \in Qids : QueueSet(q)' = QueueSet(q)
      /\ \A t \in Tasks : HeldSet(t)' = HeldSet(t)
  BY <1>1 DEF Qids, DoneSet, QueueSet, HeldSet
<1>4. TypeOK'
  BY <1>1, <1>2, <1>3 DEF IInv, TypeOK
<1>5. AtMostOnce' /\ NoRepeats' /\ QueueFound'
  BY <1>1, <1>2, <1>3 DEF IInv, AtMostOnce, NoRepeats, QueueFound, TaskQid
<1>6. OnePlace' /\ OnlySent'
  BY <1>1, <1>2, <1>3 DEF IInv, OnePlace, OnlySent, Tasks
<1> QED
  BY <1>4, <1>5, <1>6 DEF IInv

LEMMA PassesOnStep ==
    ASSUME IInv, PassesOn
    PROVE  IInv'
<1> DEFINE c == Head(inbox)
<1>1. /\ c \in Commands /\ c \in InboxSet /\ InboxSet' = InboxSet \ {c}
      /\ inbox' \in Seq(Commands)
      /\ \A i, j \in DOMAIN inbox' : inbox'[i] = inbox'[j] => i = j
  BY InboxRead DEF PassesOn, Listens
<1> HIDE DEF c
<1>0. PICK q \in Qids : q = qid.main
  BY DEF Qids
<1>2. Frame(c) \in Messages /\ Frame(c).command = c
  BY <1>1, FrameIsMessage
<1>3. c \notin QueueSet(q)
  BY <1>1, <1>2 DEF IInv, OnePlace
<1>4. /\ queue' \in [Qids' -> Seq(Messages)] /\ QueueNoRepeats'
      /\ QueueSet(q)' = QueueSet(q) \union {c}
      /\ \A p \in Qids \ {q} : QueueSet(p)' = QueueSet(p)
  BY <1>2, <1>3, Enqueued, <1>0 DEF PassesOn, c
<1>5. /\ Qids' = Qids /\ DoneSet' = DoneSet /\ sent' = sent
      /\ \A t \in Tasks : HeldSet(t)' = HeldSet(t)
  BY DEF PassesOn, Qids, DoneSet, HeldSet
<1>6. TypeOK'
  BY <1>1, <1>4, <1>5 DEF IInv, TypeOK, PassesOn, Tasks
<1>7. AtMostOnce' /\ NoRepeats' /\ QueueFound'
  BY <1>1, <1>4, <1>5 DEF IInv, AtMostOnce, NoRepeats, QueueNoRepeats, QueueFound, PassesOn, TaskQid
<1>8. OnePlace' /\ OnlySent'
  <2>1. /\ \A p \in Qids : c \notin QueueSet(p)
        /\ c \notin InboxSet' /\ c \notin DoneSet /\ c \in sent'
        /\ \A t \in Tasks : c \notin HeldSet(t)
        /\ InboxSet' \subseteq InboxSet
    BY <1>1, <1>2, <1>5 DEF IInv, OnePlace, OnlySent
  <2>2. ASSUME NEW p \in Qids
        PROVE  /\ QueueSet(p)' \subseteq QueueSet(p) \union {c}
               /\ p # q => QueueSet(p)' = QueueSet(p)
    BY <1>4
  <2>3. ASSUME NEW p \in Qids, NEW u \in Qids \ {p}
        PROVE  QueueSet(p)' \intersect QueueSet(u)' = {}
    BY <2>1, <2>2 DEF IInv, OnePlace
  <2>4. ASSUME NEW p \in Qids
        PROVE  /\ QueueSet(p)' \intersect InboxSet' = {}
               /\ QueueSet(p)' \intersect DoneSet' = {}
               /\ \A t \in Tasks : QueueSet(p)' \intersect HeldSet(t)' = {}
               /\ QueueSet(p)' \subseteq sent'
    BY <1>5, <2>1, <2>2 DEF IInv, OnePlace, OnlySent
  <2> QED
    BY <1>5, <2>1, <2>3, <2>4 DEF IInv, OnePlace, OnlySent, Tasks
<1> QED
  BY <1>6, <1>7, <1>8 DEF IInv

LEMMA ReceiveStep ==
    ASSUME IInv, NEW t \in Tasks, Receive(t)
    PROVE  IInv'
<1> DEFINE q == TaskQid(t)
           m == Head(queue[q])
<1>1. /\ q \in Qids /\ queue[q] # <<>> /\ queue' = [queue EXCEPT ![q] = Tail(@)]
      /\ held' = [held EXCEPT ![t] = m] /\ task' = [task EXCEPT ![t] = "handling"]
      /\ task[t] = "receiving"
      /\ UNCHANGED <<qid, up, closing, inbox, relay, sent, done, restarts>>
  BY DEF Receive
<1> HIDE DEF q
<1>2. /\ queue' \in [Qids' -> Seq(Messages)] /\ QueueNoRepeats'
      /\ m \in Messages /\ m.command \in QueueSet(q)
      /\ QueueSet(q)' = QueueSet(q) \ {m.command}
      /\ \A p \in Qids \ {q} : QueueSet(p)' = QueueSet(p)
  BY <1>1, Dequeued
<1> HIDE DEF m
<1>3. held \in [Tasks -> Messages \union {NoMessage}]
      /\ task \in [Tasks -> {"receiving", "handling", "ended"}]
  BY DEF IInv, TypeOK
<1>4. /\ Qids' = Qids /\ DoneSet' = DoneSet /\ InboxSet' = InboxSet /\ sent' = sent
      /\ HeldSet(t)' = {m.command}
      /\ \A u \in Tasks \ {t} : HeldSet(u)' = HeldSet(u)
  BY <1>1, <1>3 DEF Qids, DoneSet, InboxSet, HeldSet
<1>5. TypeOK'
  BY <1>1, <1>2, <1>3, <1>4 DEF IInv, TypeOK
<1>6. AtMostOnce' /\ NoRepeats' /\ QueueFound'
  BY <1>1, <1>2, <1>3, <1>4 DEF IInv, AtMostOnce, NoRepeats, QueueNoRepeats, QueueFound, TaskQid, q
<1>7. OnePlace' /\ OnlySent'
  <2>1. /\ \A p \in Qids : QueueSet(p)' \subseteq QueueSet(p) /\ m.command \notin QueueSet(p)'
        /\ m.command \notin InboxSet /\ m.command \notin DoneSet /\ m.command \in sent
        /\ \A u \in Tasks : m.command \notin HeldSet(u)
    BY <1>1, <1>2 DEF IInv, OnePlace, OnlySent
  <2> QED
    BY <1>4, <2>1 DEF IInv, OnePlace, OnlySent, Tasks
<1> QED
  BY <1>5, <1>6, <1>7 DEF IInv

\* After a message, a task waits for the next one or has ended.
LEMMA GoesOnType ==
    ASSUME TypeOK, NEW t \in Tasks, GoesOn(t)
    PROVE  /\ task' \in [Tasks -> {"receiving", "handling", "ended"}]
           /\ task'[t] # "handling"
           /\ \A u \in Tasks \ {t} : task'[u] = task[u]
  BY DEF TypeOK, GoesOn

LEMMA AddMsgQueueStep ==
    ASSUME IInv, AddMsgQueue
    PROVE  IInv'
<1> DEFINE c == held["host"].command
           q == AddQueueQid
<1>1. q \in Qids /\ c \in Commands
  BY DEF IInv, TypeOK, QueueFound, AddMsgQueue, Tasks, Messages, TaskQid, AddQueueQid
<1>2. PICK text \in StaleTexts :
          Enqueue(q, [command |-> c,
                      number  |-> IF held["host"].text = "ON" THEN 1 ELSE 0,
                      text    |-> text])
  BY DEF AddMsgQueue
<1> DEFINE m == [command |-> c,
                 number  |-> IF held["host"].text = "ON" THEN 1 ELSE 0,
                 text    |-> text]
<1>3. m \in Messages /\ m.command = c
  BY <1>1, ConstantsAssumption DEF Messages
<1>4. HeldSet("host") = {c} /\ "host" \in Tasks
  BY DEF AddMsgQueue, HeldSet, Tasks
<1>5. UNCHANGED <<qid, up, closing, inbox, held, relay, sent, done, restarts>> /\ GoesOn("host")
  BY DEF AddMsgQueue
<1> HIDE DEF c, q, m
<1>6. c \notin QueueSet(q)
  BY <1>1, <1>4 DEF IInv, OnePlace
<1>7. /\ queue' \in [Qids' -> Seq(Messages)] /\ QueueNoRepeats'
      /\ QueueSet(q)' = QueueSet(q) \union {c}
      /\ \A p \in Qids \ {q} : QueueSet(p)' = QueueSet(p)
  BY <1>1, <1>2, <1>3, <1>5, <1>6, Enqueued DEF m
<1>8. /\ task' \in [Tasks -> {"receiving", "handling", "ended"}]
      /\ task'["host"] # "handling"
      /\ \A u \in Tasks \ {"host"} : task'[u] = task[u]
  BY <1>4, <1>5, GoesOnType DEF IInv
<1>9. /\ Qids' = Qids /\ DoneSet' = DoneSet /\ InboxSet' = InboxSet
      /\ HeldSet("host")' = {} /\ HeldSet("basic")' = HeldSet("basic")
  BY <1>5, <1>8 DEF Qids, DoneSet, InboxSet, HeldSet, Tasks
<1>10. TypeOK'
  BY <1>4, <1>5, <1>7, <1>8, <1>9 DEF IInv, TypeOK, AddMsgQueue, Tasks
<1>11. AtMostOnce' /\ NoRepeats' /\ QueueFound'
  BY <1>5, <1>7, <1>8, <1>9
     DEF IInv, AtMostOnce, NoRepeats, QueueNoRepeats, QueueFound, TaskQid, Tasks
<1>12. OnePlace' /\ OnlySent'
  <2>1. /\ \A p \in Qids : c \notin QueueSet(p)
        /\ c \notin InboxSet /\ c \notin DoneSet /\ c \in sent
        /\ c \notin HeldSet("basic")
    BY <1>4 DEF IInv, OnePlace, OnlySent
  <2>2. ASSUME NEW p \in Qids
        PROVE  /\ QueueSet(p)' \subseteq QueueSet(p) \union {c}
               /\ p # q => QueueSet(p)' = QueueSet(p)
    BY <1>7
  <2>3. ASSUME NEW p \in Qids, NEW u \in Qids \ {p}
        PROVE  QueueSet(p)' \intersect QueueSet(u)' = {}
    BY <2>1, <2>2 DEF IInv, OnePlace
  <2>4. ASSUME NEW p \in Qids
        PROVE  /\ QueueSet(p)' \intersect InboxSet' = {}
               /\ QueueSet(p)' \intersect DoneSet' = {}
               /\ \A t \in Tasks : QueueSet(p)' \intersect HeldSet(t)' = {}
               /\ QueueSet(p)' \subseteq sent
    BY <1>9, <2>1, <2>2 DEF IInv, OnePlace, OnlySent, Tasks
  <2> QED
    BY <1>5, <1>9, <2>3, <2>4 DEF IInv, OnePlace, OnlySent, Tasks
<1> QED
  BY <1>10, <1>11, <1>12 DEF IInv

\* A message that a task drops is gone.
LEMMA DropStep ==
    ASSUME IInv, NEW t \in Tasks, task[t] = "handling", GoesOn(t),
           UNCHANGED <<qid, queue, up, closing, inbox, held, relay, sent, done, restarts>>
    PROVE  IInv'
<1>1. /\ task' \in [Tasks -> {"receiving", "handling", "ended"}]
      /\ task'[t] # "handling"
      /\ \A u \in Tasks \ {t} : task'[u] = task[u]
  BY GoesOnType DEF IInv
<1>2. /\ Qids' = Qids /\ DoneSet' = DoneSet /\ InboxSet' = InboxSet
      /\ \A q \in Qids : QueueSet(q)' = QueueSet(q)
  BY DEF Qids, DoneSet, InboxSet, QueueSet
<1>3. ASSUME NEW u \in Tasks PROVE HeldSet(u)' \subseteq HeldSet(u)
  BY <1>1 DEF HeldSet
<1>4. TypeOK'
  BY <1>1, <1>2 DEF IInv, TypeOK
<1>5. AtMostOnce' /\ NoRepeats' /\ QueueFound'
  BY <1>1, <1>2 DEF IInv, AtMostOnce, NoRepeats, QueueFound, TaskQid
<1>6. OnePlace' /\ OnlySent'
  BY <1>2, <1>3 DEF IInv, OnePlace, OnlySent, Tasks
<1> QED
  BY <1>4, <1>5, <1>6 DEF IInv

\* A command that is carried out was nowhere else, so not carried out before.
LEMMA ChangeOutputStep ==
    ASSUME IInv, ChangeOutput
    PROVE  IInv'
<1> DEFINE c == held["basic"].command
<1>1. /\ c \in Commands /\ HeldSet("basic") = {c} /\ "basic" \in Tasks
      /\ KindOf[c] \in Outputs
  BY DEF IInv, TypeOK, ChangeOutput, HeldSet, Tasks, Messages
<1>2. /\ done' = [done EXCEPT ![c] = @ + 1] /\ GoesOn("basic")
      /\ relay' = [relay EXCEPT ![KindOf[c]] = Bit(KindOf[c], held["basic"].number)]
      /\ UNCHANGED <<qid, queue, up, closing, inbox, held, sent, restarts>>
  BY DEF ChangeOutput, Drive
<1> HIDE DEF c
<1>3. done \in [Commands -> Nat] /\ done[c] = 0
  BY <1>1 DEF IInv, TypeOK, OnePlace, DoneSet
<1>4. done' \in [Commands -> Nat] /\ done'[c] = 1 /\ \A d \in Commands \ {c} : done'[d] = done[d]
  BY <1>1, <1>2, <1>3
<1>5. DoneSet' = DoneSet \union {c}
  BY <1>1, <1>3, <1>4 DEF DoneSet
<1>6. /\ task' \in [Tasks -> {"receiving", "handling", "ended"}]
      /\ task'["basic"] # "handling"
      /\ \A u \in Tasks \ {"basic"} : task'[u] = task[u]
  BY <1>1, <1>2, GoesOnType DEF IInv
<1>7. /\ Qids' = Qids /\ InboxSet' = InboxSet
      /\ HeldSet("basic")' = {} /\ HeldSet("host")' = HeldSet("host")
      /\ \A q \in Qids : QueueSet(q)' = QueueSet(q)
  BY <1>2, <1>6 DEF Qids, InboxSet, QueueSet, HeldSet, Tasks
<1>8. TypeOK'
  <2>1. relay' \in [Outputs -> BOOLEAN]
    BY <1>2 DEF IInv, TypeOK, Bit
  <2> QED
    BY <1>2, <1>4, <1>6, <1>7, <2>1 DEF IInv, TypeOK, ChangeOutput, Tasks
<1>9. AtMostOnce' /\ NoRepeats' /\ QueueFound'
  BY <1>2, <1>4, <1>6, <1>7 DEF IInv, AtMostOnce, NoRepeats, QueueFound, TaskQid, Tasks
<1>10. OnePlace' /\ OnlySent'
  BY <1>1, <1>2, <1>5, <1>7 DEF IInv, OnePlace, OnlySent, Tasks
<1> QED
  BY <1>8, <1>9, <1>10 DEF IInv

LEMMA NextIInv == IInv /\ [Next]_vars => IInv'
<1> SUFFICES ASSUME IInv, [Next]_vars PROVE IInv'
  OBVIOUS
<1>1. ASSUME NEW c \in Commands, ServerSends(c) PROVE IInv'
  BY <1>1, ServerSendsStep
<1>2. ASSUME NEW c \in Commands, AuxSends(c) PROVE IInv'
  BY <1>2, AuxSendsStep
<1>3. CASE Restart
  BY <1>3, RestartStep
<1>4. CASE ProcessEnds \/ MainReturns \/ (\E t \in Tasks : NoQueue(t)) \/ UNCHANGED vars
  BY <1>4, QuietStep
<1>5. CASE AnswersPoll \/ Disconnects
  BY <1>5, ReadStep
<1>6. CASE PassesOn
  BY <1>6, PassesOnStep
<1>7. ASSUME NEW t \in Tasks, Receive(t) PROVE IInv'
  BY <1>7, ReceiveStep
<1>8. CASE AddMsgQueue
  BY <1>8, AddMsgQueueStep
<1>9. CASE HostDrops
  BY <1>9, DropStep DEF HostDrops, Tasks
<1>10. CASE ChangeOutput
  BY <1>10, ChangeOutputStep
<1>11. CASE ControlsDrop
  BY <1>11, DropStep DEF ControlsDrop, Tasks
<1> QED
  BY <1>1, <1>2, <1>3, <1>4, <1>5, <1>6, <1>7, <1>8, <1>9, <1>10, <1>11
     DEF Next, World, Listen, Host, Basic, Tasks

----------------------------------------------------------------------------

\* The invariant of every reachable state: a command that was sent is in one
\* place at most, on its way, in a queue, with a task, or carried out.
THEOREM Invariance == Spec => []IInv
<1>1. Init => IInv
  BY InitIInv
<1>2. IInv /\ [Next]_vars => IInv'
  BY NextIInv
<1> QED
  BY <1>1, <1>2, PTL DEF Spec

\* Queues hold messages, tasks hold what they received, and so on.
THEOREM TypeCorrect == Spec => []TypeOK
<1>1. IInv => TypeOK
  BY DEF IInv
<1> QED
  BY <1>1, Invariance, PTL

\* No command is carried out twice by basic_controls_task, over any number of
\* restarts with the queues left as they were.
THEOREM CarriedOutAtMostOnce == Spec => []AtMostOnce
<1>1. IInv => AtMostOnce
  BY DEF IInv
<1> QED
  BY <1>1, Invariance, PTL
----------------------------------------------------------------------------
(* A closing command that get_host_cmd_task handed on is in the queue that *)
(* both tasks read, or with basic_controls_task, until that has ended.     *)

ClosingIn(S) == \E c \in S : KindOf[c] = "close"

CloseQueued == TaskQid("basic") \in Qids /\ ClosingIn(QueueSet(TaskQid("basic")))

CloseUnderWay ==
    HandedClose => task["basic"] = "ended" \/ ClosingIn(HeldSet("basic")) \/ CloseQueued

LEMMA EnqueueGrows ==
    ASSUME TypeOK, NEW q \in Qids, NEW m \in Messages, Enqueue(q, m), UNCHANGED qid
    PROVE  /\ Qids' = Qids /\ m.command \in QueueSet(q)'
           /\ \A p \in Qids : QueueSet(p) \subseteq QueueSet(p)'
<1>1. queue \in [Qids -> Seq(Messages)] /\ Qids' = Qids
  BY DEF TypeOK, Qids
<1>2. /\ queue'[q] = Append(queue[q], m)
      /\ \A p \in Qids \ {q} : queue'[p] = queue[p]
  BY <1>1 DEF Enqueue
<1>3. /\ Append(queue[q], m)[Len(queue[q]) + 1] = m
      /\ Len(queue[q]) + 1 \in DOMAIN Append(queue[q], m)
      /\ \A i \in DOMAIN queue[q] : /\ i \in DOMAIN Append(queue[q], m)
                                    /\ Append(queue[q], m)[i] = queue[q][i]
  <2>1. \A s \in Seq(Messages) :
            /\ Append(s, m)[Len(s) + 1] = m /\ Len(s) + 1 \in DOMAIN Append(s, m)
            /\ \A i \in DOMAIN s : i \in DOMAIN Append(s, m) /\ Append(s, m)[i] = s[i]
    OBVIOUS
  <2> QED
    BY <1>1, <2>1
<1>4. m.command \in QueueSet(q)' /\ QueueSet(q) \subseteq QueueSet(q)'
  BY <1>2, <1>3 DEF QueueSet
<1>5. \A p \in Qids \ {q} : QueueSet(p) = QueueSet(p)'
  BY <1>2 DEF QueueSet
<1> QED
  BY <1>1, <1>4, <1>5

\* Steps that leave the tasks alone and take nothing out of a queue.
LEMMA CloseStays ==
    ASSUME CloseUnderWay, UNCHANGED <<task, held>>, Qids' = Qids,
           \A p \in Qids : QueueSet(p) \subseteq QueueSet(p)'
    PROVE  CloseUnderWay'
<1>1. HandedClose' = HandedClose /\ HeldSet("basic")' = HeldSet("basic")
  BY DEF HandedClose, HeldSet
<1>2. CloseQueued => CloseQueued'
  BY DEF CloseQueued, ClosingIn, TaskQid
<1> QED
  BY <1>1, <1>2 DEF CloseUnderWay, ClosingIn

LEMMA CloseQuiet ==
    ASSUME IInv, CloseUnderWay, UNCHANGED <<task, held, queue, qid>>
    PROVE  CloseUnderWay'
<1>1. Qids' = Qids /\ \A p \in Qids : QueueSet(p) \subseteq QueueSet(p)'
  BY DEF Qids, QueueSet
<1> QED
  BY <1>1, CloseStays

LEMMA CloseSent ==
    ASSUME IInv, CloseUnderWay,
           PassesOn \/ \E c \in Commands : AuxSends(c)
    PROVE  CloseUnderWay'
<1>1. PICK c \in Commands : Enqueue(qid.main, Frame(c)) /\ UNCHANGED <<qid, task, held>>
  <2>1. CASE PassesOn
    <3>1. inbox \in Seq(Commands) /\ inbox # <<>>
      BY <2>1 DEF IInv, TypeOK, PassesOn, Listens
    <3>2. Head(inbox) \in Commands
      BY <3>1
    <3> QED
      BY <2>1, <3>2 DEF PassesOn
  <2>2. CASE \E c \in Commands : AuxSends(c)
    BY <2>2 DEF AuxSends
  <2> QED
    BY <2>1, <2>2
<1>2. Frame(c) \in Messages /\ qid.main \in Qids
  BY FrameIsMessage, MainIsQueue DEF IInv
<1>3. TypeOK
  BY DEF IInv
<1> QED
  BY <1>1, <1>2, <1>3, EnqueueGrows, CloseStays

LEMMA CloseTaken ==
    ASSUME IInv, CloseUnderWay, NEW t \in Tasks, Receive(t)
    PROVE  CloseUnderWay'
<1>1. /\ TaskQid(t) \in Qids /\ queue[TaskQid(t)] # <<>> /\ task[t] = "receiving"
      /\ queue' = [queue EXCEPT ![TaskQid(t)] = Tail(@)]
      /\ held' = [held EXCEPT ![t] = Head(queue[TaskQid(t)])]
      /\ task' = [task EXCEPT ![t] = "handling"] /\ UNCHANGED qid
  BY DEF Receive
<1>2. held \in [Tasks -> Messages \union {NoMessage}]
      /\ task \in [Tasks -> {"receiving", "handling", "ended"}]
  BY DEF IInv, TypeOK
<1>3. CASE t = "host"
  <2>1. task'["host"] = "handling"
    BY <1>1, <1>2, <1>3
  <2> QED
    BY <2>1 DEF CloseUnderWay, HandedClose
<1>4. CASE t = "basic"
  <2>1. /\ task'["host"] = task["host"] /\ held'["host"] = held["host"]
        /\ task["basic"] = "receiving" /\ task'["basic"] = "handling"
        /\ held'["basic"] = Head(queue[0])
    BY <1>1, <1>2, <1>4 DEF TaskQid, Tasks
  <2>2. QueueSet(0)' = QueueSet(0) \ {Head(queue[0]).command}
    BY <1>1, Dequeued DEF TaskQid
  <2>3. HeldSet("basic") = {} /\ HeldSet("basic")' = {Head(queue[0]).command}
    BY <2>1 DEF HeldSet
  <2>4. HandedClose' => CloseQueued
    BY <2>1, <2>3 DEF CloseUnderWay, HandedClose, ClosingIn
  <2>5. CloseQueued => ClosingIn(QueueSet(0)')  \/ ClosingIn(HeldSet("basic")')
    BY <2>2, <2>3 DEF CloseQueued, ClosingIn, TaskQid
  <2>6. 0 \in Qids'
    BY <1>1 DEF Qids, TaskQid
  <2> QED
    BY <2>4, <2>5, <2>6 DEF CloseUnderWay, CloseQueued, ClosingIn, TaskQid
<1> QED
  BY <1>3, <1>4 DEF Tasks

\* get_host_cmd_task hands on before it ends.
LEMMA CloseHandedOn ==
    ASSUME IInv, CloseUnderWay, AddMsgQueue
    PROVE  CloseUnderWay'
<1> DEFINE c == held["host"].command
<1>1. /\ "host" \in Tasks /\ task["host"] = "handling" /\ GoesOn("host")
      /\ UNCHANGED <<qid, held>>
  BY DEF AddMsgQueue, Tasks
<1>2. held["host"] \in Messages /\ c \in Commands
  BY <1>1 DEF IInv, TypeOK, Messages
<1>3. 0 \in Qids
  BY <1>1 DEF IInv, QueueFound, TaskQid
<1>4. PICK m \in Messages : Enqueue(0, m) /\ m.command = c
  BY <1>2, ConstantsAssumption DEF AddMsgQueue, AddQueueQid, Messages
<1>5. /\ Qids' = Qids /\ c \in QueueSet(0)' /\ \A p \in Qids : QueueSet(p) \subseteq QueueSet(p)'
  BY <1>1, <1>3, <1>4, EnqueueGrows DEF IInv
<1>6. task'["host"] = IF KindOf[c] = "close" THEN "ended" ELSE "receiving"
  BY <1>1 DEF IInv, TypeOK, GoesOn
<1>7. HandedClose' => KindOf[c] = "close"
  BY <1>6 DEF HandedClose
<1>8. KindOf[c] = "close" => ClosingIn(QueueSet(0)')
  BY <1>5 DEF ClosingIn
<1> QED
  BY <1>3, <1>5, <1>7, <1>8 DEF CloseUnderWay, CloseQueued, ClosingIn, TaskQid

\* What it drops it does not end on, unless the text is neither ON nor OFF.
LEMMA CloseDropped ==
    ASSUME IInv, CloseUnderWay, HostDrops
    PROVE  CloseUnderWay'
<1>1. "host" \in Tasks /\ task["host"] = "handling" /\ GoesOn("host") /\ held' = held /\ ~HandsOn
  BY DEF HostDrops, Tasks
<1>2. task'["host"] = IF KindOf[held["host"].command] = "close" THEN "ended" ELSE "receiving"
  BY <1>1 DEF IInv, TypeOK, GoesOn
<1>3. ~HandedClose'
  BY <1>1, <1>2 DEF HandedClose, HandsOn
<1> QED
  BY <1>3 DEF CloseUnderWay

\* basic_controls_task ends on the closing command and on nothing else.
LEMMA CloseCarriedOut ==
    ASSUME IInv, CloseUnderWay, ChangeOutput \/ ControlsDrop
    PROVE  CloseUnderWay'
<1> DEFINE c == held["basic"].command
<1>1. /\ {"host", "basic"} \subseteq Tasks /\ task["basic"] = "handling" /\ GoesOn("basic")
      /\ UNCHANGED <<qid, queue, held>>
  BY DEF ChangeOutput, ControlsDrop, Tasks
<1>2. /\ task'["host"] = task["host"]
      /\ task'["basic"] = IF KindOf[c] = "close" THEN "ended" ELSE "receiving"
  BY <1>1 DEF IInv, TypeOK, GoesOn
<1>3. HeldSet("basic") = {c}
  BY <1>1 DEF HeldSet
<1>4. CASE KindOf[c] = "close"
  BY <1>2, <1>4 DEF CloseUnderWay
<1>5. CASE KindOf[c] # "close"
  <2>1. HandedClose' => HandedClose
    BY <1>1, <1>2 DEF HandedClose
  <2>2. HandedClose => CloseQueued
    BY <1>1, <1>3, <1>5 DEF CloseUnderWay, ClosingIn
  <2>3. CloseQueued => CloseQueued'
    BY <1>1 DEF CloseQueued, ClosingIn, TaskQid, Qids, QueueSet
  <2> QED
    BY <2>1, <2>2, <2>3 DEF CloseUnderWay
<1> QED
  BY <1>4, <1>5

\* The state behind CloseReachesBoth: as long as basic_controls_task has not
\* ended, the closing command that ended get_host_cmd_task is where only
\* basic_controls_task can come by it.
THEOREM CloseIsUnderWay == Spec => []CloseUnderWay
<1>1. Init => CloseUnderWay
  BY DEF Init, CloseUnderWay, HandedClose, Tasks
<1>2. IInv /\ CloseUnderWay /\ [Next]_vars => CloseUnderWay'
  <2> SUFFICES ASSUME IInv, CloseUnderWay, [Next]_vars PROVE CloseUnderWay'
    OBVIOUS
  <2>1. CASE Restart
    BY <2>1 DEF Restart, CloseUnderWay, HandedClose, Tasks
  <2>2. CASE \/ \E c \in Commands : ServerSends(c)
             \/ ProcessEnds \/ AnswersPoll \/ Disconnects \/ MainReturns
             \/ (\E t \in Tasks : NoQueue(t)) \/ UNCHANGED vars
    <3>1. UNCHANGED <<task, held, queue, qid>>
      BY <2>2 DEF ServerSends, ProcessEnds, AnswersPoll, Disconnects, MainReturns, NoQueue, vars
    <3> QED
      BY <3>1, CloseQuiet
  <2>3. CASE PassesOn \/ \E c \in Commands : AuxSends(c)
    BY <2>3, CloseSent
  <2>4. ASSUME NEW t \in Tasks, Receive(t) PROVE CloseUnderWay'
    BY <2>4, CloseTaken
  <2>5. CASE AddMsgQueue
    BY <2>5, CloseHandedOn
  <2>6. CASE HostDrops
    BY <2>6, CloseDropped
  <2>7. CASE ChangeOutput \/ ControlsDrop
    BY <2>7, CloseCarriedOut
  <2> QED
    BY <2>1, <2>2, <2>3, <2>4, <2>5, <2>6, <2>7 DEF Next, World, Listen, Host, Basic, Tasks
<1> QED
  BY <1>1, <1>2, Invariance, PTL DEF Spec
============================================================================
