--------------------------- MODULE OutputListProofs ---------------------------
(***************************************************************************)
(* Proofs about OutputList for any threads, addresses and indices: until   *)
(* its head is removed the list stays sorted and whole, and freed memory   *)
(* is read in the two ways only that FreedReadOnlyAfter names.  A list     *)
(* that is whole is a table from indices to records (Refinement).          *)
(***************************************************************************)
EXTENDS OutputList, TLAPS

\* Who is in a function is in the lock, and a writer is there alone.
LockInv ==
    /\ \A t \in Threads : fn[t] \in ReadFunctions <=> t \in readers
    /\ \A t \in Threads : fn[t] \in WriteFunctions <=> t \in writers
    /\ \A t \in writers : readers = {} /\ writers = {t}

\* What a function has from its call on.
CallInv ==
    /\ \A t \in Threads : fn[t] \in Searching => target[t] \in Indices
    /\ \A t \in Threads : fn[t] = "insert" => HasMemory
    /\ \A t \in Threads : fn[t] = "removeall" => cur[t] = first

\* Once first points to a freed node nobody gets any further than that.
HeadStaysLost == HeadRemoved => \A t \in Threads : fn[t] # "idle" => cur[t] = first

\* The list is sorted because a place in it stays a place, a place stays because
\* a writer is alone, and what is handed out is allocated because the list is whole.
IInv ==
    /\ TypeOK
    /\ LockInv /\ CallInv /\ HeadStaysLost
    /\ SortedUntilLost /\ PlacesStay /\ HeldIsAllocated

LEMMA FunctionsAreStrings ==
    /\ ReadFunctions \intersect WriteFunctions = {}
    /\ "idle" \notin Functions
    /\ Searching \subseteq Functions
    /\ Functions = ReadFunctions \union WriteFunctions
  BY DEF Functions, ReadFunctions, WriteFunctions, Searching

LEMMA InitIInv == Init => IInv
<1> SUFFICES ASSUME Init PROVE IInv
  OBVIOUS
<1>1. DOMAIN node = {} /\ DOMAIN data = {} /\ node = [a \in {} |-> 0] /\ data = [a \in {} |-> 0]
  BY DEF Init, Nothing
<1>2. /\ node \in [DOMAIN node -> [index : Indices, datap : Blocks, nextp : Nodes \union {NULL}]]
      /\ data \in [DOMAIN data -> Onoff]
  BY <1>1
<1>3. readers = {} /\ writers = {}
  BY DEF Init, Lock!Init
<1>4. TypeOK
  BY <1>1, <1>2, <1>3 DEF Init, TypeOK
<1>5. LockInv /\ CallInv /\ HeadStaysLost
  BY <1>3 DEF Init, LockInv, CallInv, HeadStaysLost, HeadRemoved, ReadFunctions, WriteFunctions,
              Searching
<1>6. SortedUntilLost
  BY <1>1 DEF Init, SortedUntilLost, IsSorted
<1>7. PlacesStay /\ HeldIsAllocated
  BY DEF Init, PlacesStay, HeldIsAllocated
<1> QED
  BY <1>4, <1>5, <1>6, <1>7 DEF IInv

\* A thread in a function that changes the list is the only one in any.
LEMMA WriterAlone ==
    ASSUME IInv, NEW t \in Threads, fn[t] \in WriteFunctions
    PROVE  \A u \in Threads : u # t => fn[u] = "idle"
<1>1. t \in writers /\ readers = {} /\ writers = {t}
  BY DEF IInv, LockInv
<1>2. ASSUME NEW u \in Threads, u # t PROVE fn[u] = "idle"
  <2>1. u \notin readers /\ u \notin writers
    BY <1>1, <1>2
  <2>2. fn[u] \notin ReadFunctions /\ fn[u] \notin WriteFunctions
    BY <2>1 DEF IInv, LockInv
  <2> QED
    BY <2>2 DEF IInv, TypeOK, Functions
<1> QED
  BY <1>2

\* A thread that has come to a node has a whole list around it.
LEMMA AtNodeInList ==
    ASSUME IInv, ~undefined, NEW t \in Threads, fn[t] # "idle", AtNode(t)
    PROVE  ~Lost /\ IsSorted /\ PlaceStays(t)
<1>1. ~HeadRemoved
  BY DEF IInv, HeadStaysLost, HeadRemoved, AtNode
<1> QED
  BY <1>1 DEF IInv, Lost, SortedUntilLost, PlacesStay

LEMMA CallStep ==
    ASSUME IInv, NEW t \in Threads, NEW f \in Functions, NEW i \in Indices, Call(t, f, i)
    PROVE  IInv'
<1> USE DEF IInv, Call
<1>1. /\ fn' = [fn EXCEPT ![t] = f]
      /\ cur' = [cur EXCEPT ![t] = first] /\ prev' = [prev EXCEPT ![t] = first]
      /\ UNCHANGED <<first, node, data, undefined>>
  BY DEF listVars
<1>2. /\ held' \in [Threads -> Blocks \union {NULL}] /\ stale' \subseteq Threads
      /\ \A u \in Threads \ stale' : (held'[u] = held[u] /\ u \notin stale) \/ held'[u] = NULL
  BY DEF TypeOK, heldVars
<1>3. readers' \subseteq Threads /\ writers' \subseteq Threads
  BY DEF TypeOK, Enter, Lock!EnterRead, Lock!EnterWrite
<1>4. TypeOK'
  <2>1. /\ fn' \in [Threads -> Functions \union {"idle"}]
        /\ target' \in [Threads -> Indices \union {NULL}]
        /\ prev' \in [Threads -> Nodes \union {NULL}]
        /\ cur' \in [Threads -> Nodes \union {NULL}]
    BY <1>1 DEF TypeOK
  <2>2. /\ (first \in Nodes \union {NULL})' /\ (DOMAIN node \subseteq Nodes)'
        /\ (node \in [DOMAIN node -> [index : Indices, datap : Blocks, nextp : Nodes \union {NULL}]])'
        /\ (DOMAIN data \subseteq Blocks)' /\ (data \in [DOMAIN data -> Onoff])'
        /\ (undefined \in BOOLEAN)'
    BY <1>1 DEF TypeOK
  <2> QED
    BY <1>2, <1>3, <2>1, <2>2 DEF TypeOK
<1>5. LockInv'
  <2>1. CASE f \in ReadFunctions
    <3>1. writers = {} /\ readers' = readers \union {t} /\ writers' = writers
      BY <2>1 DEF Enter, Lock!EnterRead
    <3>2. f \notin WriteFunctions
      BY <2>1, FunctionsAreStrings
    <3> QED
      BY <1>1, <2>1, <3>1, <3>2 DEF LockInv, TypeOK
  <2>2. CASE f \notin ReadFunctions
    <3>1. writers = {} /\ readers = {} /\ readers' = readers /\ writers' = {t}
      BY <2>2 DEF Enter, Lock!EnterWrite
    <3>2. f \in WriteFunctions
      BY <2>2, FunctionsAreStrings
    <3> QED
      BY <1>1, <2>2, <3>1, <3>2 DEF LockInv, TypeOK
  <2> QED
    BY <2>1, <2>2
<1>6. CallInv'
  <2>1. HasMemory' = HasMemory
    BY <1>1 DEF HasMemory
  <2>2. target'[t] = IF f \in Searching THEN i ELSE NULL
    BY DEF TypeOK
  <2> QED
    BY <1>1, <2>1, <2>2 DEF CallInv, TypeOK
<1>7. HeadStaysLost'
  BY <1>1 DEF HeadStaysLost, HeadRemoved, TypeOK
<1>8. SortedUntilLost'
  BY <1>1 DEF SortedUntilLost, IsSorted, Lost, HeadRemoved
<1>9. PlacesStay'
  <2> SUFFICES ASSUME ~Lost', NEW u \in Threads, fn'[u] # "idle"
               PROVE  PlaceStays(u)'
    BY DEF PlacesStay
  <2>1. ~Lost
    BY <1>1 DEF Lost, HeadRemoved
  <2>2. CASE u = t
    BY <1>1, <2>2 DEF PlaceStays, TypeOK
  <2>3. CASE u # t
    BY <1>1, <2>1, <2>3 DEF PlacesStay, PlaceStays, TypeOK
  <2> QED
    BY <2>2, <2>3
<1>10. HeldIsAllocated'
  BY <1>1, <1>2 DEF HeldIsAllocated
<1> QED
  BY <1>4, <1>5, <1>6, <1>7, <1>8, <1>9, <1>10

\* A thread goes from one node to the next.
LEMMA MoveStep ==
    ASSUME IInv, NEW t \in Threads, ~undefined, fn[t] # "idle", AtNode(t),
           fn[t] \in Searching => Before(t), fn[t] # "removeall",
           prev' = [prev EXCEPT ![t] = cur[t]],
           cur' = [cur EXCEPT ![t] = node[cur[t]].nextp],
           held' \in [Threads -> Blocks \union {NULL}], stale' \subseteq Threads,
           HeldIsAllocated',
           UNCHANGED <<listVars, lockVars, fn, target, undefined>>
    PROVE  IInv'
<1> USE DEF IInv, listVars, lockVars
<1>1. ~Lost /\ IsSorted
  BY AtNodeInList
<1>2. node[cur[t]].nextp \in Nodes \union {NULL}
  BY DEF TypeOK, AtNode
<1>3. TypeOK'
  BY <1>2 DEF TypeOK
<1>4. LockInv'
  BY DEF LockInv
<1>5. CallInv'
  BY DEF CallInv, HasMemory, TypeOK
<1>6. HeadStaysLost' /\ SortedUntilLost'
  BY <1>1 DEF HeadStaysLost, SortedUntilLost, IsSorted, Lost, HeadRemoved
<1>7. PlacesStay'
  <2> SUFFICES ASSUME NEW u \in Threads, fn[u] # "idle"
               PROVE  PlaceStays(u)'
    BY DEF PlacesStay
  <2>1. CASE u = t
    BY <2>1 DEF PlaceStays, Before, AtNode, TypeOK
  <2>2. CASE u # t
    BY <1>1, <2>2 DEF PlacesStay, PlaceStays, TypeOK
  <2> QED
    BY <2>1, <2>2
<1> QED
  BY <1>3, <1>4, <1>5, <1>6, <1>7

LEMMA WalkStep ==
    ASSUME IInv, NEW t \in Threads, Walk(t)
    PROVE  IInv'
<1>1. fn[t] \in Searching /\ ~undefined /\ AtNode(t) /\ Before(t)
  BY DEF Walk, Runs, Before
<1>2. fn[t] # "idle" /\ fn[t] # "removeall"
  BY <1>1 DEF Searching
<1>3. /\ HeldIsAllocated'
      /\ held' \in [Threads -> Blocks \union {NULL}] /\ stale' \subseteq Threads
  BY DEF Walk, IInv, TypeOK, HeldIsAllocated, heldVars, listVars
<1> QED
  BY <1>1, <1>2, <1>3, MoveStep DEF Walk

\* The record of a node that a thread has come to is allocated.
LEMMA RecordAllocated ==
    ASSUME IInv, ~undefined, NEW t \in Threads, fn[t] # "idle", AtNode(t)
    PROVE  node[cur[t]].datap \in DOMAIN data /\ node[cur[t]].datap \in Blocks
<1>1. IsSorted
  BY AtNodeInList
<1> QED
  BY <1>1 DEF IsSorted, AtNode, IInv, TypeOK

LEMMA ScanStep ==
    ASSUME IInv, NEW t \in Threads, Scan(t)
    PROVE  IInv'
<1>1. fn[t] \in {"show", "find_op"} /\ ~undefined /\ AtNode(t)
  BY DEF Scan, Runs
<1>2. fn[t] # "idle" /\ fn[t] # "removeall" /\ fn[t] \notin Searching
  BY <1>1 DEF Searching
<1>3. node[cur[t]].datap \in DOMAIN data /\ node[cur[t]].datap \in Blocks
  BY <1>1, <1>2, RecordAllocated
<1>4. /\ HeldIsAllocated'
      /\ held' \in [Threads -> Blocks \union {NULL}] /\ stale' \subseteq Threads
  BY <1>3 DEF Scan, IInv, TypeOK, HeldIsAllocated, listVars
<1> QED
  BY <1>1, <1>2, <1>4, MoveStep DEF Scan

\* Only undefined is set: nothing is promised of the list any more.
LEMMA TouchFreedStep ==
    ASSUME IInv, NEW t \in Threads, TouchFreed(t)
    PROVE  IInv'
<1> USE DEF IInv, TouchFreed, listVars, lockVars, walkVars, heldVars
<1>1. TypeOK' /\ LockInv' /\ CallInv' /\ HeadStaysLost' /\ HeldIsAllocated'
  BY DEF TypeOK, LockInv, CallInv, HasMemory, HeadStaysLost, HeadRemoved, HeldIsAllocated
<1>2. SortedUntilLost' /\ PlacesStay'
  BY DEF SortedUntilLost, PlacesStay, Lost
<1> QED
  BY <1>1, <1>2

\* A function ends: what is left to show is about the list and the records.
LEMMA ReturnStep ==
    ASSUME IInv, NEW t \in Threads, fn[t] # "idle", Return(t), UNCHANGED undefined
    PROVE  /\ readers' \subseteq Threads /\ writers' \subseteq Threads
           /\ fn' = [fn EXCEPT ![t] = "idle"]
           /\ fn' \in [Threads -> Functions \union {"idle"}]
           /\ target' \in [Threads -> Indices \union {NULL}]
           /\ prev' \in [Threads -> Nodes \union {NULL}]
           /\ cur' \in [Threads -> Nodes \union {NULL}]
           /\ \A u \in Threads : u # t =>
                 fn'[u] = fn[u] /\ target'[u] = target[u] /\ prev'[u] = prev[u] /\ cur'[u] = cur[u]
           /\ LockInv'
<1> USE DEF IInv, Return
<1>1. fn[t] \in Functions
  BY DEF TypeOK
<1>2. CASE fn[t] \in ReadFunctions
  <2>1. t \in readers /\ readers' = readers \ {t} /\ writers' = writers
    BY <1>2 DEF Leave, Lock!LeaveRead
  <2>2. writers = {}
    BY <2>1 DEF LockInv, TypeOK
  <2> QED
    BY <2>1, <2>2, FunctionsAreStrings DEF TypeOK, LockInv
<1>3. CASE fn[t] \notin ReadFunctions
  <2>1. t \in writers /\ writers' = writers \ {t} /\ readers' = readers
    BY <1>3 DEF Leave, Lock!LeaveWrite
  <2>2. writers = {t} /\ readers = {}
    BY <2>1 DEF LockInv
  <2> QED
    BY <2>1, <2>2, FunctionsAreStrings DEF TypeOK, LockInv
<1> QED
  BY <1>2, <1>3

\* A function ends that has not changed the list's nodes.
LEMMA ReturnKeepsList ==
    ASSUME IInv, NEW t \in Threads, fn[t] # "idle", ~undefined, Return(t),
           UNCHANGED <<first, node, undefined>>,
           DOMAIN data' = DOMAIN data, data' \in [DOMAIN data -> Onoff],
           held' \in [Threads -> Blocks \union {NULL}], stale' \subseteq Threads,
           HeldIsAllocated'
    PROVE  IInv'
<1>1. /\ readers' \subseteq Threads /\ writers' \subseteq Threads
      /\ fn' = [fn EXCEPT ![t] = "idle"]
      /\ fn' \in [Threads -> Functions \union {"idle"}]
      /\ target' \in [Threads -> Indices \union {NULL}]
      /\ prev' \in [Threads -> Nodes \union {NULL}]
      /\ cur' \in [Threads -> Nodes \union {NULL}]
      /\ \A u \in Threads : u # t =>
            fn'[u] = fn[u] /\ target'[u] = target[u] /\ prev'[u] = prev[u] /\ cur'[u] = cur[u]
      /\ LockInv'
  BY ReturnStep
<1> USE DEF IInv
<1>2. fn'[t] = "idle"
  BY <1>1 DEF TypeOK
<1>3. TypeOK'
  BY <1>1 DEF TypeOK
<1>4. CallInv'
  BY <1>1, <1>2 DEF CallInv, HasMemory, Searching
<1>5. HeadStaysLost' /\ SortedUntilLost'
  BY <1>1, <1>2 DEF HeadStaysLost, SortedUntilLost, IsSorted, Lost, HeadRemoved
<1>6. PlacesStay'
  BY <1>1, <1>2 DEF PlacesStay, PlaceStays, Lost, HeadRemoved
<1> QED
  BY <1>1, <1>3, <1>4, <1>5, <1>6

LEMMA ToggleStep ==
    ASSUME IInv, NEW t \in Threads, Toggle(t)
    PROVE  IInv'
<1>1. fn[t] = "toggle" /\ ~undefined /\ AtNode(t)
  BY DEF Toggle, Runs, Found
<1>2. node[cur[t]].datap \in DOMAIN data
  BY <1>1, RecordAllocated
<1>3. /\ DOMAIN data' = DOMAIN data /\ data' \in [DOMAIN data -> Onoff]
      /\ held' \in [Threads -> Blocks \union {NULL}] /\ stale' \subseteq Threads
  BY <1>2 DEF Toggle, IInv, TypeOK, heldVars, Flip, Onoff
<1>4. HeldIsAllocated'
  BY <1>3 DEF Toggle, IInv, HeldIsAllocated, heldVars
<1> QED
  BY <1>1, <1>3, <1>4, ReturnKeepsList DEF Toggle

\* find and find_op hand out the record of a node.
LEMMA HandOutStep ==
    ASSUME IInv, NEW t \in Threads, Find(t) \/ FindOp(t)
    PROVE  IInv'
<1>1. /\ fn[t] # "idle" /\ ~undefined /\ AtNode(t) /\ Return(t)
      /\ held' = [held EXCEPT ![t] = node[cur[t]].datap] /\ stale' = stale \ {t}
      /\ UNCHANGED <<first, node, data, undefined>>
  BY DEF Find, FindOp, Runs, Found, listVars
<1>2. node[cur[t]].datap \in DOMAIN data /\ node[cur[t]].datap \in Blocks
  BY <1>1, RecordAllocated
<1>3. /\ DOMAIN data' = DOMAIN data /\ data' \in [DOMAIN data -> Onoff]
      /\ held' \in [Threads -> Blocks \union {NULL}] /\ stale' \subseteq Threads
  BY <1>1, <1>2 DEF IInv, TypeOK
<1>4. HeldIsAllocated'
  BY <1>1, <1>2 DEF IInv, TypeOK, HeldIsAllocated
<1> QED
  BY <1>1, <1>3, <1>4, ReturnKeepsList

LEMMA NotFoundStep ==
    ASSUME IInv, NEW t \in Threads, NotFound(t)
    PROVE  IInv'
<1>1. fn[t] # "idle" /\ ~undefined
  BY DEF NotFound, Runs
<1>2. /\ DOMAIN data' = DOMAIN data /\ data' \in [DOMAIN data -> Onoff]
      /\ held' \in [Threads -> Blocks \union {NULL}] /\ stale' \subseteq Threads
  BY DEF NotFound, IInv, TypeOK, heldVars, listVars
<1>3. HeldIsAllocated'
  BY DEF NotFound, IInv, HeldIsAllocated, heldVars, listVars
<1> QED
  BY <1>1, <1>2, <1>3, ReturnKeepsList DEF NotFound, listVars

LEMMA UseRecordStep ==
    ASSUME IInv, NEW t \in Threads, UseRecord(t)
    PROVE  IInv'
<1> USE DEF IInv, UseRecord, listVars, lockVars, walkVars
<1>1. TypeOK'
  BY DEF TypeOK
<1>2. LockInv' /\ CallInv' /\ HeadStaysLost'
  BY DEF LockInv, CallInv, HasMemory, HeadStaysLost, HeadRemoved
<1>3. HeldIsAllocated'
  BY DEF HeldIsAllocated, TypeOK
<1>4. SortedUntilLost' /\ PlacesStay'
  BY DEF Runs, SortedUntilLost, IsSorted, PlacesStay, PlaceStays, Lost, HeadRemoved
<1> QED
  BY <1>1, <1>2, <1>3, <1>4

\* A writer ends that has changed the list: the others are all idle.
LEMMA WriterReturns ==
    ASSUME IInv, NEW t \in Threads, fn[t] \in WriteFunctions, Return(t), UNCHANGED undefined
    PROVE  CallInv' /\ HeadStaysLost' /\ PlacesStay' /\ LockInv'
<1>1. fn[t] # "idle"
  BY FunctionsAreStrings DEF Functions
<1>2. fn' = [fn EXCEPT ![t] = "idle"] /\ LockInv'
  BY <1>1, ReturnStep
<1>3. \A u \in Threads : fn'[u] = "idle"
  BY <1>2, WriterAlone DEF IInv, TypeOK
<1> QED
  BY <1>2, <1>3 DEF CallInv, HeadStaysLost, PlacesStay, Searching

NodeType == [index : Indices, datap : Blocks, nextp : Nodes \union {NULL}]

LEMMA WriterTypes ==
    ASSUME IInv, NEW t \in Threads, fn[t] \in WriteFunctions, Return(t), UNCHANGED undefined,
           first' \in Nodes \union {NULL},
           DOMAIN node' \subseteq Nodes, node' \in [DOMAIN node' -> NodeType],
           DOMAIN data' \subseteq Blocks, data' \in [DOMAIN data' -> Onoff],
           held' \in [Threads -> Blocks \union {NULL}], stale' \subseteq Threads
    PROVE  TypeOK'
<1>1. fn[t] # "idle"
  BY FunctionsAreStrings DEF Functions
<1>2. /\ readers' \subseteq Threads /\ writers' \subseteq Threads
      /\ fn' \in [Threads -> Functions \union {"idle"}]
      /\ target' \in [Threads -> Indices \union {NULL}]
      /\ prev' \in [Threads -> Nodes \union {NULL}]
      /\ cur' \in [Threads -> Nodes \union {NULL}]
  BY <1>1, ReturnStep
<1> QED
  BY <1>2 DEF IInv, TypeOK, NodeType

LEMMA MallocIsFree ==
    ASSUME NEW pool, NEW used, pool \ used # {}
    PROVE  Malloc(pool, used) \in pool \ used
  BY DEF Malloc

\* An insert of an index that is there: the node gets a new record.
LEMMA ReplaceStep ==
    ASSUME IInv, NEW t \in Threads, NEW s \in Onoff, Replace(t, s)
    PROVE  IInv'
<1>1. fn[t] = "insert" /\ ~undefined /\ AtNode(t) /\ fn[t] \in WriteFunctions
  BY DEF Replace, Runs, Found, WriteFunctions
<1>2. ~Lost /\ IsSorted
  BY <1>1, AtNodeInList
<1> DEFINE b == Malloc(Blocks, DOMAIN data)
           old == node[cur[t]].datap
<1>3. b \in Blocks /\ b \notin DOMAIN data
  BY <1>1, MallocIsFree DEF IInv, CallInv, HasMemory
<1>4. old \in DOMAIN data
  BY <1>1, RecordAllocated
<1> HIDE DEF b, old
<1>5. /\ data' = [a \in (DOMAIN data \union {b}) \ {old} |-> IF a = b THEN s ELSE data[a]]
      /\ node' = [node EXCEPT ![cur[t]].datap = b]
      /\ stale' = stale \union Holders(old)
      /\ Return(t) /\ UNCHANGED <<first, held, undefined>>
  BY <1>3, <1>4 DEF Replace, WithRecord, WithoutRecord, b, old
<1>6. DOMAIN node' = DOMAIN node /\ cur[t] \in DOMAIN node
  BY <1>1, <1>5 DEF AtNode
<1>7. \A n \in DOMAIN node : node[n] \in NodeType
  BY DEF IInv, TypeOK, NodeType
<1>8. \A n \in DOMAIN node :
         /\ node'[n].index = node[n].index /\ node'[n].nextp = node[n].nextp
         /\ node'[n].datap = IF n = cur[t] THEN b ELSE node[n].datap
         /\ node'[n] \in NodeType
  BY <1>3, <1>5, <1>6, <1>7 DEF NodeType
<1>9. TypeOK'
  <2>1. node' \in [DOMAIN node' -> NodeType] /\ DOMAIN node' \subseteq Nodes
    BY <1>5, <1>6, <1>8 DEF IInv, TypeOK
  <2>2. DOMAIN data' \subseteq Blocks /\ data' \in [DOMAIN data' -> Onoff]
    BY <1>3, <1>5 DEF IInv, TypeOK
  <2>3. held' \in [Threads -> Blocks \union {NULL}] /\ stale' \subseteq Threads
    BY <1>5 DEF IInv, TypeOK, Holders
  <2> QED
    BY <1>1, <1>5, <2>1, <2>2, <2>3, WriterTypes DEF IInv, TypeOK
<1>10. CallInv' /\ HeadStaysLost' /\ PlacesStay' /\ LockInv'
  BY <1>1, <1>5, WriterReturns
<1>11. SortedUntilLost'
  <2>1. \A n \in DOMAIN node : n # cur[t] => node[n].datap # old
    BY <1>2, <1>6 DEF IsSorted, old
  <2>2. \A n \in DOMAIN node : node'[n].datap \in DOMAIN data'
    BY <1>2, <1>3, <1>4, <1>5, <1>8, <2>1 DEF IsSorted
  <2>3. \A m, n \in DOMAIN node : m # n =>
           node'[m].index # node'[n].index /\ node'[m].datap # node'[n].datap
    BY <1>2, <1>3, <1>8 DEF IsSorted
  <2>4. first' = first /\ (first # NULL => first \in DOMAIN node)
    BY <1>2, <1>5 DEF Lost, HeadRemoved
  <2>5. IsSorted'
    BY <1>2, <1>6, <1>8, <2>2, <2>3, <2>4 DEF IsSorted
  <2> QED
    BY <2>5 DEF SortedUntilLost
<1>12. HeldIsAllocated'
  <2> SUFFICES ASSUME NEW u \in Threads \ stale', held'[u] # NULL
               PROVE  held'[u] \in DOMAIN data'
    BY DEF HeldIsAllocated
  <2>1. u \notin stale /\ held[u] # old /\ held'[u] = held[u]
    BY <1>5 DEF Holders
  <2>2. held[u] \in DOMAIN data
    BY <2>1 DEF IInv, HeldIsAllocated
  <2> QED
    BY <1>5, <2>1, <2>2
<1> QED
  BY <1>9, <1>10, <1>11, <1>12 DEF IInv

\* An insert of a new index: between prev and cur, or before the first node.
LEMMA LinkStep ==
    ASSUME IInv, NEW t \in Threads, NEW s \in Onoff, Link(t, s)
    PROVE  IInv'
<1> DEFINE n == Malloc(Nodes, DOMAIN node)
           b == Malloc(Blocks, DOMAIN data)
           k == target[t]
<1>1. fn[t] = "insert" /\ ~undefined /\ fn[t] \in WriteFunctions /\ fn[t] \in Searching
  BY DEF Link, Runs, WriteFunctions, Searching
<1>2. n \in Nodes /\ n \notin DOMAIN node /\ b \in Blocks /\ b \notin DOMAIN data /\ k \in Indices
  BY <1>1, MallocIsFree DEF IInv, CallInv, HasMemory
<1> HIDE DEF n, b
<1>3. /\ data' = WithRecord(b, s)
      /\ node' = [a \in DOMAIN node \union {n} |->
                     IF a = n THEN [index |-> k, datap |-> b, nextp |-> cur[t]]
                     ELSE IF a = prev[t] /\ cur[t] # first THEN [node[a] EXCEPT !.nextp = n]
                     ELSE node[a]]
      /\ first' = IF cur[t] = first THEN n ELSE first
      /\ Return(t) /\ UNCHANGED <<held, stale, undefined>>
  BY DEF Link, heldVars, n, b
<1>4. \A a \in DOMAIN node : node[a] \in NodeType
  BY DEF IInv, TypeOK, NodeType
<1>5. /\ DOMAIN node' = DOMAIN node \union {n}
      /\ node'[n] = [index |-> k, datap |-> b, nextp |-> cur[t]]
      /\ \A a \in DOMAIN node :
            /\ node'[a].index = node[a].index /\ node'[a].datap = node[a].datap
            /\ node'[a].nextp = IF a = prev[t] /\ cur[t] # first THEN n ELSE node[a].nextp
            /\ node'[a] \in NodeType
  BY <1>2, <1>3, <1>4 DEF NodeType
<1>6. DOMAIN data' = DOMAIN data \union {b} /\ \A a \in DOMAIN data : data'[a] = data[a]
  BY <1>2, <1>3 DEF WithRecord
<1>7. TypeOK'
  <2>1. node'[n] \in NodeType
    BY <1>2, <1>5 DEF NodeType, IInv, TypeOK
  <2>2. node' \in [DOMAIN node' -> NodeType] /\ DOMAIN node' \subseteq Nodes
    BY <1>2, <1>3, <1>5, <2>1 DEF IInv, TypeOK
  <2>3. DOMAIN data' \subseteq Blocks /\ data' \in [DOMAIN data' -> Onoff]
    BY <1>2, <1>3, <1>6 DEF IInv, TypeOK, WithRecord
  <2>4. held' \in [Threads -> Blocks \union {NULL}] /\ stale' \subseteq Threads
    BY <1>3 DEF IInv, TypeOK
  <2> QED
    BY <1>1, <1>2, <1>3, <2>2, <2>3, <2>4, WriterTypes DEF IInv, TypeOK
<1>8. CallInv' /\ HeadStaysLost' /\ PlacesStay' /\ LockInv'
  BY <1>1, <1>3, WriterReturns
<1>9. SortedUntilLost'
  <2> SUFFICES ASSUME ~HeadRemoved PROVE IsSorted'
    <3>1. CASE HeadRemoved
      <4>1. cur[t] = first /\ first # NULL /\ first \notin DOMAIN node
        BY <1>1, <3>1 DEF IInv, HeadStaysLost, HeadRemoved
      <4> QED
        BY <4>1 DEF Link, Missing, AtNode
    <3> QED
      BY <3>1 DEF SortedUntilLost
  <2>1. IsSorted /\ PlaceStays(t)
    BY <1>1 DEF IInv, SortedUntilLost, PlacesStay, Lost
  <2>2. \A a \in DOMAIN node : node[a].index \in Int
    BY <1>4, AddressesAssumption DEF NodeType
  <2>3. k \in Int /\ NULL \notin DOMAIN node /\ n # NULL /\ NULL \notin Nodes
    BY <1>2, AddressesAssumption DEF IInv, TypeOK
  <2>4. cur[t] = NULL \/ (cur[t] \in DOMAIN node /\ node[cur[t]].index > k)
    BY DEF Link, Missing, AtNode
  <2>5. first # NULL => first \in DOMAIN node
    BY DEF HeadRemoved
  <2>6. CASE cur[t] = first
    <3>1. \A a \in DOMAIN node : k < node[a].index
      BY <2>1, <2>2, <2>3, <2>4, <2>5, <2>6 DEF IsSorted
    <3>2. \A a \in DOMAIN node : node'[a].nextp = node[a].nextp
      BY <1>5, <2>6
    <3>3. \A a \in DOMAIN node' : node'[first'].index <= node'[a].index
      BY <1>3, <1>5, <2>2, <2>3, <2>6, <3>1
    <3>4. \A a \in DOMAIN node' : node'[a].nextp = NULL \/
             (node'[a].nextp \in DOMAIN node' /\ node'[a].index < node'[node'[a].nextp].index)
      BY <1>2, <1>5, <2>1, <2>2, <2>3, <2>4, <3>1, <3>2 DEF IsSorted
    <3>5. \A a, m \in DOMAIN node' : node'[a].index < node'[m].index =>
             node'[a].nextp # NULL /\ node'[node'[a].nextp].index <= node'[m].index
      <4> SUFFICES ASSUME NEW a \in DOMAIN node', NEW m \in DOMAIN node',
                          node'[a].index < node'[m].index
                   PROVE  node'[a].nextp # NULL /\ node'[node'[a].nextp].index <= node'[m].index
        OBVIOUS
      <4>1. m \in DOMAIN node
        BY <1>2, <1>5, <2>2, <2>3, <3>1
      <4>2. CASE a = n
        BY <1>5, <2>1, <2>5, <2>6, <2>3, <4>1, <4>2 DEF IsSorted
      <4>3. CASE a \in DOMAIN node
        BY <1>2, <1>5, <2>1, <3>2, <4>1, <4>3 DEF IsSorted
      <4> QED
        BY <1>5, <4>2, <4>3
    <3>6. \A m, a \in DOMAIN node' : m # a =>
             node'[m].index # node'[a].index /\ node'[m].datap # node'[a].datap
      BY <1>2, <1>5, <2>1, <2>2, <2>3, <3>1 DEF IsSorted
    <3>7. \A a \in DOMAIN node' : node'[a].datap \in DOMAIN data'
      BY <1>5, <1>6, <2>1 DEF IsSorted
    <3>8. first' # NULL /\ DOMAIN node' # {}
      BY <1>3, <1>5, <2>3, <2>6
    <3> QED
      BY <3>3, <3>4, <3>5, <3>6, <3>7, <3>8 DEF IsSorted
  <2>7. CASE cur[t] # first
    <3> DEFINE p == prev[t]
    <3>1. /\ p \in DOMAIN node /\ cur[t] = node[p].nextp /\ node[p].index < k
          /\ first' = first /\ first \in DOMAIN node
      BY <1>1, <1>3, <2>1, <2>7, <2>5 DEF PlaceStays, IsSorted
    <3> HIDE DEF p
    <3>2. /\ node'[p].nextp = n
          /\ \A a \in DOMAIN node : a # p => node'[a].nextp = node[a].nextp
      BY <1>5, <2>7, <3>1 DEF p
    <3>3. \A a \in DOMAIN node : node[a].index # k
      BY <2>1, <2>2, <2>3, <2>4, <3>1 DEF IsSorted
    <3>4. \A a \in DOMAIN node' : node'[first'].index <= node'[a].index
      BY <1>2, <1>5, <2>1, <2>2, <2>3, <3>1 DEF IsSorted
    <3>5. \A a \in DOMAIN node' : node'[a].nextp = NULL \/
             (node'[a].nextp \in DOMAIN node' /\ node'[a].index < node'[node'[a].nextp].index)
      BY <1>2, <1>5, <2>1, <2>2, <2>3, <2>4, <3>1, <3>2 DEF IsSorted
    <3>6. \A a, m \in DOMAIN node' : node'[a].index < node'[m].index =>
             node'[a].nextp # NULL /\ node'[node'[a].nextp].index <= node'[m].index
      <4> SUFFICES ASSUME NEW a \in DOMAIN node', NEW m \in DOMAIN node',
                          node'[a].index < node'[m].index
                   PROVE  node'[a].nextp # NULL /\ node'[node'[a].nextp].index <= node'[m].index
        OBVIOUS
      <4>1. CASE a = n
        <5>1. m \in DOMAIN node /\ node[p].index < node[m].index
          BY <1>5, <2>2, <2>3, <3>1, <4>1
        <5> QED
          BY <1>2, <1>5, <2>1, <2>3, <2>4, <3>1, <4>1, <5>1 DEF IsSorted
      <4>2. CASE a = p
        <5>1. CASE m = n
          BY <1>2, <1>5, <2>3, <3>1, <3>2, <4>2, <5>1
        <5>2. CASE m \in DOMAIN node
          BY <1>2, <1>5, <2>1, <2>2, <2>3, <2>4, <3>1, <3>2, <4>2, <5>2 DEF IsSorted
        <5> QED
          BY <1>5, <5>1, <5>2
      <4>3. CASE a \in DOMAIN node /\ a # p
        <5>1. CASE m = n
          <6>1. node[a].index < k
            BY <1>5, <4>3, <5>1
          <6>2. node[a].index < node[p].index
            BY <2>1, <2>2, <2>3, <2>4, <3>1, <4>3, <6>1 DEF IsSorted
          <6> QED
            BY <1>2, <1>5, <2>1, <2>2, <2>3, <3>1, <3>2, <4>3, <5>1, <6>2 DEF IsSorted
        <5>2. CASE m \in DOMAIN node
          BY <1>2, <1>5, <2>1, <3>2, <4>3, <5>2 DEF IsSorted
        <5> QED
          BY <1>5, <5>1, <5>2
      <4> QED
        BY <1>5, <4>1, <4>2, <4>3
    <3>7. \A m, a \in DOMAIN node' : m # a =>
             node'[m].index # node'[a].index /\ node'[m].datap # node'[a].datap
      BY <1>2, <1>5, <2>1, <3>3 DEF IsSorted
    <3>8. \A a \in DOMAIN node' : node'[a].datap \in DOMAIN data'
      BY <1>5, <1>6, <2>1 DEF IsSorted
    <3> QED
      BY <1>5, <2>3, <3>1, <3>4, <3>5, <3>6, <3>7, <3>8 DEF IsSorted
  <2> QED
    BY <2>6, <2>7
<1>10. HeldIsAllocated'
  BY <1>3, <1>6 DEF IInv, HeldIsAllocated
<1> QED
  BY <1>7, <1>8, <1>9, <1>10 DEF IInv

\* A node is taken out that is not the head: prev leads on past it.  The head is
\* taken out: the list is lost, and nothing more is promised of it.
LEMMA UnlinkStep ==
    ASSUME IInv, NEW t \in Threads, fn[t] \in WriteFunctions \intersect Searching,
           ~undefined, Found(t), node' = Unlinked(t), Return(t),
           UNCHANGED <<first, data, undefined>>,
           held' \in [Threads -> Blocks \union {NULL}], stale' \subseteq Threads,
           HeldIsAllocated'
    PROVE  IInv'
<1> DEFINE c == cur[t]
           p == prev[t]
           k == target[t]
<1>1. c \in DOMAIN node /\ node[c].index = k /\ fn[t] # "idle"
  BY FunctionsAreStrings DEF Found, AtNode
<1>2. ~Lost /\ IsSorted /\ PlaceStays(t)
  BY <1>1, AtNodeInList DEF Found
<1>3. \A a \in DOMAIN node : node[a] \in NodeType /\ node[a].index \in Int
  BY AddressesAssumption DEF IInv, TypeOK, NodeType
<1>4. NULL \notin DOMAIN node /\ first # NULL /\ first \in DOMAIN node
  BY <1>1, <1>2, AddressesAssumption DEF IInv, TypeOK, IsSorted, Lost, HeadRemoved
<1>5. node' = [a \in DOMAIN node \ {c} |->
                  IF a = p THEN [node[a] EXCEPT !.nextp = node[c].nextp] ELSE node[a]]
  BY DEF Unlinked
<1> HIDE DEF c, p, k
<1>6. /\ DOMAIN node' = DOMAIN node \ {c}
      /\ \A a \in DOMAIN node' :
            /\ node'[a].index = node[a].index /\ node'[a].datap = node[a].datap
            /\ node'[a].nextp = IF a = p THEN node[c].nextp ELSE node[a].nextp
            /\ node'[a] \in NodeType
  BY <1>1, <1>3, <1>5 DEF NodeType
<1>7. TypeOK'
  <2>1. node' \in [DOMAIN node' -> NodeType] /\ DOMAIN node' \subseteq Nodes
    BY <1>5, <1>6 DEF IInv, TypeOK
  <2> QED
    BY <2>1, WriterTypes DEF IInv, TypeOK
<1>8. CallInv' /\ HeadStaysLost' /\ PlacesStay' /\ LockInv'
  BY WriterReturns
<1>9. SortedUntilLost'
  <2>1. CASE c = first
    BY <1>4, <1>6, <2>1 DEF SortedUntilLost, Lost, HeadRemoved
  <2>2. CASE c # first
    <3>1. p \in DOMAIN node /\ c = node[p].nextp /\ node[p].index < k /\ p # c
      BY <1>1, <1>2, <1>3, <2>2 DEF PlaceStays, c, p, k
    <3>2. \A a \in DOMAIN node : a # p => node[a].nextp # c
      <4> SUFFICES ASSUME NEW a \in DOMAIN node, a # p, node[a].nextp = c PROVE FALSE
        OBVIOUS
      <4>1. node[a].index # node[p].index
        BY <1>2, <3>1 DEF IsSorted
      <4>2. CASE node[a].index < node[p].index
        BY <1>1, <1>2, <1>3, <3>1, <4>2 DEF IsSorted
      <4>3. CASE node[p].index < node[a].index
        <5>1. node[c].index <= node[a].index
          BY <1>2, <3>1, <4>3 DEF IsSorted
        <5>2. node[a].index < node[c].index
          BY <1>1, <1>2, <1>4 DEF IsSorted
        <5> QED
          BY <1>1, <1>3, <5>1, <5>2
      <4> QED
        BY <1>3, <3>1, <4>1, <4>2, <4>3
    <3>3. \A a \in DOMAIN node' : node'[first'].index <= node'[a].index
      BY <1>2, <1>4, <1>6, <2>2 DEF IsSorted
    <3>4. node[c].nextp = NULL \/ (/\ node[c].nextp \in DOMAIN node \ {c}
                                   /\ k < node[node[c].nextp].index)
      BY <1>1, <1>2, <1>3 DEF IsSorted
    <3>5. \A a \in DOMAIN node' : node'[a].nextp = NULL \/
             (node'[a].nextp \in DOMAIN node' /\ node'[a].index < node'[node'[a].nextp].index)
      <4> SUFFICES ASSUME NEW a \in DOMAIN node', node'[a].nextp # NULL
                   PROVE  node'[a].nextp \in DOMAIN node' /\
                          node'[a].index < node'[node'[a].nextp].index
        OBVIOUS
      <4>1. CASE a = p
        BY <1>1, <1>3, <1>6, <3>1, <3>4, <4>1
      <4>2. CASE a # p
        BY <1>2, <1>6, <3>2, <4>2 DEF IsSorted
      <4> QED
        BY <4>1, <4>2
    <3>6. \A a, m \in DOMAIN node' : node'[a].index < node'[m].index =>
             node'[a].nextp # NULL /\ node'[node'[a].nextp].index <= node'[m].index
      <4> SUFFICES ASSUME NEW a \in DOMAIN node', NEW m \in DOMAIN node',
                          node'[a].index < node'[m].index
                   PROVE  node'[a].nextp # NULL /\ node'[node'[a].nextp].index <= node'[m].index
        OBVIOUS
      <4>1. m \in DOMAIN node /\ m # c /\ a \in DOMAIN node /\ node[a].index < node[m].index
        BY <1>6
      <4>2. CASE a = p
        <5>1. node[c].index <= node[m].index /\ node[c].index # node[m].index
          BY <1>1, <1>2, <3>1, <4>1, <4>2 DEF IsSorted
        <5>2. node[c].nextp # NULL /\ node[node[c].nextp].index <= node[m].index
          BY <1>1, <1>2, <1>3, <4>1, <5>1 DEF IsSorted
        <5> QED
          BY <1>6, <3>4, <4>2, <5>2
      <4>3. CASE a # p
        <5>1. node[a].nextp # NULL /\ node[node[a].nextp].index <= node[m].index
          BY <1>2, <4>1 DEF IsSorted
        <5>2. node[a].nextp \in DOMAIN node'
          BY <1>2, <1>6, <3>2, <4>1, <4>3, <5>1 DEF IsSorted
        <5> QED
          BY <1>6, <4>3, <5>1, <5>2
      <4> QED
        BY <4>2, <4>3
    <3>7. \A m, a \in DOMAIN node' : m # a =>
             node'[m].index # node'[a].index /\ node'[m].datap # node'[a].datap
      BY <1>2, <1>6 DEF IsSorted
    <3>8. \A a \in DOMAIN node' : node'[a].datap \in DOMAIN data'
      BY <1>2, <1>6 DEF IsSorted
    <3>9. first' # NULL /\ DOMAIN node' # {}
      BY <1>4, <1>6, <2>2
    <3> QED
      BY <3>3, <3>5, <3>6, <3>7, <3>8, <3>9 DEF IsSorted, SortedUntilLost
  <2> QED
    BY <2>1, <2>2
<1> QED
  BY <1>7, <1>8, <1>9 DEF IInv

LEMMA RemoveStep ==
    ASSUME IInv, NEW t \in Threads, Remove(t) \/ ChangeData(t)
    PROVE  IInv'
<1>1. /\ fn[t] \in {"remove", "change"} /\ ~undefined /\ Found(t) /\ node' = Unlinked(t)
      /\ Return(t) /\ UNCHANGED <<first, data, undefined>>
  BY DEF Remove, ChangeData, Runs
<1>2. fn[t] \in WriteFunctions \intersect Searching /\ fn[t] # "idle" /\ AtNode(t)
  BY <1>1 DEF WriteFunctions, Searching, Found
<1>3. node[cur[t]].datap \in DOMAIN data /\ node[cur[t]].datap \in Blocks
  BY <1>1, <1>2, RecordAllocated
<1>4. /\ held' \in [Threads -> Blocks \union {NULL}] /\ stale' \subseteq Threads
      /\ HeldIsAllocated'
  BY <1>1, <1>3 DEF Remove, ChangeData, heldVars, IInv, TypeOK, HeldIsAllocated
<1> QED
  BY <1>1, <1>2, <1>4, UnlinkStep

\* removeall frees the head and then reads it.
LEMMA RemoveAllStep ==
    ASSUME IInv, NEW t \in Threads, RemoveAll(t)
    PROVE  IInv' /\ HeadRemoved'
<1> USE DEF IInv, RemoveAll, lockVars, walkVars, heldVars
<1>1. fn[t] = "removeall" /\ AtNode(t) /\ cur[t] = first /\ first \in DOMAIN node
  BY DEF Runs, CallInv, AtNode
<1>2. HeadRemoved'
  BY <1>1, AddressesAssumption DEF HeadRemoved, Unlinked, TypeOK
<1>3. \A u \in Threads : u # t => fn[u] = "idle"
  BY <1>1, WriterAlone DEF WriteFunctions
<1>4. TypeOK'
  <2>1. \A a \in DOMAIN node : node[a] \in NodeType
    BY DEF TypeOK, NodeType
  <2>2. \A a \in DOMAIN node \ {cur[t]} :
           (IF a = prev[t] THEN [node[a] EXCEPT !.nextp = node[cur[t]].nextp] ELSE node[a]) \in NodeType
    BY <1>1, <2>1 DEF NodeType, AtNode
  <2>3. node' \in [DOMAIN node' -> NodeType] /\ DOMAIN node' \subseteq Nodes
    BY <2>2 DEF Unlinked, TypeOK
  <2> QED
    BY <2>3 DEF TypeOK, NodeType
<1>5. LockInv' /\ CallInv' /\ HeadStaysLost'
  BY <1>1, <1>3 DEF LockInv, CallInv, Searching, HeadStaysLost
<1>6. SortedUntilLost' /\ PlacesStay' /\ HeldIsAllocated'
  BY DEF SortedUntilLost, PlacesStay, HeldIsAllocated, Lost
<1> QED
  BY <1>2, <1>4, <1>5, <1>6

LEMMA NextIInv ==
    ASSUME IInv, [Next]_vars
    PROVE  IInv'
<1>1. ASSUME NEW t \in Threads, NEW f \in Functions, NEW i \in Indices, Call(t, f, i)
      PROVE  IInv'
  BY <1>1, CallStep
<1>2. ASSUME NEW t \in Threads, NEW s \in Onoff, Replace(t, s) \/ Link(t, s)
      PROVE  IInv'
  BY <1>2, ReplaceStep, LinkStep
<1>3. ASSUME NEW t \in Threads, Walk(t) \/ Scan(t) \/ TouchFreed(t)
      PROVE  IInv'
  BY <1>3, WalkStep, ScanStep, TouchFreedStep
<1>4. ASSUME NEW t \in Threads,
             Remove(t) \/ ChangeData(t) \/ Toggle(t) \/ Find(t) \/ FindOp(t)
      PROVE  IInv'
  BY <1>4, RemoveStep, ToggleStep, HandOutStep
<1>5. ASSUME NEW t \in Threads, NotFound(t) \/ RemoveAll(t) \/ UseRecord(t)
      PROVE  IInv'
  BY <1>5, NotFoundStep, RemoveAllStep, UseRecordStep
<1>6. CASE UNCHANGED vars
  BY <1>6 DEF vars, listVars, lockVars, walkVars, heldVars, IInv, TypeOK, LockInv, CallInv,
              HasMemory, HeadStaysLost, HeadRemoved, SortedUntilLost, IsSorted, PlacesStay,
              PlaceStays, HeldIsAllocated, Lost
<1> QED
  BY <1>1, <1>2, <1>3, <1>4, <1>5, <1>6 DEF Next, Step

\* The inductive invariant holds in every state.
THEOREM Invariance == Spec => []IInv
<1>1. Init => IInv
  BY InitIInv
<1>2. IInv /\ [Next]_vars => IInv'
  BY NextIInv
<1> QED
  BY <1>1, <1>2, PTL DEF Spec

\* Every variable has its type: addresses stay addresses, records stay records.
THEOREM TypeCorrect == Spec => []TypeOK
<1>1. IInv => TypeOK
  BY DEF IInv
<1> QED
  BY <1>1, Invariance, PTL

\* Until its head is removed the list reaches every node in order of the index.
THEOREM SortedHolds == Spec => []SortedUntilLost
<1>1. IInv => SortedUntilLost
  BY DEF IInv
<1> QED
  BY <1>1, Invariance, PTL

\* The place that a thread has walked to stays a place in the list.
THEOREM PlacesHold == Spec => []PlacesStay
<1>1. IInv => PlacesStay
  BY DEF IInv
<1> QED
  BY <1>1, Invariance, PTL

\* A record that was handed out stays allocated until an insert frees it.
THEOREM HeldHolds == Spec => []HeldIsAllocated
<1>1. IInv => HeldIsAllocated
  BY DEF IInv
<1> QED
  BY <1>1, Invariance, PTL

\* A thread reads a freed node only where the head was removed.
LEMMA TouchedIsHead ==
    ASSUME IInv, NEW t \in Threads, TouchFreed(t)
    PROVE  HeadRemoved'
<1>1. fn[t] # "idle" /\ ~undefined /\ cur[t] # NULL /\ cur[t] \notin DOMAIN node
  BY FunctionsAreStrings DEF TouchFreed, Runs, AtNode
<1>2. CASE ~HeadRemoved
  <2>1. IsSorted /\ PlaceStays(t)
    BY <1>1, <1>2 DEF IInv, SortedUntilLost, PlacesStay, Lost
  <2> QED
    BY <1>1, <1>2, <2>1 DEF PlaceStays, IsSorted, HeadRemoved
<1>3. CASE HeadRemoved
  BY <1>3 DEF TouchFreed, listVars, HeadRemoved
<1> QED
  BY <1>2, <1>3

\* Freed memory is read after the removal of the head or through a record's
\* address that outlived an insert, and in no other way.
THEOREM FreedReadOnlyAfterHolds == Spec => FreedReadOnlyAfter
<1> DEFINE Way == HeadRemoved' \/ \E t \in stale : fn[t] = "idle" /\ held'[t] # held[t]
<1>1. ASSUME IInv, [Next]_vars PROVE [undefined' => Way]_vars
  <2> SUFFICES ASSUME Next, undefined' PROVE Way
    BY <1>1
  <2>1. ASSUME NEW t \in Threads, TouchFreed(t) PROVE Way
    BY <1>1, <2>1, TouchedIsHead
  <2>2. ASSUME NEW t \in Threads, RemoveAll(t) PROVE Way
    BY <1>1, <2>2, RemoveAllStep
  <2>3. ASSUME NEW t \in Threads, UseRecord(t) PROVE Way
    <3>1. t \in stale /\ fn[t] = "idle" /\ held'[t] = NULL /\ held[t] # NULL
      BY <1>1, <2>3 DEF UseRecord, Runs, IInv, TypeOK
    <3> QED
      BY <3>1
  <2>4. ASSUME NEW t \in Threads, NEW f \in Functions, NEW i \in Indices, Call(t, f, i)
        PROVE  Way
    BY <2>4 DEF Call
  <2>5. ASSUME NEW t \in Threads, NEW s \in Onoff, Replace(t, s) \/ Link(t, s) PROVE Way
    BY <2>5 DEF Replace, Link, Runs
  <2>6. ASSUME NEW t \in Threads, Walk(t) \/ Scan(t) \/ Remove(t) \/ ChangeData(t) PROVE Way
    BY <2>6 DEF Walk, Scan, Remove, ChangeData, Runs
  <2>7. ASSUME NEW t \in Threads, Toggle(t) \/ Find(t) \/ FindOp(t) \/ NotFound(t) PROVE Way
    BY <2>7 DEF Toggle, Find, FindOp, NotFound, Runs
  <2> HIDE DEF Way
  <2> QED
    BY <2>1, <2>2, <2>3, <2>4, <2>5, <2>6, <2>7 DEF Next, Step
<1> QED
  BY <1>1, Invariance, PTL DEF Spec, FreedReadOnlyAfter

-----------------------------------------------------------------------------
(* The list is a table. *)

\* What is read of nodes with different indices and of their records.
OwnIndices(nodes) == \A m, n \in DOMAIN nodes : m # n => nodes[m].index # nodes[n].index
Rows(nodes) == {nodes[n].index : n \in DOMAIN nodes}

\* A row of the table is the record of the node with its index.
LEMMA RowIsRecord ==
    ASSUME NEW nodes, NEW records, OwnIndices(nodes), NEW n \in DOMAIN nodes
    PROVE  TableOf(nodes, records)[nodes[n].index] = records[nodes[n].datap]
<1>1. nodes[n].index \in Rows(nodes)
  BY DEF Rows
<1>2. (CHOOSE m \in DOMAIN nodes : nodes[m].index = nodes[n].index) = n
  <2>1. \A m \in DOMAIN nodes : nodes[m].index = nodes[n].index <=> m = n
    BY DEF OwnIndices
  <2> QED
    BY <2>1
<1> QED
  BY <1>1, <1>2 DEF TableOf, Rows

\* A function with the same rows is the table.
LEMMA SameRows ==
    ASSUME NEW nodes, NEW records, OwnIndices(nodes), NEW f, f = [i \in Rows(nodes) |-> f[i]],
           \A n \in DOMAIN nodes : f[nodes[n].index] = records[nodes[n].datap]
    PROVE  f = TableOf(nodes, records)
<1> DEFINE g == TableOf(nodes, records)
<1>1. g = [i \in Rows(nodes) |-> g[i]]
  BY DEF TableOf, Rows
<1>2. ASSUME NEW i \in Rows(nodes)
      PROVE  f[i] = g[i]
  <2>1. PICK n \in DOMAIN nodes : i = nodes[n].index
    BY DEF Rows
  <2> HIDE DEF g
  <2> QED
    BY <2>1, RowIsRecord DEF g
<1> HIDE DEF g
<1>3. f = g
  BY <1>1, <1>2
<1> QED
  BY <1>3 DEF g

\* Who has a record that was freed has it from an insert, so until the list is lost
\* there is a node: what is lost with that record is not an empty table.
Served == ~Lost /\ stale # {} => DOMAIN node # {}

MapStep == Map!Next \/ UNCHANGED <<Table, Lost>>

LEMMA NeitherIsLost ==
    ASSUME ~Lost, ~Lost'
    PROVE  UNCHANGED Lost
<1>1. Lost \in BOOLEAN /\ Lost' \in BOOLEAN
  BY DEF Lost
<1> QED
  BY <1>1

\* A whole list as a table.
LEMMA WholeTable ==
    ASSUME IInv, ~Lost
    PROVE  /\ Table = TableOf(node, data) /\ DOMAIN Table = Rows(node)
           /\ OwnIndices(node)
           /\ \A n \in DOMAIN node : /\ Table[node[n].index] = data[node[n].datap]
                                     /\ node[n].index \in Indices
<1>1. Table = TableOf(node, data) /\ DOMAIN Table = Rows(node)
  BY DEF Table, TableOf, Rows
<1>2. OwnIndices(node)
  BY DEF IInv, SortedUntilLost, IsSorted, OwnIndices
<1> QED
  BY <1>1, <1>2, RowIsRecord DEF IInv, TypeOK

\* The list is lost with something in it.
LEMMA LosesTable ==
    ASSUME IInv, ~Lost, Lost', DOMAIN node # {}
    PROVE  MapStep
<1>1. DOMAIN Table # {}
  BY WholeTable DEF Rows
<1>2. Table' = Map!Empty
  BY DEF Table, Nothing, Map!Empty
<1>3. Map!Lose
  BY <1>1, <1>2 DEF Map!Lose
<1> QED
  BY <1>3 DEF MapStep, Map!Next

\* Nodes and records stay as they are.
LEMMA ListUntouched ==
    ASSUME Served, UNCHANGED <<first, node, data, undefined>>, stale' \subseteq stale
    PROVE  MapStep /\ Served'
<1>1. Lost' = Lost
  BY DEF Lost, HeadRemoved
<1>2. Table' = Table
  BY <1>1 DEF Table
<1> QED
  BY <1>1, <1>2 DEF MapStep, Served

\* Call, the loops, and what only reads.
LEMMA ReadersKeepTable ==
    ASSUME IInv, Served, NEW t \in Threads,
           \/ \E f \in Functions, i \in Indices : Call(t, f, i)
           \/ Walk(t) \/ Scan(t) \/ Find(t) \/ FindOp(t) \/ NotFound(t)
    PROVE  MapStep /\ Served'
<1>1. UNCHANGED <<first, node, data, undefined>> /\ stale' \subseteq stale
  BY DEF Call, Walk, Scan, Find, FindOp, NotFound, listVars, heldVars
<1> QED
  BY <1>1, ListUntouched

\* Freed memory is read.
LEMMA UndefinedLoses ==
    ASSUME IInv, Served, NEW t \in Threads, TouchFreed(t) \/ UseRecord(t) \/ RemoveAll(t)
    PROVE  MapStep /\ Served'
<1>1. CASE TouchFreed(t)
  <2>1. HeadRemoved' /\ UNCHANGED <<first, node>>
    BY <1>1, TouchedIsHead DEF TouchFreed, listVars
  <2>2. Lost /\ Lost'
    BY <2>1 DEF Lost, HeadRemoved
  <2> QED
    BY <2>2 DEF MapStep, Table, Served
<1>2. CASE UseRecord(t) /\ t \notin stale
  <2>1. UNCHANGED <<first, node, data>> /\ stale' \subseteq stale
    BY <1>2 DEF UseRecord, listVars
  <2>2. undefined = FALSE /\ undefined' = FALSE
    BY <1>2 DEF UseRecord, Runs, IInv, TypeOK
  <2> QED
    BY <2>1, <2>2, ListUntouched
<1>3. CASE UseRecord(t) /\ t \in stale
  <2>1. Lost'
    BY <1>3 DEF UseRecord, Lost
  <2>2. CASE Lost
    BY <2>1, <2>2 DEF MapStep, Table, Served
  <2>3. CASE ~Lost
    BY <1>3, <2>1, <2>3, LosesTable DEF Served
  <2> QED
    BY <2>2, <2>3
<1>4. CASE RemoveAll(t)
  <2>1. ~Lost /\ DOMAIN node # {}
    <3>1. fn[t] # "idle" /\ ~undefined /\ AtNode(t)
      BY <1>4 DEF RemoveAll, Runs
    <3> QED
      BY <3>1, AtNodeInList DEF AtNode
  <2>2. Lost'
    BY <1>4 DEF RemoveAll, Lost
  <2> QED
    BY <2>1, <2>2, LosesTable DEF Served
<1> QED
  BY <1>1, <1>2, <1>3, <1>4

LEMMA ToggleChangesRow ==
    ASSUME IInv, Served, NEW t \in Threads, Toggle(t)
    PROVE  MapStep /\ Served'
<1> DEFINE c == cur[t]
           k == target[t]
           b == node[c].datap
<1>1. c \in DOMAIN node /\ node[c].index = k /\ fn[t] # "idle" /\ ~undefined /\ AtNode(t)
  BY DEF Toggle, Runs, Found, AtNode
<1>2. ~Lost /\ IsSorted
  BY <1>1, AtNodeInList
<1>3. b \in DOMAIN data
  BY <1>1, RecordAllocated
<1>4. /\ UNCHANGED <<first, node, undefined, stale>>
      /\ data' = [data EXCEPT ![b] = Flip(@)]
  BY DEF Toggle, heldVars
<1>5. ~Lost'
  BY <1>2, <1>4 DEF Lost, HeadRemoved
<1>6. /\ Table = TableOf(node, data) /\ DOMAIN Table = Rows(node) /\ OwnIndices(node)
      /\ \A n \in DOMAIN node : Table[node[n].index] = data[node[n].datap] /\ node[n].index \in Indices
  BY <1>2, WholeTable
<1>7. Table' = TableOf(node, data')
  BY <1>4, <1>5 DEF Table
<1> DEFINE f == [Table EXCEPT ![k] = Flip(@)]
<1>8. f = TableOf(node, data')
  <2>1. k \in Rows(node) /\ Table[k] = data[b]
    BY <1>1, <1>6 DEF Rows
  <2>2. f = [i \in Rows(node) |-> f[i]]
    BY <1>6
  <2>3. ASSUME NEW n \in DOMAIN node
        PROVE  f[node[n].index] = data'[node[n].datap]
    <3>1. node[n].index \in Rows(node) /\ node[n].datap \in DOMAIN data
      BY <1>2 DEF Rows, IsSorted
    <3>2. CASE n = c
      BY <3>2, <2>1, <1>1, <1>3, <1>4, <1>6
    <3>3. CASE n # c
      <4>1. node[n].index # k /\ node[n].datap # b
        BY <3>3, <1>1, <1>2 DEF IsSorted
      <4> QED
        BY <4>1, <3>1, <1>4, <1>6
    <3> QED
      BY <3>2, <3>3
  <2> HIDE DEF f
  <2> QED
    BY <2>2, <2>3, <1>6, SameRows
<1>9. Map!Toggle(k)
  <2>1. k \in DOMAIN Table
    BY <1>1, <1>6 DEF Rows
  <2> QED
    BY <2>1, <1>2, <1>5, <1>7, <1>8, NeitherIsLost DEF Map!Toggle
<1>10. MapStep
  BY <1>1, <1>6, <1>9 DEF MapStep, Map!Next
<1> QED
  BY <1>2, <1>4, <1>10 DEF Served

\* An insert ends: the table has the row (k, s) now, whether or not it had one.
LEMMA RowInserted ==
    ASSUME IInv, ~Lost, ~Lost', NEW k \in Indices, NEW s \in Onoff,
           NEW nodes, nodes = node', NEW records, records = data',
           OwnIndices(nodes), Rows(nodes) = Rows(node) \union {k},
           \A n \in DOMAIN nodes : nodes[n].index = k => records[nodes[n].datap] = s,
           \A n \in DOMAIN nodes : nodes[n].index # k =>
               n \in DOMAIN node /\ node[n].index = nodes[n].index
                 /\ records[nodes[n].datap] = data[node[n].datap]
    PROVE  MapStep
<1> DEFINE f == [j \in DOMAIN Table \union {k} |-> IF j = k THEN s ELSE Table[j]]
<1>1. /\ DOMAIN Table = Rows(node)
      /\ \A n \in DOMAIN node : Table[node[n].index] = data[node[n].datap]
  BY WholeTable
<1>2. f = [i \in Rows(nodes) |-> f[i]]
  BY <1>1
<1>3. ASSUME NEW n \in DOMAIN nodes
      PROVE  f[nodes[n].index] = records[nodes[n].datap]
  <2>1. nodes[n].index \in DOMAIN Table \union {k}
    BY <1>1 DEF Rows
  <2> QED
    BY <2>1, <1>1
<1> HIDE DEF f
<1>4. f = TableOf(nodes, records)
  <2>1. OwnIndices(nodes)
    OBVIOUS
  <2> QED
    BY ONLY <2>1, <1>2, <1>3, SameRows
<1>5. Table' = f
  BY <1>4 DEF Table
<1>6. Map!Insert(k, s)
  BY <1>5, NeitherIsLost DEF Map!Insert, f
<1> QED
  BY <1>6 DEF MapStep, Map!Next

LEMMA ReplaceInserts ==
    ASSUME IInv, Served, NEW t \in Threads, NEW s \in Onoff, Replace(t, s)
    PROVE  MapStep /\ Served'
<1> DEFINE b == Malloc(Blocks, DOMAIN data)
           c == cur[t]
           k == target[t]
           old == node[c].datap
<1>1. /\ fn[t] = "insert" /\ fn[t] # "idle" /\ ~undefined /\ AtNode(t)
      /\ c \in DOMAIN node /\ node[c].index = k
  BY DEF Replace, Runs, Found, AtNode
<1>2. ~Lost /\ IsSorted
  BY <1>1, AtNodeInList
<1>3. b \in Blocks /\ b \notin DOMAIN data /\ k \in Indices
  BY <1>1, MallocIsFree DEF IInv, CallInv, HasMemory, Searching
<1>4. old \in DOMAIN data
  BY <1>1, RecordAllocated
<1> HIDE DEF b, old
<1>5. /\ data' = [a \in (DOMAIN data \union {b}) \ {old} |-> IF a = b THEN s ELSE data[a]]
      /\ node' = [node EXCEPT ![c].datap = b]
      /\ UNCHANGED <<first, undefined>>
  BY <1>3, <1>4 DEF Replace, WithRecord, WithoutRecord, b, old
<1>6. \A n \in DOMAIN node : node[n] \in NodeType
  BY DEF IInv, TypeOK, NodeType
<1> HIDE DEF c, k
<1>7. PICK nodes, records : nodes = node' /\ records = data'
  OBVIOUS
<1>8. /\ DOMAIN nodes = DOMAIN node
      /\ \A n \in DOMAIN node : /\ nodes[n].index = node[n].index
                                /\ nodes[n].datap = IF n = c THEN b ELSE node[n].datap
  BY <1>1, <1>3, <1>5, <1>6, <1>7 DEF NodeType
<1>9. ~Lost'
  BY <1>2, <1>5, <1>7, <1>8 DEF Lost, HeadRemoved
<1>10. OwnIndices(nodes) /\ Rows(nodes) = Rows(node) \union {k}
  <2>1. OwnIndices(nodes)
    BY <1>2, <1>8 DEF OwnIndices, IsSorted
  <2>2. Rows(nodes) = Rows(node)
    BY <1>8 DEF Rows
  <2>3. k \in Rows(node)
    BY <1>1 DEF Rows
  <2> QED
    BY <2>1, <2>2, <2>3
<1>11. records[b] = s
  BY <1>3, <1>4, <1>5, <1>7
<1>12. \A n \in DOMAIN node : n # c =>
          /\ node[n].index # k
          /\ records[node[n].datap] = data[node[n].datap]
  <2> SUFFICES ASSUME NEW n \in DOMAIN node, n # c
               PROVE  node[n].index # k /\ records[node[n].datap] = data[node[n].datap]
    OBVIOUS
  <2>1. node[n].index # k /\ node[n].datap # old /\ node[n].datap \in DOMAIN data
    BY <1>1, <1>2 DEF IsSorted, old
  <2> QED
    BY <2>1, <1>3, <1>5, <1>7
<1>13. MapStep
  <2>1. \A n \in DOMAIN nodes : nodes[n].index = k => records[nodes[n].datap] = s
    BY <1>1, <1>8, <1>11, <1>12
  <2>2. \A n \in DOMAIN nodes : nodes[n].index # k =>
           n \in DOMAIN node /\ node[n].index = nodes[n].index
             /\ records[nodes[n].datap] = data[node[n].datap]
    BY <1>1, <1>8, <1>12
  <2> QED
    BY <2>1, <2>2, <1>2, <1>3, <1>7, <1>9, <1>10, RowInserted
<1> QED
  BY <1>1, <1>7, <1>8, <1>13 DEF Served

\* A walk that found no index ends between two others.
LEMMA LinkIsNew ==
    ASSUME IInv, ~Lost, NEW t \in Threads, Runs(t, {"insert"}), Missing(t), target[t] \in Indices
    PROVE  \A m \in DOMAIN node : node[m].index # target[t]
<1> DEFINE k == target[t]
           c == cur[t]
           p == prev[t]
<1>1. IsSorted /\ PlaceStays(t) /\ fn[t] \in Searching
  BY DEF IInv, SortedUntilLost, PlacesStay, Runs, Searching
<1>2. /\ \A m \in DOMAIN node : node[m].index \in Int
      /\ k \in Int /\ NULL \notin DOMAIN node
  BY AddressesAssumption DEF IInv, TypeOK
<1>3. c = NULL \/ (c \in DOMAIN node /\ node[c].index > k)
  BY DEF Missing, AtNode
<1>4. first # NULL => first \in DOMAIN node
  BY DEF Lost, HeadRemoved
<1> SUFFICES ASSUME NEW m \in DOMAIN node
             PROVE  node[m].index # k
  OBVIOUS
<1>5. CASE c = first
  BY <1>1, <1>2, <1>3, <1>4, <1>5 DEF IsSorted
<1>6. CASE c # first
  <2>1. p \in DOMAIN node /\ c = node[p].nextp /\ node[p].index < k
    BY <1>1, <1>6 DEF PlaceStays
  <2>2. node[p].index < node[m].index => c # NULL /\ node[c].index <= node[m].index
    BY <1>1, <2>1 DEF IsSorted
  <2> QED
    BY <1>2, <1>3, <2>1, <2>2
<1> QED
  BY <1>5, <1>6

LEMMA LinkInserts ==
    ASSUME IInv, Served, NEW t \in Threads, NEW s \in Onoff, Link(t, s)
    PROVE  MapStep /\ Served'
<1> DEFINE a == Malloc(Nodes, DOMAIN node)
           b == Malloc(Blocks, DOMAIN data)
           k == target[t]
<1>1. fn[t] = "insert" /\ fn[t] # "idle" /\ ~undefined
  BY DEF Link, Runs
<1>2. a \in Nodes /\ a \notin DOMAIN node /\ b \notin DOMAIN data /\ k \in Indices
  BY <1>1, MallocIsFree DEF IInv, CallInv, HasMemory, Searching
<1>3. ~HeadRemoved
  BY <1>1 DEF IInv, HeadStaysLost, HeadRemoved, Link, Missing, AtNode
<1>4. ~Lost /\ IsSorted
  BY <1>1, <1>3 DEF Lost, IInv, SortedUntilLost
<1>5. /\ first = NULL <=> DOMAIN node = {}
      /\ \A n \in DOMAIN node : node[n].index \in Int /\ node[n] \in NodeType
      /\ k \in Int
      /\ first # NULL => first \in DOMAIN node
  BY <1>2, <1>3, <1>4, AddressesAssumption DEF IsSorted, IInv, TypeOK, NodeType, HeadRemoved
<1> HIDE DEF a, b
<1>6. /\ data' = WithRecord(b, s)
      /\ node' = [m \in DOMAIN node \union {a} |->
                     IF m = a THEN [index |-> k, datap |-> b, nextp |-> cur[t]]
                     ELSE IF m = prev[t] /\ cur[t] # first THEN [node[m] EXCEPT !.nextp = a]
                     ELSE node[m]]
      /\ first' = IF cur[t] = first THEN a ELSE first
      /\ UNCHANGED <<stale, undefined>>
  BY DEF Link, heldVars, a, b
<1>7. PICK nodes, records : nodes = node' /\ records = data'
  OBVIOUS
<1>8. /\ DOMAIN nodes = DOMAIN node \union {a}
      /\ nodes[a].index = k /\ nodes[a].datap = b
      /\ \A m \in DOMAIN node : nodes[m].index = node[m].index /\ nodes[m].datap = node[m].datap
  BY <1>2, <1>5, <1>6, <1>7 DEF NodeType
<1>9. ~Lost'
  BY <1>1, <1>5, <1>6, <1>7, <1>8 DEF Lost, HeadRemoved
<1>10. \A m \in DOMAIN node : node[m].index # k
  BY <1>2, <1>4, LinkIsNew DEF Link
<1>11. OwnIndices(nodes) /\ Rows(nodes) = Rows(node) \union {k}
  <2>1. OwnIndices(nodes)
    BY <1>4, <1>8, <1>10 DEF OwnIndices, IsSorted
  <2> QED
    BY <2>1, <1>8 DEF Rows
<1>12. /\ records[b] = s
       /\ \A m \in DOMAIN node : records[node[m].datap] = data[node[m].datap]
  BY <1>2, <1>4, <1>6, <1>7 DEF WithRecord, IsSorted
<1>13. MapStep
  <2>1. \A n \in DOMAIN nodes : nodes[n].index = k => records[nodes[n].datap] = s
    BY <1>8, <1>10, <1>12
  <2>2. \A n \in DOMAIN nodes : nodes[n].index # k =>
           n \in DOMAIN node /\ node[n].index = nodes[n].index
             /\ records[nodes[n].datap] = data[node[n].datap]
    BY <1>8, <1>12
  <2> QED
    BY <2>1, <2>2, <1>2, <1>4, <1>7, <1>9, <1>11, RowInserted
<1> QED
  BY <1>7, <1>8, <1>13 DEF Served

\* A node is taken out: its row goes with it, or the whole table if it is the head.
LEMMA UnlinkRemoves ==
    ASSUME IInv, Served, NEW t \in Threads, Remove(t) \/ ChangeData(t)
    PROVE  MapStep /\ Served'
<1> DEFINE c == cur[t]
           k == target[t]
<1>1. /\ fn[t] # "idle" /\ ~undefined /\ AtNode(t)
      /\ c \in DOMAIN node /\ node[c].index = k
      /\ node' = Unlinked(t) /\ UNCHANGED <<first, data, undefined>> /\ stale' \subseteq stale
  BY DEF Remove, ChangeData, Runs, Found, AtNode, heldVars
<1>2. ~Lost /\ IsSorted
  BY <1>1, AtNodeInList
<1>3. first # NULL /\ first \in DOMAIN node
  BY <1>1, <1>2 DEF IsSorted, Lost, HeadRemoved
<1>4. \A n \in DOMAIN node : node[n] \in NodeType
  BY DEF IInv, TypeOK, NodeType
<1> HIDE DEF c, k
<1>5. PICK nodes : nodes = node'
  OBVIOUS
<1>6. /\ DOMAIN nodes = DOMAIN node \ {c}
      /\ \A n \in DOMAIN nodes : nodes[n].index = node[n].index /\ nodes[n].datap = node[n].datap
  BY <1>1, <1>4, <1>5 DEF Unlinked, NodeType, c
<1>7. CASE c = first
  <2>1. Lost'
    BY <1>1, <1>3, <1>5, <1>6, <1>7 DEF Lost, HeadRemoved
  <2> QED
    BY <2>1, <1>2, <1>3, LosesTable DEF Served
<1>8. CASE c # first
  <2>1. ~Lost' /\ first \in DOMAIN nodes
    BY <1>1, <1>2, <1>3, <1>5, <1>6, <1>8 DEF Lost, HeadRemoved
  <2>2. Table' = TableOf(nodes, data)
    BY <2>1, <1>1, <1>5 DEF Table
  <2>3. /\ DOMAIN Table = Rows(node)
        /\ \A n \in DOMAIN node : Table[node[n].index] = data[node[n].datap] /\ node[n].index \in Indices
    BY <1>2, WholeTable
  <2>4. \A n \in DOMAIN node : n # c => node[n].index # k
    BY <1>1, <1>2 DEF IsSorted
  <2>5. Rows(nodes) = Rows(node) \ {k} /\ OwnIndices(nodes)
    <3>1. Rows(nodes) \subseteq Rows(node) \ {k}
      BY <2>4, <1>6 DEF Rows
    <3>2. Rows(node) \ {k} \subseteq Rows(nodes)
      <4> SUFFICES ASSUME NEW n \in DOMAIN node, node[n].index # k
                   PROVE  node[n].index \in Rows(nodes)
        BY DEF Rows
      <4>1. n \in DOMAIN nodes /\ nodes[n].index = node[n].index
        BY <1>1, <1>6
      <4> QED
        BY <4>1 DEF Rows
    <3> QED
      BY <3>1, <3>2, <1>2, <1>6 DEF OwnIndices, IsSorted
  <2> DEFINE f == [j \in DOMAIN Table \ {k} |-> Table[j]]
  <2>6. f = [i \in Rows(nodes) |-> f[i]]
    BY <2>3, <2>5
  <2>7. ASSUME NEW n \in DOMAIN nodes
        PROVE  f[nodes[n].index] = data[nodes[n].datap]
    <3>1. nodes[n].index \in Rows(nodes)
      BY DEF Rows
    <3>2. nodes[n].index \in DOMAIN Table \ {k}
      BY <3>1, <2>3, <2>5
    <3> QED
      BY <3>2, <2>3, <1>6
  <2> HIDE DEF f
  <2>8. f = TableOf(nodes, data)
    BY <2>5, <2>6, <2>7, SameRows
  <2>9. k \in DOMAIN Table /\ DOMAIN Table # {k} /\ k \in Indices
    <3>1. k \in Rows(node) /\ node[first].index \in Rows(node) /\ node[first].index # k
      BY <2>4, <1>1, <1>3, <1>8 DEF Rows
    <3> QED
      BY <3>1, <2>3, <1>1
  <2>10. Map!Remove(k)
    BY <2>1, <2>2, <2>8, <2>9, <1>2, NeitherIsLost DEF Map!Remove, Map!Without, f
  <2>11. MapStep
    BY <2>9, <2>10 DEF MapStep, Map!Next
  <2> QED
    BY <2>1, <2>11, <1>5 DEF Served
<1> QED
  BY <1>7, <1>8

\* Every step of the list is a step of the table, or changes nothing of it.
LEMMA NextIsMapStep ==
    ASSUME IInv, Served, [Next]_vars
    PROVE  MapStep /\ Served'
<1>1. ASSUME NEW t \in Threads,
             \/ \E f \in Functions, i \in Indices : Call(t, f, i)
             \/ Walk(t) \/ Scan(t) \/ Find(t) \/ FindOp(t) \/ NotFound(t)
      PROVE  MapStep /\ Served'
  BY <1>1, ReadersKeepTable
<1>2. ASSUME NEW t \in Threads, TouchFreed(t) \/ UseRecord(t) \/ RemoveAll(t)
      PROVE  MapStep /\ Served'
  BY <1>2, UndefinedLoses
<1>3. ASSUME NEW t \in Threads, NEW s \in Onoff, Replace(t, s) \/ Link(t, s)
      PROVE  MapStep /\ Served'
  BY <1>3, ReplaceInserts, LinkInserts
<1>4. ASSUME NEW t \in Threads, Toggle(t) \/ Remove(t) \/ ChangeData(t)
      PROVE  MapStep /\ Served'
  BY <1>4, ToggleChangesRow, UnlinkRemoves
<1>5. CASE UNCHANGED vars
  BY <1>5, ListUntouched DEF vars, listVars, heldVars
<1> QED
  BY <1>1, <1>2, <1>3, <1>4, <1>5 DEF Next, Step

\* The list implements the table: every call takes effect in one step of it,
\* however the calls of other threads interleave, until the head is removed or
\* freed memory is read.
THEOREM Refinement == Spec => ImplementsMap
<1>1. Init => Map!Init /\ Served
  <2> SUFFICES ASSUME Init PROVE Map!Init /\ Served
    OBVIOUS
  <2>1. ~Lost /\ DOMAIN node = {} /\ stale = {}
    BY DEF Init, Lost, HeadRemoved, Nothing
  <2>2. Table = Nothing
    BY <2>1 DEF Table, TableOf, Nothing
  <2> QED
    BY <2>1, <2>2 DEF Map!Init, Map!Empty, Nothing, Served
<1>2. IInv /\ Served /\ [Next]_vars => [Map!Next]_<<Table, Lost>> /\ Served'
  BY NextIsMapStep DEF MapStep
<1> QED
  BY <1>1, <1>2, Invariance, PTL DEF Spec, ImplementsMap, Map!Spec
=============================================================================
