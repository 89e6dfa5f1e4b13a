----------------------------- MODULE OutputList -----------------------------
(***************************************************************************)
(* The output list of queue/ollist_threads_rw.c: a linked list of nodes    *)
(* sorted by port index, each with a pointer to an O_DATA record, and the  *)
(* calls of several threads on it.                                         *)
(*                                                                         *)
(* Addresses are allocated and freed: node and data are functions whose    *)
(* domains are the addresses in use.  A thread walks the list one node per *)
(* step, so what two threads may do inside the lock at once is visible;    *)
(* the lock itself is RWExclusion, which RdwrLock implements.  A record's  *)
(* address outlives the lock in the caller's variable.                     *)
(*                                                                         *)
(* Reading freed memory has no defined outcome: the model sets undefined   *)
(* and stops there.  Of a record only its state (onoff) is kept.           *)
(*                                                                         *)
(* Operators marked "fault" are slips a later change could make; nothing   *)
(* uses them but the runs that show each property would notice.            *)
(***************************************************************************)
EXTENDS Integers

CONSTANTS Threads,
          Nodes,    \* addresses for ollist_node_t
          Blocks,   \* addresses for O_DATA
          Indices,  \* the indices that callers use
          NULL

ASSUME AddressesAssumption ==
    /\ NULL \notin Nodes /\ NULL \notin Blocks
    /\ Indices \subseteq Int

VARIABLES
    first,             \* llistp->first
    node,              \* allocated nodes: index, datap, nextp
    data,              \* allocated records: onoff
    readers, writers,  \* the threads inside llistp->rwlock
    fn, target,        \* the function a thread is in, and its index
    prev, cur,         \* its locals
    held,              \* the record that it was handed: *datapp
    stale,             \* threads whose record was freed after that
    undefined          \* freed memory was read

listVars == <<first, node, data>>
lockVars == <<readers, writers>>
walkVars == <<fn, target, prev, cur>>
heldVars == <<held, stale>>
vars == <<listVars, lockVars, walkVars, heldVars, undefined>>

Lock == INSTANCE RWExclusion

Nothing == [a \in {} |-> 0]

Onoff == {0, 1}
Flip(s) == IF s = 1 THEN 0 ELSE 1

SharedWriters == {"find", "find_op", "show", "insert"}  \* fault: insert takes the read lock
ReadFunctions == {"find", "find_op", "show"}
WriteFunctions == {"insert", "remove", "removeall", "toggle", "change"}
Functions == ReadFunctions \union WriteFunctions
Searching == {"insert", "remove", "toggle", "change", "find"}  \* stop at an index

Init ==
    /\ first = NULL
    /\ node = Nothing /\ data = Nothing
    /\ Lock!Init
    /\ fn = [t \in Threads |-> "idle"]
    /\ target = [t \in Threads |-> NULL]
    /\ prev = [t \in Threads |-> NULL]
    /\ cur = [t \in Threads |-> NULL]
    /\ held = [t \in Threads |-> NULL]
    /\ stale = {}
    /\ undefined = FALSE

\* Bound: a call of insert begins only while malloc has an address of each kind.
HasMemory == Nodes \ DOMAIN node # {} /\ Blocks \ DOMAIN data # {}

\* An address that is free; which one makes no difference to the list.
Malloc(pool, used) == CHOOSE a \in pool \ used : TRUE

Enter(t, f) == IF f \in ReadFunctions THEN Lock!EnterRead(t) ELSE Lock!EnterWrite(t)
Leave(t, f) == IF f \in ReadFunctions THEN Lock!LeaveRead(t) ELSE Lock!LeaveWrite(t)

\* The head of every function: *datapp = NULL where there is one, the lock,
\* and cur = prev = llistp->first.
Call(t, f, i) ==
    /\ ~undefined /\ fn[t] = "idle"
    /\ f = "insert" => HasMemory
    /\ Enter(t, f)
    /\ fn' = [fn EXCEPT ![t] = f]
    /\ target' = [target EXCEPT ![t] = IF f \in Searching THEN i ELSE NULL]
    /\ prev' = [prev EXCEPT ![t] = first]
    /\ cur' = [cur EXCEPT ![t] = first]
    /\ IF f \in {"find", "find_op", "remove"}
       THEN held' = [held EXCEPT ![t] = NULL] /\ stale' = stale \ {t}
       ELSE UNCHANGED heldVars
    /\ UNCHANGED <<listVars, undefined>>

\* The end of every function: unlock and return.
Return(t) ==
    /\ Leave(t, fn[t])
    /\ fn' = [fn EXCEPT ![t] = "idle"]
    /\ target' = [target EXCEPT ![t] = NULL]
    /\ prev' = [prev EXCEPT ![t] = NULL]
    /\ cur' = [cur EXCEPT ![t] = NULL]

Runs(t, f) == ~undefined /\ fn[t] \in f
AtNode(t) == cur[t] \in DOMAIN node
Found(t) == AtNode(t) /\ node[cur[t]].index = target[t]
Before(t) == AtNode(t) /\ node[cur[t]].index < target[t]
Missing(t) == cur[t] = NULL \/ (AtNode(t) /\ node[cur[t]].index > target[t])

\* The loops that stop at an index move on: prev = cur, cur = cur->nextp.
Walk(t) ==
    /\ Runs(t, Searching) /\ Before(t)
    /\ prev' = [prev EXCEPT ![t] = cur[t]]
    /\ cur' = [cur EXCEPT ![t] = node[cur[t]].nextp]
    /\ UNCHANGED <<listVars, lockVars, fn, target, heldVars, undefined>>

\* show, printfile and find_op look at the record of every node.
Scan(t) ==
    /\ Runs(t, {"show", "find_op"}) /\ AtNode(t)
    /\ prev' = [prev EXCEPT ![t] = cur[t]]
    /\ cur' = [cur EXCEPT ![t] = node[cur[t]].nextp]
    /\ held' = IF fn[t] = "find_op" THEN [held EXCEPT ![t] = node[cur[t]].datap] ELSE held
    /\ stale' = IF fn[t] = "find_op" THEN stale \ {t} ELSE stale
    /\ UNCHANGED <<listVars, lockVars, fn, target, undefined>>

\* Any loop reads a node that is freed.
TouchFreed(t) ==
    /\ Runs(t, Functions) /\ cur[t] # NULL /\ ~AtNode(t)
    /\ undefined' = TRUE
    /\ UNCHANGED <<listVars, lockVars, walkVars, heldVars>>

\* malloc and memcpy of the new record, before the loop.
WithRecord(b, s) == [a \in DOMAIN data \union {b} |-> IF a = b THEN s ELSE data[a]]
WithoutRecord(f, b) == [a \in DOMAIN f \ {b} |-> f[a]]
Holders(b) == {u \in Threads : held[u] = b}

\* fault: the old record is freed and its readers are told nothing of a new one
ReplaceInPlace(t, s) ==
    /\ Runs(t, {"insert"}) /\ Found(t)
    /\ LET b == Malloc(Blocks, DOMAIN data) IN
          /\ data' = WithoutRecord(WithRecord(b, s), node[cur[t]].datap)
          /\ stale' = stale \union Holders(node[cur[t]].datap)
    /\ Return(t)
    /\ UNCHANGED <<first, node, held, undefined>>

\* insert, index found: free(cur->datap); cur->datap = datap.
Replace(t, s) ==
    /\ Runs(t, {"insert"}) /\ Found(t)
    /\ LET b == Malloc(Blocks, DOMAIN data) IN
          /\ data' = WithoutRecord(WithRecord(b, s), node[cur[t]].datap)
          /\ node' = [node EXCEPT ![cur[t]].datap = b]
          /\ stale' = stale \union Holders(node[cur[t]].datap)
    /\ Return(t)
    /\ UNCHANGED <<first, held, undefined>>

\* insert, index not found: a new node between prev and cur.
Link(t, s) ==
    /\ Runs(t, {"insert"}) /\ Missing(t)
    /\ LET n == Malloc(Nodes, DOMAIN node)
           b == Malloc(Blocks, DOMAIN data)
       IN /\ data' = WithRecord(b, s)
          /\ node' = [a \in DOMAIN node \union {n} |->
                         IF a = n THEN [index |-> target[t], datap |-> b, nextp |-> cur[t]]
                         ELSE IF a = prev[t] /\ cur[t] # first THEN [node[a] EXCEPT !.nextp = n]
                         ELSE node[a]]
          /\ first' = IF cur[t] = first THEN n ELSE first
    /\ Return(t)
    /\ UNCHANGED <<heldVars, undefined>>

UnlinkedOnly(t) == [a \in DOMAIN node \ {cur[t]} |-> node[a]]  \* fault: prev is not changed

\* prev->nextp = cur->nextp; free(cur).  Of the head, prev is the head itself:
\* first goes on pointing to it.
Unlinked(t) == [a \in DOMAIN node \ {cur[t]} |->
                  IF a = prev[t] THEN [node[a] EXCEPT !.nextp = node[cur[t]].nextp] ELSE node[a]]

\* remove hands the record to its caller.
Remove(t) ==
    /\ Runs(t, {"remove"}) /\ Found(t)
    /\ held' = [held EXCEPT ![t] = node[cur[t]].datap]
    /\ stale' = stale \ {t}
    /\ node' = Unlinked(t)
    /\ Return(t)
    /\ UNCHANGED <<first, data, undefined>>

\* change_data gives the caller's record to the node and then frees the node;
\* the node's own record stays allocated and nobody's.
ChangeData(t) ==
    /\ Runs(t, {"change"}) /\ Found(t)
    /\ node' = Unlinked(t)
    /\ Return(t)
    /\ UNCHANGED <<first, data, heldVars, undefined>>

ToggleOnward(t) ==  \* fault: no break, and every later index passes too
    /\ Runs(t, {"toggle"}) /\ Found(t)
    /\ data' = [b \in DOMAIN data |->
                  IF \E n \in DOMAIN node : node[n].datap = b /\ node[n].index >= target[t]
                  THEN Flip(data[b]) ELSE data[b]]
    /\ Return(t)
    /\ UNCHANGED <<first, node, heldVars, undefined>>

Toggle(t) ==
    /\ Runs(t, {"toggle"}) /\ Found(t)
    /\ data' = [data EXCEPT ![node[cur[t]].datap] = Flip(@)]
    /\ Return(t)
    /\ UNCHANGED <<first, node, heldVars, undefined>>

FindNode(t) ==  \* fault: hands out the node
    /\ Runs(t, {"find"}) /\ Found(t)
    /\ held' = [held EXCEPT ![t] = cur[t]] /\ stale' = stale \ {t}
    /\ Return(t)
    /\ UNCHANGED <<listVars, undefined>>

\* find and find_ip: the status of find_ip depends on the record, its pointer
\* does not.
Find(t) ==
    /\ Runs(t, {"find"}) /\ Found(t)
    /\ held' = [held EXCEPT ![t] = node[cur[t]].datap] /\ stale' = stale \ {t}
    /\ Return(t)
    /\ UNCHANGED <<listVars, undefined>>

\* find_op compares fields that the model does not keep: it may stop anywhere.
FindOp(t) ==
    /\ Runs(t, {"find_op"}) /\ AtNode(t)
    /\ held' = [held EXCEPT ![t] = node[cur[t]].datap] /\ stale' = stale \ {t}
    /\ Return(t)
    /\ UNCHANGED <<listVars, undefined>>

\* The end of the list, or an index past the wanted one.
NotFound(t) ==
    /\ \/ Runs(t, {"remove", "toggle", "change", "find"}) /\ Missing(t)
       \/ Runs(t, {"show", "find_op", "removeall"}) /\ cur[t] = NULL
    /\ Return(t)
    /\ UNCHANGED <<listVars, heldVars, undefined>>

\* removeall frees the node and reads its nextp to go on.
RemoveAll(t) ==
    /\ Runs(t, {"removeall"}) /\ AtNode(t)
    /\ node' = Unlinked(t)
    /\ undefined' = TRUE
    /\ UNCHANGED <<first, data, lockVars, walkVars, heldVars>>

\* A caller reads the record that it was handed, outside the lock, as
\* olWriteConfig does.
UseRecord(t) ==
    /\ Runs(t, {"idle"}) /\ held[t] # NULL
    /\ held' = [held EXCEPT ![t] = NULL]
    /\ stale' = stale \ {t}
    /\ undefined' = (t \in stale)
    /\ UNCHANGED <<listVars, lockVars, walkVars>>

Step(t) ==
    \/ Walk(t) \/ Scan(t) \/ TouchFreed(t)
    \/ \E s \in Onoff : Replace(t, s) \/ Link(t, s)
    \/ Remove(t) \/ ChangeData(t) \/ Toggle(t) \/ Find(t) \/ FindOp(t)
    \/ NotFound(t) \/ RemoveAll(t)

Next == \E t \in Threads :
    \/ \E f \in Functions, i \in Indices : Call(t, f, i)
    \/ Step(t) \/ UseRecord(t)

Spec == Init /\ [][Next]_vars
-----------------------------------------------------------------------------
(***************************************************************************)
(* Properties.                                                             *)
(***************************************************************************)

TypeOK ==
    /\ first \in Nodes \union {NULL}
    /\ DOMAIN node \subseteq Nodes
    /\ node \in [DOMAIN node -> [index : Indices, datap : Blocks, nextp : Nodes \union {NULL}]]
    /\ DOMAIN data \subseteq Blocks /\ data \in [DOMAIN data -> Onoff]
    /\ readers \subseteq Threads /\ writers \subseteq Threads
    /\ fn \in [Threads -> Functions \union {"idle"}]
    /\ target \in [Threads -> Indices \union {NULL}]
    /\ prev \in [Threads -> Nodes \union {NULL}]
    /\ cur \in [Threads -> Nodes \union {NULL}]
    /\ held \in [Threads -> Blocks \union {NULL}]
    /\ stale \subseteq Threads
    /\ undefined \in BOOLEAN

\* After the removal of the head, first points to a freed node.
HeadRemoved == first # NULL /\ first \notin DOMAIN node
Lost == undefined \/ HeadRemoved

\* Until the head is removed, whatever the calls and their interleaving: the
\* list reaches every node, in strictly increasing order of the indices, and
\* every node has a record of its own (insert keeps the order, remove the links).
IsSorted ==
    /\ first = NULL <=> DOMAIN node = {}
    /\ \A n \in DOMAIN node :
          /\ node[first].index <= node[n].index
          /\ node[n].nextp = NULL \/
                /\ node[n].nextp \in DOMAIN node
                /\ node[n].index < node[node[n].nextp].index
          /\ \A m \in DOMAIN node : node[n].index < node[m].index =>
                /\ node[n].nextp # NULL
                /\ node[node[n].nextp].index <= node[m].index
    /\ \A m, n \in DOMAIN node : m # n =>
          node[m].index # node[n].index /\ node[m].datap # node[n].datap
    /\ \A n \in DOMAIN node : node[n].datap \in DOMAIN data
SortedUntilLost == ~Lost => IsSorted

\* The place between prev and cur that a thread has walked to stays a place in
\* the list until it uses it: no other thread changes the list under it.
PlaceStays(t) ==
    \/ prev[t] = first /\ cur[t] = first
    \/ /\ prev[t] \in DOMAIN node
       /\ cur[t] = node[prev[t]].nextp
       /\ fn[t] \in Searching => node[prev[t]].index < target[t]
PlacesStay == ~Lost => \A t \in Threads : fn[t] # "idle" => PlaceStays(t)

\* A pointer that was handed out and is not stale points to a record.
HeldIsAllocated == \A t \in Threads \ stale : held[t] # NULL => held[t] \in DOMAIN data

\* Freed memory is read in two ways only: through a list whose head was removed,
\* or through a record's address that outlived an insert of another call.  So a
\* loop that walks inside the lock never comes to a freed node otherwise.
FreedReadOnlyAfter ==
    [][undefined' => HeadRemoved' \/ \E t \in stale : fn[t] = "idle" /\ held'[t] # held[t]]_vars

\* The list as a table from indices to states.
TableOf(nodes, records) ==
    [i \in {nodes[n].index : n \in DOMAIN nodes} |->
        records[nodes[CHOOSE n \in DOMAIN nodes : nodes[n].index = i].datap]]
Table == IF Lost THEN Nothing ELSE TableOf(node, data)

Map == INSTANCE OutputMap WITH table <- Table, lost <- Lost, States <- Onoff

\* Seen through its nodes the list is a table that insert, remove and toggle
\* change as their names say, until its head is removed or freed memory is read.
ImplementsMap == Map!Spec

=============================================================================
