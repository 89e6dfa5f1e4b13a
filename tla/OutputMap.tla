------------------------------ MODULE OutputMap ------------------------------
(***************************************************************************)
(* What the users of the output list rely on: a table from port indices to *)
(* the state of each output, which one call at a time changes.  The list   *)
(* keeps this only as long as nobody removes its first entry: after that   *)
(* the table is lost, and nothing is promised.                             *)
(***************************************************************************)
CONSTANTS Indices, States, Flip(_)

VARIABLES table, lost

Empty == [i \in {} |-> 0]

Init == table = Empty /\ lost = FALSE

Insert(i, s) ==
    /\ ~lost
    /\ table' = [j \in DOMAIN table \union {i} |-> IF j = i THEN s ELSE table[j]]
    /\ UNCHANGED lost

Toggle(i) ==
    /\ ~lost /\ i \in DOMAIN table
    /\ table' = [table EXCEPT ![i] = Flip(@)]
    /\ UNCHANGED lost

Without(i) == [j \in DOMAIN table \ {i} |-> table[j]]

Remove(i) ==
    /\ ~lost /\ i \in DOMAIN table
    /\ DOMAIN table # {i}
    /\ table' = Without(i)
    /\ UNCHANGED lost

Lose ==
    /\ ~lost /\ DOMAIN table # {}
    /\ lost' = TRUE /\ table' = Empty

Next ==
    \/ \E i \in Indices : Toggle(i) \/ Remove(i) \/ \E s \in States : Insert(i, s)
    \/ Lose

Spec == Init /\ [][Next]_<<table, lost>>
=============================================================================
