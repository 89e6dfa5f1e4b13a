----------------------------- MODULE ConfigFile -----------------------------
(***************************************************************************)
(* The files of cs_client/config_file.c: the outputs (an id byte and one   *)
(* record per index) and the parameters (an id byte, the parameters, the   *)
(* password and an end byte), over crashes of the program that uses them.  *)
(*                                                                         *)
(* A save truncates the file and then writes it item by item; a crash      *)
(* leaves what was written, the last item perhaps in part (Torn).  One     *)
(* program uses the files at a time, so a load, which only reads them, is  *)
(* one step.  No load looks at what read returns: at the end of the file   *)
(* the buffer keeps what it has, Garbage if that was never set.            *)
(*                                                                         *)
(* LoadParams reads into the struct of its caller before it knows that the *)
(* file is whole, and what it returns is the address of its own array:     *)
(* the caller may be handed null, or find there whatever the stack has.    *)
(*                                                                         *)
(* Operators marked "fault" are slips a later change could make; nothing   *)
(* uses them but the runs that show each property would notice.            *)
(***************************************************************************)
EXTENDS Integers, Sequences

CONSTANTS N,          \* NUM_PORT_BITS
          Records,    \* O_DATA
          Params, Passwords,
          Zero,       \* a PARAM_STRUCT after memset
          Begin, End, \* the bytes 0xAA and 0x55
          Garbage, Torn, None

ASSUME SizeAssumption == N \in Nat \ {0}

ASSUME BytesAssumption ==
    /\ Begin # End
    /\ {Begin, End} \cap (Records \union Params \union Passwords
                            \union {Zero, Garbage, Torn, None}) = {}
    /\ {Garbage, Torn, None} \cap (Records \union Params \union Passwords \union {Zero}) = {}
    /\ None \notin {Garbage, Torn}

ASSUME NoFileAssumption == None \notin {"outputs", "params"}

VARIABLES
    outputs, params,   \* the two files: None, or the items in them
    list,              \* the program's outputs: oll, or the array of a program that has one
    target, todo,      \* the save in progress: which file, and what is left to write
    ps,                \* the program's PARAM_STRUCT
    loaded, returned,  \* LoadParams just reported success, and what its pointer shows
    intent,            \* history: the items of the last save of each file
    kept               \* history: the outputs that the last save was called with

files == <<outputs, params>>
saving == <<target, todo>>
caller == <<ps, loaded, returned>>
history == <<intent, kept>>
vars == <<files, list, saving, caller, history>>

Index == 0..N-1
Stored == Records \union {Garbage, Torn}

NoList == [i \in Index |-> None]

Init ==
    /\ outputs = None /\ params = None
    /\ list = NoList
    /\ target = None /\ todo = <<>>
    /\ ps = Garbage /\ loaded = FALSE /\ returned = None
    /\ intent = [outputs |-> <<>>, params |-> <<>>]
    /\ kept = NoList

Ready == target = None

\* Any call but LoadParams, and any change the program makes itself.
NotLoaded == loaded' = FALSE /\ returned' = None

\* open with O_TRUNC, for the items of a save.
Open(file, items) ==
    /\ target' = file /\ todo' = items
    /\ IF file = "outputs" THEN outputs' = <<>> /\ UNCHANGED params
                           ELSE params' = <<>> /\ UNCHANGED outputs
    /\ intent' = [intent EXCEPT ![file] = items]
    /\ NotLoaded

\* olWriteConfig: one write per index, of what find_data returns for it.
Present(r) == r # None
ListItems == <<Begin>> \o [k \in 1..N |-> list[k - 1]]
OlWriteConfig ==
    /\ Ready /\ Open("outputs", ListItems)
    /\ kept' = list
    /\ UNCHANGED <<list, ps>>

\* oWriteConfig: an array has every index, though it may never have been set.
AsArray == [i \in Index |-> IF Present(list[i]) THEN list[i] ELSE Garbage]
ArrayItems == <<Begin>> \o [k \in 1..N |-> AsArray[k - 1]]
OWriteConfig ==
    /\ Ready /\ Open("outputs", ArrayItems)
    /\ kept' = AsArray
    /\ UNCHANGED <<list, ps>>

PasswordFirst(p, pw) == <<Begin, pw, p, End>>  \* fault: not the order of LoadParams
ParamItems(p, pw) == <<Begin, p, pw, End>>
WriteParams(pw) ==
    /\ Ready /\ Open("params", ParamItems(ps, pw))
    /\ UNCHANGED <<list, kept, ps>>

\* Of an index that is not in the list find_data returns no record, write fails,
\* and the next record takes its place in the file.
Written(file, item) == IF Present(item) THEN Append(file, item) ELSE file
WriteItem ==
    /\ ~Ready /\ todo # <<>>
    /\ todo' = Tail(todo)
    /\ IF target = "outputs"
       THEN outputs' = Written(outputs, Head(todo)) /\ UNCHANGED params
       ELSE params' = Written(params, Head(todo)) /\ UNCHANGED outputs
    /\ UNCHANGED <<target, list, caller, history>>

Close ==
    /\ ~Ready /\ todo = <<>>
    /\ target' = None
    /\ UNCHANGED <<files, todo, list, caller, history>>

\* read(fp,&id,1): id is not set before, and may hold anything.
IdIs(file, byte) == file # <<>> => file[1] = byte
IdIsNot(file, byte) == file # <<>> => file[1] # byte

\* olLoadConfig: one buffer for all the records, inserted at every index.  Refusing
\* a file that is not there, or that has another id, changes nothing.
ReadFromId(k) == LET last == Len(outputs)  \* fault: the id byte was not read
                 IN  IF last = 0 THEN Garbage ELSE outputs[IF k <= last THEN k ELSE last]
Read(k) == LET last == Len(outputs) - 1
           IN  IF last <= 0 THEN Garbage ELSE outputs[1 + IF k <= last THEN k ELSE last]
OlLoadConfig ==
    /\ Ready /\ outputs # None /\ IdIs(outputs, Begin)
    /\ list' = [i \in Index |-> Read(i + 1)]
    /\ NotLoaded
    /\ UNCHANGED <<files, saving, ps, history>>

\* oLoadConfig: one read into the caller's array.
OLoadConfig ==
    /\ Ready /\ outputs # None /\ IdIs(outputs, Begin)
    /\ list' = [i \in Index |-> IF i + 2 <= Len(outputs) THEN outputs[i + 2] ELSE AsArray[i]]
    /\ NotLoaded
    /\ UNCHANGED <<files, saving, ps, history>>

\* LoadParams of a file that is not there: memset, and WriteParams is given the
\* address of its argument: what lies there is written as the parameters.
CreateParams(pw) ==
    /\ Ready /\ params = None
    /\ ps' = Zero
    /\ Open("params", ParamItems(Garbage, pw))
    /\ UNCHANGED <<list, kept>>

EndIgnored == params # <<>>  \* fault: the end byte is not looked at

\* After the password id is read again; a short file leaves 0xAA in it.
EndsWell == Len(params) = 4 /\ params[4] = End

\* The read into the caller's struct, which a short file leaves as it was.
ReadParams == ps' = IF Len(params) >= 2 THEN params[2] ELSE ps

LoadParams ==
    /\ Ready /\ params # None /\ IdIs(params, Begin) /\ EndsWell
    /\ ReadParams
    /\ loaded' = TRUE
    /\ returned' \in Passwords \union {None, Garbage}
    /\ UNCHANGED <<files, list, saving, history>>

\* A bad first byte is found before the read, a bad last one after it.
ParamsRefused ==
    /\ Ready /\ params # None
    /\ \/ IdIsNot(params, Begin) /\ UNCHANGED ps
       \/ IdIs(params, Begin) /\ ~EndsWell /\ ReadParams
    /\ NotLoaded
    /\ UNCHANGED <<files, list, saving, history>>

\* The program sets its parameters.
SetParams(p) ==
    /\ Ready
    /\ ps' = p
    /\ NotLoaded
    /\ UNCHANGED <<files, list, saving, history>>

\* The program changes an output that is there, or an entry of its array.
Change(i, r) ==
    /\ Ready
    /\ list' = [list EXCEPT ![i] = r]
    /\ NotLoaded
    /\ UNCHANGED <<files, saving, ps, history>>

\* What the item that was being written leaves in the file.
Partly(file) == {file} \union (IF todo = <<>> \/ Head(todo) \in {Begin, End, None} THEN {}
                               ELSE {Append(file, Torn)})

Crash ==
    /\ outputs' \in IF target = "outputs" THEN Partly(outputs) ELSE {outputs}
    /\ params' \in IF target = "params" THEN Partly(params) ELSE {params}
    /\ list' = NoList
    /\ target' = None /\ todo' = <<>>
    /\ ps' = Garbage /\ NotLoaded
    /\ UNCHANGED history

Next ==
    \/ OlWriteConfig \/ OWriteConfig
    \/ \E pw \in Passwords : WriteParams(pw) \/ CreateParams(pw)
    \/ WriteItem \/ Close
    \/ OlLoadConfig \/ OLoadConfig
    \/ LoadParams \/ ParamsRefused
    \/ \E p \in Params : SetParams(p)
    \/ \E i \in Index, r \in Records : Change(i, r)
    \/ Crash

Spec == Init /\ [][Next]_vars
-----------------------------------------------------------------------------
(***************************************************************************)
(* Properties.                                                             *)
(***************************************************************************)

Held == Params \union {Zero, Garbage, Torn}
Items == {Begin, End} \union Stored \union Held \union Passwords

TypeOK ==
    /\ outputs \in Seq({Begin} \union Stored) \union {None}
    /\ params \in Seq(Items) \union {None}
    /\ list \in [Index -> Stored \union {None}]
    /\ target \in {None, "outputs", "params"}
    /\ todo \in Seq(Items \union {None})
    /\ ps \in Held
    /\ loaded \in BOOLEAN /\ returned \in Passwords \union {None, Garbage}
    /\ intent \in [{"outputs", "params"} -> Seq(Items \union {None})]
    /\ kept \in [Index -> Stored \union {None}]

\* When LoadParams reports success, the program's parameters are those that the
\* last call of WriteParams was given, and that call got to the end of the file,
\* wherever crashes ended calls before, and whatever a refused load had left in the
\* struct that was saved.  Of the returned password the code promises nothing.
ParamsOfLastWrite ==
    loaded => \E pw \in Passwords : intent.params = <<Begin, ps, pw, End>>

\* A load after a finished save of a list without gaps gives every index its
\* record again.  After an interrupted one an index gets its own record, the
\* record of an earlier index, a torn one, or what was on the stack.
SavedWhole == \A i \in Index : kept[i] # None
OutputsComeBack ==
    [][OlLoadConfig /\ SavedWhole =>
          \A i \in Index : IF outputs = intent.outputs
                          THEN list'[i] = kept[i]
                          ELSE list'[i] \in {kept[j] : j \in 0..i} \union {Garbage, Torn}]_vars

=============================================================================
