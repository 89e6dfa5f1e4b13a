-------------------------- MODULE ConfigFileProofs --------------------------
(***************************************************************************)
(* Proofs about ConfigFile, for any records, parameters, passwords and     *)
(* bytes, any number of outputs, and any number of saves and crashes.      *)
(*                                                                         *)
(* ParamsOfLastWrite speaks of a load; what makes it true is a relation    *)
(* between the file and the save in progress (Halves), and what is left    *)
(* of it when no save is in progress (WhenSaved): a file of the right      *)
(* length that ends with the end byte is the one that was to be written,   *)
(* and what a load may read into the caller's struct is what one holds.    *)
(* The outputs have no end byte: of them only the places are known.        *)
(***************************************************************************)
EXTENDS ConfigFile, TLAPS

CallerTyped ==
    /\ ps \in Held
    /\ loaded \in BOOLEAN /\ returned \in Passwords \union {None, Garbage}

ParamsTyped ==
    /\ params \in Seq(Items) \union {None}
    /\ target \in {None, "outputs", "params"}
    /\ intent = [file \in {"outputs", "params"} |-> intent[file]]

IsSave(items) == \E p \in Held, pw \in Passwords : items = ParamItems(p, pw)

\* What is in the file and what is left to write make up the save.
Halves ==
    /\ intent.params = <<>> \/ IsSave(intent.params)
    /\ target = "params" =>
          /\ params \in Seq(Items) /\ todo \in Seq(Items)
          /\ params \o todo = intent.params

SecondHeld == Len(params) >= 2 => params[2] \in Held
EndIsLast == EndsWell => params = intent.params
WhenSaved == target # "params" /\ params # None => SecondHeld /\ EndIsLast

IInv == CallerTyped /\ ParamsTyped /\ Halves /\ WhenSaved /\ ParamsOfLastWrite
-----------------------------------------------------------------------------
LEMMA MoveOne ==
    ASSUME NEW S, NEW p \in Seq(S), NEW q \in Seq(S), q # <<>>
    PROVE  /\ Append(p, Head(q)) \in Seq(S) /\ Tail(q) \in Seq(S)
           /\ Append(p, Head(q)) \o Tail(q) = p \o q
<1>1. Head(q) \in S /\ Tail(q) \in Seq(S) /\ Len(q) \in Nat /\ Len(q) > 0
  OBVIOUS
<1>2. Append(p, Head(q)) \in Seq(S)
  BY <1>1
<1>3. Append(p, Head(q)) \o Tail(q) = p \o q
  BY <1>1
<1> QED
  BY <1>1, <1>2, <1>3

LEMMA EmptyParts ==
    ASSUME NEW S, NEW q \in Seq(S)
    PROVE  <<>> \in Seq(S) /\ <<>> \o q = q /\ q \o <<>> = q
OBVIOUS

LEMMA NoneIsNoItem == None \notin Items
BY BytesAssumption DEF Items, Stored, Held

LEMMA GarbageHeld == Garbage \in Held /\ Zero \in Held /\ Torn \in Held /\ Params \subseteq Held
BY DEF Held

LEMMA SaveItems ==
    ASSUME NEW its, IsSave(its)
    PROVE  /\ its \in Seq(Items) /\ Len(its) = 4 /\ its[1] = Begin /\ its[4] = End
           /\ its[2] \in Held /\ its[3] \in Passwords
           /\ its = <<Begin, its[2], its[3], End>>
BY DEF IsSave, ParamItems, Items

\* A part of a save, with a torn item behind it, has something held in the second place.
LEMMA PartHeld ==
    ASSUME NEW p \in Seq(Items), NEW q \in Seq(Items), IsSave(p \o q)
    PROVE  /\ Len(p) + Len(q) = 4
           /\ Len(p) >= 2 => p[2] \in Held
           /\ Len(Append(p, Torn)) >= 2 => Append(p, Torn)[2] \in Held
<1>1. Len(p \o q) = 4 /\ (p \o q)[2] \in Held
  BY SaveItems
<1>2. Len(p) \in Nat /\ Len(q) \in Nat /\ Len(p) + Len(q) = 4
  BY <1>1
<1>3. Len(p) >= 2 => p[2] \in Held
  BY <1>1, <1>2
<1>4. Torn \in Items
  BY DEF Items, Stored
<1>5. Len(Append(p, Torn)) = Len(p) + 1
  BY <1>4
<1>6. Len(p) >= 2 => Append(p, Torn)[2] = p[2]
  BY <1>2, <1>4
<1>7. ASSUME Len(p) = 1 PROVE Append(p, Torn)[2] = Torn
  <2>1. Append(p, Torn)[Len(p) + 1] = Torn
    BY <1>4
  <2>2. Len(p) + 1 = 2
    BY ONLY <1>7
  <2> QED
    BY ONLY <2>1, <2>2
<1> QED
  BY <1>2, <1>3, <1>5, <1>6, <1>7, GarbageHeld

\* Where the caller's struct holds what it may, and no load has just succeeded.
LEMMA CallerHolds ==
    ASSUME NotLoaded, ps' \in Held
    PROVE  CallerTyped' /\ ParamsOfLastWrite'
BY DEF NotLoaded, CallerTyped, ParamsOfLastWrite

LEMMA InitHolds == Init => IInv
<1> SUFFICES ASSUME Init PROVE IInv
  OBVIOUS
<1>1. CallerTyped /\ ParamsOfLastWrite
  BY GarbageHeld DEF Init, CallerTyped, ParamsOfLastWrite
<1>2. ParamsTyped /\ Halves /\ WhenSaved
  BY NoFileAssumption DEF Init, ParamsTyped, Halves, WhenSaved
<1> QED
  BY <1>1, <1>2 DEF IInv

\* A save of the outputs leaves the parameters alone.
LEMMA OpenOutputs ==
    ASSUME IInv, NEW items, Ready, Open("outputs", items), UNCHANGED ps
    PROVE  IInv'
<1>1. params' = params /\ target' = "outputs" /\ NotLoaded
  BY DEF Open
<1>2. /\ intent' = [file \in {"outputs", "params"} |-> intent'[file]]
      /\ intent'.params = intent.params
  BY DEF Open, IInv, ParamsTyped
<1>3. target # "params" /\ target' # "params"
  BY <1>1, NoFileAssumption DEF Ready
<1>4. CallerTyped' /\ ParamsOfLastWrite'
  BY <1>1, CallerHolds DEF IInv, CallerTyped
<1>5. ParamsTyped'
  BY <1>1, <1>2 DEF IInv, ParamsTyped
<1>6. Halves' /\ WhenSaved'
  BY <1>1, <1>2, <1>3 DEF IInv, Halves, WhenSaved, SecondHeld, EndIsLast, EndsWell
<1> QED
  BY <1>4, <1>5, <1>6 DEF IInv

LEMMA OpenParams ==
    ASSUME IInv, NEW p \in Held, NEW pw \in Passwords, Ready, Open("params", ParamItems(p, pw)),
           ps' \in Held
    PROVE  IInv'
<1> DEFINE its == ParamItems(p, pw)
<1>1. params' = <<>> /\ target' = "params" /\ todo' = its /\ NotLoaded
  BY DEF Open
<1>2. /\ intent' = [file \in {"outputs", "params"} |-> intent'[file]]
      /\ intent'.params = its
  BY DEF Open, IInv, ParamsTyped
<1>3. IsSave(its)
  BY DEF IsSave
<1> HIDE DEF its
<1>4. its \in Seq(Items) /\ <<>> \in Seq(Items) /\ <<>> \o its = its
  BY <1>3, SaveItems, EmptyParts
<1>5. CallerTyped' /\ ParamsOfLastWrite'
  BY <1>1, CallerHolds
<1>6. ParamsTyped'
  BY <1>1, <1>2, <1>4 DEF ParamsTyped
<1>7. Halves' /\ WhenSaved'
  BY <1>1, <1>2, <1>3, <1>4 DEF Halves, WhenSaved
<1> QED
  BY <1>5, <1>6, <1>7 DEF IInv

LEMMA WriteItemStep == IInv /\ WriteItem => IInv'
<1> SUFFICES ASSUME IInv, WriteItem PROVE IInv'
  OBVIOUS
<1>1. target' = target /\ intent' = intent /\ UNCHANGED <<ps, loaded, returned>>
  BY DEF WriteItem, history, caller
<1>2. CallerTyped' /\ ParamsOfLastWrite'
  BY <1>1 DEF IInv, CallerTyped, ParamsOfLastWrite
<1>3. CASE target = "params"
  <2>1. params' = Written(params, Head(todo)) /\ todo' = Tail(todo)
    BY <1>3 DEF WriteItem
  <2>2. /\ params \in Seq(Items) /\ todo \in Seq(Items) /\ todo # <<>>
        /\ params \o todo = intent.params
    BY <1>3 DEF IInv, Halves, WriteItem
  <2>3. params' = Append(params, Head(todo))
    BY <2>1, <2>2, NoneIsNoItem DEF Written, Present
  <2>4. /\ Append(params, Head(todo)) \in Seq(Items) /\ Tail(todo) \in Seq(Items)
        /\ Append(params, Head(todo)) \o Tail(todo) = params \o todo
    BY <2>2, MoveOne
  <2>5. ParamsTyped' /\ Halves' /\ WhenSaved'
    BY <1>1, <1>3, <2>1, <2>2, <2>3, <2>4 DEF IInv, ParamsTyped, Halves, WhenSaved
  <2> QED
    BY <1>2, <2>5 DEF IInv
<1>4. CASE target # "params"
  <2>1. params' = params
    BY <1>4 DEF IInv, ParamsTyped, WriteItem, Ready
  <2>2. ParamsTyped' /\ Halves' /\ WhenSaved'
    BY <1>1, <1>4, <2>1 DEF IInv, ParamsTyped, Halves, WhenSaved, SecondHeld, EndIsLast, EndsWell
  <2> QED
    BY <1>2, <2>2 DEF IInv
<1> QED
  BY <1>3, <1>4

LEMMA CloseStep == IInv /\ Close => IInv'
<1> SUFFICES ASSUME IInv, Close PROVE IInv'
  OBVIOUS
<1>1. /\ params' = params /\ target' = None /\ intent' = intent /\ todo = <<>>
      /\ UNCHANGED <<ps, loaded, returned>>
  BY DEF Close, files, history, caller
<1>2. CallerTyped' /\ ParamsOfLastWrite'
  BY <1>1 DEF IInv, CallerTyped, ParamsOfLastWrite
<1>3. target' # "params"
  BY <1>1, NoFileAssumption
<1>4. ASSUME target = "params" PROVE SecondHeld /\ EndIsLast
  <2>1. params \in Seq(Items) /\ params \o <<>> = intent.params
    BY <1>1, <1>4 DEF IInv, Halves
  <2>2. params = intent.params
    BY <2>1, EmptyParts
  <2>3. Len(params) >= 2 => IsSave(intent.params)
    BY <2>2 DEF IInv, Halves
  <2> QED
    BY <2>2, <2>3, SaveItems DEF SecondHeld, EndIsLast
<1>5. params # None => SecondHeld /\ EndIsLast
  BY <1>4 DEF IInv, WhenSaved
<1>6. ParamsTyped' /\ Halves' /\ WhenSaved'
  BY <1>1, <1>3, <1>5 DEF IInv, ParamsTyped, Halves, WhenSaved, SecondHeld, EndIsLast, EndsWell
<1> QED
  BY <1>2, <1>6 DEF IInv

\* What a crash leaves ends with the end byte only if nothing was left to write.
LEMMA CrashStep == IInv /\ Crash => IInv'
<1> SUFFICES ASSUME IInv, Crash PROVE IInv'
  OBVIOUS
<1>1. /\ target' = None /\ intent' = intent /\ NotLoaded /\ ps' = Garbage /\ None # "params"
  BY NoFileAssumption DEF Crash, history
<1>2. CallerTyped' /\ ParamsOfLastWrite'
  BY <1>1, CallerHolds, GarbageHeld
<1>3. /\ params' \in Seq(Items) \union {None}
      /\ params' # None => SecondHeld' /\ EndIsLast'
  <2>1. CASE target # "params"
    <3>1. params' = params
      BY <2>1 DEF Crash
    <3> QED
      BY <1>1, <2>1, <3>1 DEF IInv, ParamsTyped, WhenSaved, SecondHeld, EndIsLast, EndsWell
  <2>2. CASE target = "params"
    <3>1. /\ params \in Seq(Items) /\ todo \in Seq(Items) /\ params \o todo = intent.params
          /\ params' \in Partly(params)
      BY <2>2 DEF IInv, Halves, Crash
    <3>2. CASE IsSave(intent.params)
      <4>1. /\ Len(params) + Len(todo) = 4
            /\ Len(params) >= 2 => params[2] \in Held
            /\ Len(Append(params, Torn)) >= 2 => Append(params, Torn)[2] \in Held
        BY <3>1, <3>2, PartHeld
      <4>2. CASE params' = params
        <5>1. Len(params) = 4 => todo = <<>>
          BY <3>1, <4>1
        <5>2. Len(params) = 4 => params = intent.params
          BY <3>1, <5>1, EmptyParts
        <5> QED
          BY <1>1, <3>1, <4>1, <4>2, <5>2 DEF SecondHeld, EndIsLast, EndsWell
      <4>3. CASE params' # params
        <5>1. params' = Append(params, Torn)
          BY <3>1, <4>3 DEF Partly
        <5>2. Torn \in Items /\ Torn # End
          BY ONLY BytesAssumption DEF Items, Stored
        <5>3. params' \in Seq(Items) /\ params'[Len(params')] = Torn
          BY <3>1, <5>1, <5>2
        <5>4. ~EndsWell'
          BY <5>2, <5>3 DEF EndsWell
        <5> QED
          BY <4>1, <5>1, <5>3, <5>4 DEF SecondHeld, EndIsLast
      <4> QED
        BY <4>2, <4>3
    <3>3. CASE intent.params = <<>>
      <4>1. params = <<>> /\ todo = <<>>
        BY <3>1, <3>3
      <4>2. params' = <<>>
        BY <3>1, <4>1 DEF Partly
      <4> QED
        BY <1>1, <3>3, <4>2 DEF SecondHeld, EndIsLast
    <3> QED
      BY <3>2, <3>3 DEF IInv, Halves
  <2> QED
    BY <2>1, <2>2
<1>4. ParamsTyped' /\ Halves' /\ WhenSaved'
  BY <1>1, <1>3 DEF IInv, ParamsTyped, Halves, WhenSaved
<1> QED
  BY <1>2, <1>4 DEF IInv

\* A step that leaves the file of the parameters and its save as they are.
LEMMA Untouched ==
    ASSUME IInv, UNCHANGED <<params, target, todo, intent>>, CallerTyped', ParamsOfLastWrite'
    PROVE  IInv'
<1>1. ParamsTyped' /\ Halves' /\ WhenSaved'
  BY DEF IInv, ParamsTyped, Halves, WhenSaved, SecondHeld, EndIsLast, EndsWell
<1> QED
  BY <1>1 DEF IInv

\* What the read into the caller's struct leaves in it.
LEMMA ReadHeld ==
    ASSUME IInv, Ready, params # None, ReadParams
    PROVE  ps' \in Held
<1>1. SecondHeld
  BY NoFileAssumption DEF IInv, WhenSaved, Ready
<1> QED
  BY <1>1 DEF IInv, CallerTyped, SecondHeld, ReadParams

\* A file that passes is the last save, and what was read of it its parameters.
LEMMA LoadStep == IInv /\ LoadParams => IInv'
<1> SUFFICES ASSUME IInv, LoadParams PROVE IInv'
  OBVIOUS
<1>1. UNCHANGED <<params, target, todo, intent>> /\ target # "params" /\ params # None
  BY NoFileAssumption DEF LoadParams, files, saving, history, Ready
<1>2. params = intent.params /\ Len(params) = 4
  BY <1>1 DEF IInv, WhenSaved, EndIsLast, LoadParams, EndsWell
<1>3. IsSave(params)
  BY <1>2 DEF IInv, Halves
<1>4. params = <<Begin, params[2], params[3], End>> /\ params[3] \in Passwords
  BY <1>3, SaveItems
<1>5. ps' = params[2]
  BY <1>2 DEF LoadParams, ReadParams
<1>6. ParamsOfLastWrite'
  <2>1. intent'.params = <<Begin, ps', params[3], End>>
    BY <1>1, <1>2, <1>4, <1>5
  <2> QED
    BY <1>4, <2>1 DEF ParamsOfLastWrite
<1>7. CallerTyped'
  BY <1>1, ReadHeld DEF LoadParams, CallerTyped
<1> QED
  BY <1>1, <1>6, <1>7, Untouched

LEMMA RefusedStep == IInv /\ ParamsRefused => IInv'
<1> SUFFICES ASSUME IInv, ParamsRefused PROVE IInv'
  OBVIOUS
<1>1. UNCHANGED <<params, target, todo, intent>> /\ NotLoaded /\ Ready /\ params # None
  BY DEF ParamsRefused, files, saving, history
<1>2. ps' \in Held
  BY <1>1, ReadHeld DEF ParamsRefused, IInv, CallerTyped
<1> QED
  BY <1>1, <1>2, CallerHolds, Untouched

THEOREM Invariance == Spec => []IInv
<1>1. IInv /\ [Next]_vars => IInv'
  <2> SUFFICES ASSUME IInv, [Next]_vars PROVE IInv'
    OBVIOUS
  <2> ps \in Held
    BY DEF IInv, CallerTyped
  <2>1. CASE OlWriteConfig \/ OWriteConfig
    BY <2>1, OpenOutputs DEF OlWriteConfig, OWriteConfig
  <2>2. ASSUME NEW pw \in Passwords, WriteParams(pw) PROVE IInv'
    BY <2>2, OpenParams DEF WriteParams
  <2>3. ASSUME NEW pw \in Passwords, CreateParams(pw) PROVE IInv'
    BY <2>3, GarbageHeld, OpenParams DEF CreateParams
  <2>4. CASE WriteItem
    BY <2>4, WriteItemStep
  <2>5. CASE Close
    BY <2>5, CloseStep
  <2>6. CASE OlLoadConfig \/ OLoadConfig
    <3>1. UNCHANGED <<params, target, todo, intent, ps>> /\ NotLoaded
      BY <2>6 DEF OlLoadConfig, OLoadConfig, files, saving, history
    <3> QED
      BY <3>1, CallerHolds, Untouched
  <2>7. CASE LoadParams
    BY <2>7, LoadStep
  <2>8. CASE ParamsRefused
    BY <2>8, RefusedStep
  <2>9. ASSUME NEW p \in Params, SetParams(p) PROVE IInv'
    <3>1. UNCHANGED <<params, target, todo, intent>> /\ NotLoaded /\ ps' \in Held
      BY <2>9, GarbageHeld DEF SetParams, files, saving, history
    <3> QED
      BY <3>1, CallerHolds, Untouched
  <2>10. ASSUME NEW i \in Index, NEW r \in Records, Change(i, r) PROVE IInv'
    <3>1. UNCHANGED <<params, target, todo, intent, ps>> /\ NotLoaded
      BY <2>10 DEF Change, files, saving, history
    <3> QED
      BY <3>1, CallerHolds, Untouched
  <2>11. CASE Crash
    BY <2>11, CrashStep
  <2>12. CASE UNCHANGED vars
    <3>1. UNCHANGED <<params, target, todo, intent, ps, loaded, returned>>
      BY <2>12 DEF vars, files, saving, history, caller
    <3>2. CallerTyped' /\ ParamsOfLastWrite'
      BY <3>1 DEF IInv, CallerTyped, ParamsOfLastWrite
    <3> QED
      BY <3>1, <3>2, Untouched
  <2> QED
    BY <2>1, <2>2, <2>3, <2>4, <2>5, <2>6, <2>7, <2>8, <2>9, <2>10, <2>11, <2>12 DEF Next
<1> QED
  BY <1>1, InitHolds, PTL DEF Spec

\* When LoadParams reports success its caller's struct holds what WriteParams was
\* given last, and that save is whole, whatever crashes and refused loads came
\* between (config_file.c:182, LoadParams and WriteParams).
THEOREM ParamsOfLastWriteHolds == Spec => []ParamsOfLastWrite
<1>1. IInv => ParamsOfLastWrite
  BY DEF IInv
<1> QED
  BY <1>1, Invariance, PTL
-----------------------------------------------------------------------------
(***************************************************************************)
(* The outputs.  What is stored comes after the id (Content) and the save  *)
(* in progress has only records left, once the id is written (Pending).    *)
(* Of a list without gaps the file and what is left make up the save       *)
(* (Whole), so that each record is at the place of its index.              *)
(***************************************************************************)
Rest == Stored \union {None}

Content(file) ==
    /\ file \in Seq({Begin} \union Stored)
    /\ \A k \in 2..Len(file) : file[k] \in Stored

Pending ==
    /\ todo \in Seq({Begin} \union Rest)
    /\ \A k \in 1..Len(todo) : k > 1 \/ outputs # <<>> => todo[k] \in Rest

OutputsTyped ==
    /\ list \in [Index -> Rest] /\ kept \in [Index -> Rest]
    /\ target = "outputs" => Content(outputs) /\ Pending
    /\ target # "outputs" /\ outputs # None => Content(outputs)

OthersTyped ==
    /\ todo \in Seq(Items \union {None})
    /\ intent \in [{"outputs", "params"} -> Seq(Items \union {None})]

\* The places of the records in the file of a list without gaps.
InPlace(items) ==
    /\ items \in Seq({Begin} \union Rest) /\ Len(items) = N + 1 /\ items[1] = Begin
    /\ \A i \in Index : items[i + 2] = kept[i]

Originals(file) ==
    /\ Len(file) <= N + 1
    /\ \A k \in 2..Len(file) : file[k] \in {kept[k - 2], Torn}

Whole ==
    SavedWhole =>
        /\ InPlace(intent.outputs)
        /\ target = "outputs" => outputs \o todo = intent.outputs
        /\ target # "outputs" /\ outputs # None => Originals(outputs)

OutInv == OutputsTyped /\ OthersTyped /\ Whole
-----------------------------------------------------------------------------
LEMMA SmallSets ==
    /\ Stored \subseteq Items /\ Rest \subseteq Items \union {None}
    /\ {Begin} \union Rest \subseteq Items \union {None}
    /\ {Begin} \union Stored \subseteq {Begin} \union Rest
    /\ Begin \notin Rest /\ Begin # None /\ Begin # Torn
BY BytesAssumption DEF Items, Stored, Rest

\* One more item after those that are there.
LEMMA ContentGrows ==
    ASSUME NEW file, Content(file), NEW c \in {Begin} \union Stored,
           file # <<>> => c \in Stored
    PROVE  Content(Append(file, c))
<1>1. file \in Seq({Begin} \union Stored) /\ Len(file) \in Nat
  BY DEF Content
<1>2. Append(file, c) \in Seq({Begin} \union Stored) /\ Len(Append(file, c)) = Len(file) + 1
  BY <1>1
<1>3. ASSUME NEW k \in 2..Len(file) + 1 PROVE Append(file, c)[k] \in Stored
  <2>1. CASE k = Len(file) + 1
    <3>1. file # <<>>
      BY <1>1, <2>1
    <3>2. Append(file, c)[Len(file) + 1] = c
      BY ONLY <1>1, c \in {Begin} \union Stored
    <3> QED
      BY <2>1, <3>1, <3>2
  <2>2. CASE k # Len(file) + 1
    <3>1. k \in 1..Len(file) /\ k \in 2..Len(file)
      BY ONLY <1>1, <2>2, k \in 2..Len(file) + 1
    <3>2. Append(file, c)[k] = file[k]
      BY ONLY <1>1, <3>1, c \in {Begin} \union Stored
    <3> QED
      BY <3>1, <3>2 DEF Content
  <2> QED
    BY <2>1, <2>2
<1> QED
  BY <1>2, <1>3 DEF Content

LEMMA InitOut == Init => OutInv
<1> SUFFICES ASSUME Init PROVE OutInv
  OBVIOUS
<1>1. OutputsTyped
  BY NoFileAssumption DEF Init, OutputsTyped, NoList, Rest
<1>2. OthersTyped
  <2>1. <<>> \in Seq(Items \union {None})
    OBVIOUS
  <2>2. intent \in [{"outputs", "params"} -> Seq(Items \union {None})]
    <3>1. \A S : <<>> \in S => [outputs |-> <<>>, params |-> <<>>] \in [{"outputs", "params"} -> S]
      OBVIOUS
    <3> QED
      BY <2>1, <3>1 DEF Init
  <2> QED
    BY <2>1, <2>2 DEF Init, OthersTyped
<1>3. ~SavedWhole
  BY SizeAssumption DEF Init, SavedWhole, NoList, Index
<1> QED
  BY <1>1, <1>2, <1>3 DEF OutInv, Whole

\* A save of records: the id and one item per index.
LEMMA SaveIsInPlace ==
    ASSUME NEW recs \in [Index -> Rest]
    PROVE  LET items == <<Begin>> \o [k \in 1..N |-> recs[k - 1]]
           IN  /\ items \in Seq({Begin} \union Rest) /\ Len(items) = N + 1 /\ items[1] = Begin
               /\ \A i \in Index : items[i + 2] = recs[i]
               /\ \A k \in 2..Len(items) : items[k] \in Rest
<1> DEFINE tail == [k \in 1..N |-> recs[k - 1]]
           items == <<Begin>> \o tail
<1>1. N \in Nat /\ N # 0
  BY SizeAssumption
<1>2. tail \in Seq({Begin} \union Rest) /\ Len(tail) = N
  <2>1. \A k \in 1..N : k - 1 \in Index
    BY <1>1 DEF Index
  <2>2. tail \in [1..N -> {Begin} \union Rest]
    BY <2>1
  <2> QED
    BY <1>1, <2>2
<1>3. /\ items \in Seq({Begin} \union Rest) /\ Len(items) = N + 1 /\ items[1] = Begin
      /\ \A k \in 1..N : items[k + 1] = tail[k]
  <2> HIDE DEF tail
  <2>1. <<Begin>> \in Seq({Begin} \union Rest) /\ Len(<<Begin>>) = 1 /\ <<Begin>>[1] = Begin
    OBVIOUS
  <2> QED
    BY <1>1, <1>2, <2>1
<1>4. ASSUME NEW i \in Index PROVE items[i + 2] = recs[i]
  <2>1. i + 1 \in 1..N /\ (i + 1) + 1 = i + 2 /\ (i + 1) - 1 = i
    BY <1>1 DEF Index
  <2>2. items[(i + 1) + 1] = tail[i + 1] /\ tail[i + 1] = recs[(i + 1) - 1]
    BY <1>3, <2>1
  <2> QED
    BY <2>1, <2>2
<1>5. ASSUME NEW k \in 2..Len(items) PROVE items[k] \in Rest
  <2>1. k - 2 \in Index /\ (k - 2) + 2 = k
    BY <1>1, <1>3 DEF Index
  <2> QED
    BY <1>4, <2>1
<1> QED
  BY <1>3, <1>4, <1>5

LEMMA OpenOutputsOut ==
    ASSUME OutInv, NEW recs \in [Index -> Rest], Ready, kept' = recs, UNCHANGED list,
           Open("outputs", <<Begin>> \o [k \in 1..N |-> recs[k - 1]])
    PROVE  OutInv'
<1> DEFINE items == <<Begin>> \o [k \in 1..N |-> recs[k - 1]]
<1>1. /\ items \in Seq({Begin} \union Rest) /\ Len(items) = N + 1 /\ items[1] = Begin
      /\ \A i \in Index : items[i + 2] = recs[i]
      /\ \A k \in 2..Len(items) : items[k] \in Rest
  BY SaveIsInPlace
<1>2. /\ outputs' = <<>> /\ target' = "outputs" /\ todo' = items
      /\ intent' = [intent EXCEPT !["outputs"] = items]
  BY DEF Open
<1> HIDE DEF items
<1>3. items \in Seq(Items \union {None})
  BY <1>1, SmallSets
<1>4. OutputsTyped'
  <2>1. Content(<<>>)
    BY DEF Content
  <2>2. Pending'
    <3> SUFFICES ASSUME NEW k \in 1..Len(items), k > 1 PROVE items[k] \in Rest
      BY <1>1, <1>2 DEF Pending
    <3> QED
      BY <1>1
  <2> QED
    BY <1>2, <2>1, <2>2 DEF OutInv, OutputsTyped, Content
<1>5. OthersTyped'
  BY <1>2, <1>3 DEF OutInv, OthersTyped
<1>6. Whole'
  <2>1. intent'.outputs = items
    BY <1>2 DEF OutInv, OthersTyped
  <2>2. <<>> \o items = items
    BY <1>1, EmptyParts
  <2> QED
    BY <1>1, <1>2, <2>1, <2>2 DEF Whole, InPlace
<1> QED
  BY <1>4, <1>5, <1>6 DEF OutInv

LEMMA OpenParamsOut ==
    ASSUME OutInv, NEW p \in Held, NEW pw \in Passwords, Ready,
           Open("params", ParamItems(p, pw)), UNCHANGED <<list, kept>>
    PROVE  OutInv'
<1> DEFINE its == ParamItems(p, pw)
<1>1. its \in Seq(Items \union {None})
  BY DEF ParamItems, Items
<1>2. /\ outputs' = outputs /\ target' = "params" /\ todo' = its
      /\ intent' = [intent EXCEPT !["params"] = its]
  BY DEF Open
<1> HIDE DEF its
<1>3. target # "outputs"
  BY NoFileAssumption DEF Ready
<1>4. intent'.params = its /\ intent'.outputs = intent.outputs
  BY <1>2 DEF OutInv, OthersTyped
<1>5. OutputsTyped'
  BY <1>2, <1>3 DEF OutInv, OutputsTyped, Content
<1>6. OthersTyped'
  <2>1. intent' \in [{"outputs", "params"} -> Seq(Items \union {None})]
    BY <1>1, <1>2 DEF OutInv, OthersTyped
  <2> QED
    BY <1>1, <1>2, <1>4, <2>1 DEF OthersTyped
<1>7. Whole'
  BY <1>2, <1>3, <1>4 DEF OutInv, Whole, SavedWhole, InPlace, Originals
<1> QED
  BY <1>5, <1>6, <1>7 DEF OutInv

\* A step that leaves the file, the save and what it was of.
LEMMA FileKept ==
    ASSUME OutInv, UNCHANGED <<outputs, target, todo, intent, kept>>,
           list' \in [Index -> Rest]
    PROVE  OutInv'
<1>1. OutputsTyped'
  BY DEF OutInv, OutputsTyped, Content, Pending
<1>2. OthersTyped'
  BY DEF OutInv, OthersTyped
<1>3. Whole'
  BY DEF OutInv, Whole, SavedWhole, InPlace, Originals
<1> QED
  BY <1>1, <1>2, <1>3 DEF OutInv

LEMMA LoadsOut ==
    ASSUME IInv, OutInv, OlLoadConfig \/ OLoadConfig \/ LoadParams \/ ParamsRefused
    PROVE  OutInv'
<1>1. /\ UNCHANGED <<outputs, target, todo, intent, kept>>
      /\ target # "outputs"
  BY NoFileAssumption DEF OlLoadConfig, OLoadConfig, LoadParams, ParamsRefused,
                          files, saving, history, Ready
<1>2. list' \in [Index -> Rest]
  <2>1. CASE OlLoadConfig
    <3>1. outputs # None /\ list' = [i \in Index |-> Read(i + 1)]
      BY <2>1 DEF OlLoadConfig
    <3>2. Content(outputs)
      BY <1>1, <3>1 DEF OutInv, OutputsTyped
    <3> SUFFICES ASSUME NEW i \in Index PROVE Read(i + 1) \in Rest
      BY <3>1
    <3>3. i \in Nat /\ Len(outputs) \in Nat
      BY <3>2, SizeAssumption DEF Index, Content
    <3> QED
      BY <3>2, <3>3 DEF Read, Content, Rest, Stored
  <2>2. CASE OLoadConfig
    <3>1. /\ outputs # None
          /\ list' = [i \in Index |-> IF i + 2 <= Len(outputs) THEN outputs[i + 2] ELSE AsArray[i]]
      BY <2>2 DEF OLoadConfig
    <3>2. Content(outputs)
      BY <1>1, <3>1 DEF OutInv, OutputsTyped
    <3>3. ASSUME NEW i \in Index PROVE AsArray[i] \in Rest
      BY DEF AsArray, OutInv, OutputsTyped, Rest, Stored
    <3>4. ASSUME NEW i \in Index, i + 2 <= Len(outputs) PROVE outputs[i + 2] \in Rest
      BY <3>2, <3>4, SizeAssumption DEF Content, Index, Rest
    <3> QED
      BY <3>1, <3>3, <3>4
  <2>3. CASE LoadParams \/ ParamsRefused
    BY <2>3 DEF LoadParams, ParamsRefused, OutInv, OutputsTyped
  <2> QED
    BY <2>1, <2>2, <2>3
<1> QED
  BY <1>1, <1>2, FileKept

\* An id or a record goes from what is left to the file, or a gap is left out.
LEMMA WriteItemOut == IInv /\ OutInv /\ WriteItem => OutInv'
<1> SUFFICES ASSUME IInv, OutInv, WriteItem PROVE OutInv'
  OBVIOUS
<1>1. /\ todo # <<>> /\ todo' = Tail(todo)
      /\ UNCHANGED <<target, list, intent, kept>>
  BY DEF WriteItem, history
<1>2. Tail(todo) \in Seq(Items \union {None})
  BY <1>1 DEF OutInv, OthersTyped
<1>3. OthersTyped'
  BY <1>1, <1>2 DEF OutInv, OthersTyped
<1>4. CASE target # "outputs"
  <2>1. outputs' = outputs
    BY <1>4 DEF WriteItem
  <2>2. OutputsTyped'
    BY <1>1, <1>4, <2>1 DEF OutInv, OutputsTyped, Content
  <2>3. Whole'
    BY <1>1, <1>4, <2>1 DEF OutInv, Whole, SavedWhole, InPlace, Originals
  <2> QED
    BY <1>3, <2>2, <2>3 DEF OutInv
<1>5. CASE target = "outputs"
  <2> DEFINE h == Head(todo)
  <2>1. outputs' = Written(outputs, h)
    BY <1>5 DEF WriteItem
  <2>2. Content(outputs) /\ Pending
    BY <1>5 DEF OutInv, OutputsTyped
  <2>3. /\ outputs \in Seq({Begin} \union Stored) /\ outputs \in Seq({Begin} \union Rest)
        /\ todo \in Seq({Begin} \union Rest)
    BY <2>2, SmallSets DEF Content, Pending
  <2>4. /\ Len(todo) \in Nat /\ Len(todo) > 0 /\ h = todo[1]
        /\ Tail(todo) \in Seq({Begin} \union Rest) /\ Len(Tail(todo)) = Len(todo) - 1
        /\ \A k \in 1..Len(Tail(todo)) : Tail(todo)[k] = todo[k + 1]
    BY <1>1, <2>3
  <2>5. \A k \in 1..Len(Tail(todo)) : Tail(todo)[k] \in Rest
    <3> SUFFICES ASSUME NEW k \in 1..Len(Tail(todo)) PROVE Tail(todo)[k] \in Rest
      OBVIOUS
    <3>1. k + 1 \in 1..Len(todo) /\ k + 1 > 1
      BY <2>4
    <3> QED
      BY <2>2, <2>4, <3>1 DEF Pending
  <2>6. h \in {Begin} \union Rest /\ (outputs # <<>> => h \in Rest)
    BY <2>2, <2>3, <2>4 DEF Pending
  <2> HIDE DEF h
  <2>7. Content(outputs')
    <3>1. CASE h = None
      BY <2>1, <2>2, <3>1 DEF Written, Present
    <3>2. CASE h # None
      <4>1. outputs' = Append(outputs, h) /\ h \in {Begin} \union Stored
        BY <2>1, <2>6, <3>2 DEF Written, Present, Rest
      <4>2. outputs # <<>> => h \in Stored
        BY ONLY <2>6, <3>2 DEF Rest
      <4> QED
        BY ONLY <2>2, <4>1, <4>2, ContentGrows
    <3> QED
      BY <3>1, <3>2
  <2>8. OutputsTyped'
    BY <1>1, <1>5, <2>4, <2>5, <2>7 DEF OutInv, OutputsTyped, Pending, Content
  <2>9. Whole'
    <3> SUFFICES ASSUME SavedWhole
                 PROVE  InPlace(intent.outputs) /\ outputs' \o todo' = intent.outputs
      BY <1>1, <1>5 DEF Whole, SavedWhole, InPlace
    <3>1. InPlace(intent.outputs) /\ outputs \o todo = intent.outputs
      BY <1>5 DEF OutInv, Whole
    <3>2. h # None
      <4>1. /\ Len(outputs) \in Nat /\ Len(outputs) + Len(todo) = N + 1
            /\ intent.outputs[Len(outputs) + 1] = h
        <5>1. Len(intent.outputs) = N + 1
          BY ONLY <3>1 DEF InPlace
        <5>2. /\ Len(outputs) \in Nat /\ Len(outputs \o todo) = Len(outputs) + Len(todo)
              /\ (outputs \o todo)[Len(outputs) + 1] = todo[1]
          <6>1. /\ Len(outputs \o todo) = Len(outputs) + Len(todo)
                /\ \A k \in 1..Len(outputs) + Len(todo) : (outputs \o todo)[k] =
                      IF k <= Len(outputs) THEN outputs[k] ELSE todo[k - Len(outputs)]
            BY ONLY <2>3
          <6>2. Len(outputs) \in Nat
            BY ONLY <2>3
          <6>3. /\ Len(outputs) + 1 \in 1..Len(outputs) + Len(todo)
                /\ ~(Len(outputs) + 1 <= Len(outputs)) /\ (Len(outputs) + 1) - Len(outputs) = 1
            BY ONLY <2>4, <6>2
          <6> QED
            BY ONLY <6>1, <6>2, <6>3
        <5> QED
          BY ONLY <2>4, <3>1, <5>1, <5>2
      <4>2. CASE Len(outputs) = 0
        BY <3>1, <4>1, <4>2, SmallSets DEF InPlace
      <4>3. CASE Len(outputs) # 0
        <5>1. Len(outputs) - 1 \in Index /\ (Len(outputs) - 1) + 2 = Len(outputs) + 1
          BY <2>4, <4>1, <4>3, SizeAssumption DEF Index
        <5>2. intent.outputs[(Len(outputs) - 1) + 2] = kept[Len(outputs) - 1]
          BY <3>1, <5>1 DEF InPlace
        <5> QED
          BY <4>1, <5>1, <5>2 DEF SavedWhole
      <4> QED
        BY <4>2, <4>3
    <3>3. outputs' = Append(outputs, Head(todo))
      BY <2>1, <3>2 DEF Written, Present, h
    <3>4. Append(outputs, Head(todo)) \o Tail(todo) = outputs \o todo
      BY <1>1, <2>3, MoveOne
    <3> QED
      BY <1>1, <3>1, <3>3, <3>4
  <2> QED
    BY <1>3, <2>8, <2>9 DEF OutInv
<1> QED
  BY <1>4, <1>5

\* A prefix of a save has its records in their places.
LEMMA PrefixIsOriginal ==
    ASSUME NEW p \in Seq({Begin} \union Rest), NEW q \in Seq({Begin} \union Rest),
           InPlace(p \o q)
    PROVE  Originals(p) /\ (q # <<>> => Originals(Append(p, Torn)))
<1>1. /\ Len(p) \in Nat /\ Len(q) \in Nat /\ Len(p) + Len(q) = N + 1
      /\ \A k \in 1..Len(p) : (p \o q)[k] = p[k]
  BY DEF InPlace
<1>2. ASSUME NEW k \in 2..Len(p) PROVE p[k] = kept[k - 2]
  <2>1. k - 2 \in Index /\ (k - 2) + 2 = k
    BY <1>1, SizeAssumption DEF Index
  <2>2. (p \o q)[(k - 2) + 2] = kept[k - 2]
    BY <2>1 DEF InPlace
  <2> QED
    BY <1>1, <2>1, <2>2
<1>3. Originals(p)
  BY <1>1, <1>2 DEF Originals
<1>4. ASSUME q # <<>> PROVE Originals(Append(p, Torn))
  <2>1. Len(q) > 0
    BY <1>4
  <2>2. Len(Append(p, Torn)) = Len(p) + 1
    OBVIOUS
  <2>3. \A k \in 2..Len(p) + 1 : Append(p, Torn)[k] \in {kept[k - 2], Torn}
    BY <1>1, <1>2
  <2> QED
    BY <1>1, <2>1, <2>2, <2>3 DEF Originals
<1> QED
  BY <1>3, <1>4

LEMMA CloseOut == OutInv /\ Close => OutInv'
<1> SUFFICES ASSUME OutInv, Close PROVE OutInv'
  OBVIOUS
<1>1. /\ UNCHANGED <<outputs, todo, list, intent, kept>>
      /\ target' # "outputs" /\ todo = <<>>
  BY NoFileAssumption DEF Close, files, history
<1>2. OutputsTyped'
  BY <1>1 DEF OutInv, OutputsTyped, Content
<1>3. OthersTyped'
  BY <1>1 DEF OutInv, OthersTyped
<1>4. Whole'
  <2>1. CASE target = "outputs" /\ SavedWhole
    <3>1. outputs \in Seq({Begin} \union Rest) /\ <<>> \in Seq({Begin} \union Rest)
      BY <2>1, SmallSets DEF OutInv, OutputsTyped, Content
    <3>2. InPlace(outputs \o <<>>) /\ InPlace(intent.outputs)
      BY <1>1, <2>1 DEF OutInv, Whole
    <3>3. Originals(outputs)
      BY <3>1, <3>2, PrefixIsOriginal
    <3> QED
      BY <1>1, <3>2, <3>3 DEF Whole, SavedWhole, InPlace, Originals
  <2>2. CASE ~(target = "outputs" /\ SavedWhole)
    BY <1>1, <2>2 DEF OutInv, Whole, SavedWhole, InPlace, Originals
  <2> QED
    BY <2>1, <2>2
<1> QED
  BY <1>2, <1>3, <1>4 DEF OutInv

LEMMA CrashOut == OutInv /\ Crash => OutInv'
<1> SUFFICES ASSUME OutInv, Crash PROVE OutInv'
  OBVIOUS
<1>1. /\ list' = NoList /\ target' # "outputs" /\ todo' = <<>>
      /\ UNCHANGED <<intent, kept>>
  BY NoFileAssumption DEF Crash, history
<1>2. OthersTyped'
  BY <1>1 DEF OutInv, OthersTyped
<1>3. list' \in [Index -> Rest]
  BY <1>1 DEF NoList, Rest
<1>4. CASE target # "outputs"
  <2>1. outputs' = outputs
    BY <1>4 DEF Crash
  <2>2. OutputsTyped'
    BY <1>1, <1>3, <1>4, <2>1 DEF OutInv, OutputsTyped, Content
  <2>3. Whole'
    BY <1>1, <1>4, <2>1 DEF OutInv, Whole, SavedWhole, InPlace, Originals
  <2> QED
    BY <1>2, <2>2, <2>3 DEF OutInv
<1>5. CASE target = "outputs"
  <2>1. outputs' \in Partly(outputs) /\ Content(outputs) /\ Pending
    BY <1>5 DEF Crash, OutInv, OutputsTyped
  <2>2. /\ outputs \in Seq({Begin} \union Stored) /\ outputs \in Seq({Begin} \union Rest)
        /\ todo \in Seq({Begin} \union Rest)
    BY <2>1, SmallSets DEF Content, Pending
  <2>3. outputs' = outputs \/ (/\ outputs' = Append(outputs, Torn)
                             /\ todo # <<>> /\ Head(todo) # Begin)
    BY <2>1 DEF Partly
  <2>4. Content(outputs')
    <3>1. Torn \in Stored
      BY DEF Stored
    <3>2. Content(Append(outputs, Torn))
      BY ONLY <2>1, <3>1, ContentGrows
    <3> QED
      BY ONLY <2>1, <2>3, <3>2
  <2>5. OutputsTyped'
    BY <1>1, <1>3, <2>4 DEF OutInv, OutputsTyped, Content
  <2>6. Whole'
    <3> SUFFICES ASSUME SavedWhole
                 PROVE  InPlace(intent.outputs) /\ Originals(outputs')
      BY <1>1 DEF Whole, SavedWhole, InPlace, Originals
    <3>1. InPlace(intent.outputs) /\ outputs \o todo = intent.outputs
      BY <1>5 DEF OutInv, Whole
    <3>2. Originals(outputs) /\ (todo # <<>> => Originals(Append(outputs, Torn)))
      BY <2>2, <3>1, PrefixIsOriginal
    <3> QED
      BY <2>3, <3>1, <3>2
  <2> QED
    BY <1>2, <2>5, <2>6 DEF OutInv
<1> QED
  BY <1>4, <1>5

LEMMA OutInvariance == Spec => []OutInv
<1>1. IInv /\ OutInv /\ [Next]_vars => OutInv'
  <2> SUFFICES ASSUME IInv, OutInv, [Next]_vars PROVE OutInv'
    OBVIOUS
  <2>1. CASE OlWriteConfig
    <3>1. list \in [Index -> Rest]
      BY DEF OutInv, OutputsTyped
    <3> QED
      BY <2>1, <3>1, OpenOutputsOut DEF OlWriteConfig, ListItems
  <2>2. CASE OWriteConfig
    <3>1. AsArray \in [Index -> Rest]
      BY DEF AsArray, OutInv, OutputsTyped, Rest, Stored
    <3> QED
      BY <2>2, <3>1, OpenOutputsOut DEF OWriteConfig, ArrayItems
  <2>3. ASSUME NEW pw \in Passwords, WriteParams(pw) PROVE OutInv'
    <3>1. ps \in Held
      BY DEF IInv, CallerTyped
    <3> QED
      BY <2>3, <3>1, OpenParamsOut DEF WriteParams
  <2>4. ASSUME NEW pw \in Passwords, CreateParams(pw) PROVE OutInv'
    BY <2>4, GarbageHeld, OpenParamsOut DEF CreateParams
  <2>5. CASE WriteItem
    BY <2>5, WriteItemOut
  <2>6. CASE Close
    BY <2>6, CloseOut
  <2>7. CASE OlLoadConfig \/ OLoadConfig \/ LoadParams \/ ParamsRefused
    BY <2>7, LoadsOut
  <2>11. ASSUME NEW p \in Params, SetParams(p) PROVE OutInv'
    <3>1. UNCHANGED <<outputs, target, todo, intent, kept, list>>
      BY <2>11 DEF SetParams, files, saving, history
    <3> QED
      BY <3>1, FileKept DEF OutInv, OutputsTyped
  <2>8. ASSUME NEW i \in Index, NEW r \in Records, Change(i, r) PROVE OutInv'
    <3>1. /\ UNCHANGED <<outputs, target, todo, intent, kept>>
          /\ list' = [list EXCEPT ![i] = r]
      BY <2>8 DEF Change, files, saving, history
    <3>2. list' \in [Index -> Rest]
      BY <3>1 DEF OutInv, OutputsTyped, Rest, Stored
    <3> QED
      BY <3>1, <3>2, FileKept
  <2>9. CASE Crash
    BY <2>9, CrashOut
  <2>10. CASE UNCHANGED vars
    <3>1. UNCHANGED <<outputs, target, todo, intent, kept, list>>
      BY <2>10 DEF vars, files, saving, history
    <3> QED
      BY <3>1, FileKept DEF OutInv, OutputsTyped
  <2> QED
    BY <2>1, <2>2, <2>3, <2>4, <2>5, <2>6, <2>7, <2>8, <2>9, <2>10, <2>11 DEF Next
<1> QED
  BY <1>1, InitOut, Invariance, PTL DEF Spec

\* The files hold ids and records, or parameters, in the order they are written
\* in, and what LoadParams reads into its caller's struct, whether it then refuses
\* the file or not, are parameters and never a password (config_file.c:222).
THEOREM TypeCorrect == Spec => []TypeOK
<1>1. IInv /\ OutInv => TypeOK
  <2> SUFFICES ASSUME IInv, OutInv PROVE TypeOK
    OBVIOUS
  <2>1. outputs \in Seq({Begin} \union Stored) \union {None}
    BY DEF OutInv, OutputsTyped, Content
  <2> QED
    BY <2>1 DEF TypeOK, IInv, CallerTyped, ParamsTyped, OutInv, OutputsTyped, OthersTyped, Rest
<1> QED
  BY <1>1, Invariance, OutInvariance, PTL

\* What olLoadConfig gives an index, after any number of saves, loads and crashes,
\* is its record where the save was finished and its own or an earlier record, a
\* torn one or what was on the stack where it was not (config_file.c:58).
THEOREM OutputsComeBackHolds == Spec => OutputsComeBack
<1> DEFINE Back(i) == IF outputs = intent.outputs
                      THEN list'[i] = kept[i]
                      ELSE list'[i] \in {kept[j] : j \in 0..i} \union {Garbage, Torn}
<1>1. OutInv /\ [Next]_vars => [OlLoadConfig /\ SavedWhole => \A i \in Index : Back(i)]_vars
  <2> SUFFICES ASSUME OutInv, OlLoadConfig, SavedWhole, NEW i \in Index PROVE Back(i)
    OBVIOUS
  <2>1. /\ target # "outputs" /\ outputs # None
        /\ list' = [x \in Index |-> Read(x + 1)]
    BY NoFileAssumption DEF OlLoadConfig, Ready
  <2>2. Content(outputs) /\ Originals(outputs) /\ InPlace(intent.outputs)
    BY <2>1 DEF OutInv, OutputsTyped, Whole
  <2>3. Len(outputs) \in Nat /\ N \in Nat /\ i \in Nat /\ i < N
    BY <2>2, SizeAssumption DEF Content, Index
  <2>4. CASE outputs = intent.outputs
    <3>1. Len(outputs) = N + 1 /\ outputs[i + 2] = kept[i]
      BY <2>2, <2>4 DEF InPlace
    <3>2. Read(i + 1) = outputs[i + 2]
      BY <2>3, <3>1 DEF Read
    <3> QED
      BY <2>1, <2>4, <3>1, <3>2
  <2>5. CASE outputs # intent.outputs
    <3>1. CASE Len(outputs) - 1 <= 0
      BY <2>1, <2>5, <3>1 DEF Read
    <3>2. CASE Len(outputs) - 1 > 0
      <4> DEFINE k == IF i + 1 <= Len(outputs) - 1 THEN i + 1 ELSE Len(outputs) - 1
      <4>1. k - 1 \in 0..i /\ 1 + k \in 2..Len(outputs) /\ (1 + k) - 2 = k - 1
        BY <2>3, <3>2
      <4>2. list'[i] = outputs[1 + k]
        BY <2>1, <2>3, <3>2 DEF Read
      <4> HIDE DEF k
      <4>3. list'[i] \in {kept[k - 1], Torn}
        BY <2>2, <4>1, <4>2 DEF Originals
      <4> QED
        BY <2>5, <4>1, <4>3
    <3> QED
      BY <2>3, <3>1, <3>2
  <2> QED
    BY <2>4, <2>5
<1> QED
  BY <1>1, OutInvariance, PTL DEF Spec, OutputsComeBack

=============================================================================
