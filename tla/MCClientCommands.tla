-------------------------- MODULE MCClientCommands --------------------------
(***************************************************************************)
(* The commands of the checked instances of ClientCommands, named for what *)
(* they are.                                                               *)
(***************************************************************************)
EXTENDS ClientCommands

CONSTANTS lightOn, lightOff, east, pollOne, leave, quit, setTime, light, eastLight

MCOutputs == {light, eastLight}
OneOutput == {light}

MCKindOf == [c \in Commands |->
    CASE c \in {lightOn, lightOff} -> light
      [] c = east -> eastLight
      [] c = pollOne -> "poll"
      [] c = leave -> "disconnect"
      [] c = quit -> "close"
      [] c = setTime -> "other"]

MCTextOf == [c \in Commands |->
    CASE c \in {lightOn, quit} -> "ON"
      [] c \in {lightOff, east} -> "OFF"
      [] OTHER -> "other"]

\* The first queue made since the machine came up has id 0; then there are the
\* ids that one gets after others were there before.
MCLayouts == {[main |-> 0, basic |-> 1], [main |-> 1, basic |-> 2]}
FirstLayout == {[main |-> 0, basic |-> 1]}
============================================================================
