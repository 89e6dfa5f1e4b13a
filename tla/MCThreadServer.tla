--------------------------- MODULE MCThreadServer ---------------------------
(***************************************************************************)
(* Instances of ThreadServer.  w1 is the Windows client, a1 and b1 are two *)
(* other clients, a2 is client A coming back after it failed.              *)
(***************************************************************************)
EXTENDS ThreadServer

CONSTANTS w1, a1, a2, b1

MCClientOf == [c \in Conns |-> CASE c = w1 -> "W" [] c = b1 -> "B" [] OTHER -> "A"]
MCDestOf == [c \in Conns |-> CASE c = w1 -> 0 [] c = b1 -> 2 [] OTHER -> 1]
MCWinConns == Conns \intersect {w1}
MCNames == {"W", "A", "B"}
MCMaxThreads == Cardinality(Conns)
=============================================================================
