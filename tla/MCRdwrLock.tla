----------------------------- MODULE MCRdwrLock -----------------------------
(***************************************************************************)
(* Model checking of RdwrLock.  The client's two tasks share the lists; a  *)
(* third and a fourth thread let a signal choose between sleepers.         *)
(***************************************************************************)
EXTENDS RdwrLock

=============================================================================
