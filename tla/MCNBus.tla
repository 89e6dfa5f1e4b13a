------------------------------- MODULE MCNBus -------------------------------
(* Model checking of NBus. *)
EXTENDS NBus
=============================================================================
