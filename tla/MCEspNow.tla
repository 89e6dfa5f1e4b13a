------------------------------ MODULE MCEspNow ------------------------------
(* Model checking of EspNow. *)
EXTENDS EspNow
=============================================================================
