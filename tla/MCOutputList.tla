---------------------------- MODULE MCOutputList ----------------------------
(***************************************************************************)
(* Model checking of OutputList: the threads are alike.                    *)
(***************************************************************************)
EXTENDS OutputList, TLC

ThreadsAlike == Permutations(Threads)

=============================================================================
