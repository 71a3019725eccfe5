-------------------------- MODULE MCMachineEvents --------------------------
(***************************************************************************)
(* TLC instance of MachineEvents.  Requests are interchangeable: nothing   *)
(* orders them.                                                            *)
(***************************************************************************)
EXTENDS MachineEvents, TLC

RequestSymmetry == Permutations(Requests)
=============================================================================
