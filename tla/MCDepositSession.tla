-------------------------- MODULE MCDepositSession --------------------------
(***************************************************************************)
(* DepositSession for TLC.  The session ids are                            *)
(* interchangeable: nothing orders them.                                   *)
(***************************************************************************)
EXTENDS DepositSession, TLC

Symmetry == Permutations(Sessions)

=============================================================================
