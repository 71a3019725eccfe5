------------------------------ MODULE MCWallet ------------------------------
(***************************************************************************)
(* Wallet and its Reconciliation report for TLC.                           *)
(***************************************************************************)
EXTENDS Reconciliation, TLC

\* Connections, keys, items and references are interchangeable names.
Symmetry == Permutations(Txns) \cup Permutations(Keys) \cup Permutations(Items) \cup Permutations(Refs)
=============================================================================
