-------------------------- MODULE MCExternalActions --------------------------
(***************************************************************************)
(* TLC instance of ExternalActions (and of the Approvals it extends).      *)
(***************************************************************************)
EXTENDS ExternalActions, TLC

Symmetry == Permutations(Executors) \cup Permutations(Operators)
=============================================================================
