----------------------------- MODULE MCCaseStore -----------------------------
(***************************************************************************)
(* TLC instances of CaseStore: racing workers on one key, or one worker    *)
(* alone on two.                                                           *)
(***************************************************************************)
EXTENDS CaseStore, TLC

Symmetry == Permutations(Workers) \cup Permutations(Ids)
            \cup Permutations(Runs) \cup Permutations(Keys)
=============================================================================
