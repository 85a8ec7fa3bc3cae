---------------------------- MODULE MCDelegation ----------------------------
(* Symmetry for the run of Delegation: keys and canisters are only compared. *)
EXTENDS Delegation, TLC

Symmetry == Permutations(Keys) \cup Permutations(Canisters)
=============================================================================
