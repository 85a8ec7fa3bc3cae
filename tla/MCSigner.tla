------------------------------ MODULE MCSigner ------------------------------
(***************************************************************************)
(* Small instances of Signer for TLC.  The calls of a set are alike, so the *)
(* runs that check safety only permute them.                               *)
(***************************************************************************)
EXTENDS Signer, TLC

Symmetry ==
  Permutations(Plain) \cup Permutations(Notes) \cup
  Permutations(Promised) \cup Permutations(Openers)
=============================================================================
