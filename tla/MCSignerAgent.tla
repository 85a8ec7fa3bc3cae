--------------------------- MODULE MCSignerAgent ---------------------------
(* An instance of SignerAgent in which every call has the same target. *)
EXTENDS SignerAgent

CONSTANT CalledTarget

SameTarget == [c \in Calls |-> CalledTarget]
=============================================================================
