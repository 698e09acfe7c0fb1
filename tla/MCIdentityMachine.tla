--------------------------- MODULE MCIdentityMachine ---------------------------
(* Small instances of IdentityMachine for TLC. *)
EXTENDS IdentityMachine, TLC

\* Keys are told apart only by equality.
Symmetry == Permutations(Keys)

LightOnly == {FALSE}
EitherKdf == BOOLEAN
================================================================================
