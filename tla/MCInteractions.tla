-------------------------- MODULE MCInteractions ---------------------------
(***************************************************************************)
(* Instances of Interactions for TLC: users and requests are alike.        *)
(***************************************************************************)
EXTENDS Interactions, TLC

Symmetry == Permutations(Users) \cup Permutations(Requests)
=============================================================================
