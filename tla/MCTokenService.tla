--------------------------- MODULE MCTokenService ---------------------------
(***************************************************************************)
(* Instances of TokenService for TLC: model values for users, tokens and   *)
(* requests, interchangeable within each set.                              *)
(***************************************************************************)
EXTENDS TokenService, TLC

Symmetry ==
    Permutations(Users) \cup Permutations(Tokens) \cup Permutations(Requests)
=============================================================================
