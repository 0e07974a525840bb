---------------------------- MODULE MCModeration ----------------------------
(***************************************************************************)
(* Instances of Moderation for TLC.  Users and requests are alike;         *)
(* memories too, where no liveness is checked.                             *)
(***************************************************************************)
EXTENDS Moderation, TLC

Symmetry == Permutations(Users) \cup Permutations(Requests)
                \cup Permutations(Memories)
=============================================================================
