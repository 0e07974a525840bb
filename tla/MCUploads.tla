------------------------------ MODULE MCUploads ------------------------------
(***************************************************************************)
(* Instances of Uploads for TLC.  Careful users are told apart.            *)
(***************************************************************************)
EXTENDS Uploads, TLC

Symmetry == Permutations(Memories) \cup Permutations(Keys)
                \cup Permutations(Contents) \cup Permutations(Requests)
=============================================================================
