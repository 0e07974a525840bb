---------------------------- MODULE MCPermissions ----------------------------
(***************************************************************************)
(* Instances of Permissions for TLC.  The author and the owners of circles *)
(* are told apart from other users.                                        *)
(***************************************************************************)
EXTENDS Permissions, TLC

Symmetry ==
    Permutations(Users \ (Owners \cup {Author})) \cup Permutations(Circles)
        \cup Permutations(Requests) \cup Permutations(Shares)
=============================================================================
