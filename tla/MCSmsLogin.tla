----------------------------- MODULE MCSmsLogin -----------------------------
(***************************************************************************)
(* Instances of SmsLogin for TLC.                                          *)
(***************************************************************************)
EXTENDS SmsLogin, TLC

Symmetry ==
    Permutations(Phones) \cup Permutations(OpenIds) \cup Permutations(Requests)
=============================================================================
