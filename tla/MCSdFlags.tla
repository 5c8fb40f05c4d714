----------------------------- MODULE MCSdFlags -----------------------------
(* The instance of SdFlags with several managers, which are alike.         *)
EXTENDS SdFlags, TLC

Symmetry == Permutations(Managers)
=============================================================================
