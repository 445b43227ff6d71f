--------------------------- MODULE MCPublicIndex ----------------------------
(* Version 1 is as old as the project; version 2 may be released later.     *)
EXTENDS PublicIndex, TLC

CONSTANTS l1, l2, r1, d1, d2

MCInitialFiles == {[version |-> 1, uploaded |-> 0]}
MCSymmetry == Permutations({l1, l2}) \cup Permutations({d1, d2})
=============================================================================
