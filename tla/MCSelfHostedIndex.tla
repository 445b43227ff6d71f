------------------------- MODULE MCSelfHostedIndex --------------------------
(* Version 1 is as old as the project; version 2 may be released later.     *)
(* Administrators may turn the advisory check on or off and change its TTL. *)
EXTENDS SelfHostedIndex, TLC

CONSTANTS r1, p1, p2, d1

MCInitialFiles == {[version |-> 1, uploaded |-> 0]}
MCOn == [x \in {p1, p2, d1} |-> r1]
MCDefault == [osv |-> TRUE, ttl |-> 1]
MCSettings == [osv : BOOLEAN, ttl : {1}]
MCSymmetry == Permutations({p1, p2})
=============================================================================
