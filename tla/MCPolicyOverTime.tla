-------------------------- MODULE MCPolicyOverTime --------------------------
(* Three versions, at most three files, uploaded at any time or at none.    *)
EXTENDS PolicyOverTime, FiniteSetsExt

MCFiles == UNION {kSubset(k, [version : Version, uploaded : 0..3 \cup {NoTime}]) : k \in 1..3}
=============================================================================
