---------------------------- MODULE MCDeployment ----------------------------
(* An execution of the release with one file and one of that with two.     *)
EXTENDS RepositoryTokens

CONSTANTS j1, j2

MCPackaged == [j \in {j1, j2} |-> IF j = j1 THEN 1 ELSE 2]
=============================================================================
