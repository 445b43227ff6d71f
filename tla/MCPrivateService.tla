-------------------------- MODULE MCPrivateService --------------------------
(* Two projects, one of them public for ever; two files of the first.       *)
EXTENDS PrivateService, TLC

CONSTANTS app, lib, u1, u2, d1, d2, pypi, mirror

MCName == {app, lib}
MCFile == {"app-1.whl", "app-2.whl", "lib-1.whl"}
MCFileName == [f \in MCFile |-> IF f = "lib-1.whl" THEN lib ELSE app]
MCSymmetry == Permutations({u1, u2}) \cup Permutations({d1, d2})
=============================================================================
