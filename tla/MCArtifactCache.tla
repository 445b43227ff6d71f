-------------------------- MODULE MCArtifactCache ---------------------------
(* An artifact, whose digest is part of its key, and a sidecar, whose digest *)
(* a listing may change.                                                     *)
EXTENDS ArtifactCache

CONSTANTS artifact, sidecar, b1, b2, r1, r2, here, there

MCPublished == [k \in Key |-> IF k = artifact THEN {b1} ELSE {b1, b2}]
=============================================================================
