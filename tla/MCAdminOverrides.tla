-------------------------- MODULE MCAdminOverrides --------------------------
(* Three requests about one version; an expiry at every half second.        *)
EXTENDS AdminOverrides, TLC

CONSTANTS r1, r2, r3

MCSymmetry == Permutations({r1, r2, r3})
=============================================================================
