------------------------- MODULE MCAdvisoryRefresh --------------------------
(* Three projects, one of which never gets a scan and one of which may raise *)
(* at every turn; the batch holds two.                                      *)
EXTENDS AdvisoryRefresh

CONSTANTS p1, p2, p3, start
=============================================================================
