----------------------------- MODULE MCUpdates -----------------------------
(***************************************************************************)
(* Instances of Updates for TLC.  One browser, whose old connection stays    *)
(* with the server while it opens the next, is the two clients that matter.  *)
(***************************************************************************)
EXTENDS Updates

CONSTANTS c1, k1, k2, b1, b2
=============================================================================
