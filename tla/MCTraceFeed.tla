----------------------------- MODULE MCTraceFeed -----------------------------
(***************************************************************************)
(* TraceFeed on a small instance: three calls, of which two are retained.  *)
(***************************************************************************)
EXTENDS TraceFeed

CONSTANTS a, b, c

MCCallIds == {a, b, c}
=============================================================================
