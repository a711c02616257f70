---------------------------- MODULE MCObservability ----------------------------
(***************************************************************************)
(* Observability on a small instance: three calls, of which two traces are *)
(* retained, and the messages of one call that may come back to the trunk, *)
(* of which two are retained.                                              *)
(***************************************************************************)
EXTENDS Observability

CONSTANTS a, b, c

MCCallIds == {a, b, c}
MCOriginals == {a}
=============================================================================
