--------------------------- MODULE MCCapacityDriver ---------------------------
(***************************************************************************)
(* CapacityDriver on two levels of two calls each, so that calls and       *)
(* workers of the first can outlive it.                                    *)
(***************************************************************************)
EXTENDS CapacityDriver

MCLevels == <<2, 2>>
=============================================================================
