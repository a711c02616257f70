------------------------------ MODULE MCAsStack ------------------------------
(***************************************************************************)
(* AsStack on a small instance: the TLS transport, two requests and two    *)
(* starts.                                                                 *)
(***************************************************************************)
EXTENDS AsStack

CONSTANTS r1, r2

MCRequests == {r1, r2}
=============================================================================
