--------------------------- MODULE MCCallController ---------------------------
(***************************************************************************)
(* CallController on a small instance: three hops, and every list of one   *)
(* to three of them, so that a hop may be tried twice.                     *)
(***************************************************************************)
EXTENDS CallController, SequencesExt

CONSTANTS h1, h2, h3

MCHops == {h1, h2, h3}
MCHopLists == UNION {[1..n -> MCHops] : n \in 1..3}
=============================================================================
