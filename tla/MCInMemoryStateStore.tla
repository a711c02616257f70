------------------------- MODULE MCInMemoryStateStore -------------------------
(***************************************************************************)
(* InMemoryStateStore on a small instance: two threads, three keys, two of *)
(* them of the family "w" and all of them of the family "".                *)
(***************************************************************************)
EXTENDS InMemoryStateStore

CONSTANTS c1, c2, w1, w2, r1, v1, v2

MCCallers == {c1, c2}
MCKeys == {w1, w2, r1}
MCValues == {v1, v2}
MCPrefixes == {"w", ""}
MCFamily == [p \in MCPrefixes |-> IF p = "w" THEN {w1, w2} ELSE MCKeys]
MCLimits == {0, 1}
=============================================================================
