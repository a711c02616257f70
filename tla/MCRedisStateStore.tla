-------------------------- MODULE MCRedisStateStore --------------------------
(***************************************************************************)
(* RedisStateStore on a small instance: two callers, two keys of one       *)
(* family, and a record that JSON turns into another one.  Redis may hold  *)
(* records of both keys from the start, so that two items are enough for a *)
(* trim that drops two of them and for a read behind a write.              *)
(***************************************************************************)
EXTENDS RedisStateStore

CONSTANTS c1, c2, k1, k2, opaque, text

MCCallers == {c1, c2}
MCKeys == {k1, k2}
MCValues == {opaque, text}
MCPrefixes == {"window"}
MCFamily == [p \in MCPrefixes |-> MCKeys]
MCLimits == {0}

\* default=str: a value JSON does not know comes back as its text.
MCJsonOf == [v \in MCValues |-> text]

MCRequests ==
  {[op |-> "read", key |-> k1],
   [op |-> "write", key |-> k1, value |-> opaque],
   [op |-> "trim", key |-> "window", limit |-> 0]}
=============================================================================
