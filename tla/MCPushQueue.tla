----------------------------- MODULE MCPushQueue -----------------------------
(* Small instances of PushQueue: one window, two jobs that may cover it.   *)
EXTENDS PushQueue

CONSTANTS k1, k2, p1, p2

MCJobs       == 1..2
MCOneKey     == {k1}
MCPlatformOf == [k \in Keys |-> IF k = k1 THEN p1 ELSE p2]
=============================================================================
