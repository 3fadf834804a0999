---------------------------- MODULE MCLocalQueue ----------------------------
(* Small instances of LocalQueue: one or two windows, through one platform *)
(* or two, as p1 and p2 are the same or not.                               *)
EXTENDS LocalQueue

CONSTANTS k1, k2, p1, p2

MCJobs       == 1..2
MCOneKey     == {k1}
MCTwoKeys    == {k1, k2}
MCPlatformOf == [k \in Keys |-> IF k = k1 THEN p1 ELSE p2]
=============================================================================
