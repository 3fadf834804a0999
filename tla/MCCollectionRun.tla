--------------------------- MODULE MCCollectionRun ---------------------------
(* Small instances of CollectionRun: a dispatch asks for two windows, both *)
(* pulled through one platform.                                            *)
EXTENDS CollectionRun

CONSTANTS k1, k2, p1

MCJobs2      == 1..2
MCKeys       == {k1, k2}
MCPlatformOf == [k \in Keys |-> p1]
MCWindows    == <<k1, k2>>
=============================================================================
