---------------------------- MODULE MC_ConflictLog ----------------------------
(* Model values for ConflictLog: two databases of one instance (same       *)
(* system identifier and timeline, different dboid) and a node of another  *)
(* instance, as in spec scenario C.                                        *)
EXTENDS ConflictLog

MCNodeIds == {<<5, 1, 16384>>, <<5, 1, 16390>>, <<9, 1, 16384>>}
MCSelfNode == <<5, 1, 16390>>
MCPeerNode == <<5, 1, 16384>>
=============================================================================
