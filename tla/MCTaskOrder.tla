----------------------------- MODULE MCTaskOrder -----------------------------
(* TaskOrder on every listing of up to three tasks and every choice of up to *)
(* MaxEdges dependencies among them, unknown ones and missing ones included. *)
EXTENDS TaskOrder, FiniteSetsExt

CONSTANTS x, y, z, MaxTasks, MaxEdges

MCIds == {x, y, z}
MCListings == UNION {[1..n -> MCIds] : n \in 0..MaxTasks}
MCEdgeSets == UNION {kSubset(k, Edges) : k \in 0..MaxEdges}
=============================================================================
