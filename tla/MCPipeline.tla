----------------------------- MODULE MCPipeline -----------------------------
(* Small instances of Pipeline.                                             *)
EXTENDS Pipeline, TLC

CONSTANTS a1, a2

\* Every alert has an upgrade path of its own: only the agent clusters.
DistinctPaths == [a \in Alerts |-> a]

\* One bump closes them all.
SharedPath == [a \in Alerts |-> a1]
=============================================================================
