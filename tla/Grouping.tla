------------------------------ MODULE Grouping ------------------------------
(***************************************************************************)
(* What the dedup stage may decide, however it came to it: the abstract     *)
(* side of stages/dedup.py.  Pipeline takes any grouping of this kind;      *)
(* Dedup, which models how one is made, is shown to record nothing else.    *)
(*                                                                         *)
(* A grouping sends each pending alert to the one whose verdict it is to    *)
(* have: itself, or the canonical of its cluster.                           *)
(***************************************************************************)
CONSTANTS
  Alerts,            \* alert keys
  UpgradePath        \* [Alerts -> path]: advisory, package, major and target version

\* Cluster ids: one per upgrade path, and "agent:<canonical>".
ClusterIds == ({"path"} \X {UpgradePath[a] : a \in Alerts}) \cup ({"agent"} \X Alerts)

\* Alerts of the stage that share an upgrade path with another one.
Trivial(pending, a) == \E b \in pending \ {a} : UpgradePath[b] = UpgradePath[a]

\* One canonical for every upgrade path that several alerts share, and the
\* clusters the agent, if it is asked, proposes among the others.
Groupings(pending, useAgent) ==
  {canon \in [pending -> pending] :
     \A a, b \in pending :
       /\ canon[canon[a]] = canon[a]
       /\ UpgradePath[a] = UpgradePath[b] => canon[a] = canon[b]
       /\ canon[a] # a =>
            \/ UpgradePath[canon[a]] = UpgradePath[a]
            \/ useAgent /\ ~Trivial(pending, a) /\ ~Trivial(pending, canon[a])}

ClusterId(pending, canon, a) ==
  IF Trivial(pending, a) THEN <<"path", UpgradePath[a]>> ELSE <<"agent", canon[a]>>

Clustered(pending, canon) == {a \in pending : \E b \in pending \ {a} : canon[a] = canon[b]}

\* DedupStage._record, the rows of dedup_clusters: those of earlier passes and
\* runs stay, and a row that is there already is overwritten.
ClusterRows(cluster, pending, canon) ==
  [c \in ClusterIds |-> [a \in Alerts |->
     IF a \in Clustered(pending, canon) /\ c = ClusterId(pending, canon, a)
     THEN IF canon[a] = a THEN "canonical" ELSE "member"
     ELSE cluster[c][a]]]

\* DedupStage._record, the status of the stage row.
DedupStatus(canon, a) == IF canon[a] = a THEN "done" ELSE "skipped"
=============================================================================
