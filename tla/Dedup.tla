-------------------------------- MODULE Dedup --------------------------------
(***************************************************************************)
(* How the dedup stage comes to its clusters, and what is inherited through *)
(* them: stages/dedup.py over dedup/index.py, for one run id that is killed *)
(* and resumed.  A resumed pass clusters only the alerts that are new to    *)
(* the stage, next to the rows of the passes before it.                     *)
(*                                                                         *)
(* Pipeline takes any grouping the stage may decide; here the alerts that   *)
(* share an upgrade path are clustered, the agent is shown the others with  *)
(* their shortlists, and what it answers is checked entry by entry.         *)
(*                                                                         *)
(* Abstractions.  A verdict is the alert it was reasoned about and the one  *)
(* it was inherited from.  An answer is a choice of entries; one that is    *)
(* dropped changes nothing and is not a step.  Of policy and judgment only  *)
(* the rows dedup reads are left.                                           *)
(***************************************************************************)
EXTENDS Naturals, FiniteSets, Grouping

CONSTANTS
  Facts,         \* [Alerts -> what the index reads of an AlertRecord]
  Place,         \* [Alerts -> place of the key in alphabetical order]
  MaxShortlist,  \* MAX_SHORTLIST
  MaxPasses,     \* bound: invocations of the program
  NoAlert

\* major is -1 where the version cannot be read, which here is a value like any
\* other; manifest stands for repository and path.
ASSUME DedupAssumption ==
  /\ IsFiniteSet(Alerts)
  /\ \A a \in Alerts :
       /\ Facts[a].direct \in BOOLEAN /\ Facts[a].cvss \in 0..100
       /\ Place[a] \in Nat
       /\ UpgradePath[a] = <<Facts[a].ghsa, Facts[a].purl, Facts[a].major, Facts[a].patched>>
       /\ \A b \in Alerts : Place[a] = Place[b] => a = b
  /\ MaxShortlist \in Nat /\ MaxPasses \in Nat
  /\ NoAlert \notin Alerts

VARIABLES
  \* the database
  admitted,   \* alerts whose policy row is "done"
  dedup,      \* dedup[a]: status of the dedup row, "none" where there is none
  heir,       \* heir[a]: inherits_from in its payload
  cluster,    \* cluster[c][a]: is_canonical of the dedup_clusters rows
  verdict,    \* verdict[a]: the latest verdict
  \* the process
  pc,
  useAgent,   \* is the agent on in this pass?
  pending,    \* the index: alerts of this pass
  clusters,   \* clusters accepted so far
  clustered,  \* their members
  remaining,  \* alerts the loop has still to ask about
  shown,      \* alerts the question under way shows
  rows,       \* propagate_verdicts: cluster rows still to copy
  passes,
  \* history
  together    \* the sets of alerts the agent was shown together

db == <<admitted, dedup, heir, cluster, verdict>>
memory == <<pending, clusters, clustered, remaining, shown>>
vars == <<db, pc, useAgent, memory, rows, passes, together>>

NoVerdict == [about |-> NoAlert, from |-> NoAlert]

-----------------------------------------------------------------------------
(* dedup/index.py                                                           *)

\* _pick_canonical's rank: direct first, then the worst score, then the key.
Before(a, b) ==
  LET f == Facts[a]  g == Facts[b] IN
  \/ f.direct /\ ~g.direct
  \/ f.direct = g.direct /\ f.cvss > g.cvss
  \/ f.direct = g.direct /\ f.cvss = g.cvss /\ Place[a] < Place[b]

PickCanonical(members) == CHOOSE a \in members : \A b \in members \ {a} : Before(a, b)

SamePath(alerts, a) == {b \in alerts : UpgradePath[b] = UpgradePath[a]}

TrivialClusters(alerts) ==
  {[id |-> <<"path", UpgradePath[a]>>, canonical |-> PickCanonical(SamePath(alerts, a)),
    members |-> SamePath(alerts, a)] : a \in {b \in alerts : Trivial(alerts, b)}}

Score(a, b) ==
  LET f == Facts[a]  g == Facts[b] IN
    (IF f.ghsa = g.ghsa THEN 8 ELSE 0)
  + (IF f.purl = g.purl /\ f.major = g.major THEN 4 ELSE 0)
  + 2 * Cardinality(f.symbols \cap g.symbols)
  + (IF f.manifest = g.manifest THEN 1 ELSE 0)

Outranks(a, b, c) ==
  \/ Score(a, b) > Score(a, c)
  \/ Score(a, b) = Score(a, c) /\ Place[b] < Place[c]

\* InvertedIndex.candidates, the best of those that share anything.
Candidates(alerts, a) ==
  LET sharing == {b \in alerts \ {a} : Score(a, b) > 0} IN
  {b \in sharing : Cardinality({c \in sharing : Outranks(a, c, b)}) < MaxShortlist}

-----------------------------------------------------------------------------
Init ==
  /\ admitted = {}
  /\ dedup = [a \in Alerts |-> "none"]
  /\ heir = [a \in Alerts |-> NoAlert]
  /\ cluster = [c \in ClusterIds |-> [a \in Alerts |-> "none"]]
  /\ verdict = [a \in Alerts |-> NoVerdict]
  /\ pc = "idle" /\ useAgent = FALSE
  /\ pending = {} /\ clusters = {} /\ clustered = {} /\ remaining = {} /\ shown = {}
  /\ rows = {} /\ passes = 0 /\ together = {}

\* Variant: a suppressed alert counts as unfinished.
NeedsDedupUnlessDone(a) == dedup[a] # "done"

\* _needs_dedup, of an alert policy let through; is_stage_complete is "done" or "skipped".
NeedsDedup(a) == dedup[a] \notin {"done", "skipped"}

Forget == pending' = {} /\ clusters' = {} /\ clustered' = {} /\ remaining' = {} /\ shown' = {}

\* An invocation reaches the stage: policy has let more alerts through, and the
\* alerts of one upgrade path are clustered without a question.
Begin ==
  /\ pc = "idle" /\ passes < MaxPasses
  /\ \E new \in SUBSET Alerts : admitted' = admitted \cup new
  /\ pc' = "ask" /\ useAgent' \in BOOLEAN
  /\ pending' = {a \in admitted' : NeedsDedup(a)}
  /\ clusters' = TrivialClusters(pending')
  /\ clustered' = UNION {k.members : k \in clusters'}
  /\ remaining' = IF useAgent' THEN pending' \ clustered' ELSE {}
  /\ passes' = passes + 1
  /\ UNCHANGED <<dedup, heir, cluster, verdict, shown, rows, together>>

-----------------------------------------------------------------------------
(* _agent_clusters.  The order of the loop is the table's, left open.       *)

\* Variant: the index is built before the alerts are filtered.
ShortlistOfAll(a) == Candidates(admitted, a) \ clustered

Shortlist(a) == Candidates(pending, a) \ clustered

\* Somebody took it into a cluster since, or there is nobody to compare it with.
NothingToAsk(a) ==
  /\ pc = "ask" /\ a \in remaining
  /\ a \in clustered \/ Shortlist(a) = {}
  /\ remaining' = remaining \ {a}
  /\ UNCHANGED <<db, pc, useAgent, pending, clusters, clustered, shown, rows, passes, together>>

\* The ledger refuses: no more questions in this pass.
Refuse(a) ==
  /\ pc = "ask" /\ a \in remaining \ clustered /\ Shortlist(a) # {}
  /\ remaining' = {}
  /\ UNCHANGED <<db, pc, useAgent, pending, clusters, clustered, shown, rows, passes, together>>

Ask(a) ==
  /\ pc = "ask" /\ a \in remaining \ clustered /\ Shortlist(a) # {}
  /\ pc' = "answer"
  /\ remaining' = remaining \ {a}
  /\ shown' = Shortlist(a) \cup {a}
  /\ together' = together \cup {shown'}
  /\ UNCHANGED <<db, useAgent, pending, clusters, clustered, rows, passes>>

\* Variants of WellFormed: any alert of the stage may be named; the canonical
\* need not be a member.
WellFormedUnseen(canonical, members) ==
  Cardinality(members) >= 2 /\ canonical \in members /\ members \subseteq pending

WellFormedHeadless(canonical, members) ==
  /\ Cardinality(members) >= 2 /\ canonical \in pending /\ members \subseteq shown

\* _validated_clusters, one entry.  The schema demands names, not that they are known.
WellFormed(canonical, members) ==
  /\ Cardinality(members) >= 2 /\ canonical \in members
  /\ members \subseteq shown

\* An entry of the answer, among alerts no cluster has yet.
Accept(canonical, members) ==
  /\ pc = "answer"
  /\ WellFormed(canonical, members)
  /\ members \cap clustered = {}
  /\ clusters' = clusters \cup
                   {[id |-> <<"agent", canonical>>, canonical |-> canonical, members |-> members]}
  /\ clustered' = clustered \cup members
  /\ UNCHANGED <<db, pc, useAgent, pending, remaining, shown, rows, passes, together>>

\* The entries are through, or the call failed and there were none.
AnswerEnds ==
  /\ pc = "answer"
  /\ pc' = "ask" /\ shown' = {}
  /\ UNCHANGED <<db, useAgent, pending, clusters, clustered, remaining, rows, passes, together>>

-----------------------------------------------------------------------------
ClusterWith(a) == {k \in clusters : a \in k.members}

\* DedupStage._record: one transaction.
Record ==
  /\ pc = "ask" /\ remaining = {}
  /\ cluster' = [c \in ClusterIds |-> [a \in Alerts |->
       IF \E k \in ClusterWith(a) : k.id = c
       THEN IF \E k \in ClusterWith(a) : k.id = c /\ k.canonical = a THEN "canonical" ELSE "member"
       ELSE cluster[c][a]]]
  /\ dedup' = [a \in Alerts |->
       IF a \notin pending THEN dedup[a]
       ELSE IF \E k \in ClusterWith(a) : k.canonical # a THEN "skipped" ELSE "done"]
  /\ heir' = [a \in Alerts |->
       IF \E k \in ClusterWith(a) : k.canonical # a
       THEN (CHOOSE k \in ClusterWith(a) : k.canonical # a).canonical
       ELSE IF a \in pending THEN NoAlert ELSE heir[a]]
  /\ pc' = "judgment"
  /\ Forget
  /\ UNCHANGED <<admitted, verdict, useAgent, rows, passes, together>>

\* Whoever the stage kept is judged, sooner or later or not at all.
Judge(a) ==
  /\ pc = "judgment" /\ dedup[a] = "done" /\ verdict[a] = NoVerdict
  /\ verdict' = [verdict EXCEPT ![a] = [about |-> a, from |-> NoAlert]]
  /\ UNCHANGED <<admitted, dedup, heir, cluster, pc, useAgent, memory, rows, passes, together>>

-----------------------------------------------------------------------------
(* propagate_verdicts                                                       *)

Propagate ==
  /\ pc = "judgment"
  /\ pc' = "propagate"
  /\ rows' = {ca \in ClusterIds \X Alerts : cluster[ca[1]][ca[2]] = "member"}
  /\ UNCHANGED <<db, useAgent, memory, passes, together>>

Canonicals(c) == {b \in Alerts : cluster[c][b] = "canonical"}

\* The first canonical row of the cluster, in an order the query leaves open.
Inherit(c, a) ==
  /\ pc = "propagate" /\ <<c, a>> \in rows
  /\ \E b \in Canonicals(c) :
       /\ verdict[b] # NoVerdict
       /\ verdict' = [verdict EXCEPT ![a] = [about |-> verdict[b].about, from |-> b]]
  /\ rows' = rows \ {<<c, a>>}
  /\ UNCHANGED <<admitted, dedup, heir, cluster, pc, useAgent, memory, passes, together>>

NothingToInherit(c, a) ==
  /\ pc = "propagate" /\ <<c, a>> \in rows
  /\ Canonicals(c) # {} => \E b \in Canonicals(c) : verdict[b] = NoVerdict
  /\ rows' = rows \ {<<c, a>>}
  /\ UNCHANGED <<db, pc, useAgent, memory, passes, together>>

Finish ==
  /\ pc = "propagate" /\ rows = {}
  /\ pc' = "idle"
  /\ UNCHANGED <<db, useAgent, memory, rows, passes, together>>

\* Killed between two commits, the pass leaves the database and nothing else.
Kill ==
  /\ pc # "idle"
  /\ pc' = "idle" /\ rows' = {}
  /\ Forget
  /\ UNCHANGED <<db, useAgent, passes, together>>

\* Nobody invokes the program.
Rest == pc = "idle" /\ UNCHANGED vars

Next ==
  \/ Begin \/ AnswerEnds \/ Record \/ Propagate \/ Finish \/ Kill \/ Rest
  \/ \E a \in Alerts : NothingToAsk(a) \/ Refuse(a) \/ Ask(a) \/ Judge(a)
  \/ \E a \in Alerts, members \in SUBSET Alerts : Accept(a, members)
  \/ \E c \in ClusterIds, a \in Alerts : Inherit(c, a) \/ NothingToInherit(c, a)

Spec == Init /\ [][Next]_vars

-----------------------------------------------------------------------------
Clusters == [id : ClusterIds, canonical : Alerts, members : SUBSET Alerts]

TypeOK ==
  /\ admitted \subseteq Alerts
  /\ dedup \in [Alerts -> {"none", "done", "skipped"}]
  /\ heir \in [Alerts -> Alerts \cup {NoAlert}]
  /\ cluster \in [ClusterIds -> [Alerts -> {"none", "member", "canonical"}]]
  /\ verdict \in [Alerts -> [about : Alerts \cup {NoAlert}, from : Alerts \cup {NoAlert}]]
  /\ pc \in {"idle", "ask", "answer", "judgment", "propagate"}
  /\ useAgent \in BOOLEAN
  /\ pending \subseteq admitted
  /\ clusters \subseteq Clusters
  /\ clustered \subseteq pending /\ remaining \subseteq pending /\ shown \subseteq pending
  /\ rows \subseteq ClusterIds \X Alerts
  /\ passes \in 0..MaxPasses
  /\ together \subseteq SUBSET Alerts

\* Whatever the agent answers, and whenever the pass was killed before, what the
\* stage records is a grouping of its pending alerts: each has one canonical,
\* which has itself; an upgrade path is never split; and no alert the index has
\* clustered is moved by the agent.  It is the very step Pipeline takes.
RecordsAGrouping ==
  [][dedup' # dedup =>
       \E canon \in Groupings(pending, useAgent) :
         /\ cluster' = ClusterRows(cluster, pending, canon)
         /\ \A a \in Alerts :
              dedup'[a] = IF a \in pending THEN DedupStatus(canon, a) ELSE dedup[a]
         /\ \A a \in pending : heir'[a] = IF canon[a] = a THEN NoAlert ELSE canon[a]]_vars

\* An inherited verdict names the alert it was reasoned about: nothing is
\* inherited from what was itself inherited, over any number of passes whose
\* clusters share an id.
NamesItsReasoner ==
  \A a \in Alerts :
    verdict[a].from # NoAlert =>
      /\ verdict[a].about = verdict[a].from
      /\ dedup[verdict[a].from] = "done" /\ dedup[a] = "skipped"

\* prompts/dedup.md: over-eager clusters are "silently dismissed".  A verdict is
\* inherited along one upgrade path, or between alerts the agent saw together,
\* also when a resumed pass finds the cluster's id taken.
InheritsFromKin ==
  \A a \in Alerts :
    LET b == verdict[a].from IN
    b # NoAlert => UpgradePath[a] = UpgradePath[b] \/ \E S \in together : {a, b} \subseteq S
=============================================================================
