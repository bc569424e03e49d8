---------------------------- MODULE DedupProofs ----------------------------
(***************************************************************************)
(* Dedup, for any alerts, any answers of the agent and any number of        *)
(* passes: what the stage records is a grouping, so that each Record is the *)
(* step Pipeline takes, and verdicts are inherited from kin only and in one *)
(* hop.                                                                     *)
(***************************************************************************)
EXTENDS Dedup, FiniteSetTheorems, WellFoundedInduction, TLAPS

-----------------------------------------------------------------------------
(* The choice of a canonical.                                               *)

LEMMA LeastNumber ==
  ASSUME NEW S \in SUBSET Nat, S # {}
  PROVE  \E m \in S : \A n \in S : m <= n
<1>1. PICK m \in S : \A n \in S : ~(<<n, m>> \in OpToRel(<, Nat))
  BY NatLessThanWellFounded, WFMin
<1>2. \A n \in S : ~(n < m)
  BY <1>1 DEF OpToRel
<1> QED BY <1>2

\* Every cluster has a canonical, and it is one of its members: of any alerts
\* one comes before all the others.
LEMMA CanonicalIsMember ==
  ASSUME NEW S \in SUBSET Alerts, S # {}
  PROVE  PickCanonical(S) \in S
<1>0. \A a \in S : /\ Facts[a].direct \in BOOLEAN /\ Facts[a].cvss \in 0..100 /\ Place[a] \in Nat
                   /\ \A b \in S : Place[a] = Place[b] => a = b
  BY DedupAssumption
<1> DEFINE D == IF \E a \in S : Facts[a].direct THEN {a \in S : Facts[a].direct} ELSE S
           Safety(a) == 100 - Facts[a].cvss
<1>1. D # {} /\ D \subseteq S /\ \A a \in D, b \in S \ D : Facts[a].direct /\ ~Facts[b].direct
  OBVIOUS
<1>2. \A a, b \in D : Facts[a].direct = Facts[b].direct
  BY <1>0
<1> HIDE DEF D
<1>3. PICK w \in D : \A a \in D : Facts[w].cvss >= Facts[a].cvss
  <2>1. {Safety(a) : a \in D} \in SUBSET Nat /\ {Safety(a) : a \in D} # {}
    BY <1>0, <1>1
  <2>2. PICK m \in {Safety(a) : a \in D} : \A n \in {Safety(a) : a \in D} : m <= n
    BY <2>1, LeastNumber
  <2>3. PICK w \in D : m = Safety(w)
    BY <2>2
  <2>4. \A a \in D : Safety(w) <= Safety(a)
    BY <2>2, <2>3
  <2>5. \A a \in D : Facts[a].cvss \in 0..100
    BY <1>0, <1>1
  <2>6. ASSUME NEW a \in D PROVE Facts[w].cvss >= Facts[a].cvss
    <3>1. Facts[a].cvss \in Int /\ Facts[w].cvss \in Int /\ 100 - Facts[w].cvss <= 100 - Facts[a].cvss
      BY <2>3, <2>4, <2>5
    <3> QED BY <3>1
  <2> QED BY <2>6
<1> DEFINE C == {a \in D : Facts[a].cvss = Facts[w].cvss}
<1>4. {Place[a] : a \in C} \in SUBSET Nat /\ {Place[a] : a \in C} # {}
  BY <1>0, <1>1, <1>3
<1>5. PICK m \in {Place[a] : a \in C} : \A n \in {Place[a] : a \in C} : m <= n
  BY ONLY <1>4, LeastNumber
<1>6. PICK a \in C : m = Place[a]
  BY ONLY <1>5
<1>7. \A b \in C : Place[a] <= Place[b]
  BY <1>5, <1>6
<1>8. a \in S /\ \A b \in S \ {a} : Before(a, b)
  <2> SUFFICES ASSUME NEW b \in S \ {a} PROVE Before(a, b)
    BY <1>1, <1>6
  <2>1. CASE b \notin D
    BY <1>1, <1>6, <2>1 DEF Before
  <2>2. CASE b \in D \ C
    <3>1. Facts[a].direct = Facts[b].direct /\ Facts[a].cvss = Facts[w].cvss
      BY <1>2, <1>6, <2>2
    <3>2. Facts[w].cvss >= Facts[b].cvss /\ Facts[w].cvss # Facts[b].cvss
      BY <1>3, <2>2
    <3>3. Facts[w].cvss \in Int /\ Facts[b].cvss \in Int
      BY <1>0, <1>1, <1>3
    <3>4. Facts[a].cvss > Facts[b].cvss
      BY ONLY <3>1, <3>2, <3>3
    <3> QED BY <3>1, <3>4 DEF Before
  <2>3. CASE b \in C
    BY <1>0, <1>1, <1>2, <1>6, <1>7, <2>3 DEF Before
  <2> QED BY <2>1, <2>2, <2>3
<1> QED BY <1>8 DEF PickCanonical

-----------------------------------------------------------------------------
(* What a pass has in memory while it clusters.                             *)

\* A cluster is one of the index's, or one the agent made of alerts it was shown
\* together and the index had left alone.
Sound(k) ==
  \/ k \in TrivialClusters(pending)
  \/ /\ useAgent /\ k.id = <<"agent", k.canonical>>
     /\ k.canonical \in k.members /\ k.members # {k.canonical}
     /\ \A a \in k.members : ~Trivial(pending, a)
     /\ \E S \in together : k.members \subseteq S

MemoryInv ==
  /\ TrivialClusters(pending) \subseteq clusters
  /\ \A k \in clusters : Sound(k)
  /\ \A k, l \in clusters : k # l => k.members \cap l.members = {}
  /\ clustered = UNION {k.members : k \in clusters}
  /\ remaining # {} \/ pc = "answer" => useAgent
  /\ shown # {} => shown \in together
  /\ \A a \in pending : dedup[a] = "none"
  /\ pc \notin {"ask", "answer"} =>
       pending = {} /\ clusters = {} /\ clustered = {} /\ remaining = {} /\ shown = {}

-----------------------------------------------------------------------------
(* Types.                                                                   *)

\* The cluster of an upgrade path is about alerts of the stage that share it,
\* several of them, and one of those is its canonical.
LEMMA TrivialCluster ==
  ASSUME NEW alerts \in SUBSET Alerts, NEW k \in TrivialClusters(alerts)
  PROVE  /\ k \in Clusters /\ k.members \subseteq alerts
         /\ k.canonical \in k.members
         /\ \A a \in k.members :
              Trivial(alerts, a) /\ k.members = SamePath(alerts, a) /\ k.id = <<"path", UpgradePath[a]>>
         /\ k.members # {k.canonical}
<1>1. PICK a \in alerts :
        /\ Trivial(alerts, a)
        /\ k = [id |-> <<"path", UpgradePath[a]>>, canonical |-> PickCanonical(SamePath(alerts, a)),
                members |-> SamePath(alerts, a)]
  BY DEF TrivialClusters
<1>2. a \in SamePath(alerts, a) /\ SamePath(alerts, a) \subseteq alerts
  BY DEF SamePath
<1>3. k.canonical \in k.members
  BY <1>1, <1>2, CanonicalIsMember
<1>4. k \in Clusters
  BY <1>1, <1>2, <1>3 DEF Clusters, ClusterIds
<1>5. PICK b \in alerts \ {a} : UpgradePath[b] = UpgradePath[a]
  BY <1>1 DEF Trivial
<1>6. \A c \in k.members :
        Trivial(alerts, c) /\ k.members = SamePath(alerts, c) /\ k.id = <<"path", UpgradePath[c]>>
  BY <1>1, <1>5 DEF Trivial, SamePath
<1>7. a \in k.members /\ b \in k.members
  BY <1>1, <1>5 DEF SamePath
<1> QED BY <1>1, <1>2, <1>3, <1>4, <1>5, <1>6, <1>7

LEMMA ClusterPicture ==
  ASSUME TypeOK, MemoryInv, NEW k \in clusters
  PROVE  /\ k.members \subseteq pending /\ k.canonical \in k.members
         /\ k.members # {k.canonical}
         /\ \A a \in k.members : ClusterWith(a) = {k}
<1>1. pending \subseteq Alerts
  BY DEF TypeOK
<1>2. k.canonical \in k.members /\ k.members # {k.canonical}
  BY <1>1, TrivialCluster DEF MemoryInv, Sound
<1>3. k.members \subseteq pending
  BY DEF TypeOK, MemoryInv
<1>4. \A a \in k.members : ClusterWith(a) = {k}
  BY DEF MemoryInv, ClusterWith
<1> QED BY <1>2, <1>3, <1>4

\* Whom a question shows is of this pass.
LEMMA ShortlistShown ==
  ASSUME TypeOK, NEW a \in pending
  PROVE  Shortlist(a) \cup {a} \subseteq pending
BY DEF Shortlist, Candidates

LEMMA TypeStep == TypeOK /\ MemoryInv /\ [Next]_vars => TypeOK'
<1> SUFFICES ASSUME TypeOK, MemoryInv, [Next]_vars PROVE TypeOK'
  OBVIOUS
<1>1. CASE Begin
  <2>1. admitted' \subseteq Alerts /\ pending' \subseteq admitted' /\ useAgent' \in BOOLEAN
    BY <1>1 DEF Begin, TypeOK
  <2>2. clusters' = TrivialClusters(pending') /\ clustered' = UNION {k.members : k \in clusters'}
    BY <1>1 DEF Begin
  <2>3. \A k \in clusters' : k \in Clusters /\ k.members \subseteq pending'
    BY <2>1, <2>2, TrivialCluster
  <2>4. clusters' \subseteq Clusters /\ clustered' \subseteq pending'
    BY <2>2, <2>3
  <2>5. remaining' \subseteq pending' /\ shown' \subseteq pending' /\ passes' \in 0..MaxPasses
    <3>1. shown = {}
      BY <1>1 DEF Begin, MemoryInv
    <3> QED BY <1>1, <3>1, DedupAssumption DEF Begin, TypeOK
  <2> QED BY <1>1, <2>1, <2>4, <2>5 DEF Begin, TypeOK
<1>2. ASSUME NEW a \in Alerts, Ask(a) PROVE TypeOK'
  <2>1. shown' \subseteq pending
    BY <1>2, ShortlistShown DEF Ask, TypeOK
  <2> QED BY <1>2, <2>1 DEF Ask, TypeOK, db
<1>3. ASSUME NEW a \in Alerts, NothingToAsk(a) \/ Refuse(a) PROVE TypeOK'
  BY <1>3 DEF NothingToAsk, Refuse, TypeOK, db
<1>4. ASSUME NEW a \in Alerts, NEW members \in SUBSET Alerts, Accept(a, members) PROVE TypeOK'
  <2>1. members \subseteq pending /\ [id |-> <<"agent", a>>, canonical |-> a, members |-> members] \in Clusters
    BY <1>4 DEF Accept, WellFormed, TypeOK, Clusters, ClusterIds
  <2> QED BY <1>4, <2>1 DEF Accept, TypeOK, db
<1>5. CASE AnswerEnds
  BY <1>5 DEF AnswerEnds, TypeOK, db
<1>6. CASE Record
  <2>1. cluster' \in [ClusterIds -> [Alerts -> {"none", "member", "canonical"}]]
    <3>1. \A c \in ClusterIds, a \in Alerts : cluster[c][a] \in {"none", "member", "canonical"}
      BY DEF TypeOK
    <3> QED BY <1>6, <3>1 DEF Record
  <2>2. dedup' \in [Alerts -> {"none", "done", "skipped"}]
    BY <1>6 DEF Record, TypeOK
  <2>3. heir' \in [Alerts -> Alerts \cup {NoAlert}]
    <3>1. \A a \in Alerts : ClusterWith(a) \subseteq Clusters
      BY DEF ClusterWith, TypeOK
    <3>2. \A a \in Alerts : (\E k \in ClusterWith(a) : k.canonical # a) =>
                           (CHOOSE k \in ClusterWith(a) : k.canonical # a).canonical \in Alerts
      BY <3>1 DEF Clusters
    <3> QED BY <1>6, <3>2 DEF Record, TypeOK
  <2> QED BY <1>6, <2>1, <2>2, <2>3 DEF Record, Forget, TypeOK
<1>7. ASSUME NEW a \in Alerts, Judge(a) PROVE TypeOK'
  BY <1>7 DEF Judge, TypeOK, memory
<1>8. CASE Propagate
  BY <1>8 DEF Propagate, TypeOK, db, memory
<1>9. ASSUME NEW c \in ClusterIds, NEW a \in Alerts, Inherit(c, a) PROVE TypeOK'
  <2>1. PICK b \in Alerts : verdict' = [verdict EXCEPT ![a] = [about |-> verdict[b].about, from |-> b]]
    BY <1>9 DEF Inherit, Canonicals
  <2>2. verdict' \in [Alerts -> [about : Alerts \cup {NoAlert}, from : Alerts \cup {NoAlert}]]
    BY <2>1 DEF TypeOK
  <2> QED BY <1>9, <2>2 DEF Inherit, TypeOK, memory
<1>10. ASSUME NEW c \in ClusterIds, NEW a \in Alerts, NothingToInherit(c, a) PROVE TypeOK'
  BY <1>10 DEF NothingToInherit, TypeOK, db, memory
<1>11. CASE Finish \/ Kill
  BY <1>11 DEF Finish, Kill, Forget, TypeOK, db, memory
<1>12. CASE Rest \/ UNCHANGED vars
  BY <1>12 DEF Rest, vars, db, memory, TypeOK
<1> QED BY <1>1, <1>2, <1>3, <1>4, <1>5, <1>6, <1>7, <1>8, <1>9, <1>10, <1>11, <1>12 DEF Next

-----------------------------------------------------------------------------
(* The memory of a pass.                                                    *)

\* A cluster stays sound while questions are asked.
LEMMA SoundStays ==
  ASSUME NEW k, Sound(k), UNCHANGED <<pending, useAgent>>, together \subseteq together'
  PROVE  Sound(k)'
<1>1. \A a : Trivial(pending, a)' <=> Trivial(pending, a)
  BY DEF Trivial
<1>2. TrivialClusters(pending)' = TrivialClusters(pending)
  BY DEF TrivialClusters, Trivial, SamePath, PickCanonical, Before
<1> QED BY <1>1, <1>2 DEF Sound

LEMMA MemoryStep == TypeOK /\ MemoryInv /\ [Next]_vars => MemoryInv'
<1> SUFFICES ASSUME TypeOK, MemoryInv, [Next]_vars PROVE MemoryInv'
  OBVIOUS
<1>0. pending' = pending => TrivialClusters(pending)' = TrivialClusters(pending)
  BY DEF TrivialClusters, Trivial, SamePath, PickCanonical, Before
<1>1. CASE Begin
  <2>1. /\ clusters' = TrivialClusters(pending') /\ pending' \subseteq Alerts
        /\ clustered' = UNION {k.members : k \in clusters'}
        /\ pc' = "ask" /\ shown' = shown /\ shown = {} /\ dedup' = dedup
        /\ remaining' # {} => useAgent'
    BY <1>1 DEF Begin, MemoryInv, TypeOK
  <2>2. TrivialClusters(pending)' = TrivialClusters(pending')
    BY DEF TrivialClusters, Trivial, SamePath, PickCanonical, Before
  <2>3. \A k, l \in clusters' : k # l => k.members \cap l.members = {}
    <3> SUFFICES ASSUME NEW k \in TrivialClusters(pending'), NEW l \in TrivialClusters(pending'),
                        NEW a, a \in k.members, a \in l.members
                 PROVE  k = l
      BY <2>1
    <3>1. k.members = l.members /\ k.id = l.id
      BY <2>1, TrivialCluster
    <3> QED BY <3>1 DEF TrivialClusters
  <2>4. \A a \in pending' : dedup[a] = "none"
    BY <1>1 DEF Begin, NeedsDedup, TypeOK
  <2> QED BY <2>1, <2>2, <2>3, <2>4 DEF MemoryInv, Sound
<1>2. ASSUME NEW a \in Alerts, Ask(a) PROVE MemoryInv'
  <2>1. /\ UNCHANGED <<pending, useAgent, clusters, clustered, dedup>>
        /\ together \subseteq together' /\ shown' \in together' /\ pc' = "answer" /\ useAgent
    BY <1>2 DEF Ask, db, MemoryInv
  <2>2. \A k \in clusters : Sound(k)'
    BY <2>1, SoundStays DEF MemoryInv
  <2> QED BY <1>0, <2>1, <2>2 DEF MemoryInv
<1>3. ASSUME NEW a \in Alerts, NothingToAsk(a) \/ Refuse(a) PROVE MemoryInv'
  <2>1. /\ UNCHANGED <<pending, useAgent, clusters, clustered, dedup, together, shown, pc>>
        /\ pc = "ask" /\ useAgent
    BY <1>3 DEF NothingToAsk, Refuse, db, MemoryInv
  <2>2. \A k \in clusters : Sound(k)'
    BY <2>1, SoundStays DEF MemoryInv
  <2> QED BY <1>0, <2>1, <2>2 DEF MemoryInv
<1>4. ASSUME NEW a \in Alerts, NEW members \in SUBSET Alerts, Accept(a, members) PROVE MemoryInv'
  <2> DEFINE new == [id |-> <<"agent", a>>, canonical |-> a, members |-> members]
  <2>1. /\ UNCHANGED <<pending, useAgent, dedup, together, shown, pc, remaining>>
        /\ clusters' = clusters \cup {new} /\ clustered' = clustered \cup members
        /\ pc = "answer" /\ useAgent /\ members \cap clustered = {}
        /\ a \in members /\ Cardinality(members) >= 2 /\ members \subseteq shown
    BY <1>4 DEF Accept, WellFormed, db, MemoryInv
  <2>2. \A k \in clusters : Sound(k)'
    BY <2>1, SoundStays DEF MemoryInv
  <2>3. members # {a}
    <3>1. Cardinality({a}) = 1
      BY FS_Singleton
    <3>2. Cardinality(members) # 1
      BY <2>1
    <3> QED BY <3>1, <3>2
  <2>4. \A b \in members : ~Trivial(pending, b)
    <3> SUFFICES ASSUME NEW b \in members, Trivial(pending, b) PROVE FALSE
      OBVIOUS
    <3>1. b \in pending
      BY <2>1 DEF TypeOK
    <3>2. \E k \in TrivialClusters(pending) : b \in k.members
      <4> DEFINE k == [id |-> <<"path", UpgradePath[b]>>,
                       canonical |-> PickCanonical(SamePath(pending, b)),
                       members |-> SamePath(pending, b)]
      <4>1. k \in TrivialClusters(pending)
        BY <3>1 DEF TrivialClusters
      <4>2. b \in k.members
        BY <3>1 DEF SamePath
      <4> QED BY <4>1, <4>2
    <3> QED BY <2>1, <3>2 DEF MemoryInv
  <2>5. Sound(new)'
    <3>1. shown \in together
      BY <2>1 DEF MemoryInv
    <3>2. \A b \in members : ~Trivial(pending, b)'
      BY <2>1, <2>4 DEF Trivial
    <3> QED BY <2>1, <2>3, <3>1, <3>2 DEF Sound
  <2>6. \A k \in clusters : k.members \cap members = {}
    BY <2>1 DEF MemoryInv
  <2>7. clustered' = UNION {k.members : k \in clusters'}
    <3>1. \A b : b \in clustered <=> \E k \in clusters : b \in k.members
      BY DEF MemoryInv
    <3>2. new.members = members
      OBVIOUS
    <3> HIDE DEF new
    <3>3. \A b : b \in clustered' <=> \E k \in clusters' : b \in k.members
      BY <2>1, <3>1, <3>2
    <3> QED BY <3>3
  <2>8. \A k, l \in clusters' : k # l => k.members \cap l.members = {}
    BY <2>1, <2>6 DEF MemoryInv
  <2> HIDE DEF new
  <2> QED BY <1>0, <2>1, <2>2, <2>5, <2>7, <2>8 DEF MemoryInv
<1>5. CASE AnswerEnds
  <2>1. /\ UNCHANGED <<pending, useAgent, clusters, clustered, dedup, together, remaining>>
        /\ pc' = "ask" /\ shown' = {} /\ useAgent
    BY <1>5 DEF AnswerEnds, db, MemoryInv
  <2>2. \A k \in clusters : Sound(k)'
    BY <2>1, SoundStays DEF MemoryInv
  <2> QED BY <1>0, <2>1, <2>2 DEF MemoryInv
<1>6. CASE Forget /\ pc' \notin {"ask", "answer"}
  <2>1. TrivialClusters(pending)' = {}
    BY <1>6 DEF Forget, TrivialClusters
  <2> QED BY <1>6, <2>1 DEF Forget, MemoryInv
<1>7. CASE UNCHANGED <<memory, dedup, useAgent, together>> /\ pc' \notin {"ask", "answer"}
           /\ pc \notin {"ask", "answer"}
  <2>1. TrivialClusters(pending)' = {} /\ clusters' = {}
    BY <1>0, <1>7 DEF memory, MemoryInv, TrivialClusters
  <2> QED BY <1>7, <2>1 DEF memory, MemoryInv
<1>8. CASE UNCHANGED vars
  <2>1. \A k \in clusters : Sound(k)'
    BY <1>8, SoundStays DEF MemoryInv, vars, memory
  <2> QED BY <1>0, <1>8, <2>1 DEF MemoryInv, vars, db, memory
<1>9. CASE Record \/ Kill
  BY <1>6, <1>9 DEF Record, Kill
<1>10. CASE \/ Propagate \/ Finish
            \/ \E a \in Alerts : Judge(a)
            \/ \E c \in ClusterIds, a \in Alerts : Inherit(c, a) \/ NothingToInherit(c, a)
  BY <1>7, <1>10 DEF Propagate, Finish, Judge, Inherit, NothingToInherit, db
<1> QED BY <1>1, <1>2, <1>3, <1>4, <1>5, <1>8, <1>9, <1>10 DEF Next, Rest

StageInv == TypeOK /\ MemoryInv

LEMMA StageAlways == Spec => []StageInv
<1>1. Init => StageInv
  <2> SUFFICES ASSUME Init PROVE StageInv
    OBVIOUS
  <2>1. NoAlert \notin Alerts /\ 0 \in 0..MaxPasses
    BY DedupAssumption
  <2>2. TypeOK
    BY <2>1 DEF Init, TypeOK, NoVerdict
  <2>3. TrivialClusters(pending) = {}
    BY DEF Init, TrivialClusters
  <2> QED BY <2>2, <2>3 DEF Init, StageInv, MemoryInv
<1>2. StageInv /\ [Next]_vars => StageInv'
  BY TypeStep, MemoryStep DEF StageInv
<1> QED BY <1>1, <1>2, PTL DEF Spec

\* Every variable keeps its type; whom the agent is shown and what a cluster
\* holds is of the pass under way.
THEOREM DedupTypeCorrect == Spec => []TypeOK
<1>1. StageInv => TypeOK
  BY DEF StageInv
<1> QED BY <1>1, StageAlways, PTL

-----------------------------------------------------------------------------
(* What is recorded.                                                        *)

\* The grouping a stage has made.
Made == [a \in pending |-> IF ClusterWith(a) # {} THEN (CHOOSE k \in ClusterWith(a) : TRUE).canonical
                           ELSE a]

LEMMA MadeBy ==
  ASSUME StageInv
  PROVE  /\ \A k \in clusters : \A a \in k.members : Made[a] = k.canonical
         /\ \A a \in pending \ clustered : Made[a] = a /\ ClusterWith(a) = {}
         /\ \A a \in clustered : \E k \in clusters : a \in k.members
<1>1. ASSUME NEW k \in clusters, NEW a \in k.members PROVE Made[a] = k.canonical
  BY ClusterPicture DEF Made, StageInv
<1>2. ASSUME NEW a \in pending \ clustered PROVE Made[a] = a /\ ClusterWith(a) = {}
  BY <1>2 DEF Made, ClusterWith, StageInv, MemoryInv
<1>3. \A a \in clustered : \E k \in clusters : a \in k.members
  BY DEF StageInv, MemoryInv
<1> QED BY <1>1, <1>2, <1>3

\* It is one of those the abstract stage may choose.
LEMMA MadeIsGrouping ==
  ASSUME StageInv
  PROVE  Made \in Groupings(pending, useAgent)
<1>1. \A k \in clusters : k.members \subseteq pending /\ k.canonical \in k.members
  BY ClusterPicture DEF StageInv
<1>2. ASSUME NEW a \in pending
      PROVE  /\ Made[a] \in pending /\ Made[Made[a]] = Made[a]
             /\ Made[a] # a => \/ UpgradePath[Made[a]] = UpgradePath[a]
                               \/ useAgent /\ ~Trivial(pending, a) /\ ~Trivial(pending, Made[a])
  <2>1. CASE a \notin clustered
    BY <2>1, MadeBy
  <2>2. CASE a \in clustered
    <3>1. PICK k \in clusters : a \in k.members
      BY <2>2, MadeBy
    <3>2. Made[a] = k.canonical /\ k.canonical \in k.members /\ Made[k.canonical] = k.canonical
      BY <1>1, <3>1, MadeBy
    <3>3. CASE k \in TrivialClusters(pending)
      <4>1. pending \subseteq Alerts
        BY DEF StageInv, TypeOK
      <4>2. k.members = SamePath(pending, a)
        BY <3>1, <3>3, <4>1, TrivialCluster
      <4>3. k.canonical \in SamePath(pending, a)
        BY <3>2, <4>2
      <4>4. k.canonical \in pending /\ UpgradePath[k.canonical] = UpgradePath[a]
        BY <4>3 DEF SamePath
      <4> QED BY <3>2, <4>4
    <3>4. CASE k \notin TrivialClusters(pending)
      <4>1. useAgent /\ \A b \in k.members : ~Trivial(pending, b)
        BY <3>4 DEF StageInv, MemoryInv, Sound
      <4> QED BY <1>1, <3>1, <3>2, <4>1
    <3> QED BY <3>3, <3>4
  <2> QED BY <2>1, <2>2
<1>3. ASSUME NEW a \in pending, NEW b \in pending, UpgradePath[a] = UpgradePath[b], a # b
      PROVE  Made[a] = Made[b]
  <2> DEFINE k == [id |-> <<"path", UpgradePath[a]>>,
                   canonical |-> PickCanonical(SamePath(pending, a)),
                   members |-> SamePath(pending, a)]
  <2>1. k \in clusters
    <3>1. Trivial(pending, a)
      BY <1>3 DEF Trivial
    <3>2. k \in TrivialClusters(pending)
      BY <3>1 DEF TrivialClusters
    <3> QED BY <3>2 DEF StageInv, MemoryInv
  <2>2. a \in k.members /\ b \in k.members
    BY <1>3 DEF SamePath
  <2> HIDE DEF k
  <2> QED BY <2>1, <2>2, MadeBy
<1>4. Made \in [pending -> pending]
  BY <1>2 DEF Made
<1> QED BY <1>2, <1>3, <1>4 DEF Groupings

\* Its clusters are those the stage has accepted, under the ids it gave them.
LEMMA MadeHasClusters ==
  ASSUME StageInv
  PROVE  /\ Clustered(pending, Made) = clustered
         /\ \A k \in clusters : \A a \in k.members : k.id = ClusterId(pending, Made, a)
<1>1. ASSUME NEW a \in clustered PROVE a \in Clustered(pending, Made)
  <2>1. PICK k \in clusters : a \in k.members
    BY MadeBy
  <2>2. k.members \subseteq pending /\ k.canonical \in k.members /\ k.members # {k.canonical}
    BY ClusterPicture DEF StageInv
  <2>3. PICK b \in k.members : b # a
    BY <2>1, <2>2
  <2>4. Made[a] = k.canonical /\ Made[b] = k.canonical
    BY <2>1, <2>3, MadeBy
  <2> QED BY <2>1, <2>2, <2>3, <2>4 DEF Clustered
<1>2. ASSUME NEW a \in Clustered(pending, Made) PROVE a \in clustered
  <2>1. PICK b \in pending \ {a} : Made[a] = Made[b]
    BY DEF Clustered
  <2>2. a \in pending
    BY DEF Clustered
  <2> SUFFICES ASSUME a \notin clustered PROVE FALSE
    OBVIOUS
  <2>3. Made[a] = a
    BY <2>2, MadeBy
  <2>4. b \in clustered
    BY <2>1, <2>3, MadeBy
  <2>5. PICK k \in clusters : b \in k.members
    BY <2>4, MadeBy
  <2>6. k.canonical = a
    BY <2>1, <2>3, <2>5, MadeBy
  <2>7. a \in k.members
    BY <2>5, <2>6, ClusterPicture DEF StageInv
  <2> QED BY <2>7 DEF StageInv, MemoryInv
<1>3. ASSUME NEW k \in clusters, NEW a \in k.members PROVE k.id = ClusterId(pending, Made, a)
  <2>1. CASE k \in TrivialClusters(pending)
    <3>1. Trivial(pending, a) /\ k.id = <<"path", UpgradePath[a]>>
      BY <1>3, <2>1, TrivialCluster DEF StageInv, TypeOK
    <3> QED BY <3>1 DEF ClusterId
  <2>2. CASE k \notin TrivialClusters(pending)
    <3>1. k.id = <<"agent", k.canonical>> /\ ~Trivial(pending, a)
      BY <1>3, <2>2 DEF StageInv, MemoryInv, Sound
    <3>2. Made[a] = k.canonical
      BY <1>3, MadeBy
    <3> QED BY <3>1, <3>2 DEF ClusterId
  <2> QED BY <2>1, <2>2
<1> QED BY <1>1, <1>2, <1>3

LEMMA RecordIsMade ==
  ASSUME StageInv, Record
  PROVE  /\ cluster' = ClusterRows(cluster, pending, Made)
         /\ \A a \in Alerts :
              dedup'[a] = IF a \in pending THEN DedupStatus(Made, a) ELSE dedup[a]
         /\ \A a \in pending : heir'[a] = IF Made[a] = a THEN NoAlert ELSE Made[a]
<1>0. clustered \subseteq pending /\ pending \subseteq Alerts
  BY DEF StageInv, TypeOK
<1>1. ASSUME NEW a, a \notin clustered PROVE ClusterWith(a) = {}
  BY <1>1 DEF ClusterWith, StageInv, MemoryInv
<1>2. ASSUME NEW a \in clustered
      PROVE  \E k \in clusters :
               /\ ClusterWith(a) = {k} /\ k.id = ClusterId(pending, Made, a)
               /\ k.canonical = Made[a]
  <2>1. PICK k \in clusters : a \in k.members
    BY MadeBy
  <2>2. ClusterWith(a) = {k}
    BY <2>1, ClusterPicture DEF StageInv
  <2> QED BY <2>1, <2>2, MadeBy, MadeHasClusters
<1>3. \A c \in ClusterIds, a \in Alerts :
        (IF \E k \in ClusterWith(a) : k.id = c
         THEN IF \E k \in ClusterWith(a) : k.id = c /\ k.canonical = a THEN "canonical" ELSE "member"
         ELSE cluster[c][a])
        = IF a \in Clustered(pending, Made) /\ c = ClusterId(pending, Made, a)
          THEN IF Made[a] = a THEN "canonical" ELSE "member"
          ELSE cluster[c][a]
  <2> SUFFICES ASSUME NEW c \in ClusterIds, NEW a \in Alerts
               PROVE  /\ (\E k \in ClusterWith(a) : k.id = c)
                            <=> a \in clustered /\ c = ClusterId(pending, Made, a)
                      /\ a \in clustered =>
                           ((\E k \in ClusterWith(a) : k.id = c /\ k.canonical = a)
                             <=> c = ClusterId(pending, Made, a) /\ Made[a] = a)
    BY MadeHasClusters
  <2> QED BY <1>1, <1>2
<1>4. ASSUME NEW a \in pending
      PROVE  /\ (\E k \in ClusterWith(a) : k.canonical # a) <=> Made[a] # a
             /\ Made[a] # a => (CHOOSE k \in ClusterWith(a) : k.canonical # a).canonical = Made[a]
  <2>1. CASE a \notin clustered
    BY <1>1, <2>1, MadeBy
  <2>2. CASE a \in clustered
    BY <1>2, <2>2
  <2> QED BY <2>1, <2>2
<1>5. cluster' = ClusterRows(cluster, pending, Made)
  <2>1. cluster' = [c \in ClusterIds |-> [a \in Alerts |->
          IF \E k \in ClusterWith(a) : k.id = c
          THEN IF \E k \in ClusterWith(a) : k.id = c /\ k.canonical = a THEN "canonical" ELSE "member"
          ELSE cluster[c][a]]]
    BY DEF Record
  <2> QED BY <1>3, <2>1 DEF ClusterRows
<1>6. \A a \in Alerts : dedup'[a] = IF a \in pending THEN DedupStatus(Made, a) ELSE dedup[a]
  BY <1>4 DEF Record, DedupStatus
<1>7. \A a \in pending : heir'[a] = IF Made[a] = a THEN NoAlert ELSE Made[a]
  BY <1>0, <1>4 DEF Record
<1> QED BY <1>5, <1>6, <1>7

\* Each stage that is recorded is a grouping of its pending alerts, whatever the
\* agent answered: the step Pipeline takes for the whole stage.
THEOREM StageIsGrouping == Spec => RecordsAGrouping
<1>1. StageInv /\ [Next]_vars =>
        [dedup' # dedup =>
           \E canon \in Groupings(pending, useAgent) :
             /\ cluster' = ClusterRows(cluster, pending, canon)
             /\ \A a \in Alerts :
                  dedup'[a] = IF a \in pending THEN DedupStatus(canon, a) ELSE dedup[a]
             /\ \A a \in pending : heir'[a] = IF canon[a] = a THEN NoAlert ELSE canon[a]]_vars
  <2> SUFFICES ASSUME StageInv, Next, dedup' # dedup
               PROVE  \E canon \in Groupings(pending, useAgent) :
                        /\ cluster' = ClusterRows(cluster, pending, canon)
                        /\ \A a \in Alerts :
                             dedup'[a] = IF a \in pending THEN DedupStatus(canon, a) ELSE dedup[a]
                        /\ \A a \in pending : heir'[a] = IF canon[a] = a THEN NoAlert ELSE canon[a]
    BY DEF vars, db
  <2>1. Record
    BY DEF Next, Begin, AnswerEnds, Propagate, Finish, Kill, Rest, NothingToAsk, Refuse, Ask, Judge,
           Accept, Inherit, NothingToInherit, vars, db
  <2> QED BY <2>1, MadeIsGrouping, RecordIsMade
<1> QED BY <1>1, StageAlways, PTL DEF Spec, RecordsAGrouping
-----------------------------------------------------------------------------
(* What is inherited.                                                       *)

\* A cluster row tells what its alert's dedup row tells.
RowsAgree ==
  \A c \in ClusterIds, a \in Alerts :
    /\ cluster[c][a] = "member" => dedup[a] = "skipped"
    /\ cluster[c][a] = "canonical" => dedup[a] = "done"

\* Rows under one id are of kin, whichever passes wrote them.
RowsOfKin ==
  \A c \in ClusterIds, a \in Alerts :
    /\ c[1] = "path" /\ cluster[c][a] # "none" => UpgradePath[a] = c[2]
    /\ c[1] = "agent" /\ cluster[c][a] = "canonical" => a = c[2]
    /\ c[1] = "agent" /\ cluster[c][a] = "member" => \E S \in together : {a, c[2]} \subseteq S

RowsToCopy ==
  /\ \A c \in ClusterIds, a \in Alerts : <<c, a>> \in rows => cluster[c][a] = "member"
  /\ rows # {} => pc = "propagate"

\* Who has a verdict of its own was kept by the stage.
OwnVerdict ==
  \A a \in Alerts :
    verdict[a] # NoVerdict /\ verdict[a].from = NoAlert => verdict[a].about = a /\ dedup[a] = "done"

LineageInv ==
  RowsAgree /\ RowsOfKin /\ RowsToCopy /\ OwnVerdict /\ NamesItsReasoner /\ InheritsFromKin

\* The rows Record writes for an alert: those of an alert it had not recorded
\* before, in one cluster, or the ones that were there.
LEMMA RecordedRow ==
  ASSUME StageInv, RowsAgree, Record, NEW c \in ClusterIds, NEW a \in Alerts
  PROVE  \/ cluster'[c][a] = cluster[c][a] /\ (a \notin pending \/ cluster[c][a] = "none")
         \/ \E k \in clusters :
              /\ a \in k.members /\ c = k.id
              /\ cluster'[c][a] = IF k.canonical = a THEN "canonical" ELSE "member"
              /\ dedup'[a] = IF k.canonical = a THEN "done" ELSE "skipped"
<1>1. cluster'[c][a] = IF a \in clustered /\ c = ClusterId(pending, Made, a)
                       THEN IF Made[a] = a THEN "canonical" ELSE "member"
                       ELSE cluster[c][a]
  BY RecordIsMade, MadeHasClusters DEF ClusterRows
<1>2. CASE a \in clustered /\ c = ClusterId(pending, Made, a)
  <2>1. PICK k \in clusters : a \in k.members
    BY <1>2, MadeBy
  <2>2. k.id = c /\ Made[a] = k.canonical
    BY <1>2, <2>1, MadeBy, MadeHasClusters
  <2>3. a \in pending
    BY <1>2 DEF StageInv, TypeOK
  <2>4. dedup'[a] = IF k.canonical = a THEN "done" ELSE "skipped"
    BY <2>2, <2>3, RecordIsMade DEF DedupStatus
  <2> QED BY <1>1, <1>2, <2>1, <2>2, <2>4
<1>3. CASE ~(a \in clustered /\ c = ClusterId(pending, Made, a))
  <2>1. cluster'[c][a] = cluster[c][a]
    BY <1>1, <1>3
  <2>2. a \in pending => cluster[c][a] = "none"
    <3>1. a \in pending => dedup[a] = "none"
      BY DEF StageInv, MemoryInv
    <3>2. cluster[c][a] \in {"none", "member", "canonical"}
      BY DEF StageInv, TypeOK
    <3> QED BY <3>1, <3>2 DEF RowsAgree
  <2> QED BY <2>1, <2>2
<1> QED BY <1>2, <1>3

LEMMA RecordLineage == StageInv /\ LineageInv /\ Record => LineageInv'
<1> SUFFICES ASSUME StageInv, LineageInv, Record PROVE LineageInv'
  OBVIOUS
<1> USE DEF LineageInv
<1>1. UNCHANGED <<verdict, rows, together>> /\ rows = {} /\ pending \subseteq Alerts
  BY DEF Record, RowsToCopy, StageInv, TypeOK
<1>2. \A a \in Alerts \ pending : dedup'[a] = dedup[a]
  BY RecordIsMade
<1>3. \A a \in Alerts : dedup[a] # "none" => a \notin pending
  BY DEF StageInv, MemoryInv
<1>4. RowsAgree'
  <2> SUFFICES ASSUME NEW c \in ClusterIds, NEW a \in Alerts
               PROVE  /\ cluster'[c][a] = "member" => dedup'[a] = "skipped"
                      /\ cluster'[c][a] = "canonical" => dedup'[a] = "done"
    BY DEF RowsAgree
  <2>1. CASE cluster'[c][a] = cluster[c][a] /\ (a \notin pending \/ cluster[c][a] = "none")
    BY <1>2, <2>1 DEF RowsAgree
  <2>2. CASE \E k \in clusters :
               /\ cluster'[c][a] = IF k.canonical = a THEN "canonical" ELSE "member"
               /\ dedup'[a] = IF k.canonical = a THEN "done" ELSE "skipped"
    BY <2>2
  <2> QED BY <2>1, <2>2, RecordedRow
<1>5. RowsOfKin'
  <2> SUFFICES ASSUME NEW c \in ClusterIds, NEW a \in Alerts
               PROVE  /\ c[1] = "path" /\ cluster'[c][a] # "none" => UpgradePath[a] = c[2]
                      /\ c[1] = "agent" /\ cluster'[c][a] = "canonical" => a = c[2]
                      /\ c[1] = "agent" /\ cluster'[c][a] = "member" =>
                           \E S \in together : {a, c[2]} \subseteq S
    BY <1>1 DEF RowsOfKin
  <2>1. CASE cluster'[c][a] = cluster[c][a]
    BY <2>1 DEF RowsOfKin
  <2>2. ASSUME NEW k \in clusters, a \in k.members, c = k.id,
               cluster'[c][a] = IF k.canonical = a THEN "canonical" ELSE "member"
        PROVE  /\ c[1] = "path" => UpgradePath[a] = c[2]
               /\ c[1] = "agent" /\ cluster'[c][a] = "canonical" => a = c[2]
               /\ c[1] = "agent" => \E S \in together : {a, c[2]} \subseteq S
    <3>1. CASE k \in TrivialClusters(pending)
      <4>1. k.id = <<"path", UpgradePath[a]>>
        BY <1>1, <2>2, <3>1, TrivialCluster
      <4> QED BY <2>2, <4>1
    <3>2. CASE k \notin TrivialClusters(pending)
      <4>1. /\ k.id = <<"agent", k.canonical>> /\ k.canonical \in k.members
            /\ \E S \in together : k.members \subseteq S
        BY <3>2 DEF StageInv, MemoryInv, Sound
      <4> QED BY <2>2, <4>1
    <3> QED BY <3>1, <3>2
  <2> QED BY <2>1, <2>2, RecordedRow
<1>6. RowsToCopy'
  BY <1>1 DEF RowsToCopy
<1>7. OwnVerdict'
  BY <1>1, <1>2, <1>3 DEF OwnVerdict
<1>8. NamesItsReasoner'
  <2> SUFFICES ASSUME NEW a \in Alerts, verdict[a].from # NoAlert
               PROVE  /\ verdict[a].about = verdict[a].from
                      /\ dedup'[verdict[a].from] = "done" /\ dedup'[a] = "skipped"
    BY <1>1 DEF NamesItsReasoner
  <2>1. verdict[a].from \in Alerts
    BY DEF StageInv, TypeOK
  <2> QED BY <1>2, <1>3, <2>1 DEF NamesItsReasoner
<1>9. InheritsFromKin'
  BY <1>1 DEF InheritsFromKin
<1> QED BY <1>4, <1>5, <1>6, <1>7, <1>8, <1>9

\* What is copied is a verdict of the canonical's own: the canonical was kept by
\* the stage, and who inherits was not.
LEMMA InheritLineage ==
  ASSUME StageInv, LineageInv, NEW c \in ClusterIds, NEW a \in Alerts, Inherit(c, a)
  PROVE  LineageInv'
<1> USE DEF LineageInv
<1>1. PICK b \in Canonicals(c) :
        /\ verdict[b] # NoVerdict
        /\ verdict' = [verdict EXCEPT ![a] = [about |-> verdict[b].about, from |-> b]]
  BY DEF Inherit
<1>2. /\ UNCHANGED <<dedup, cluster, pc, together>> /\ rows' \subseteq rows /\ pc = "propagate"
      /\ cluster[c][a] = "member" /\ b \in Alerts /\ cluster[c][b] = "canonical"
  BY <1>1 DEF Inherit, Canonicals, RowsToCopy
<1>3. dedup[a] = "skipped" /\ dedup[b] = "done"
  BY <1>2 DEF RowsAgree
<1>4. verdict[b].about = b
  BY <1>1, <1>2, <1>3 DEF OwnVerdict, NamesItsReasoner
<1>5. verdict' = [verdict EXCEPT ![a] = [about |-> b, from |-> b]]
  BY <1>1, <1>4
<1>6. UpgradePath[a] = UpgradePath[b] \/ \E S \in together : {a, b} \subseteq S
  <2>1. c[1] = "path" \/ c[1] = "agent"
    BY DEF ClusterIds
  <2> QED BY <1>2, <2>1 DEF RowsOfKin
<1>7. /\ verdict'[a] = [about |-> b, from |-> b]
      /\ \A x \in Alerts : x # a => verdict'[x] = verdict[x]
  BY <1>5 DEF StageInv, TypeOK
<1>8. RowsAgree' /\ RowsOfKin' /\ RowsToCopy'
  BY <1>2 DEF RowsAgree, RowsOfKin, RowsToCopy
<1>9. b # NoAlert
  BY <1>2, DedupAssumption
<1>10. OwnVerdict'
  BY <1>2, <1>7, <1>9 DEF OwnVerdict
<1>11. NamesItsReasoner'
  BY <1>2, <1>3, <1>7 DEF NamesItsReasoner
<1>12. InheritsFromKin'
  BY <1>2, <1>6, <1>7 DEF InheritsFromKin
<1> QED BY <1>8, <1>10, <1>11, <1>12

LEMMA LineageStep == StageInv /\ LineageInv /\ [Next]_vars => LineageInv'
<1> SUFFICES ASSUME StageInv, LineageInv, [Next]_vars PROVE LineageInv'
  OBVIOUS
<1>1. ASSUME NEW a \in Alerts, Judge(a) PROVE LineageInv'
  <2>1. /\ UNCHANGED <<dedup, cluster, pc, rows, together>> /\ dedup[a] = "done"
        /\ verdict' = [verdict EXCEPT ![a] = [about |-> a, from |-> NoAlert]]
    BY <1>1 DEF Judge
  <2>2. /\ verdict'[a] = [about |-> a, from |-> NoAlert]
        /\ \A x \in Alerts : x # a => verdict'[x] = verdict[x]
    BY <2>1 DEF StageInv, TypeOK
  <2>3. RowsAgree' /\ RowsOfKin' /\ RowsToCopy'
    BY <2>1 DEF LineageInv, RowsAgree, RowsOfKin, RowsToCopy
  <2>4. OwnVerdict'
    BY <2>1, <2>2 DEF LineageInv, OwnVerdict
  <2>5. NamesItsReasoner'
    BY <2>1, <2>2 DEF LineageInv, NamesItsReasoner
  <2>6. InheritsFromKin'
    BY <2>1, <2>2 DEF LineageInv, InheritsFromKin
  <2> QED BY <2>3, <2>4, <2>5, <2>6 DEF LineageInv
<1>2. CASE Propagate
  BY <1>2 DEF Propagate, db, LineageInv, RowsAgree, RowsOfKin, RowsToCopy, OwnVerdict,
              NamesItsReasoner, InheritsFromKin
\* Steps that write nothing dedup, judgment or propagation left in the database.
<1>3. CASE /\ UNCHANGED <<dedup, cluster, verdict>> /\ together \subseteq together'
           /\ rows' \subseteq rows /\ (rows' # {} => pc' = "propagate")
  <2>1. RowsAgree' /\ RowsToCopy' /\ OwnVerdict' /\ NamesItsReasoner'
    BY <1>3 DEF LineageInv, RowsAgree, RowsToCopy, OwnVerdict, NamesItsReasoner
  <2>2. RowsOfKin' /\ InheritsFromKin'
    BY <1>3 DEF LineageInv, RowsOfKin, InheritsFromKin
  <2> QED BY <2>1, <2>2 DEF LineageInv
<1>4. CASE Begin \/ AnswerEnds \/ Finish \/ Kill
  BY <1>3, <1>4 DEF Begin, AnswerEnds, Finish, Kill, db, LineageInv, RowsToCopy
<1>5. ASSUME NEW a \in Alerts, NothingToAsk(a) \/ Refuse(a) \/ Ask(a) PROVE LineageInv'
  BY <1>3, <1>5 DEF NothingToAsk, Refuse, Ask, db, LineageInv, RowsToCopy
<1>6. ASSUME NEW a \in Alerts, NEW members \in SUBSET Alerts, Accept(a, members) PROVE LineageInv'
  BY <1>3, <1>6 DEF Accept, db, LineageInv, RowsToCopy
<1>7. ASSUME NEW c \in ClusterIds, NEW a \in Alerts, NothingToInherit(c, a) PROVE LineageInv'
  BY <1>3, <1>7 DEF NothingToInherit, db
<1>8. CASE UNCHANGED vars
  BY <1>3, <1>8 DEF vars, db, LineageInv, RowsToCopy
<1> QED BY <1>1, <1>2, <1>4, <1>5, <1>6, <1>7, <1>8, RecordLineage, InheritLineage DEF Next, Rest

LEMMA LineageAlways == Spec => []LineageInv
<1>1. Init => LineageInv
  BY DEF Init, LineageInv, RowsAgree, RowsOfKin, RowsToCopy, OwnVerdict, NamesItsReasoner,
         InheritsFromKin, NoVerdict
<1> QED BY <1>1, StageAlways, LineageStep, PTL DEF Spec

\* Whatever is inherited was reasoned about by the alert it is inherited from,
\* over any number of passes, killed anywhere.
THEOREM InheritedFromReasoner == Spec => []NamesItsReasoner
<1>1. LineageInv => NamesItsReasoner
  BY DEF LineageInv
<1> QED BY <1>1, LineageAlways, PTL

\* And only along one upgrade path, or between alerts the agent saw together,
\* also where two passes write rows under one cluster id.
THEOREM InheritedFromKin == Spec => []InheritsFromKin
<1>1. LineageInv => InheritsFromKin
  BY DEF LineageInv
<1> QED BY <1>1, LineageAlways, PTL
=============================================================================
