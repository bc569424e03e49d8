--------------------------- MODULE GoldenSetProofs ---------------------------
(***************************************************************************)
(* Proofs about GoldenSet: the gate of the golden set, for sets of up to   *)
(* 5000 cases, any policies and any edit between the two reports; what its *)
(* labels, its rules and the pipeline's facts agree on; and the two        *)
(* searches of a lockfile they rest on.                                    *)
(***************************************************************************)
EXTENDS GoldenSet, RuleProofs, FiniteSetTheorems, TLAPS

Verdicts == Dismissing \cup {"affected", "could_not_determine"}

\* A report scores finitely many cases, each with a verdict of the schema.
IsReport(r) ==
  /\ IsFiniteSet(DOMAIN r) /\ Cardinality(DOMAIN r) <= Cardinality(Slots)
  /\ \A id \in DOMAIN r : r[id].outcome.verdict \in Verdicts

\* The gate accepted what it compared: nobody touches the reports afterwards.
GateInv ==
  /\ step \in {"edit", "rescore", "compare", "decided"} => IsReport(baseline)
  /\ step \in {"compare", "decided"} => IsReport(candidate)
  /\ step = "decided" /\ accepted => FalseNegativeRate(candidate) <= FalseNegativeRate(baseline)

\* The engine's answer is that of a rule, or none.
LEMMA OutcomesAreKnown ==
  ASSUME NEW rules \in Seq(DOMAIN OutcomeOf), NEW a, NEW f
  PROVE  Evaluate(rules, a, f) = NoOutcome \/ Evaluate(rules, a, f).verdict \in Verdicts
<1>1. ASSUME NEW rule \in DOMAIN OutcomeOf PROVE OutcomeOf[rule].verdict \in Verdicts
  BY DEF OutcomeOf, Outcome, Verdicts, Dismissing
<1> QED
  BY <1>1, SomeRuleDecided

\* A function on a finite set has finitely many values, no more than arguments.
LEMMA ImageIsFinite ==
  ASSUME NEW S, IsFiniteSet(S), NEW f, DOMAIN f = S
  PROVE  /\ IsFiniteSet({f[s] : s \in S})
         /\ Cardinality({f[s] : s \in S}) <= Cardinality(S)
<1> DEFINE T == {f[s] : s \in S}
           g == [s \in S |-> f[s]]
<1>1. g \in Surjection(S, T)
  BY DEF Surjection
<1> QED
  BY <1>1, FS_Surjection

\* Whatever the policy, scoring a set gives a report.
LEMMA ScoredIsReport ==
  ASSUME NEW rules \in RuleSets
  PROVE  IsReport(Scored(rules))
<1> DEFINE T == {t \in Slots : golden[t] # NoCase}
           ids == [s \in T |-> golden[s].id]
<1>1. IsFiniteSet(T) /\ Cardinality(T) <= Cardinality(Slots)
  BY GoldenAssumption, FS_Subset
<1>2. {g.id : g \in Cases} = {ids[s] : s \in T}
  BY DEF Cases
<1>3. /\ IsFiniteSet(DOMAIN Scored(rules))
      /\ Cardinality(DOMAIN Scored(rules)) <= Cardinality(Slots)
  <2>1. DOMAIN Scored(rules) = {g.id : g \in Cases}
    BY DEF Scored
  <2>2. DOMAIN ids = T
    OBVIOUS
  <2> HIDE DEF T, ids
  <2>3. /\ IsFiniteSet({ids[s] : s \in T})
        /\ Cardinality({ids[s] : s \in T}) <= Cardinality(T)
    BY <1>1, <2>2, ImageIsFinite
  <2>4. /\ Cardinality({ids[s] : s \in T}) \in Nat /\ Cardinality(T) \in Nat
        /\ Cardinality(Slots) \in Nat
    BY <1>1, <2>3, GoldenAssumption, FS_CardinalityType
  <2>5. Cardinality({ids[s] : s \in T}) <= Cardinality(Slots)
    BY <1>1, <2>3, <2>4
  <2> QED
    BY <1>2, <2>1, <2>3, <2>5
<1>4. ASSUME NEW g PROVE Predict(rules, g).verdict \in Verdicts
  <2> DEFINE outcome == Evaluate(rules, g.case, GoldenFacts(g))
  <2>1. rules \in Seq(DOMAIN OutcomeOf)
    BY GoldenAssumption
  <2>2. outcome = NoOutcome \/ outcome.verdict \in Verdicts
    BY <2>1, OutcomesAreKnown
  <2>3. FromEvidence(g) \in Verdicts
    BY DEF FromEvidence, Verdicts, Dismissing
  <2>4. Predict(rules, g).verdict = IF outcome # NoOutcome THEN outcome.verdict ELSE FromEvidence(g)
    BY DEF Predict
  <2> HIDE DEF outcome
  <2> QED
    BY <2>2, <2>3, <2>4
<1>5. \A id \in DOMAIN Scored(rules) : Scored(rules)[id].outcome.verdict \in Verdicts
  BY <1>4 DEF Scored
<1> QED
  BY <1>3, <1>5 DEF IsReport

\* No report exists before it is scored.
LEMMA GateInit == Init => GateInv
BY DEF Init, GateInv

\* Every step keeps the invariant; after a score only the gate looks at a report.
LEMMA GateStep == GateInv /\ [Next]_vars => GateInv'
<1> SUFFICES ASSUME GateInv, [Next]_vars PROVE GateInv'
  OBVIOUS
<1> USE DEF GateInv, IsReport
<1>1. CASE Harvest
  BY <1>1 DEF Harvest
<1>2. CASE Label
  BY <1>2 DEF Label
<1>3. CASE Load
  BY <1>3 DEF Load
<1>4. CASE ScoreBaseline
  <2>1. PICK rules \in RuleSets : baseline' = Scored(rules)
    BY <1>4 DEF ScoreBaseline
  <2>2. IsReport(baseline')
    BY <2>1, ScoredIsReport
  <2> QED
    BY <1>4, <2>2 DEF ScoreBaseline
<1>5. CASE Relabel \/ Remove \/ Keep
  BY <1>5 DEF Relabel, Remove, Keep
<1>6. CASE ScoreCandidate
  <2>1. PICK rules \in RuleSets : candidate' = Scored(rules)
    BY <1>6 DEF ScoreCandidate
  <2>2. IsReport(candidate')
    BY <2>1, ScoredIsReport
  <2> QED
    BY <1>6, <2>2 DEF ScoreCandidate
<1>7. CASE Compare
  <2>1. /\ step = "compare" /\ step' = "decided" /\ UNCHANGED <<baseline, candidate>>
        /\ accepted' = (FalseNegativeRate(candidate) <= FalseNegativeRate(baseline))
    BY <1>7 DEF Compare
  <2>2. /\ FalseNegativeRate(candidate)' = FalseNegativeRate(candidate)
        /\ FalseNegativeRate(baseline)' = FalseNegativeRate(baseline)
    BY <2>1 DEF FalseNegativeRate, Missed, WithVerdict, Reachable
  <2> QED
    BY <2>1, <2>2
<1>8. CASE Rest \/ UNCHANGED vars
  <2>1. UNCHANGED <<step, baseline, candidate, accepted>>
    BY <1>8 DEF Rest, vars
  <2>2. /\ FalseNegativeRate(candidate)' = FalseNegativeRate(candidate)
        /\ FalseNegativeRate(baseline)' = FalseNegativeRate(baseline)
    BY <2>1 DEF FalseNegativeRate, Missed, WithVerdict, Reachable
  <2> QED
    BY <2>1, <2>2
<1> QED
  BY <1>1, <1>2, <1>3, <1>4, <1>5, <1>6, <1>7, <1>8 DEF Next

-----------------------------------------------------------------------------
(* The gate.                                                                *)

\* Four digits tell two counts of the same cases apart, however a tie is rounded.
LEMMA RoundedTellsApart ==
  ASSUME NEW n \in Nat, n # 0, n <= 5000, NEW j \in Nat, NEW k \in Nat,
         Rounded(k, n) <= Rounded(j, n)
  PROVE  k <= j
<1> DEFINE qj == (10000 * j) \div n
           rj == (10000 * j) % n
           qk == (10000 * k) \div n
           rk == (10000 * k) % n
<1>1. /\ qj \in Nat /\ rj \in 0..(n - 1) /\ 10000 * j = n * qj + rj
      /\ qk \in Nat /\ rk \in 0..(n - 1) /\ 10000 * k = n * qk + rk
  <2>1. ASSUME NEW a \in Nat
        PROVE  /\ a \div n \in Nat /\ a % n \in 0..(n - 1) /\ a = n * (a \div n) + (a % n)
    OBVIOUS
  <2>2. 10000 * j \in Nat /\ 10000 * k \in Nat
    OBVIOUS
  <2> QED BY <2>1, <2>2
<1>2. Rounded(j, n) <= qj + 1 /\ qk <= Rounded(k, n)
  <2>1. Rounded(j, n) \in {qj, qj + 1} /\ Rounded(k, n) \in {qk, qk + 1}
    BY DEF Rounded
  <2> HIDE DEF qj, qk, rj, rk
  <2> QED BY <1>1, <2>1
<1> HIDE DEF qj, qk, rj, rk
<1> SUFFICES ASSUME k >= j + 1 PROVE FALSE
  OBVIOUS
<1>3. qk <= qj + 1
  <2>1. Rounded(j, n) \in Int /\ Rounded(k, n) \in Int
    BY DEF Rounded
  <2> QED BY <1>1, <1>2, <2>1
<1>4. n * qk <= n * (qj + 1)
  <2>1. n * (qj + 1 - qk) >= 0
    BY <1>1, <1>3
  <2> QED BY <1>1, <2>1
<1>5. n * (qj + 1) = n * qj + n
  BY <1>1
<1>6. 10000 * k < 10000 * j + 2 * n
  <2>1. n * qk \in Int /\ n * qj \in Int
    BY <1>1
  <2> QED BY <1>1, <1>4, <1>5, <2>1
<1> QED BY <1>6

\* A reachable case is missed, abstained on or escalated.
LEMMA ReachableSplits ==
  ASSUME NEW r, IsReport(r)
  PROVE  /\ IsFiniteSet(Reachable(r)) /\ IsFiniteSet(Missed(r)) /\ IsFiniteSet(Abstained(r))
         /\ Cardinality(Escalated(r)) =
              Cardinality(Reachable(r)) - Cardinality(Missed(r)) - Cardinality(Abstained(r))
<1>1. IsFiniteSet(Reachable(r))
  BY FS_Subset DEF IsReport, Reachable
<1>2. Missed(r) \subseteq Reachable(r) /\ Abstained(r) \subseteq Reachable(r)
  BY DEF Missed, Abstained, WithVerdict
<1>3. IsFiniteSet(Missed(r)) /\ IsFiniteSet(Abstained(r))
  BY <1>1, <1>2, FS_Subset
<1>4. Missed(r) \cap Abstained(r) = {}
  BY DEF Missed, Abstained, WithVerdict, Dismissing
<1>5. Escalated(r) = Reachable(r) \ (Missed(r) \cup Abstained(r))
  BY DEF Escalated, Missed, Abstained, WithVerdict, Dismissing, IsReport, Verdicts, Reachable
<1>6. Cardinality(Missed(r) \cup Abstained(r)) = Cardinality(Missed(r)) + Cardinality(Abstained(r))
  <2>1. Cardinality(Missed(r) \cup Abstained(r)) =
          Cardinality(Missed(r)) + Cardinality(Abstained(r)) - Cardinality(Missed(r) \cap Abstained(r))
    BY <1>3, FS_Union
  <2>2. Cardinality(Missed(r) \cap Abstained(r)) = 0
    BY <1>4, FS_EmptySet
  <2>3. Cardinality(Missed(r)) \in Nat /\ Cardinality(Abstained(r)) \in Nat
    BY <1>3, FS_CardinalityType
  <2> QED
    BY <2>1, <2>2, <2>3
<1>7. Cardinality(Escalated(r)) =
        Cardinality(Reachable(r)) - Cardinality(Missed(r) \cup Abstained(r))
  <2>1. Reachable(r) \cap (Missed(r) \cup Abstained(r)) = Missed(r) \cup Abstained(r)
    BY <1>2
  <2> QED
    BY <1>1, <1>5, <2>1, FS_Difference
<1>8. /\ Cardinality(Reachable(r)) \in Nat
      /\ Cardinality(Missed(r)) \in Nat /\ Cardinality(Abstained(r)) \in Nat
  BY <1>1, <1>3, FS_CardinalityType
<1> QED
  BY <1>1, <1>3, <1>6, <1>7, <1>8

\* For a set of any content, any two policies and any edit that leaves the cases
\* and their labels alone, an accepted change dismisses no more of the reachable
\* cases: what it no longer escalates it abstains on.
THEOREM AcceptedTradesNoMiss == Spec => []AcceptedPaysInAbstentions
<1>1. GateInv => AcceptedPaysInAbstentions
  <2> SUFFICES ASSUME GateInv, step = "decided", accepted,
                      DOMAIN baseline = DOMAIN candidate,
                      \A id \in DOMAIN baseline : baseline[id].label = candidate[id].label
               PROVE  Cardinality(Escalated(baseline)) - Cardinality(Escalated(candidate))
                        <= Cardinality(Abstained(candidate)) - Cardinality(Abstained(baseline))
    BY DEF AcceptedPaysInAbstentions
  <2>1. IsReport(baseline) /\ IsReport(candidate)
    BY DEF GateInv
  <2>2. FalseNegativeRate(candidate) <= FalseNegativeRate(baseline)
    BY DEF GateInv
  <2>3. Reachable(candidate) = Reachable(baseline)
    BY DEF Reachable
  <2> DEFINE n == Cardinality(Reachable(baseline))
             new == Cardinality(Missed(candidate))
             old == Cardinality(Missed(baseline))
  <2>4. \A r \in {baseline, candidate} :
          /\ Cardinality(Reachable(r)) \in Nat
          /\ Cardinality(Missed(r)) \in Nat /\ Cardinality(Abstained(r)) \in Nat
    BY <2>1, ReachableSplits, FS_CardinalityType
  <2>5. n <= 5000 /\ old <= n /\ new <= n
    <3>1. Cardinality(Reachable(baseline)) <= Cardinality(DOMAIN baseline)
      BY <2>1, FS_Subset DEF Reachable, IsReport
    <3>2. Cardinality(DOMAIN baseline) \in Nat /\ Cardinality(Slots) \in Nat
      BY <2>1, GoldenAssumption, FS_CardinalityType DEF IsReport
    <3>3. n <= 5000
      BY <2>1, <2>4, <3>1, <3>2, GoldenAssumption DEF IsReport
    <3>4. \A r \in {baseline, candidate} : Missed(r) \subseteq Reachable(r)
      BY DEF Missed, WithVerdict
    <3>5. IsFiniteSet(Reachable(baseline))
      BY <2>1, ReachableSplits
    <3> QED BY <2>3, <3>3, <3>4, <3>5, FS_Subset
  <2>6. new <= old
    <3>1. CASE Reachable(baseline) = {}
      <4>1. n = 0
        BY <3>1, FS_EmptySet
      <4> HIDE DEF n, new, old
      <4> QED BY <2>4, <2>5, <4>1 DEF new, old
    <3>2. CASE Reachable(baseline) # {}
      <4>1. n # 0
        BY <2>1, <3>2, ReachableSplits, FS_EmptySet
      <4>2. Rounded(new, n) <= Rounded(old, n)
        BY <2>2, <2>3, <3>2 DEF FalseNegativeRate
      <4>3. n \in Nat /\ new \in Nat /\ old \in Nat
        BY <2>4
      <4> HIDE DEF n, new, old
      <4> QED BY <2>5, <4>1, <4>2, <4>3, RoundedTellsApart
    <3> QED BY <3>1, <3>2
  <2> QED
    BY <2>1, <2>3, <2>4, <2>6, ReachableSplits
<1> QED
  BY <1>1, GateInit, GateStep, PTL DEF Spec

-----------------------------------------------------------------------------
(* What a report is about.                                                  *)

Harvested == \A s \in Slots : \E found \in Candidates : entry[s] = Entry(found)

\* The case a slot has by the labelling protocol, with whatever number.
Protocol(s, g) ==
  \E given \in BOOLEAN : \E truth \in Truths(s, given) : \E number : g = Labelled(s, truth, number)

\* The same case with a label somebody may have corrected.
Filed(s, g) ==
  /\ g.label \in Labels
  /\ \E h : /\ Protocol(s, h)
            /\ g.case = h.case /\ g.measured = h.measured
            /\ g.index = h.index /\ g.shipped = h.shipped /\ g.superseded = h.superseded

\* A report's row is one policy's answer on one case.
Row(rules, g) == [case |-> g, label |-> g.label, outcome |-> Predict(rules, g)]

SetInv ==
  /\ step \in {"harvest", "label", "load", "score", "edit", "rescore", "compare", "decided", "refused"}
  /\ accepted \in BOOLEAN
  /\ DOMAIN golden = Slots
  /\ IF step = "harvest" THEN \A s \in Slots : entry[s] = NoCase ELSE Harvested
  /\ step \in {"load", "score", "edit"} => \A s \in Slots : Protocol(s, golden[s])
  /\ step \in {"score", "edit"} =>
       \A s, t \in Slots : s # t => golden[s].id # golden[t].id
  /\ step \in {"rescore", "compare", "decided"} =>
       \A s \in Slots : golden[s] = NoCase \/ Filed(s, golden[s])
  /\ step \in {"harvest", "label", "load", "score", "refused"} => baseline = NoReport
  /\ step \notin {"compare", "decided"} => candidate = NoReport
  /\ baseline # NoReport =>
       \A id \in DOMAIN baseline : \E s \in Slots, rules \in RuleSets : \E g :
         Protocol(s, g) /\ baseline[id] = Row(rules, g)
  /\ candidate # NoReport =>
       \A id \in DOMAIN candidate : \E s \in Slots, rules \in RuleSets : \E g :
         Filed(s, g) /\ candidate[id] = Row(rules, g)

\* A report answers for each case id with one of the cases that have it.
LEMMA ScoredRow ==
  ASSUME NEW rules \in RuleSets, NEW id \in DOMAIN Scored(rules)
  PROVE  \E s \in Slots : golden[s] # NoCase /\ Scored(rules)[id] = Row(rules, golden[s])
<1> DEFINE g == CHOOSE h \in Cases : h.id = id
<1>1. \E h \in Cases : h.id = id
  BY DEF Scored
<1>2. g \in Cases
  BY <1>1
<1>3. Scored(rules)[id] = Row(rules, g)
  BY DEF Scored, Row
<1> HIDE DEF g
<1> QED BY <1>2, <1>3 DEF Cases

\* Whatever the protocol is given, its label is one of the three.
LEMMA ProtocolIsFiled ==
  ASSUME Harvested, NEW s \in Slots, NEW g, Protocol(s, g)
  PROVE  Filed(s, g)
<1>1. PICK truth, number : g = Labelled(s, truth, number)
  BY DEF Protocol
<1>2. PICK found \in Candidates : entry[s] = Entry(found)
  BY DEF Harvested
<1>3. entry[s].proposed \in Labels
  BY <1>2 DEF Entry, ProposeLabel, Labels
<1>4. g.label \in Labels
  BY <1>1, <1>3 DEF Labelled, Labels
<1> QED BY <1>4 DEF Filed

\* What a slot's case may be follows from what was harvested.
LEMMA ProtocolKept ==
  ASSUME UNCHANGED entry
  PROVE  /\ \A s, g : Protocol(s, g)' <=> Protocol(s, g)
         /\ \A s, g : Filed(s, g)' <=> Filed(s, g)
         /\ Harvested' <=> Harvested
<1>1. \A s, truth, number : Labelled(s, truth, number)' = Labelled(s, truth, number)
  BY DEF Labelled
<1>2. \A s, given : Truths(s, given)' = Truths(s, given)
  <2>1. \A advisory : Analyses(advisory)' = Analyses(advisory)
    BY DEF Analyses
  <2> QED BY <2>1 DEF Truths
<1>3. \A s, g : Protocol(s, g)' <=> Protocol(s, g)
  BY <1>1, <1>2 DEF Protocol
<1> QED BY <1>3 DEF Filed, Harvested

\* Nothing is filed or scored at first.
LEMMA SetInit == Init => SetInv
<1> SUFFICES ASSUME Init PROVE SetInv
  OBVIOUS
<1>1. accepted \in BOOLEAN
  BY Zenon DEF Init
<1> QED BY <1>1 DEF Init, SetInv

\* Every step keeps the invariant: a case is filed once, relabelled or removed
\* after the baseline, and a report is a function of the cases it scored.
LEMMA SetStep == SetInv /\ [Next]_vars => SetInv'
<1> SUFFICES ASSUME SetInv, [Next]_vars PROVE SetInv'
  OBVIOUS
<1> USE DEF SetInv
<1>1. CASE Harvest
  <2>1. /\ step = "harvest" /\ step' = "label"
        /\ UNCHANGED <<golden, baseline, candidate, accepted>>
    BY <1>1 DEF Harvest
  <2>2. Harvested'
    BY <1>1 DEF Harvest, Harvested
  <2> QED BY <2>1, <2>2
<1>2. CASE Label
  <2>1. /\ step = "label" /\ step' = "load"
        /\ UNCHANGED <<entry, baseline, candidate, accepted>>
    BY <1>2 DEF Label
  <2>2. PICK given \in BOOLEAN, together \in BOOLEAN,
             truth \in [Slots -> {Unknown, Present, PathFromEntry}] :
          /\ \A s \in Slots : truth[s] \in Truths(s, given)
          /\ golden' = [s \in Slots |->
               Labelled(s, truth[s], IF together THEN Cardinality(Before(s)) + 1 ELSE 1)]
    BY <1>2 DEF Label
  <2>3. \A s \in Slots : Protocol(s, golden'[s])
    BY <2>2 DEF Protocol
  <2>4. DOMAIN golden' = Slots
    BY <2>2
  <2> QED BY <2>1, <2>3, <2>4, ProtocolKept
<1>3. CASE Load
  <2>1. /\ step = "load" /\ UNCHANGED <<entry, golden, baseline, candidate, accepted>>
        /\ step' = IF \E s, t \in Slots : s # t /\ golden[s].id = golden[t].id
                   THEN "refused" ELSE "score"
    BY <1>3 DEF Load
  <2> QED BY <2>1, ProtocolKept
<1>4. CASE ScoreBaseline
  <2>1. PICK rules \in RuleSets : baseline' = Scored(rules)
    BY <1>4 DEF ScoreBaseline
  <2>2. step = "score" /\ step' = "edit" /\ UNCHANGED <<entry, golden, candidate, accepted>>
    BY <1>4 DEF ScoreBaseline
  <2>3. ASSUME NEW id \in DOMAIN baseline'
        PROVE  \E s \in Slots, r \in RuleSets : \E g : Protocol(s, g) /\ baseline'[id] = Row(r, g)
    <3>1. id \in DOMAIN Scored(rules)
      BY <2>1
    <3>2. PICK s \in Slots : golden[s] # NoCase /\ Scored(rules)[id] = Row(rules, golden[s])
      BY <3>1, ScoredRow
    <3>3. Protocol(s, golden[s]) /\ baseline'[id] = Row(rules, golden[s])
      BY <2>1, <2>2, <3>2
    <3> QED BY <3>3
  <2> QED BY <2>2, <2>3, ProtocolKept
<1>5. CASE Relabel \/ Remove \/ Keep
  <2>1. step = "edit" /\ step' = "rescore" /\ UNCHANGED <<entry, baseline, candidate, accepted>>
    BY <1>5 DEF Relabel, Remove, Keep
  <2>2. DOMAIN golden' = Slots
    BY <1>5 DEF Relabel, Remove, Keep
  <2>3. ASSUME NEW s \in Slots PROVE golden'[s] = NoCase \/ Filed(s, golden'[s])
    <3>1. Protocol(s, golden[s]) /\ Filed(s, golden[s])
      BY <2>1, ProtocolIsFiled
    <3>2. CASE golden'[s] = golden[s] \/ golden'[s] = NoCase
      BY <3>1, <3>2
    <3>3. CASE \E label \in Labels : golden'[s] = [golden[s] EXCEPT !.label = label]
      <4>1. PICK label \in Labels : golden'[s] = [golden[s] EXCEPT !.label = label]
        BY <3>3
      <4>2. PICK truth, number : golden[s] = Labelled(s, truth, number)
        BY <3>1 DEF Protocol
      <4>3. /\ golden'[s].label = label
            /\ golden'[s].case = golden[s].case /\ golden'[s].measured = golden[s].measured
            /\ golden'[s].index = golden[s].index /\ golden'[s].shipped = golden[s].shipped
            /\ golden'[s].superseded = golden[s].superseded
        BY <4>1, <4>2 DEF Labelled
      <4> QED BY <3>1, <4>3 DEF Filed
    <3> QED BY <1>5, <3>2, <3>3 DEF Relabel, Remove, Keep
  <2> QED BY <2>1, <2>2, <2>3, ProtocolKept
<1>6. CASE ScoreCandidate
  <2>1. PICK rules \in RuleSets : candidate' = Scored(rules)
    BY <1>6 DEF ScoreCandidate
  <2>2. step = "rescore" /\ step' = "compare" /\ UNCHANGED <<entry, golden, baseline, accepted>>
    BY <1>6 DEF ScoreCandidate
  <2>3. ASSUME NEW id \in DOMAIN candidate'
        PROVE  \E s \in Slots, r \in RuleSets : \E g : Filed(s, g) /\ candidate'[id] = Row(r, g)
    <3>1. id \in DOMAIN Scored(rules)
      BY <2>1
    <3>2. PICK s \in Slots : golden[s] # NoCase /\ Scored(rules)[id] = Row(rules, golden[s])
      BY <3>1, ScoredRow
    <3>3. Filed(s, golden[s]) /\ candidate'[id] = Row(rules, golden[s])
      BY <2>1, <2>2, <3>2
    <3> QED BY <3>3
  <2> QED BY <2>2, <2>3, ProtocolKept
<1>7. CASE Compare
  <2>1. step = "compare" /\ step' = "decided" /\ UNCHANGED <<entry, golden, baseline, candidate>>
    BY <1>7 DEF Compare
  <2>2. accepted' \in BOOLEAN
    <3>1. accepted' = (FalseNegativeRate(candidate) <= FalseNegativeRate(baseline))
      BY <1>7 DEF Compare
    <3>2. (FalseNegativeRate(candidate) <= FalseNegativeRate(baseline)) \in BOOLEAN
      BY SMT
    <3> QED BY <3>1, <3>2, Zenon
  <2> QED BY <2>1, <2>2, ProtocolKept
<1>8. CASE Rest \/ UNCHANGED vars
  <2>1. UNCHANGED <<step, entry, golden, baseline, candidate, accepted>>
    BY <1>8 DEF Rest, vars
  <2> QED BY <2>1, ProtocolKept
<1> QED
  BY <1>1, <1>2, <1>3, <1>4, <1>5, <1>6, <1>7, <1>8 DEF Next

\* The invariant holds in every reachable state.
LEMMA SetAlways == Spec => []SetInv
BY SetInit, SetStep, PTL DEF Spec

-----------------------------------------------------------------------------
(* What a case in a report rests on.                                        *)

\* Every row of a report is about a harvested candidate, with the facts and the
\* evidence its harvest or its ground truth gave it.
LEMMA ReportRow ==
  ASSUME SetInv, NEW r \in Reports, NEW id \in DOMAIN r
  PROVE  \E s \in Slots, rules \in RuleSets, found \in Candidates :
         \E g, given, truth, number :
           /\ r[id] = Row(rules, g)
           /\ entry[s] = Entry(found) /\ truth \in Truths(s, given)
           /\ g.label \in Labels
           /\ g.case = entry[s].case
           /\ g.index = entry[s].index /\ g.shipped = entry[s].shipped
           /\ g.measured = Labelled(s, truth, number).measured
           /\ r = baseline => g.label = Labelled(s, truth, number).label
<1>1. Harvested
  BY DEF SetInv, Reports
<1>2. CASE r = baseline
  <2>1. PICK s \in Slots, rules \in RuleSets : \E g : Protocol(s, g) /\ r[id] = Row(rules, g)
    BY <1>2 DEF SetInv, Reports
  <2>2. PICK g : Protocol(s, g) /\ r[id] = Row(rules, g)
    BY <2>1
  <2>3. g.label \in Labels
    BY <1>1, <2>2, ProtocolIsFiled DEF Filed
  <2>4. PICK given \in BOOLEAN : \E truth \in Truths(s, given) : \E number : g = Labelled(s, truth, number)
    BY <2>2 DEF Protocol
  <2>5. PICK truth, number : truth \in Truths(s, given) /\ g = Labelled(s, truth, number)
    BY <2>4
  <2>6. PICK found \in Candidates : entry[s] = Entry(found)
    BY <1>1 DEF Harvested
  <2>7. /\ g.case = entry[s].case /\ g.index = entry[s].index /\ g.shipped = entry[s].shipped
    BY <2>5 DEF Labelled
  <2> QED BY <2>2, <2>3, <2>5, <2>6, <2>7
<1>3. CASE r # baseline
  <2>1. PICK s \in Slots, rules \in RuleSets : \E g : Filed(s, g) /\ r[id] = Row(rules, g)
    BY <1>3 DEF SetInv, Reports
  <2>2. PICK g : Filed(s, g) /\ r[id] = Row(rules, g)
    BY <2>1
  <2>3. PICK h : /\ Protocol(s, h)
                 /\ g.case = h.case /\ g.measured = h.measured
                 /\ g.index = h.index /\ g.shipped = h.shipped
    BY <2>2 DEF Filed
  <2>4. PICK given \in BOOLEAN : \E truth \in Truths(s, given) : \E number : h = Labelled(s, truth, number)
    BY <2>3 DEF Protocol
  <2>5. PICK truth, number : truth \in Truths(s, given) /\ h = Labelled(s, truth, number)
    BY <2>4
  <2>6. PICK found \in Candidates : entry[s] = Entry(found)
    BY <1>1 DEF Harvested
  <2>7. /\ g.case = entry[s].case /\ g.index = entry[s].index /\ g.shipped = entry[s].shipped
        /\ g.measured = Labelled(s, truth, number).measured
    BY <2>3, <2>5 DEF Labelled
  <2>8. g.label \in Labels
    BY <2>2 DEF Filed
  <2> QED BY <1>3, <2>2, <2>5, <2>6, <2>7, <2>8
<1> QED BY <1>2, <1>3

\* What a harvest records of a candidate, apart from what it is about.
LEMMA EntryFacts ==
  ASSUME NEW found \in Candidates
  PROVE  LET e == Entry(found) IN
         /\ AtOrAbove(e.case.resolved, e.case.patched) # "yes"
         /\ e.case.tree # Unknown
         /\ e.shipped = Shipped(e.case) /\ e.measured = EvidenceFacts(e.case)
         /\ e.proposed = ProposeLabel(e.case) /\ e.dependents = Dependents(e.case)
         /\ e.case.eco = found.eco /\ e.case.package = found.package /\ e.case.tree = found.tree
         /\ Scannable(e.case.eco) => e.index = IndexNames(e.case.tree)
<1> DEFINE c == [found EXCEPT !.patched = PatchedVersion(found.events, found.resolved)]
<1>1. /\ Entry(found).case = c /\ Entry(found).shipped = Shipped(c)
      /\ Entry(found).measured = EvidenceFacts(c) /\ Entry(found).proposed = ProposeLabel(c)
      /\ Entry(found).dependents = Dependents(c)
      /\ Scannable(c.eco) => Entry(found).index = IndexNames(c.tree)
  BY DEF Entry
<1>2. /\ c.resolved = found.resolved /\ c.patched = PatchedVersion(found.events, found.resolved)
  BY CandidatesAssumption
<1>3. AtOrAbove(c.resolved, c.patched) # "yes"
  BY <1>2, PatchedIsAbove, CandidatesAssumption
<1>4. c.tree # Unknown /\ c.eco = found.eco /\ c.package = found.package /\ c.tree = found.tree
  BY CandidatesAssumption
<1> QED BY <1>1, <1>3, <1>4

\* A policy's row names the rule that decided the case.
LEMMA RowByRule ==
  ASSUME NEW rules \in RuleSets, NEW g, Predict(rules, g).by = "policy"
  PROVE  \E rule \in DOMAIN OutcomeOf :
           /\ Decides(rule, g.case, GoldenFacts(g))
           /\ Predict(rules, g).rule = rule /\ Predict(rules, g).verdict = OutcomeOf[rule].verdict
<1> DEFINE outcome == Evaluate(rules, g.case, GoldenFacts(g))
<1>1. outcome # NoOutcome
  BY DEF Predict
<1>2. Predict(rules, g).rule = outcome.rule /\ Predict(rules, g).verdict = outcome.verdict
  BY <1>1 DEF Predict
<1>3. PICK rule \in DOMAIN OutcomeOf : Decides(rule, g.case, GoldenFacts(g)) /\ outcome = OutcomeOf[rule]
  BY <1>1, SomeRuleDecided, GoldenAssumption
<1> HIDE DEF outcome
<1> QED BY <1>2, <1>3, OutcomesAreNamed

\* Every report is about harvested cases, and a set that is scored names no two
\* cases alike.
THEOREM GoldenTypes == Spec => []TypeOK
<1>1. SetInv /\ GateInv => TypeOK
  <2> SUFFICES ASSUME SetInv, GateInv PROVE TypeOK
    OBVIOUS
  <2>1. ASSUME NEW r \in Reports, NEW id \in DOMAIN r
        PROVE  /\ r[id].label \in Labels
               /\ r[id].outcome.verdict \in Dismissing \cup {"affected", "could_not_determine"}
               /\ \E s \in Slots : r[id].case.case = entry[s].case
    <3>1. IsReport(r)
      BY DEF SetInv, GateInv, Reports
    <3> QED BY <3>1, ReportRow DEF Row, IsReport, Verdicts
  <2>2. step \in {"score", "edit"} => Cardinality({golden[s].id : s \in Slots}) = Cardinality(Slots)
    <3> SUFFICES ASSUME step \in {"score", "edit"}
                 PROVE  Cardinality({golden[s].id : s \in Slots}) = Cardinality(Slots)
      OBVIOUS
    <3> DEFINE ids == [s \in Slots |-> golden[s].id]
               T   == {golden[s].id : s \in Slots}
    <3>1. ids \in Bijection(Slots, T)
      BY DEF SetInv, Bijection, Injection, Surjection, IsInjective
    <3> HIDE DEF ids, T
    <3>2. Cardinality(Slots) = Cardinality(T)
      BY <3>1, GoldenAssumption, FS_Bijection DEF ExistsBijection
    <3> QED BY <3>2 DEF T
  <2> QED BY <2>1, <2>2 DEF TypeOK, SetInv
<1> QED BY <1>1, SetAlways, GateInit, GateStep, PTL DEF Spec

\* Whatever the tools did, a case dismissed on its evidence was measured.
THEOREM EvidenceIsMeasured == Spec => []DismissalIsMeasured
<1>1. SetInv => DismissalIsMeasured
  <2> SUFFICES ASSUME SetInv, NEW r \in Reports, NEW id \in DOMAIN r, r[id].outcome.by = "evidence"
               PROVE  LET c == r[id].case.case IN
                      IF IsGo(c) THEN Analyses(c.advisory) # {} ELSE c.out.kind = "ran"
    BY DEF DismissalIsMeasured
  <2>1. PICK s \in Slots, rules \in RuleSets, found \in Candidates :
        \E g, given, truth, number :
           /\ r[id] = Row(rules, g)
           /\ entry[s] = Entry(found) /\ truth \in Truths(s, given)
           /\ g.case = entry[s].case
           /\ g.measured = Labelled(s, truth, number).measured
    BY ReportRow
  <2>2. PICK g, given, truth, number :
           /\ r[id] = Row(rules, g)
           /\ entry[s] = Entry(found) /\ truth \in Truths(s, given)
           /\ g.case = entry[s].case
           /\ g.measured = Labelled(s, truth, number).measured
    BY <2>1
  <2> DEFINE c == g.case
  <2>3. r[id].case.case = c /\ Predict(rules, g).by = "evidence"
    BY <2>2 DEF Row
  <2>4. IsMeasurement(g)
    BY <2>3 DEF Predict
  <2>5. entry[s].measured = EvidenceFacts(c) /\ entry[s].case = c
    BY <2>2, EntryFacts
  <2>6. CASE IsGo(c) /\ truth # Unknown
    BY <2>2, <2>3, <2>5, <2>6 DEF Truths
  <2>7. CASE IsGo(c) /\ truth = Unknown
    <3>1. g.measured = GovulncheckLevel(c.out)
      BY <2>2, <2>5, <2>7 DEF Labelled, EvidenceFacts
    <3>2. Findings(c.out) # {}
      BY <2>4, <3>1 DEF IsMeasurement, GovulncheckLevel, NoEvidence
    <3>3. s \in Analyses(c.advisory)
      BY <2>5, <2>7, <3>2 DEF Analyses
    <3> QED BY <2>3, <2>7, <3>3
  <2>8. CASE ~IsGo(c)
    <3>1. g.measured = EvidenceFacts(c)
      BY <2>2, <2>5, <2>8 DEF Labelled
    <3>2. Reachability(c.eco, c.out).method # "failed"
      BY <2>4, <2>8, <3>1 DEF IsMeasurement, EvidenceFacts, NoEvidence
    <3>3. c.out.kind = "ran"
      BY <2>8, <3>2 DEF IsGo, Reachability, PythonReachability, Failed
    <3> QED BY <2>3, <2>8, <3>3
  <2> QED BY <2>6, <2>7, <2>8
<1> QED BY <1>1, SetAlways, PTL

\* Whatever the tree, the policy and the ground truth, a rule dismisses a case the
\* protocol calls reachable only where the index passes over every file the
\* labeller read the import in and the closure does not begin at the package.
THEOREM RulesAgreeWithLabels == Spec => []RuleMissesAreUnindexed
<1>1. SetInv => RuleMissesAreUnindexed
  <2> SUFFICES ASSUME SetInv, baseline # NoReport, NEW id \in Missed(baseline),
                      baseline[id].outcome.by = "policy"
               PROVE  LET c       == baseline[id].case.case
                          finders == {f \in c.tree.files : GatherReads(f) /\ c.package \in f.names} IN
                      /\ baseline[id].outcome.rule = "not_imported" /\ c.eco = "npm"
                      /\ finders # {} /\ \A f \in finders : ~IndexReads(f)
                      /\ c.package \notin DOMAIN c.tree.lock \/ c.package \in HttpLike
    BY DEF RuleMissesAreUnindexed
  <2>1. /\ baseline \in Reports /\ id \in DOMAIN baseline
        /\ baseline[id].label = "reachable" /\ baseline[id].outcome.verdict \in Dismissing
    BY DEF Missed, WithVerdict, Reachable, Reports
  <2>2. PICK s \in Slots, rules \in RuleSets, found \in Candidates :
        \E g, truth, number :
           /\ baseline[id] = Row(rules, g)
           /\ entry[s] = Entry(found)
           /\ g.case = entry[s].case
           /\ g.index = entry[s].index /\ g.shipped = entry[s].shipped
           /\ g.label = Labelled(s, truth, number).label
    BY <2>1, ReportRow
  <2>3. PICK g, truth, number :
           /\ baseline[id] = Row(rules, g)
           /\ entry[s] = Entry(found)
           /\ g.case = entry[s].case
           /\ g.index = entry[s].index /\ g.shipped = entry[s].shipped
           /\ g.label = Labelled(s, truth, number).label
    BY <2>2
  <2> DEFINE c == g.case
  <2>4. /\ g.label = "reachable" /\ baseline[id].case.case = c
        /\ baseline[id].outcome = Predict(rules, g)
        /\ Predict(rules, g).by = "policy" /\ Predict(rules, g).verdict \in Dismissing
    BY <2>1, <2>3 DEF Row
  <2>5. PICK rule \in DOMAIN OutcomeOf :
          /\ Decides(rule, c, GoldenFacts(g)) /\ OutcomeOf[rule].verdict \in Dismissing
          /\ Predict(rules, g).rule = rule
    BY <2>4, RowByRule
  <2>6. rule \in {"already_fixed", "dev_only", "not_imported"}
    BY <2>5 DEF OutcomeOf, Outcome, Dismissing
  <2>7. /\ entry[s].case = c
        /\ AtOrAbove(c.resolved, c.patched) # "yes"
        /\ g.shipped = Shipped(c) /\ entry[s].proposed = ProposeLabel(c)
        /\ Scannable(c.eco) => g.index = IndexNames(c.tree)
    BY <2>3, EntryFacts
  <2>8. ~IsGo(c) => ProposeLabel(c) = "reachable"
    BY <2>3, <2>4, <2>7 DEF Labelled
  <2>9. CASE rule = "already_fixed"
    BY <2>5, <2>7, <2>9, Zenon DEF Decides, AlreadyFixed
  <2>10. CASE rule = "dev_only"
    <3>1. DevOnly(c, GoldenFacts(g))
      BY <2>5, <2>10, Zenon DEF Decides
    <3>2. c.scope = "development" /\ DevScopeIsConclusive(c.eco)
      BY <3>1 DEF DevOnly, GoldenFacts
    <3>3. c.eco \in Adapted /\ ~IsGo(c)
      BY <3>2 DEF DevScopeIsConclusive, Adapted, IsGo
    <3> QED BY <2>8, <3>2, <3>3 DEF ProposeLabel
  <2>11. CASE rule = "not_imported"
    <3>1. NotImported(c, GoldenFacts(g))
      BY <2>5, <2>11, Zenon DEF Decides
    <3>2. /\ Scannable(c.eco) /\ c.package \notin g.index /\ g.shipped # Unknown
      BY <3>1 DEF NotImported, GoldenFacts
    <3>3. ~IsGo(c)
      BY <2>7, <3>2 DEF Shipped, HasGraph, IsGo
    <3>4. c.eco = "npm" /\ g.shipped = Closure(c.tree.lock, AppSeeds(c.tree))
      BY <2>7, <3>2 DEF Shipped, HasGraph
    <3>5. c.package \in Gathered(c.tree)
      BY <2>8, <3>3 DEF ProposeLabel
    <3>6. c.package \notin IndexNames(c.tree)
      BY <2>7, <3>2
    <3> DEFINE finders == {f \in c.tree.files : GatherReads(f) /\ c.package \in f.names}
    <3>7. finders # {}
      BY <3>5 DEF Gathered, Names
    <3>8. \A f \in finders : ~IndexReads(f)
      BY <3>6 DEF IndexNames, Names
    <3>9. c.package \notin DOMAIN c.tree.lock \/ c.package \in HttpLike
      <4> SUFFICES ASSUME c.package \in DOMAIN c.tree.lock, c.package \notin HttpLike
                   PROVE  FALSE
        OBVIOUS
      <4>1. c.package \in Names(Openable(c.tree))
        BY <3>7 DEF Names, Openable, GatherReads
      <4>2. c.package \in AppSeeds(c.tree)
        BY <4>1 DEF AppSeeds
      <4>3. IsFiniteSet(Packages(c.tree.lock))
        BY <2>3, <2>7, <3>2, EntryFacts, CandidatesAssumption DEF Shipped, HasGraph
      <4>4. c.package \in g.shipped
        BY <3>4, <4>2, <4>3, ClosureIsClosed
      <4>5. c.package \notin g.shipped
        BY <3>1 DEF NotImported, GoldenFacts
      <4> QED BY <4>4, <4>5
    <3> QED BY <2>4, <2>5, <2>11, <3>4, <3>7, <3>8, <3>9
  <2> QED BY <2>6, <2>9, <2>10, <2>11
<1> QED BY <1>1, SetAlways, PTL

\* What two sets of seeds lead to is what either does.
LEMMA ClosureOfUnion ==
  ASSUME NEW graph, NEW A, NEW B, NEW C, IsFiniteSet(Packages(graph)),
         A \cap DOMAIN graph \subseteq B \cup C
  PROVE  Closure(graph, A) \subseteq Closure(graph, B) \cup Closure(graph, C)
<1> DEFINE S == Closure(graph, B) \cup Closure(graph, C)
<1>1. A \cap DOMAIN graph \subseteq S
  BY ClosureIsClosed
<1>2. /\ Grow(graph, Closure(graph, B)) = Closure(graph, B)
      /\ Grow(graph, Closure(graph, C)) = Closure(graph, C)
  BY ClosureIsClosed
<1>3. Grow(graph, S) \subseteq S
  BY <1>2 DEF Grow
<1> HIDE DEF S
<1>4. Closure(graph, A) \subseteq S
  BY <1>1, <1>3, ClosureIsLeast
<1> QED BY <1>4 DEF S

\* A case the golden set clears as not imported is cleared by the pipeline's own
\* facts on its tree, except where nothing the lockfile knows is imported or an
\* import that begins with "http" brings the package in.
THEOREM GoldenIsPipeline == Spec => []GoldenClearsLikePipeline
<1>1. SetInv => GoldenClearsLikePipeline
  <2> SUFFICES ASSUME SetInv, NEW r \in Reports, NEW id \in DOMAIN r,
                      r[id].outcome.rule = "not_imported",
                      LET c == r[id].case.case IN
                      /\ Closure(c.tree.lock, EntryNames(c.tree)) # {}
                      /\ c.package \notin Closure(c.tree.lock, EntryNames(c.tree) \cap HttpLike)
               PROVE  LET c == r[id].case.case IN
                      NotImported(c, [index |-> ImportIndex(c.tree),
                                      shipped |-> ShippedPackages(c.tree, c.eco)])
    BY DEF GoldenClearsLikePipeline
  <2>1. PICK s \in Slots, rules \in RuleSets, found \in Candidates :
        \E g :
           /\ r[id] = Row(rules, g)
           /\ entry[s] = Entry(found)
           /\ g.case = entry[s].case
           /\ g.index = entry[s].index /\ g.shipped = entry[s].shipped
    BY ReportRow
  <2>2. PICK g :
           /\ r[id] = Row(rules, g)
           /\ entry[s] = Entry(found)
           /\ g.case = entry[s].case
           /\ g.index = entry[s].index /\ g.shipped = entry[s].shipped
    BY <2>1
  <2> DEFINE c == g.case
  <2>3. r[id].case.case = c /\ Predict(rules, g).rule = "not_imported"
    BY <2>2 DEF Row
  <2>4. Predict(rules, g).by = "policy"
    BY <2>3 DEF Predict
  <2>5. NotImported(c, GoldenFacts(g))
    <3>1. Decides("not_imported", c, GoldenFacts(g))
      BY <2>3, <2>4, RowByRule
    <3> QED BY <3>1, Zenon DEF Decides
  <2>6. /\ c.tree # Unknown /\ g.shipped = Shipped(c)
        /\ Scannable(c.eco) => g.index = IndexNames(c.tree)
    BY <2>2, EntryFacts
  <2>7. /\ Scannable(c.eco)
        /\ IndexNames(c.tree) # Unknown /\ c.package \notin IndexNames(c.tree)
        /\ Shipped(c) # Unknown /\ c.package \notin Shipped(c)
    BY <2>5, <2>6 DEF NotImported, GoldenFacts
  <2>8. c.eco = "npm" /\ c.tree.lock # NoGraph
    BY <2>7 DEF Shipped, HasGraph
  <2>9. Shipped(c) = Closure(c.tree.lock, AppSeeds(c.tree))
    BY <2>8 DEF Shipped, HasGraph
  <2>10. ShippedPackages(c.tree, c.eco) = Closure(c.tree.lock, EntryNames(c.tree))
    BY <2>3, <2>6, <2>8 DEF ShippedPackages, NpmShipped
  <2>11. /\ IsFiniteSet(Packages(c.tree.lock))
         /\ \A S \in SUBSET Packages(c.tree.lock) : S # Unknown
    BY <2>2, <2>8, EntryFacts, CandidatesAssumption
  <2>12. EntryNames(c.tree) \cap DOMAIN c.tree.lock
           \subseteq AppSeeds(c.tree) \cup (EntryNames(c.tree) \cap HttpLike)
    <3>1. EntryNames(c.tree) \subseteq Names(Openable(c.tree))
      BY DEF EntryNames, Names, Openable, EntryReads
    <3> QED BY <3>1 DEF AppSeeds
  <2>13. c.package \notin Closure(c.tree.lock, EntryNames(c.tree))
    BY <2>3, <2>7, <2>9, <2>11, <2>12, ClosureOfUnion
  <2>14. Closure(c.tree.lock, EntryNames(c.tree)) # Unknown
    BY <2>11, ClosureIsClosed
  <2> QED BY <2>3, <2>6, <2>7, <2>10, <2>13, <2>14 DEF NotImported, ImportIndex
<1> QED BY <1>1, SetAlways, PTL

-----------------------------------------------------------------------------
(* The two searches of a lockfile.                                          *)

\* The rounds of the backward search, the last of them its result.
IsWalk(f, graph, package, seeds) ==
  /\ f \in [Nat -> SUBSET DOMAIN graph]
  /\ f[0] = Parents(graph, {package})
  /\ \A k \in Nat : f[k + 1] = f[k] \cup Parents(graph, (f[k] \ seeds) \ {package})
  /\ Met(graph, package, seeds) = f[MaxDepth]

\* What the backward search repeats is what its definition says.
LEMMA MetUnfolds ==
  ASSUME NEW graph, NEW package, NEW seeds
  PROVE  \E f : IsWalk(f, graph, package, seeds)
<1> DEFINE T == SUBSET DOMAIN graph
           start == Parents(graph, {package})
           Back(S) == S \cup Parents(graph, (S \ seeds) \ {package})
           F == [S \in T |-> Back(S)]
           met[k \in Nat] == IF k = 0 THEN start ELSE Back(met[k - 1])
<1>1. F \in [T -> T] /\ start \in T
  BY DEF Parents
<1>2. PICK f \in [Nat -> T] : f[0] = start /\ \A n \in Nat : f[n + 1] = F[f[n]]
  <2> HIDE DEF T, F, start
  <2> QED BY <1>1, IterationExists
<1>3. f = [k \in Nat |-> IF k = 0 THEN start ELSE Back(f[k - 1])]
  <2>1. ASSUME NEW k \in Nat PROVE f[k] = IF k = 0 THEN start ELSE Back(f[k - 1])
    <3>1. CASE k = 0
      BY <1>2, <3>1
    <3>2. CASE k # 0
      <4>1. k - 1 \in Nat /\ (k - 1) + 1 = k
        BY <3>2
      <4>2. f[k] = F[f[k - 1]] /\ f[k - 1] \in T
        BY <1>2, <4>1
      <4> QED BY <3>2, <4>2
    <3> QED BY <3>1, <3>2
  <2> HIDE DEF T, start, Back
  <2> QED BY <2>1
<1>4. met = [k \in Nat |-> IF k = 0 THEN start ELSE Back(met[k - 1])]
  <2>1. \E g : g = [k \in Nat |-> IF k = 0 THEN start ELSE Back(g[k - 1])]
    BY <1>3, Zenon
  <2> QED BY <2>1
<1>5. Met(graph, package, seeds) = met[MaxDepth]
  BY DEF Met
<1> HIDE DEF met
<1> DEFINE P == {k \in Nat : met[k] \in T}
<1>6. met[0] = start /\ \A k \in Nat : met[k + 1] = Back(met[k])
  <2>1. ASSUME NEW k \in Nat PROVE met[k + 1] = Back(met[k])
    <3>1. k + 1 \in Nat /\ k + 1 # 0 /\ (k + 1) - 1 = k
      OBVIOUS
    <3> HIDE DEF Back
    <3> QED BY <1>4, <3>1
  <2> QED BY <1>4, <2>1
<1>7. Nat \subseteq P
  <2>1. 0 \in P
    BY <1>1, <1>6
  <2>2. \A k \in Nat : k \in P => k + 1 \in P
    BY <1>6 DEF Parents
  <2> HIDE DEF P
  <2> QED BY <2>1, <2>2, InductionOverNat
<1>8. met \in [Nat -> T]
  BY <1>4, <1>7
<1> QED BY <1>5, <1>6, <1>8 DEF IsWalk

\* The search keeps what it met.
LEMMA MetGrows ==
  ASSUME NEW graph, NEW package, NEW seeds
  PROVE  /\ Parents(graph, {package}) \subseteq Met(graph, package, seeds)
         /\ Met(graph, package, seeds) \subseteq DOMAIN graph
<1>0. PICK f : IsWalk(f, graph, package, seeds)
  BY MetUnfolds
<1>1. /\ f \in [Nat -> SUBSET DOMAIN graph]
      /\ f[0] = Parents(graph, {package})
      /\ \A k \in Nat : f[k + 1] = f[k] \cup Parents(graph, (f[k] \ seeds) \ {package})
      /\ Met(graph, package, seeds) = f[MaxDepth]
  BY <1>0 DEF IsWalk
<1> DEFINE P == {k \in Nat : f[0] \subseteq f[k]}
<1>2. Nat \subseteq P
  <2>1. 0 \in P
    OBVIOUS
  <2>2. ASSUME NEW k \in Nat, k \in P PROVE k + 1 \in P
    <3>1. f[k] \subseteq f[k + 1]
      BY <1>1
    <3> QED BY <2>2, <3>1
  <2> HIDE DEF P
  <2> QED BY <2>1, <2>2, InductionOverNat
<1>3. MaxDepth \in Nat
  BY GoldenAssumption
<1>4. f[0] \subseteq f[MaxDepth]
  BY <1>2, <1>3
<1> QED BY <1>1, <1>3, <1>4

\* Whatever requires what was met requires the package.
LEMMA MetPullsIn ==
  ASSUME NEW graph, NEW package, NEW seeds, NEW n \in Met(graph, package, seeds),
         NEW S, n \in S, Grow(graph, S) \subseteq S
  PROVE  package \in S
<1>0. PICK f : IsWalk(f, graph, package, seeds)
  BY MetUnfolds
<1>1. /\ f \in [Nat -> SUBSET DOMAIN graph]
      /\ f[0] = Parents(graph, {package})
      /\ \A k \in Nat : f[k + 1] = f[k] \cup Parents(graph, (f[k] \ seeds) \ {package})
      /\ Met(graph, package, seeds) = f[MaxDepth]
  BY <1>0 DEF IsWalk
<1> DEFINE P == {k \in Nat : \A m \in f[k] : m \in S => package \in S}
<1>2. \A m \in DOMAIN graph : m \in S => graph[m] \subseteq S
  BY DEF Grow
<1>3. 0 \in P
  BY <1>1, <1>2 DEF Parents
<1>4. ASSUME NEW k \in Nat, k \in P PROVE k + 1 \in P
  <2> SUFFICES ASSUME NEW m \in f[k + 1], m \in S PROVE package \in S
    OBVIOUS
  <2>1. CASE m \in f[k]
    BY <1>4, <2>1
  <2>2. CASE m \in Parents(graph, (f[k] \ seeds) \ {package})
    <3>1. PICK x \in graph[m] : x \in f[k]
      BY <2>2 DEF Parents
    <3>2. x \in S
      BY <1>2, <2>2, <3>1 DEF Parents
    <3> QED BY <1>4, <3>1, <3>2
  <2> QED BY <1>1, <2>1, <2>2
<1>5. MaxDepth \in P
  <2> HIDE DEF P
  <2> QED BY <1>3, <1>4, InductionOverNat, GoldenAssumption
<1> QED BY <1>1, <1>5

\* A dependent the labeller reports pulls the package into every build of what
\* the application imports, whatever the lockfile and the depth.
THEOREM DependentsShip ==
  ASSUME NEW graph, NEW package, NEW seeds, IsFiniteSet(Packages(graph)),
         TransitiveDependents(graph, package, seeds) # {}
  PROVE  package \in Required(graph, seeds) \ seeds
<1>1. package \notin seeds
  BY DEF TransitiveDependents
<1>2. PICK n \in seeds : n \in Met(graph, package, seeds)
  BY DEF TransitiveDependents
<1>3. n \in Closure(graph, seeds)
  BY <1>2, MetGrows, ClosureIsClosed
<1>4. package \in Closure(graph, seeds)
  BY <1>2, <1>3, MetPullsIn, ClosureIsClosed
<1> QED BY <1>1, <1>4, ClosureIsRequired

\* A search that ended by itself misses no package of the build.
LEMMA CompleteFindsAll ==
  ASSUME NEW graph, NEW package, NEW seeds, IsFiniteSet(Packages(graph)),
         Complete(graph, package, seeds),
         package \notin seeds, TransitiveDependents(graph, package, seeds) = {}
  PROVE  package \notin Closure(graph, seeds)
<1> DEFINE M == Met(graph, package, seeds)
           S == Packages(graph) \ (M \cup {package})
<1>1. M \cap seeds = {}
  BY DEF TransitiveDependents
<1>2. Parents(graph, {package}) \subseteq M
  BY MetGrows
<1>3. Parents(graph, M \ {package}) \subseteq M
  <2>1. (M \ seeds) \ {package} = M \ {package}
    BY <1>1
  <2> QED BY <2>1 DEF Complete
<1> HIDE DEF M
<1>4. Grow(graph, S) \subseteq S
  <2>1. ASSUME NEW m \in S \cap DOMAIN graph, NEW x \in graph[m] PROVE x \in S
    <3>1. m \notin M
      OBVIOUS
    <3>2. x # package
      BY <1>2, <3>1 DEF Parents
    <3>3. x \notin M
      BY <1>3, <3>1, <3>2 DEF Parents
    <3>4. x \in Packages(graph)
      BY DEF Packages, Range
    <3> QED BY <3>2, <3>3, <3>4
  <2> QED BY <2>1 DEF Grow
<1>5. seeds \cap DOMAIN graph \subseteq S
  BY <1>1 DEF Packages
<1> HIDE DEF S
<1>6. Closure(graph, seeds) \subseteq S
  BY <1>4, <1>5, ClosureIsLeast
<1> QED BY <1>6 DEF S

\* The depth does not end a search of a graph that is no larger than it.
LEMMA SmallIsComplete ==
  ASSUME NEW graph, NEW package, NEW seeds,
         IsFiniteSet(DOMAIN graph), Cardinality(DOMAIN graph) <= MaxDepth
  PROVE  Complete(graph, package, seeds)
<1>0. PICK f : IsWalk(f, graph, package, seeds)
  BY MetUnfolds
<1>1. /\ f \in [Nat -> SUBSET DOMAIN graph]
      /\ f[0] = Parents(graph, {package})
      /\ \A k \in Nat : f[k + 1] = f[k] \cup Parents(graph, (f[k] \ seeds) \ {package})
      /\ Met(graph, package, seeds) = f[MaxDepth]
  BY <1>0 DEF IsWalk
<1>2. \A k \in Nat : f[k] \subseteq f[k + 1]
  BY <1>1
<1>3. \A k \in Nat : f[k + 1] = f[k] => f[(k + 1) + 1] = f[k + 1]
  <2>1. \A k \in Nat : f[(k + 1) + 1] = f[k + 1] \cup Parents(graph, (f[k + 1] \ seeds) \ {package})
    BY <1>1
  <2> QED BY <1>1, <2>1
<1>4. MaxDepth \in Nat
  BY GoldenAssumption
<1>5. f[MaxDepth + 1] = f[MaxDepth]
  <2> DEFINE N == DOMAIN graph
  <2>1. IsFiniteSet(N) /\ Cardinality(N) <= MaxDepth /\ f \in [Nat -> SUBSET N]
    BY <1>1
  <2> HIDE DEF N
  <2> QED BY <1>2, <1>3, <1>4, <2>1, GrowthStops
<1> QED BY <1>1, <1>4, <1>5 DEF Complete

\* What a harvest found out with its two searches.
LEMMA EntrySearches ==
  ASSUME NEW found \in Candidates, HasGraph(Entry(found).case)
  PROVE  LET c        == Entry(found).case
             pulledIn == c.package \in Entry(found).shipped \ AppSeeds(c.tree) IN
         /\ Entry(found).dependents = Dependents(c) /\ Entry(found).proposed = ProposeLabel(c)
         /\ c.package = found.package /\ c.tree = found.tree /\ HasGraph(found)
         /\ IsFiniteSet(Packages(c.tree.lock))
         /\ AtOrAbove(c.resolved, c.patched) # "yes"
         /\ Dependents(c) # {} => pulledIn
         /\ pulledIn /\ Complete(c.tree.lock, c.package, AppSeeds(c.tree)) => Dependents(c) # {}
<1> DEFINE c == Entry(found).case
           seeds == AppSeeds(c.tree)
<1>1. /\ c.eco = found.eco /\ c.package = found.package /\ c.tree = found.tree
      /\ Entry(found).dependents = Dependents(c) /\ Entry(found).shipped = Shipped(c)
      /\ Entry(found).proposed = ProposeLabel(c) /\ AtOrAbove(c.resolved, c.patched) # "yes"
  BY EntryFacts
<1>2. HasGraph(found)
  BY <1>1 DEF HasGraph
<1>3. IsFiniteSet(Packages(c.tree.lock))
  BY <1>1, <1>2, CandidatesAssumption DEF HasGraph
<1>4. /\ Dependents(c) = TransitiveDependents(c.tree.lock, c.package, seeds)
      /\ Entry(found).shipped = Closure(c.tree.lock, seeds)
  BY <1>1 DEF Dependents, Shipped
<1> HIDE DEF c, seeds
<1>5. Dependents(c) # {} => c.package \in Entry(found).shipped \ seeds
  BY <1>3, <1>4, DependentsShip, ClosureIsRequired
<1>6. /\ c.package \in Entry(found).shipped \ seeds
      /\ Complete(c.tree.lock, c.package, seeds)
      => Dependents(c) # {}
  BY <1>3, <1>4, CompleteFindsAll
<1> QED BY <1>1, <1>2, <1>3, <1>5, <1>6 DEF c, seeds

\* The labeller's search and the rule's closure agree on every lockfile: what the
\* one finds the other holds, and the other way round as far as the depth goes.
THEOREM BothSearchesAgree == Spec => []SearchesAgree
<1>1. SetInv => SearchesAgree
  <2> SUFFICES ASSUME SetInv, NEW s \in Slots,
                      entry[s] # NoCase, HasGraph(entry[s].case)
               PROVE  LET c        == entry[s].case
                          seeds    == AppSeeds(c.tree)
                          pulledIn == c.package \in entry[s].shipped \ seeds IN
                      /\ entry[s].dependents # {} => pulledIn
                      /\ pulledIn /\ Complete(c.tree.lock, c.package, seeds) => entry[s].dependents # {}
    BY DEF SearchesAgree
  <2>1. PICK found \in Candidates : entry[s] = Entry(found)
    BY DEF SetInv, Harvested
  <2> QED BY <2>1, EntrySearches
<1> QED BY <1>1, SetAlways, PTL

\* The hypothesis of the theorem below: the depth does not end the labeller's
\* search, as in a lockfile that is no larger than the depth.
DepthSuffices ==
  \A c \in Candidates : HasGraph(c) =>
    \/ Complete(c.tree.lock, c.package, AppSeeds(c.tree))
    \/ Cardinality(DOMAIN c.tree.lock) <= MaxDepth

\* Where the depth suffices, a package labelled not reachable because nothing
\* imported depends on it is in no closure of what the application imports.
THEOREM CompleteIsDecisive ==
  ASSUME DepthSuffices
  PROVE  Spec => []NoDependentIsDecisive
<1>1. SetInv => NoDependentIsDecisive
  <2> SUFFICES ASSUME SetInv, NEW s \in Slots,
                      entry[s] # NoCase, HasGraph(entry[s].case),
                      LET c == entry[s].case IN
                      /\ entry[s].proposed = "not_reachable"
                      /\ c.scope # "development"
                      /\ c.package \notin Gathered(c.tree) \cup AppSeeds(c.tree)
               PROVE  entry[s].case.package \notin entry[s].shipped
    BY DEF NoDependentIsDecisive
  <2>1. PICK found \in Candidates : entry[s] = Entry(found)
    BY DEF SetInv, Harvested
  <2> DEFINE c == entry[s].case
  <2>2. /\ ProposeLabel(c) = "not_reachable" /\ AtOrAbove(c.resolved, c.patched) # "yes"
        /\ c.package = found.package /\ c.tree = found.tree /\ HasGraph(found)
        /\ IsFiniteSet(Packages(c.tree.lock))
        /\ /\ c.package \in entry[s].shipped \ AppSeeds(c.tree)
           /\ Complete(c.tree.lock, c.package, AppSeeds(c.tree))
           => Dependents(c) # {}
    BY <2>1, EntrySearches
  <2>3. Complete(c.tree.lock, c.package, AppSeeds(c.tree))
    <3>1. IsFiniteSet(DOMAIN c.tree.lock)
      BY <2>2, FS_Subset DEF Packages
    <3> QED BY <2>2, <3>1, SmallIsComplete DEF DepthSuffices
  <2>4. Dependents(c) = {}
    BY <2>2 DEF ProposeLabel
  <2> QED BY <2>2, <2>3, <2>4
<1> QED BY <1>1, SetAlways, PTL
=============================================================================
