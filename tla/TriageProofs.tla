---------------------------- MODULE TriageProofs ----------------------------
(***************************************************************************)
(* Proofs about Triage, for every alert, tree, manifest, tool outcome and  *)
(* answer: types, the escalation of exploited critical alerts, what a      *)
(* dismissal at GitHub rests on, and what each clearing rule may rely on.  *)
(***************************************************************************)
EXTENDS Triage, RuleProofs, TLAPS

Before == {"ingest", "policy", "evidence", "judgment"}
After == {"emit", "patch", "done", "aborted"}
Documents == Answers \cup {Undetermined}

\* Until the judgment stage there is no verdict, no review and no call.
Untouched ==
  at \in Before \cup {"validation"} => validated = "null" /\ github = "open"

\* A verdict is a rule's on the facts it asked for, or the agent's on an alert
\* whose ecosystem has an adapter.
Provenance ==
  /\ at \in Before => verdict = NoVerdict
  /\ at \in {"judgment", "validation"} => alert.eco \in Adapted
  /\ at = "validation" => verdict \in Documents
  /\ verdict # NoVerdict =>
       \/ /\ verdict = PolicyDocument(Evaluate(PolicyYaml, alert, facts))
          /\ validated = "null"
       \/ verdict \in Documents /\ alert.eco \in Adapted

\* What the validator agreed with had passed the mechanical checks.
Reviewed ==
  validated = "agreed" =>
    /\ verdict \in Documents /\ alert.eco \in Adapted
    /\ \E checkout \in BOOLEAN : Passes(verdict, alert.eco, bundle, checkout)

\* A level judged on is one of the five: not reaching four is being below it.
Levelled ==
  at \in {"judgment", "validation"} \/ validated = "agreed" =>
    bundle.level \in Absent..PathFromEntry

\* Nothing is sent or dismissed behind a closed gate.
Gated == at = "patch" \/ github = "dismissed" => GateOpen

TriageInv ==
  /\ at \in Stages /\ github \in {"open", "dismissed"}
  /\ Untouched /\ Provenance /\ Reviewed /\ Levelled /\ Gated

\* Where the escalation decides and the version is not fixed already, no later
\* rule is asked.
LEMMA KevDecidesFirst ==
  ASSUME NEW a, NEW f, KevDirectCritical(a, f), ~AlreadyFixed(a, f)
  PROVE  Evaluate(PolicyYaml, a, f) = OutcomeOf["kev_direct_critical"]
<1> DEFINE deciding == {i \in 1..Len(PolicyYaml) : Decides(PolicyYaml[i], a, f)}
<1>1. /\ Len(PolicyYaml) = 6
      /\ PolicyYaml[1] = "already_fixed" /\ PolicyYaml[2] = "kev_direct_critical"
  BY DEF PolicyYaml
<1>2. 2 \in deciding
  <2>1. Decides("kev_direct_critical", a, f) = KevDirectCritical(a, f)
    BY Zenon DEF Decides
  <2>2. Decides(PolicyYaml[2], a, f)
    BY <1>1, <2>1, Zenon
  <2>3. 2 \in 1..Len(PolicyYaml)
    BY <1>1, SMT
  <2> QED
    BY <2>2, <2>3, Zenon
<1>3. 1 \notin deciding
  <2>1. Decides("already_fixed", a, f) = AlreadyFixed(a, f)
    BY Zenon DEF Decides
  <2> QED
    BY <1>1, <2>1
<1>4. \A j \in deciding : 2 <= j
  BY <1>1, <1>3
<1> HIDE DEF deciding
<1>5. (CHOOSE i \in deciding : \A j \in deciding : i <= j) = 2
  <2>1. \A i \in deciding : i \in Int
    BY DEF deciding
  <2> QED
    BY <1>2, <1>4, <2>1
<1> QED
  BY <1>1, <1>2, <1>5 DEF Evaluate, deciding

\* However far its tool got, a measurement is on one of the five levels.
LEMMA LevelsAreBounded ==
  ASSUME NEW eco, NEW out
  PROVE  Reachability(eco, out).level \in Absent..PathFromEntry
<1> USE DEF Absent, Present, Imported, SymbolReferenced, PathFromEntry
<1>1. Failed.level \in 0..4
  BY DEF Failed
<1>2. PythonReachability(out).level \in 0..4
  BY <1>1 DEF PythonReachability, Measured
<1>3. ToResult(out).level \in 0..4
  <2> DEFINE matched == {f \in out.findings : f.of = "alert"}
             levels  == {FindingLevel(f.frame) : f \in matched}
             best    == CHOOSE l \in 0..4 : /\ \E f \in matched : l = FindingLevel(f.frame)
                                            /\ \A f \in matched : FindingLevel(f.frame) <= l
  <2>1. ASSUME NEW frame PROVE FindingLevel(frame) \in {1, 2, 4}
    BY DEF FindingLevel
  <2>2. ASSUME matched # {} PROVE best \in 0..4
    <3>1. levels # {} /\ levels \subseteq {1, 2, 4}
      BY <2>1, <2>2
    <3>2. \E l \in levels : \A k \in levels : k <= l
      <4>1. CASE 4 \in levels
        BY <3>1, <4>1
      <4>2. CASE 4 \notin levels /\ 2 \in levels
        BY <3>1, <4>2
      <4>3. CASE 4 \notin levels /\ 2 \notin levels
        BY <3>1, <4>3
      <4> QED
        BY <4>1, <4>2, <4>3
    <3>3. \E l \in 0..4 : /\ \E f \in matched : l = FindingLevel(f.frame)
                          /\ \A f \in matched : FindingLevel(f.frame) <= l
      BY <3>1, <3>2
    <3> HIDE DEF matched
    <3> QED
      BY <3>3
  <2>3. matched = {} => ToResult(out).level \in 0..4
    BY <1>1 DEF ToResult, Measured
  <2>4. matched # {} => ToResult(out).level \in {0, best}
    BY DEF ToResult, Measured, Failed
  <2> HIDE DEF matched, best
  <2> QED
    BY <2>2, <2>3, <2>4
<1>4. GoReachability(out).level \in 0..4
  BY <1>1, <1>3 DEF GoReachability
<1> QED
  BY <1>1, <1>2, <1>4 DEF Reachability

\* The clamp only lowers a level.
LEMMA ClampKeepsLevels ==
  ASSUME NEW eco, NEW known, NEW out
  PROVE  Clamp(eco, known, Reachability(eco, out)).level \in Absent..PathFromEntry
<1> DEFINE m == Reachability(eco, out)
<1>1. m.level \in Absent..PathFromEntry
  BY LevelsAreBounded
<1>2. Clamp(eco, known, m).level \in {m.level, Min2(m.level, Imported)}
  BY DEF Clamp, Reachability, GoReachability, PythonReachability, ToResult, Measured, Failed
<1> QED
  BY <1>1, <1>2 DEF Min2, Absent, PathFromEntry, Imported

\* Nothing is decided of an alert that comes in.
LEMMA InvInit == Init => TriageInv
BY DEF Init, TriageInv, Stages, Untouched, Provenance, Reviewed, Levelled, Gated, Before, After

\* Every step keeps the invariant: a verdict is written once, reviewed once, and
\* what the gate read does not change behind it.
LEMMA InvStep == TriageInv /\ [Next]_vars => TriageInv'
<1> SUFFICES ASSUME TriageInv, [Next]_vars PROVE TriageInv'
  OBVIOUS
<1> USE DEF TriageInv, Stages, Untouched, Provenance, Reviewed, Levelled, Gated, Before, After
<1>1. CASE Ingest
  BY <1>1 DEF Ingest, GateOpen
<1>2. CASE Policy
  <2>1. PICK tree \in Trees[alert.eco], targets \in Targets, sibling \in Siblings :
          LET f == FactsOf(tree, targets, sibling) IN
          LET outcome == Evaluate(PolicyYaml, alert, f) IN
          IF outcome = NoOutcome
          THEN at' = "evidence" /\ UNCHANGED <<facts, verdict>>
          ELSE at' = "emit" /\ facts' = f /\ verdict' = PolicyDocument(outcome)
    BY <1>2 DEF Policy
  <2>2. at = "policy" /\ UNCHANGED <<alert, bundle, validated, github>>
    BY <1>2 DEF Policy
  <2>3. CASE at' = "evidence" /\ UNCHANGED <<facts, verdict>>
    BY <2>2, <2>3
  <2>4. CASE /\ at' = "emit"
             /\ verdict' = PolicyDocument(Evaluate(PolicyYaml, alert, facts'))
    <3>1. PolicyDocument(Evaluate(PolicyYaml, alert, facts'))
            = PolicyDocument(Evaluate(PolicyYaml, alert, facts))'
      BY <2>2 DEF PolicyDocument
    <3> QED
      BY <2>2, <2>4, <3>1
  <2> QED
    BY <2>1, <2>3, <2>4
<1>3. CASE NoAdapter
  BY <1>3 DEF NoAdapter, GateOpen
<1>4. CASE Measure
  <2>1. PICK out \in Outcomes[alert.eco] :
          bundle' = Bundle(Clamp(alert.eco, alert.symbolsKnown, Reachability(alert.eco, out)),
                           alert.symbolsKnown)
    BY <1>4 DEF Measure
  <2>2. bundle'.level \in Absent..PathFromEntry
    BY <2>1, ClampKeepsLevels DEF Bundle
  <2>3. /\ at = "evidence" /\ alert.eco \in Adapted /\ at' \in {"emit", "judgment"}
        /\ UNCHANGED <<alert, verdict, validated, github>>
    BY <1>4 DEF Measure
  <2> QED
    BY <2>2, <2>3
<1>5. CASE Judge
  BY <1>5 DEF Judge, Documents
<1>6. CASE RejectMechanically
  BY <1>6 DEF RejectMechanically
<1>7. CASE Review
  BY <1>7 DEF Review
<1>8. CASE KeepOpen
  BY <1>8 DEF KeepOpen, GateOpen, PolicyDocument
<1>9. CASE OpenGate
  BY <1>9 DEF OpenGate, GateOpen, PolicyDocument
<1>10. CASE PatchAccepted
  BY <1>10 DEF PatchAccepted, GateOpen, PolicyDocument
<1>11. CASE PatchRefused
  BY <1>11 DEF PatchRefused, GateOpen, PolicyDocument
<1>12. CASE PatchLost
  BY <1>12 DEF PatchLost, GateOpen, PolicyDocument
<1>13. CASE RetriesExhausted
  BY <1>13 DEF RetriesExhausted, GateOpen, PolicyDocument
<1>14. CASE EmitAgain
  BY <1>14 DEF EmitAgain, GateOpen, PolicyDocument
<1>15. CASE UNCHANGED vars
  BY <1>15 DEF vars, GateOpen, PolicyDocument
<1> QED
  BY <1>1, <1>2, <1>3, <1>4, <1>5, <1>6, <1>7, <1>8, <1>9, <1>10, <1>11, <1>12, <1>13, <1>14,
     <1>15 DEF Next, Step, Rest

\* The invariant holds in every reachable state.
LEMMA InvAlways == Spec => []TriageInv
BY InvInit, InvStep, PTL DEF Spec

-----------------------------------------------------------------------------
(* What follows from it.                                                    *)

\* Under the shipped configuration a dismissal at GitHub rests on a verdict the
\* agent gave and the validator shared, which no measured path contradicts, in an
\* ecosystem whose tooling is trusted that far; whatever the agent answers.
THEOREM DismissalsProved == Spec => []DismissedIsProved
<1>1. TriageInv => DismissedIsProved
  <2> SUFFICES ASSUME TriageInv, github = "dismissed", agreementAsked
               PROVE  /\ verdict.by = "judgment" /\ validated = "agreed"
                      /\ verdict.verdict = "not_affected" /\ verdict.justification /\ ~verdict.human
                      /\ verdict.cites # "broken"
                      /\ bundle.method = "failed" \/ bundle.level < PathFromEntry
                      /\ alert.eco \in {"go", "cargo"}
    BY DEF DismissedIsProved
  <2>1. GateOpen
    BY DEF TriageInv, Gated
  <2>2. /\ verdict.verdict = "not_affected" /\ verdict.confidence >= 85
        /\ validated = "agreed" /\ ~verdict.human /\ verdict.justification
    BY <2>1 DEF GateOpen, ConfidenceMin
  <2>3. PICK checkout \in BOOLEAN : Passes(verdict, alert.eco, bundle, checkout)
    BY <2>2 DEF TriageInv, Reviewed
  <2>4. verdict \in Documents /\ alert.eco \in Adapted
    BY <2>2 DEF TriageInv, Reviewed
  <2>5. verdict.by = "judgment" /\ verdict.confidence \in 0..100
    BY <2>4, AnswersAssumption DEF Documents, Undetermined
  <2>6. verdict.cites # "broken"
    BY <2>2, <2>3 DEF Passes, CitationsHold, Dismissing
  <2>7. bundle.method = "failed" \/ bundle.level < PathFromEntry
    BY <2>2, <2>3 DEF Passes, Contradicted, Dismissing, TriageInv, Levelled, ContradictionLevel,
                   Absent, PathFromEntry
  <2>8. alert.eco \in {"go", "cargo"}
    BY <2>2, <2>3, <2>4, <2>5 DEF Passes, WithinCeiling, Adapted, ConfidenceCeiling
  <2> QED
    BY <2>2, <2>5, <2>6, <2>7, <2>8
<1> QED
  BY <1>1, InvAlways, PTL

\* A critical direct dependency whose advisory is exploited is escalated by
\* whatever rule decides it, and stays open at GitHub, whatever the other rules
\* would have made of its tree, its scope and its siblings.
THEOREM KevCriticalsEscalated == Spec => []KevCriticalIsEscalated
<1>1. TriageInv => KevCriticalIsEscalated
  <2> SUFFICES ASSUME TriageInv, verdict # NoVerdict, verdict.by = "policy",
                      alert.kev, alert.direct = TRUE, alert.cvss # Unknown, alert.cvss >= CvssMin,
                      ~(Parses(alert.resolved) /\ Parses(alert.patched)
                          /\ AtLeast(alert.resolved, alert.patched))
               PROVE  verdict.human /\ verdict.verdict = "affected" /\ github = "open"
    BY DEF KevCriticalIsEscalated
  <2>1. verdict \notin Documents
    BY AnswersAssumption DEF Documents, Undetermined
  <2>2. verdict = PolicyDocument(Evaluate(PolicyYaml, alert, facts))
    BY <2>1 DEF TriageInv, Provenance
  <2>3. KevDirectCritical(alert, facts)
    BY DEF KevDirectCritical
  <2>4. ~AlreadyFixed(alert, facts)
    BY DEF AlreadyFixed, AtOrAbove
  <2>5. Evaluate(PolicyYaml, alert, facts) = OutcomeOf["kev_direct_critical"]
    BY <2>3, <2>4, KevDecidesFirst
  <2>6. verdict.human /\ verdict.verdict = "affected"
    BY <2>2, <2>5 DEF PolicyDocument, OutcomeOf, Outcome
  <2>7. ~GateOpen
    BY <2>6 DEF GateOpen
  <2> QED
    BY <2>6, <2>7 DEF TriageInv, Gated
<1> QED
  BY <1>1, InvAlways, PTL

-----------------------------------------------------------------------------
(* What the manifest says.                                                  *)

\* The scope is that of a section which lists the package, and no pass before
\* that section's met the package.
LEMMA SectionAnswers ==
  ASSUME NEW eco \in Adapted, NEW sections, Len(sections) \in Nat
  PROVE  \/ ResolveScope(eco, sections) = Unlisted(eco)
         \/ \E k \in 1..Len(ScopePasses[eco]) :
              /\ \A j \in 1..(k - 1) : Listed(sections, ScopePasses[eco][j]) = {}
              /\ \E s \in ScopePasses[eco][k] : ResolveScope(eco, sections) = s.answer
<1> DEFINE passes == ScopePasses[eco]
           met    == {k \in 1..Len(passes) : Listed(sections, passes[k]) # {}}
           k0     == CHOOSE k \in met : \A j \in met : k <= j
           L      == Listed(sections, passes[k0])
           first  == CHOOSE i \in L : \A j \in L : i <= j
           s0     == CHOOSE s \in passes[k0] : s.section = sections[first]
<1>1. ResolveScope(eco, sections) = IF met = {} THEN Unlisted(eco) ELSE s0.answer
  BY Zenon DEF ResolveScope
<1>2. Len(passes) \in Nat
  BY DEF ScopePasses, Adapted
<1> SUFFICES ASSUME met # {}
             PROVE  /\ k0 \in 1..Len(passes)
                    /\ \A j \in 1..(k0 - 1) : Listed(sections, passes[j]) = {}
                    /\ s0 \in passes[k0]
  BY <1>1
<1>3. k0 \in met /\ \A j \in met : k0 <= j
  <2>1. met \subseteq Nat
    BY <1>2
  <2> HIDE DEF met
  <2> QED BY <2>1, LeastIsMember
<1>4. first \in L
  <2>1. L # {}
    BY <1>3
  <2>2. L \subseteq Nat
    BY DEF Listed
  <2> HIDE DEF L
  <2> QED BY <2>1, <2>2, LeastIsMember
<1>5. s0 \in passes[k0]
  <2>1. \E s \in passes[k0] : s.section = sections[first]
    <3> HIDE DEF first
    <3> QED BY <1>4 DEF Listed
  <2> HIDE DEF first, passes
  <2> QED BY <2>1
<1>6. ASSUME NEW j \in 1..(k0 - 1) PROVE Listed(sections, passes[j]) = {}
  <2> HIDE DEF k0
  <2>1. j \in 1..Len(passes) /\ ~(k0 <= j)
    BY <1>2, <1>3
  <2> QED BY <1>3, <2>1
<1>7. k0 \in 1..Len(passes)
  BY <1>3
<1> QED BY <1>5, <1>6, <1>7

\* A section of an ecosystem answers with a scope and a directness of the schema.
LEMMA SectionType ==
  ASSUME NEW eco \in Adapted, NEW k \in 1..Len(ScopePasses[eco]), NEW s \in ScopePasses[eco][k]
  PROVE  /\ s.answer.scope \in {"runtime", "development"}
         /\ s.answer.direct \in {TRUE, FALSE, Null}
<1> USE DEF ScopePasses, Says, Scope
<1>1. /\ s.answer.scope \in {"runtime", "development"}
      /\ s.answer.direct = TRUE \/ s.answer.direct = FALSE \/ s.answer.direct = Null
  <2>1. CASE eco = "go"
    BY <2>1
  <2>2. CASE eco = "npm"
    BY <2>2
  <2>3. CASE eco = "pip"
    BY <2>3
  <2>4. CASE eco = "cargo"
    BY <2>4
  <2>5. CASE eco = "maven"
    BY <2>5
  <2> QED BY <2>1, <2>2, <2>3, <2>4, <2>5 DEF Adapted
<1> HIDE DEF ScopePasses, Says, Scope
<1> QED BY <1>1

\* So is what an adapter says of a package no section lists.
LEMMA ScopeType ==
  ASSUME NEW eco, NEW sections, Len(sections) \in Nat
  PROVE  /\ ResolveScope(eco, sections).scope \in {"runtime", "development", "unknown"}
         /\ ResolveScope(eco, sections).direct \in {TRUE, FALSE, Null}
<1>1. CASE eco \notin Adapted
  BY <1>1 DEF ResolveScope, Scope
<1>2. CASE eco \in Adapted
  <2>1. CASE ResolveScope(eco, sections) = Unlisted(eco)
    BY <2>1 DEF Unlisted, Scope
  <2>2. CASE ResolveScope(eco, sections) # Unlisted(eco)
    <3>1. PICK k \in 1..Len(ScopePasses[eco]) :
            \E s \in ScopePasses[eco][k] : ResolveScope(eco, sections) = s.answer
      BY <1>2, <2>2, SectionAnswers
    <3> QED BY <1>2, <3>1, SectionType
  <2> QED BY <2>1, <2>2
<1> QED BY <1>1, <1>2

-----------------------------------------------------------------------------
(* The alert's row and the facts a rule decided on.                         *)

\* What ingest wrote follows from the manifest and the advisory, and stays.
Ingested ==
  /\ {"eco", "origin", "resolved", "patched", "scope", "direct", "events", "sections"}
       \subseteq DOMAIN alert
  /\ alert.eco \in DOMAIN Trees
  /\ alert.events \in Seq(RangeEvent)
  /\ alert.sections \in Seq(Sections(alert.eco))
  /\ at = "ingest" => alert.scope = "unset" /\ alert.direct = Unknown
  /\ at # "ingest" =>
       /\ alert.origin = "osv" => alert.patched = PatchedVersion(alert.events, alert.resolved)
       /\ \/ alert.scope = "unknown" /\ alert.direct = Null
          \/ /\ alert.scope = ResolveScope(alert.eco, alert.sections).scope
             /\ alert.direct = ResolveScope(alert.eco, alert.sections).direct

\* A rule's verdict is kept with what the rule was told of one tree.
Asked ==
  /\ at \in Before \cup {"validation"} => facts = NoFacts
  /\ facts # NoFacts => verdict.by = "policy"
  /\ verdict # NoVerdict /\ verdict.by = "policy" =>
       \E tree \in Trees[alert.eco] : \E targets, sibling : facts = FactsOf(tree, targets, sibling)

\* Where the PATCH is tried at most MaxAttempts times, and the other bounds.
Counted ==
  /\ agreementAsked \in AgreementAsked
  /\ bundle # NoBundle => bundle.level \in Absent..PathFromEntry /\ bundle.confidence \in 0..100
  /\ verdict # NoVerdict => verdict.confidence \in 0..100
  /\ validated \in {"null", "agreed", "disputed"} /\ mark \in BOOLEAN
  /\ sent \in 0..MaxAttempts /\ invocations \in 1..MaxInvocations

ClearInv == Ingested /\ Asked /\ Counted

\* Every adapter's measurement, clamped, is a level and a percentage.
LEMMA ConfidenceIsPercentage ==
  ASSUME NEW eco \in Adapted, NEW known, NEW out
  PROVE  Clamp(eco, known, Reachability(eco, out)).confidence \in 0..100
<1> DEFINE m == Reachability(eco, out)
<1>1. m.confidence \in {0, 50, 60, 75, 90, 95}
  <2>1. Failed.confidence = 0
    BY DEF Failed
  <2>2. \A level, confidence, sites : Measured(level, confidence, sites).confidence = confidence
    BY DEF Measured
  <2>3. PythonReachability(out).confidence \in {0, 50, 60, 75}
    BY <2>1, <2>2 DEF PythonReachability, Min2
  <2>4. ToResult(out).confidence \in {0, 90, 95}
    BY DEF ToResult, Measured, Failed
  <2>5. GoReachability(out).confidence \in {0, 90, 95}
    BY <2>1, <2>4 DEF GoReachability
  <2> QED BY <2>1, <2>3, <2>5 DEF Reachability
<1>2. ConfidenceCeiling[eco] \in {95, 75, 55, 90, 70}
  BY DEF ConfidenceCeiling, Adapted
<1>3. "confidence" \in DOMAIN m
  BY DEF Reachability, GoReachability, PythonReachability, ToResult, Measured, Failed
<1> DEFINE held == Min2(m.confidence, ConfidenceCeiling[eco])
<1>4. held \in 0..95
  BY <1>1, <1>2 DEF Min2
<1>5. Clamp(eco, known, m).confidence \in {0, held, Min2(held, 50)}
  BY <1>3, Zenon DEF Clamp
<1> HIDE DEF m, held
<1> QED BY <1>4, <1>5 DEF Min2, m

\* An alert comes in as its source reported it.
LEMMA ClearInit == Init => ClearInv
<1> SUFFICES ASSUME Init PROVE ClearInv
  OBVIOUS
<1> USE DEF Init
<1>1. Ingested
  <2>1. /\ {"eco", "origin", "resolved", "patched", "scope", "direct", "events", "sections"}
              \subseteq DOMAIN alert
        /\ alert.scope = "unset" /\ alert.direct = Unknown
        /\ alert.events \in Seq(RangeEvent)
        /\ alert.sections \in Seq(Sections(alert.eco))
    BY RawAlertsAssumption
  <2>2. alert.eco \in DOMAIN Trees
    BY TreesAssumption
  <2> QED BY <2>1, <2>2 DEF Ingested
<1>2. Asked
  BY DEF Asked
<1>3. Counted
  <2>1. mark \in BOOLEAN
    BY Zenon
  <2> QED BY <2>1, TriageAssumption DEF Counted
<1> QED BY <1>1, <1>2, <1>3 DEF ClearInv

\* Only ingest writes what a row says of its manifest.
LEMMA IngestedStep == Ingested /\ TriageInv /\ [Next]_vars => Ingested'
<1> SUFFICES ASSUME Ingested, TriageInv, [Next]_vars PROVE Ingested'
  OBVIOUS
<1>1. CASE Ingest
  <2>1. PICK readable \in BOOLEAN :
          LET scope == IF readable THEN ResolveScope(alert.eco, alert.sections)
                       ELSE Scope("unknown", Null) IN
          alert' = [alert EXCEPT
                      !.scope = scope.scope,
                      !.direct = scope.direct,
                      !.patched = IF alert.origin = "osv"
                                  THEN PatchedVersion(alert.events, alert.resolved)
                                  ELSE alert.patched]
    BY <1>1 DEF Ingest
  <2>2. /\ DOMAIN alert' = DOMAIN alert
        /\ alert'.eco = alert.eco /\ alert'.origin = alert.origin
        /\ alert'.resolved = alert.resolved
        /\ alert'.events = alert.events /\ alert'.sections = alert.sections
    BY <2>1 DEF Ingested
  <2>3. alert.origin = "osv" => alert'.patched = PatchedVersion(alert.events, alert.resolved)
    BY <2>1 DEF Ingested
  <2>4. \/ alert'.scope = "unknown" /\ alert'.direct = Null
        \/ /\ alert'.scope = ResolveScope(alert.eco, alert.sections).scope
           /\ alert'.direct = ResolveScope(alert.eco, alert.sections).direct
    BY <2>1 DEF Ingested, Scope
  <2>5. at' = "policy"
    BY <1>1 DEF Ingest
  <2> QED BY <2>2, <2>3, <2>4, <2>5 DEF Ingested
<1>2. CASE ~Ingest
  <2>1. UNCHANGED alert
    BY <1>2 DEF Next, Step, Rest, vars, Policy, NoAdapter, Measure, Judge, RejectMechanically,
                Review, KeepOpen, OpenGate, PatchAccepted, PatchRefused, PatchLost,
                RetriesExhausted, EmitAgain
  <2>2. at = "ingest" <=> at' = "ingest"
    BY <1>2 DEF Next, Step, Rest, vars, Policy, NoAdapter, Measure, Judge, RejectMechanically,
                Review, KeepOpen, OpenGate, PatchAccepted, PatchRefused, PatchLost,
                RetriesExhausted, EmitAgain
  <2> QED BY <2>1, <2>2 DEF Ingested
<1> QED BY <1>1, <1>2

\* Only the policy stage writes facts, and with them its verdict.
LEMMA AskedStep == Asked /\ TriageInv /\ [Next]_vars => Asked'
<1> SUFFICES ASSUME Asked, TriageInv, [Next]_vars PROVE Asked'
  OBVIOUS
<1> USE DEF Asked, Before
<1>1. CASE Policy
  <2>1. PICK tree \in Trees[alert.eco], targets \in Targets, sibling \in Siblings :
          LET f == FactsOf(tree, targets, sibling) IN
          LET outcome == Evaluate(PolicyYaml, alert, f) IN
          IF outcome = NoOutcome
          THEN at' = "evidence" /\ UNCHANGED <<facts, verdict>>
          ELSE at' = "emit" /\ facts' = f /\ verdict' = PolicyDocument(outcome)
    BY <1>1 DEF Policy
  <2>2. at = "policy" /\ UNCHANGED alert
    BY <1>1 DEF Policy
  <2>3. FactsOf(tree, targets, sibling)' = FactsOf(tree, targets, sibling)
    BY <2>2 DEF FactsOf
  <2>4. \A outcome : PolicyDocument(outcome).by = "policy"
    BY DEF PolicyDocument
  <2>5. CASE at' = "evidence" /\ UNCHANGED <<facts, verdict>>
    <3>1. facts' = NoFacts /\ verdict' = NoVerdict
      BY <2>2, <2>5 DEF TriageInv, Provenance
    <3> QED BY <2>5, <3>1
  <2>6. CASE /\ at' = "emit" /\ facts' = FactsOf(tree, targets, sibling)
             /\ verdict' = PolicyDocument(Evaluate(PolicyYaml, alert, FactsOf(tree, targets, sibling)))
    <3>1. verdict'.by = "policy"
      BY <2>4, <2>6
    <3>2. /\ tree \in Trees[alert'.eco]
          /\ facts' = FactsOf(tree, targets, sibling)'
      BY <2>2, <2>3, <2>6
    <3> QED BY <2>6, <3>1, <3>2
  <2> QED BY <2>1, <2>5, <2>6
<1>2. CASE Ingest
  <2>1. UNCHANGED <<facts, verdict>> /\ verdict = NoVerdict /\ at = "ingest" /\ at' = "policy"
    BY <1>2 DEF Ingest, TriageInv, Provenance
  <2> QED BY <2>1
<1>3. CASE Judge
  <2>1. verdict' \in Documents /\ UNCHANGED <<facts, alert>> /\ facts = NoFacts
    BY <1>3 DEF Judge, Documents
  <2>2. verdict'.by = "judgment"
    BY <2>1, AnswersAssumption DEF Documents, Undetermined
  <2> QED BY <2>1, <2>2
<1>4. CASE ~Policy /\ ~Ingest /\ ~Judge
  <2>1. UNCHANGED <<alert, facts, verdict>>
    BY <1>4 DEF Next, Step, Rest, vars, NoAdapter, Measure, RejectMechanically,
                Review, KeepOpen, OpenGate, PatchAccepted, PatchRefused, PatchLost,
                RetriesExhausted, EmitAgain
  <2>2. at' \in Before \cup {"validation"} => at \in Before \cup {"validation"}
    BY <1>4 DEF Next, Step, Rest, vars, NoAdapter, Measure, RejectMechanically,
                Review, KeepOpen, OpenGate, PatchAccepted, PatchRefused, PatchLost,
                RetriesExhausted, EmitAgain
  <2>3. \A tree, targets, sibling : FactsOf(tree, targets, sibling)' = FactsOf(tree, targets, sibling)
    BY <2>1 DEF FactsOf
  <2> QED BY <2>1, <2>2, <2>3
<1> QED BY <1>1, <1>2, <1>3, <1>4

\* What is counted stays within its bound.
LEMMA CountedStep == Counted /\ Ingested /\ TriageInv /\ [Next]_vars => Counted'
<1> SUFFICES ASSUME Counted, Ingested, TriageInv, [Next]_vars PROVE Counted'
  OBVIOUS
<1> USE TriageAssumption DEF Counted
<1>1. CASE Ingest
  BY <1>1 DEF Ingest
<1>2. CASE Policy
  <2>1. verdict' = verdict \/ \E outcome : verdict' = PolicyDocument(outcome)
    BY <1>2 DEF Policy
  <2>2. \A outcome : PolicyDocument(outcome).confidence \in 0..100
    <3>1. PolicyConfidence(alert.eco) \in 0..100
      BY DEF PolicyConfidence, Adapted, ConfidenceCeiling, Min2
    <3> QED BY <3>1 DEF PolicyDocument
  <2>3. UNCHANGED <<agreementAsked, bundle, validated, mark, sent, invocations>>
    BY <1>2 DEF Policy
  <2> QED BY <2>1, <2>2, <2>3
<1>3. CASE Measure
  <2>1. PICK out \in Outcomes[alert.eco] :
          bundle' = Bundle(Clamp(alert.eco, alert.symbolsKnown, Reachability(alert.eco, out)),
                           alert.symbolsKnown)
    BY <1>3 DEF Measure
  <2>2. /\ alert.eco \in Adapted
        /\ UNCHANGED <<agreementAsked, verdict, validated, mark, sent, invocations>>
    BY <1>3 DEF Measure
  <2>3. bundle'.level \in Absent..PathFromEntry /\ bundle'.confidence \in 0..100
    BY <2>1, <2>2, ClampKeepsLevels, ConfidenceIsPercentage DEF Bundle
  <2> QED BY <2>2, <2>3
<1>4. CASE Judge
  <2>1. verdict' \in Documents
    BY <1>4 DEF Judge, Documents
  <2>2. verdict'.confidence \in 0..100
    BY <2>1, AnswersAssumption DEF Documents, Undetermined
  <2> QED BY <1>4, <2>2 DEF Judge
<1>5. CASE RejectMechanically \/ Review
  BY <1>5 DEF RejectMechanically, Review
<1>6. CASE NoAdapter \/ KeepOpen \/ OpenGate \/ RetriesExhausted
  BY <1>6 DEF NoAdapter, KeepOpen, OpenGate, RetriesExhausted
<1>7. CASE PatchAccepted \/ PatchRefused \/ PatchLost
  <2>1. mark' \in BOOLEAN
    BY <1>7, Zenon DEF PatchAccepted, PatchRefused, PatchLost
  <2>2. sent' = sent + 1 /\ sent < MaxAttempts
    BY <1>7 DEF PatchAccepted, PatchRefused, PatchLost
  <2>3. UNCHANGED <<agreementAsked, bundle, verdict, validated, invocations>>
    BY <1>7 DEF PatchAccepted, PatchRefused, PatchLost
  <2> QED BY <2>1, <2>2, <2>3
<1>8. CASE EmitAgain
  BY <1>8 DEF EmitAgain
<1>9. CASE Rest \/ UNCHANGED vars
  BY <1>9 DEF Rest, vars
<1> QED
  BY <1>1, <1>2, <1>3, <1>4, <1>5, <1>6, <1>7, <1>8, <1>9 DEF Next, Step

\* Both invariants hold in every reachable state.
LEMMA ClearAlways == Spec => [](TriageInv /\ ClearInv)
<1>1. TriageInv /\ ClearInv /\ [Next]_vars => (TriageInv /\ ClearInv)'
  BY InvStep, IngestedStep, AskedStep, CountedStep DEF ClearInv
<1> QED BY <1>1, InvInit, ClearInit, PTL DEF Spec

-----------------------------------------------------------------------------
(* What a clearance may rely on.                                            *)

\* policy.yaml names rules that exist.
LEMMA PolicyRulesExist == PolicyYaml \in Seq(DOMAIN OutcomeOf)
BY DEF PolicyYaml, OutcomeOf

\* A verdict that names a rule was decided by it, on facts that agree with a tree.
LEMMA RuleDecided ==
  ASSUME TriageInv, ClearInv, NEW rule, rule # "none", DecidedBy(rule)
  PROVE  /\ rule \in DOMAIN OutcomeOf /\ Decides(rule, alert, facts)
         /\ \E tree \in Trees[alert.eco] : \E targets, sibling : facts = FactsOf(tree, targets, sibling)
         /\ at # "ingest"
<1>1. verdict # NoVerdict /\ verdict.rule = rule
  BY DEF DecidedBy
<1>2. verdict \notin Documents
  BY <1>1, AnswersAssumption DEF Documents, Undetermined
<1>3. verdict = PolicyDocument(Evaluate(PolicyYaml, alert, facts))
  BY <1>1, <1>2 DEF TriageInv, Provenance
<1>4. /\ verdict.by = "policy"
      /\ Evaluate(PolicyYaml, alert, facts).rule = rule
  BY <1>1, <1>3 DEF PolicyDocument
<1>5. Evaluate(PolicyYaml, alert, facts) # NoOutcome
  BY <1>4 DEF NoOutcome, Outcome
<1>6. PICK r \in DOMAIN OutcomeOf : /\ Decides(r, alert, facts)
                                    /\ Evaluate(PolicyYaml, alert, facts) = OutcomeOf[r]
  BY <1>5, PolicyRulesExist, SomeRuleDecided
<1>7. r = rule
  BY <1>4, <1>6, OutcomesAreNamed
<1>8. at # "ingest"
  BY <1>1 DEF TriageInv, Provenance, Before
<1> QED BY <1>1, <1>4, <1>6, <1>7, <1>8 DEF ClearInv, Asked

\* Every variable keeps its type, whatever sources, tools and the agent answer.
THEOREM TriageTypes == Spec => []TypeOK
<1>1. TriageInv /\ ClearInv => TypeOK
  <2> SUFFICES ASSUME TriageInv, ClearInv PROVE TypeOK
    OBVIOUS
  <2>1. /\ alert.direct \in {TRUE, FALSE, Null, Unknown}
        /\ alert.scope \in {"unset", "runtime", "development", "unknown"}
    <3>1. Len(alert.sections) \in Nat
      BY DEF ClearInv, Ingested
    <3>2. CASE at = "ingest"
      BY <3>2 DEF ClearInv, Ingested
    <3>3. CASE at # "ingest"
      BY <3>1, <3>3, ScopeType DEF ClearInv, Ingested
    <3> QED BY <3>2, <3>3
  <2> QED BY <2>1 DEF TypeOK, TriageInv, ClearInv, Asked, Counted
<1> QED BY <1>1, ClearAlways, PTL

\* Whatever branches an advisory has, an alert OSV reports for the installed
\* version is not cleared as already fixed.
THEOREM OsvNeverFixed == Spec => []OsvAlertNeverFixed
<1>1. TriageInv /\ ClearInv => OsvAlertNeverFixed
  <2> SUFFICES ASSUME TriageInv, ClearInv, alert.origin = "osv", DecidedBy("already_fixed")
               PROVE  FALSE
    BY DEF OsvAlertNeverFixed
  <2>1. Decides("already_fixed", alert, facts) /\ at # "ingest"
    BY RuleDecided
  <2>2. AtOrAbove(alert.resolved, alert.patched) = "yes"
    BY <2>1, Zenon DEF Decides, AlreadyFixed
  <2>3. alert.patched = PatchedVersion(alert.events, alert.resolved)
    BY <2>1 DEF ClearInv, Ingested
  <2>4. AtOrAbove(alert.resolved, PatchedVersion(alert.events, alert.resolved)) # "yes"
    BY PatchedIsAbove DEF ClearInv, Ingested
  <2> QED BY <2>2, <2>3, <2>4
<1> QED BY <1>1, ClearAlways, PTL

\* An alert cleared as not imported is about a package outside what is built,
\* whatever the tree holds, unless one of the four named gaps hides it.
THEOREM ClearedAreAbsent == Spec => []ClearedShipsOnlyOutOfSight
<1>1. TriageInv /\ ClearInv => ClearedShipsOnlyOutOfSight
  <2> DEFINE tree == facts.tree
             lock == facts.tree.lock
             package == alert.package
  <2> SUFFICES ASSUME TriageInv, ClearInv, DecidedBy("not_imported")
               PROVE  /\ alert.eco \in {"go", "npm"}
                      /\ \/ package \notin TrueArtifact(tree, alert.eco)
                         \/ OutOfSight(tree, alert.eco, package)
    BY DEF ClearedShipsOnlyOutOfSight
  <2>1. Decides("not_imported", alert, facts)
    BY RuleDecided
  <2>2. NotImported(alert, facts)
    BY <2>1, Zenon DEF Decides
  <2>3. /\ facts.index = ImportIndex(tree)
        /\ facts.shipped = ShippedPackages(tree, alert.eco)
        /\ tree \in Trees[alert.eco]
    BY RuleDecided DEF FactsOf
  <2>4. tree # Unknown
    BY <2>2, <2>3 DEF NotImported, ShippedPackages
  <2>5. /\ facts.shipped # Unknown /\ package \notin facts.shipped
        /\ package \notin IndexNames(tree)
    BY <2>2, <2>3, <2>4 DEF NotImported, ImportIndex
  <2>6. /\ lock = NoGraph \/ IsFiniteSet(Packages(lock))
        /\ tree.golist = "ok" => tree.linked \subseteq tree.listed
    <3>1. alert.eco \in DOMAIN Trees
      BY DEF ClearInv, Ingested
    <3> QED BY <2>3, <2>4, <3>1, TreesAssumption
  <2>7. alert.eco \in {"npm", "go"}
    BY <2>3, <2>4, <2>5 DEF ShippedPackages
  <2>8. ASSUME package \in TrueArtifact(tree, alert.eco), package \notin tree.nested
        PROVE  OutOfSight(tree, alert.eco, package)
    <3>1. CASE alert.eco = "go"
      <4>1. facts.shipped = GoShipped(tree)
        BY <2>3, <2>4, <3>1 DEF ShippedPackages
      <4>2. tree.golist \in {"ok", "partial"} /\ package \notin tree.listed \cup {Stdlib}
        BY <2>5, <4>1 DEF GoShipped
      <4>3. package \in tree.linked
        BY <2>8, <3>1, <4>2 DEF TrueArtifact
      <4> QED BY <2>6, <3>1, <4>2, <4>3 DEF OutOfSight
    <3>2. CASE alert.eco = "npm"
      <4>1. SUFFICES ASSUME \A f \in tree.files : EntryReads(f)
                     PROVE  /\ package \notin DOMAIN lock
                            /\ \E f \in tree.files : package \in f.names /\ ~IndexReads(f)
        BY <3>2 DEF OutOfSight
      <4>2. facts.shipped = NpmShipped(tree)
        BY <2>3, <2>4, <3>2 DEF ShippedPackages
      <4>3. lock # NoGraph /\ facts.shipped = Closure(lock, EntryNames(tree))
        BY <2>5, <4>2 DEF NpmShipped
      <4>4. EntryNames(tree) = AllNames(tree)
        <5>1. {f \in tree.files : EntryReads(f)} = tree.files
          BY <4>1
        <5> QED BY <5>1 DEF EntryNames, AllNames
      <4>5. package \notin Required(lock, AllNames(tree))
        BY <2>5, <2>6, <4>3, <4>4, ClosureIsRequired
      <4>6. package \in AllNames(tree)
        BY <2>8, <3>2, <4>5 DEF TrueArtifact
      <4>7. PICK f \in tree.files : package \in f.names
        BY <4>6 DEF AllNames, Names
      <4>8. ~IndexReads(f)
        BY <2>5, <4>7 DEF IndexNames, Names
      <4>9. package \notin DOMAIN lock
        BY <4>5, <4>6 DEF Required, Packages
      <4> QED BY <4>7, <4>8, <4>9
    <3> QED BY <2>7, <3>1, <3>2
  <2>9. package \in tree.nested => OutOfSight(tree, alert.eco, package)
    BY DEF OutOfSight
  <2> QED BY <2>7, <2>8, <2>9
<1> QED BY <1>1, ClearAlways, PTL
=============================================================================
