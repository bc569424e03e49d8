------------------------------ MODULE GoldenSet ------------------------------
(***************************************************************************)
(* The golden set and its gate (eval/harvest.py, eval/label.py,            *)
(* eval/run_eval.py, harness/evaluation): alerts are harvested from a      *)
(* repository with the facts the rules read and a label proposed by rules  *)
(* of its own, labelled with govulncheck's ground truth where there is     *)
(* one, loaded, scored with one configuration of the policy, perhaps       *)
(* edited, scored with another, and `run_eval --baseline` compares the two *)
(* reports.  (metrics.compare, a stricter gate, is called by tests only.)  *)
(*                                                                         *)
(* A candidate is an alert of PolicyRules with the advisory it is about,   *)
(* its events, whether symbols are known and appear in the source, the     *)
(* tree, the tool's outcome and the patches of the other advisories on the *)
(* package.  A file of its tree is one of Artifact's and says whether it   *)
(* lies under the manifest (inside) or in a directory of documentation or  *)
(* examples (docs), and the bare words its import lines begin with (words).*)
(***************************************************************************)
EXTENDS PolicyRules

CONSTANTS
  Slots,        \* the cases of the set: numbers, in the order they are written
  Candidates,   \* what a harvest can find
  RuleSets,     \* sequences of rules a policy file can configure
  HttpLike,     \* the package names that begin with "http" (http-proxy, http-errors)
  MaxDepth,     \* transitive_dependents' depth (8 in the code)
  NoCase, NoReport

\* A set is finite, and a policy file names rules that exist.  The gate's rates
\* have four digits, which tell apart two rates over at most 5000 cases.
ASSUME GoldenAssumption ==
  /\ IsFiniteSet(Slots) /\ Cardinality(Slots) <= 5000
  /\ MaxDepth \in Nat
  /\ \A rules \in RuleSets : rules \in Seq(DOMAIN OutcomeOf)

\* A harvest reads the directory it is given, and the ranges of a parsed advisory;
\* a lockfile lists finitely many packages, and None is no set of them.
ASSUME CandidatesAssumption ==
  \A c \in Candidates :
    /\ {"resolved", "patched", "eco", "package", "tree"} \subseteq DOMAIN c
    /\ c.events \in Seq(RangeEvent)
    /\ c.tree # Unknown
    /\ c.tree.lock # NoGraph =>
         /\ IsFiniteSet(Packages(c.tree.lock))
         /\ \A S \in SUBSET Packages(c.tree.lock) : S # Unknown

VARIABLES
  step,       \* "harvest", "label", "load", "score", "edit", "rescore", "compare",
              \* "decided", "refused"
  entry,      \* slot -> harvested candidate with its facts, or NoCase
  golden,     \* slot -> labelled case, or NoCase
  baseline,   \* case id -> scored outcome, or NoReport
  candidate,  \* the same for the changed policy
  accepted    \* the gate's answer

vars == <<step, entry, golden, baseline, candidate, accepted>>

Labels == {"reachable", "not_reachable", "unsure"}
IsGo(c) == c.eco = "go"

-----------------------------------------------------------------------------
(* What harvest.py reads from the tree.                                     *)

\* _app_seeds: without a size limit, without what begins with "http", with the
\* bare words; of all that, what the lockfile knows.
Openable(tree) == {f \in tree.files : f.read}
AppSeeds(tree) ==
  LET specifiers == Names(Openable(tree)) \ HttpLike
      words      == UNION {f.words : f \in Openable(tree)} IN
  (specifiers \cup words) \cap DOMAIN tree.lock

\* gather: more suffixes than the index and other forms, line by line, in the
\* subtree the manifest governs but not in documentation.
GatherReads(f) ==
  /\ f.read /\ ~f.large
  /\ f.inside /\ ~f.docs
  /\ f.form \in {"plain", "open"}
Gathered(tree) == Names({f \in tree.files : GatherReads(f)})

\* transitive_dependents: backwards from the package to the seeds.  A seed that
\* is met is reported and not walked past; met[k] is what depth k reaches.
Parents(graph, S) == {n \in DOMAIN graph : graph[n] \cap S # {}}

\* Variant: only the packages that name it themselves.
DirectDependents(graph, package, seeds) == Parents(graph, {package}) \cap seeds

Met(graph, package, seeds) ==
  LET met[k \in Nat] == IF k = 0 THEN Parents(graph, {package})
                        ELSE met[k - 1] \cup Parents(graph, (met[k - 1] \ seeds) \ {package}) IN
  met[MaxDepth]

TransitiveDependents(graph, package, seeds) ==
  IF package \in seeds THEN {} ELSE Met(graph, package, seeds) \cap seeds

NoEvidence == [level |-> Unknown, confidence |-> 0, method |-> "none"]

Evidence(level, confidence) == [level |-> level, confidence |-> confidence, method |-> "tool"]

Findings(out) == IF out.kind = "ran" THEN {f \in out.findings : f.of = "alert"} ELSE {}
HasPath(out) == \E f \in Findings(out) : f.frame = "function"

\* govulncheck_levels: a finding without a function frame is only PRESENT, and an
\* advisory without a finding is not in the map.
GovulncheckLevel(out) ==
  IF Findings(out) = {} THEN NoEvidence
  ELSE IF HasPath(out) THEN Evidence(PathFromEntry, 95) ELSE Evidence(Present, 90)

\* Variant: an alert nothing measured is recorded as absent.
ZeroWhenUnmeasured(c) ==
  LET m == IF IsGo(c) THEN GovulncheckLevel(c.out) ELSE Reachability(c.eco, c.out) IN
  Evidence(IF m.level = Unknown THEN Absent ELSE m.level, 60)

\* _evidence_facts: nothing is recorded for an alert nothing measured.
EvidenceFacts(c) ==
  IF IsGo(c) THEN GovulncheckLevel(c.out)
  ELSE LET m == Reachability(c.eco, c.out) IN
       IF m.method = "failed" \/ m.confidence = 0 THEN NoEvidence
       ELSE Evidence(m.level, m.confidence)

HasGraph(c) == c.eco = "npm" /\ c.tree.lock # NoGraph

\* Variant: only the packages imported by name are in the artifact.
ShippedByName(c) == IF HasGraph(c) THEN AppSeeds(c.tree) ELSE Unknown

Shipped(c) == IF HasGraph(c) THEN Closure(c.tree.lock, AppSeeds(c.tree)) ELSE Unknown

Dependents(c) ==
  IF HasGraph(c) THEN TransitiveDependents(c.tree.lock, c.package, AppSeeds(c.tree)) ELSE {}

\* propose_label
ProposeLabel(c) ==
  IF \/ AtOrAbove(c.resolved, c.patched) = "yes"
     \/ c.scope = "development" /\ c.eco \in Adapted /\ DevScopeIsConclusive(c.eco)
  THEN "not_reachable"
  ELSE IF c.package \in Gathered(c.tree)
  THEN IF ~c.symbols THEN "unsure" ELSE IF c.hit THEN "reachable" ELSE "not_reachable"
  ELSE IF Dependents(c) # {} \/ ~HasGraph(c) THEN "unsure" ELSE "not_reachable"

\* annotate_superseded, after the harvest of one repository.
SupersededInSet(c) == Superseded(c, [sibling |-> c.siblings])

Entry(found) ==
  LET c == [found EXCEPT !.patched = PatchedVersion(found.events, found.resolved)] IN
  [case |-> c,
   index |-> IF Scannable(c.eco) \/ c.eco = "maven" THEN IndexNames(c.tree) ELSE Unknown,
   shipped |-> Shipped(c),
   dependents |-> Dependents(c),
   superseded |-> SupersededInSet(c),
   measured |-> EvidenceFacts(c),
   proposed |-> ProposeLabel(c)]

-----------------------------------------------------------------------------
(* Harvest and label.                                                       *)

Init ==
  /\ step = "harvest"
  /\ entry = [s \in Slots |-> NoCase]
  /\ golden = [s \in Slots |-> NoCase]
  /\ baseline = NoReport
  /\ candidate = NoReport
  /\ accepted = FALSE

Harvest ==
  /\ step = "harvest"
  /\ \E found \in [Slots -> Candidates] : entry' = [s \in Slots |-> Entry(found[s])]
  /\ step' = "label"
  /\ UNCHANGED <<golden, baseline, candidate, accepted>>

\* govulncheck_labels over every analysis handed to label.py: keyed by advisory
\* only, so of two modules' analyses the last one read answers for both.
Analyses(advisory) ==
  {s \in Slots : /\ IsGo(entry[s].case)
                 /\ entry[s].case.advisory = advisory
                 /\ Findings(entry[s].case.out) # {}}

\* build: ground truth replaces a Go case's label and its evidence; a repeated
\* case id gets a number within one build.
Labelled(s, truth, number) ==
  LET e == entry[s] IN
  LET known == IsGo(e.case) /\ truth # Unknown IN
  [case |-> e.case, index |-> e.index, shipped |-> e.shipped, superseded |-> e.superseded,
   id |-> <<e.case.name, number>>,
   measured |-> IF known THEN Evidence(truth, IF truth >= PathFromEntry THEN 95 ELSE 90)
                ELSE e.measured,
   label |-> IF ~known THEN e.proposed
             ELSE IF truth >= PathFromEntry THEN "reachable" ELSE "not_reachable"]

Truths(s, given) ==
  IF given /\ Analyses(entry[s].case.advisory) # {}
  THEN {GovulncheckLevel(entry[t].case.out).level : t \in Analyses(entry[s].case.advisory)}
  ELSE {Unknown}

OneTruthPerAdvisory(truth) ==
  \A s, t \in Slots : /\ IsGo(entry[s].case) /\ IsGo(entry[t].case)
                      /\ entry[s].case.advisory = entry[t].case.advisory
                      => truth[s] = truth[t]

Before(s) == {t \in Slots : t < s /\ entry[t].case.name = entry[s].case.name}

Label ==
  /\ step = "label"
  /\ \E given, together \in BOOLEAN :
     \E truth \in [Slots -> {Unknown, Present, PathFromEntry}] :
       /\ \A s \in Slots : truth[s] \in Truths(s, given)
       /\ OneTruthPerAdvisory(truth)
       /\ golden' = [s \in Slots |->
            Labelled(s, truth[s], IF together THEN Cardinality(Before(s)) + 1 ELSE 1)]
  /\ step' = "load"
  /\ UNCHANGED <<entry, baseline, candidate, accepted>>

\* Variant: a repeated case id is not refused.
LoadAnyway ==
  /\ step = "load"
  /\ step' = "score"
  /\ UNCHANGED <<entry, golden, baseline, candidate, accepted>>

\* load_golden refuses a case id it has seen, in whatever file it was.
Cases == {golden[s] : s \in {t \in Slots : golden[t] # NoCase}}

Load ==
  /\ step = "load"
  /\ step' = IF \E s, t \in Slots : s # t /\ golden[s].id = golden[t].id THEN "refused" ELSE "score"
  /\ UNCHANGED <<entry, golden, baseline, candidate, accepted>>

-----------------------------------------------------------------------------
(* Score and compare.                                                       *)

\* GoldenFacts: what the case records, not a checkout.
GoldenFacts(g) ==
  [index |-> g.index, shipped |-> g.shipped, targets |-> Unknown,
   sibling |-> IF g.superseded THEN g.case.siblings ELSE {}]

IsMeasurement(g) ==
  /\ g.measured.level # Unknown
  /\ g.measured.method \notin {"none", "failed"}
  /\ g.measured.confidence # 0

FromEvidence(g) ==
  IF ~IsMeasurement(g) THEN "could_not_determine"
  ELSE IF g.measured.level >= PathFromEntry THEN "affected"
  ELSE IF g.measured.level <= Present THEN "not_affected"
  ELSE "could_not_determine"

\* DeterministicPredictor.predict
Predict(rules, g) ==
  LET outcome == Evaluate(rules, g.case, GoldenFacts(g)) IN
  IF outcome # NoOutcome
  THEN [by |-> "policy", rule |-> outcome.rule, verdict |-> outcome.verdict]
  ELSE [by |-> IF IsMeasurement(g) THEN "evidence" ELSE "unresolved", rule |-> "none",
        verdict |-> FromEvidence(g)]

Scored(rules) ==
  [id \in {g.id : g \in Cases} |->
     LET g == CHOOSE h \in Cases : h.id = id IN
     [case |-> g, label |-> g.label, outcome |-> Predict(rules, g)]]

ScoreBaseline ==
  /\ step = "score"
  /\ \E rules \in RuleSets : baseline' = Scored(rules)
  /\ step' = "edit"
  /\ UNCHANGED <<entry, golden, candidate, accepted>>

\* The set is a directory of lines: a label is corrected or a case removed.
Relabel ==
  /\ step = "edit"
  /\ \E s \in Slots, label \in Labels :
       /\ label # golden[s].label
       /\ golden' = [golden EXCEPT ![s].label = label]
  /\ step' = "rescore"
  /\ UNCHANGED <<entry, baseline, candidate, accepted>>

Remove ==
  /\ step = "edit"
  /\ \E s \in Slots : golden' = [golden EXCEPT ![s] = NoCase]
  /\ step' = "rescore"
  /\ UNCHANGED <<entry, baseline, candidate, accepted>>

Keep ==
  /\ step = "edit"
  /\ step' = "rescore"
  /\ UNCHANGED <<entry, golden, baseline, candidate, accepted>>

ScoreCandidate ==
  /\ step = "rescore"
  /\ \E rules \in RuleSets : candidate' = Scored(rules)
  /\ step' = "compare"
  /\ UNCHANGED <<entry, golden, baseline, accepted>>

\* EvalReport's counts: cases labelled unsure score nothing.
Reachable(report) == {id \in DOMAIN report : report[id].label = "reachable"}
WithVerdict(report, verdicts) ==
  {id \in Reachable(report) : report[id].outcome.verdict \in verdicts}
Missed(report) == WithVerdict(report, Dismissing)
Abstained(report) == WithVerdict(report, {"could_not_determine"})
Escalated(report) == WithVerdict(report, {"affected"})

\* to_dict rounds a rate to four digits: ten-thousandths, a tie to the even one.
Rounded(k, n) ==
  LET whole == (10000 * k) \div n
      twice == 2 * ((10000 * k) % n) IN
  IF twice > n \/ (twice = n /\ whole % 2 = 1) THEN whole + 1 ELSE whole

FalseNegativeRate(report) ==
  IF Reachable(report) = {} THEN 0
  ELSE Rounded(Cardinality(Missed(report)), Cardinality(Reachable(report)))

\* Variant: the difference the wrong way round.
CompareReversed ==
  /\ step = "compare"
  /\ accepted' = (FalseNegativeRate(baseline) <= FalseNegativeRate(candidate))
  /\ step' = "decided"
  /\ UNCHANGED <<entry, golden, baseline, candidate>>

\* _compare_payloads: the false-negative rates of two reports, whatever cases each
\* is about and however many each abstains on.
Compare ==
  /\ step = "compare"
  /\ accepted' = (FalseNegativeRate(candidate) <= FalseNegativeRate(baseline))
  /\ step' = "decided"
  /\ UNCHANGED <<entry, golden, baseline, candidate>>

Rest == step \in {"decided", "refused"} /\ UNCHANGED vars

Next == Harvest \/ Label \/ Load \/ ScoreBaseline \/ Relabel \/ Remove \/ Keep
        \/ ScoreCandidate \/ Compare \/ Rest

Spec == Init /\ [][Next]_vars
-----------------------------------------------------------------------------
(* Properties.                                                              *)

Reports == {r \in {baseline, candidate} : r # NoReport}

\* Every report is about cases that were harvested, with a verdict of the schema.
TypeOK ==
  /\ step \in {"harvest", "label", "load", "score", "edit", "rescore", "compare", "decided", "refused"}
  /\ accepted \in BOOLEAN
  /\ \A r \in Reports : \A id \in DOMAIN r :
       /\ r[id].label \in Labels
       /\ r[id].outcome.verdict \in Dismissing \cup {"affected", "could_not_determine"}
       /\ \E s \in Slots : r[id].case.case = entry[s].case
  /\ step \in {"score", "edit"} =>
       Cardinality({golden[s].id : s \in Slots}) = Cardinality(Slots)

\* The backward search had nothing left to follow when it ended: it was not the
\* depth that ended it.
Complete(graph, package, seeds) ==
  Parents(graph, (Met(graph, package, seeds) \ seeds) \ {package}) \subseteq Met(graph, package, seeds)

\* The two searches of the lockfile agree: a dependent the labeller finds, walking
\* backwards from the package, puts the package in the closure the rule takes,
\* walking forwards from what is loaded; and the labeller finds one for every
\* package of the closure, unless it stopped at its depth with more to follow
\* (evaluation/reachability.py transitive_dependents, analysis/shipped.py _closure).
SearchesAgree ==
  \A s \in Slots :
    entry[s] # NoCase /\ HasGraph(entry[s].case) =>
      LET c        == entry[s].case
          seeds    == AppSeeds(c.tree)
          pulledIn == c.package \in entry[s].shipped \ seeds IN
      /\ entry[s].dependents # {} => pulledIn
      /\ pulledIn /\ Complete(c.tree.lock, c.package, seeds) => entry[s].dependents # {}

\* A package the labeller calls not reachable because nothing imports it and no
\* imported package depends on it is in no closure of what the application
\* imports (eval/harvest.py propose_label, step 7: "Decisive").
NoDependentIsDecisive ==
  \A s \in Slots :
    entry[s] # NoCase /\ HasGraph(entry[s].case) =>
      LET c == entry[s].case IN
      /\ entry[s].proposed = "not_reachable"
      /\ c.scope # "development"
      /\ c.package \notin Gathered(c.tree) \cup AppSeeds(c.tree)
      => c.package \notin entry[s].shipped

\* Where a rule dismisses a case the labelling protocol calls reachable, it is for
\* one reason only: npm's import index does not read the files in which the
\* labeller found the import, and the closure does not begin at the package,
\* because the root's lockfile does not know it or its name begins with "http".
\* No other rule, no other ecosystem and no ground truth contradicts a clearance,
\* although labels and rules search the tree in different ways (eval/harvest.py
\* propose_label, eval/label.py build, policy/rules.py).  It is about labels as the
\* protocol gave them, before anyone edits one.
RuleMissesAreUnindexed ==
  baseline # NoReport =>
    \A id \in Missed(baseline) : baseline[id].outcome.by = "policy" =>
      LET c       == baseline[id].case.case
          finders == {f \in c.tree.files : GatherReads(f) /\ c.package \in f.names} IN
      /\ baseline[id].outcome.rule = "not_imported" /\ c.eco = "npm"
      /\ finders # {} /\ \A f \in finders : ~IndexReads(f)
      /\ c.package \notin DOMAIN c.tree.lock \/ c.package \in HttpLike

\* A case dismissed on its evidence was measured: a tool ran, and for a Go module
\* an analysis reported on the case's advisory.  Neither a tool that failed nor
\* one that said nothing becomes a level of zero on the way from harvest to score
\* (eval/harvest.py _evidence_facts, evaluation/runner.py _from_evidence).
DismissalIsMeasured ==
  \A r \in Reports : \A id \in DOMAIN r :
    r[id].outcome.by = "evidence" /\ r[id].outcome.verdict \in Dismissing =>
      LET c == r[id].case.case IN
      IF IsGo(c)
      THEN Analyses(c.advisory) # {}
      ELSE c.out.kind = "ran"

\* A case the golden set clears as not imported is one the pipeline's own facts
\* clear on the same tree.  The exceptions are a tree that imports nothing the
\* lockfile knows, which the harvest records as "nothing ships" and the pipeline as
\* "not measured", and a package that ships under an import whose name begins with
\* "http", which the harvest takes for a URL (eval/harvest.py harvest and
\* _app_seeds, analysis/shipped.py npm_shipped and entry_imports).
GoldenClearsLikePipeline ==
  \A r \in Reports : \A id \in DOMAIN r :
    r[id].outcome.rule = "not_imported" =>
      LET c == r[id].case.case IN
      \/ NotImported(c, [index |-> ImportIndex(c.tree), shipped |-> ShippedPackages(c.tree, c.eco)])
      \/ Closure(c.tree.lock, EntryNames(c.tree)) = {}
      \/ c.package \in Closure(c.tree.lock, EntryNames(c.tree) \cap HttpLike)

\* On the same cases with the same labels, an accepted change stops escalating at
\* most as many reachable cases as it newly abstains on: whatever it moves between
\* verdicts, and however its rates are rounded, it trades no escalation for a
\* dismissal.  The trade for an abstention, which metrics.compare refuses, the
\* program's own gate leaves open (eval/run_eval.py _compare_payloads).
AcceptedPaysInAbstentions ==
  /\ step = "decided" /\ accepted
  /\ DOMAIN baseline = DOMAIN candidate
  /\ \A id \in DOMAIN baseline : baseline[id].label = candidate[id].label
  => Cardinality(Escalated(baseline)) - Cardinality(Escalated(candidate))
       <= Cardinality(Abstained(candidate)) - Cardinality(Abstained(baseline))
=============================================================================
