------------------------------- MODULE Triage -------------------------------
(***************************************************************************)
(* What the stages decide about one alert: the values Pipeline abstracts   *)
(* from.  The alert is ingested with its scope and patched version, the    *)
(* rules ask the tree, the adapter measures and the bundle is clamped, the *)
(* agent answers, the mechanical checks and the validator review the       *)
(* answer, and the gate decides on the PATCH, which is retried.            *)
(*                                                                         *)
(* The stages' rows, budgets, clusters and crashes are Pipeline's and      *)
(* AgentLoop's; here a stage is one step on one alert, and the rest of the *)
(* repository is one neighbouring bundle.                                  *)
(***************************************************************************)
EXTENDS PolicyRules

CONSTANTS
  RawAlerts,      \* alerts as a source reports them, with what the world is like
  Trees,          \* working trees, as Artifact reads them
  Targets,        \* entries of the targets a cached architecture ships: sets of strings, or Unknown
  Siblings,       \* sets of patched versions of the other advisories on the package
  Outcomes,       \* tool outcomes an adapter can meet
  Neighbours,     \* sets of at most one bundle of another alert of the repository
  Answers,        \* verdict documents the agent can end with
  AgreementAsked, \* values of auto_dismiss_requires.validator_agreed
  MaxAttempts,    \* retry_with_backoff's attempts (5 in the code)
  MaxInvocations, \* bound: invocations of the program
  NoFacts, NoBundle, NoVerdict

VARIABLES
  agreementAsked, \* the configuration
  alert,          \* the alerts row, and the manifest and origin it comes from
  facts,          \* what the policy stage asked the repository, while it matters
  bundle,         \* the evidence bundle
  verdict,        \* the latest verdict document
  validated,      \* "null", "agreed", "disputed"
  at,             \* the stage the alert is at
  github,         \* the alert's state at GitHub
  mark,           \* the emit row says the alert was dismissed
  sent,           \* PATCHes sent by this invocation
  invocations

vars == <<agreementAsked, alert, facts, bundle, verdict, validated, at, github,
          mark, sent, invocations>>

ConfidenceMin == 85       \* auto_dismiss_requires.confidence_min
ContradictionLevel == 4   \* mechanical.CONTRADICTION_LEVEL

Stages == {"ingest", "policy", "evidence", "judgment", "validation", "emit", "patch",
           "done", "aborted"}

ASSUME TriageAssumption ==
  /\ MaxAttempts \in Nat \ {0}
  /\ MaxInvocations \in Nat \ {0}
  /\ AgreementAsked \subseteq BOOLEAN

\* What a source reports: versions that were parsed, sections in the words of the
\* ecosystem, and nothing yet of scope or directness.
ASSUME RawAlertsAssumption ==
  \A a \in RawAlerts :
    /\ {"eco", "origin", "resolved", "patched", "scope", "direct", "events", "sections"}
         \subseteq DOMAIN a
    /\ a.scope = "unset" /\ a.direct = Unknown
    /\ a.events \in Seq(RangeEvent)
    /\ a.sections \in Seq(Sections(a.eco))

\* A lockfile lists finitely many packages, and for a module that loads the
\* toolchain lists what it links.
ASSUME TreesAssumption ==
  /\ \A a \in RawAlerts : a.eco \in DOMAIN Trees
  /\ \A eco \in DOMAIN Trees : \A tree \in Trees[eco] \ {Unknown} :
       /\ tree.lock = NoGraph \/ IsFiniteSet(Packages(tree.lock))
       /\ tree.golist = "ok" => tree.linked \subseteq tree.listed

\* What the agent's output schema admits; it names no rule.
ASSUME AnswersAssumption ==
  \A doc \in Answers : doc.by = "judgment" /\ doc.rule = "none" /\ doc.confidence \in 0..100

-----------------------------------------------------------------------------
(* Ingest: the manifest, where it can be read, decides scope and directness, *)
(* an OSV source the patched version.                                       *)

Init ==
  /\ agreementAsked \in AgreementAsked
  /\ alert \in RawAlerts
  /\ facts = NoFacts
  /\ bundle = NoBundle
  /\ verdict = NoVerdict
  /\ validated = "null"
  /\ at = "ingest"
  /\ github = "open"
  /\ mark = FALSE
  /\ sent = 0
  /\ invocations = 1

Ingest ==
  /\ at = "ingest"
  /\ \E readable \in BOOLEAN :
     LET scope == IF readable THEN ResolveScope(alert.eco, alert.sections)
                  ELSE Scope("unknown", Null) IN
     alert' = [alert EXCEPT
                 !.scope = scope.scope,
                 !.direct = scope.direct,
                 !.patched = IF alert.origin = "osv"
                             THEN PatchedVersion(alert.events, alert.resolved)
                             ELSE alert.patched]
  /\ at' = "policy"
  /\ UNCHANGED <<agreementAsked, facts, bundle, verdict, validated, github, mark, sent, invocations>>

-----------------------------------------------------------------------------
(* Policy.                                                                  *)

FactsOf(tree, targets, sibling) ==
  [tree |-> tree, targets |-> targets, sibling |-> sibling,
   index |-> ImportIndex(tree), shipped |-> ShippedPackages(tree, alert.eco)]

\* PolicyStage._verdict_document.
PolicyDocument(outcome) ==
  [by |-> "policy", rule |-> outcome.rule, verdict |-> outcome.verdict,
   justification |-> outcome.justification, human |-> outcome.human,
   confidence |-> PolicyConfidence(alert.eco), cites |-> "none"]

Policy ==
  /\ at = "policy"
  /\ \E tree \in Trees[alert.eco], targets \in Targets, sibling \in Siblings :
       LET f == FactsOf(tree, targets, sibling) IN
       LET outcome == Evaluate(PolicyYaml, alert, f) IN
       IF outcome = NoOutcome
       THEN at' = "evidence" /\ UNCHANGED <<facts, verdict>>
       ELSE at' = "emit" /\ facts' = f /\ verdict' = PolicyDocument(outcome)
  /\ UNCHANGED <<agreementAsked, alert, bundle, validated, github, mark, sent, invocations>>

-----------------------------------------------------------------------------
(* Evidence.                                                                *)

Bundle(m, known) == [level |-> m.level, confidence |-> m.confidence, method |-> m.method,
                     sites |-> m.sites, symbolsKnown |-> known]

\* bundle.is_shallow
Shallow(bundles) ==
  LET ran        == {b \in bundles : b.method # "failed"} IN
  LET measurable == {b \in ran : b.symbolsKnown} IN
  \/ ran = {}
  \/ /\ \A b \in ran : ~b.sites
     /\ measurable # {}
     /\ \A b \in measurable : b.level < SymbolReferenced

NoAdapter ==
  /\ at = "evidence"
  /\ alert.eco \notin Adapted
  /\ at' = "emit"
  /\ UNCHANGED <<agreementAsked, alert, facts, bundle, verdict, validated, github, mark, sent, invocations>>

Measure ==
  /\ at = "evidence"
  /\ alert.eco \in Adapted
  /\ \E out \in Outcomes[alert.eco], neighbour \in Neighbours :
       LET b == Bundle(Clamp(alert.eco, alert.symbolsKnown, Reachability(alert.eco, out)),
                       alert.symbolsKnown) IN
       /\ bundle' = b
       /\ at' = IF Shallow({b} \cup neighbour) THEN "emit" ELSE "judgment"
  /\ UNCHANGED <<agreementAsked, alert, facts, verdict, validated, github, mark, sent, invocations>>

-----------------------------------------------------------------------------
(* Judgment and validation.                                                 *)

\* judgment.undetermined_verdict
Undetermined == [by |-> "judgment", rule |-> "none", verdict |-> "could_not_determine",
                 justification |-> FALSE, human |-> TRUE, confidence |-> 0, cites |-> "none"]

Judge ==
  /\ at = "judgment"
  /\ \/ \E doc \in Answers \cup {Undetermined} : verdict' = doc /\ at' = "validation"
     \/ verdict' = Undetermined /\ at' = "emit"   \* status "failed": never validated
  /\ UNCHANGED <<agreementAsked, alert, facts, bundle, validated, github, mark, sent, invocations>>

\* mechanical.check_verdict; the schema check passed when the answer was stored.
Justified(doc) == doc.verdict # "not_affected" \/ doc.justification
\* Variant: any confidence is trusted.
WithinHundred(doc, eco) == doc.confidence <= 100

WithinCeiling(doc, eco) == eco \in Adapted => doc.confidence <= ConfidenceCeiling[eco]
Contradicted(doc, b) == /\ doc.verdict \in Dismissing
                        /\ b.method # "failed"
                        /\ b.level >= ContradictionLevel
CitationsHold(doc, checkout) ==
  \/ doc.cites = "none"
  \/ IF checkout THEN doc.cites = "sound" ELSE doc.verdict \notin Dismissing

Passes(doc, eco, b, checkout) ==
  /\ Justified(doc)
  /\ WithinCeiling(doc, eco)
  /\ ~Contradicted(doc, b)
  /\ CitationsHold(doc, checkout)

RejectMechanically ==
  /\ at = "validation"
  /\ \E checkout \in BOOLEAN : ~Passes(verdict, alert.eco, bundle, checkout)
  /\ validated' = "disputed"
  /\ at' = "emit"
  /\ UNCHANGED <<agreementAsked, alert, facts, bundle, verdict, github, mark, sent, invocations>>

\* _adversarial and _settle: no answer leaves the verdict unconfirmed.
Review ==
  /\ at = "validation"
  /\ \E checkout \in BOOLEAN : Passes(verdict, alert.eco, bundle, checkout)
  /\ validated' \in {"null", "agreed", "disputed"}
  /\ at' = "emit"
  /\ UNCHANGED <<agreementAsked, alert, facts, bundle, verdict, github, mark, sent, invocations>>

-----------------------------------------------------------------------------
(* Emit.                                                                    *)

\* DismissalGate.evaluate, under the configuration the repository ships.
GateOpen ==
  /\ verdict # NoVerdict
  /\ verdict.verdict = "not_affected"
  /\ verdict.confidence >= ConfidenceMin
  /\ agreementAsked => validated = "agreed"
  /\ ~verdict.human
  /\ verdict.justification

\* An alert found by a scan has no GitHub client behind it.
KeepOpen ==
  /\ at = "emit"
  /\ mark \/ ~GateOpen \/ alert.origin = "osv"
  /\ at' = "done"
  /\ UNCHANGED <<agreementAsked, alert, facts, bundle, verdict, validated, github, mark, sent, invocations>>

OpenGate ==
  /\ at = "emit"
  /\ ~mark /\ GateOpen /\ alert.origin = "dependabot"
  /\ at' = "patch"
  /\ UNCHANGED <<agreementAsked, alert, facts, bundle, verdict, validated, github, mark, sent, invocations>>

\* GithubClient._request: a reply below 500 ends the loop, a lost one or a
\* server error is tried again, whether or not GitHub applied the change.
PatchAccepted ==
  /\ at = "patch" /\ sent < MaxAttempts
  /\ sent' = sent + 1
  /\ github' = "dismissed"
  /\ mark' = TRUE
  /\ at' = "done"
  /\ UNCHANGED <<agreementAsked, alert, facts, bundle, verdict, validated, invocations>>

PatchRefused ==
  /\ at = "patch" /\ sent < MaxAttempts
  /\ sent' = sent + 1
  /\ at' = "done"
  /\ UNCHANGED <<agreementAsked, alert, facts, bundle, verdict, validated, github, mark, invocations>>

\* Variant: an exhausted retry starts over.
Requeue ==
  /\ at = "patch" /\ sent = MaxAttempts
  /\ at' = "emit"
  /\ sent' = 0
  /\ UNCHANGED <<agreementAsked, alert, facts, bundle, verdict, validated, github, mark, invocations>>

\* Variant: the attempts are not counted against a limit.
PatchLostUnbounded ==
  /\ at = "patch" /\ sent <= MaxAttempts
  /\ sent' = sent + 1
  /\ github' \in {github, "dismissed"}
  /\ UNCHANGED <<agreementAsked, alert, facts, bundle, verdict, validated, at, mark, invocations>>

PatchLost ==
  /\ at = "patch" /\ sent < MaxAttempts
  /\ sent' = sent + 1
  /\ github' \in {github, "dismissed"}
  /\ UNCHANGED <<agreementAsked, alert, facts, bundle, verdict, validated, at, mark, invocations>>

\* RetryExhausted is not a GithubError: it leaves the stage and aborts the pass.
RetriesExhausted ==
  /\ at = "patch" /\ sent = MaxAttempts
  /\ at' = "aborted"
  /\ UNCHANGED <<agreementAsked, alert, facts, bundle, verdict, validated, github, mark, sent, invocations>>

\* Another invocation of the program emits again: emit has no pending list.
EmitAgain ==
  /\ at \in {"done", "aborted"}
  /\ invocations < MaxInvocations
  /\ invocations' = invocations + 1
  /\ at' = "emit"
  /\ sent' = 0
  /\ UNCHANGED <<agreementAsked, alert, facts, bundle, verdict, validated, github, mark>>

Step ==
  \/ Ingest \/ Policy \/ NoAdapter \/ Measure \/ Judge
  \/ RejectMechanically \/ Review \/ KeepOpen \/ OpenGate
  \/ PatchAccepted \/ PatchRefused \/ PatchLost \/ RetriesExhausted

Rest == at \in {"done", "aborted"} /\ UNCHANGED vars

Next == Step \/ EmitAgain \/ Rest

Spec == Init /\ [][Next]_vars /\ WF_vars(Step)
-----------------------------------------------------------------------------
(* Properties.                                                              *)

\* Every variable has its type; what a rule did not decide keeps no facts.
TypeOK ==
  /\ agreementAsked \in AgreementAsked
  /\ alert.direct \in {TRUE, FALSE, Null, Unknown}
  /\ alert.scope \in {"unset", "runtime", "development", "unknown"}
  /\ facts # NoFacts => verdict.by = "policy"
  /\ bundle # NoBundle => bundle.level \in Absent..PathFromEntry /\ bundle.confidence \in 0..100
  /\ verdict # NoVerdict => verdict.confidence \in 0..100
  /\ validated \in {"null", "agreed", "disputed"}
  /\ at \in Stages
  /\ github \in {"open", "dismissed"} /\ mark \in BOOLEAN
  /\ sent \in 0..MaxAttempts /\ invocations \in 1..MaxInvocations

DecidedBy(rule) == verdict # NoVerdict /\ verdict.rule = rule

\* Why the searches can pass over a package of the artifact: it is built beside
\* the root's lockfile or module; the Go list is of a module that did not load; a
\* file is out of reach of the walk of the sources; or only files the index does
\* not read name it, and the root's lockfile does not know it.
OutOfSight(tree, eco, package) ==
  \/ package \in tree.nested
  \/ eco = "go" /\ tree.golist = "partial"
  \/ eco = "npm" /\ \E f \in tree.files : ~EntryReads(f)
  \/ /\ eco = "npm" /\ package \notin DOMAIN tree.lock
     /\ \E f \in tree.files : package \in f.names /\ ~IndexReads(f)

\* An alert cleared as not imported is about a package the builds of the tree do
\* not hold, or one of the four gaps hides the package from both the import index
\* and the closure: there is no fifth way for the two searches to miss together
\* (policy/rules.py NotImportedRule with analysis/imports.py, analysis/shipped.py).
ClearedShipsOnlyOutOfSight ==
  DecidedBy("not_imported") =>
    /\ alert.eco \in {"go", "npm"}
    /\ \/ alert.package \notin TrueArtifact(facts.tree, alert.eco)
       \/ OutOfSight(facts.tree, alert.eco, alert.package)

\* A critical direct dependency whose advisory is exploited in the wild goes to a
\* human whenever a rule decides it, however else the rules could clear it, and
\* GitHub keeps it open: only a version that has the fix is decided before
\* (config/policy.yaml's order with policy/rules.py KevDirectCriticalRule).
KevCriticalIsEscalated ==
  /\ verdict # NoVerdict
  /\ verdict.by = "policy"
  /\ alert.kev /\ alert.direct = TRUE /\ alert.cvss # Unknown /\ alert.cvss >= CvssMin
  /\ ~(Parses(alert.resolved) /\ Parses(alert.patched) /\ AtLeast(alert.resolved, alert.patched))
  => verdict.human /\ verdict.verdict = "affected" /\ github = "open"

\* An alert that OSV reports for the installed version is never cleared as
\* already fixed: the version chosen among the advisory's branches is above the
\* installed one (osv_scan._patched_version with versions.at_or_above).
OsvAlertNeverFixed ==
  alert.origin = "osv" => ~DecidedBy("already_fixed")

\* Under the configuration that asks for the validator's agreement, an alert is
\* dismissed at GitHub only by a verdict the agent gave and the validator shared,
\* which no measured path to the code contradicts, and only where the tooling can
\* be trusted that far: the confidence a dismissal takes is above the ceiling of
\* every ecosystem but Go and Cargo (emit/dismissal.py, validation/mechanical.py
\* and ecosystems/base.py clamp together).
DismissedIsProved ==
  github = "dismissed" /\ agreementAsked =>
    /\ verdict.by = "judgment" /\ validated = "agreed"
    /\ verdict.verdict = "not_affected" /\ verdict.justification /\ ~verdict.human
    /\ verdict.cites # "broken"
    /\ bundle.method = "failed" \/ bundle.level < PathFromEntry
    /\ alert.eco \in {"go", "cargo"}

\* Every pass over the alert ends, whatever GitHub answers: the PATCH is retried
\* a bounded number of times (util.retry_with_backoff).
EverySettles == <>[](at \in {"done", "aborted"})
=============================================================================
