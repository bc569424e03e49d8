# A TLA+ model of the Dependabot triage harness

The harness (`src/harness`) reads the vulnerability alerts of a fleet of
repositories and decides, for each, whether it can be reached: rules first, then
clustering, measurement by real tooling, a judgment by a model, an adversarial
check by another model, and reports or a gated dismissal at GitHub. Its progress
lives in one SQLite file, so that a run can be killed anywhere and resumed.

This directory holds the specifications of that program, the TLC configurations
that check them on small instances, and proofs of the main invariants for every
size of instance.

## 1. The system

| Component | State | Operations | What makes it correct |
|---|---|---|---|
| driver (`cli.py`, `scan.py`) | run id, stage under way | `run`, `resume`, `scan-public`, `scan-local`; stages in a fixed order; abort | a resumed run redoes no completed stage and loses no alert |
| progress database (`db.py`) | runs, alerts, stage rows, verdicts, clusters, snapshots, architecture, ledger | upserts, the resume predicate `is_stage_complete`, `latest_verdict` | stage rows follow the stage order; the latest verdict is the right one |
| ingest | - | snapshot, list, replay a cached verdict, record | a replay carries no approval to another document; a failed alert costs only itself |
| policy | rule statistics | first matching rule ends the alert, with a verdict | no terminated alert vanishes |
| dedup | cluster rows (no run id) | same upgrade path, then the agent's clusters; `propagate_verdicts` | suppressed alerts report what their canonical reports; approval is not inherited |
| recon | architecture cache | one question per repository and structure hash | asked once per structure |
| evidence | bundle per alert and run | measure, requeue a shallow repository | the agent never starts without evidence |
| judgment, agent loop | toolbox count | ask the ledger, tool loop, record the verdict | the loop ends; an exhausted budget is "could not determine" |
| validation | - | mechanical checks, then the adversarial question | a verdict is confirmed only if the validator saw it |
| emit | emit row, GitHub | gate, dismissal, files | dismissed at most once, only if reviewed, never against proof |
| budget ledger, model client | ledger rows | `check`, `record`, retries | caps survive crashes; every call is ledgered |
| checkout provider | shared directory cache | clone into a staging directory, rename into place | what is read under a commit's name is that commit's whole tree, and under a branch's some commit's, whoever cloned it |
| sources, feeds | file caches | OSV discovery and queries, the advisory cache, GitHub paging and PATCH | an outage is never read as "no advisory"; retries end |
| ecosystems, analysis, versions | none | pure functions and subprocesses | an answer is never more certain than its method; a cleared package is not in what is built, but for named gaps in what is read |
| evaluation | golden set, reports | harvest, label, score, compare | where labels and rules part is known; no accepted change trades an escalation for a dismissal |
| reports | - | formatting | - |

Components interact through the database only: a stage reads the rows of the
stage before it, and the resume predicate of each stage is a query. The ledger is
shared by dedup, recon, judgment and validation. Within a pass there is one process and
one thread; what is hard is not concurrency but *where a pass can end* (between any two
commits), *what a later pass or a later run finds* (rows of other runs, replayed
verdicts, cluster rows without a run id, stale snapshots), and *partial answers*
(a failed call, an exhausted budget, an unavailable validator). Several scans may run
at once: they share the checkout directory, the advisory cache and the database, and no
lock orders them beyond SQLite's and the file system's atomic rename. `PROJECT.json`
lists the hazards at the lines where they bite, with the properties that cover
them.

## 2. Modules

| Module | Role |
|---|---|
| `AlertLifecycle` | abstract: the one-way funnel each alert of each run goes through |
| `Pipeline` | the whole stage sequence over its tables, with kills, aborts, resumes and several runs |
| `PipelineProofs` | theorems about `Pipeline`: types, order of the stages, approvals |
| `PipelineFunnelProofs` | `Pipeline` implements `AlertLifecycle`; no alert is lost; shallow repositories; what holds in a database of one run id; one dismissal per alert |
| `MCPipeline` | small instances of `Pipeline` |
| `Grouping` | abstract: what the dedup stage may decide about its pending alerts, and the rows that follow |
| `Dedup` | how it decides: the index, the agent's questions and answers, resumed passes, inheritance |
| `DedupProofs` | `Dedup` records a `Grouping`; verdicts are inherited in one hop and from kin |
| `MCDedup` | a small instance of `Dedup` |
| `AgentLoop` | ledger, model client and tool loop under the three agent stages |
| `AgentLoopProofs` | theorems about `AgentLoop` |
| `MCAgentLoop` | small instances of `AgentLoop` |
| `Versions` | the order of versions, "at or above", patch-level bumps, the choice of a fix among OSV branches |
| `Artifact` | what a working tree says: import index, lockfile closure, the toolchain's list, what each search skips; and `TrueArtifact`, what the builds hold |
| `Adapters` | the five ecosystem adapters: scope of a dependency, reachability of a tool's outcome, ceilings, the clamp |
| `PolicyRules` | the six deterministic rules over these facts, and the engine that takes the first that decides |
| `RuleProofs` | the order of versions, the choice of a fix, the engine, the closure of a lockfile: shared by the two modules of proofs below |
| `Triage` | the decision about one alert, from its raw form to the retried PATCH |
| `TriageProofs` | theorems about `Triage` |
| `GoldenSet` | harvest, label, load, score, edit, score again, and `run_eval --baseline` |
| `GoldenSetProofs` | theorems about `GoldenSet` |
| `PublicScan` | scans by several processes over shared checkouts, cache and database, with a clock |
| `PublicScanProofs` | theorems about `PublicScan` |
| `MCTriage`, `MCGoldenSet`, `MCPublicScan` | their small instances |

`Triage` and `GoldenSet` both extend `PolicyRules`, which extends `Versions`, `Adapters` and
`Artifact`: the pipeline and its evaluation are two users of the same rules, as in the code.

### Pipeline

`st[r][a][s]` is the status in `stage_results` of run r, alert a, stage s; `bundle`
the payload of the evidence row, `mark` that of the emit row; `verdict` the latest row of
`verdicts`, `cluster` the `dedup_clusters` table, `snap` the newest snapshot. `pc`,
`run`, `todo`, `batch`, `rows` and `closing` are the process: the stage, the pending
list it computed when it began, the rows a loop has still to visit. An action
is one iteration of a stage's loop, which is one transaction (or one autocommitted
write) of the code: `Ingest`, `Replay`, `IngestFails`, `NoRuleMatches`, `RuleMatches`,
`Dedup` (one transaction for the fleet's decisions), `Measure`, `NoAdapter`,
`CheckShallow`, `Requeue`, `Defer`, `Judge`, `Inherit`, `RejectMechanically`,
`ValidatorUnavailable`, `ValidatorAnswers`, `KeepOpen`, `DismissalFails`, `Dismiss`,
`RecordDismissal`. `Pending(s)` holds the seven resume predicates. `Begin` is an
invocation, `Stop` a kill (status stays "running") or an exception ("aborted").

Data are abstracted to what the properties tell apart. A verdict document is who decided
it, about which alert it was reasoned, and whether it meets the gate's bar by
itself; a bundle is one of five kinds, those that `is_shallow` and the contradiction
check distinguish. Which rule matches, which clusters the agent finds and what it
answers are free choices. What dedup decides is any `Grouping`.

### Grouping and Dedup

`Grouping` holds what `Pipeline` and `Dedup` share: cluster ids, the groupings a stage may decide, the
rows and statuses it then writes. `Dedup` is the stage loop by loop for one run id. `Begin` builds the
index of the pending alerts and clusters those of one upgrade path (`TrivialClusters`, with
`PickCanonical`); for each alert left, `NothingToAsk`, `Refuse` (the ledger) or `Ask` with its
`Shortlist`; `Accept` takes one entry of the answer that is `WellFormed` and meets no cluster, and
`AnswerEnds` is the end of the answer or its failure. `Record` is the one transaction, then come
`Judge`, `Propagate` and, per member row, `Inherit` or `NothingToInherit`. `Kill` loses the process and
keeps the tables. `together` is history: which alerts the agent was shown in one question.

A resumed pass clusters only what is new to it, so a path cluster can get a second canonical row
under the id it had. Which of them a member inherits from is the query's order, left open, and it need
not be the one its own stage row names in `inherits_from`. Both are on the same upgrade path, which is
what `InheritsFromKin` says; that they are the same alert is not true of the code, and no
document says it.

### AgentLoop

`runTokens`, `repoTokens` and `alertTokens` are the three sums `BudgetLedger.check` makes over
`budget_ledger`, and `rows` its length. A task is one question: `Ask` is the ledger's yes,
then `ProviderRaises` or `ProviderAnswers`, `Record` (the row, before the answer is
judged), then `AnswerUnusable`, `FinalAnswer` or `ToolsRequested` and `UseTools`.
`Refuse` is `_breach` under "queue_next_run" and "warn" alike (both callers look at
`allowed` only), `BudgetFails` is `BudgetExceeded`. A priced model costs one dollar unit
per token, an unpriced one nothing. `served` counts answers given, whether or not a
row was written; it is history, like `paid`.

### Versions, Artifact, Adapters, PolicyRules

Pure functions, written as recursive functions or quantifiers so that they can be used from
modules with proofs. A version is the numbers of its core and the tokens after it; a
missing component is zero, a fifth is dropped, and any token makes it a prerelease, as in
`Version._key`. A tree is a set of files, the graph of its root lockfile, and what `go list -e`
prints, which for a module that does not load is a partial list with exit code 0. A file is the names
it imports and what hides them from a search: whether the walk can open it, its size, whether
`imports.py` lists its suffix, and how the import is written. `IndexNames`
(`ImportScanner`) and `EntryNames` (`shipped.entry_imports`) are two searches with
different limits. A manifest is the sequence of sections that list a package, since the adapters
read them in passes and the first match wins; `targets` are the names and entry files of build
targets, which `DevOnly` compares with a purl and a path, as the code does. Facts that were not measured
are `Unknown`, which every rule declines on. `Closure` is the code's search, round after round;
`Required` says what it should find (what is in every set that holds the imported packages and,
with a package, all it needs). A clearance is compared with `TrueArtifact`, which no scan
computes: what *any* file imports, in whatever form, with all that requires, what the
linker takes, and what is built under a nested lockfile or module.

### Triage

One action per stage on one alert (`Ingest`, `Policy`, `Measure`, `Judge`, `RejectMechanically`,
`Review`, `KeepOpen` or `OpenGate`) and one per answer to the PATCH (`PatchAccepted`, `PatchRefused`,
`PatchLost`, `RetriesExhausted`). What `Pipeline` leaves to choice is computed here: which rule matches, the
level and confidence of a bundle after the clamp, whether the gate opens. What `Triage`
leaves out, `Pipeline` has: rows, kills, clusters, other runs. The rest of the repository
is one neighbouring bundle, which decides `is_shallow`.

### GoldenSet

`entry` is what the harvest wrote, `golden` the labelled set, `baseline` and `candidate` the two reports. The
operator `Entry` is `harvest()` on one alert, `Labelled` is `label.build`, `Predict` is
`DeterministicPredictor.predict`. A tree is searched three times, each time differently: `AppSeeds`
(`harvest._app_seeds`, which drops what begins with "http" and keeps bare words), `Gathered`
(`reachability.gather`, more suffixes than the index, one subtree, no documentation) and the import
index. `Compare` is `run_eval._compare_payloads`, the gate the program runs: the difference of the rounded
false-negative rates and nothing else. (`metrics.compare` also asks for comparable
sets and for no more abstentions, but only tests call it.) Between the reports somebody may correct a label or
take a case out, because the set is a directory of lines in the repository.

### PublicScan

`tree`, `cache`, `recorded` and `newest` are shared: the checkout directory, the advisory cache, and the
snapshots with the one that counts as newest. The rest belongs to a scanner. A step is one
command (`Fetch`, `CheckOut`, `Exists`, `Replace`), one request (`FromCache`, `FromOsv`, `OsvFails`) or one
write of the database (`Snapshot`, `Ingest`), and `Kill` can end the process between any two; its
staging directory, under a random name, is never looked at again. A directory is named after what was
asked for, a commit or a branch or tag; `fetched` is the commit a name stood for when it was cloned. `newest`
may stay at an older commit, since rows are ordered by whole seconds and a commit seen before keeps its
rowid. Dependencies stand for the one advisory OSV has about them. What the stages decide, and the verdicts they
write, replay and copy, is `Pipeline`'s: here they only ask for a tree. `denied` is
history: OSV itself answered 404.

In all modules an operator marked *Variant* is the mutated form of the definition after
it; no behaviour uses it. It is there to show that the property named in
`PROJECT.json` fails when the code is changed that way.

## 3. What the runs check

| Run | Instance | Properties |
|---|---|---|
| `pipeline_resume` | 2 alerts, 1 run id, 3 passes in any mode, killed anywhere or not, fair | `TypeOK`, `StageChain`, `FunnelIsTotal`, `SuppressedInherits`, `InheritedNeverConfirmed`, `ProofBlocksDismissal`, `Implements`, `EveryPassEnds` |
| `pipeline_runs` | 2 alerts on one upgrade path, 2 runs in a row, none killed, 2 structure hashes | `AgreementIsReviewed`, `AtMostOneDismissal`, `ShallowIsFlagged`, `DismissalReviewed` |
| `dedup_resume` | 6 alerts, 4 on one upgrade path, shortlists of 2, 2 passes killed anywhere | `TypeOK`, `NamesItsReasoner`, `InheritsFromKin`, `RecordsAGrouping` |
| `budget_resume` | 2 repositories, 1 alert each, 1 tool call, 2 attempts, 2 passes killed anywhere, fair | `TypeOK`, `CapsHold`, `OneCallLostPerPass`, `DeferredUntilNextRun`, `EveryQuestionEnds` |
| `triage_decision` | one alert of 15 manifests in 6 ecosystems, with versions, exploit data, trees, tool outcomes and answers that could clear it wrongly; 2 attempts, 2 invocations; fair | `TypeOK`, `ClearedShipsOnlyOutOfSight`, `KevCriticalIsEscalated`, `OsvAlertNeverFixed`, `DismissedIsProved`, `EverySettles` |
| `golden_set` | 2 cases out of trees that each hide an import from some search, 3 policies before and after an edit | `TypeOK`, `SearchesAgree`, `RuleMissesAreUnindexed`, `DismissalIsMeasured`, `GoldenClearsLikePipeline`, `AcceptedPaysInAbstentions` |
| `public_scan` | 2 scanners, 2 commits and a branch, 1 affected dependency that one commit pins, 1 push, 1 day, killed anywhere, fair | `TypeOK`, `TreeIsWhole`, `EveryTreeStays`, `CoverageIsHonest`, `EveryScanEnds` |

`pipeline_resume` shows that stage rows and resume predicates fit together: whatever the
sequence of kills and modes, no alert is analysed out of order, none is lost
before the reports, and the tables implement `AlertLifecycle` (refinement mapping
`Phase`). `pipeline_runs` is about what a second run finds: replays and stale rows forge
no approval; since nobody kills it, no shallow repository is judged either. `dedup_resume` shows that whatever the
agent answers and wherever a pass was killed, the stage takes the step `Pipeline` takes for it
(`RecordsAGrouping`), and that what two passes leave under one cluster id passes on
no verdict between strangers and none at second hand. `budget_resume` shows the cost of asking once per task and charging
per answer: a cap is exceeded, but by less than `Burst` = (tool calls + 1) x
attempts x dearest call. A pass that dies between an answer and its row
(`models/client.py:493`) loses one row: `OneCallLostPerPass` is the bound on what the ledger never sees. `triage_decision` shows that an alert cleared on
imports is absent from what is built, unless one of four named gaps hides the package from the index and from the closure at
once, and that a dismissal passed the agent, the mechanical checks, the
validator and the ceiling of its ecosystem. `golden_set` shows where the labeller, the harvest and the rules,
which search a tree each in its own way, can disagree, and what the program's gate does and does not
refuse. `public_scan` shows that neither a kill nor a race nor an outage of one scan
spoils the tree or the coverage of another.

### Where a property stops, and why

The properties of `triage_decision`, `golden_set` and `public_scan` hold with these restrictions; each is what the
code does.

* `ClearedShipsOnlyOutOfSight` names four gaps (`OutOfSight`). The package is pinned by a nested
  lockfile or module, while only the root's is read (`analysis/shipped.py:137`); the Go module did not
  load and `go list -e` still answered (`:162`, against the comment at `:155`); a file is unreadable, above two
  million bytes or outside the walk, while the index still counts as scanned; or the package is named only in
  files the index does not read (`.vue`, `.svelte`) and the root's lockfile does not know it.
  The property says there is no fifth way.
* Nothing is claimed of a clearance by `dev_only`. A package Cargo lists both under
  `dev-dependencies` and for a target is called development, since Cargo's sections are read in that order, and
  the rule's last guard compares a purl and a manifest path with names and entry files of build targets, which
  are never either. `DevOnly` models both, `dev_only` can clear such an alert in the runs, and the
  list of hazards says no property covers it.
* `DismissedIsProved` is about the shipped configuration and the level in the bundle. With
  unknown symbols the clamp lowers level 4 to 2 before the contradiction check looks.
* `SearchesAgree` has its converse only where the labeller's search was not ended by its
  depth (`Complete`); beyond it `deep_dependency` has the counterexample.
* `RuleMissesAreUnindexed` says where rules and labels do disagree: an npm package imported, and its
  symbol used, only in files `ImportScanner` does not read, where the closure does not begin at the package.
* `GoldenClearsLikePipeline` has two exceptions. For a tree that imports nothing its lockfile knows, the
  harvest writes that nothing ships, the pipeline that nothing was measured. What ships under an
  import like `http-proxy` is dropped by `eval/harvest.py:94`, which takes it for a URL, and kept by
  `analysis/shipped.py:44`.
* `AcceptedPaysInAbstentions` is about the same cases and labels: a corrected label changes no case id,
  and the gate compares reports about different cases without a word. A reachable case that moves from
  escalated to abstained passes the gate; the property says that is the only trade it lets pass.
* `TreeIsWhole` promises of a branch's directory only that it is *some* commit's: it is cloned once and
  never refreshed, so `--ref main` reads what `main` was then (`sources/checkout.py:106`).
* A scan asks for the head twice, for discovery and for the snapshot. Alerts may come from one commit
  and measurements from another; no property relates the two.

Five runs show a sentence of the repository that its code does not keep:

* `redismissal` - a run invoked three times dismisses an alert twice: the second pass
  overwrites `dismissed: True` with `False` (`stages/emit.py:216`).
* `inherited_confirmed` - a cluster row of run 1 overwrites a verdict judged in run 2,
  and the validator confirms the inherited document (`stages/dedup.py:244`).
* `shallow_missed` - killed after its last measurement, a pass leaves a shallow repository
  that the resumed pass never examines (`stages/evidence.py:126`).
* `stale_stamp` - evidence is measured, the pass is killed, the branch moves, and the resumed pass
  stamps the verdict it reasons from the old bundle with the structure hash of the new tree
  (`stages/judgment.py:309`), under which a later run replays it (`db.py:443`, `db.py:446`).
* `deep_dependency` - the labeller's backward search drops what lies more than eight steps above
  the package's own dependents and calls the package not reachable; the closure in the same case holds it
  (`evaluation/reachability.py:285`). `CompleteIsDecisive` says where the label can be relied on.

### Bounds

Two alerts are the least that have a cluster, a canonical and a member, and a repository
that is shallow only in part of its alerts. Three passes are needed for the lost
dismissal mark (one to dismiss, one to forget, one to dismiss again) and for a
resume of a resume. Two runs are enough for what crosses runs: a run only sees that a
row is another run's. `pipeline_runs` starts each run id once and kills nothing, because the
resume of a run has a run of its own. All five kinds of bundle occur in `pipeline_runs`; `pipeline_resume` leaves out
`blind` and `broken`, which differ from `found` and `silent` only in what `Shallow` makes of them.
In `dedup_resume` four alerts on one path make two clusters under one id,
one per pass; the fifth shares their package and the sixth a symbol with it, so that shortlists of two truncate
and the agent can cluster across paths, and an alert of the path that is alone in its pass is asked about. In `budget_resume` the caps (run 4, repository 3, alert 2
tokens; 5, 4 and 1 dollars) are reached by one or two calls, so that bursts overshoot
them, at the repository exactly by the bound less one; every call costs one token there, and the
theorem covers the others. `MaxBatch` bounds the tool calls of one answer and is above
the tool cap.

In `triage_decision` two attempts replace five: one that is lost and one that answers, or both lost,
are all the cases a counter distinguishes. Two invocations are an emission and a repeated one.
Versions, sections and trees are listed in `MCTriage`, each there because some
rule answers differently for it; each of the four gaps of `OutOfSight` has a tree, and so has each
suffix and form one search reads and the other does not. In `golden_set` two cases are the least for a repeated id, for
two analyses of one advisory and for a rate that rises when a case is removed; its lockfiles hold
chains of nine and of ten requirements, the last that `MaxDepth` = 8 (the code's) covers and the first it does
not, so that both sides of `Complete` occur; `deep_dependency` takes the longer one. In `public_scan` two scanners
are the least that race; the second commit, which pins nothing, and a branch that stands for either
separate the scanned, the snapshotted and the measured tree; with a TTL of 0 an answer expires within the one
day.
The theorems cover any number of scanners, commits, dependencies and days.

### Fairness

`WF_vars(Step)`: a pass that is not killed takes its next step. The program is one thread
that blocks only in calls with a timeout or in bounded backoff. Nothing is
assumed of `Begin` (nobody must start a pass), of `Stop`, or of the choice between
answers: `EveryQuestionEnds` holds for a provider that fails every time.
The kills of `budget_resume` and `pipeline_resume` are no help either, since the models have no fairness on
them: the behaviours in which nobody kills a pass are among those checked. `Dedup` states no liveness; its
loops are steps of `Pipeline`'s.

`Triage` has the same `WF_vars(Step)`, without which a retried PATCH might be waited for without end;
`EverySettles` needs only that each attempt comes to an end, which the HTTP timeout gives.
`PublicScan` has `WF_vars(Scan(p))` for each scanner: processes are scheduled by the operating
system independently of each other, git is run with a timeout and requests have a timeout and
bounded attempts. `Start`, `Push`, `Tick` and `Kill` have none. `GoldenSet` is a batch
program of ten steps at most; it states no liveness.

## 4. What is proved

All theorems hold for every value of the constants that satisfies the named
assumptions (`PipelineAssumption`, `DedupAssumption`, `LoopAssumption`, `ScanAssumption`, `TriageAssumption`,
`AnswersAssumption`, `RawAlertsAssumption`, `TreesAssumption`, `GoldenAssumption`, `CandidatesAssumption`), which TLC
also evaluates. They say that sets are of the right kind and that markers (`NoRun`, `NoAlert`, ...) are
not members; caps and bounds are natural numbers, attempts at least one; an agent's answer has the
author and the range of confidence its schema admits, and names no rule (only policy's verdicts do); a
golden set is finite and a policy names rules that exist; the alerts of `Dedup` are finitely many with distinct keys, a score and
the upgrade path their facts give. A raw alert has its advisory's ranges parsed, its
sections in the words of its ecosystem, and nothing yet of scope or directness, since
ingest reads both from the manifest and never from the payload. A candidate of the harvest comes with a tree: the
harvester analyses the directory it is given, and stops where there is none. A lockfile names
finitely many packages and no set of them is the value None (`TreesAssumption` of `Triage`,
`CandidatesAssumption` of `GoldenSet`); for a module that loads, the toolchain lists at least what it
links. `MaxDepth` is a natural number, and a golden set has at most 5000 cases: the gate's rates are rounded to four digits, which
tell apart two rates over that many. One theorem, `CompleteIsDecisive`, has a hypothesis of its own,
`DepthSuffices` of `GoldenSetProofs`: the depth does not end the labeller's search, either because its last round found
nothing new or because the lockfile has at most `MaxDepth` packages of its own.

| Theorem | States |
|---|---|
| `TypeCorrect` | `Spec => []TypeOK` of Pipeline |
| `StagesInOrder` | `Spec => []StageChain` |
| `AgreementReviewed` | `Spec => []AgreementIsReviewed` |
| `DismissalsReviewed` | `Spec => DismissalReviewed` |
| `PipelineImplements` | `Spec => Implements`: the tables implement `AlertLifecycle` |
| `NoAlertIsLost` | `Spec => []FunnelIsTotal` |
| `ShallowIsRequeued` | `~MayStop => (Spec => []ShallowIsFlagged)` |
| `InheritedUnconfirmed` | `OneRun => (Spec => []InheritedNeverConfirmed)` |
| `SuppressedAlike` | `OneRun => (Spec => []SuppressedInherits)` |
| `ProofsBlock` | `OneRun => (Spec => ProofBlocksDismissal)` |
| `DismissedOnce` | `~MayStop /\ ~MayResume => (Spec => []AtMostOneDismissal)` |
| `DedupTypeCorrect` | `Spec => []TypeOK` of Dedup |
| `StageIsGrouping` | `Spec => RecordsAGrouping`: what `Dedup` records is the step of `Pipeline` |
| `InheritedFromReasoner` | `Spec => []NamesItsReasoner` |
| `InheritedFromKin` | `Spec => []InheritsFromKin` |
| `LoopTypeCorrect` | `Spec => []TypeOK` of AgentLoop |
| `CapsAreHeld` | `Spec => []CapsHold` |
| `LossesAreBounded` | `Spec => []OneCallLostPerPass` |
| `DeferralsLast` | `Spec => DeferredUntilNextRun` |
| `ScanTypeCorrect` | `Spec => []TypeOK` of PublicScan |
| `TreesAreWhole` | `Spec => []TreeIsWhole` |
| `TreesStay` | `Spec => EveryTreeStays` |
| `CoverageHonest` | `Spec => []CoverageIsHonest` |
| `DismissalsProved` | `Spec => []DismissedIsProved` of Triage |
| `KevCriticalsEscalated` | `Spec => []KevCriticalIsEscalated` |
| `PatchedIsAbove` | no version is at or above the patched version `osv_scan` chooses for it |
| `TriageTypes` | `Spec => []TypeOK` of Triage |
| `OsvNeverFixed` | `Spec => []OsvAlertNeverFixed` |
| `ClearedAreAbsent` | `Spec => []ClearedShipsOnlyOutOfSight` |
| `ClosureIsRequired` | the search for what ships ends with exactly what every build of the imports requires |
| `GoldenTypes` | `Spec => []TypeOK` of GoldenSet |
| `AcceptedTradesNoMiss` | `Spec => []AcceptedPaysInAbstentions` of GoldenSet |
| `EvidenceIsMeasured` | `Spec => []DismissalIsMeasured` |
| `RulesAgreeWithLabels` | `Spec => []RuleMissesAreUnindexed` |
| `GoldenIsPipeline` | `Spec => []GoldenClearsLikePipeline` |
| `DependentsShip` | who has a dependent in the labeller's search ships, at any depth |
| `BothSearchesAgree` | `Spec => []SearchesAgree` |
| `CompleteIsDecisive` | `DepthSuffices => (Spec => []NoDependentIsDecisive)` |

**Order of the stages.** `StageChain` is not inductive: a stage writes a row for an
alert of a list it made earlier. `ChainInv` adds that every alert on the list is
admitted by the stage before (`TodoAdmitted`, `BatchAdmitted`), that dedup leaves no pending alert out
(`DedupTotal`), and that finished evidence has a bundle (`EvidenceBacked`). `RowStep`
treats once the stages that write one row.

**Approvals.** `AgreementIsReviewed` is inductive with `TypeOK`: a copy within an
alert keeps what the validator was shown, an inheritance resets the answer.
`DismissalsReviewed` follows, since only `Dismiss` raises `calls`.

**The lifecycle.** A step of `Pipeline` must be a move of `AlertLifecycle` for one alert, or leave every
phase where it is. `LifecycleInv` is `ChainInv` with what each stage can write in its row
(`RowStatuses`) and that validation's list holds only alerts without a check (`Unchecked`). `RowMoves` treats
the stages that write one row, `DedupMoves` the transaction that decides for a whole
fleet, and `EveryMove` puts them together; `PhaseOfRows` reads the phase off the rows.

**The funnel.** `FunnelIsTotal` speaks of the reports; the loss would happen long before, when a
stage ends and somebody it should have taken has no row. `NothingLeftBehind` says so of each
stage the pass has left: whoever the stage before let through has a row, or is still on the list.
It holds because a list is what the resume predicate selects when the stage begins
(`PendingTakes`), and because no later stage lets anybody through an earlier one. `IngestedIsKnown` and
`DecidedHasVerdict` add that a row is about an alert of the run and that a terminated one has a verdict.

**Shallow repositories.** `SettledIsDeep`: the alerts of a run, without those this pass has measured
and not examined yet, are not shallow together. Being shallow is a property of the set (`DeepTogether`), so a bundle that
arrives later can only help. The theorem supposes that no pass is killed: between
the last measurement and the requeue a kill leaves a shallow repository nobody examines again, as
the run `shallow_missed` shows.

**One run.** Three properties are about what a suppressed alert inherits. `RunInv`: a verdict of the run
is by a rule on an alert policy ended, by the agent on a judged one or inherited on a suppressed
one (`VerdictsOfTheRun`); suppressed alerts and members of a cluster are the same (`Membership`), the rows the
loop has still to visit are among them (`RowsAreMembers`), and who is past the loop carries a canonical's
document (`Inherited`). `OneRun` says that there is one run id. It is needed, because cluster rows have
none: the run `inherited_confirmed` has a second run's verdict overwritten by a row of the first.

**One dismissal.** `Marked`: an alert GitHub was asked to dismiss either is marked, or is the one whose mark
is about to be written. `EmitFresh`: a run invoked once finds no emit row of its own, so it overwrites no mark.
The two hypotheses name the two ways this fails: a kill between `Dismiss` and `RecordDismissal`, and a
resumed run that overwrites the mark (run `redismissal`).

**What dedup records.** `MemoryInv`: each cluster a pass holds is one the index made or one the agent made of
alerts it was shown together and the index left alone (`Sound`); two clusters share nobody; the index's are all
there. `CanonicalIsMember` needs that of any alerts one comes first, which is the well-foundedness of
the natural numbers used three times (direct, score, key). `Made` is the grouping read off the clusters:
`MadeIsGrouping` shows it is one `Pipeline` may choose, `RecordIsMade` that the rows are those it gives.

**What is inherited.** `LineageInv` relates the tables over all passes: a cluster row agrees with the stage
row of its alert (`RowsAgree`), rows under one id are of kin whichever pass wrote them (`RowsOfKin`), the rows
still to copy are member rows (`RowsToCopy`), and who has a verdict of its own was kept (`OwnVerdict`).
So a canonical's verdict is its own, and a copy is one hop. It rests on `RecordedRow`: a
pass writes rows only for alerts that had none.

**Caps.** `CapsInv` adds `Afforded` (when the ledger let the task begin, the scopes were below
their caps; since then they grew by at most `paid` x `MaxCost`) and `Bounded` (`paid` is at
most what the turns taken and the attempts made allow, at most `Burst`). `UnbreachedIsBelow`
is what the ledger's yes means.

**Deferral.** A breach is stable because sums only grow (`BreachStays`), and a deferred
alert is not the one being asked about; `DeferralInv` says both. It relies on the run's
configuration being the same in each pass, which `resume` enforces by the hash of the
configuration and `run --run-id` does not.

**Trees.** `TreeIsWhole` needs to know what a staging directory holds when it is renamed.
`Base` says so: types, the directories a scan has at each place (`Located`), a staging directory that is
complete exactly between the checkout and the rename and was fetched from what is wanted (`Staged`), pending questions that come from the scanned
tree (`Narrowed`). `TreesAreKept` is the step of `TreesStay`: `Replace` alone writes a directory and only where
nothing is. From it follows `Readable`, that a tree a scan has read stays readable until its report,
also where the directory is a branch's and the branch has moved on.

**Coverage.** `CoverageIsHonest` speaks of a finished scan. `CoverageOf` carries it there: without an
error entry every affected dependency is pending, found, or accounted for, from the first query to the report. What
the manifests say must not change in between, which is `Readable` (`ManifestsAreDeps`).
`Denials` says that every 404 in the shared cache is one OSV gave, whichever scan asked.

**Dismissals.** `DismissedIsProved` speaks of the end of a pass and its reasons lie several stages
back. `TriageInv` carries them: a verdict is a rule's on the facts it asked for or an agent's on an
alert whose ecosystem has an adapter (`Provenance`), agreement means the document had passed the mechanical checks
(`Reviewed`), the level judged on is one of the five (`Levelled`), nothing is sent behind a closed
gate (`Gated`). `ClampKeepsLevels` and the ceilings leave Go and Cargo alone for a confident clearance.

**Escalation.** `KevDecidesFirst`: where the escalation rule decides and the fix is not installed,
the least deciding position of `config/policy.yaml` is the second. With `Provenance` and `Gated` this is
`KevCriticalIsEscalated`, whatever the four rules after it make of the facts.

**Versions and rules.** `LexTotal`, `LexTransitive` and `LexIrreflexive` make the order of keys a strict order in
which only equal keys are not comparable, so that `Less` is a weak order on versions
(`LessIsWeakOrder`); `LowestExists` gives every non-empty list of versions a least one, by induction over the set
of lengths for which it holds (`InductionOverNat`). With them `PatchedIsAbove`: a branch that is
chosen contains the installed version, so its fix is above it. `SomeRuleDecided` says of the engine that an outcome other
than escalation to the next stage is that of some rule of the policy which decided on these facts.

**Clearances.** `ClearInv` ties the verdict to its facts: what ingest made of the raw alert (`Ingested`), that the
later fields are answers to it (`Asked`), and that attempts and confidences stay in range (`Counted`).
`RuleDecided` takes from a cleared alert the rule that cleared it and the facts it decided on. `OsvNeverFixed`
is then `PatchedIsAbove`. `ClearedAreAbsent` supposes a package that is in the true artifact and in none of the
gaps. Go: the module loaded, so what the linker takes is listed (`TreesAssumption`), and the rule saw the list. npm:
every file is within reach of the closure's search, so its seeds are all that the lockfile knows of the imports,
the closure is everything they require (`ClosureIsRequired`), and a package outside it is one the lockfile does
not know, in files the index reads.

**What ships.** The search grows a set for as many rounds as the lockfile has packages.
`IterationExists` gives the recursive function its value in each round, by induction over the set of rounds
for which it has one. `GrowthStops`: a growing set within n packages repeats itself by round n, since each round
before adds one. So the last round is closed under dependencies
(`ClosureIsClosed`), and everything in it was forced in (`ClosureIsLeast`); the two are `ClosureIsRequired`.

**The golden set.** `SetInv`: every case of the golden set was harvested, its label is the one the protocol gives
(`Protocol`) or a correction somebody filed (`Filed`), and every row of a report is the prediction on such a
case (`ReportRow`). A row that dismisses is then some rule's doing (`RowByRule`), and a
reachable label some evidence's: `RulesAgreeWithLabels` shows of the other rules that both cannot be, and of
`not_imported` that the labeller read the import where the index does not. `GoldenIsPipeline`
compares two closures whose seeds differ: the harvest has bare words more and http-like names less. `ClosureOfUnion` takes
a closure apart along its seeds, so what the pipeline ships and the harvest does not ships under an
http-like import.

**Two searches.** The labeller walks up from the package, at most `MaxDepth` rounds; the rule walks down from the
imports until nothing is new. `DependentsShip` holds at any depth: a seed the walk up has met pulls
the package into every set closed under dependencies, hence into the closure. The converse needs the walk
up to be `Complete`: then what it has not met is closed under dependencies and holds the seeds, so
the closure lies within it (`CompleteFindsAll`). `BothSearchesAgree` has both halves for any lockfile and
depth. `SmallIsComplete` is `GrowthStops` again; with it and `DepthSuffices` the label is decisive
(`CompleteIsDecisive`), and without it it is not, which `deep_dependency` shows.

**The gate.** `AcceptedPaysInAbstentions` counts cases; the gate compares rounded rates of misses.
`GateInv` keeps the reports finite and unchanged after the comparison. `RoundedTellsApart`: over one
denominator of at most 5000, more misses are a larger rate also in four digits. The reachable cases split
into missed, abstained and escalated (`ReachableSplits`), so with no more misses the escalated can
fall only by as much as the abstained rise.

Only model-checked: the liveness properties `EveryPassEnds`, `EveryQuestionEnds`, `EverySettles` and
`EveryScanEnds`. Liveness and `ENABLED` are beyond the prover. Every invariant and every action property
of a passing run is a theorem.

## 5. What is left out

* The calls of dedup to its agent in `AgentLoop` (the shape of recon's: repository scope,
  no tools) and a validator that is not configured (no question is asked).
* Formatting: VEX, SARIF, comments, prompts, logs; provider wire formats.
* How tools are run and their output parsed: an adapter is handed the outcome. Only Go and Python
  measure reachability in the code (`ecosystems/base.py:223`); for the others it raises and the bundle is a failure.
* The syntax of import statements in each language, the call graph of `pycallgraph`, `parse_dependencies`:
  a file is the names it gives, a manifest the dependencies it pins.
* The CVSS formula and EPSS: a score is a number with one threshold, EPSS is read by no rule.
* GitHub's pagination, GraphQL, authentication and redaction: one answer or one failure of ingest.
  The local source is a scan of a tree that does not move.
* The TTL of an architecture: recon asks again when it is past, nothing else looks at it.
* The evaluation's seed set, the tune/holdout split and precision figures, and `metrics.compare`, a stricter
  gate that only tests call; the reports, which format what is already decided. `run_eval`'s
  exit code does not follow `accepted`: the gate is what it prints.
* Verdict rows in `PublicScan`: who stamps them (`propagate_verdicts`, the validator's re-put, policy without a
  tree) is `Pipeline`'s, where `stale_stamp` shows what goes wrong.
* `run` and `resume` by two processes on one database: no document promises it. Scans are
  modelled so because they share a cache by design.
* Dedup over several run ids in `Dedup`, which is about one; `Pipeline` has the rows of other runs.

## 6. Running it

    tlc -workers 2 -config pipeline_resume.cfg MCPipeline
    tlc -workers 2 -config pipeline_runs.cfg MCPipeline
    tlc -workers 2 -config dedup_resume.cfg MCDedup
    tlc -workers 2 -config budget_resume.cfg MCAgentLoop
    tlc -workers 2 -config triage_decision.cfg MCTriage
    tlc -workers 2 -config golden_set.cfg MCGoldenSet
    tlc -workers 2 -config public_scan.cfg MCPublicScan
    for run in redismissal inherited_confirmed shallow_missed stale_stamp; do
        tlc -workers 2 -config $run.cfg MCPipeline; done     # each ends in a violation
    tlc -workers 2 -config deep_dependency.cfg MCGoldenSet   # likewise
    tlapm PipelineProofs.tla
    tlapm PipelineFunnelProofs.tla
    tlapm DedupProofs.tla
    tlapm AgentLoopProofs.tla
    tlapm PublicScanProofs.tla
    tlapm RuleProofs.tla
    tlapm TriageProofs.tla
    tlapm GoldenSetProofs.tla
