------------------------------ MODULE Pipeline ------------------------------
(***************************************************************************)
(* The triage pipeline of harness/cli.py (_execute) and harness/scan.py    *)
(* (_run_pipeline): the stage sequence over the SQLite tables it leaves    *)
(* its progress in.  One process at a time works on one repository; it may *)
(* be killed or may abort between any two commits, and a later invocation  *)
(* resumes the same run id or starts another one on the same database.     *)
(*                                                                         *)
(* Abstractions.  A verdict document is its origin (decided_by and the     *)
(* alert it was reasoned about) and one bit: whether the document by       *)
(* itself meets auto_dismiss_requires (verdict, confidence, justification, *)
(* no needs_human).  latest_verdict orders rows by created_at and every    *)
(* put_verdict refreshes it, so the latest row is the last one written and *)
(* is the only one kept.  Reports, costs and written files are left out.   *)
(***************************************************************************)
EXTENDS Naturals, FiniteSets, Grouping   \* Alerts, UpgradePath: of one repository

CONSTANTS
  Runs,              \* run identifiers an operator uses
  Trees,             \* structure hashes the default branch can have
  Bundles,           \* kinds of evidence bundle, a subset of BundleKinds
  Modes,             \* ways to invoke the pipeline, a subset of AllModes
  Supported,         \* alerts whose ecosystem has an adapter
  RequireAgreement,  \* auto_dismiss_requires.validator_agreed
  MayResume,         \* may an operator invoke the same run id again?
  MayStop,           \* may a pass be killed or abort half way?
  MaxPasses,         \* bound: invocations of the program
  NoRun, NoVerdict, NoTree

\* What an evidence bundle says of an alert, as far as is_shallow tells:
\* the toolchain failed; it ran with no symbols to look for; it ran, had
\* symbols and found nothing; it found a call site or a referenced symbol;
\* it proved a call path from an entry point (level >= CONTRADICTION_LEVEL).
BundleKinds == {"broken", "blind", "silent", "found", "proven"}

\* `harness run` and `resume`, scan-* with agents, scan-* without.
AllModes == {"fleet", "scan", "free"}

\* A verdict document with its row: who decided it, about which alert it was
\* reasoned, whether it meets the gate's bar by itself, what the validator said
\* ("null": nobody checked), and the structure hash it is stamped with.
Verdicts == [run : Runs, by : {"policy", "judgment", "inheritance"},
             about : Alerts, closable : BOOLEAN,
             validated : {"null", "agreed", "disputed"},
             tree : Trees \cup {NoTree}]

ASSUME PipelineAssumption ==
  /\ Bundles \subseteq BundleKinds
  /\ Supported \subseteq Alerts
  /\ Modes \subseteq AllModes
  /\ RequireAgreement \in BOOLEAN
  /\ MayResume \in BOOLEAN
  /\ MayStop \in BOOLEAN
  /\ MaxPasses \in Nat
  /\ NoRun \notin Runs
  /\ NoTree \notin Trees
  /\ NoVerdict \notin Verdicts

Stages == {"ingest", "policy", "dedup", "evidence", "judgment", "validate", "emit"}

Statuses == {"none", "done", "failed", "skipped", "budget_deferred"}

TERMINAL_STATUSES == {"done", "skipped"}

\* The program counter: the stage of the pass under way.
Places == {"idle", "start", "requeue", "propagate"} \cup Stages

VARIABLES
  \* the database
  runStatus,   \* runs.status
  known,       \* keys in the alerts table
  st,          \* st[r][a][s]: stage_results.status, "none" where there is no row
  bundle,      \* bundle[r][a]: payload of the evidence row, and the tree it measured
  mark,        \* mark[r][a]: payload.dismissed of the emit row
  verdict,     \* the latest verdict of each alert
  cluster,     \* cluster[c][a]: is_canonical of the dedup_clusters rows
  snap,        \* structure hash of the latest repo_snapshots row
  \* the process
  pc, run, mode,
  todo,        \* alerts the stage under way has still to handle
  batch,       \* evidence: every alert of this pass
  rows,        \* propagate: cluster rows still to copy
  closing,     \* emit: the alert whose dismissal is not yet recorded
  passes,      \* invocations so far
  \* GitHub, and history
  calls,       \* calls of dismiss_alert that GitHub accepted, per alert
  agreed       \* history: what the validator agreed with

db == <<runStatus, known, st, bundle, mark, verdict, cluster, snap>>
process == <<pc, run, mode, todo, batch, rows, closing, passes>>
vars == <<db, process, calls, agreed>>

AgentsOn == mode # "free"

-----------------------------------------------------------------------------
(* The tables.                                                              *)

\* is_stage_complete: the resume predicate.
Complete(r, a, s) == st[r][a][s] \in TERMINAL_STATUSES

\* One stage row of the run under way.
RecordStage(a, s, status) == st' = [st EXCEPT ![run][a][s] = status]

\* What the validator is shown of a verdict, and about which alert.
Review(a, v) == [alert |-> a, by |-> v.by, about |-> v.about, closable |-> v.closable]

Reviews == [alert : Alerts, by : {"policy", "judgment", "inheritance"},
            about : Alerts, closable : BOOLEAN]

\* The document of v, copied into this run's row.
Copy(v, by, answer) ==
  [run |-> run, by |-> by, about |-> v.about, closable |-> v.closable,
   validated |-> answer, tree |-> v.tree]

Put(a, v) == verdict' = [verdict EXCEPT ![a] = v]

Init ==
  /\ runStatus = [r \in Runs |-> "none"]
  /\ known = {}
  /\ st = [r \in Runs |-> [a \in Alerts |-> [s \in Stages |-> "none"]]]
  /\ bundle = [r \in Runs |-> [a \in Alerts |-> [kind |-> "none", tree |-> NoTree]]]
  /\ mark = [r \in Runs |-> [a \in Alerts |-> "none"]]
  /\ verdict = [a \in Alerts |-> NoVerdict]
  /\ cluster = [c \in ClusterIds |-> [a \in Alerts |-> "none"]]
  /\ snap = NoTree
  /\ pc = "idle" /\ run = NoRun /\ mode = "fleet"
  /\ todo = {} /\ batch = {} /\ rows = {} /\ closing = {}
  /\ passes = 0
  /\ calls = [a \in Alerts |-> 0]
  /\ agreed = {}

-----------------------------------------------------------------------------
(* Invocations.                                                             *)

\* start_run.  On a run id that exists it only sets the status back.
Begin(r, m) ==
  /\ pc = "idle" /\ passes < MaxPasses
  /\ MayResume \/ runStatus[r] = "none"
  /\ runStatus' = [runStatus EXCEPT ![r] = "running"]
  /\ pc' = "start" /\ run' = r /\ mode' = m /\ passes' = passes + 1
  /\ UNCHANGED <<known, st, bundle, mark, verdict, cluster, snap,
                 todo, batch, rows, closing, calls, agreed>>

\* An exception reaches _execute, which records "aborted"; a kill records nothing.
Stop ==
  /\ MayStop /\ pc # "idle"
  /\ \E status \in {"aborted", "running"} : runStatus' = [runStatus EXCEPT ![run] = status]
  /\ pc' = "idle" /\ run' = NoRun /\ mode' = "fleet"
  /\ todo' = {} /\ batch' = {} /\ rows' = {} /\ closing' = {}
  /\ UNCHANGED <<known, st, bundle, mark, verdict, cluster, snap, passes, calls, agreed>>

\* IngestStage.run_repo: note the head of the default branch, then list the alerts.
TakeSnapshot ==
  /\ pc = "start"
  /\ \E t \in Trees : snap' = t
  /\ \E open \in SUBSET Alerts : todo' = open
  /\ pc' = "ingest"
  /\ UNCHANGED <<runStatus, known, st, bundle, mark, verdict, cluster,
                 run, mode, batch, rows, closing, passes, calls, agreed>>

\* Variants of Pending: a resumed pass takes up suppressed alerts as well;
\* it redoes completed stages.
PendingSuppressedToo(s) ==
  {a \in known : /\ s \in Stages /\ ~Complete(run, a, s)
                 /\ CASE s = "policy"   -> Complete(run, a, "ingest")
                      [] s = "dedup"    -> st[run][a]["policy"] = "done"
                      [] s = "evidence" -> st[run][a]["policy"] = "done"
                      [] s = "judgment" -> st[run][a]["evidence"] = "done"
                      [] s = "validate" -> st[run][a]["judgment"] = "done"
                      [] OTHER -> FALSE}

PendingRedoesStages(s) ==
  {a \in known : CASE s = "policy"   -> Complete(run, a, "ingest")
                   [] s = "dedup"    -> st[run][a]["policy"] = "done"
                   [] s = "evidence" -> /\ st[run][a]["dedup"] # "skipped"
                                        /\ st[run][a]["policy"] = "done"
                   [] s = "judgment" -> st[run][a]["evidence"] = "done"
                   [] s = "validate" -> st[run][a]["judgment"] = "done"
                   [] OTHER -> FALSE}

\* The alerts a stage takes up when it begins.
Pending(s) ==
  {a \in known : /\ s \in Stages /\ ~Complete(run, a, s)
                 /\ CASE s = "policy"   -> Complete(run, a, "ingest")
                      [] s = "dedup"    -> st[run][a]["policy"] = "done"
                      [] s = "evidence" -> /\ st[run][a]["dedup"] # "skipped"
                                           /\ st[run][a]["policy"] = "done"
                      [] s = "judgment" -> st[run][a]["evidence"] = "done"
                      [] s = "validate" -> st[run][a]["judgment"] = "done"
                      [] OTHER -> FALSE}

\* Variant: verdicts are propagated before there are any.
FollowingPropagateFirst ==
  CASE pc = "ingest"    -> "policy"
    [] pc = "policy"    -> "dedup"
    [] pc = "dedup"     -> "evidence"
    [] pc \in {"evidence", "requeue"} -> IF AgentsOn THEN "propagate" ELSE "emit"
    [] pc = "propagate" -> "judgment"
    [] pc = "judgment"  -> "validate"
    [] pc = "validate"  -> "emit"

\* The stage sequence.  Without agents there is no judgment and nothing after it.
Following ==
  CASE pc = "ingest"    -> "policy"
    [] pc = "policy"    -> "dedup"
    [] pc = "dedup"     -> "evidence"
    [] pc \in {"evidence", "requeue"} -> IF AgentsOn THEN "judgment" ELSE "emit"
    [] pc = "judgment"  -> "propagate"
    [] pc = "propagate" -> "validate"
    [] pc = "validate"  -> "emit"

NextStage ==
  /\ pc \notin {"idle", "start", "emit"}
  /\ todo = {} /\ batch = {} /\ rows = {}
  /\ pc' = Following
  /\ todo' = IF Following = "emit" THEN {a \in known : verdict[a] # NoVerdict}
                                   ELSE Pending(Following)
  /\ batch' = IF Following = "evidence" THEN Pending("evidence") ELSE {}
  /\ rows' = IF Following = "propagate"
             THEN {ca \in ClusterIds \X Alerts : cluster[ca[1]][ca[2]] = "member"} ELSE {}
  /\ UNCHANGED <<db, run, mode, closing, passes, calls, agreed>>

\* finish_run.
Finish ==
  /\ pc = "emit" /\ todo = {} /\ closing = {}
  /\ runStatus' = [runStatus EXCEPT ![run] = "complete"]
  /\ pc' = "idle" /\ run' = NoRun /\ mode' = "fleet"
  /\ UNCHANGED <<known, st, bundle, mark, verdict, cluster, snap,
                 todo, batch, rows, closing, passes, calls, agreed>>

-----------------------------------------------------------------------------
(* Ingest and policy.                                                       *)

\* An alert the run has already ingested is only counted again.
SkipIngested(a) ==
  /\ pc = "ingest" /\ a \in todo /\ Complete(run, a, "ingest")
  /\ todo' = todo \ {a}
  /\ UNCHANGED <<db, pc, run, mode, batch, rows, closing, passes, calls, agreed>>

\* Variant: a status the resume predicate does not know.
IngestErrors(a) ==
  /\ pc = "ingest" /\ a \in todo /\ ~Complete(run, a, "ingest")
  /\ RecordStage(a, "ingest", "error")
  /\ todo' = todo \ {a}
  /\ UNCHANGED <<runStatus, known, bundle, mark, verdict, cluster, snap,
                 pc, run, mode, batch, rows, closing, passes, calls, agreed>>

\* An exception for one alert (advisory, EPSS, schema) is recorded against it.
IngestFails(a) ==
  /\ pc = "ingest" /\ a \in todo /\ ~Complete(run, a, "ingest")
  /\ RecordStage(a, "ingest", "failed")
  /\ todo' = todo \ {a}
  /\ UNCHANGED <<runStatus, known, bundle, mark, verdict, cluster, snap,
                 pc, run, mode, batch, rows, closing, passes, calls, agreed>>

\* _cache_replay_candidate, its age test apart: the latest verdict of any run,
\* stamped with the structure hash of the head.
Replayable(a) == verdict[a] # NoVerdict /\ verdict[a].tree = snap

\* The verdict is copied under this run, the validator's answer with it.
Replay(a) ==
  /\ pc = "ingest" /\ a \in todo /\ ~Complete(run, a, "ingest") /\ Replayable(a)
  /\ known' = known \cup {a}
  /\ Put(a, Copy(verdict[a], verdict[a].by, verdict[a].validated))
  /\ RecordStage(a, "ingest", "skipped")
  /\ todo' = todo \ {a}
  /\ UNCHANGED <<runStatus, bundle, mark, cluster, snap,
                 pc, run, mode, batch, rows, closing, passes, calls, agreed>>

\* A replayable verdict may be older than verdict_ttl_days, so both can happen.
Ingest(a) ==
  /\ pc = "ingest" /\ a \in todo /\ ~Complete(run, a, "ingest")
  /\ known' = known \cup {a}
  /\ RecordStage(a, "ingest", "done")
  /\ todo' = todo \ {a}
  /\ UNCHANGED <<runStatus, bundle, mark, verdict, cluster, snap,
                 pc, run, mode, batch, rows, closing, passes, calls, agreed>>

\* No rule matched: on to dedup.
NoRuleMatches(a) ==
  /\ pc = "policy" /\ a \in todo
  /\ RecordStage(a, "policy", "done")
  /\ todo' = todo \ {a}
  /\ UNCHANGED <<runStatus, known, bundle, mark, verdict, cluster, snap,
                 pc, run, mode, batch, rows, closing, passes, calls, agreed>>

\* Variant: a terminating outcome of kind "dedup", which carries no verdict.
RuleBuries(a) ==
  /\ pc = "policy" /\ a \in todo
  /\ RecordStage(a, "policy", "skipped")
  /\ todo' = todo \ {a}
  /\ UNCHANGED <<runStatus, known, bundle, mark, verdict, cluster, snap,
                 pc, run, mode, batch, rows, closing, passes, calls, agreed>>

\* A rule terminates the alert; the stage row and the verdict are one transaction.
RuleMatches(a) ==
  /\ pc = "policy" /\ a \in todo
  /\ RecordStage(a, "policy", "skipped")
  /\ \E ok \in BOOLEAN :
       Put(a, [run |-> run, by |-> "policy", about |-> a, closable |-> ok,
               validated |-> "null", tree |-> snap])
  /\ todo' = todo \ {a}
  /\ UNCHANGED <<runStatus, known, bundle, mark, cluster, snap,
                 pc, run, mode, batch, rows, closing, passes, calls, agreed>>

-----------------------------------------------------------------------------
(* Dedup.                                                                   *)

\* DedupStage._record: every decision of the stage in one transaction.  Rows of
\* earlier passes and runs stay.
Dedup ==
  /\ pc = "dedup" /\ todo # {}
  /\ \E canon \in Groupings(todo, AgentsOn) :
       /\ cluster' = ClusterRows(cluster, todo, canon)
       /\ st' = [st EXCEPT ![run] = [a \in Alerts |->
                   IF a \in todo
                   THEN [st[run][a] EXCEPT !["dedup"] = DedupStatus(canon, a)]
                   ELSE st[run][a]]]
  /\ todo' = {}
  /\ UNCHANGED <<runStatus, known, bundle, mark, verdict, snap,
                 pc, run, mode, batch, rows, closing, passes, calls, agreed>>

-----------------------------------------------------------------------------
(* Evidence.                                                                *)

NoAdapter(a) ==
  /\ pc = "evidence" /\ a \in todo \ Supported
  /\ RecordStage(a, "evidence", "failed")
  /\ todo' = todo \ {a}
  /\ UNCHANGED <<runStatus, known, bundle, mark, verdict, cluster, snap,
                 pc, run, mode, batch, rows, closing, passes, calls, agreed>>

\* A failing toolchain is a bundle too.
Measure(a) ==
  /\ pc = "evidence" /\ a \in todo \cap Supported
  /\ RecordStage(a, "evidence", "done")
  /\ \E k \in Bundles : bundle' = [bundle EXCEPT ![run][a] = [kind |-> k, tree |-> snap]]
  /\ todo' = todo \ {a}
  /\ UNCHANGED <<runStatus, known, mark, verdict, cluster, snap,
                 pc, run, mode, batch, rows, closing, passes, calls, agreed>>

\* is_shallow of the bundle kinds of a set of alerts.
Shallow(kinds) ==
  /\ kinds # {}
  /\ \/ kinds = {"broken"}
     \/ "silent" \in kinds /\ kinds \cap {"found", "proven"} = {}

Kinds(r, alerts) == {bundle[r][a].kind : a \in {b \in alerts : st[r][b]["evidence"] = "done"}}

\* Variant: only a toolchain that failed everywhere is suspicious.
CheckBroken ==
  /\ pc = "evidence" /\ todo = {} /\ batch # {}
  /\ batch' = {}
  /\ IF Kinds(run, batch) = {"broken"} THEN pc' = "requeue" /\ todo' = batch
                                       ELSE UNCHANGED <<pc, todo>>
  /\ UNCHANGED <<db, run, mode, rows, closing, passes, calls, agreed>>

\* The stage looks at the bundles of this pass only.
CheckShallow ==
  /\ pc = "evidence" /\ todo = {} /\ batch # {}
  /\ batch' = {}
  /\ IF Shallow(Kinds(run, batch)) THEN pc' = "requeue" /\ todo' = batch
                                   ELSE UNCHANGED <<pc, todo>>
  /\ UNCHANGED <<db, run, mode, rows, closing, passes, calls, agreed>>

\* _requeue: one row at a time, the payload left in place.
Requeue(a) ==
  /\ pc = "requeue" /\ a \in todo
  /\ RecordStage(a, "evidence", "failed")
  /\ todo' = todo \ {a}
  /\ UNCHANGED <<runStatus, known, bundle, mark, verdict, cluster, snap,
                 pc, run, mode, batch, rows, closing, passes, calls, agreed>>

-----------------------------------------------------------------------------
(* Judgment, inheritance and validation.  Pending("judgment") demands        *)
(* evidence "done", which is never recorded without a bundle.                *)

\* The ledger refuses the call.
Defer(a) ==
  /\ pc = "judgment" /\ a \in todo
  /\ RecordStage(a, "judgment", "budget_deferred")
  /\ todo' = todo \ {a}
  /\ UNCHANGED <<runStatus, known, bundle, mark, verdict, cluster, snap,
                 pc, run, mode, batch, rows, closing, passes, calls, agreed>>

\* A verdict of the agent, or "could not determine" after a failed call, an
\* unparsable answer ("failed") or an exhausted tool budget ("done").  The
\* stamp is the head's structure hash, whatever tree the bundle measured.
Judge(a) ==
  /\ pc = "judgment" /\ a \in todo
  /\ \E status \in {"done", "failed"}, ok \in BOOLEAN :
       /\ status = "failed" => ~ok
       /\ RecordStage(a, "judgment", status)
       /\ Put(a, [run |-> run, by |-> "judgment", about |-> a, closable |-> ok,
                  validated |-> "null", tree |-> snap])
  /\ todo' = todo \ {a}
  /\ UNCHANGED <<runStatus, known, bundle, mark, cluster, snap,
                 pc, run, mode, batch, rows, closing, passes, calls, agreed>>

Canonicals(c) == {b \in Alerts : cluster[c][b] = "canonical"}

\* Variant: the canonical's approval is copied with its document.
InheritApproval(c, a) ==
  /\ pc = "propagate" /\ <<c, a>> \in rows
  /\ \E b \in Canonicals(c) :
       /\ verdict[b] # NoVerdict
       /\ Put(a, Copy(verdict[b], "inheritance", verdict[b].validated))
  /\ rows' = rows \ {<<c, a>>}
  /\ UNCHANGED <<runStatus, known, st, bundle, mark, cluster, snap,
                 pc, run, mode, todo, batch, closing, passes, calls, agreed>>

\* propagate_verdicts, one row: any run's row, the latest verdict of a canonical.
Inherit(c, a) ==
  /\ pc = "propagate" /\ <<c, a>> \in rows
  /\ \E b \in Canonicals(c) :
       /\ verdict[b] # NoVerdict
       /\ Put(a, Copy(verdict[b], "inheritance", "null"))
  /\ rows' = rows \ {<<c, a>>}
  /\ UNCHANGED <<runStatus, known, st, bundle, mark, cluster, snap,
                 pc, run, mode, todo, batch, closing, passes, calls, agreed>>

\* Variant: the row is looked at again until its canonical has a verdict.
AwaitCanonical(c, a) ==
  /\ pc = "propagate" /\ <<c, a>> \in rows
  /\ Canonicals(c) # {} => \E b \in Canonicals(c) : verdict[b] = NoVerdict
  /\ UNCHANGED vars

\* No canonical, or the one read (the table's order decides) has no verdict.
NothingToInherit(c, a) ==
  /\ pc = "propagate" /\ <<c, a>> \in rows
  /\ Canonicals(c) # {} => \E b \in Canonicals(c) : verdict[b] = NoVerdict
  /\ rows' = rows \ {<<c, a>>}
  /\ UNCHANGED <<db, pc, run, mode, todo, batch, closing, passes, calls, agreed>>

\* ValidationStage._record: the document is passed through under this run.
Settle(a, status, answer) ==
  /\ RecordStage(a, "validate", status)
  /\ Put(a, Copy(verdict[a], verdict[a].by, answer))
  /\ todo' = todo \ {a}
  /\ UNCHANGED <<runStatus, known, bundle, mark, cluster, snap,
                 pc, run, mode, batch, rows, closing, passes, calls>>

\* Pending("validate") demands judgment "done", never recorded without a verdict.
Validating(a) == pc = "validate" /\ a \in todo /\ verdict[a] # NoVerdict

\* Variant: a threshold beyond the reachability scale.
NeverContradicted(a) == FALSE

\* A dismissing verdict against a proven call path.
Contradicted(a) == verdict[a].closable /\ bundle[run][a].kind = "proven"

\* Schema, confidence ceiling, citations or the contradiction check.
RejectMechanically(a) ==
  /\ Validating(a)
  /\ Settle(a, "failed", "disputed")
  /\ UNCHANGED agreed

\* No validator, no budget for it, or no usable answer from it.
ValidatorUnavailable(a) ==
  /\ Validating(a) /\ ~Contradicted(a)
  /\ Settle(a, "done", "null")
  /\ UNCHANGED agreed

ValidatorAnswers(a) ==
  /\ Validating(a) /\ ~Contradicted(a)
  /\ \/ Settle(a, "done", "agreed") /\ agreed' = agreed \cup {Review(a, verdict[a])}
     \/ Settle(a, "done", "disputed") /\ UNCHANGED agreed

-----------------------------------------------------------------------------
(* Emit.                                                                    *)

\* Variant: only the run's own row is looked at.
DismissedThisRun(a) == st[run][a]["emit"] = "done" /\ mark[run][a] = "dismissed"

\* _already_dismissed: an emit row of any run says so.
AlreadyDismissed(a) ==
  \E r \in Runs : st[r][a]["emit"] = "done" /\ mark[r][a] = "dismissed"

\* Variant: "nobody checked" taken for agreement.
GateOpenUnlessDisputed(v) == v.closable /\ (RequireAgreement => v.validated # "disputed")

\* DismissalGate.evaluate with auto_dismiss on and complete advisory coverage.
GateOpen(v) == v.closable /\ (RequireAgreement => v.validated = "agreed")

\* payload.dismissed = False.  The row is the run's own: a resumed pass
\* overwrites what an earlier pass of the run wrote there.
KeepOpen(a) ==
  /\ pc = "emit" /\ closing = {} /\ a \in todo
  /\ \/ AlreadyDismissed(a)
     \/ ~GateOpen(verdict[a])
     \/ mode # "fleet"               \* the scan's advisory coverage is incomplete
  /\ RecordStage(a, "emit", "done")
  /\ mark' = [mark EXCEPT ![run][a] = "kept"]
  /\ todo' = todo \ {a}
  /\ UNCHANGED <<runStatus, known, bundle, verdict, cluster, snap,
                 pc, run, mode, batch, rows, closing, passes, calls, agreed>>

\* No GitHub client (scans), or GitHub refuses.  The payload is left in place.
DismissalFails(a) ==
  /\ pc = "emit" /\ closing = {} /\ a \in todo
  /\ ~AlreadyDismissed(a) /\ GateOpen(verdict[a])
  /\ RecordStage(a, "emit", "failed")
  /\ todo' = todo \ {a}
  /\ UNCHANGED <<runStatus, known, bundle, mark, verdict, cluster, snap,
                 pc, run, mode, batch, rows, closing, passes, calls, agreed>>

\* GitHub dismisses the alert; the row that says so is written after.
Dismiss(a) ==
  /\ pc = "emit" /\ closing = {} /\ a \in todo /\ mode = "fleet"
  /\ ~AlreadyDismissed(a) /\ GateOpen(verdict[a])
  /\ calls' = [calls EXCEPT ![a] = @ + 1]
  /\ closing' = {a}
  /\ UNCHANGED <<db, pc, run, mode, todo, batch, rows, passes, agreed>>

RecordDismissal(a) ==
  /\ pc = "emit" /\ a \in closing
  /\ RecordStage(a, "emit", "done")
  /\ mark' = [mark EXCEPT ![run][a] = "dismissed"]
  /\ closing' = {}
  /\ todo' = todo \ {a}
  /\ UNCHANGED <<runStatus, known, bundle, verdict, cluster, snap,
                 pc, run, mode, batch, rows, passes, calls, agreed>>

-----------------------------------------------------------------------------
\* A step of the pass under way.
Step ==
  \/ TakeSnapshot \/ NextStage \/ Dedup \/ CheckShallow \/ Finish
  \/ \E a \in Alerts :
       \/ SkipIngested(a) \/ IngestFails(a) \/ Replay(a) \/ Ingest(a)
       \/ NoRuleMatches(a) \/ RuleMatches(a)
       \/ NoAdapter(a) \/ Measure(a) \/ Requeue(a)
       \/ Defer(a) \/ Judge(a)
       \/ RejectMechanically(a) \/ ValidatorUnavailable(a) \/ ValidatorAnswers(a)
       \/ KeepOpen(a) \/ DismissalFails(a) \/ Dismiss(a) \/ RecordDismissal(a)
  \/ \E c \in ClusterIds, a \in Alerts : Inherit(c, a) \/ NothingToInherit(c, a)

\* No pass is under way and the operator starts none.
Rest == pc = "idle" /\ UNCHANGED vars

Next ==
  \/ \E r \in Runs, m \in Modes : Begin(r, m)
  \/ Step
  \/ Stop
  \/ Rest

Spec == Init /\ [][Next]_vars

\* A process that is not killed keeps running; nobody has to start one.
FairSpec == Spec /\ WF_vars(Step)

-----------------------------------------------------------------------------
(* The abstract lifecycle: how far the furthest stage row puts an alert.    *)

Phase(r, a) ==
  CASE st[r][a]["validate"] = "done"    -> "checked"
    [] st[r][a]["validate"] = "failed"  -> "rejected"
    [] st[r][a]["validate"] = "none" /\ st[r][a]["judgment"] = "done" -> "judged"
    [] st[r][a]["judgment"] \in {"failed", "budget_deferred"} -> "waiting"
    [] st[r][a]["judgment"] = "none" /\ st[r][a]["evidence"] = "done" -> "measured"
    [] st[r][a]["evidence"] = "failed"  -> "unmeasured"
    [] st[r][a]["dedup"] = "skipped"    -> "suppressed"
    [] st[r][a]["evidence"] = "none" /\ st[r][a]["dedup"] = "done" -> "selected"
    [] st[r][a]["policy"] = "skipped"   -> "cleared"
    [] st[r][a]["dedup"] = "none" /\ st[r][a]["policy"] = "done" -> "queued"
    [] st[r][a]["policy"] = "none" /\ Complete(r, a, "ingest") -> "ingested"
    [] OTHER -> "new"

Lifecycle == INSTANCE AlertLifecycle
               WITH phase <- [r \in Runs |-> [a \in Alerts |-> Phase(r, a)]]

\* Every pass, resumed or not, moves every alert of every run one way through
\* the funnel: the table of stage rows implements the lifecycle.
Implements == Lifecycle!Spec

-----------------------------------------------------------------------------
(* Properties.                                                              *)

TypeOK ==
  /\ runStatus \in [Runs -> {"none", "running", "complete", "aborted"}]
  /\ known \subseteq Alerts
  /\ st \in [Runs -> [Alerts -> [Stages -> Statuses]]]
  /\ bundle \in [Runs -> [Alerts -> [kind : Bundles \cup {"none"}, tree : Trees \cup {NoTree}]]]
  /\ mark \in [Runs -> [Alerts -> {"none", "dismissed", "kept"}]]
  /\ verdict \in [Alerts -> Verdicts \cup {NoVerdict}]
  /\ cluster \in [ClusterIds -> [Alerts -> {"none", "member", "canonical"}]]
  /\ snap \in Trees \cup {NoTree}
  /\ pc \in Places
  /\ run \in Runs \cup {NoRun} /\ (run = NoRun <=> pc = "idle")
  /\ mode \in Modes \cup {"fleet"}
  /\ todo \subseteq Alerts /\ batch \subseteq Alerts
  /\ rows \subseteq ClusterIds \X Alerts
  /\ closing \subseteq Alerts
  /\ passes \in 0..MaxPasses
  /\ calls \in [Alerts -> Nat]
  /\ agreed \subseteq Reviews

\* A stage row of a run exists only where the stage before it let the alert
\* through, in whatever order passes were killed and resumed: no alert a rule
\* decided or a cluster suppressed is ever analysed, none is judged without a
\* measurement or validated without a judgment.
StageChain ==
  \A r \in Runs, a \in Alerts :
    /\ st[r][a]["policy"] # "none"   => Complete(r, a, "ingest")
    /\ st[r][a]["dedup"] # "none"    => st[r][a]["policy"] = "done"
    /\ st[r][a]["evidence"] # "none" => st[r][a]["dedup"] = "done"
    /\ st[r][a]["judgment"] # "none" => st[r][a]["evidence"] = "done" /\ bundle[r][a].kind # "none"
    /\ st[r][a]["validate"] # "none" => st[r][a]["judgment"] = "done"

\* When the reports are written, no alert of the run has fallen between two
\* stages: each one ingested is cleared with a verdict, suppressed, or went as
\* far as its evidence, its judgment and its check took it.
FunnelIsTotal ==
  pc = "emit" =>
    \A a \in Alerts :
      /\ Complete(run, a, "ingest")       => st[run][a]["policy"] # "none"
      /\ st[run][a]["policy"] = "skipped" => verdict[a] # NoVerdict
      /\ st[run][a]["policy"] = "done"    => st[run][a]["dedup"] # "none"
      /\ st[run][a]["dedup"] = "done"     => st[run][a]["evidence"] # "none"
      /\ AgentsOn /\ st[run][a]["evidence"] = "done" => st[run][a]["judgment"] # "none"
      /\ AgentsOn /\ st[run][a]["judgment"] = "done" =>
           st[run][a]["validate"] # "none" /\ verdict[a] # NoVerdict

\* A verdict marked as agreed is one the validator was shown for this very
\* alert: no replay, inheritance or re-judgment carries an approval over to
\* another document.
AgreementIsReviewed ==
  \A a \in Alerts :
    verdict[a] # NoVerdict /\ verdict[a].validated = "agreed" => Review(a, verdict[a]) \in agreed

\* Under the shipped gate an alert is dismissed only on a closable verdict that
\* the validator has agreed with for this alert, in this run or an earlier one.
DismissalReviewed ==
  [][\A a \in Alerts :
       calls'[a] > calls[a] /\ RequireAgreement =>
         verdict[a].closable /\ Review(a, verdict[a]) \in agreed]_vars

\* propagate_verdicts: validator agreement is not inherited, "an inherited
\* verdict is therefore always unconfirmed".  Holds while one run id is used;
\* cluster rows of an earlier run can still overwrite a judged verdict before
\* the validator looks at it.
InheritedNeverConfirmed ==
  \A a \in Alerts :
    verdict[a] # NoVerdict /\ verdict[a].by = "inheritance" => verdict[a].validated # "agreed"

\* Once inheritance has run, a suppressed alert whose canonical has a verdict
\* carries that document, so the two are reported alike.
SuppressedInherits ==
  pc \in {"validate", "emit"} /\ AgentsOn =>
    \A a \in Alerts : st[run][a]["dedup"] = "skipped" =>
      \E c \in ClusterIds, b \in Alerts :
        /\ cluster[c][a] = "member" /\ cluster[c][b] = "canonical"
        /\ verdict[b] # NoVerdict =>
             /\ verdict[a] # NoVerdict
             /\ verdict[a].by = "inheritance"
             /\ verdict[a].about = verdict[b].about
             /\ verdict[a].closable = verdict[b].closable

\* No alert is dismissed while the run's own evidence proves a call path to it.
ProofBlocksDismissal ==
  [][\A a \in Alerts :
       calls'[a] > calls[a] /\ RequireAgreement => bundle[run][a].kind # "proven"]_vars

\* _already_dismissed: no run re-issues a dismissal it or another one made.
AtMostOneDismissal == \A a \in Alerts : calls[a] <= 1

\* The agent never starts on a repository whose measured alerts are, taken
\* together, shallow: such a repository is requeued.
ShallowIsFlagged == pc = "judgment" => ~Shallow(Kinds(run, Alerts))

\* put_verdict: "``structure_hash`` is the repo state this verdict describes".  A
\* verdict reasoned from a bundle is stamped with the tree the bundle measured,
\* so a later run replays it on that tree only.
StampIsMeasuredTree ==
  \A a \in Alerts :
    LET v == verdict[a] IN
    v # NoVerdict /\ v.by = "judgment" /\ st[v.run][a]["judgment"] # "none" =>
      v.tree = bundle[v.run][a].tree

\* A pass that is begun ends: in "complete", aborted or killed.
EveryPassEnds == pc # "idle" ~> pc = "idle"
=============================================================================
