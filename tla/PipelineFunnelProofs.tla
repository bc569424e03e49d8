------------------------ MODULE PipelineFunnelProofs ------------------------
(***************************************************************************)
(* The funnel of Pipeline, for any alerts, runs and numbers of passes.     *)
(* The tables implement AlertLifecycle: whatever is killed, resumed or run *)
(* again, each alert of each run moves one way.  No alert is lost between  *)
(* two stages, and no shallow repository reaches the agent.                *)
(***************************************************************************)
EXTENDS PipelineProofs

\* The statuses each stage knows: no stage writes another's.
RowStatuses ==
  \A r \in Runs, a \in Alerts :
    /\ st[r][a]["policy"] \in {"none", "done", "skipped"}
    /\ st[r][a]["dedup"] \in {"none", "done", "skipped"}
    /\ st[r][a]["evidence"] \in {"none", "done", "failed"}
    /\ st[r][a]["judgment"] \in {"none", "done", "failed", "budget_deferred"}
    /\ st[r][a]["validate"] \in {"none", "done", "failed"}

\* A validator is asked only about what is not yet checked.
Unchecked == pc = "validate" => \A a \in todo : ~Complete(run, a, "validate")

LifecycleInv == ChainInv /\ RowStatuses /\ Unchecked

LEMMA RowStatusesStep == TypeOK /\ RowStatuses /\ [Next]_vars => RowStatuses'
<1> SUFFICES ASSUME TypeOK, RowStatuses, [Next]_vars PROVE RowStatuses' OBVIOUS
<1>1. CASE UNCHANGED st
  BY <1>1 DEF RowStatuses
<1>2. CASE Dedup
  BY <1>2, DedupEffect DEF RowStatuses, Stages
<1>3. ASSUME NEW a \in Alerts, NEW s \in Stages, NEW status \in Statuses, RowWrite(a, s, status)
      PROVE  RowStatuses'
  BY <1>3, RecordStageEffect DEF RowWrite, RowStatuses, Stages
<1> QED BY <1>1, <1>2, <1>3, StepsByRow

LEMMA UncheckedStep == ChainInv /\ Unchecked /\ [Next]_vars => Unchecked'
<1> SUFFICES ASSUME ChainInv, Unchecked, [Next]_vars, pc' = "validate",
                    NEW a \in todo'
             PROVE  ~Complete(run, a, "validate")'
  BY DEF Unchecked
<1>0. TypeOK
  BY DEF ChainInv
<1>1. CASE NextStage
  BY <1>1 DEF NextStage, db, Pending, Complete
<1>2. ASSUME NEW b \in Alerts, NEW s \in Stages, NEW status \in Statuses, RowWrite(b, s, status)
      PROVE  ~Complete(run, a, "validate")'
  <2>1. pc = "validate" /\ run' = run /\ run \in Runs /\ a \in todo \ {b} /\ a \in Alerts
    BY <1>0, <1>2 DEF RowWrite, TypeOK
  <2>2. st'[run][a]["validate"] = st[run][a]["validate"]
    BY <1>0, <1>2, <2>1, RecordStageEffect DEF RowWrite, Stages
  <2> QED BY <2>1, <2>2 DEF Unchecked, Complete
<1>3. CASE Dedup
  BY <1>0, <1>3, DedupEffect
<1>4. ASSUME UNCHANGED <<st, bundle>>, ~NextStage PROVE ~Complete(run, a, "validate")'
  <2>1. ~CheckShallow
    BY DEF CheckShallow
  <2>2. UNCHANGED <<st, pc, run>> /\ a \in todo
    BY <1>4, <2>1, StepsByPlace
  <2> QED BY <2>2 DEF Unchecked, Complete
<1> QED BY <1>0, <1>1, <1>2, <1>3, <1>4, StepsByRow

LEMMA LifecycleInvInit == Init => LifecycleInv
BY ChainInit DEF Init, LifecycleInv, RowStatuses, Unchecked, Stages

LEMMA LifecycleInvAlways == Spec => []LifecycleInv
<1>1. LifecycleInv /\ [Next]_vars => LifecycleInv'
  BY ChainStep, RowStatusesStep, UncheckedStep DEF LifecycleInv, ChainInv
<1> QED BY <1>1, LifecycleInvInit, PTL DEF Spec

-----------------------------------------------------------------------------
(* The refinement mapping.                                                  *)

\* A phase depends on the rows of its alert and on nothing else.
LEMMA PhaseOfRows ==
  ASSUME NEW r, NEW a, \A s \in Stages : st'[r][a][s] = st[r][a][s]
  PROVE  Phase(r, a)' = Phase(r, a)
BY DEF Phase, Complete, Stages

\* One row of one alert: the phase stays or makes one of the moves.
LEMMA RowMoves ==
  ASSUME LifecycleInv, NEW a \in Alerts, NEW s \in Stages, NEW status \in Statuses,
         RowWrite(a, s, status), Phase(run, a)' # Phase(run, a)
  PROVE  <<Phase(run, a), Phase(run, a)'>> \in Lifecycle!Move
<1> DEFINE row == st[run][a]
<1>0. TypeOK /\ run \in Runs /\ run' = run
  BY DEF LifecycleInv, ChainInv, RowWrite
<1>1. /\ st'[run][a]["ingest"] = IF s = "ingest" THEN status ELSE row["ingest"]
      /\ st'[run][a]["policy"] = IF s = "policy" THEN status ELSE row["policy"]
      /\ st'[run][a]["dedup"] = IF s = "dedup" THEN status ELSE row["dedup"]
      /\ st'[run][a]["evidence"] = IF s = "evidence" THEN status ELSE row["evidence"]
      /\ st'[run][a]["judgment"] = IF s = "judgment" THEN status ELSE row["judgment"]
      /\ st'[run][a]["validate"] = IF s = "validate" THEN status ELSE row["validate"]
  BY <1>0, RecordStageEffect DEF RowWrite, Stages
<1>2. /\ row["policy"] # "none"   => row["ingest"] \in TERMINAL_STATUSES
      /\ row["dedup"] # "none"    => row["policy"] = "done"
      /\ row["evidence"] # "none" => row["dedup"] = "done"
      /\ row["judgment"] # "none" => row["evidence"] = "done"
      /\ row["validate"] # "none" => row["judgment"] = "done"
  BY <1>0 DEF LifecycleInv, ChainInv, StageChain, Complete
<1>3. /\ row["policy"] \in {"none", "done", "skipped"}
      /\ row["dedup"] \in {"none", "done", "skipped"}
      /\ row["evidence"] \in {"none", "done", "failed"}
      /\ row["judgment"] \in {"none", "done", "failed", "budget_deferred"}
      /\ row["validate"] \in {"none", "done", "failed"}
  BY <1>0 DEF LifecycleInv, RowStatuses
<1>4. s # "emit" => Admitted(a)
  BY DEF LifecycleInv, ChainInv, TodoAdmitted, RowWrite
<1>5. CASE s = "ingest"
  <2>1. status \in {"done", "skipped", "failed"} /\ row["ingest"] \notin TERMINAL_STATUSES
    BY <1>5 DEF RowWrite, Complete
  <2>2. Phase(run, a) = "new"
    BY <1>2, <2>1 DEF Phase, Complete
  <2>3. Phase(run, a)' \in {"new", "ingested"}
    BY <1>0, <1>1, <1>2, <1>5, <2>1 DEF Phase, Complete
  <2> QED BY <2>2, <2>3 DEF Lifecycle!Move
<1>6. CASE s = "policy"
  <2>1. /\ status \in {"done", "skipped"} /\ row["policy"] = "none"
        /\ row["ingest"] \in TERMINAL_STATUSES
    BY <1>3, <1>4, <1>6 DEF RowWrite, Admitted, Complete, TERMINAL_STATUSES
  <2>2. Phase(run, a) = "ingested"
    BY <1>2, <2>1 DEF Phase, Complete
  <2>3. Phase(run, a)' \in {"cleared", "queued"}
    BY <1>0, <1>1, <1>2, <1>6, <2>1 DEF Phase, Complete
  <2> QED BY <2>2, <2>3 DEF Lifecycle!Move
<1>7. CASE s = "evidence"
  <2>1. /\ status \in {"done", "failed"}
        /\ row["dedup"] = "done" /\ row["judgment"] = "none" /\ row["validate"] = "none"
    BY <1>2, <1>4, <1>7 DEF RowWrite, Admitted
  <2>2. Phase(run, a) \in {"selected", "measured", "unmeasured"}
    BY <1>2, <1>3, <2>1 DEF Phase, Complete
  <2>3. Phase(run, a)' \in {"measured", "unmeasured"}
    BY <1>0, <1>1, <1>2, <1>7, <2>1 DEF Phase, Complete
  <2> QED BY <2>2, <2>3 DEF Lifecycle!Move
<1>8. CASE s = "judgment"
  <2>1. /\ status \in {"done", "failed", "budget_deferred"}
        /\ row["evidence"] = "done" /\ row["judgment"] # "done" /\ row["validate"] = "none"
    BY <1>2, <1>4, <1>8 DEF RowWrite, Admitted, Complete, TERMINAL_STATUSES
  <2>2. Phase(run, a) \in {"measured", "waiting"}
    BY <1>2, <1>3, <2>1 DEF Phase, Complete
  <2>3. Phase(run, a)' \in {"judged", "waiting"}
    BY <1>0, <1>1, <1>2, <1>8, <2>1 DEF Phase, Complete
  <2> QED BY <2>2, <2>3 DEF Lifecycle!Move
<1>9. CASE s = "validate"
  <2>1. /\ status \in {"done", "failed"}
        /\ row["judgment"] = "done" /\ row["validate"] # "done"
    BY <1>4, <1>9 DEF LifecycleInv, Unchecked, RowWrite, Admitted, Complete, TERMINAL_STATUSES
  <2>2. Phase(run, a) \in {"judged", "rejected"}
    BY <1>2, <1>3, <2>1 DEF Phase, Complete
  <2>3. Phase(run, a)' \in {"checked", "rejected"}
    BY <1>0, <1>1, <1>2, <1>9, <2>1 DEF Phase, Complete
  <2> QED BY <2>2, <2>3 DEF Lifecycle!Move
<1>10. CASE s = "emit"
  BY <1>0, <1>1, <1>10 DEF Phase, Complete
<1> QED BY <1>5, <1>6, <1>7, <1>8, <1>9, <1>10 DEF RowWrite

\* The dedup stage suppresses or selects every queued alert of its list at once.
LEMMA DedupMoves ==
  ASSUME LifecycleInv, Dedup, NEW r \in Runs, NEW a \in Alerts, Phase(r, a)' # Phase(r, a)
  PROVE  <<Phase(r, a), Phase(r, a)'>> \in Lifecycle!Move
<1>0. TypeOK
  BY DEF LifecycleInv, ChainInv
<1>1. r = run /\ a \in todo
  <2>1. CASE ~(r = run /\ a \in todo)
    BY <1>0, <2>1, DedupEffect, PhaseOfRows
  <2> QED BY <2>1
<1> DEFINE row == st[r][a]
<1>2. row["policy"] = "done" /\ row["dedup"] = "none" /\ row["evidence"] = "none"
      /\ row["judgment"] = "none" /\ row["validate"] = "none"
  BY <1>1, <1>0, DedupEffect DEF LifecycleInv, ChainInv, TodoAdmitted, Admitted, StageChain,
                                 RowStatuses, Complete, TERMINAL_STATUSES
<1>3. /\ st'[r][a]["dedup"] \in {"done", "skipped"}
      /\ st'[r][a]["policy"] = "done" /\ st'[r][a]["evidence"] = "none"
      /\ st'[r][a]["judgment"] = "none" /\ st'[r][a]["validate"] = "none"
  BY <1>0, <1>1, <1>2, DedupEffect DEF Stages
<1>4. Phase(r, a) = "queued"
  BY <1>2 DEF Phase, Complete
<1>5. Phase(r, a)' \in {"suppressed", "selected"}
  BY <1>3 DEF Phase, Complete
<1> QED BY <1>4, <1>5 DEF Lifecycle!Move

\* Every step of the pipeline is a step of the lifecycle or leaves it alone.
LEMMA EveryMove ==
  ASSUME LifecycleInv, [Next]_vars, NEW r \in Runs, NEW a \in Alerts, Phase(r, a)' # Phase(r, a)
  PROVE  <<Phase(r, a), Phase(r, a)'>> \in Lifecycle!Move
<1>0. TypeOK
  BY DEF LifecycleInv, ChainInv
<1>1. CASE UNCHANGED st
  BY <1>1, PhaseOfRows
<1>2. CASE Dedup
  BY <1>2, DedupMoves
<1>3. ASSUME NEW b \in Alerts, NEW s \in Stages, NEW status \in Statuses, RowWrite(b, s, status)
      PROVE  <<Phase(r, a), Phase(r, a)'>> \in Lifecycle!Move
  <2>1. CASE r = run /\ a = b
    <3>1. Phase(run, b)' = Phase(r, a)'
      BY <1>3, <2>1 DEF RowWrite
    <3> QED BY <1>3, <2>1, <3>1, RowMoves
  <2>2. CASE ~(r = run /\ a = b)
    <3>1. \A q \in Stages : st'[r][a][q] = st[r][a][q]
      BY <1>0, <1>3, <2>2, RecordStageEffect DEF RowWrite
    <3> QED BY <3>1, PhaseOfRows
  <2> QED BY <2>1, <2>2
<1> QED BY <1>0, <1>1, <1>2, <1>3, StepsByRow

\* Every pass, resumed or not, moves every alert of every run one way through
\* the funnel: the pipeline implements the lifecycle.
THEOREM PipelineImplements == Spec => Implements
<1> DEFINE phases == [r \in Runs |-> [a \in Alerts |-> Phase(r, a)]]
<1>1. Init => Lifecycle!Init
  BY DEF Init, Lifecycle!Init, Phase, Complete, Stages, TERMINAL_STATUSES
<1>2. ASSUME LifecycleInv, [Next]_vars PROVE [Lifecycle!Next]_phases
  <2>1. phases' \in [Runs -> [Alerts -> Lifecycle!Phases]]
    <3>1. \A r \in Runs, a \in Alerts : Phase(r, a)' \in Lifecycle!Phases
      BY DEF Phase, Lifecycle!Phases
    <3> QED BY <3>1
  <2>2. \A r \in Runs, a \in Alerts :
          phases'[r][a] # phases[r][a] => <<phases[r][a], phases'[r][a]>> \in Lifecycle!Move
    BY <1>2, EveryMove
  <2> QED BY <2>1, <2>2 DEF Lifecycle!Next
<1> QED BY <1>1, <1>2, LifecycleInvAlways, PTL DEF Spec, Implements, Lifecycle!Spec

-----------------------------------------------------------------------------
(* Nothing is left behind.                                                  *)

\* The places of a pass from a stage on.
From(s) ==
  CASE s = "policy"   -> {"policy", "dedup", "evidence", "requeue", "judgment", "propagate",
                          "validate", "emit"}
    [] s = "dedup"    -> {"dedup", "evidence", "requeue", "judgment", "propagate", "validate",
                          "emit"}
    [] s = "evidence" -> {"evidence", "requeue", "judgment", "propagate", "validate", "emit"}
    [] s = "judgment" -> {"judgment", "propagate", "validate", "emit"}
    [] s = "validate" -> {"validate", "emit"}

\* The stage has written a row for the alert or has it on its list.
Taken(s, a) == st[run][a][s] # "none" \/ (pc = s /\ a \in todo)

\* A stage finds its alerts in the alerts table.
IngestedIsKnown ==
  \A r \in Runs, a \in Alerts : Complete(r, a, "ingest") => a \in known

\* A row that says an alert was decided has its verdict beside it.
DecidedHasVerdict ==
  \A r \in Runs, a \in Alerts :
    st[r][a]["policy"] = "skipped" \/ st[r][a]["judgment"] = "done" => verdict[a] # NoVerdict

\* From a stage on, every alert the stage before it let through is taken.
NothingLeftBehind ==
  \A a \in Alerts :
    /\ pc \in From("policy") /\ Complete(run, a, "ingest") => Taken("policy", a)
    /\ pc \in From("dedup") /\ st[run][a]["policy"] = "done" => Taken("dedup", a)
    /\ pc \in From("evidence") /\ st[run][a]["dedup"] = "done" => Taken("evidence", a)
    /\ AgentsOn /\ pc \in From("judgment") /\ st[run][a]["evidence"] = "done" =>
         Taken("judgment", a)
    /\ AgentsOn /\ pc \in From("validate") /\ st[run][a]["judgment"] = "done" =>
         Taken("validate", a)

FunnelInv == LifecycleInv /\ IngestedIsKnown /\ DecidedHasVerdict /\ NothingLeftBehind

-----------------------------------------------------------------------------
\* No alert leaves the alerts table and no alert loses its last verdict.
LEMMA TablesGrow ==
  ASSUME TypeOK, [Next]_vars
  PROVE  /\ known \subseteq known'
         /\ \A b \in Alerts : verdict[b] # NoVerdict => verdict'[b] # NoVerdict
<1>1. ASSUME NEW a \in Alerts, NEW v \in Verdicts, Put(a, v)
      PROVE  \A b \in Alerts : verdict[b] # NoVerdict => verdict'[b] # NoVerdict
  BY <1>1, PutKeepsVerdicts
<1>2. \A b \in Alerts : verdict[b] # NoVerdict => verdict'[b] # NoVerdict
  BY <1>1, StepsByVerdict, VerdictWritten
<1>3. ASSUME NEW a \in Alerts,
             \/ SkipIngested(a) \/ IngestFails(a) \/ Replay(a) \/ Ingest(a)
             \/ NoRuleMatches(a) \/ RuleMatches(a) \/ NoAdapter(a) \/ Measure(a)
             \/ Requeue(a) \/ Defer(a) \/ Judge(a) \/ RejectMechanically(a)
             \/ ValidatorUnavailable(a) \/ ValidatorAnswers(a)
             \/ KeepOpen(a) \/ DismissalFails(a) \/ Dismiss(a) \/ RecordDismissal(a)
      PROVE  known \subseteq known'
  BY <1>3 DEF SkipIngested, IngestFails, Replay, Ingest, NoRuleMatches, RuleMatches, NoAdapter,
              Measure, Requeue, Defer, Judge, RejectMechanically, ValidatorUnavailable,
              ValidatorAnswers, Settle, KeepOpen, DismissalFails, Dismiss, RecordDismissal, db
<1>4. ASSUME \/ \E r \in Runs, m \in Modes : Begin(r, m)
             \/ TakeSnapshot \/ NextStage \/ Dedup \/ CheckShallow \/ Finish
             \/ \E c \in ClusterIds, a \in Alerts : Inherit(c, a) \/ NothingToInherit(c, a)
             \/ Stop \/ UNCHANGED vars
      PROVE  UNCHANGED known
  BY <1>4 DEF Begin, TakeSnapshot, NextStage, Dedup, CheckShallow, Finish, Inherit,
              NothingToInherit, Stop, vars, db
<1> QED BY <1>2, <1>3, <1>4 DEF Next, Step, Rest

LEMMA KnownStep == TypeOK /\ IngestedIsKnown /\ [Next]_vars => IngestedIsKnown'
<1> SUFFICES ASSUME TypeOK, IngestedIsKnown, [Next]_vars PROVE IngestedIsKnown' OBVIOUS
<1>1. CASE UNCHANGED st
  BY <1>1, TablesGrow DEF IngestedIsKnown, Complete
<1>2. CASE Dedup
  BY <1>2, DedupEffect, TablesGrow DEF IngestedIsKnown, Complete, Stages
<1>3. ASSUME NEW a \in Alerts, NEW s \in Stages, NEW status \in Statuses, RowWrite(a, s, status)
      PROVE  IngestedIsKnown'
  BY <1>3, RecordStageEffect, TablesGrow
     DEF RowWrite, IngestedIsKnown, Complete, Stages, TERMINAL_STATUSES
<1> QED BY <1>1, <1>2, <1>3, StepsByRow

LEMMA DecidedStep == TypeOK /\ DecidedHasVerdict /\ [Next]_vars => DecidedHasVerdict'
<1> SUFFICES ASSUME TypeOK, DecidedHasVerdict, [Next]_vars PROVE DecidedHasVerdict' OBVIOUS
<1>1. CASE UNCHANGED st
  BY <1>1, TablesGrow DEF DecidedHasVerdict
<1>2. CASE Dedup
  BY <1>2, DedupEffect, TablesGrow DEF DecidedHasVerdict, Stages
<1>3. ASSUME NEW a \in Alerts, NEW s \in Stages, NEW status \in Statuses, RowWrite(a, s, status)
      PROVE  DecidedHasVerdict'
  BY <1>3, RecordStageEffect, TablesGrow DEF RowWrite, DecidedHasVerdict, Stages
<1> QED BY <1>1, <1>2, <1>3, StepsByRow

-----------------------------------------------------------------------------
(* Nothing is left behind.                                                  *)

\* What a stage takes up when it begins: every alert without a row of its own
\* that the stage before it let through.
LEMMA PendingTakes ==
  ASSUME LifecycleInv, IngestedIsKnown, run \in Runs, NEW a \in Alerts
  PROVE  /\ Complete(run, a, "ingest") /\ st[run][a]["policy"] = "none" => a \in Pending("policy")
         /\ st[run][a]["policy"] = "done" /\ st[run][a]["dedup"] = "none" => a \in Pending("dedup")
         /\ st[run][a]["dedup"] = "done" /\ st[run][a]["evidence"] = "none" =>
              a \in Pending("evidence")
         /\ st[run][a]["evidence"] = "done" /\ st[run][a]["judgment"] = "none" =>
              a \in Pending("judgment")
         /\ st[run][a]["judgment"] = "done" /\ st[run][a]["validate"] = "none" =>
              a \in Pending("validate")
<1>1. /\ st[run][a]["policy"] # "none"   => Complete(run, a, "ingest")
      /\ st[run][a]["dedup"] # "none"    => st[run][a]["policy"] = "done"
      /\ st[run][a]["evidence"] # "none" => st[run][a]["dedup"] = "done"
      /\ st[run][a]["judgment"] # "none" => st[run][a]["evidence"] = "done"
  BY DEF LifecycleInv, ChainInv, StageChain
<1>2. Complete(run, a, "ingest") => a \in known
  BY DEF IngestedIsKnown
<1> QED BY <1>1, <1>2 DEF Pending, Complete, Stages, TERMINAL_STATUSES

LEMMA BehindStep ==
  LifecycleInv /\ IngestedIsKnown /\ NothingLeftBehind /\ [Next]_vars => NothingLeftBehind'
<1> SUFFICES ASSUME LifecycleInv, IngestedIsKnown, NothingLeftBehind, [Next]_vars
             PROVE  NothingLeftBehind'
  OBVIOUS
<1>0. TypeOK
  BY DEF LifecycleInv, ChainInv
<1>1. CASE pc' \in {"idle", "start", "ingest"}
  BY <1>1 DEF NothingLeftBehind, From
<1>2. CASE NextStage
  <2>1. /\ UNCHANGED <<st, run, mode>> /\ todo = {}
        /\ pc' = Following /\ pc \notin {"idle", "start", "emit"} /\ run \in Runs
        /\ Following # "emit" => todo' = Pending(Following)
    BY <1>0, <1>2 DEF NextStage, db, TypeOK
  <2>2. pc \in {"ingest", "policy", "dedup", "evidence", "requeue", "judgment", "propagate",
                "validate"}
    BY <1>0, <2>1 DEF TypeOK, Places, Stages
  <2> SUFFICES ASSUME NEW a \in Alerts
               PROVE  /\ pc' \in From("policy") /\ Complete(run, a, "ingest")
                           => st[run][a]["policy"] # "none" \/ (pc' = "policy" /\ a \in todo')
                      /\ pc' \in From("dedup") /\ st[run][a]["policy"] = "done"
                           => st[run][a]["dedup"] # "none" \/ (pc' = "dedup" /\ a \in todo')
                      /\ pc' \in From("evidence") /\ st[run][a]["dedup"] = "done"
                           => st[run][a]["evidence"] # "none" \/ (pc' = "evidence" /\ a \in todo')
                      /\ AgentsOn /\ pc' \in From("judgment") /\ st[run][a]["evidence"] = "done"
                           => st[run][a]["judgment"] # "none" \/ (pc' = "judgment" /\ a \in todo')
                      /\ AgentsOn /\ pc' \in From("validate") /\ st[run][a]["judgment"] = "done"
                           => st[run][a]["validate"] # "none" \/ (pc' = "validate" /\ a \in todo')
    BY <2>1 DEF NothingLeftBehind, Taken, AgentsOn, Complete
  <2>3. /\ pc \in From("policy") /\ Complete(run, a, "ingest") => st[run][a]["policy"] # "none"
        /\ pc \in From("dedup") /\ st[run][a]["policy"] = "done" => st[run][a]["dedup"] # "none"
        /\ pc \in From("evidence") /\ st[run][a]["dedup"] = "done" =>
             st[run][a]["evidence"] # "none"
        /\ AgentsOn /\ pc \in From("judgment") /\ st[run][a]["evidence"] = "done" =>
             st[run][a]["judgment"] # "none"
        /\ AgentsOn /\ pc \in From("validate") /\ st[run][a]["judgment"] = "done" =>
             st[run][a]["validate"] # "none"
    BY <2>1 DEF NothingLeftBehind, Taken
  <2>4. /\ pc' \in From("policy") => pc \in From("policy") \/ pc' = "policy"
        /\ pc' \in From("dedup") => pc \in From("dedup") \/ pc' = "dedup"
        /\ pc' \in From("evidence") => pc \in From("evidence") \/ pc' = "evidence"
        /\ AgentsOn /\ pc' \in From("judgment") => pc \in From("judgment") \/ pc' = "judgment"
        /\ AgentsOn /\ pc' \in From("validate") => pc \in From("validate") \/ pc' = "validate"
    BY <2>1, <2>2 DEF Following, From
  <2>5. pc' \in {"policy", "dedup", "evidence", "judgment", "validate"} => todo' = Pending(pc')
    BY <2>1
  <2> QED BY <2>1, <2>3, <2>4, <2>5, PendingTakes
<1>3. CASE CheckShallow
  <2>1. /\ UNCHANGED <<st, run, mode>> /\ todo = {} /\ pc = "evidence"
        /\ pc' \in {"evidence", "requeue"}
    BY <1>3 DEF CheckShallow, db
  <2> QED BY <2>1 DEF NothingLeftBehind, Taken, From, AgentsOn, Complete
<1>4. ASSUME UNCHANGED <<pc, run, mode, batch>>, pc' \notin {"idle", "start", "ingest"}
      PROVE  NothingLeftBehind'
  <2>0. run \in Runs
    BY <1>0, <1>4 DEF TypeOK
  <2>1. CASE UNCHANGED <<st, bundle>> /\ (pc' = pc /\ pc # "ingest" => todo' = todo)
    BY <1>4, <2>1 DEF NothingLeftBehind, Taken, AgentsOn, Complete
  <2>2. CASE Dedup
    <3>1. pc = "dedup" /\ todo \subseteq Alerts
      BY <1>0, <2>2, DedupEffect DEF TypeOK
    <3>2. \A a \in Alerts :
            /\ st'[run][a]["ingest"] = st[run][a]["ingest"]
            /\ st'[run][a]["policy"] = st[run][a]["policy"]
            /\ a \in todo => st'[run][a]["dedup"] # "none"
            /\ a \notin todo => st'[run][a]["dedup"] = st[run][a]["dedup"]
      BY <1>0, <2>0, <2>2, DedupEffect DEF Stages
    <3> QED BY <1>4, <3>1, <3>2 DEF NothingLeftBehind, Taken, From, Complete
  <2>3. ASSUME NEW b \in Alerts, NEW s \in Stages, NEW status \in Statuses, RowWrite(b, s, status)
        PROVE  NothingLeftBehind'
    <3>1. \A a \in Alerts, q \in Stages :
            st'[run][a][q] = IF a = b /\ q = s THEN status ELSE st[run][a][q]
      BY <1>0, <2>0, <2>3, RecordStageEffect DEF RowWrite
    <3>2. status # "none" /\ todo' = todo \ {b} /\ (s = "ingest" => pc = "ingest")
          /\ (s = "evidence" => pc \in {"evidence", "requeue"})
          /\ (s \notin {"ingest", "evidence"} => pc = s)
      BY <2>3 DEF RowWrite
    <3>3. s # "ingest"
      BY <1>4, <3>2
    <3> SUFFICES ASSUME NEW a \in Alerts
                 PROVE  /\ pc \in From("policy") /\ Complete(run, a, "ingest")'
                             => Taken("policy", a)'
                        /\ pc \in From("dedup") /\ st'[run][a]["policy"] = "done"
                             => Taken("dedup", a)'
                        /\ pc \in From("evidence") /\ st'[run][a]["dedup"] = "done"
                             => Taken("evidence", a)'
                        /\ AgentsOn /\ pc \in From("judgment") /\ st'[run][a]["evidence"] = "done"
                             => Taken("judgment", a)'
                        /\ AgentsOn /\ pc \in From("validate") /\ st'[run][a]["judgment"] = "done"
                             => Taken("validate", a)'
      BY <1>4 DEF NothingLeftBehind, AgentsOn
    <3>4. \A q \in {"policy", "dedup", "evidence", "judgment", "validate"} :
            Taken(q, a) => Taken(q, a)'
      BY <1>4, <3>1, <3>2 DEF Taken, Stages
    <3>5. /\ Complete(run, a, "ingest")' => Complete(run, a, "ingest")
          /\ pc \in From("dedup") /\ st'[run][a]["policy"] = "done" => st[run][a]["policy"] = "done"
          /\ pc \in From("evidence") /\ st'[run][a]["dedup"] = "done" => st[run][a]["dedup"] = "done"
          /\ pc \in From("judgment") /\ st'[run][a]["evidence"] = "done" =>
               st[run][a]["evidence"] = "done"
          /\ pc \in From("validate") /\ st'[run][a]["judgment"] = "done" =>
               st[run][a]["judgment"] = "done"
      BY <1>4, <3>1, <3>2, <3>3 DEF From, Complete, Stages
    <3> QED BY <3>4, <3>5 DEF NothingLeftBehind
  <2> QED BY <1>0, <2>1, <2>2, <2>3, StepsByRow
<1> QED BY <1>1, <1>2, <1>3, <1>4, StepsByPlace

LEMMA FunnelInvAlways == Spec => []FunnelInv
<1>1. Init => FunnelInv
  BY LifecycleInvInit DEF Init, FunnelInv, IngestedIsKnown, DecidedHasVerdict, NothingLeftBehind,
                          Complete, From, Stages, TERMINAL_STATUSES
<1>2. LifecycleInv => TypeOK
  BY DEF LifecycleInv, ChainInv
<1>3. IngestedIsKnown /\ DecidedHasVerdict /\ NothingLeftBehind /\ LifecycleInv /\ [Next]_vars
      => (IngestedIsKnown /\ DecidedHasVerdict /\ NothingLeftBehind)'
  BY <1>2, KnownStep, DecidedStep, BehindStep
<1> QED BY <1>1, <1>3, LifecycleInvAlways, PTL DEF Spec, FunnelInv

\* When the reports are written, each alert ingested is cleared with a verdict,
\* suppressed, or went as far as its evidence, its judgment and its check took
\* it, through whatever kills and resumptions.
THEOREM NoAlertIsLost == Spec => []FunnelIsTotal
<1>1. FunnelInv => FunnelIsTotal
  BY DEF FunnelInv, FunnelIsTotal, NothingLeftBehind, DecidedHasVerdict, Taken, From, LifecycleInv,
         ChainInv, TypeOK
<1> QED BY <1>1, FunnelInvAlways, PTL
-----------------------------------------------------------------------------
(* Shallow repositories, where no pass is killed.                           *)

\* The alerts of a run whose evidence is not of the pass under way, or has been
\* looked at and kept.
Settled(r) ==
  IF r = run /\ pc = "evidence" THEN Alerts \ batch
  ELSE IF r = run /\ pc = "requeue" THEN Alerts \ todo ELSE Alerts

\* Their evidence, taken together, is not shallow; and an evidence pass has on
\* its list only alerts of its batch.
SettledIsDeep ==
  /\ \A r \in Runs : ~Shallow(Kinds(r, Settled(r)))
  /\ pc = "evidence" => todo \subseteq batch

\* What is deep in parts is deep together.
LEMMA DeepTogether ==
  ASSUME NEW one, NEW other, ~Shallow(one), ~Shallow(other)
  PROVE  ~Shallow(one \cup other)
BY DEF Shallow

LEMMA KindsTogether ==
  ASSUME NEW r, NEW one, NEW other
  PROVE  Kinds(r, one \cup other) = Kinds(r, one) \cup Kinds(r, other)
BY DEF Kinds

\* The kinds after a step, of some alerts.
KindsNext(r, alerts) ==
  {bundle'[r][a].kind : a \in {b \in alerts : st'[r][b]["evidence"] = "done"}}

\* Kinds are read from the evidence rows that are done.
LEMMA KindsKept ==
  ASSUME NEW r, NEW before, NEW after,
         \A a \in after : st'[r][a]["evidence"] = "done" =>
           a \in before /\ st[r][a]["evidence"] = "done" /\ bundle'[r][a] = bundle[r][a],
         \A a \in before : st[r][a]["evidence"] = "done" =>
           a \in after /\ st'[r][a]["evidence"] = "done" /\ bundle'[r][a] = bundle[r][a]
  PROVE  KindsNext(r, after) = Kinds(r, before)
BY DEF Kinds, KindsNext

LEMMA DeepStep ==
  ASSUME TypeOK, SettledIsDeep, [Next]_vars, ~MayStop
  PROVE  SettledIsDeep'
<1>0. ~Stop /\ batch \subseteq Alerts /\ todo \subseteq Alerts
  BY DEF Stop, TypeOK
<1>1. pc' = "evidence" => todo' \subseteq batch'
  <2>1. CASE NextStage
    BY <2>1 DEF NextStage
  <2>2. CASE CheckShallow
    BY <2>2 DEF CheckShallow
  <2>3. CASE UNCHANGED <<pc, run, mode, batch>> /\ todo' \subseteq todo
    BY <2>3 DEF SettledIsDeep
  <2> QED BY <2>1, <2>2, <2>3, StepsByPlace
<1> SUFFICES ASSUME NEW r \in Runs PROVE ~Shallow(KindsNext(r, Settled(r)'))
  BY <1>1 DEF SettledIsDeep, Kinds, KindsNext
<1>2. ~Shallow(Kinds(r, Settled(r)))
  BY DEF SettledIsDeep
<1>3. CASE /\ pc' \in {"idle", "start", "ingest"} /\ pc' # pc
           /\ Stop \/ TakeSnapshot \/ Finish \/ \E q \in Runs, m \in Modes : Begin(q, m)
  <2>1. UNCHANGED <<st, bundle>> /\ pc \in {"idle", "start", "emit"}
    BY <1>0, <1>3 DEF Begin, TakeSnapshot, Finish
  <2>2. Settled(r) = Alerts /\ Settled(r)' = Alerts
    BY <1>3, <2>1 DEF Settled
  <2> QED BY <1>2, <2>1, <2>2, KindsKept
<1>4. CASE NextStage
  <2>1. UNCHANGED <<st, bundle, run>> /\ todo = {} /\ batch = {} /\ pc' # "requeue"
    BY <1>4 DEF NextStage, db, Following, TypeOK, Places, Stages
  <2>2. Settled(r) = Alerts
    BY <2>1 DEF Settled
  <2>3. CASE r = run /\ pc' = "evidence"
    <3>1. Settled(r)' = Alerts \ Pending("evidence")
      BY <1>4, <2>1, <2>3 DEF Settled, NextStage
    <3>2. \A a \in Pending("evidence") : st[r][a]["evidence"] # "done"
      BY <2>3 DEF Pending, Complete, TERMINAL_STATUSES
    <3> QED BY <1>2, <2>1, <2>2, <3>1, <3>2, KindsKept
  <2>4. CASE ~(r = run /\ pc' = "evidence")
    <3>1. Settled(r)' = Alerts
      BY <2>1, <2>4 DEF Settled
    <3> QED BY <1>2, <2>1, <2>2, <3>1, KindsKept
  <2> QED BY <2>3, <2>4
<1>5. CASE CheckShallow
  <2>1. UNCHANGED <<st, bundle, run>> /\ pc = "evidence"
    BY <1>5 DEF CheckShallow, db
  <2>2. CASE r # run
    BY <1>2, <2>1, <2>2, KindsKept DEF Settled
  <2>3. CASE r = run /\ Shallow(Kinds(run, batch))
    <3>1. Settled(r)' = Alerts \ batch /\ Settled(r) = Alerts \ batch
      BY <1>5, <2>1, <2>3 DEF CheckShallow, Settled
    <3> QED BY <1>2, <2>1, <3>1, KindsKept
  <2>4. CASE r = run /\ ~Shallow(Kinds(run, batch))
    <3>1. Settled(r)' = Alerts /\ Settled(r) = Alerts \ batch
      BY <1>5, <2>1, <2>4 DEF CheckShallow, Settled
    <3>2. KindsNext(r, Alerts) = Kinds(r, Alerts)
      BY <2>1, KindsKept
    <3>3. Alerts = (Alerts \ batch) \cup batch
      BY <1>0
    <3>4. Kinds(r, Alerts) = Kinds(r, Alerts \ batch) \cup Kinds(r, batch)
      BY <3>3, KindsTogether
    <3> QED BY <1>2, <2>4, <3>1, <3>2, <3>4, DeepTogether
  <2> QED BY <2>2, <2>3, <2>4
<1>6. CASE UNCHANGED <<pc, run, mode, batch>> /\ todo' \subseteq todo
  <2>1. CASE UNCHANGED <<st, bundle>> /\ (pc' = pc /\ pc # "ingest" => todo' = todo)
    <3>1. Settled(r)' = Settled(r)
      BY <1>6, <2>1 DEF Settled
    <3> QED BY <1>2, <2>1, <3>1, KindsKept
  <2>2. CASE Dedup
    <3>1. Settled(r)' = Alerts /\ Settled(r) = Alerts
      BY <1>6, <2>2, DedupEffect DEF Settled
    <3>2. \A a \in Alerts : st'[r][a]["evidence"] = st[r][a]["evidence"] /\ bundle' = bundle
      BY <2>2, DedupEffect DEF Stages
    <3> QED BY <1>2, <3>1, <3>2, KindsKept
  <2>3. ASSUME NEW b \in Alerts, NEW s \in Stages, NEW status \in Statuses, RowWrite(b, s, status)
        PROVE  ~Shallow(KindsNext(r, Settled(r)'))
    <3>1. run \in Runs /\ todo' = todo \ {b} /\ (s = "evidence" => b \in todo)
      BY <2>3 DEF RowWrite
    <3>2. \A a \in Alerts : ~(r = run /\ a = b /\ s = "evidence") =>
            st'[r][a]["evidence"] = st[r][a]["evidence"]
      BY <2>3, <3>1, RecordStageEffect DEF RowWrite, Stages
    <3>3. \A a \in Alerts : ~(r = run /\ a = b /\ pc = "evidence") => bundle'[r][a] = bundle[r][a]
      BY <2>3 DEF RowWrite
    <3>4. CASE r = run /\ pc = "evidence"
      <4>1. Settled(r)' = Alerts \ batch /\ Settled(r) = Alerts \ batch
        BY <1>6, <3>4 DEF Settled
      <4>2. b \in batch
        BY <2>3, <3>4 DEF SettledIsDeep, RowWrite
      <4> QED BY <1>2, <3>2, <3>3, <4>1, <4>2, KindsKept
    <3>5. CASE r = run /\ pc = "requeue"
      <4>1. Settled(r)' = Alerts \ (todo \ {b}) /\ Settled(r) = Alerts \ todo
        BY <1>6, <3>1, <3>5 DEF Settled
      <4>2. s = "evidence" /\ status = "failed"
        BY <2>3, <3>5 DEF RowWrite
      <4>3. st'[r][b]["evidence"] = "failed"
        BY <2>3, <3>1, <3>5, <4>2, RecordStageEffect DEF RowWrite
      <4> QED BY <1>0, <1>2, <3>1, <3>2, <3>3, <3>5, <4>1, <4>2, <4>3, KindsKept
    <3>6. CASE ~(r = run /\ pc \in {"evidence", "requeue"})
      <4>1. Settled(r)' = Alerts /\ Settled(r) = Alerts
        BY <1>6, <3>6 DEF Settled
      <4>2. ~(r = run /\ s = "evidence")
        BY <2>3, <3>6 DEF RowWrite
      <4> QED BY <1>2, <3>2, <3>3, <3>6, <4>1, <4>2, KindsKept
    <3> QED BY <3>4, <3>5, <3>6
  <2> QED BY <2>1, <2>2, <2>3, StepsByRow
<1> QED BY <1>3, <1>4, <1>5, <1>6, StepsByPlace

\* Where no pass is killed or aborted, the agent never starts on a repository
\* whose measured alerts are, taken together, shallow: neither the alerts of one
\* pass nor those of several passes together.
THEOREM ShallowIsRequeued ==
  ASSUME ~MayStop
  PROVE  Spec => []ShallowIsFlagged
<1>1. Init => SettledIsDeep
  BY DEF Init, SettledIsDeep, Settled, Shallow, Kinds, Stages
<1>2. TypeOK /\ SettledIsDeep /\ [Next]_vars => SettledIsDeep'
  BY DeepStep
<1>3. TypeOK /\ SettledIsDeep => ShallowIsFlagged
  <2> SUFFICES ASSUME TypeOK, SettledIsDeep, pc = "judgment"
               PROVE  ~Shallow(Kinds(run, Alerts))
    BY DEF ShallowIsFlagged
  <2>1. run \in Runs /\ Settled(run) = Alerts
    BY DEF TypeOK, Settled
  <2> QED BY <2>1 DEF SettledIsDeep
<1> QED BY <1>1, <1>2, <1>3, TypeCorrect, PTL DEF Spec

-----------------------------------------------------------------------------
(* What Pipeline keeps under one run id, killed and resumed anywhere, and    *)
(* what it keeps when every run is invoked once and ends by itself.          *)

\* The database is used under one run id.
OneRun == \A r, q \in Runs : r = q

\* Rows that say something was decided are not taken back, and the bundle of a
\* judged alert is not replaced.
LEMMA DecisionsStay ==
  ASSUME LifecycleInv, [Next]_vars, NEW r \in Runs, NEW a \in Alerts
  PROVE  /\ Complete(r, a, "ingest") => Complete(r, a, "ingest")'
         /\ st[r][a]["dedup"] # "none" => st'[r][a]["dedup"] = st[r][a]["dedup"]
         /\ st[r][a]["judgment"] = "done" =>
              st'[r][a]["judgment"] = "done" /\ bundle'[r][a] = bundle[r][a]
<1>0. TypeOK
  BY DEF LifecycleInv, ChainInv
<1>1. CASE UNCHANGED <<st, bundle>>
  BY <1>1 DEF Complete
<1>2. CASE Dedup
  <2>1. a \in todo => st[run][a]["dedup"] = "none"
    BY <1>0, <1>2, DedupEffect DEF LifecycleInv, RowStatuses, ChainInv, TodoAdmitted, Admitted,
                                   Complete, TERMINAL_STATUSES
  <2> QED BY <1>0, <1>2, <2>1, DedupEffect DEF Complete, Stages
<1>3. ASSUME NEW b \in Alerts, NEW s \in Stages, NEW status \in Statuses, RowWrite(b, s, status)
      PROVE  /\ Complete(r, a, "ingest") => Complete(r, a, "ingest")'
             /\ st[r][a]["dedup"] # "none" => st'[r][a]["dedup"] = st[r][a]["dedup"]
             /\ st[r][a]["judgment"] = "done" =>
                  st'[r][a]["judgment"] = "done" /\ bundle'[r][a] = bundle[r][a]
  <2>1. \A q \in Stages : st'[r][a][q] = IF r = run /\ a = b /\ q = s THEN status ELSE st[r][a][q]
    BY <1>0, <1>3, RecordStageEffect DEF RowWrite
  <2>2. s = "judgment" => st[run][b]["judgment"] # "done"
    BY <1>3 DEF LifecycleInv, ChainInv, TodoAdmitted, Admitted, RowWrite, Complete,
                TERMINAL_STATUSES
  <2>3. pc = "evidence" => st[run][b]["judgment"] = "none"
    BY <1>3 DEF LifecycleInv, ChainInv, TodoAdmitted, Admitted, RowWrite
  <2>4. ~(r = run /\ a = b /\ pc = "evidence") => bundle'[r][a] = bundle[r][a]
    BY <1>3 DEF RowWrite
  <2>5. s = "ingest" => ~Complete(run, b, "ingest")
    BY <1>3 DEF RowWrite
  <2>6. s # "dedup"
    BY <1>3 DEF RowWrite
  <2> QED BY <2>1, <2>2, <2>3, <2>4, <2>5, <2>6 DEF Complete, Stages
<1> QED BY <1>0, <1>1, <1>2, <1>3, StepsByRow

-----------------------------------------------------------------------------
(* Under one run id: whose verdicts are in the table.                       *)

\* Every verdict is about an alert of the run; an inherited one belongs to a
\* suppressed alert; one the validator agreed with to a judged alert, whose
\* bundle does not prove a call path where the verdict would dismiss it.
VerdictsOfTheRun ==
  \A r \in Runs, a \in Alerts :
    verdict[a] # NoVerdict =>
      /\ Complete(r, a, "ingest")
      /\ verdict[a].by = "inheritance" => st[r][a]["dedup"] = "skipped"
      /\ verdict[a].validated = "agreed" =>
           /\ st[r][a]["judgment"] = "done"
           /\ verdict[a].closable => bundle[r][a].kind # "proven"

\* Where the rows of the cluster table come from: a member is suppressed and a
\* canonical selected, each in one cluster, and no suppressed alert is without
\* a cluster that has a canonical.
Membership ==
  \A r \in Runs, a \in Alerts :
    /\ \A c \in ClusterIds : cluster[c][a] = "member" => st[r][a]["dedup"] = "skipped"
    /\ \A c \in ClusterIds : cluster[c][a] = "canonical" => st[r][a]["dedup"] = "done"
    /\ \A c, d \in ClusterIds : cluster[c][a] # "none" /\ cluster[d][a] # "none" => c = d
    /\ st[r][a]["dedup"] = "skipped" =>
         \E c \in ClusterIds, b \in Alerts : cluster[c][a] = "member" /\ cluster[c][b] = "canonical"

\* Inheritance walks over rows of members.
RowsAreMembers ==
  pc = "propagate" => \A c \in ClusterIds, a \in Alerts : <<c, a>> \in rows => cluster[c][a] = "member"

\* The verdict of a is a copy of that of b, where b has one.
Copied(a, b) ==
  verdict[b] # NoVerdict =>
    /\ verdict[a] # NoVerdict
    /\ verdict[a].by = "inheritance"
    /\ verdict[a].about = verdict[b].about
    /\ verdict[a].closable = verdict[b].closable

\* A member whose row inheritance has passed carries its canonical's document.
Inherited ==
  AgentsOn /\ pc \in {"propagate", "validate", "emit"} =>
    \A a \in Alerts, c \in ClusterIds :
      cluster[c][a] = "member" /\ ~(pc = "propagate" /\ <<c, a>> \in rows) =>
        \E b \in Canonicals(c) : Copied(a, b)

LEMMA VerdictsStep ==
  ASSUME OneRun, LifecycleInv, VerdictsOfTheRun, Membership, RowsAreMembers, [Next]_vars
  PROVE  VerdictsOfTheRun'
<1>0. TypeOK
  BY DEF LifecycleInv, ChainInv
<1> SUFFICES ASSUME NEW r \in Runs, NEW a \in Alerts, verdict'[a] # NoVerdict
             PROVE  /\ Complete(r, a, "ingest")'
                    /\ verdict'[a].by = "inheritance" => st'[r][a]["dedup"] = "skipped"
                    /\ verdict'[a].validated = "agreed" =>
                         /\ st'[r][a]["judgment"] = "done"
                         /\ verdict'[a].closable => bundle'[r][a].kind # "proven"
  BY DEF VerdictsOfTheRun
<1>1. CASE verdict'[a] = verdict[a]
  BY <1>1, DecisionsStay DEF VerdictsOfTheRun
<1>2. ASSUME NEW v \in Verdicts, Put(a, v)
      PROVE  verdict'[a] = v
  BY <1>0, <1>2, PutEffect
<1>3. ASSUME NEW b \in Alerts, NEW v \in Verdicts, Put(b, v), verdict'[a] # verdict[a]
      PROVE  a = b
  BY <1>0, <1>3, PutEffect
<1>4. pc # "idle" => run = r
  BY <1>0 DEF OneRun, TypeOK
<1>5. /\ st[r][a]["policy"] # "none"   => Complete(r, a, "ingest")
      /\ st[r][a]["dedup"] # "none"    => st[r][a]["policy"] = "done"
      /\ st[r][a]["evidence"] # "none" => st[r][a]["dedup"] = "done"
      /\ st[r][a]["judgment"] # "none" => st[r][a]["evidence"] = "done"
  BY DEF LifecycleInv, ChainInv, StageChain
<1>6. CASE Replay(a)
  BY <1>0, <1>4, <1>6, VerdictWritten DEF VerdictsOfTheRun
<1>7. CASE RuleMatches(a)
  <2>1. PICK v \in Verdicts : Put(a, v) /\ pc = "policy" /\ a \in todo
                              /\ v.by = "policy" /\ v.validated = "null"
    BY <1>0, <1>7, VerdictWritten
  <2>2. Complete(r, a, "ingest")
    BY <1>4, <2>1 DEF LifecycleInv, ChainInv, TodoAdmitted, Admitted
  <2> QED BY <1>2, <2>1, <2>2, DecisionsStay
<1>8. CASE Judge(a)
  <2>1. PICK v \in Verdicts : Put(a, v) /\ pc = "judgment" /\ a \in todo
                              /\ v.by = "judgment" /\ v.validated = "null"
    BY <1>0, <1>8, VerdictWritten
  <2>2. Complete(r, a, "ingest")
    BY <1>4, <1>5, <2>1 DEF LifecycleInv, ChainInv, TodoAdmitted, Admitted
  <2> QED BY <1>2, <2>1, <2>2, DecisionsStay
<1>9. CASE RejectMechanically(a) \/ ValidatorUnavailable(a) \/ ValidatorAnswers(a)
  <2>1. PICK v \in Verdicts : /\ Put(a, v) /\ pc = "validate" /\ a \in todo
                              /\ verdict[a] # NoVerdict
                              /\ v.by = verdict[a].by /\ v.about = verdict[a].about
                              /\ v.closable = verdict[a].closable
                              /\ v.validated = "agreed" => ~Contradicted(a)
    BY <1>0, <1>9, VerdictWritten
  <2>2. Complete(r, a, "ingest") /\ st[r][a]["judgment"] = "done"
    BY <1>4, <1>5, <2>1 DEF LifecycleInv, ChainInv, TodoAdmitted, Admitted
  <2>3. verdict[a].by = "inheritance" => st[r][a]["dedup"] = "skipped"
    BY <2>1 DEF VerdictsOfTheRun
  <2>4. v.validated = "agreed" /\ v.closable => bundle[r][a].kind # "proven"
    BY <1>4, <2>1 DEF Contradicted
  <2> QED BY <1>2, <2>1, <2>2, <2>3, <2>4, DecisionsStay
<1>10. ASSUME NEW c \in ClusterIds, Inherit(c, a)
       PROVE  /\ Complete(r, a, "ingest")'
              /\ verdict'[a].by = "inheritance" => st'[r][a]["dedup"] = "skipped"
              /\ verdict'[a].validated = "agreed" =>
                   /\ st'[r][a]["judgment"] = "done"
                   /\ verdict'[a].closable => bundle'[r][a].kind # "proven"
  <2>1. PICK v \in Verdicts : Put(a, v) /\ pc = "propagate" /\ <<c, a>> \in rows
                              /\ v.validated = "null"
    BY <1>0, <1>10, VerdictWritten
  <2>2. st[r][a]["dedup"] = "skipped"
    BY <1>10, <2>1 DEF RowsAreMembers, Membership
  <2> QED BY <1>2, <1>5, <2>1, <2>2, DecisionsStay
<1> QED BY <1>0, <1>1, <1>3, <1>6, <1>7, <1>8, <1>9, <1>10, StepsByVerdict, VerdictWritten
-----------------------------------------------------------------------------
(* Under one run id: clusters and inheritance.                              *)

\* One transaction of the dedup stage, cluster by cluster: an alert that joins
\* another one's cluster finds that one there as the canonical.
LEMMA GroupingEffect ==
  ASSUME NEW canon \in Groupings(todo, AgentsOn), todo \subseteq Alerts, NEW a \in todo, canon[a] # a
  PROVE  /\ canon[a] \in todo /\ canon[canon[a]] = canon[a]
         /\ a \in Clustered(todo, canon) /\ canon[a] \in Clustered(todo, canon)
         /\ ClusterId(todo, canon, a) \in ClusterIds
         /\ ClusterId(todo, canon, canon[a]) = ClusterId(todo, canon, a)
<1> DEFINE b == canon[a]
<1>1. b \in todo /\ canon[b] = b /\ a \in Alerts /\ b \in Alerts
  BY DEF Groupings
<1>2. a \in Clustered(todo, canon) /\ b \in Clustered(todo, canon)
  BY <1>1 DEF Clustered
<1>3. \/ UpgradePath[b] = UpgradePath[a]
      \/ ~Trivial(todo, a) /\ ~Trivial(todo, b)
  BY DEF Groupings
<1>4. Trivial(todo, a) <=> Trivial(todo, b)
  BY <1>1, <1>3 DEF Trivial
<1>5. Trivial(todo, a) => UpgradePath[b] = UpgradePath[a]
  BY <1>3
<1>6. ClusterId(todo, canon, b) = ClusterId(todo, canon, a)
  BY <1>1, <1>4, <1>5 DEF ClusterId
<1>7. ClusterId(todo, canon, a) \in ClusterIds
  BY <1>1 DEF ClusterId, ClusterIds
<1> QED BY <1>1, <1>2, <1>6, <1>7

LEMMA MembershipStep ==
  ASSUME OneRun, LifecycleInv, Membership, [Next]_vars
  PROVE  Membership'
<1>0. TypeOK
  BY DEF LifecycleInv, ChainInv
<1>1. CASE UNCHANGED cluster /\ ~Dedup
  <2> SUFFICES ASSUME NEW r \in Runs, NEW a \in Alerts
               PROVE  st'[r][a]["dedup"] = st[r][a]["dedup"]
    BY <1>1 DEF Membership
  <2>1. CASE UNCHANGED st
    BY <2>1
  <2>2. ASSUME NEW b \in Alerts, NEW s \in Stages, NEW status \in Statuses, RowWrite(b, s, status)
        PROVE  st'[r][a]["dedup"] = st[r][a]["dedup"]
    BY <1>0, <2>2, RecordStageEffect DEF RowWrite, Stages
  <2> QED BY <1>0, <1>1, <2>1, <2>2, StepsByRow
<1>2. CASE Dedup
  <2>0. run \in Runs /\ todo \subseteq Alerts /\ pc = "dedup"
    BY <1>0, <1>2, DedupEffect DEF TypeOK
  <2>1. PICK canon \in Groupings(todo, AgentsOn) :
          /\ cluster' = [c \in ClusterIds |-> [a \in Alerts |->
                           IF a \in Clustered(todo, canon) /\ c = ClusterId(todo, canon, a)
                           THEN IF canon[a] = a THEN "canonical" ELSE "member"
                           ELSE cluster[c][a]]]
          /\ st' = [st EXCEPT ![run] = [a \in Alerts |->
                      IF a \in todo
                      THEN [st[run][a] EXCEPT !["dedup"] = IF canon[a] = a THEN "done" ELSE "skipped"]
                      ELSE st[run][a]]]
    BY <1>2 DEF Dedup, ClusterRows, DedupStatus
  <2>2. \A a \in Alerts :
          st'[run][a]["dedup"] = IF a \in todo THEN IF canon[a] = a THEN "done" ELSE "skipped"
                                 ELSE st[run][a]["dedup"]
    BY <1>0, <2>0, <2>1 DEF TypeOK, Stages
  <2>3. \A c \in ClusterIds, a \in Alerts :
          cluster'[c][a] = IF a \in Clustered(todo, canon) /\ c = ClusterId(todo, canon, a)
                           THEN IF canon[a] = a THEN "canonical" ELSE "member"
                           ELSE cluster[c][a]
    BY <2>1
  <2>4. Clustered(todo, canon) \subseteq todo
    BY DEF Clustered
  <2>5. \A a \in todo : st[run][a]["dedup"] = "none"
    BY <1>0, <2>0 DEF LifecycleInv, RowStatuses, ChainInv, TodoAdmitted, Admitted,
                      Complete, TERMINAL_STATUSES
  <2>6. \A a \in todo, c \in ClusterIds : cluster[c][a] = "none"
    <3>1. \A a \in todo, c \in ClusterIds : cluster[c][a] \in {"none", "member", "canonical"}
      BY <1>0, <2>0 DEF TypeOK
    <3> QED BY <2>0, <2>5, <3>1 DEF Membership
  <2> SUFFICES ASSUME NEW r \in Runs, NEW a \in Alerts
               PROVE  /\ \A c \in ClusterIds :
                           cluster'[c][a] = "member" => st'[r][a]["dedup"] = "skipped"
                      /\ \A c \in ClusterIds :
                           cluster'[c][a] = "canonical" => st'[r][a]["dedup"] = "done"
                      /\ \A c, d \in ClusterIds :
                           cluster'[c][a] # "none" /\ cluster'[d][a] # "none" => c = d
                      /\ st'[r][a]["dedup"] = "skipped" =>
                           \E c \in ClusterIds, b \in Alerts :
                             cluster'[c][a] = "member" /\ cluster'[c][b] = "canonical"
    BY DEF Membership
  <2>7. r = run
    BY <2>0 DEF OneRun
  <2>8. CASE a \in todo
    <3>1. \A c \in ClusterIds :
            cluster'[c][a] # "none" =>
              /\ c = ClusterId(todo, canon, a)
              /\ cluster'[c][a] = IF canon[a] = a THEN "canonical" ELSE "member"
      BY <2>3, <2>6, <2>8
    <3>2. ASSUME canon[a] # a
          PROVE  \E c \in ClusterIds, b \in Alerts :
                   cluster'[c][a] = "member" /\ cluster'[c][b] = "canonical"
      <4>1. /\ canon[a] \in todo /\ canon[canon[a]] = canon[a]
            /\ a \in Clustered(todo, canon) /\ canon[a] \in Clustered(todo, canon)
            /\ ClusterId(todo, canon, a) \in ClusterIds
            /\ ClusterId(todo, canon, canon[a]) = ClusterId(todo, canon, a)
        BY <2>0, <2>8, <3>2, GroupingEffect
      <4>2. cluster'[ClusterId(todo, canon, a)][a] = "member"
        BY <2>3, <3>2, <4>1
      <4>3. cluster'[ClusterId(todo, canon, a)][canon[a]] = "canonical"
        BY <2>0, <2>3, <4>1
      <4> QED BY <2>0, <4>1, <4>2, <4>3
    <3> QED BY <2>2, <2>7, <2>8, <3>1, <3>2
  <2>9. CASE a \notin todo
    <3>1. /\ st'[r][a]["dedup"] = st[r][a]["dedup"]
          /\ \A c \in ClusterIds : cluster'[c][a] = cluster[c][a]
      BY <2>2, <2>3, <2>4, <2>7, <2>9
    <3>2. \A c \in ClusterIds, b \in Alerts :
            cluster[c][b] = "canonical" => cluster'[c][b] = "canonical"
      BY <2>3, <2>4, <2>6
    <3> QED BY <3>1, <3>2 DEF Membership
  <2> QED BY <2>8, <2>9
<1> QED BY <1>1, <1>2, StepsByVerdict

LEMMA RowsStep ==
  ASSUME TypeOK, RowsAreMembers, [Next]_vars
  PROVE  RowsAreMembers'
<1>1. CASE NextStage
  <2>1. /\ UNCHANGED cluster /\ pc' = Following
        /\ Following = "propagate" =>
             rows' = {ca \in ClusterIds \X Alerts : cluster[ca[1]][ca[2]] = "member"}
    BY <1>1 DEF NextStage, db
  <2> QED BY <2>1 DEF RowsAreMembers
<1>2. CASE CheckShallow
  BY <1>2 DEF CheckShallow, RowsAreMembers
<1>3. CASE UNCHANGED <<pc, run, mode, batch>> /\ todo' \subseteq todo /\ rows' \subseteq rows
  BY <1>3, StepsByVerdict, DedupEffect DEF RowsAreMembers
<1> QED BY <1>1, <1>2, <1>3, StepsByPlace DEF RowsAreMembers

\* A row of the cluster table is passed by inheriting over it or by finding
\* nothing to inherit.
LEMMA RowsShrink ==
  ASSUME [Next]_vars, NEW c \in ClusterIds, NEW a \in Alerts,
         <<c, a>> \in rows, <<c, a>> \notin rows', pc' = pc
  PROVE  Inherit(c, a) \/ NothingToInherit(c, a)
<1>1. ASSUME NEW d \in Alerts,
             \/ SkipIngested(d) \/ IngestFails(d) \/ Replay(d) \/ Ingest(d)
             \/ NoRuleMatches(d) \/ RuleMatches(d) \/ NoAdapter(d) \/ Measure(d)
             \/ Requeue(d) \/ Defer(d) \/ Judge(d) \/ RejectMechanically(d)
             \/ ValidatorUnavailable(d) \/ ValidatorAnswers(d)
             \/ KeepOpen(d) \/ DismissalFails(d) \/ Dismiss(d) \/ RecordDismissal(d)
      PROVE  UNCHANGED rows
  BY <1>1 DEF SkipIngested, IngestFails, Replay, Ingest, NoRuleMatches, RuleMatches, NoAdapter,
              Measure, Requeue, Defer, Judge, RejectMechanically, ValidatorUnavailable,
              ValidatorAnswers, Settle, KeepOpen, DismissalFails, Dismiss, RecordDismissal
<1>2. ASSUME \/ \E r \in Runs, m \in Modes : Begin(r, m)
             \/ TakeSnapshot \/ CheckShallow \/ Finish \/ Dedup \/ UNCHANGED vars
      PROVE  UNCHANGED rows
  BY <1>2 DEF Begin, TakeSnapshot, CheckShallow, Finish, Dedup, vars, process
<1>3. ~Stop /\ ~NextStage
  BY DEF Stop, NextStage
<1>4. ASSUME NEW e \in ClusterIds, NEW d \in Alerts, Inherit(e, d) \/ NothingToInherit(e, d)
      PROVE  e = c /\ d = a
  BY <1>4 DEF Inherit, NothingToInherit
<1> QED BY <1>1, <1>2, <1>3, <1>4 DEF Next, Step, Rest

LEMMA InheritedStep ==
  ASSUME OneRun, LifecycleInv, Membership, RowsAreMembers, Inherited, [Next]_vars
  PROVE  Inherited'
<1>0. TypeOK
  BY DEF LifecycleInv, ChainInv
<1> SUFFICES ASSUME AgentsOn', pc' \in {"propagate", "validate", "emit"},
                    NEW a \in Alerts, NEW c \in ClusterIds, cluster'[c][a] = "member",
                    ~(pc' = "propagate" /\ <<c, a>> \in rows')
             PROVE  \E b \in Canonicals(c)' : Copied(a, b)'
  BY DEF Inherited
<1>1. CASE NextStage
  <2>1. /\ UNCHANGED <<cluster, verdict, mode>> /\ pc' = Following /\ rows = {}
        /\ pc' = "propagate" =>
             rows' = {ca \in ClusterIds \X Alerts : cluster[ca[1]][ca[2]] = "member"}
        /\ pc \notin {"idle", "start", "emit"}
    BY <1>1 DEF NextStage, db
  <2>2. pc' # "propagate"
    BY <2>1
  <2>3. pc \in {"propagate", "validate"}
    BY <1>0, <2>1, <2>2 DEF Following, AgentsOn, TypeOK, Places, Stages
  <2>4. PICK b \in Canonicals(c) : Copied(a, b)
    BY <2>1, <2>3 DEF Inherited, AgentsOn
  <2> QED BY <2>1, <2>4 DEF Canonicals, Copied
<1>2. CASE CheckShallow
  BY <1>2 DEF CheckShallow
<1>3. CASE UNCHANGED <<pc, run, mode, batch>> /\ todo' \subseteq todo /\ rows' \subseteq rows
  <2>0. run \in Runs
    BY <1>0, <1>3 DEF TypeOK
  <2>1. UNCHANGED cluster /\ Canonicals(c)' = Canonicals(c)
    BY <1>0, <1>3, StepsByVerdict, DedupEffect DEF Canonicals
  <2> SUFFICES \E b \in Canonicals(c) : Copied(a, b)'
    BY <2>1
  <2>2. st[run][a]["dedup"] = "skipped"
    BY <2>0, <2>1 DEF Membership
  <2>3. \A b \in Canonicals(c) : b \in Alerts /\ b # a /\ st[run][b]["dedup"] = "done"
    BY <2>0, <2>1, <2>2 DEF Membership, Canonicals
  <2>4. ASSUME ~(pc = "propagate" /\ <<c, a>> \in rows)
        PROVE  \E b \in Canonicals(c) : Copied(a, b)
    BY <1>3, <2>1, <2>4 DEF Inherited, AgentsOn
  <2>5. CASE UNCHANGED verdict /\ ~(pc = "propagate" /\ <<c, a>> \in rows)
    BY <2>1, <2>4, <2>5 DEF Copied
  <2>6. CASE NothingToInherit(c, a)
    <3>1. Canonicals(c) # {}
      BY <2>0, <2>1, <2>2 DEF Membership, Canonicals
    <3>2. PICK b \in Canonicals(c) : verdict[b] = NoVerdict
      BY <2>6, <3>1 DEF NothingToInherit
    <3>3. UNCHANGED verdict
      BY <2>6 DEF NothingToInherit, db
    <3> QED BY <2>1, <3>2, <3>3 DEF Copied
  <2>7. ASSUME NEW d \in Alerts, Replay(d) \/ RuleMatches(d) \/ Judge(d)
        PROVE  FALSE
    BY <1>0, <1>3, <2>7, VerdictWritten
  <2>8. ASSUME NEW d \in Alerts,
               RejectMechanically(d) \/ ValidatorUnavailable(d) \/ ValidatorAnswers(d)
        PROVE  \E b \in Canonicals(c) : Copied(a, b)'
    <3>1. PICK v \in Verdicts : /\ Put(d, v) /\ pc = "validate" /\ d \in todo
                                /\ verdict[d] # NoVerdict
                                /\ v.about = verdict[d].about /\ v.closable = verdict[d].closable
      BY <1>0, <2>8, VerdictWritten
    <3>2. st[run][d]["judgment"] = "done"
      BY <3>1 DEF LifecycleInv, ChainInv, TodoAdmitted, Admitted
    <3>3. d # a
      BY <2>0, <2>2, <3>2 DEF LifecycleInv, ChainInv, StageChain
    <3>4. PICK b \in Canonicals(c) : Copied(a, b)
      BY <2>4, <3>1
    <3>5. verdict'[a] = verdict[a]
          /\ (b # d => verdict'[b] = verdict[b]) /\ (b = d => verdict'[b] = v)
      BY <1>0, <2>3, <3>1, <3>3, PutEffect
    <3> QED BY <3>1, <3>4, <3>5 DEF Copied
  <2>9. ASSUME NEW e \in ClusterIds, NEW d \in Alerts, Inherit(e, d)
        PROVE  \E b \in Canonicals(c) : Copied(a, b)'
    <3>1. PICK v \in Verdicts, o \in Canonicals(e) :
            /\ Put(d, v) /\ pc = "propagate" /\ <<e, d>> \in rows /\ verdict[o] # NoVerdict
            /\ rows' = rows \ {<<e, d>>}
            /\ v.by = "inheritance" /\ v.about = verdict[o].about
            /\ v.closable = verdict[o].closable
      BY <1>0, <2>9, VerdictWritten
    <3>2. cluster[e][d] = "member" /\ st[run][d]["dedup"] = "skipped"
      BY <2>0, <3>1 DEF RowsAreMembers, Membership
    <3>3. \A b \in Canonicals(c) : verdict'[b] = verdict[b]
      BY <1>0, <2>3, <3>1, <3>2, PutEffect
    <3>4. CASE d = a
      <4>1. e = c
        BY <2>0, <2>1, <3>2, <3>4 DEF Membership
      <4>2. verdict'[a] = v /\ v # NoVerdict
        BY <1>0, <3>1, <3>4, PutEffect, PipelineAssumption
      <4> QED BY <3>1, <3>3, <4>1, <4>2 DEF Copied
    <3>5. CASE d # a
      <4>1. verdict'[a] = verdict[a]
        BY <1>0, <3>1, <3>5, PutEffect
      <4>2. PICK b \in Canonicals(c) : Copied(a, b)
        BY <1>3, <2>4, <3>1, <3>5
      <4> QED BY <3>3, <4>1, <4>2 DEF Copied
    <3> QED BY <3>4, <3>5
  <2>10. CASE pc = "propagate" /\ <<c, a>> \in rows
    <3>1. c \in ClusterIds /\ <<c, a>> \notin rows' /\ pc' = pc
      BY <1>3, <2>10
    <3>2. Inherit(c, a) \/ NothingToInherit(c, a)
      BY <2>10, <3>1, RowsShrink
    <3> QED BY <2>6, <2>9, <3>2
  <2> QED BY <2>1, <2>5, <2>7, <2>8, <2>9, <2>10, StepsByVerdict
<1> QED BY <1>1, <1>2, <1>3, StepsByPlace

-----------------------------------------------------------------------------
(* Under one run id: the three properties.                                  *)

RunInv ==
  /\ LifecycleInv /\ VerdictsOfTheRun /\ Membership /\ RowsAreMembers /\ Inherited

LEMMA RunInvAlways == OneRun => (Spec => []RunInv)
<1> SUFFICES ASSUME OneRun PROVE Spec => []RunInv
  OBVIOUS
<1>1. Init => RunInv
  <2> SUFFICES ASSUME Init PROVE RunInv
    OBVIOUS
  <2>1. LifecycleInv
    BY LifecycleInvInit
  <2>2. VerdictsOfTheRun
    BY DEF Init, VerdictsOfTheRun
  <2>3. Membership
    BY DEF Init, Membership, Stages
  <2> QED BY <2>1, <2>2, <2>3 DEF Init, RunInv, RowsAreMembers, Inherited
<1>2. LifecycleInv /\ [Next]_vars => LifecycleInv'
  BY ChainStep, RowStatusesStep, UncheckedStep DEF LifecycleInv, ChainInv
<1>3. RunInv /\ [Next]_vars => RunInv'
  BY <1>2, VerdictsStep, MembershipStep, RowsStep, InheritedStep DEF RunInv, LifecycleInv, ChainInv
<1> QED BY <1>1, <1>3, PTL DEF Spec

\* Under one run id, killed and resumed anywhere, a validator's agreement is
\* never on an inherited verdict: only a suppressed alert inherits, and only a
\* judged one is shown to the validator.
THEOREM InheritedUnconfirmed ==
  ASSUME OneRun
  PROVE  Spec => []InheritedNeverConfirmed
<1>1. RunInv => InheritedNeverConfirmed
  <2> SUFFICES ASSUME RunInv, NEW a \in Alerts, verdict[a] # NoVerdict,
                      verdict[a].by = "inheritance", verdict[a].validated = "agreed"
               PROVE  FALSE
    BY DEF InheritedNeverConfirmed
  <2>1. verdict[a].run \in Runs
    BY DEF RunInv, LifecycleInv, ChainInv, TypeOK, Verdicts
  <2>2. PICK r \in Runs : TRUE
    BY <2>1
  <2>3. st[r][a]["dedup"] = "skipped" /\ st[r][a]["judgment"] = "done"
    BY DEF RunInv, VerdictsOfTheRun
  <2> QED BY <2>3 DEF RunInv, LifecycleInv, ChainInv, StageChain
<1> QED BY <1>1, RunInvAlways, PTL

\* Under one run id, once inheritance has run, every suppressed alert whose
\* canonical has a verdict carries that document, whatever the passes before
\* clustered, judged or rejected.
THEOREM SuppressedAlike ==
  ASSUME OneRun
  PROVE  Spec => []SuppressedInherits
<1>1. RunInv => SuppressedInherits
  <2> SUFFICES ASSUME RunInv, pc \in {"validate", "emit"}, AgentsOn,
                      NEW a \in Alerts, st[run][a]["dedup"] = "skipped"
               PROVE  \E c \in ClusterIds, b \in Alerts :
                        /\ cluster[c][a] = "member" /\ cluster[c][b] = "canonical"
                        /\ Copied(a, b)
    BY DEF SuppressedInherits, Copied
  <2>1. run \in Runs
    BY DEF RunInv, LifecycleInv, ChainInv, TypeOK
  <2>2. PICK c \in ClusterIds : cluster[c][a] = "member"
    BY <2>1 DEF RunInv, Membership
  <2>3. PICK b \in Canonicals(c) : Copied(a, b)
    BY <2>2 DEF RunInv, Inherited
  <2> QED BY <2>2, <2>3 DEF Canonicals
<1> QED BY <1>1, RunInvAlways, PTL

\* Under one run id and a gate that requires agreement, no alert is dismissed
\* while the evidence of the run proves a call path to it: the validator's
\* mechanical check has seen the bundle, which is not replaced after.
THEOREM ProofsBlock ==
  ASSUME OneRun
  PROVE  Spec => ProofBlocksDismissal
<1> DEFINE Unproven ==
      \A a \in Alerts :
        calls'[a] > calls[a] /\ RequireAgreement => bundle[run][a].kind # "proven"
<1>1. ASSUME RunInv, [Next]_vars PROVE [Unproven]_vars
  <2> SUFFICES ASSUME NEW a \in Alerts, calls'[a] > calls[a], RequireAgreement
               PROVE  bundle[run][a].kind # "proven"
    OBVIOUS
  <2>1. calls \in [Alerts -> Nat] /\ (pc # "idle" => run \in Runs)
    BY <1>1 DEF RunInv, LifecycleInv, ChainInv, TypeOK
  <2>2. PICK b \in Alerts : Dismiss(b)
    BY <1>1, <2>1, OnlyDismissCalls
  <2>3. b = a /\ pc = "emit" /\ a \in todo /\ GateOpen(verdict[a])
    BY <2>1, <2>2 DEF Dismiss
  <2>4. verdict[a] # NoVerdict
    BY <1>1, <2>3 DEF RunInv, LifecycleInv, ChainInv, TodoAdmitted, Admitted
  <2>5. verdict[a].closable /\ verdict[a].validated = "agreed"
    BY <2>3 DEF GateOpen
  <2> QED BY <1>1, <2>1, <2>3, <2>4, <2>5 DEF RunInv, VerdictsOfTheRun
<1> QED BY <1>1, RunInvAlways, PTL DEF Spec, ProofBlocksDismissal

-----------------------------------------------------------------------------
(* Where every run is invoked once and ends by itself: dismissals.          *)

\* A run that was never begun has no emit row, and neither has an alert the
\* run under way has still to emit.
EmitFresh ==
  /\ \A r \in Runs, a \in Alerts : runStatus[r] = "none" => st[r][a]["emit"] = "none"
  /\ pc # "idle" =>
       /\ runStatus[run] # "none"
       /\ \A a \in Alerts : pc # "emit" \/ a \in todo => st[run][a]["emit"] = "none"

\* An alert GitHub dismissed is the one being closed or has a row that says so.
Marked ==
  /\ \A a \in Alerts : calls[a] <= 1 /\ (calls[a] # 0 => a \in closing \/ AlreadyDismissed(a))
  /\ \A a, b \in closing : a = b
  /\ closing \subseteq todo
  /\ closing # {} => pc = "emit"

\* The status of a run changes where a pass begins or ends.
LEMMA StepsByStatus ==
  ASSUME TypeOK, [Next]_vars, ~MayStop
  PROVE  \/ UNCHANGED <<runStatus, run>> /\ (pc = "idle" <=> pc' = "idle")
         \/ Finish \/ \E r \in Runs, m \in Modes : Begin(r, m)
<1>1. ASSUME NEW a \in Alerts,
             \/ SkipIngested(a) \/ IngestFails(a) \/ Replay(a) \/ Ingest(a)
             \/ NoRuleMatches(a) \/ RuleMatches(a) \/ NoAdapter(a) \/ Measure(a)
             \/ Requeue(a) \/ Defer(a) \/ Judge(a) \/ RejectMechanically(a)
             \/ ValidatorUnavailable(a) \/ ValidatorAnswers(a)
             \/ KeepOpen(a) \/ DismissalFails(a) \/ Dismiss(a) \/ RecordDismissal(a)
      PROVE  UNCHANGED <<runStatus, run, pc>>
  BY <1>1 DEF SkipIngested, IngestFails, Replay, Ingest, NoRuleMatches, RuleMatches, NoAdapter,
              Measure, Requeue, Defer, Judge, RejectMechanically, ValidatorUnavailable,
              ValidatorAnswers, Settle, KeepOpen, DismissalFails, Dismiss, RecordDismissal, db
<1>2. ASSUME \/ TakeSnapshot \/ CheckShallow \/ Dedup \/ UNCHANGED vars
             \/ \E c \in ClusterIds, a \in Alerts : Inherit(c, a) \/ NothingToInherit(c, a)
      PROVE  UNCHANGED <<runStatus, run>> /\ (pc = "idle" <=> pc' = "idle")
  BY <1>2 DEF TakeSnapshot, CheckShallow, Dedup, Inherit, NothingToInherit, vars, process, db
<1>3. NextStage => UNCHANGED <<runStatus, run>> /\ (pc = "idle" <=> pc' = "idle")
  BY DEF NextStage, Following, TypeOK, Places, Stages, db
<1>4. ~Stop
  BY DEF Stop
<1> QED BY <1>1, <1>2, <1>3, <1>4 DEF Next, Step, Rest

\* The emit stage alone dismisses alerts and writes rows that say so.
LEMMA StepsOfEmit ==
  ASSUME TypeOK, [Next]_vars, ~MayStop
  PROVE  /\ pc # "emit" => UNCHANGED <<mark, closing, calls>>
         /\ pc = "emit" =>
              \/ Finish \/ UNCHANGED vars
              \/ \E a \in Alerts :
                   KeepOpen(a) \/ DismissalFails(a) \/ Dismiss(a) \/ RecordDismissal(a)
<1>1. ASSUME NEW a \in Alerts,
             \/ SkipIngested(a) \/ IngestFails(a) \/ Replay(a) \/ Ingest(a)
             \/ NoRuleMatches(a) \/ RuleMatches(a) \/ NoAdapter(a) \/ Measure(a)
             \/ Requeue(a) \/ Defer(a) \/ Judge(a) \/ RejectMechanically(a)
             \/ ValidatorUnavailable(a) \/ ValidatorAnswers(a)
      PROVE  pc # "emit" /\ UNCHANGED <<mark, closing, calls>>
  BY <1>1 DEF SkipIngested, IngestFails, Replay, Ingest, NoRuleMatches, RuleMatches, NoAdapter,
              Measure, Requeue, Defer, Judge, RejectMechanically, ValidatorUnavailable,
              ValidatorAnswers, Validating, Settle, db
<1>2. ASSUME \/ TakeSnapshot \/ CheckShallow \/ Dedup \/ NextStage
             \/ \E c \in ClusterIds, a \in Alerts : Inherit(c, a) \/ NothingToInherit(c, a)
             \/ \E r \in Runs, m \in Modes : Begin(r, m)
      PROVE  pc # "emit" /\ UNCHANGED <<mark, closing, calls>>
  BY <1>2 DEF TakeSnapshot, CheckShallow, Dedup, NextStage, Inherit, NothingToInherit, Begin, db
<1>3. ASSUME NEW a \in Alerts,
             KeepOpen(a) \/ DismissalFails(a) \/ Dismiss(a) \/ RecordDismissal(a)
      PROVE  pc = "emit"
  BY <1>3 DEF KeepOpen, DismissalFails, Dismiss, RecordDismissal
<1>4. /\ Finish => pc = "emit"
      /\ UNCHANGED vars => UNCHANGED <<mark, closing, calls>>
      /\ ~Stop
  BY DEF Finish, Stop, vars, db, process
<1> QED BY <1>1, <1>2, <1>3, <1>4 DEF Next, Step, Rest

LEMMA EmitFreshStep ==
  ASSUME TypeOK, EmitFresh, [Next]_vars, ~MayStop, ~MayResume
  PROVE  EmitFresh'
<1>0. pc # "idle" => run \in Runs
  BY DEF TypeOK
<1>1. ASSUME NEW r \in Runs, NEW m \in Modes, Begin(r, m) PROVE EmitFresh'
  BY <1>1 DEF Begin, EmitFresh, TypeOK
<1>2. CASE Finish
  BY <1>2 DEF Finish, EmitFresh, TypeOK
<1>3. CASE UNCHANGED <<runStatus, run>> /\ (pc = "idle" <=> pc' = "idle")
  <2>1. CASE UNCHANGED <<st, bundle>>
    <3>1. pc = "emit" => pc' = "emit" /\ todo' \subseteq todo
      BY <1>3, StepsByPlace DEF NextStage, CheckShallow, Stop, TakeSnapshot, Finish, Begin
    <3>2. pc # "idle" => \A a \in Alerts : pc' # "emit" \/ a \in todo' => st[run][a]["emit"] = "none"
      BY <3>1 DEF EmitFresh
    <3> QED BY <1>3, <2>1, <3>2 DEF EmitFresh
  <2>2. CASE Dedup
    <3>1. pc = "dedup" /\ UNCHANGED <<pc, run>>
      BY <2>2, DedupEffect
    <3>2. \A r \in Runs, a \in Alerts : st'[r][a]["emit"] = st[r][a]["emit"]
      BY <2>2, DedupEffect DEF Stages
    <3> QED BY <1>0, <1>3, <3>1, <3>2 DEF EmitFresh
  <2>3. ASSUME NEW b \in Alerts, NEW s \in Stages, NEW status \in Statuses, RowWrite(b, s, status)
        PROVE  EmitFresh'
    <3>1. run \in Runs /\ todo' = todo \ {b} /\ UNCHANGED <<pc, run>> /\ pc # "idle"
      BY <2>3 DEF RowWrite, TypeOK
    <3>2. \A r \in Runs, a \in Alerts :
            st'[r][a]["emit"] = IF r = run /\ a = b /\ s = "emit" THEN status
                                ELSE st[r][a]["emit"]
      BY <2>3, <3>1, RecordStageEffect DEF RowWrite, Stages
    <3>3. s = "emit" => pc = "emit"
      BY <2>3 DEF RowWrite
    <3> QED BY <1>3, <3>1, <3>2, <3>3 DEF EmitFresh
  <2> QED BY <2>1, <2>2, <2>3, StepsByRow
<1> QED BY <1>1, <1>2, <1>3, StepsByStatus

LEMMA MarkedStep ==
  ASSUME TypeOK, EmitFresh, Marked, [Next]_vars, ~MayStop
  PROVE  Marked'
<1>0. /\ calls \in [Alerts -> Nat] /\ closing \subseteq Alerts
      /\ mark \in [Runs -> [Alerts -> {"none", "dismissed", "kept"}]]
      /\ (pc # "idle" => run \in Runs)
  BY DEF TypeOK
<1>1. CASE pc # "emit"
  <2>1. UNCHANGED <<mark, closing, calls>> /\ closing = {}
    BY <1>1, StepsOfEmit DEF Marked
  <2>2. \A r \in Runs, a \in Alerts : st'[r][a]["emit"] = st[r][a]["emit"]
    <3>1. CASE Dedup
      BY <3>1, DedupEffect DEF Stages
    <3>2. ASSUME NEW b \in Alerts, NEW s \in Stages, NEW status \in Statuses,
                 RowWrite(b, s, status)
          PROVE  \A r \in Runs, a \in Alerts : st'[r][a]["emit"] = st[r][a]["emit"]
      <4>1. s # "emit" /\ run \in Runs /\ RecordStage(b, s, status)
        BY <1>1, <3>2 DEF RowWrite
      <4> QED BY <4>1, RecordStageEffect DEF Stages
    <3> QED BY <3>1, <3>2, StepsByRow
  <2> QED BY <2>1, <2>2 DEF Marked, AlreadyDismissed
<1>2. CASE Finish
  BY <1>2 DEF Finish, Marked, AlreadyDismissed
<1>3. CASE UNCHANGED vars
  BY <1>3 DEF vars, db, process, Marked, AlreadyDismissed
<1>4. ASSUME NEW a \in Alerts, KeepOpen(a) \/ DismissalFails(a) PROVE Marked'
  <2>1. /\ pc = "emit" /\ closing = {} /\ a \in todo /\ UNCHANGED <<closing, calls>>
        /\ \E status \in Statuses : RecordStage(a, "emit", status)
        /\ \A r \in Runs, b \in Alerts : ~(r = run /\ b = a) => mark'[r][b] = mark[r][b]
    BY <1>0, <1>4 DEF KeepOpen, DismissalFails, Statuses
  <2>2. st[run][a]["emit"] = "none"
    BY <2>1 DEF EmitFresh
  <2>3. \A r \in Runs, b \in Alerts :
          ~(r = run /\ b = a) => st'[r][b]["emit"] = st[r][b]["emit"]
    BY <1>0, <2>1, RecordStageEffect DEF Stages
  <2>4. \A b \in Alerts : AlreadyDismissed(b) => AlreadyDismissed(b)'
    BY <2>1, <2>2, <2>3 DEF AlreadyDismissed
  <2> QED BY <2>1, <2>4 DEF Marked
<1>5. ASSUME NEW a \in Alerts, Dismiss(a) PROVE Marked'
  <2>1. /\ pc = "emit" /\ pc' = pc /\ closing = {} /\ a \in todo /\ closing' = {a} /\ todo' = todo
        /\ ~AlreadyDismissed(a) /\ calls' = [calls EXCEPT ![a] = @ + 1]
        /\ UNCHANGED <<st, mark>>
    BY <1>5 DEF Dismiss, db
  <2>2. calls[a] = 0
    BY <2>1 DEF Marked
  <2>3. \A b \in Alerts : calls'[b] = IF b = a THEN 1 ELSE calls[b]
    BY <1>0, <2>1, <2>2
  <2>4. \A b \in Alerts : AlreadyDismissed(b) => AlreadyDismissed(b)'
    BY <2>1 DEF AlreadyDismissed
  <2> QED BY <2>1, <2>3, <2>4 DEF Marked
<1>6. ASSUME NEW a \in Alerts, RecordDismissal(a) PROVE Marked'
  <2>1. /\ run \in Runs /\ a \in closing /\ closing' = {} /\ UNCHANGED calls
        /\ RecordStage(a, "emit", "done")
        /\ mark' = [mark EXCEPT ![run][a] = "dismissed"]
    BY <1>0, <1>6 DEF RecordDismissal
  <2>2. \A r \in Runs, b \in Alerts :
          /\ st'[r][b]["emit"] = IF r = run /\ b = a THEN "done" ELSE st[r][b]["emit"]
          /\ mark'[r][b] = IF r = run /\ b = a THEN "dismissed" ELSE mark[r][b]
    BY <1>0, <2>1, RecordStageEffect DEF Stages
  <2>3. \A b \in Alerts : b = a \/ AlreadyDismissed(b) => AlreadyDismissed(b)'
    BY <2>1, <2>2 DEF AlreadyDismissed
  <2> QED BY <2>1, <2>3 DEF Marked
<1> QED BY <1>1, <1>2, <1>3, <1>4, <1>5, <1>6, StepsOfEmit

\* Where every run is invoked once and ends by itself, GitHub is asked to
\* dismiss an alert once, however many runs share the database.
THEOREM DismissedOnce ==
  ASSUME ~MayStop, ~MayResume
  PROVE  Spec => []AtMostOneDismissal
<1>1. Init => EmitFresh /\ Marked
  BY DEF Init, EmitFresh, Marked, Stages
<1>2. TypeOK /\ EmitFresh /\ Marked /\ [Next]_vars => (EmitFresh /\ Marked)'
  BY EmitFreshStep, MarkedStep
<1>3. Marked => AtMostOneDismissal
  BY DEF Marked, AtMostOneDismissal
<1> QED BY <1>1, <1>2, <1>3, TypeCorrect, PTL DEF Spec
=============================================================================
