--------------------------- MODULE PipelineProofs ---------------------------
(***************************************************************************)
(* Theorems about Pipeline, for any alerts, runs, trees, modes and numbers *)
(* of passes.                                                              *)
(***************************************************************************)
EXTENDS Pipeline, TLAPS

-----------------------------------------------------------------------------
(* The tables keep their types under the three kinds of write.              *)

LEMMA RecordStageType ==
  ASSUME TypeOK, NEW a \in Alerts, NEW s \in Stages, NEW status \in Statuses,
         RecordStage(a, s, status)
  PROVE  st' \in [Runs -> [Alerts -> [Stages -> Statuses]]]
BY DEF TypeOK, RecordStage

LEMMA PutType ==
  ASSUME TypeOK, NEW a \in Alerts, NEW v \in Verdicts, Put(a, v)
  PROVE  verdict' \in [Alerts -> Verdicts \cup {NoVerdict}]
BY DEF TypeOK, Put

\* Copying a verdict under the run at work, with another origin or another
\* answer of the validator, gives a verdict.
LEMMA CopyType ==
  ASSUME run \in Runs, NEW v \in Verdicts,
         NEW by \in {"policy", "judgment", "inheritance"},
         NEW answer \in {"null", "agreed", "disputed"}
  PROVE  Copy(v, by, answer) \in Verdicts
BY DEF Verdicts, Copy

LEMMA ReviewType ==
  ASSUME NEW a \in Alerts, NEW v \in Verdicts
  PROVE  Review(a, v) \in Reviews
BY DEF Verdicts, Review, Reviews

LEMMA InitType == Init => TypeOK
<1> SUFFICES ASSUME Init PROVE TypeOK OBVIOUS
<1> QED BY PipelineAssumption DEF Init, TypeOK, Statuses, Places, Stages

-----------------------------------------------------------------------------
\* Every step keeps the types: no handler writes a status, a verdict or a
\* cluster row the other stages cannot read, and a process that is not running
\* holds no run.
LEMMA StepType == TypeOK /\ [Next]_vars => TypeOK'
<1> SUFFICES ASSUME TypeOK, [Next]_vars PROVE TypeOK' OBVIOUS
<1> USE PipelineAssumption
<1>1. ASSUME NEW r \in Runs, NEW m \in Modes, Begin(r, m) PROVE TypeOK'
  BY <1>1 DEF Begin, TypeOK, Places
<1>2. CASE Stop
  BY <1>2 DEF Stop, TypeOK, Places
<1>3. CASE TakeSnapshot
  BY <1>3 DEF TakeSnapshot, TypeOK, Places, Stages
<1>4. CASE NextStage
  <2>1. Following \in Places /\ Following # "idle"
    BY <1>4 DEF NextStage, TypeOK, Following, Places, Stages
  <2>2. Pending(Following) \subseteq Alerts
    BY DEF Pending, TypeOK
  <2> QED BY <1>4, <2>1, <2>2 DEF NextStage, TypeOK, db, Pending, ClusterIds
<1>5. CASE Dedup
  <2>1. PICK canon \in Groupings(todo, AgentsOn) :
          /\ cluster' = [c \in ClusterIds |-> [a \in Alerts |->
                           IF a \in Clustered(todo, canon) /\ c = ClusterId(todo, canon, a)
                           THEN IF canon[a] = a THEN "canonical" ELSE "member"
                           ELSE cluster[c][a]]]
          /\ st' = [st EXCEPT ![run] = [a \in Alerts |->
                      IF a \in todo
                      THEN [st[run][a] EXCEPT !["dedup"] = IF canon[a] = a THEN "done" ELSE "skipped"]
                      ELSE st[run][a]]]
    BY <1>5 DEF Dedup, ClusterRows, DedupStatus
  <2>2. cluster' \in [ClusterIds -> [Alerts -> {"none", "member", "canonical"}]]
    <3>1. \A c \in ClusterIds, a \in Alerts :
            cluster[c][a] \in {"none", "member", "canonical"}
      BY DEF TypeOK
    <3> QED BY <2>1, <3>1
  <2>3. st' \in [Runs -> [Alerts -> [Stages -> Statuses]]]
    <3>1. run \in Runs /\ st \in [Runs -> [Alerts -> [Stages -> Statuses]]]
      BY <1>5 DEF Dedup, TypeOK
    <3>2. ASSUME NEW row \in [Stages -> Statuses], NEW status \in {"done", "skipped"}
          PROVE  [row EXCEPT !["dedup"] = status] \in [Stages -> Statuses]
      BY DEF Statuses
    <3>3. [a \in Alerts |->
             IF a \in todo
             THEN [st[run][a] EXCEPT !["dedup"] = IF canon[a] = a THEN "done" ELSE "skipped"]
             ELSE st[run][a]] \in [Alerts -> [Stages -> Statuses]]
      BY <3>1, <3>2
    <3> QED BY <2>1, <3>1, <3>3
  <2> QED BY <1>5, <2>2, <2>3 DEF Dedup, TypeOK
<1>6. CASE CheckShallow
  BY <1>6 DEF CheckShallow, TypeOK, db, Places
<1>7. CASE Finish
  BY <1>7 DEF Finish, TypeOK, Places
<1>8. ASSUME NEW a \in Alerts, SkipIngested(a) PROVE TypeOK'
  BY <1>8 DEF SkipIngested, TypeOK, db
<1>9. ASSUME NEW a \in Alerts, IngestFails(a) PROVE TypeOK'
  <2>1. st' \in [Runs -> [Alerts -> [Stages -> Statuses]]]
    BY <1>9, RecordStageType DEF IngestFails, Stages, Statuses
  <2> QED BY <1>9, <2>1 DEF IngestFails, TypeOK
<1>10. ASSUME NEW a \in Alerts, Replay(a) PROVE TypeOK'
  <2>1. st' \in [Runs -> [Alerts -> [Stages -> Statuses]]]
    BY <1>10, RecordStageType DEF Replay, Stages, Statuses
  <2>2. run \in Runs /\ verdict[a] \in Verdicts
    BY <1>10 DEF Replay, Replayable, TypeOK
  <2>3. Copy(verdict[a], verdict[a].by, verdict[a].validated) \in Verdicts
    BY <2>2, CopyType DEF Verdicts
  <2>4. verdict' \in [Alerts -> Verdicts \cup {NoVerdict}]
    BY <1>10, <2>3, PutType DEF Replay
  <2> QED BY <1>10, <2>1, <2>4 DEF Replay, TypeOK
<1>11. ASSUME NEW a \in Alerts, Ingest(a) PROVE TypeOK'
  <2>1. st' \in [Runs -> [Alerts -> [Stages -> Statuses]]]
    BY <1>11, RecordStageType DEF Ingest, Stages, Statuses
  <2> QED BY <1>11, <2>1 DEF Ingest, TypeOK
<1>12. ASSUME NEW a \in Alerts, NoRuleMatches(a) PROVE TypeOK'
  <2>1. st' \in [Runs -> [Alerts -> [Stages -> Statuses]]]
    BY <1>12, RecordStageType DEF NoRuleMatches, Stages, Statuses
  <2> QED BY <1>12, <2>1 DEF NoRuleMatches, TypeOK
<1>13. ASSUME NEW a \in Alerts, RuleMatches(a) PROVE TypeOK'
  <2>1. st' \in [Runs -> [Alerts -> [Stages -> Statuses]]]
    BY <1>13, RecordStageType DEF RuleMatches, Stages, Statuses
  <2>2. run \in Runs /\ snap \in Trees \cup {NoTree}
    BY <1>13 DEF RuleMatches, TypeOK
  <2>3. PICK ok \in BOOLEAN :
          Put(a, [run |-> run, by |-> "policy", about |-> a, closable |-> ok,
                  validated |-> "null", tree |-> snap])
    BY <1>13 DEF RuleMatches
  <2>4. [run |-> run, by |-> "policy", about |-> a, closable |-> ok,
         validated |-> "null", tree |-> snap] \in Verdicts
    BY <2>2 DEF Verdicts
  <2>5. verdict' \in [Alerts -> Verdicts \cup {NoVerdict}]
    BY <2>3, <2>4, PutType
  <2> QED BY <1>13, <2>1, <2>5 DEF RuleMatches, TypeOK
<1>14. ASSUME NEW a \in Alerts, NoAdapter(a) PROVE TypeOK'
  <2>1. st' \in [Runs -> [Alerts -> [Stages -> Statuses]]]
    BY <1>14, RecordStageType DEF NoAdapter, Stages, Statuses
  <2> QED BY <1>14, <2>1 DEF NoAdapter, TypeOK
<1>15. ASSUME NEW a \in Alerts, Measure(a) PROVE TypeOK'
  <2>1. st' \in [Runs -> [Alerts -> [Stages -> Statuses]]]
    BY <1>15, RecordStageType DEF Measure, Stages, Statuses
  <2>2. bundle' \in [Runs -> [Alerts -> [kind : Bundles \cup {"none"}, tree : Trees \cup {NoTree}]]]
    BY <1>15 DEF Measure, TypeOK
  <2> QED BY <1>15, <2>1, <2>2 DEF Measure, TypeOK
<1>16. ASSUME NEW a \in Alerts, Requeue(a) PROVE TypeOK'
  <2>1. st' \in [Runs -> [Alerts -> [Stages -> Statuses]]]
    BY <1>16, RecordStageType DEF Requeue, Stages, Statuses
  <2> QED BY <1>16, <2>1 DEF Requeue, TypeOK
<1>17. ASSUME NEW a \in Alerts, Defer(a) PROVE TypeOK'
  <2>1. st' \in [Runs -> [Alerts -> [Stages -> Statuses]]]
    BY <1>17, RecordStageType DEF Defer, Stages, Statuses
  <2> QED BY <1>17, <2>1 DEF Defer, TypeOK
<1>18. ASSUME NEW a \in Alerts, Judge(a) PROVE TypeOK'
  <2>1. PICK status \in {"done", "failed"}, ok \in BOOLEAN :
          /\ RecordStage(a, "judgment", status)
          /\ Put(a, [run |-> run, by |-> "judgment", about |-> a, closable |-> ok,
                     validated |-> "null", tree |-> snap])
    BY <1>18 DEF Judge
  <2>2. st' \in [Runs -> [Alerts -> [Stages -> Statuses]]]
    BY <2>1, RecordStageType DEF Stages, Statuses
  <2>3. run \in Runs /\ snap \in Trees \cup {NoTree}
    BY <1>18 DEF Judge, TypeOK
  <2>4. [run |-> run, by |-> "judgment", about |-> a, closable |-> ok,
         validated |-> "null", tree |-> snap] \in Verdicts
    BY <2>3 DEF Verdicts
  <2>5. verdict' \in [Alerts -> Verdicts \cup {NoVerdict}]
    BY <2>1, <2>4, PutType
  <2> QED BY <1>18, <2>2, <2>5 DEF Judge, TypeOK
<1>19. ASSUME NEW a \in Alerts, RejectMechanically(a) \/ ValidatorUnavailable(a)
                                                     \/ ValidatorAnswers(a)
       PROVE  TypeOK'
  <2>1. PICK status \in {"done", "failed"}, answer \in {"null", "agreed", "disputed"} :
          Settle(a, status, answer)
    BY <1>19 DEF RejectMechanically, ValidatorUnavailable, ValidatorAnswers
  <2>2. st' \in [Runs -> [Alerts -> [Stages -> Statuses]]]
    BY <2>1, RecordStageType DEF Settle, Stages, Statuses
  <2>3. run \in Runs /\ verdict[a] \in Verdicts
    BY <1>19 DEF RejectMechanically, ValidatorUnavailable, ValidatorAnswers, Validating, TypeOK
  <2>4. Copy(verdict[a], verdict[a].by, answer) \in Verdicts
    BY <2>3, CopyType DEF Verdicts
  <2>5. verdict' \in [Alerts -> Verdicts \cup {NoVerdict}]
    BY <2>1, <2>4, PutType DEF Settle
  <2>6. agreed' \subseteq Reviews
    BY <1>19, <2>3, ReviewType
       DEF RejectMechanically, ValidatorUnavailable, ValidatorAnswers, TypeOK
  <2> QED BY <2>1, <2>2, <2>5, <2>6 DEF Settle, TypeOK
<1>20. ASSUME NEW a \in Alerts, KeepOpen(a) PROVE TypeOK'
  <2>1. st' \in [Runs -> [Alerts -> [Stages -> Statuses]]]
    BY <1>20, RecordStageType DEF KeepOpen, Stages, Statuses
  <2>2. mark' \in [Runs -> [Alerts -> {"none", "dismissed", "kept"}]]
    BY <1>20 DEF KeepOpen, TypeOK
  <2> QED BY <1>20, <2>1, <2>2 DEF KeepOpen, TypeOK
<1>21. ASSUME NEW a \in Alerts, DismissalFails(a) PROVE TypeOK'
  <2>1. st' \in [Runs -> [Alerts -> [Stages -> Statuses]]]
    BY <1>21, RecordStageType DEF DismissalFails, Stages, Statuses
  <2> QED BY <1>21, <2>1 DEF DismissalFails, TypeOK
<1>22. ASSUME NEW a \in Alerts, Dismiss(a) PROVE TypeOK'
  BY <1>22 DEF Dismiss, TypeOK, db
<1>23. ASSUME NEW a \in Alerts, RecordDismissal(a) PROVE TypeOK'
  <2>1. st' \in [Runs -> [Alerts -> [Stages -> Statuses]]]
    BY <1>23, RecordStageType DEF RecordDismissal, Stages, Statuses
  <2>2. mark' \in [Runs -> [Alerts -> {"none", "dismissed", "kept"}]]
    BY <1>23 DEF RecordDismissal, TypeOK
  <2> QED BY <1>23, <2>1, <2>2 DEF RecordDismissal, TypeOK
<1>24. ASSUME NEW c \in ClusterIds, NEW a \in Alerts, Inherit(c, a) PROVE TypeOK'
  <2>1. PICK b \in Canonicals(c) :
          verdict[b] # NoVerdict /\ Put(a, Copy(verdict[b], "inheritance", "null"))
    BY <1>24 DEF Inherit
  <2>2. run \in Runs /\ verdict[b] \in Verdicts
    BY <1>24, <2>1 DEF Inherit, Canonicals, TypeOK
  <2>3. Copy(verdict[b], "inheritance", "null") \in Verdicts
    BY <2>2, CopyType
  <2>4. verdict' \in [Alerts -> Verdicts \cup {NoVerdict}]
    BY <2>1, <2>3, PutType
  <2> QED BY <1>24, <2>4 DEF Inherit, TypeOK
<1>25. ASSUME NEW c \in ClusterIds, NEW a \in Alerts, NothingToInherit(c, a) PROVE TypeOK'
  BY <1>25 DEF NothingToInherit, TypeOK, db
<1>26. CASE UNCHANGED vars
  BY <1>26 DEF vars, db, process, TypeOK
<1> QED BY <1>1, <1>2, <1>3, <1>4, <1>5, <1>6, <1>7, <1>8, <1>9, <1>10, <1>11, <1>12,
           <1>13, <1>14, <1>15, <1>16, <1>17, <1>18, <1>19, <1>20, <1>21, <1>22, <1>23,
           <1>24, <1>25, <1>26 DEF Next, Step, Rest

\* The tables and the process are well typed in every reachable state.
THEOREM TypeCorrect == Spec => []TypeOK
<1> QED BY InitType, StepType, PTL DEF Spec

-----------------------------------------------------------------------------
(* The stage chain.  It is not inductive by itself: a handler relies on what *)
(* the stage found when it drew up its list of alerts.                       *)

\* What the stage under way knows of an alert it has still to handle.
Admitted(a) ==
  /\ pc = "policy"   => Complete(run, a, "ingest") /\ ~Complete(run, a, "policy")
  /\ pc = "dedup"    => st[run][a]["policy"] = "done" /\ ~Complete(run, a, "dedup")
  /\ pc \in {"evidence", "requeue"} =>
       st[run][a]["dedup"] = "done" /\ st[run][a]["judgment"] = "none"
  /\ pc = "judgment" => /\ st[run][a]["evidence"] = "done"
                        /\ ~Complete(run, a, "judgment")
  /\ pc = "validate" => st[run][a]["judgment"] = "done"
  /\ pc = "emit"     => verdict[a] # NoVerdict

TodoAdmitted == \A a \in todo : Admitted(a)

\* The alerts an evidence pass began with are the ones it may requeue.
BatchAdmitted ==
  pc = "evidence" =>
    \A a \in batch : st[run][a]["dedup"] = "done" /\ st[run][a]["judgment"] = "none"

\* The dedup stage leaves no queued alert undecided.
DedupTotal ==
  pc = "dedup" =>
    \A a \in known : st[run][a]["policy"] = "done" => Complete(run, a, "dedup") \/ a \in todo

\* Evidence is never recorded as measured without its bundle.
EvidenceBacked ==
  \A r \in Runs, a \in Alerts : st[r][a]["evidence"] = "done" => bundle[r][a].kind # "none"

ChainInv ==
  /\ TypeOK /\ StageChain /\ TodoAdmitted /\ BatchAdmitted /\ DedupTotal /\ EvidenceBacked

\* A write of one stage row, row by row.
LEMMA RecordStageEffect ==
  ASSUME TypeOK, run \in Runs, NEW a \in Alerts, NEW s \in Stages, NEW status,
         RecordStage(a, s, status)
  PROVE  \A r \in Runs, b \in Alerts, q \in Stages :
           st'[r][b][q] = IF r = run /\ b = a /\ q = s THEN status ELSE st[r][b][q]
BY DEF TypeOK, RecordStage

LEMMA PutEffect ==
  ASSUME TypeOK, NEW a \in Alerts, NEW v, Put(a, v)
  PROVE  \A b \in Alerts : verdict'[b] = IF b = a THEN v ELSE verdict[b]
BY DEF TypeOK, Put

\* One stage row of one pending alert is written, and nothing the chain speaks
\* of besides: the chain survives if the row before it admits the new one and
\* the row after it is still empty or the new one admits it.
LEMMA RowStep ==
  ASSUME ChainInv, TypeOK', NEW a \in Alerts, NEW s \in Stages \ {"dedup"}, NEW status,
         run \in Runs,
         a \in todo \/ s = "emit",
         RecordStage(a, s, status),
         todo' = todo \ {a}, UNCHANGED <<pc, run, batch>>,
         known' = known \/ pc = "ingest",
         \A b \in Alerts : verdict[b] # NoVerdict => verdict'[b] # NoVerdict,
         \A r \in Runs, b \in Alerts :
           bundle'[r][b] = bundle[r][b] \/ bundle'[r][b].kind # "none",
         s = "ingest"   => pc = "ingest" /\ ~Complete(run, a, "ingest"),
         s = "policy"   => pc = "policy" /\ status # "none",
         s = "evidence" => /\ pc \in {"evidence", "requeue"}
                           /\ status = "done" => bundle'[run][a].kind # "none",
         s = "judgment" => pc = "judgment",
         s = "validate" => pc = "validate",
         s = "emit"     => pc = "emit"
  PROVE  ChainInv'
<1> USE RecordStageEffect DEF ChainInv
<1>0. a \in Alerts /\ s \in Stages /\ todo \subseteq Alerts /\ batch \subseteq Alerts /\ known \subseteq Alerts
  BY DEF TypeOK
<1>1. \A r \in Runs, b \in Alerts, q \in Stages :
        st'[r][b][q] = IF r = run /\ b = a /\ q = s THEN status ELSE st[r][b][q]
  BY <1>0
<1>2. s # "emit" => Admitted(a)
  BY DEF TodoAdmitted
<1>3. StageChain'
  BY <1>0, <1>1, <1>2 DEF StageChain, Admitted, Complete, Stages, TERMINAL_STATUSES, EvidenceBacked
<1>4. TodoAdmitted'
  BY <1>0, <1>1 DEF TodoAdmitted, Admitted, Complete, Stages
<1>5. BatchAdmitted'
  BY <1>0, <1>1 DEF BatchAdmitted, Stages
<1>6. DedupTotal'
  BY <1>0, <1>1 DEF DedupTotal, Complete, Stages
<1>7. EvidenceBacked'
  BY <1>0, <1>1 DEF EvidenceBacked, Stages
<1> QED BY <1>3, <1>4, <1>5, <1>6, <1>7

LEMMA ChainInit == Init => ChainInv
<1> SUFFICES ASSUME Init PROVE ChainInv OBVIOUS
<1>1. TypeOK
  BY InitType
<1> QED BY <1>1 DEF Init, ChainInv, StageChain, TodoAdmitted, BatchAdmitted, DedupTotal,
                    EvidenceBacked, Complete, Stages, TERMINAL_STATUSES

\* A write of a verdict leaves no alert without one.
LEMMA PutKeepsVerdicts ==
  ASSUME TypeOK, NEW a \in Alerts, NEW v \in Verdicts, Put(a, v)
  PROVE  \A b \in Alerts : verdict[b] # NoVerdict => verdict'[b] # NoVerdict
BY PutEffect, PipelineAssumption

\* A bundle that is kept or replaced by a measured one.
LEMMA MeasureEffect ==
  ASSUME TypeOK, run \in Runs, NEW a \in Alerts, Measure(a)
  PROVE  /\ bundle'[run][a].kind # "none"
         /\ \A r \in Runs, b \in Alerts :
              bundle'[r][b] = bundle[r][b] \/ bundle'[r][b].kind # "none"
BY PipelineAssumption DEF Measure, TypeOK, BundleKinds

\* Every step keeps the chain: kills and resumptions change no row, and each
\* stage takes up only what the stages before it admitted.
LEMMA ChainStep == ChainInv /\ [Next]_vars => ChainInv'
<1> SUFFICES ASSUME ChainInv, [Next]_vars PROVE ChainInv' OBVIOUS
<1>0. TypeOK /\ TypeOK'
  BY StepType DEF ChainInv
<1>a. (pc # "idle" => run \in Runs) /\ todo \subseteq Alerts /\ batch \subseteq Alerts
      /\ known \subseteq Alerts
  BY <1>0 DEF TypeOK
<1>1. ASSUME NEW r \in Runs, NEW m \in Modes, Begin(r, m) PROVE ChainInv'
  BY <1>1, <1>0 DEF Begin, ChainInv, StageChain, TodoAdmitted, Admitted, BatchAdmitted,
                    DedupTotal, EvidenceBacked, Complete
<1>2. CASE Stop
  BY <1>2, <1>0 DEF Stop, ChainInv, StageChain, TodoAdmitted, Admitted, BatchAdmitted,
                    DedupTotal, EvidenceBacked, Complete
<1>3. CASE TakeSnapshot
  BY <1>3, <1>0 DEF TakeSnapshot, ChainInv, StageChain, TodoAdmitted, Admitted, BatchAdmitted,
                    DedupTotal, EvidenceBacked, Complete
<1>4. CASE NextStage
  <2> USE <1>4
  <2>1. UNCHANGED <<st, bundle, verdict, run, known>> /\ pc' = Following
    BY DEF NextStage, db
  <2>2. StageChain' /\ EvidenceBacked'
    BY <2>1 DEF ChainInv, StageChain, EvidenceBacked, Complete
  <2>3. pc' \in {"policy", "dedup", "evidence", "judgment", "propagate", "validate", "emit"}
        /\ (pc' = "evidence" => pc = "dedup")
    BY <1>0, <2>1 DEF NextStage, Following, TypeOK, Places, Stages
  <2>4. pc' # "emit" => todo' = Pending(pc')
    BY <2>1 DEF NextStage
  <2>5. pc' = "emit" => \A a \in todo' : verdict[a] # NoVerdict
    BY <2>1 DEF NextStage
  <2>6. pc' = "evidence" => todo = {} /\ batch' = Pending("evidence")
    BY <2>1 DEF NextStage
  <2>7. ASSUME NEW a \in Pending("evidence"), pc = "dedup", todo = {}
        PROVE  st[run][a]["dedup"] = "done" /\ st[run][a]["judgment"] = "none"
    <3>1. a \in Alerts /\ run \in Runs /\ a \in known
      BY <1>a, <2>7 DEF Pending
    <3>2. st[run][a]["policy"] = "done" /\ st[run][a]["dedup"] # "skipped"
          /\ ~Complete(run, a, "evidence")
      BY DEF Pending
    <3>3. st[run][a]["dedup"] = "done"
      BY <2>7, <3>1, <3>2 DEF ChainInv, DedupTotal, Complete, TERMINAL_STATUSES
    <3>4. st[run][a]["judgment"] = "none"
      BY <3>1, <3>2 DEF ChainInv, StageChain, Complete, TERMINAL_STATUSES
    <3> QED BY <3>3, <3>4
  <2>8. TodoAdmitted'
    <3> SUFFICES ASSUME NEW a \in todo' PROVE Admitted(a)'
      BY DEF TodoAdmitted
    <3>1. pc' = "emit" => Admitted(a)'
      BY <2>1, <2>5 DEF Admitted
    <3>2. pc' = "evidence" => Admitted(a)'
      BY <2>1, <2>3, <2>4, <2>6, <2>7 DEF Admitted
    <3>3. pc' \in {"policy", "dedup", "judgment", "validate", "propagate"} => Admitted(a)'
      BY <2>1, <2>4 DEF Admitted, Pending, Complete
    <3> QED BY <2>3, <3>1, <3>2, <3>3
  <2>9. BatchAdmitted'
    BY <2>1, <2>3, <2>6, <2>7 DEF BatchAdmitted
  <2>10. DedupTotal'
    BY <2>1, <2>4 DEF DedupTotal, Pending, Complete, Stages
  <2> QED BY <1>0, <2>2, <2>8, <2>9, <2>10 DEF ChainInv
<1>5. CASE Dedup
  <2> USE <1>5
  <2>1. PICK canon \in Groupings(todo, AgentsOn) :
          st' = [st EXCEPT ![run] = [a \in Alerts |->
                  IF a \in todo
                  THEN [st[run][a] EXCEPT !["dedup"] = IF canon[a] = a THEN "done" ELSE "skipped"]
                  ELSE st[run][a]]]
    BY DEF Dedup, DedupStatus
  <2>2. run \in Runs /\ pc = "dedup" /\ todo' = {}
        /\ UNCHANGED <<known, bundle, verdict, pc, run, batch>>
    BY <1>a DEF Dedup
  <2>3. \A r \in Runs, a \in Alerts, s \in Stages :
          st'[r][a][s] = IF r = run /\ a \in todo /\ s = "dedup"
                         THEN IF canon[a] = a THEN "done" ELSE "skipped" ELSE st[r][a][s]
    BY <1>0, <2>1, <2>2 DEF TypeOK
  <2>4. StageChain'
    BY <1>a, <2>2, <2>3 DEF ChainInv, StageChain, TodoAdmitted, Admitted, Complete, Stages,
                            TERMINAL_STATUSES
  <2>5. TodoAdmitted' /\ BatchAdmitted'
    BY <2>2 DEF TodoAdmitted, BatchAdmitted
  <2>6. DedupTotal'
    BY <1>a, <2>2, <2>3 DEF ChainInv, DedupTotal, Complete, Stages, TERMINAL_STATUSES
  <2>7. EvidenceBacked'
    BY <2>2, <2>3 DEF ChainInv, EvidenceBacked, Stages
  <2> QED BY <1>0, <2>4, <2>5, <2>6, <2>7 DEF ChainInv
<1>6. CASE CheckShallow
  BY <1>6, <1>0 DEF CheckShallow, db, ChainInv, StageChain, TodoAdmitted, Admitted, BatchAdmitted,
                    DedupTotal, EvidenceBacked, Complete
<1>7. CASE Finish
  BY <1>7, <1>0 DEF Finish, ChainInv, StageChain, TodoAdmitted, Admitted, BatchAdmitted,
                    DedupTotal, EvidenceBacked, Complete
<1>8. ASSUME NEW a \in Alerts, SkipIngested(a) PROVE ChainInv'
  BY <1>8, <1>0 DEF SkipIngested, db, ChainInv, StageChain, TodoAdmitted, Admitted, BatchAdmitted,
                    DedupTotal, EvidenceBacked, Complete
<1>9. ASSUME NEW a \in Alerts, IngestFails(a) PROVE ChainInv'
  BY <1>9, <1>0, <1>a, RowStep DEF IngestFails, Stages
<1>10. ASSUME NEW a \in Alerts, Replay(a) PROVE ChainInv'
  <2>0. run \in Runs /\ verdict[a] \in Verdicts
    BY <1>10, <1>0 DEF Replay, Replayable, TypeOK
  <2>1. Copy(verdict[a], verdict[a].by, verdict[a].validated) \in Verdicts
    BY <2>0, CopyType DEF Verdicts
  <2>2. \A b \in Alerts : verdict[b] # NoVerdict => verdict'[b] # NoVerdict
    BY <1>10, <1>0, <2>1, PutKeepsVerdicts DEF Replay
  <2> QED BY <1>10, <1>0, <1>a, <2>2, RowStep DEF Replay, Stages
<1>11. ASSUME NEW a \in Alerts, Ingest(a) PROVE ChainInv'
  BY <1>11, <1>0, <1>a, RowStep DEF Ingest, Stages
<1>12. ASSUME NEW a \in Alerts, NoRuleMatches(a) PROVE ChainInv'
  BY <1>12, <1>0, <1>a, RowStep DEF NoRuleMatches, Stages
<1>13. ASSUME NEW a \in Alerts, RuleMatches(a) PROVE ChainInv'
  <2>1. PICK ok \in BOOLEAN :
          Put(a, [run |-> run, by |-> "policy", about |-> a, closable |-> ok,
                  validated |-> "null", tree |-> snap])
    BY <1>13 DEF RuleMatches
  <2>2. [run |-> run, by |-> "policy", about |-> a, closable |-> ok,
         validated |-> "null", tree |-> snap] \in Verdicts
    BY <1>13, <1>0, <1>a DEF RuleMatches, TypeOK, Verdicts
  <2>3. \A b \in Alerts : verdict[b] # NoVerdict => verdict'[b] # NoVerdict
    BY <1>0, <2>1, <2>2, PutKeepsVerdicts
  <2> QED BY <1>13, <1>0, <1>a, <2>3, RowStep DEF RuleMatches, Stages
<1>14. ASSUME NEW a \in Alerts, NoAdapter(a) PROVE ChainInv'
  BY <1>14, <1>0, <1>a, RowStep DEF NoAdapter, Stages
<1>15. ASSUME NEW a \in Alerts, Measure(a) PROVE ChainInv'
  <2>1. run \in Runs
    BY <1>15, <1>a DEF Measure
  <2> QED BY <1>15, <1>0, <2>1, MeasureEffect, RowStep DEF Measure, Stages
<1>16. ASSUME NEW a \in Alerts, Requeue(a) PROVE ChainInv'
  BY <1>16, <1>0, <1>a, RowStep DEF Requeue, Stages
<1>17. ASSUME NEW a \in Alerts, Defer(a) PROVE ChainInv'
  BY <1>17, <1>0, <1>a, RowStep DEF Defer, Stages
<1>18. ASSUME NEW a \in Alerts, Judge(a) PROVE ChainInv'
  <2>1. PICK status \in {"done", "failed"}, ok \in BOOLEAN :
          /\ RecordStage(a, "judgment", status)
          /\ Put(a, [run |-> run, by |-> "judgment", about |-> a, closable |-> ok,
                     validated |-> "null", tree |-> snap])
    BY <1>18 DEF Judge
  <2>2. [run |-> run, by |-> "judgment", about |-> a, closable |-> ok,
         validated |-> "null", tree |-> snap] \in Verdicts
    BY <1>18, <1>0, <1>a DEF Judge, TypeOK, Verdicts
  <2>3. \A b \in Alerts : verdict[b] # NoVerdict => verdict'[b] # NoVerdict
    BY <1>0, <2>1, <2>2, PutKeepsVerdicts
  <2> QED BY <1>18, <1>0, <1>a, <2>1, <2>3, RowStep DEF Judge, Stages
<1>19. ASSUME NEW a \in Alerts, RejectMechanically(a) \/ ValidatorUnavailable(a)
                                                     \/ ValidatorAnswers(a)
       PROVE  ChainInv'
  <2>1. PICK status \in {"done", "failed"}, answer \in {"null", "agreed", "disputed"} :
          Settle(a, status, answer)
    BY <1>19 DEF RejectMechanically, ValidatorUnavailable, ValidatorAnswers
  <2>2. pc = "validate" /\ a \in todo /\ verdict[a] # NoVerdict
    BY <1>19 DEF RejectMechanically, ValidatorUnavailable, ValidatorAnswers, Validating
  <2>0. run \in Runs /\ verdict[a] \in Verdicts
    BY <1>0, <2>2 DEF TypeOK
  <2>3. Copy(verdict[a], verdict[a].by, answer) \in Verdicts
    BY <2>0, CopyType DEF Verdicts
  <2>4. \A b \in Alerts : verdict[b] # NoVerdict => verdict'[b] # NoVerdict
    BY <1>0, <2>1, <2>3, PutKeepsVerdicts DEF Settle
  <2> QED BY <1>0, <1>a, <2>1, <2>2, <2>4, RowStep DEF Settle, Stages
<1>20. ASSUME NEW a \in Alerts, KeepOpen(a) PROVE ChainInv'
  BY <1>20, <1>0, <1>a, RowStep DEF KeepOpen, Stages
<1>21. ASSUME NEW a \in Alerts, DismissalFails(a) PROVE ChainInv'
  BY <1>21, <1>0, <1>a, RowStep DEF DismissalFails, Stages
<1>22. ASSUME NEW a \in Alerts, Dismiss(a) PROVE ChainInv'
  BY <1>22, <1>0 DEF Dismiss, db, ChainInv, StageChain, TodoAdmitted, Admitted, BatchAdmitted,
                     DedupTotal, EvidenceBacked, Complete
<1>23. ASSUME NEW a \in Alerts, RecordDismissal(a) PROVE ChainInv'
  BY <1>23, <1>0, <1>a, RowStep DEF RecordDismissal, Stages
<1>24. ASSUME NEW c \in ClusterIds, NEW a \in Alerts, Inherit(c, a) PROVE ChainInv'
  BY <1>24, <1>0 DEF Inherit, ChainInv, StageChain, TodoAdmitted, Admitted, BatchAdmitted,
                     DedupTotal, EvidenceBacked, Complete
<1>25. ASSUME NEW c \in ClusterIds, NEW a \in Alerts, NothingToInherit(c, a) PROVE ChainInv'
  BY <1>25, <1>0 DEF NothingToInherit, db, ChainInv, StageChain, TodoAdmitted, Admitted,
                     BatchAdmitted, DedupTotal, EvidenceBacked, Complete
<1>26. CASE UNCHANGED vars
  BY <1>26, <1>0 DEF vars, db, process, ChainInv, StageChain, TodoAdmitted, Admitted,
                     BatchAdmitted, DedupTotal, EvidenceBacked, Complete
<1> QED BY <1>1, <1>2, <1>3, <1>4, <1>5, <1>6, <1>7, <1>8, <1>9, <1>10, <1>11, <1>12,
           <1>13, <1>14, <1>15, <1>16, <1>17, <1>18, <1>19, <1>20, <1>21, <1>22, <1>23,
           <1>24, <1>25, <1>26 DEF Next, Step, Rest

\* Whatever is killed, resumed or run again, a stage row exists only where the
\* stage before it let the alert through.
THEOREM StagesInOrder == Spec => []StageChain
<1>1. ChainInv => StageChain
  BY DEF ChainInv
<1> QED BY <1>1, ChainInit, ChainStep, PTL DEF Spec

-----------------------------------------------------------------------------
(* The validator's agreement.                                               *)

LEMMA AgreementPut ==
  ASSUME TypeOK, AgreementIsReviewed, NEW a \in Alerts, NEW v \in Verdicts, Put(a, v),
         agreed \subseteq agreed', v.validated = "agreed" => Review(a, v) \in agreed'
  PROVE  AgreementIsReviewed'
BY PutEffect DEF AgreementIsReviewed

LEMMA AgreementKept ==
  ASSUME AgreementIsReviewed, UNCHANGED <<verdict, agreed>>
  PROVE  AgreementIsReviewed'
BY DEF AgreementIsReviewed

\* The validator is shown the same thing before and after a document is copied
\* for the same alert with the same origin.
LEMMA CopyReview ==
  ASSUME NEW a \in Alerts, NEW v \in Verdicts, NEW answer
  PROVE  /\ Review(a, Copy(v, v.by, answer)) = Review(a, v)
         /\ Copy(v, v.by, answer).validated = answer
         /\ Copy(v, "inheritance", answer).validated = answer
BY DEF Review, Copy

LEMMA AgreementStep == TypeOK /\ AgreementIsReviewed /\ [Next]_vars => AgreementIsReviewed'
<1> SUFFICES ASSUME TypeOK, AgreementIsReviewed, [Next]_vars PROVE AgreementIsReviewed'
  OBVIOUS
<1>1. ASSUME NEW a \in Alerts, Replay(a) PROVE AgreementIsReviewed'
  <2>1. run \in Runs /\ verdict[a] \in Verdicts /\ verdict[a] # NoVerdict
    BY <1>1 DEF Replay, Replayable, TypeOK
  <2>2. Copy(verdict[a], verdict[a].by, verdict[a].validated) \in Verdicts
    BY <2>1, CopyType DEF Verdicts
  <2>3. verdict[a].validated = "agreed" => Review(a, verdict[a]) \in agreed
    BY <2>1 DEF AgreementIsReviewed
  <2> QED BY <1>1, <2>1, <2>2, <2>3, CopyReview, AgreementPut DEF Replay
<1>2. ASSUME NEW a \in Alerts, RuleMatches(a) PROVE AgreementIsReviewed'
  <2>1. PICK ok \in BOOLEAN :
          Put(a, [run |-> run, by |-> "policy", about |-> a, closable |-> ok,
                  validated |-> "null", tree |-> snap])
    BY <1>2 DEF RuleMatches
  <2>2. [run |-> run, by |-> "policy", about |-> a, closable |-> ok,
         validated |-> "null", tree |-> snap] \in Verdicts
    BY <1>2 DEF RuleMatches, TypeOK, Verdicts
  <2> QED BY <1>2, <2>1, <2>2, AgreementPut DEF RuleMatches
<1>3. ASSUME NEW a \in Alerts, Judge(a) PROVE AgreementIsReviewed'
  <2>1. PICK ok \in BOOLEAN :
          Put(a, [run |-> run, by |-> "judgment", about |-> a, closable |-> ok,
                  validated |-> "null", tree |-> snap])
    BY <1>3 DEF Judge
  <2>2. [run |-> run, by |-> "judgment", about |-> a, closable |-> ok,
         validated |-> "null", tree |-> snap] \in Verdicts
    BY <1>3 DEF Judge, TypeOK, Verdicts
  <2> QED BY <1>3, <2>1, <2>2, AgreementPut DEF Judge
<1>4. ASSUME NEW c \in ClusterIds, NEW a \in Alerts, Inherit(c, a) PROVE AgreementIsReviewed'
  <2>1. PICK b \in Canonicals(c) :
          verdict[b] # NoVerdict /\ Put(a, Copy(verdict[b], "inheritance", "null"))
    BY <1>4 DEF Inherit
  <2>2. run \in Runs /\ verdict[b] \in Verdicts
    BY <1>4, <2>1 DEF Inherit, Canonicals, TypeOK
  <2>3. Copy(verdict[b], "inheritance", "null") \in Verdicts
    BY <2>2, CopyType
  <2>4. Copy(verdict[b], "inheritance", "null").validated = "null"
    BY <2>2, CopyReview
  <2> QED BY <1>4, <2>1, <2>3, <2>4, AgreementPut DEF Inherit
<1>5. ASSUME NEW a \in Alerts, RejectMechanically(a) \/ ValidatorUnavailable(a)
                                                    \/ ValidatorAnswers(a)
      PROVE  AgreementIsReviewed'
  <2>1. PICK status \in {"done", "failed"}, answer \in {"null", "agreed", "disputed"} :
          /\ Settle(a, status, answer)
          /\ agreed \subseteq agreed'
          /\ answer = "agreed" => Review(a, verdict[a]) \in agreed'
    BY <1>5 DEF RejectMechanically, ValidatorUnavailable, ValidatorAnswers
  <2>2. run \in Runs /\ verdict[a] \in Verdicts
    BY <1>5 DEF RejectMechanically, ValidatorUnavailable, ValidatorAnswers, Validating, TypeOK
  <2>3. Copy(verdict[a], verdict[a].by, answer) \in Verdicts
    BY <2>2, CopyType DEF Verdicts
  <2> QED BY <2>1, <2>2, <2>3, CopyReview, AgreementPut DEF Settle
<1>6. ASSUME UNCHANGED <<verdict, agreed>> PROVE AgreementIsReviewed'
  BY <1>6, AgreementKept
<1>7. ASSUME NEW a \in Alerts,
             \/ SkipIngested(a) \/ IngestFails(a) \/ Ingest(a) \/ NoRuleMatches(a)
             \/ NoAdapter(a) \/ Measure(a) \/ Requeue(a) \/ Defer(a)
             \/ KeepOpen(a) \/ DismissalFails(a) \/ Dismiss(a) \/ RecordDismissal(a)
      PROVE  UNCHANGED <<verdict, agreed>>
  BY <1>7 DEF SkipIngested, IngestFails, Ingest, NoRuleMatches, NoAdapter, Measure, Requeue,
              Defer, KeepOpen, DismissalFails, Dismiss, RecordDismissal, db
<1>8. ASSUME \/ \E r \in Runs, m \in Modes : Begin(r, m)
             \/ TakeSnapshot \/ NextStage \/ Dedup \/ CheckShallow \/ Finish
             \/ \E c \in ClusterIds, a \in Alerts : NothingToInherit(c, a)
             \/ Stop \/ UNCHANGED vars
      PROVE  UNCHANGED <<verdict, agreed>>
  BY <1>8 DEF Begin, TakeSnapshot, NextStage, Dedup, CheckShallow, Finish, NothingToInherit,
              Stop, vars, db
<1> QED BY <1>1, <1>2, <1>3, <1>4, <1>5, <1>6, <1>7, <1>8 DEF Next, Step, Rest

\* No replay, inheritance or judgment presents a document as agreed that the
\* validator did not agree with for that alert.
THEOREM AgreementReviewed == Spec => []AgreementIsReviewed
<1>1. Init => AgreementIsReviewed
  BY DEF Init, AgreementIsReviewed
<1> QED BY <1>1, TypeCorrect, AgreementStep, PTL DEF Spec

\* Only the emit stage's PATCH dismisses an alert.
LEMMA OnlyDismissCalls ==
  ASSUME [Next]_vars
  PROVE  UNCHANGED calls \/ \E a \in Alerts : Dismiss(a)
<1>1. ASSUME NEW a \in Alerts,
             \/ SkipIngested(a) \/ IngestFails(a) \/ Replay(a) \/ Ingest(a)
             \/ NoRuleMatches(a) \/ RuleMatches(a) \/ NoAdapter(a) \/ Measure(a)
             \/ Requeue(a) \/ Defer(a) \/ Judge(a) \/ RejectMechanically(a)
             \/ ValidatorUnavailable(a) \/ ValidatorAnswers(a)
             \/ KeepOpen(a) \/ DismissalFails(a) \/ RecordDismissal(a)
      PROVE  UNCHANGED calls
  BY <1>1 DEF SkipIngested, IngestFails, Replay, Ingest, NoRuleMatches, RuleMatches, NoAdapter,
              Measure, Requeue, Defer, Judge, RejectMechanically, ValidatorUnavailable,
              ValidatorAnswers, Settle, KeepOpen, DismissalFails, RecordDismissal
<1>2. ASSUME \/ \E r \in Runs, m \in Modes : Begin(r, m)
             \/ TakeSnapshot \/ NextStage \/ Dedup \/ CheckShallow \/ Finish
             \/ \E c \in ClusterIds, a \in Alerts : Inherit(c, a) \/ NothingToInherit(c, a)
             \/ Stop \/ UNCHANGED vars
      PROVE  UNCHANGED calls
  BY <1>2 DEF Begin, TakeSnapshot, NextStage, Dedup, CheckShallow, Finish, Inherit,
              NothingToInherit, Stop, vars
<1> QED BY <1>1, <1>2 DEF Next, Step, Rest

\* Under a gate that requires agreement, every dismissal in every interleaving
\* of passes, kills and runs rests on a closable verdict the validator reviewed
\* for that alert.
THEOREM DismissalsReviewed == Spec => DismissalReviewed
<1> DEFINE Reviewed ==
      \A a \in Alerts :
        calls'[a] > calls[a] /\ RequireAgreement =>
          verdict[a].closable /\ Review(a, verdict[a]) \in agreed
<1>1. ASSUME ChainInv, AgreementIsReviewed, [Next]_vars PROVE [Reviewed]_vars
  <2> SUFFICES ASSUME NEW a \in Alerts, calls'[a] > calls[a], RequireAgreement
               PROVE  verdict[a].closable /\ Review(a, verdict[a]) \in agreed
    OBVIOUS
  <2>1. calls \in [Alerts -> Nat]
    BY <1>1 DEF ChainInv, TypeOK
  <2>2. PICK b \in Alerts : Dismiss(b)
    BY <1>1, <2>1, OnlyDismissCalls
  <2>3. b = a
    BY <2>1, <2>2 DEF Dismiss
  <2>4. verdict[a] # NoVerdict
    BY <1>1, <2>2, <2>3 DEF Dismiss, ChainInv, TodoAdmitted, Admitted
  <2>5. verdict[a].closable /\ verdict[a].validated = "agreed"
    BY <2>2, <2>3 DEF Dismiss, GateOpen
  <2> QED BY <1>1, <2>4, <2>5 DEF AgreementIsReviewed
<1>2. Spec => []ChainInv
  BY ChainInit, ChainStep, PTL DEF Spec
<1> QED BY <1>1, <1>2, AgreementReviewed, PTL DEF Spec, DismissalReviewed
-----------------------------------------------------------------------------
(* Steps by what they do to the stage rows.                                 *)

\* A handler writes one row of one alert on its list, and with a row that says
\* so the alert, its bundle or its verdict.
RowWrite(a, s, status) ==
  /\ RecordStage(a, s, status) /\ run \in Runs
  /\ todo' = todo \ {a} /\ UNCHANGED <<pc, run, mode, batch>>
  /\ a \in todo \/ s = "emit"
  /\ \A r \in Runs, b \in Alerts :
       ~(pc = "evidence" /\ r = run /\ b = a) => bundle'[r][b] = bundle[r][b]
  /\ s = "ingest" /\ status # "failed" => a \in known'
  /\ s = "policy" /\ status = "skipped" => verdict'[a] # NoVerdict
  /\ s = "judgment" /\ status = "done" => verdict'[a] # NoVerdict
  /\ \/ s = "ingest" /\ pc = "ingest" /\ ~Complete(run, a, "ingest")
                     /\ status \in {"done", "skipped", "failed"}
     \/ s = "policy" /\ pc = "policy" /\ status \in {"done", "skipped"}
     \/ s = "evidence" /\ pc = "evidence" /\ status \in {"done", "failed"}
     \/ s = "evidence" /\ pc = "requeue" /\ status = "failed"
     \/ s = "judgment" /\ pc = "judgment" /\ status \in {"done", "failed", "budget_deferred"}
     \/ s = "validate" /\ pc = "validate" /\ status \in {"done", "failed"}
     \/ s = "emit" /\ pc = "emit" /\ status \in {"done", "failed"}

\* Every step leaves rows and bundles alone and takes nothing off the list of a
\* stage after ingest, writes one row, or is the transaction of the dedup stage.
LEMMA StepsByRow ==
  ASSUME TypeOK, [Next]_vars
  PROVE  \/ UNCHANGED <<st, bundle>> /\ (pc' = pc /\ pc # "ingest" => todo' = todo)
         \/ Dedup
         \/ \E a \in Alerts, s \in Stages, status \in Statuses : RowWrite(a, s, status)
<1>0. pc # "idle" => run \in Runs
  BY DEF TypeOK
<1>1. ASSUME \/ \E r \in Runs, m \in Modes : Begin(r, m)
             \/ TakeSnapshot \/ NextStage \/ CheckShallow \/ Finish
             \/ \E a \in Alerts : SkipIngested(a) \/ Dismiss(a)
             \/ \E c \in ClusterIds, a \in Alerts : Inherit(c, a) \/ NothingToInherit(c, a)
             \/ Stop \/ UNCHANGED vars
      PROVE  UNCHANGED <<st, bundle>> /\ (pc' = pc /\ pc # "ingest" => todo' = todo)
  <2>1. CASE NextStage
    <3>1. UNCHANGED <<st, bundle>>
      BY <2>1 DEF NextStage, db
    <3>2. pc' # pc
      BY <2>1 DEF NextStage, Following, TypeOK, Places, Stages
    <3> QED BY <3>1, <3>2
  <2>2. CASE CheckShallow
    BY <2>2 DEF CheckShallow, db
  <2>3. CASE ~NextStage /\ ~CheckShallow
    BY <1>1, <2>3 DEF Begin, TakeSnapshot, Finish, SkipIngested, Dismiss,
                Inherit, NothingToInherit, Stop, vars, db, process
  <2> QED BY <2>1, <2>2, <2>3
<1>2. ASSUME NEW a \in Alerts, IngestFails(a) \/ Replay(a) \/ Ingest(a)
      PROVE  \E status \in Statuses : RowWrite(a, "ingest", status)
  BY <1>0, <1>2 DEF IngestFails, Replay, Ingest, RowWrite, Statuses
<1>3. ASSUME NEW a \in Alerts, NoRuleMatches(a) PROVE RowWrite(a, "policy", "done")
  BY <1>0, <1>3 DEF NoRuleMatches, RowWrite
<1>4. ASSUME NEW a \in Alerts, RuleMatches(a) PROVE RowWrite(a, "policy", "skipped")
  <2>1. PICK ok \in BOOLEAN :
          Put(a, [run |-> run, by |-> "policy", about |-> a, closable |-> ok,
                  validated |-> "null", tree |-> snap])
    BY <1>4 DEF RuleMatches
  <2>2. [run |-> run, by |-> "policy", about |-> a, closable |-> ok,
         validated |-> "null", tree |-> snap] \in Verdicts
    BY <1>4, <1>0 DEF RuleMatches, TypeOK, Verdicts
  <2>3. verdict'[a] # NoVerdict
    BY <2>1, <2>2, PutEffect, PipelineAssumption
  <2> QED BY <1>0, <1>4, <2>3 DEF RuleMatches, RowWrite
<1>5. ASSUME NEW a \in Alerts, NoAdapter(a) \/ Measure(a) \/ Requeue(a)
      PROVE  \E status \in Statuses : RowWrite(a, "evidence", status)
  <2>1. CASE NoAdapter(a) \/ Requeue(a)
    BY <1>0, <2>1 DEF NoAdapter, Requeue, RowWrite, Statuses
  <2>2. CASE Measure(a)
    <3>1. run \in Runs
      BY <1>0, <2>2 DEF Measure
    <3>2. \A r \in Runs, b \in Alerts : ~(r = run /\ b = a) => bundle'[r][b] = bundle[r][b]
      BY <2>2, <3>1 DEF Measure, TypeOK
    <3>3. RowWrite(a, "evidence", "done")
      BY <2>2, <3>1, <3>2 DEF Measure, RowWrite
    <3> QED BY <3>3 DEF Statuses
  <2> QED BY <1>5, <2>1, <2>2
<1>6. ASSUME NEW a \in Alerts, Defer(a) PROVE RowWrite(a, "judgment", "budget_deferred")
  BY <1>0, <1>6 DEF Defer, RowWrite
<1>7. ASSUME NEW a \in Alerts, Judge(a)
      PROVE  \E status \in Statuses : RowWrite(a, "judgment", status)
  <2>1. PICK status \in {"done", "failed"}, ok \in BOOLEAN :
          /\ RecordStage(a, "judgment", status)
          /\ Put(a, [run |-> run, by |-> "judgment", about |-> a, closable |-> ok,
                     validated |-> "null", tree |-> snap])
    BY <1>7 DEF Judge
  <2>2. [run |-> run, by |-> "judgment", about |-> a, closable |-> ok,
         validated |-> "null", tree |-> snap] \in Verdicts
    BY <1>7, <1>0 DEF Judge, TypeOK, Verdicts
  <2>3. verdict'[a] # NoVerdict
    BY <2>1, <2>2, PutEffect, PipelineAssumption
  <2>4. RowWrite(a, "judgment", status)
    BY <1>0, <1>7, <2>1, <2>3 DEF Judge, RowWrite
  <2> QED BY <2>4 DEF Statuses
<1>8. ASSUME NEW a \in Alerts, RejectMechanically(a) \/ ValidatorUnavailable(a)
                                                    \/ ValidatorAnswers(a)
      PROVE  \E status \in Statuses : RowWrite(a, "validate", status)
  BY <1>0, <1>8 DEF RejectMechanically, ValidatorUnavailable, ValidatorAnswers, Validating,
                    Settle, RowWrite, Statuses
<1>9. ASSUME NEW a \in Alerts, KeepOpen(a) \/ DismissalFails(a) \/ RecordDismissal(a)
      PROVE  \E status \in Statuses : RowWrite(a, "emit", status)
  BY <1>0, <1>9 DEF KeepOpen, DismissalFails, RecordDismissal, RowWrite, Statuses
<1>10. {"ingest", "policy", "evidence", "judgment", "validate", "emit"} \subseteq Stages
       /\ {"done", "skipped", "budget_deferred"} \subseteq Statuses
  BY DEF Stages, Statuses
<1> QED BY <1>1, <1>2, <1>3, <1>4, <1>5, <1>6, <1>7, <1>8, <1>9, <1>10 DEF Next, Step, Rest

\* The transaction of the dedup stage, row by row.
LEMMA DedupEffect ==
  ASSUME TypeOK, Dedup
  PROVE  /\ pc = "dedup" /\ run \in Runs /\ todo' = {}
         /\ UNCHANGED <<known, bundle, verdict, pc, run, mode, batch>>
         /\ \A r \in Runs, a \in Alerts, s \in Stages :
              IF r = run /\ a \in todo /\ s = "dedup"
              THEN st'[r][a][s] \in {"done", "skipped"}
              ELSE st'[r][a][s] = st[r][a][s]
<1>1. PICK canon \in Groupings(todo, AgentsOn) :
        st' = [st EXCEPT ![run] = [a \in Alerts |->
                IF a \in todo
                THEN [st[run][a] EXCEPT !["dedup"] = IF canon[a] = a THEN "done" ELSE "skipped"]
                ELSE st[run][a]]]
  BY DEF Dedup, DedupStatus
<1>2. pc = "dedup" /\ run \in Runs /\ todo' = {}
      /\ UNCHANGED <<known, bundle, verdict, pc, run, mode, batch>>
  BY DEF Dedup, TypeOK
<1>3. \A r \in Runs, a \in Alerts, s \in Stages :
        IF r = run /\ a \in todo /\ s = "dedup"
        THEN st'[r][a][s] \in {"done", "skipped"}
        ELSE st'[r][a][s] = st[r][a][s]
  BY <1>1, <1>2 DEF TypeOK
<1> QED BY <1>2, <1>3
\* Every step begins or ends a pass or a stage, takes the whole batch back, or
\* stays at its place with a list that does not grow.
LEMMA StepsByPlace ==
  ASSUME [Next]_vars
  PROVE  \/ NextStage
         \/ /\ pc' \in {"idle", "start", "ingest"} /\ pc' # pc
            /\ Stop \/ TakeSnapshot \/ Finish \/ \E r \in Runs, m \in Modes : Begin(r, m)
         \/ CheckShallow
         \/ UNCHANGED <<pc, run, mode, batch>> /\ todo' \subseteq todo /\ rows' \subseteq rows
<1>1. ASSUME NEW a \in Alerts,
             \/ SkipIngested(a) \/ IngestFails(a) \/ Replay(a) \/ Ingest(a)
             \/ NoRuleMatches(a) \/ RuleMatches(a) \/ NoAdapter(a) \/ Measure(a)
             \/ Requeue(a) \/ Defer(a) \/ Judge(a) \/ RejectMechanically(a)
             \/ ValidatorUnavailable(a) \/ ValidatorAnswers(a)
             \/ KeepOpen(a) \/ DismissalFails(a) \/ Dismiss(a) \/ RecordDismissal(a)
      PROVE  UNCHANGED <<pc, run, mode, batch>> /\ todo' \subseteq todo /\ rows' \subseteq rows
  BY <1>1 DEF SkipIngested, IngestFails, Replay, Ingest, NoRuleMatches, RuleMatches, NoAdapter,
              Measure, Requeue, Defer, Judge, RejectMechanically, ValidatorUnavailable,
              ValidatorAnswers, Settle, KeepOpen, DismissalFails, Dismiss, RecordDismissal
<1>2. ASSUME \/ \E c \in ClusterIds, a \in Alerts : Inherit(c, a) \/ NothingToInherit(c, a)
             \/ Dedup \/ UNCHANGED vars
      PROVE  UNCHANGED <<pc, run, mode, batch>> /\ todo' \subseteq todo /\ rows' \subseteq rows
  BY <1>2 DEF Inherit, NothingToInherit, Dedup, vars, process
<1>3. ASSUME \/ \E r \in Runs, m \in Modes : Begin(r, m)
             \/ TakeSnapshot \/ Finish \/ Stop
      PROVE  pc' \in {"idle", "start", "ingest"} /\ pc' # pc
  BY <1>3 DEF Begin, TakeSnapshot, Finish, Stop
<1> QED BY <1>1, <1>2, <1>3 DEF Next, Step, Rest
\* The steps that write a verdict; and the only one that writes cluster rows.
LEMMA StepsByVerdict ==
  ASSUME [Next]_vars
  PROVE  /\ \/ UNCHANGED verdict
            \/ \E a \in Alerts : \/ Replay(a) \/ RuleMatches(a) \/ Judge(a)
                                 \/ RejectMechanically(a) \/ ValidatorUnavailable(a)
                                 \/ ValidatorAnswers(a)
            \/ \E c \in ClusterIds, a \in Alerts : Inherit(c, a)
         /\ Dedup \/ UNCHANGED cluster
<1>1. ASSUME NEW a \in Alerts,
             \/ SkipIngested(a) \/ IngestFails(a) \/ Ingest(a) \/ NoRuleMatches(a)
             \/ NoAdapter(a) \/ Measure(a) \/ Requeue(a) \/ Defer(a)
             \/ KeepOpen(a) \/ DismissalFails(a) \/ Dismiss(a) \/ RecordDismissal(a)
      PROVE  UNCHANGED <<verdict, cluster>>
  BY <1>1 DEF SkipIngested, IngestFails, Ingest, NoRuleMatches, NoAdapter, Measure, Requeue,
              Defer, KeepOpen, DismissalFails, Dismiss, RecordDismissal, db
<1>2. ASSUME \/ \E r \in Runs, m \in Modes : Begin(r, m)
             \/ TakeSnapshot \/ NextStage \/ CheckShallow \/ Finish
             \/ \E c \in ClusterIds, a \in Alerts : NothingToInherit(c, a)
             \/ Stop \/ UNCHANGED vars
      PROVE  UNCHANGED <<verdict, cluster>>
  BY <1>2 DEF Begin, TakeSnapshot, NextStage, CheckShallow, Finish, NothingToInherit, Stop,
              vars, db
<1>3. Dedup => UNCHANGED verdict
  BY DEF Dedup
<1>4. ASSUME NEW a \in Alerts,
             \/ Replay(a) \/ RuleMatches(a) \/ Judge(a) \/ RejectMechanically(a)
             \/ ValidatorUnavailable(a) \/ ValidatorAnswers(a)
      PROVE  UNCHANGED cluster
  BY <1>4 DEF Replay, RuleMatches, Judge, RejectMechanically, ValidatorUnavailable,
              ValidatorAnswers, Settle
<1>5. ASSUME NEW c \in ClusterIds, NEW a \in Alerts, Inherit(c, a) PROVE UNCHANGED cluster
  BY <1>5 DEF Inherit
<1> QED BY <1>1, <1>2, <1>3, <1>4, <1>5 DEF Next, Step, Rest

\* What each of them writes, about which alert.
LEMMA VerdictWritten ==
  ASSUME TypeOK
  PROVE  /\ \A a \in Alerts : Replay(a) =>
              \E v \in Verdicts : Put(a, v) /\ pc = "ingest" /\ ~Complete(run, a, "ingest")
                                  /\ verdict[a] # NoVerdict
         /\ \A a \in Alerts : RuleMatches(a) =>
              \E v \in Verdicts : Put(a, v) /\ pc = "policy" /\ a \in todo
                                  /\ v.by = "policy" /\ v.validated = "null"
         /\ \A a \in Alerts : Judge(a) =>
              \E v \in Verdicts : Put(a, v) /\ pc = "judgment" /\ a \in todo
                                  /\ v.by = "judgment" /\ v.validated = "null"
         /\ \A a \in Alerts :
              RejectMechanically(a) \/ ValidatorUnavailable(a) \/ ValidatorAnswers(a) =>
              \E v \in Verdicts : /\ Put(a, v) /\ pc = "validate" /\ a \in todo
                                  /\ verdict[a] # NoVerdict
                                  /\ v.by = verdict[a].by /\ v.about = verdict[a].about
                                  /\ v.closable = verdict[a].closable
                                  /\ v.validated = "agreed" => ~Contradicted(a)
         /\ \A c \in ClusterIds, a \in Alerts : Inherit(c, a) =>
              \E v \in Verdicts, b \in Canonicals(c) :
                /\ Put(a, v) /\ pc = "propagate" /\ <<c, a>> \in rows /\ verdict[b] # NoVerdict
                /\ rows' = rows \ {<<c, a>>}
                /\ v.by = "inheritance" /\ v.validated = "null"
                /\ v.about = verdict[b].about /\ v.closable = verdict[b].closable
<1>0. (pc # "idle" => run \in Runs)
      /\ \A a \in Alerts : verdict[a] # NoVerdict => verdict[a] \in Verdicts
  BY DEF TypeOK
<1>1. ASSUME NEW a \in Alerts, Replay(a)
      PROVE  \E v \in Verdicts : Put(a, v) /\ pc = "ingest" /\ ~Complete(run, a, "ingest")
                                 /\ verdict[a] # NoVerdict
  <2>1. run \in Runs /\ verdict[a] \in Verdicts
    BY <1>0, <1>1 DEF Replay, Replayable
  <2>2. Copy(verdict[a], verdict[a].by, verdict[a].validated) \in Verdicts
    BY <2>1, CopyType DEF Verdicts
  <2> QED BY <1>1, <2>2 DEF Replay, Replayable
<1>2. ASSUME NEW a \in Alerts, RuleMatches(a)
      PROVE  \E v \in Verdicts : Put(a, v) /\ pc = "policy" /\ a \in todo
                                 /\ v.by = "policy" /\ v.validated = "null"
  <2>1. PICK ok \in BOOLEAN :
          Put(a, [run |-> run, by |-> "policy", about |-> a, closable |-> ok,
                  validated |-> "null", tree |-> snap])
    BY <1>2 DEF RuleMatches
  <2> DEFINE v == [run |-> run, by |-> "policy", about |-> a, closable |-> ok,
                   validated |-> "null", tree |-> snap]
  <2>2. v \in Verdicts /\ v.by = "policy" /\ v.validated = "null"
    BY <1>0, <1>2 DEF RuleMatches, TypeOK, Verdicts
  <2> QED BY <1>2, <2>1, <2>2 DEF RuleMatches
<1>3. ASSUME NEW a \in Alerts, Judge(a)
      PROVE  \E v \in Verdicts : Put(a, v) /\ pc = "judgment" /\ a \in todo
                                 /\ v.by = "judgment" /\ v.validated = "null"
  <2>1. PICK ok \in BOOLEAN :
          Put(a, [run |-> run, by |-> "judgment", about |-> a, closable |-> ok,
                  validated |-> "null", tree |-> snap])
    BY <1>3 DEF Judge
  <2> DEFINE v == [run |-> run, by |-> "judgment", about |-> a, closable |-> ok,
                   validated |-> "null", tree |-> snap]
  <2>2. v \in Verdicts /\ v.by = "judgment" /\ v.validated = "null"
    BY <1>0, <1>3 DEF Judge, TypeOK, Verdicts
  <2> QED BY <1>3, <2>1, <2>2 DEF Judge
<1>4. ASSUME NEW a \in Alerts,
             RejectMechanically(a) \/ ValidatorUnavailable(a) \/ ValidatorAnswers(a)
      PROVE  \E v \in Verdicts : /\ Put(a, v) /\ pc = "validate" /\ a \in todo
                                 /\ verdict[a] # NoVerdict
                                 /\ v.by = verdict[a].by /\ v.about = verdict[a].about
                                 /\ v.closable = verdict[a].closable
                                 /\ v.validated = "agreed" => ~Contradicted(a)
  <2>1. PICK status \in {"done", "failed"}, answer \in {"null", "agreed", "disputed"} :
          Settle(a, status, answer) /\ (answer = "agreed" => ~Contradicted(a))
    BY <1>4 DEF RejectMechanically, ValidatorUnavailable, ValidatorAnswers
  <2>2. pc = "validate" /\ a \in todo /\ verdict[a] # NoVerdict
    BY <1>4 DEF RejectMechanically, ValidatorUnavailable, ValidatorAnswers, Validating
  <2> DEFINE v == Copy(verdict[a], verdict[a].by, answer)
  <2>3. v \in Verdicts
    BY <1>0, <2>2, CopyType DEF Verdicts
  <2>4. v.by = verdict[a].by /\ v.about = verdict[a].about /\ v.closable = verdict[a].closable
        /\ v.validated = answer
    BY DEF Copy
  <2>5. Put(a, v)
    BY <2>1 DEF Settle
  <2> HIDE DEF v
  <2> QED BY <2>1, <2>2, <2>3, <2>4, <2>5
<1>5. ASSUME NEW c \in ClusterIds, NEW a \in Alerts, Inherit(c, a)
      PROVE  \E v \in Verdicts, b \in Canonicals(c) :
               /\ Put(a, v) /\ pc = "propagate" /\ <<c, a>> \in rows /\ verdict[b] # NoVerdict
               /\ rows' = rows \ {<<c, a>>}
               /\ v.by = "inheritance" /\ v.validated = "null"
               /\ v.about = verdict[b].about /\ v.closable = verdict[b].closable
  <2>1. PICK b \in Canonicals(c) :
          verdict[b] # NoVerdict /\ Put(a, Copy(verdict[b], "inheritance", "null"))
    BY <1>5 DEF Inherit
  <2> DEFINE v == Copy(verdict[b], "inheritance", "null")
  <2>2. v \in Verdicts
    BY <1>0, <1>5, <2>1, CopyType DEF Inherit, Canonicals
  <2>3. v.by = "inheritance" /\ v.validated = "null"
        /\ v.about = verdict[b].about /\ v.closable = verdict[b].closable
    BY DEF Copy
  <2>4. Put(a, v) /\ pc = "propagate" /\ <<c, a>> \in rows /\ rows' = rows \ {<<c, a>>}
    BY <1>5, <2>1 DEF Inherit
  <2> HIDE DEF v
  <2> QED BY <2>1, <2>2, <2>3, <2>4
<1> QED BY <1>1, <1>2, <1>3, <1>4, <1>5
=============================================================================
