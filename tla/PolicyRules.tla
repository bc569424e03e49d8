----------------------------- MODULE PolicyRules -----------------------------
(***************************************************************************)
(* The deterministic rules (policy/rules.py), in the order and with the    *)
(* outcomes config/policy.yaml gives them, and the engine that takes the   *)
(* first that decides (policy/engine.py).                                  *)
(*                                                                         *)
(* An alert is a record with eco, package, purl, manifest, resolved,       *)
(* patched, scope, direct, kev, cvss (in tenths, Unknown when the advisory *)
(* carries none).  Facts are index, shipped, targets (each Unknown when    *)
(* the repository could not be asked) and sibling, the patched versions of *)
(* the other open advisories on the same package and manifest.  Targets    *)
(* are the entries, or names, of the build targets that ship.              *)
(***************************************************************************)
EXTENDS Versions, Adapters, Artifact

CvssMin == 90

\* RuleOutcome, with the confidence policy.py writes beside it.
Outcome(rule, verdict, justification, human) ==
  [rule |-> rule, verdict |-> verdict, justification |-> justification, human |-> human]

NoOutcome == Outcome("none", "none", FALSE, FALSE)

OutcomeOf ==
  [already_fixed       |-> Outcome("already_fixed", "fixed", FALSE, FALSE),
   kev_direct_critical |-> Outcome("kev_direct_critical", "affected", FALSE, TRUE),
   dev_only            |-> Outcome("dev_only", "not_affected", TRUE, FALSE),
   not_imported        |-> Outcome("not_imported", "not_affected", TRUE, FALSE),
   superseded          |-> Outcome("superseded", "affected", FALSE, FALSE),
   trivial_patch       |-> Outcome("trivial_patch", "affected", FALSE, FALSE)]

\* Variant: the clearances before the escalation.
ClearancesFirst == <<"already_fixed", "dev_only", "not_imported", "kev_direct_critical",
                     "superseded", "trivial_patch">>

PolicyYaml == <<"already_fixed", "kev_direct_critical", "dev_only", "not_imported",
                "superseded", "trivial_patch">>

AlreadyFixed(a, f) == AtOrAbove(a.resolved, a.patched) = "yes"

KevDirectCritical(a, f) ==
  /\ a.kev
  /\ a.direct = TRUE
  /\ a.cvss # Unknown
  /\ a.cvss >= CvssMin

\* The rule looks for the alert's purl and manifest among strings that name build
\* targets: known targets are seldom a reason to decline.
DevOnly(a, f) ==
  /\ a.scope = "development"
  /\ IF f.targets = Unknown THEN DevScopeIsConclusive(a.eco)
     ELSE a.purl \notin f.targets /\ a.manifest \notin f.targets

\* Variant: the artifact alone is asked.
NotShipped(a, f) == Scannable(a.eco) /\ f.shipped # Unknown /\ a.package \notin f.shipped

NotImported(a, f) ==
  /\ Scannable(a.eco)
  /\ f.index # Unknown
  /\ a.package \notin f.index
  /\ f.shipped # Unknown
  /\ a.package \notin f.shipped

\* superseding_fix_for: another advisory whose patch is above this one's.
Superseded(a, f) ==
  /\ Parses(a.patched)
  /\ \E v \in f.sibling : Parses(v) /\ Less(a.patched, v)

TrivialPatch(a, f) == IsPatchLevelBump(a.resolved, a.patched) = "yes"

Decides(rule, a, f) ==
  CASE rule = "already_fixed"       -> AlreadyFixed(a, f)
    [] rule = "kev_direct_critical" -> KevDirectCritical(a, f)
    [] rule = "dev_only"            -> DevOnly(a, f)
    [] rule = "not_imported"        -> NotImported(a, f)
    [] rule = "superseded"          -> Superseded(a, f)
    [] rule = "trivial_patch"       -> TrivialPatch(a, f)

\* PolicyEngine.evaluate: rules in order, the first that does not decline.
Evaluate(rules, a, f) ==
  LET deciding == {i \in 1..Len(rules) : Decides(rules[i], a, f)} IN
  IF deciding = {} THEN NoOutcome
  ELSE OutcomeOf[rules[CHOOSE i \in deciding : \A j \in deciding : i <= j]]

\* RuleOutcome.is_clearance and mechanical.DISMISSING_VERDICTS.
Dismissing == {"not_affected", "fixed"}
=============================================================================
