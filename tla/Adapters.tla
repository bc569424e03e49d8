------------------------------ MODULE Adapters ------------------------------
(***************************************************************************)
(* The ecosystem adapters (harness/ecosystems): what each declares of      *)
(* itself, how each reads a dependency's scope out of a manifest, how each *)
(* turns its tool's outcome into a reachability measurement, and the clamp *)
(* every measurement goes through.  Confidences are percentages.           *)
(*                                                                         *)
(* A manifest is the sections that list the package, in the words of the   *)
(* ecosystem.  A tool outcome is a record whose "kind" says how far *)
(* the tool got; the fields the adapter reads after that are the others.   *)
(***************************************************************************)
EXTENDS Integers, Sequences, FiniteSets

CONSTANT Null   \* Python's None for a scalar

Min2(a, b) == IF a < b THEN a ELSE b

\* ReachabilityLevel and the ids the code compares with.
Absent == 0
Present == 1
Imported == 2
SymbolReferenced == 3
PathFromEntry == 4

Adapted == {"go", "pip", "npm", "cargo", "maven"}

ConfidenceCeiling == [go |-> 95, pip |-> 75, npm |-> 55, cargo |-> 90, maven |-> 70]

DevScopeIsConclusive(eco) == eco \in {"cargo", "maven"}

\* policy_confidence: without an adapter, CONFIDENCE_WHEN_ECOSYSTEM_UNKNOWN.
PolicyConfidence(eco) == IF eco \in Adapted THEN Min2(100, ConfidenceCeiling[eco]) ELSE 50

-----------------------------------------------------------------------------
(* resolve_scope.  A manifest is the sequence of the sections that list the *)
(* package, in document order.  An adapter makes its passes in order, and   *)
(* in the first pass that meets the package the first section answers.      *)

Scope(scope, direct) == [scope |-> scope, direct |-> direct]

\* What one section says of the packages it lists.
Says(section, scope, direct) == [section |-> section, answer |-> Scope(scope, direct)]

ScopePasses ==
  [go    |-> <<{Says("require", "runtime", TRUE), Says("indirect", "runtime", FALSE)}>>,
   npm   |-> <<{Says("dependencies", "runtime", TRUE), Says("optional", "runtime", TRUE),
                Says("peer", "runtime", TRUE)},
               {Says("dev", "development", TRUE)}>>,
   pip   |-> <<{Says("dependencies", "runtime", TRUE)},
               {Says("extra", "runtime", TRUE), Says("dev-extra", "development", TRUE)},
               {Says("group", "development", TRUE)},
               {Says("requirements", "runtime", Null)}>>,
   cargo |-> <<{Says("dependencies", "runtime", TRUE)}, {Says("dev", "development", TRUE)},
               {Says("build", "development", TRUE)},
               {Says("target", "runtime", TRUE), Says("target-dev", "development", TRUE)}>>,
   maven |-> <<{Says("compile", "runtime", TRUE), Says("test", "development", TRUE)}>>]

\* The words of an ecosystem.
Sections(eco) ==
  IF eco \in Adapted THEN {s.section : s \in UNION {ScopePasses[eco][k] : k \in DOMAIN ScopePasses[eco]}}
  ELSE {}

\* What an adapter says of a package no section lists: go and pip do not
\* resolve transitive packages, the others call them indirect.
Unlisted(eco) == Scope("unknown", IF eco \in {"go", "pip"} THEN Null ELSE FALSE)

Listed(sections, pass) == {i \in 1..Len(sections) : \E s \in pass : s.section = sections[i]}

ResolveScope(eco, sections) ==
  IF eco \notin Adapted THEN Scope("unknown", Null)
  ELSE LET passes == ScopePasses[eco] IN
       LET met    == {k \in 1..Len(passes) : Listed(sections, passes[k]) # {}} IN
       IF met = {} THEN Unlisted(eco)
       ELSE LET pass  == passes[CHOOSE k \in met : \A j \in met : k <= j] IN
            LET first == CHOOSE i \in Listed(sections, pass) :
                            \A j \in Listed(sections, pass) : i <= j IN
            (CHOOSE s \in pass : s.section = sections[first]).answer

-----------------------------------------------------------------------------
(* reachability: a measurement is [level, confidence, method, sites].       *)

Measured(level, confidence, sites) ==
  [level |-> level, confidence |-> confidence, method |-> "tool", sites |-> sites]

\* ReachabilityResult.failed: the only representation of a tool that did not run.
Failed == [level |-> Absent, confidence |-> 0, method |-> "failed", sites |-> FALSE]

\* GovulncheckFinding.level
FindingLevel(frame) == CASE frame = "function" -> PathFromEntry
                         [] frame = "package"  -> Imported
                         [] OTHER              -> Present

\* GovulncheckReport.to_result.  A report is the advisories govulncheck evaluated,
\* each under the alert's ids or another's, and findings [of, frame, placed]; an
\* alert no evaluated advisory names was never assessed.
ToResult(report) ==
  LET matched == {f \in report.findings : f.of = "alert"} IN
  LET best == CHOOSE l \in 0..4 : /\ \E f \in matched : l = FindingLevel(f.frame)
                                  /\ \A f \in matched : FindingLevel(f.frame) <= l IN
  IF "alert" \notin report.evaluated THEN Failed
  ELSE IF matched = {} THEN Measured(Present, 90, FALSE)
  ELSE Measured(best, IF best >= PathFromEntry THEN 95 ELSE 90,
                \E f \in matched : f.frame = "function" /\ f.placed)

\* GoAdapter.reachability: no go.mod, no tool, a timeout, no usable output.
GoReachability(out) == IF out.kind = "ran" THEN ToResult(out) ELSE Failed

\* PythonAdapter.reachability: normalize writes hyphens, an import statement
\* cannot hold one, so a package whose name has a separator is never found.
PythonReachability(out) ==
  LET importsModule == out.imported /\ ~out.hyphenated IN
  LET own == IF ~importsModule THEN Present
             ELSE IF out.referenced THEN SymbolReferenced ELSE Imported IN
  LET level == IF out.called /\ own < PathFromEntry THEN PathFromEntry ELSE own IN
  LET confidence == IF level >= SymbolReferenced THEN 75 ELSE 60 IN
  IF out.kind # "ran" THEN Failed
  ELSE Measured(level, IF out.dynamic THEN Min2(confidence, 50) ELSE confidence,
                importsModule /\ out.referenced)

\* EvidenceStage._reachability: no checkout, an adapter that does not measure,
\* and an exception are all failures.
Reachability(eco, out) ==
  CASE out.kind \in {"no_checkout", "raised"} -> Failed
    [] eco = "go"  -> GoReachability(out)
    [] eco = "pip" -> PythonReachability(out)
    [] OTHER       -> Failed

\* EcosystemAdapter.clamp: the ceiling, and the cap for unknown symbols.
Clamp(eco, symbolsKnown, m) ==
  LET capped == m.method # "failed" /\ ~symbolsKnown IN
  [m EXCEPT
     !.level = IF capped THEN Min2(m.level, Imported) ELSE m.level,
     !.confidence =
        LET held == Min2(m.confidence, ConfidenceCeiling[eco]) IN
        IF m.method = "failed" THEN 0 ELSE IF capped THEN Min2(held, 50) ELSE held]
=============================================================================
