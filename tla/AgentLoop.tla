----------------------------- MODULE AgentLoop -----------------------------
(***************************************************************************)
(* What the agent stages of one run spend: the ledger of models/budget.py, *)
(* asked before a task and charged after every answer, the retries of      *)
(* ModelClient.complete, and the bounded tool loop of agents/loop.py.  A   *)
(* task is one question a stage asks: the architecture of a repository     *)
(* (recon), the judgment of an alert, the check of a judged alert.         *)
(*                                                                         *)
(* Abstractions.  An answer is its token cost and what the client makes of *)
(* it.  A priced model costs one dollar unit per token, an unpriced one    *)
(* nothing.  The calls of dedup have the shape of recon's, repository      *)
(* scope and no tools, and are left out.                                   *)
(***************************************************************************)
EXTENDS Integers, FiniteSets

CONSTANTS
  Alerts, Repos,
  RepoOf,         \* [Alerts -> Repos]
  MaxToolCalls,   \* budgets.judgment_max_tool_calls
  Attempts,       \* ModelClient.max_attempts
  MinCost,        \* tokens of the cheapest answer, 0 if a provider may report no usage
  MaxCost,        \* tokens of the dearest call the context ceiling lets through
  MaxBatch,       \* bound: tool calls in one answer
  UsdCap,         \* per_run_usd, per_repo_usd, per_alert_usd
  TokenCap,       \* per_run_tokens, per_repo_tokens, per_alert_tokens, or NoCap
  BreachActions,  \* values of on_breach
  MayStop,        \* may a pass be killed half way?
  MaxPasses,      \* bound: invocations of the run
  NoAlert, NoRepo, NoCap

Scopes == {"run", "repo", "alert"}

ASSUME LoopAssumption ==
  /\ RepoOf \in [Alerts -> Repos]
  /\ MaxToolCalls \in Nat
  /\ Attempts \in Nat \ {0}
  /\ MaxCost \in Nat \ {0}
  /\ MinCost \in 0..MaxCost
  /\ MaxBatch \in Nat \ {0}
  /\ UsdCap \in [Scopes -> Nat]
  /\ TokenCap \in [Scopes -> (Nat \ {0}) \cup {NoCap}]
  /\ NoCap \notin Nat
  /\ BreachActions \subseteq {"queue_next_run", "warn", "fail"}
  /\ MayStop \in BOOLEAN
  /\ MaxPasses \in Nat
  /\ NoAlert \notin Alerts
  /\ NoRepo \notin Repos

AgentStages == {"recon", "judgment", "validate"}

\* A question: about a repository, or about one of its alerts.
Tasks == [repo : Repos, alert : Alerts \cup {NoAlert}]

NoTask == [repo |-> NoRepo, alert |-> NoAlert]

VARIABLES
  \* the database, and the configuration a resume finds unchanged
  runTokens, repoTokens, alertTokens,  \* sums over budget_ledger, per scope
  rows,        \* number of rows of budget_ledger
  mapped,      \* repositories with a cached architecture
  judged,      \* status of the judgment row
  checked,     \* status of the validate row
  priced,      \* are the model's rates known?
  onBreach,    \* budgets.on_breach
  \* the process
  pc, stage,
  todo,        \* tasks the stage has still to take up
  task,        \* the one under way
  attempt,     \* failed attempts of the call under way
  used,        \* toolbox.used
  asked,       \* tool calls of the answer in hand
  cost,        \* its tokens, not yet in the ledger
  passes,
  \* history
  served,      \* answers the provider gave
  paid         \* rows the task under way has added

ledger == <<runTokens, repoTokens, alertTokens, rows>>
results == <<mapped, judged, checked, priced, onBreach>>
call == <<attempt, used, asked, cost>>
history == <<served, paid>>
vars == <<ledger, results, pc, stage, todo, task, call, passes, history>>

-----------------------------------------------------------------------------
(* BudgetLedger.                                                            *)

\* The tokens ledgered at the scope a task is charged to.
Spent(scope, t) ==
  CASE scope = "run"   -> runTokens
    [] scope = "repo"  -> repoTokens[t.repo]
    [] scope = "alert" -> alertTokens[t.alert]

Dollars(tokens) == IF priced THEN tokens ELSE 0

ScopesOf(t) == IF t.alert = NoAlert THEN {"run", "repo"} ELSE Scopes

Over(scope, tokens) ==
  \/ Dollars(tokens) >= UsdCap[scope]
  \/ TokenCap[scope] # NoCap /\ tokens >= TokenCap[scope]

\* Variant: dollar caps only.
BreachedInDollars(t) ==
  \E scope \in ScopesOf(t) : Dollars(Spent(scope, t)) >= UsdCap[scope]

\* BudgetLedger.check refuses.
Breached(t) == \E scope \in ScopesOf(t) : Over(scope, Spent(scope, t))

\* BudgetLedger.record.
Charge(t, tokens) ==
  /\ runTokens' = runTokens + tokens
  /\ repoTokens' = [repoTokens EXCEPT ![t.repo] = @ + tokens]
  /\ alertTokens' = IF t.alert = NoAlert THEN alertTokens
                    ELSE [alertTokens EXCEPT ![t.alert] = @ + tokens]
  /\ rows' = rows + 1

-----------------------------------------------------------------------------
(* The run and its stages.                                                  *)

AlertTask(a) == [repo |-> RepoOf[a], alert |-> a]

\* What a stage takes up when it begins.
Pending(s) ==
  CASE s = "recon"    -> {[repo |-> r, alert |-> NoAlert] : r \in Repos \ mapped}
    [] s = "judgment" -> {AlertTask(a) : a \in {b \in Alerts : judged[b] # "done"}}
    [] s = "validate" -> {AlertTask(a) : a \in {b \in Alerts : /\ judged[b] = "done"
                                                               /\ checked[b] # "done"}}

AtRest == task' = NoTask /\ attempt' = 0 /\ used' = 0 /\ asked' = 0 /\ cost' = 0

Init ==
  /\ runTokens = 0
  /\ repoTokens = [r \in Repos |-> 0]
  /\ alertTokens = [a \in Alerts |-> 0]
  /\ rows = 0
  /\ mapped = {}
  /\ judged = [a \in Alerts |-> "none"]
  /\ checked = [a \in Alerts |-> "none"]
  /\ priced \in BOOLEAN /\ onBreach \in BreachActions
  /\ pc = "idle" /\ stage = "recon" /\ todo = {}
  /\ task = NoTask /\ attempt = 0 /\ used = 0 /\ asked = 0 /\ cost = 0
  /\ passes = 0 /\ served = 0 /\ paid = 0

\* Variant: a resumed run starts its ledger anew.
BeginAnew ==
  /\ pc = "idle" /\ passes < MaxPasses
  /\ pc' = "pick" /\ stage' = "recon" /\ todo' = Pending("recon")
  /\ passes' = passes + 1
  /\ runTokens' = 0 /\ repoTokens' = [r \in Repos |-> 0]
  /\ alertTokens' = [a \in Alerts |-> 0] /\ rows' = 0
  /\ UNCHANGED <<results, task, call, history>>

\* run, or resume of the same run id.
Begin ==
  /\ pc = "idle" /\ passes < MaxPasses
  /\ pc' = "pick" /\ stage' = "recon" /\ todo' = Pending("recon")
  /\ passes' = passes + 1
  /\ UNCHANGED <<ledger, results, task, call, history>>

\* A kill, or an exception no stage catches.
Stop ==
  /\ MayStop /\ pc # "idle"
  /\ pc' = "idle" /\ stage' = "recon" /\ todo' = {} /\ paid' = 0
  /\ AtRest
  /\ UNCHANGED <<ledger, results, passes, served>>

NextStage ==
  /\ pc = "pick" /\ todo = {}
  /\ IF stage = "validate"
     THEN pc' = "idle" /\ stage' = "recon" /\ todo' = {}
     ELSE /\ pc' = "pick"
          /\ stage' = IF stage = "recon" THEN "judgment" ELSE "validate"
          /\ todo' = Pending(stage')
  /\ UNCHANGED <<ledger, results, task, call, passes, history>>

\* What the stage records of a task that ended: an architecture only if it got
\* one, a judgment as it is, a check as "done" with or without an answer.
Conclude(t, status) ==
  /\ mapped' = IF stage = "recon" /\ status = "done" THEN mapped \cup {t.repo} ELSE mapped
  /\ judged' = IF stage = "judgment" THEN [judged EXCEPT ![t.alert] = status] ELSE judged
  /\ checked' = IF stage = "validate" THEN [checked EXCEPT ![t.alert] = "done"] ELSE checked
  /\ UNCHANGED <<priced, onBreach>>

\* The ledger refuses and on_breach is not "fail": the task is put off.
Refuse(t) ==
  /\ pc = "pick" /\ t \in todo /\ Breached(t) /\ onBreach # "fail"
  /\ todo' = todo \ {t}
  /\ Conclude(t, "budget_deferred")
  /\ UNCHANGED <<ledger, pc, stage, task, call, passes, history>>

\* BudgetExceeded aborts the run.
BudgetFails(t) ==
  /\ pc = "pick" /\ t \in todo /\ Breached(t) /\ onBreach = "fail"
  /\ pc' = "idle" /\ stage' = "recon" /\ todo' = {}
  /\ UNCHANGED <<ledger, results, task, call, passes, history>>

\* A mechanical check rejects the verdict before anybody is asked.
RejectMechanically(t) ==
  /\ pc = "pick" /\ stage = "validate" /\ t \in todo
  /\ todo' = todo \ {t}
  /\ checked' = [checked EXCEPT ![t.alert] = "failed"]
  /\ UNCHANGED <<ledger, mapped, judged, priced, onBreach, pc, stage, task, call, passes, history>>

\* A request is put together, with a toolbox of its own.
Ask(t) ==
  /\ pc = "pick" /\ t \in todo /\ ~Breached(t)
  /\ todo' = todo \ {t}
  /\ pc' = "call" /\ task' = t /\ paid' = 0
  /\ UNCHANGED <<ledger, results, stage, call, passes, served>>

-----------------------------------------------------------------------------
(* ModelClient.complete and run_agent_loop.                                 *)

EndTask(status) ==
  /\ pc' = "pick" /\ paid' = 0
  /\ AtRest
  /\ Conclude(task, status)
  /\ UNCHANGED <<ledger, stage, todo, passes, served>>

\* ContextCeilingExceeded: the request, its history included, is measured once
\* per call, before the first attempt.
CeilingExceeded == pc = "call" /\ attempt = 0 /\ EndTask("failed")

\* Variant: one attempt too many.
TryAgainOnceMore ==
  /\ attempt < Attempts
  /\ attempt' = attempt + 1 /\ pc' = "backoff"
  /\ UNCHANGED <<ledger, results, stage, todo, task, used, asked, cost, passes, history>>

\* retry_with_backoff, another attempt.
TryAgain ==
  /\ attempt + 1 < Attempts
  /\ attempt' = attempt + 1 /\ pc' = "backoff"
  /\ UNCHANGED <<ledger, results, stage, todo, task, used, asked, cost, passes, history>>

Backoff ==
  /\ pc = "backoff" /\ pc' = "call"
  /\ UNCHANGED <<ledger, results, stage, todo, task, call, passes, history>>

\* RetryExhausted.
GiveUp == attempt + 1 = Attempts /\ EndTask("failed")

\* Variant: an attempt that raised is not counted.
ProviderRaisesUncounted ==
  /\ pc = "call" /\ pc' = "backoff"
  /\ UNCHANGED <<ledger, results, stage, todo, task, call, passes, history>>

\* The provider raised: worth another attempt, or not (ProviderConfigurationError).
\* Nothing is ledgered.
ProviderRaises == pc = "call" /\ (TryAgain \/ GiveUp \/ EndTask("failed"))

ProviderAnswers ==
  /\ pc = "call"
  /\ cost' \in MinCost..MaxCost
  /\ pc' = "answer" /\ served' = served + 1
  /\ UNCHANGED <<ledger, results, stage, todo, task, attempt, used, asked, passes, paid>>

\* Variant: only a usable answer is ledgered.
RecordUsable ==
  /\ pc = "answer"
  /\ \/ Charge(task, cost)
     \/ UNCHANGED ledger
  /\ pc' = "classify" /\ cost' = 0 /\ paid' = paid + 1
  /\ UNCHANGED <<results, stage, todo, task, attempt, used, asked, passes, served>>

\* The row is written before the answer is judged.
Record ==
  /\ pc = "answer"
  /\ Charge(task, cost)
  /\ pc' = "classify" /\ cost' = 0 /\ paid' = paid + 1
  /\ UNCHANGED <<results, stage, todo, task, attempt, used, asked, passes, served>>

\* Empty, truncated or an error text: retried.  A refusal is not.
AnswerUnusable == pc = "classify" /\ (TryAgain \/ GiveUp \/ EndTask("failed"))

\* A final answer; it may not parse or fail its schema.
FinalAnswer == pc = "classify" /\ \E status \in {"done", "failed"} : EndTask(status)

\* Only the judgment agent is given tools.
ToolsRequested ==
  /\ pc = "classify" /\ stage = "judgment"
  /\ asked' \in 1..MaxBatch
  /\ pc' = "tools" /\ attempt' = 0
  /\ UNCHANGED <<ledger, results, stage, todo, task, used, cost, passes, history>>

\* Every call is executed, known tool or not, and fed back: another turn.
UseTools ==
  /\ pc = "tools" /\ used + asked <= MaxToolCalls
  /\ used' = used + asked /\ asked' = 0 /\ pc' = "call"
  /\ UNCHANGED <<ledger, results, stage, todo, task, attempt, cost, passes, history>>

\* ToolCallCapReached: the loop stops and the judgment is "could not determine".
ToolCapReached == pc = "tools" /\ used + asked > MaxToolCalls /\ EndTask("done")

Step ==
  \/ NextStage
  \/ \E t \in Tasks : Refuse(t) \/ BudgetFails(t) \/ RejectMechanically(t) \/ Ask(t)
  \/ CeilingExceeded \/ Backoff \/ ProviderRaises \/ ProviderAnswers \/ Record
  \/ AnswerUnusable \/ FinalAnswer \/ ToolsRequested \/ UseTools \/ ToolCapReached

Rest == pc = "idle" /\ UNCHANGED vars

Next == Begin \/ Step \/ Stop \/ Rest

Spec == Init /\ [][Next]_vars

\* A pass that is not killed keeps running.
FairSpec == Spec /\ WF_vars(Step)

-----------------------------------------------------------------------------
(* Properties.                                                              *)

TypeOK ==
  /\ runTokens \in Nat
  /\ repoTokens \in [Repos -> Nat]
  /\ alertTokens \in [Alerts -> Nat]
  /\ rows \in Nat
  /\ mapped \subseteq Repos
  /\ judged \in [Alerts -> {"none", "done", "failed", "budget_deferred"}]
  /\ checked \in [Alerts -> {"none", "done", "failed"}]
  /\ priced \in BOOLEAN /\ onBreach \in BreachActions
  /\ pc \in {"idle", "pick", "call", "backoff", "answer", "classify", "tools"}
  /\ stage \in AgentStages
  /\ todo \subseteq Tasks
  /\ task \in Tasks \cup {NoTask}
  /\ attempt \in 0..(Attempts - 1)
  /\ used \in 0..MaxToolCalls
  /\ asked \in 0..MaxBatch
  /\ cost \in 0..MaxCost
  /\ passes \in 0..MaxPasses
  /\ served \in Nat /\ paid \in Nat

\* The most one task can add to the ledger: every turn of the tool loop, every
\* attempt of each turn, at the dearest.
Burst == (MaxToolCalls + 1) * Attempts * MaxCost

\* A cap, in tokens, that the configuration sets on a scope.
Caps(scope) ==
  ({TokenCap[scope]} \ {NoCap}) \cup (IF priced THEN {UsdCap[scope]} ELSE {})

\* BudgetLedger: the caps survive a crash.  The ledger is asked once per task
\* and not per call, so a scope exceeds its cap by less than one task, however
\* often the run is killed and resumed; an unpriced model is held by the token
\* caps alone.  No repository consumes the fleet's budget.
CapsHold ==
  /\ \A c \in Caps("run") : runTokens < c + Burst
  /\ \A c \in Caps("repo"), r \in Repos : repoTokens[r] < c + Burst
  /\ \A c \in Caps("alert"), a \in Alerts : alertTokens[a] < c + Burst

\* models/budget.py: "Every model call is ledgered."  A kill can lose the row of
\* the one answer in hand, and nothing else does: a retried, refused or
\* truncated answer is charged too.
OneCallLostPerPass == served <= rows + passes

\* on_breach queue_next_run: within the run the ledger only grows, so an alert
\* that was put off stays put off, however often the run is resumed.
DeferredUntilNextRun ==
  [][\A a \in Alerts : judged[a] = "budget_deferred" => judged'[a] = "budget_deferred"]_vars

\* Every question ends in an answer, a refusal or a failure: retries and tool
\* calls are bounded, whatever the provider returns.
EveryQuestionEnds ==
  pc \in {"call", "backoff", "answer", "classify", "tools"} ~> pc \in {"pick", "idle"}
=============================================================================
