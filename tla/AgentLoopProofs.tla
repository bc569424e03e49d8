--------------------------- MODULE AgentLoopProofs ---------------------------
(***************************************************************************)
(* Proofs about AgentLoop: type correctness, the caps, the ledger's losses *)
(* and the finality of a deferral, for any caps, alerts and repositories   *)
(* and any number of passes.                                               *)
(***************************************************************************)
EXTENDS AgentLoop, TLAPS

USE LoopAssumption DEF Scopes, AgentStages

Asking == {"call", "backoff", "answer", "classify", "tools"}

\* What a stage takes up are tasks.
LEMMA PendingType == \A s \in AgentStages : Pending(s) \subseteq Tasks
BY DEF Pending, Tasks, AlertTask

LEMMA ConcludeType ==
  ASSUME TypeOK, NEW t, NEW status \in {"done", "failed", "budget_deferred"}, Conclude(t, status),
         stage = "recon" /\ status = "done" => t.repo \in Repos
  PROVE  /\ mapped' \subseteq Repos
         /\ judged' \in [Alerts -> {"none", "done", "failed", "budget_deferred"}]
         /\ checked' \in [Alerts -> {"none", "done", "failed"}]
         /\ priced' \in BOOLEAN /\ onBreach' \in BreachActions
BY DEF TypeOK, Conclude

LEMMA EndTaskType ==
  ASSUME TypeOK, NEW status \in {"done", "failed"}, EndTask(status), task \in Tasks
  PROVE  TypeOK'
<1>1. task.repo \in Repos
  BY DEF Tasks
<1>2. Conclude(task, status)
  BY DEF EndTask
<1>3. /\ mapped' \subseteq Repos
      /\ judged' \in [Alerts -> {"none", "done", "failed", "budget_deferred"}]
      /\ checked' \in [Alerts -> {"none", "done", "failed"}]
      /\ priced' \in BOOLEAN /\ onBreach' \in BreachActions
  BY <1>1, <1>2, ConcludeType
<1> QED
  BY <1>3 DEF TypeOK, EndTask, AtRest, ledger

LEMMA TryAgainType == TypeOK /\ TryAgain => TypeOK'
BY DEF TypeOK, TryAgain, ledger, results, history

LEMMA ChargeType ==
  ASSUME TypeOK, NEW t \in Tasks, Charge(t, cost)
  PROVE  /\ runTokens' \in Nat /\ rows' \in Nat
         /\ repoTokens' \in [Repos -> Nat]
         /\ alertTokens' \in [Alerts -> Nat]
<1>1. t.repo \in Repos /\ t.alert \in Alerts \cup {NoAlert} /\ cost \in Nat
  BY DEF Tasks, TypeOK
<1>2. runTokens' \in Nat /\ rows' \in Nat
  BY <1>1 DEF Charge, TypeOK
<1>3. repoTokens' \in [Repos -> Nat]
  BY <1>1 DEF Charge, TypeOK
<1>4. alertTokens' \in [Alerts -> Nat]
  BY <1>1 DEF Charge, TypeOK
<1> QED
  BY <1>2, <1>3, <1>4

\* A question is under way exactly when there is a task.
Busy == TypeOK /\ (pc \in Asking => task \in Tasks)

LEMMA BusyInit == Init => Busy
BY DEF Init, Busy, TypeOK, Asking, NoTask

LEMMA BusyStep == Busy /\ [Next]_vars => Busy'
<1> SUFFICES ASSUME Busy, [Next]_vars PROVE Busy'
  OBVIOUS
<1> USE DEF Busy
<1>1. CASE Begin
  BY <1>1, PendingType DEF Begin, TypeOK, Asking, ledger, results, call, history
<1>2. CASE NextStage
  BY <1>2, PendingType DEF NextStage, TypeOK, Asking, ledger, results, call, history
<1>3. ASSUME NEW t \in Tasks, Refuse(t) PROVE Busy'
  <2>1. Conclude(t, "budget_deferred")
    BY <1>3 DEF Refuse
  <2>2. /\ mapped' \subseteq Repos
        /\ judged' \in [Alerts -> {"none", "done", "failed", "budget_deferred"}]
        /\ checked' \in [Alerts -> {"none", "done", "failed"}]
        /\ priced' \in BOOLEAN /\ onBreach' \in BreachActions
    BY <2>1, ConcludeType
  <2> QED
    BY <1>3, <2>2 DEF Refuse, TypeOK, Asking, ledger, call, history
<1>4. ASSUME NEW t \in Tasks, BudgetFails(t) PROVE Busy'
  BY <1>4 DEF BudgetFails, TypeOK, Asking, ledger, results, call, history
<1>5. ASSUME NEW t \in Tasks, RejectMechanically(t) PROVE Busy'
  BY <1>5 DEF RejectMechanically, TypeOK, Asking, ledger, call, history
<1>6. ASSUME NEW t \in Tasks, Ask(t) PROVE Busy'
  BY <1>6 DEF Ask, TypeOK, Asking, ledger, results, call
<1>7. ASSUME NEW status \in {"done", "failed"}, EndTask(status), pc \in Asking PROVE Busy'
  BY <1>7, EndTaskType DEF EndTask, Asking
<1>8. ASSUME TryAgain, pc \in Asking PROVE Busy'
  BY <1>8, TryAgainType DEF TryAgain, Asking
<1>9. CASE CeilingExceeded \/ AnswerUnusable \/ ProviderRaises \/ FinalAnswer \/ ToolCapReached
  BY <1>7, <1>8, <1>9
     DEF CeilingExceeded, AnswerUnusable, ProviderRaises, FinalAnswer, ToolCapReached, GiveUp, Asking
<1>10. CASE Backoff
  BY <1>10 DEF Backoff, TypeOK, Asking, ledger, results, call, history
<1>11. CASE ProviderAnswers
  BY <1>11 DEF ProviderAnswers, TypeOK, Asking, ledger, results
<1>12. CASE Record
  <2>1. Charge(task, cost) /\ task \in Tasks
    BY <1>12 DEF Record, Asking
  <2>2. /\ runTokens' \in Nat /\ rows' \in Nat
        /\ repoTokens' \in [Repos -> Nat]
        /\ alertTokens' \in [Alerts -> Nat]
    BY <2>1, ChargeType
  <2> QED
    BY <1>12, <2>2 DEF Record, TypeOK, Asking, results
<1>13. CASE ToolsRequested
  BY <1>13 DEF ToolsRequested, TypeOK, Asking, ledger, results, history
<1>14. CASE UseTools
  BY <1>14 DEF UseTools, TypeOK, Asking, ledger, results, history
<1>15. CASE Stop
  BY <1>15 DEF Stop, AtRest, TypeOK, Asking, NoTask, ledger, results
<1>16. CASE UNCHANGED vars
  BY <1>16 DEF vars, TypeOK, Asking, ledger, results, call, history
<1> QED
  BY <1>1, <1>2, <1>3, <1>4, <1>5, <1>6, <1>9, <1>10, <1>11, <1>12, <1>13, <1>14, <1>15, <1>16
     DEF Next, Step, Rest

\* The ledger, the stage rows and the process stay well typed: no retry goes
\* past max_attempts and no toolbox past its cap.
THEOREM LoopTypeCorrect == Spec => []TypeOK
<1>1. Busy => TypeOK
  BY DEF Busy
<1> QED
  BY <1>1, BusyInit, BusyStep, PTL DEF Spec

-----------------------------------------------------------------------------
(* The caps.                                                                *)

\* How many rows the task under way can have added by now: every turn before
\* this one used at least one tool call and at most Attempts rows.
PaidBound ==
  CASE pc \in {"call", "backoff", "answer"} -> used * Attempts + attempt
    [] pc = "classify" -> used * Attempts + attempt + 1
    [] pc = "tools"    -> used * Attempts + Attempts
    [] OTHER -> 0

Bounded ==
  /\ paid <= PaidBound
  /\ pc = "tools" => asked >= 1 /\ attempt = 0

\* A scope the task is charged to was below its caps when the ledger was asked.
Afforded ==
  pc \in Asking =>
    \A scope \in ScopesOf(task) : \A c \in Caps(scope) : Spent(scope, task) < c + paid * MaxCost

CapsInv == Busy /\ Bounded /\ Afforded /\ CapsHold

\* Multiplication, for the solver.
LEMMA TimesMonotone ==
  ASSUME NEW x \in Nat, NEW y \in Nat, NEW k \in Nat, x <= y
  PROVE  x * k <= y * k /\ x * k \in Nat
OBVIOUS

LEMMA TimesSuccessor ==
  ASSUME NEW x \in Nat, NEW k \in Nat
  PROVE  (x + 1) * k = x * k + k
OBVIOUS

\* All the rows of one task cost at most a burst.
LEMMA PaidIsABurst ==
  ASSUME Busy, Bounded, pc \in Asking
  PROVE  paid * MaxCost <= Burst /\ (pc = "answer" => (paid + 1) * MaxCost <= Burst)
<1> USE DEF Busy, TypeOK, Asking
<1>1. used * Attempts <= MaxToolCalls * Attempts /\ used * Attempts \in Nat
  BY TimesMonotone
<1>2. MaxToolCalls * Attempts + Attempts = (MaxToolCalls + 1) * Attempts
  BY TimesSuccessor
<1>3. paid <= (MaxToolCalls + 1) * Attempts
  BY <1>1, <1>2 DEF Bounded, PaidBound
<1>4. pc = "answer" => paid + 1 <= (MaxToolCalls + 1) * Attempts
  BY <1>1, <1>2 DEF Bounded, PaidBound
<1>5. (MaxToolCalls + 1) * Attempts \in Nat
  BY TimesMonotone
<1> QED
  BY <1>3, <1>4, <1>5, TimesMonotone DEF Burst

LEMMA CapsAreNumbers == ASSUME TypeOK PROVE \A scope \in Scopes : Caps(scope) \subseteq Nat
BY DEF Caps, TypeOK

LEMMA BurstType == Burst \in Nat
<1>1. (MaxToolCalls + 1) * Attempts \in Nat
  BY TimesMonotone
<1> QED
  BY <1>1, TimesMonotone DEF Burst

\* The ledger lets a task start only below every cap it is charged to.
LEMMA UnbreachedIsBelow ==
  ASSUME TypeOK, NEW t \in Tasks, ~Breached(t), NEW scope \in ScopesOf(t), NEW c \in Caps(scope)
  PROVE  Spent(scope, t) < c
<1>1. scope \in Scopes /\ Spent(scope, t) \in Nat
  BY DEF ScopesOf, Spent, Tasks, TypeOK
<1>2. ~Over(scope, Spent(scope, t))
  BY DEF Breached
<1> QED
  BY <1>1, <1>2 DEF Over, Dollars, Caps, TypeOK

LEMMA CapsInit == Init => CapsInv
<1> SUFFICES ASSUME Init PROVE CapsInv
  OBVIOUS
<1>1. Busy
  BY BusyInit
<1>2. Bounded /\ Afforded
  BY DEF Init, Bounded, PaidBound, Afforded, Asking
<1>3. \A scope \in Scopes : \A c \in Caps(scope) : 0 < c + Burst
  <2>1. Burst >= 1
    <3>1. (MaxToolCalls + 1) * Attempts >= Attempts
      BY TimesSuccessor, TimesMonotone
    <3>2. ((MaxToolCalls + 1) * Attempts) * MaxCost >= Attempts * MaxCost
      BY <3>1, TimesMonotone
    <3>3. Attempts * MaxCost >= 1 * MaxCost
      BY TimesMonotone
    <3> QED
      BY <3>2, <3>3 DEF Burst
  <2> QED
    BY <1>1, <2>1, CapsAreNumbers, BurstType DEF Busy
<1>4. CapsHold
  BY <1>3 DEF Init, CapsHold
<1> QED
  BY <1>1, <1>2, <1>4 DEF CapsInv

\* A step that leaves the ledger and the configuration alone keeps CapsHold.
LEMMA CapsKept ==
  ASSUME CapsHold, UNCHANGED <<runTokens, repoTokens, alertTokens, priced>>
  PROVE  CapsHold'
BY DEF CapsHold, Caps

\* Within a task the ledger stands still between two rows.
LEMMA AffordedKept ==
  ASSUME Afforded, pc \in Asking,
         UNCHANGED <<runTokens, repoTokens, alertTokens, priced, task, paid>>
  PROVE  Afforded'
BY DEF Afforded, Caps, Spent, ScopesOf

\* A task that ends leaves the ledger as it is.
LEMMA EndTaskCaps ==
  ASSUME CapsInv, NEW status, EndTask(status), Busy'
  PROVE  CapsInv'
<1>1. CapsHold'
  BY CapsKept DEF CapsInv, EndTask, Conclude, ledger
<1>2. Bounded' /\ Afforded'
  BY DEF EndTask, Bounded, PaidBound, Afforded, Asking
<1> QED
  BY <1>1, <1>2 DEF CapsInv

LEMMA TryAgainCaps ==
  ASSUME CapsInv, TryAgain, pc \in {"call", "classify"}, Busy'
  PROVE  CapsInv'
<1>1. CapsHold'
  BY CapsKept DEF CapsInv, TryAgain, ledger, results
<1>2. Afforded'
  BY AffordedKept DEF CapsInv, TryAgain, ledger, results, history, Asking
<1>3. used * Attempts \in Nat
  BY TimesMonotone DEF CapsInv, Busy, TypeOK
<1>4. Bounded'
  BY <1>3 DEF CapsInv, Bounded, PaidBound, Busy, TypeOK, TryAgain, history
<1> QED
  BY <1>1, <1>2, <1>4 DEF CapsInv

\* The row of an answer: the task was below its caps before its burst, and the
\* row is still a part of that burst.
LEMMA RecordCaps ==
  ASSUME CapsInv, Record, Busy'
  PROVE  CapsInv'
<1> USE DEF CapsInv
<1>1. /\ task \in Tasks /\ cost \in Nat /\ cost <= MaxCost /\ paid \in Nat
      /\ task' = task /\ paid' = paid + 1 /\ priced' = priced /\ pc' = "classify" /\ pc = "answer"
      /\ TypeOK
  BY DEF Busy, TypeOK, Record, Asking, results
<1>2. (paid + 1) * MaxCost = paid * MaxCost + MaxCost /\ paid * MaxCost \in Nat
  BY <1>1, TimesSuccessor, TimesMonotone
<1>3. \A scope \in ScopesOf(task) :
        Spent(scope, task) \in Nat /\ Spent(scope, task)' = Spent(scope, task) + cost
  BY <1>1 DEF ScopesOf, Spent, Record, Charge, Tasks, TypeOK
<1>4. \A scope \in ScopesOf(task) : \A c \in Caps(scope) :
        c \in Nat /\ Spent(scope, task)' < c + (paid + 1) * MaxCost
  <2> SUFFICES ASSUME NEW scope \in ScopesOf(task), NEW c \in Caps(scope)
               PROVE  c \in Nat /\ Spent(scope, task)' < c + (paid + 1) * MaxCost
    OBVIOUS
  <2>1. c \in Nat
    BY <1>1, CapsAreNumbers DEF ScopesOf
  <2>2. Spent(scope, task) < c + paid * MaxCost
    BY <1>1 DEF Afforded, Asking
  <2> QED
    BY <1>1, <1>2, <1>3, <2>1, <2>2
<1>5. Afforded'
  BY <1>1, <1>4 DEF Afforded, Caps, ScopesOf, Spent
<1>6. Bounded'
  <2>1. used * Attempts \in Nat
    BY <1>1, TimesMonotone DEF TypeOK
  <2> QED
    BY <1>1, <2>1 DEF Bounded, PaidBound, Record, TypeOK
<1>7. CapsHold'
  <2>1. \A scope \in ScopesOf(task) : \A c \in Caps(scope) : Spent(scope, task)' < c + Burst
    <3>1. (paid + 1) * MaxCost <= Burst
      BY <1>1, PaidIsABurst DEF Asking
    <3>2. \A scope \in ScopesOf(task) : Spent(scope, task)' \in Nat
      BY <1>1, <1>3
    <3> QED
      BY <1>1, <1>2, <1>4, <3>1, <3>2, BurstType
  <2>2. \A scope \in Scopes : Caps(scope)' = Caps(scope)
    BY <1>1 DEF Caps
  <2>3. \A c \in Caps("run") : runTokens' < c + Burst
    BY <2>1 DEF ScopesOf, Spent
  <2>4. \A c \in Caps("repo"), r \in Repos : repoTokens'[r] < c + Burst
    <3> SUFFICES ASSUME NEW c \in Caps("repo"), NEW r \in Repos
                 PROVE  repoTokens'[r] < c + Burst
      OBVIOUS
    <3>1. CASE r = task.repo
      <4>1. "repo" \in ScopesOf(task) /\ Spent("repo", task)' = repoTokens'[r]
        BY <1>1, <3>1 DEF ScopesOf, Spent
      <4> QED
        BY <2>1, <4>1
    <3>2. CASE r # task.repo
      BY <1>1, <3>2 DEF CapsHold, Record, Charge, TypeOK
    <3> QED
      BY <3>1, <3>2
  <2>5. \A c \in Caps("alert"), a \in Alerts : alertTokens'[a] < c + Burst
    <3> SUFFICES ASSUME NEW c \in Caps("alert"), NEW a \in Alerts
                 PROVE  alertTokens'[a] < c + Burst
      OBVIOUS
    <3>1. CASE a = task.alert
      <4>1. "alert" \in ScopesOf(task) /\ Spent("alert", task)' = alertTokens'[a]
        BY <1>1, <3>1 DEF ScopesOf, Spent
      <4> QED
        BY <2>1, <4>1
    <3>2. CASE a # task.alert
      BY <1>1, <3>2 DEF CapsHold, Record, Charge, TypeOK
    <3> QED
      BY <3>1, <3>2
  <2> QED
    BY <2>2, <2>3, <2>4, <2>5 DEF CapsHold
<1> QED
  BY <1>5, <1>6, <1>7

LEMMA CapsStep == CapsInv /\ [Next]_vars => CapsInv'
<1> SUFFICES ASSUME CapsInv, [Next]_vars PROVE CapsInv'
  OBVIOUS
<1> USE DEF CapsInv
<1>0. Busy'
  BY BusyStep
<1>1. ASSUME pc' \notin Asking, paid' = 0, UNCHANGED <<runTokens, repoTokens, alertTokens, priced>>
      PROVE  CapsInv'
  BY <1>0, <1>1, CapsKept DEF Bounded, PaidBound, Afforded, Asking
<1>2. pc \notin Asking => paid = 0
  BY DEF Bounded, PaidBound, Asking, Busy, TypeOK
<1>3. CASE Begin \/ NextStage \/ Stop
  BY <1>1, <1>2, <1>3 DEF Begin, NextStage, Stop, Asking, ledger, results, history
<1>4. ASSUME NEW t \in Tasks, Refuse(t) \/ BudgetFails(t) \/ RejectMechanically(t) PROVE CapsInv'
  BY <1>1, <1>2, <1>4 DEF Refuse, BudgetFails, RejectMechanically, Conclude, Asking, ledger, results, history
<1>5. ASSUME NEW t \in Tasks, Ask(t) PROVE CapsInv'
  <2>1. CapsHold'
    BY <1>5, CapsKept DEF Ask, ledger, results
  <2>2. Bounded'
    <3>1. used * Attempts \in Nat
      BY TimesMonotone DEF Busy, TypeOK
    <3> QED
      BY <1>5, <3>1 DEF Ask, Bounded, PaidBound, call, Busy, TypeOK
  <2>3. \A scope \in ScopesOf(t) : \A c \in Caps(scope) : Spent(scope, t) < c + 0 * MaxCost
    <3>1. \A scope \in ScopesOf(t) : \A c \in Caps(scope) : Spent(scope, t) < c
      BY <1>5, UnbreachedIsBelow DEF Ask, Busy
    <3>2. \A scope \in ScopesOf(t) : Caps(scope) \subseteq Nat
      BY CapsAreNumbers DEF ScopesOf, Busy
    <3> QED
      BY <3>1, <3>2
  <2>4. Afforded'
    BY <1>5, <2>3 DEF Ask, Afforded, Caps, Spent, ScopesOf, ledger, results
  <2> QED
    BY <1>0, <2>1, <2>2, <2>4
<1>6. ASSUME NEW status, EndTask(status) PROVE CapsInv'
  BY <1>0, <1>6, EndTaskCaps
<1>7. CASE CeilingExceeded \/ AnswerUnusable \/ ProviderRaises \/ FinalAnswer \/ ToolCapReached
  BY <1>0, <1>6, <1>7, TryAgainCaps
     DEF CeilingExceeded, AnswerUnusable, ProviderRaises, FinalAnswer, ToolCapReached, GiveUp
<1>8. CASE Backoff \/ ProviderAnswers \/ ToolsRequested \/ UseTools
  <2>1. CapsHold'
    BY <1>8, CapsKept DEF Backoff, ProviderAnswers, ToolsRequested, UseTools, ledger, results
  <2>2. Afforded'
    BY <1>8, AffordedKept
       DEF Backoff, ProviderAnswers, ToolsRequested, UseTools, ledger, results, history, Asking
  <2>3. used * Attempts \in Nat
    BY TimesMonotone DEF Busy, TypeOK
  <2>4. CASE UseTools
    <3>1. used + 1 <= used' /\ used' \in Nat /\ used + 1 \in Nat
      BY <2>4 DEF UseTools, Bounded, Busy, TypeOK
    <3>2. (used + 1) * Attempts <= used' * Attempts /\ used' * Attempts \in Nat
      <4> DEFINE n == used + 1
                 m == used'
      <4>1. n \in Nat /\ m \in Nat /\ n <= m /\ Attempts \in Nat
        BY <3>1
      <4> HIDE DEF n, m
      <4>2. n * Attempts <= m * Attempts /\ m * Attempts \in Nat
        BY <4>1, TimesMonotone
      <4> QED
        BY <4>2 DEF n, m
    <3>3. (used + 1) * Attempts = used * Attempts + Attempts
      BY TimesSuccessor DEF Busy, TypeOK
    <3>4. paid' <= used * Attempts + Attempts /\ pc' = "call" /\ attempt' = 0
      BY <2>4 DEF UseTools, Bounded, PaidBound, history
    <3> QED
      BY <1>0, <2>1, <2>2, <2>3, <3>2, <3>3, <3>4 DEF Bounded, PaidBound, Busy, TypeOK
  <2>5. CASE ToolsRequested
    <3>1. attempt + 1 <= Attempts
      BY DEF Busy, TypeOK
    <3>2. paid' <= used' * Attempts + Attempts
      BY <2>3, <2>5, <3>1 DEF ToolsRequested, Bounded, PaidBound, history, Busy, TypeOK
    <3> QED
      BY <1>0, <2>1, <2>2, <2>5, <3>2 DEF ToolsRequested, Bounded, PaidBound
  <2>6. CASE Backoff \/ ProviderAnswers
    BY <1>0, <2>1, <2>2, <2>6 DEF Backoff, ProviderAnswers, Bounded, PaidBound, call, history
  <2> QED
    BY <1>8, <2>4, <2>5, <2>6
<1>9. CASE Record
  BY <1>0, <1>9, RecordCaps
<1>10. CASE UNCHANGED vars
  <2>1. CapsHold'
    BY <1>10, CapsKept DEF vars, ledger, results
  <2> QED
    BY <1>0, <1>10, <2>1
       DEF vars, ledger, results, call, history, Bounded, PaidBound, Afforded, Caps, Spent, ScopesOf
<1> QED
  BY <1>3, <1>4, <1>5, <1>7, <1>8, <1>9, <1>10 DEF Next, Step, Rest

\* However often the run is killed and resumed, every capped scope stays within
\* one task of its cap, for any caps, retries and tool budget.
THEOREM CapsAreHeld == Spec => []CapsHold
<1>1. CapsInv => CapsHold
  BY DEF CapsInv
<1> QED
  BY <1>1, CapsInit, CapsStep, PTL DEF Spec

-----------------------------------------------------------------------------
(* The ledger's losses.                                                     *)

\* A pass that is alive has lost nothing yet: its loss is the answer in hand.
Lost == IF pc \in {"idle", "answer"} THEN passes ELSE passes - 1

LossInv == Busy /\ served <= rows + Lost

LEMMA LossStep == LossInv /\ [Next]_vars => LossInv'
<1> SUFFICES ASSUME LossInv, [Next]_vars PROVE LossInv'
  OBVIOUS
<1> USE DEF LossInv, Lost
<1>0. Busy' /\ Busy
  BY BusyStep
<1>1. ASSUME pc \notin {"idle", "answer"}, pc' # "answer", UNCHANGED <<rows, passes, served>>
      PROVE  LossInv'
  BY <1>0, <1>1 DEF Busy, TypeOK
<1>2. CASE Begin
  BY <1>0, <1>2 DEF Begin, ledger, history, Busy, TypeOK
<1>3. CASE NextStage
  BY <1>1, <1>3 DEF NextStage, ledger, history
<1>4. ASSUME NEW t \in Tasks, Refuse(t) \/ BudgetFails(t) \/ RejectMechanically(t) \/ Ask(t)
      PROVE  LossInv'
  BY <1>1, <1>4 DEF Refuse, BudgetFails, RejectMechanically, Ask, ledger, history
<1>5. ASSUME NEW status, EndTask(status), pc \notin {"idle", "answer"} PROVE LossInv'
  BY <1>1, <1>5 DEF EndTask, ledger
<1>6. ASSUME TryAgain, pc \notin {"idle", "answer"} PROVE LossInv'
  BY <1>1, <1>6 DEF TryAgain, ledger, history
<1>7. CASE CeilingExceeded \/ AnswerUnusable \/ ProviderRaises \/ FinalAnswer \/ ToolCapReached
  BY <1>5, <1>6, <1>7
     DEF CeilingExceeded, AnswerUnusable, ProviderRaises, FinalAnswer, ToolCapReached, GiveUp
<1>8. CASE Backoff \/ ToolsRequested \/ UseTools
  BY <1>1, <1>8 DEF Backoff, ToolsRequested, UseTools, ledger, history
<1>9. CASE ProviderAnswers
  BY <1>0, <1>9 DEF ProviderAnswers, ledger, Busy, TypeOK
<1>10. CASE Record
  BY <1>0, <1>10 DEF Record, Charge, Busy, TypeOK
<1>11. CASE Stop
  BY <1>0, <1>11 DEF Stop, ledger, Busy, TypeOK
<1>12. CASE UNCHANGED vars
  BY <1>0, <1>12 DEF vars, ledger, history
<1> QED
  BY <1>2, <1>3, <1>4, <1>7, <1>8, <1>9, <1>10, <1>11, <1>12 DEF Next, Step, Rest

\* Every answer the provider gave is in the ledger, but for one a pass.
THEOREM LossesAreBounded == Spec => []OneCallLostPerPass
<1>1. Init => LossInv
  BY BusyInit DEF Init, LossInv, Lost
<1>2. LossInv => OneCallLostPerPass
  BY DEF LossInv, Lost, OneCallLostPerPass, Busy, TypeOK
<1> QED
  BY <1>1, <1>2, LossStep, PTL DEF Spec

-----------------------------------------------------------------------------
(* Deferrals.                                                               *)

\* The tasks of the alert stages are tasks of alerts.
AlertStage ==
  stage # "recon" =>
    /\ \A t \in todo : t.alert \in Alerts /\ t = AlertTask(t.alert)
    /\ pc \in Asking => task.alert \in Alerts /\ task = AlertTask(task.alert)

\* A deferral rests on a cap that is still reached, and its alert is not being
\* judged.
DeferralInv ==
  /\ Busy
  /\ AlertStage
  /\ \A a \in Alerts : judged[a] = "budget_deferred" =>
       /\ Breached(AlertTask(a))
       /\ ~(pc \in Asking /\ stage = "judgment" /\ task.alert = a)

LEMMA AlertStageStep == Busy /\ AlertStage /\ [Next]_vars => AlertStage'
<1> SUFFICES ASSUME Busy, AlertStage, [Next]_vars PROVE AlertStage'
  OBVIOUS
<1>1. CASE Begin
  BY <1>1 DEF Begin, AlertStage
<1>2. CASE NextStage
  BY <1>2 DEF NextStage, AlertStage, Pending, AlertTask, Asking, Busy, TypeOK
<1>3. ASSUME NEW t \in Tasks, Refuse(t) \/ BudgetFails(t) \/ RejectMechanically(t) \/ Ask(t)
      PROVE  AlertStage'
  BY <1>3 DEF Refuse, BudgetFails, RejectMechanically, Ask, AlertStage, AlertTask, Asking
<1>4. ASSUME NEW status, EndTask(status) PROVE AlertStage'
  BY <1>4 DEF EndTask, AlertStage, AlertTask, Asking
<1>5. ASSUME TryAgain, pc \in Asking PROVE AlertStage'
  BY <1>5 DEF TryAgain, AlertStage, AlertTask
<1>6. CASE CeilingExceeded \/ AnswerUnusable \/ ProviderRaises \/ FinalAnswer \/ ToolCapReached
  BY <1>4, <1>5, <1>6
     DEF CeilingExceeded, AnswerUnusable, ProviderRaises, FinalAnswer, ToolCapReached, GiveUp, Asking
<1>7. CASE Backoff \/ ToolsRequested \/ UseTools \/ ProviderAnswers \/ Record
  BY <1>7 DEF Backoff, ToolsRequested, UseTools, ProviderAnswers, Record, AlertStage, AlertTask, Asking
<1>8. CASE Stop
  BY <1>8 DEF Stop, AlertStage
<1>9. CASE UNCHANGED vars
  BY <1>9 DEF vars, AlertStage, AlertTask
<1> QED
  BY <1>1, <1>2, <1>3, <1>6, <1>7, <1>8, <1>9 DEF Next, Step, Rest

\* The ledger only grows, so a cap that is reached stays reached.
LEMMA BreachStays ==
  ASSUME Busy, [Next]_vars, NEW a \in Alerts, Breached(AlertTask(a))
  PROVE  Breached(AlertTask(a))'
<1> DEFINE t == AlertTask(a)
<1>1. t \in Tasks /\ t' = t /\ ScopesOf(t)' = ScopesOf(t)
  BY DEF AlertTask, Tasks, ScopesOf
<1>2. /\ priced' = priced
      /\ runTokens \in Nat /\ runTokens' \in Nat /\ runTokens' >= runTokens
      /\ \A r \in Repos : repoTokens[r] \in Nat /\ repoTokens'[r] \in Nat /\ repoTokens'[r] >= repoTokens[r]
      /\ \A b \in Alerts : alertTokens[b] \in Nat /\ alertTokens'[b] \in Nat /\ alertTokens'[b] >= alertTokens[b]
  <2>1. Busy'
    BY BusyStep
  <2>2. CASE UNCHANGED <<runTokens, repoTokens, alertTokens, priced>>
    BY <2>2 DEF Busy, TypeOK
  <2>3. CASE Record
    BY <2>1, <2>3 DEF Record, Charge, results, Busy, TypeOK
  <2> QED
    BY <2>2, <2>3
       DEF Next, Step, Rest, vars, Begin, NextStage, Stop, Refuse, BudgetFails, RejectMechanically, Ask,
           Conclude, CeilingExceeded, EndTask, Backoff, ProviderRaises, AnswerUnusable, TryAgain, GiveUp,
           ProviderAnswers, FinalAnswer, ToolsRequested, UseTools, ToolCapReached, ledger, results
<1>3. \A scope \in ScopesOf(t) : Spent(scope, t)' >= Spent(scope, t) /\ Spent(scope, t) \in Nat /\ Spent(scope, t)' \in Nat
  BY <1>1, <1>2 DEF Spent, ScopesOf, Tasks
<1>4. \A scope \in ScopesOf(t) : Over(scope, Spent(scope, t)) => Over(scope, Spent(scope, t))'
  BY <1>2, <1>3 DEF Over, Dollars, ScopesOf
<1> QED
  BY <1>1, <1>4 DEF Breached

\* No step takes a deferral back.
Stays == \A a \in Alerts : judged[a] = "budget_deferred" => judged'[a] = "budget_deferred"

LEMMA DeferralStep == DeferralInv /\ [Next]_vars => DeferralInv' /\ Stays
<1> SUFFICES ASSUME DeferralInv, [Next]_vars PROVE DeferralInv' /\ Stays
  OBVIOUS
<1>0. Busy' /\ AlertStage' /\ TypeOK
  BY BusyStep, AlertStageStep DEF DeferralInv, Busy
<1>1. \A a \in Alerts : Breached(AlertTask(a)) => Breached(AlertTask(a))'
  BY BreachStays DEF DeferralInv
<1>2. ASSUME judged' = judged, pc' \notin Asking PROVE DeferralInv' /\ Stays
  BY <1>0, <1>1, <1>2 DEF DeferralInv, Stays
<1>3. ASSUME judged' = judged, pc \in Asking, task' = task, stage' = stage PROVE DeferralInv' /\ Stays
  BY <1>0, <1>1, <1>3 DEF DeferralInv, Stays
<1>4. CASE Begin \/ NextStage \/ Stop
  BY <1>2, <1>4 DEF Begin, NextStage, Stop, results, Asking
<1>5. ASSUME NEW t \in Tasks, Refuse(t) PROVE DeferralInv' /\ Stays
  <2>1. CASE stage # "judgment"
    BY <1>2, <1>5, <2>1 DEF Refuse, Conclude, Asking
  <2>2. CASE stage = "judgment"
    <3>1. t = AlertTask(t.alert) /\ t.alert \in Alerts /\ Breached(t) /\ pc' \notin Asking
      BY <1>5, <2>2 DEF Refuse, DeferralInv, AlertStage, Asking
    <3>2. \A a \in Alerts : judged'[a] = IF a = t.alert THEN "budget_deferred" ELSE judged[a]
      BY <1>0, <1>5, <2>2 DEF Refuse, Conclude, TypeOK
    <3>3. Stays
      BY <3>2 DEF Stays
    <3>4. \A a \in Alerts : judged'[a] = "budget_deferred" => Breached(AlertTask(a))
      BY <3>1, <3>2 DEF DeferralInv
    <3> QED
      BY <1>0, <1>1, <3>1, <3>3, <3>4 DEF DeferralInv
  <2> QED
    BY <2>1, <2>2
<1>6. ASSUME NEW t \in Tasks, BudgetFails(t) \/ RejectMechanically(t) PROVE DeferralInv' /\ Stays
  BY <1>2, <1>6 DEF BudgetFails, RejectMechanically, results, Asking
<1>7. ASSUME NEW t \in Tasks, Ask(t) PROVE DeferralInv' /\ Stays
  <2>1. \A a \in Alerts : judged[a] = "budget_deferred" /\ stage = "judgment" => t.alert # a
    BY <1>7 DEF Ask, DeferralInv, AlertStage
  <2>2. judged' = judged /\ stage' = stage /\ task' = t
    BY <1>7 DEF Ask, results
  <2> QED
    BY <1>0, <1>1, <2>1, <2>2 DEF DeferralInv, Stays
<1>8. ASSUME NEW status \in {"done", "failed"}, EndTask(status), pc \in Asking PROVE DeferralInv' /\ Stays
  <2>1. CASE stage # "judgment"
    BY <1>2, <1>8, <2>1 DEF EndTask, Conclude, Asking
  <2>2. CASE stage = "judgment"
    <3>1. pc' \notin Asking
      BY <1>8 DEF EndTask, Asking
    <3>2. \A a \in Alerts : judged'[a] = IF a = task.alert THEN status ELSE judged[a]
      BY <1>0, <1>8, <2>2 DEF EndTask, Conclude, TypeOK
    <3>3. \A a \in Alerts : judged[a] = "budget_deferred" => a # task.alert
      BY <1>8, <2>2 DEF DeferralInv
    <3> QED
      BY <1>0, <1>1, <3>1, <3>2, <3>3 DEF DeferralInv, Stays
  <2> QED
    BY <2>1, <2>2
<1>9. ASSUME TryAgain, pc \in Asking PROVE DeferralInv' /\ Stays
  BY <1>3, <1>9 DEF TryAgain, results
<1>10. CASE CeilingExceeded \/ AnswerUnusable \/ ProviderRaises \/ FinalAnswer \/ ToolCapReached
  BY <1>8, <1>9, <1>10
     DEF CeilingExceeded, AnswerUnusable, ProviderRaises, FinalAnswer, ToolCapReached, GiveUp, Asking
<1>11. CASE Backoff \/ ToolsRequested \/ UseTools \/ ProviderAnswers \/ Record
  BY <1>3, <1>11 DEF Backoff, ToolsRequested, UseTools, ProviderAnswers, Record, results, Asking
<1>12. CASE UNCHANGED vars
  <2>1. judged' = judged /\ task' = task /\ stage' = stage /\ pc' = pc
    BY <1>12 DEF vars, results
  <2> QED
    BY <1>2, <1>3, <2>1
<1> QED
  BY <1>4, <1>5, <1>6, <1>7, <1>10, <1>11, <1>12 DEF Next, Step, Rest

\* An alert put off for the budget is put off until another run: no resume of
\* this one judges it.
THEOREM DeferralsLast == Spec => DeferredUntilNextRun
<1>1. Init => DeferralInv
  BY BusyInit DEF Init, DeferralInv, AlertStage, Asking
<1>2. Stays => \A a \in Alerts : judged[a] = "budget_deferred" => judged'[a] = "budget_deferred"
  BY DEF Stays
<1> QED
  BY <1>1, <1>2, DeferralStep, PTL DEF Spec, DeferredUntilNextRun
=============================================================================
