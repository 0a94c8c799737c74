# A formal model of ReceivablesAI

TLA+ modules, TLC configurations and TLAPS proofs for the receivables recovery agent in
`backend/app`. The agent finds unpaid invoices, diagnoses why the money has not arrived, lets
a policy engine decide what may be done, executes the action (or parks it for a human) and
watches what comes of it. Paths below are relative to `backend/app` unless they start with
`backend/`.

## 1. The system

### Components

| Component | State it keeps | Operations | Module |
|---|---|---|---|
| Registry (`constants.py`, `policy/playbooks.py`) | none, tables | `allowed_transition`, `CAUSE_TO_PLAYBOOK`, `PLAYBOOKS` | `Registry` |
| Diagnosis (`diagnosis/`) | one `diagnoses` row per pass, never read back by the agent | `classify`, `fuse`, `diagnose_case` | `Diagnosis`, `DecisionPipeline` |
| Policy engine (`policy/engine.py`, `policy/rules.py`) | none; reads executed interventions, payments, flags | `plan_action`, `compliance_hits`, `fraud_hits`, `stopping_hits` | `PolicyEngine`, `DecisionPipeline`, `ActionBudgets` |
| Offline reader (`diagnosis/offline.py`, `context_builder.py`) | none; reads the correspondence | `build_snapshot`, `offline_diagnose` | `OfflineReader`, `DecisionPipeline` |
| Detection (`detection.py`) | `risk_cases`: state, risk score, recovered amount | `open_or_refresh_case`, `credit_received`, `set_state`, `escalate` | `CaseLifecycle`, `Ledger` |
| Ingestion (`ingestion.py`) | `risk_events`, `payments`, the invoice's paid amount | `store_event`, `apply_event_to_entities` | `CaseLifecycle` |
| Execution (`execution/`) | `interventions` with their idempotency keys and outcomes, `ptp_promises` | `execute_action`, `record_promise`, provider calls | `CaseLifecycle` |
| Agent loop (`agent.py`) | `risk_cases.next_action_at` and everything above | `ingest_events`, `run_tick`, `decide_approval`, `step_case` | `CaseLifecycle`, `ActionBudgets` |
| Approval console (`main.py`) | `_eval_state` with its lock | `POST /approvals/{id}/decide`, `/eval/run`, `/demo/tamper`, `/demo/reset` | `ApprovalConsole`, `WebApp` |
| Clock, session (`clock.py`, `db.py`) | the process-wide clock; one SQLAlchemy session per request | `now`, `advance`, `set_clock`, `reset_clock`, commit or rollback | `CaseLifecycle`, `Harness`, `EvalWorker` |
| Evaluation harness (`eval/`) | a database of its own per run, a virtual clock, a background thread | `simulate_case`, `_milestones`, `run_evaluation`, `_persist` | `Harness`, `EvalWorker` |
| Audit log (`audit/`) | `audit_events`, a hash chain | `audit_event`, `verify` | `AuditChain`, `ApprovalConsole` |

Within one entry point the components call each other synchronously and share one database
session; the caller commits once, after the entry point has returned. There are no message queues:
the outside world enters as events handed to `ingest_events`, as ticks, as human decisions, and
as what the provider and the LLM answer. Between entry points there is concurrency: FastAPI runs
each console request in a thread with a session of its own, the agent's tick and the reset of the
demo are other processes on the same SQLite file, and an evaluation runs in a background thread of
the console with a database of its own and the clock of everybody.

### What is hard about it

* **One transaction, outside effects.** A provider call cannot be rolled back; the row with
  its idempotency key can. An exception over one invoice undoes the rows of the others that
  the same tick has worked on.
* **Requests that outlive their reasons.** An action parked for approval is dispatched later,
  by a path that asks the policy nothing.
* **Money that arrives on its own schedule**: by redelivered events, by several events about
  one payment, in parts, after the case was closed, while a request waits, in the same tick in
  which the next reminder is due.
* **Time.** Cooldowns, the contact window, the approval timeout, promised dates, the age limit
  and the fraud window all interact, at boundaries that are sometimes strict and sometimes not.
* **Sessions.** SQLite takes its write lock with the first write. What a session has read before
  that - the status of a request, the state of its case, the last row of the audit log - may be
  out of date when it is used, and the identity map of the ORM keeps it so.
* **One clock.** The evaluation replaces the clock of the whole process, for all of its threads.
* **A driver that jumps.** The harness sets the clock to the next time at which it believes
  something is due; what it overlooks happens late or never, what it counts twice never ends.
* **Shared budgets.** The cap of a customer and the budget of the day are counted anew for every
  case, within a tick that has not yet committed what it did for the others.
* **Opinions.** The LLM may say anything its validator lets through, and nothing of it may
  override a persisted fact.

`PROJECT.json` lists each hazard at its line with the properties that watch it.

### What makes each component correct

* *Diagnosis*: facts beat opinions; free text that cannot be read, or is read weakly, goes to
  a human.
* *Policy*: nothing is done on the agent's own authority outside the contact window, past the
  age limit, under a fraud signal, within a cooldown, beyond a budget, or at an amount that needs a
  human; a deferral ends what it waits for, and a full budget delays a case without starving it.
* *Crediting and ingestion*: money moves once per event; the books balance; a settled invoice
  has no live case.
* *Execution*: one provider call per key.
* *Agent loop*: cases move only along the table of `constants.py`, closed cases stay closed, at
  most one request waits, nothing crosses a promise, and no case is dropped. Money is claimed as
  recovered exactly while the agency is engaged.
* *Console*: requests that do not overlap never decide twice; what the log says of a request is
  what its row says.
* *Audit log*: it verifies until somebody tampers with it, and then names the row.
* *Harness*: nothing due is jumped over, every simulation ends.
* *Evaluation thread*: one batch at a time, on its own clock, and the real one put back.

## 2. The modules

```
Registry                    states, transitions, causes, playbooks
  Diagnosis                 classify, fuse, diagnose_case
    OfflineReader           the snapshot and its keyword reader
    PolicyEngine            plan_action and its rules
      CaseLifecycle         the agent loop over a database   --- implements ---> Ledger
        CaseLifecycleProofs     TLAPS proofs: types, books, requests, the ledger
          CaseExecutionProofs       TLAPS proofs: what is executed, and when
        MCCaseLifecycle         instances for TLC
        Harness             the driver: simulate_case over a corpus
          HarnessProofs         TLAPS proofs: its database, its clock
          MCHarness             instances for TLC
      DecisionPipeline      diagnosis, reader and policy under changing facts
        DecisionPipelineProofs  TLAPS proofs
        MCDecisionPipeline      instances for TLC
      ActionBudgets         the budgets, counted over the cases of a tick
        ActionBudgetsProofs     TLAPS proofs
        MCActionBudgets         instances for TLC
AuditChain                  audit_event and verify
  ApprovalConsole           concurrent sessions on requests and on the log
EvalWorker                  background evaluations and the clock
    WebApp                  the console process: both of them, one clock
      WebAppProofs              TLAPS proofs: requests, batches, the clock
      AuditChainProofs          TLAPS proofs: the chain of the log
        ConsoleLogProofs            TLAPS proofs: the log and the requests
      MCWebApp                  instances for TLC
```

`Registry`, `Diagnosis` and `PolicyEngine` are pure: they translate functions of the code into
operators on an *evidence* record, what the functions read from the database. The state machines
supply that record from their own state.

**CaseLifecycle.** `db[c]` is all that the database holds about invoice `c`: paid amount,
failed payments newest first, event and payment ids seen, the case's state, risk score, next
action time and recovered amount, the active promise, one intervention per idempotency key, and
the escalation codes. A failed payment carries the time of its attempt, which the event states
(`AttemptedAt`; an event that does not is dated by its reception), and `Filed` puts it where every
query of the code finds it, between the newer and the older attempts, however late it was reported.
The handlers are operators on such rows named after the code
(`StepCase`, `Park`, `Execute`, `Observe`, `ReceiveMoney`, ...). Each returns the *set* of rows
the code may leave behind, because the provider, the LLM and the budgets may answer in several
ways. The actions are the entry points:

| Action | Code |
|---|---|
| `IngestEvents` | `ingest_events`, for a batch of up to `MaxBatch` events about one invoice, new or redelivered, in any order |
| `RunTick` | `run_tick`: stale approvals, due money, overdue scan, scheduled cases, listed cases, in that order and for all cases |
| `DecideApproval` | `approval_decision` and `decide_approval`, either decision on any waiting request |
| `IngestRaises`, `TickRaises` | the same handlers when an exception leaves them: rows are rolled back, provider calls are not |
| `HandlerCrashes` | the process dies inside any of the three, at most `MaxCrashes` times |
| `AdvanceClock` | time passes |

`TickRaises` and `HandlerCrashes` choose how far each case got, since the queries of `run_tick`
have no `ORDER BY`. Three variables are not in the code: `calls` in a row counts the provider
calls a key really got, `rolledBack` remembers whether a transaction was ever undone, and
`crashes` bounds the crashes.

**Ledger** is the abstract specification: per invoice what was received, what of it the agency
claims as recovered, and whether the agency is not yet engaged, engaged, or released. Its one
action says what a transaction may do: claim all money that comes during the engagement and none
that comes before or after, release an account as soon as nothing is owed, never engage twice.
`CaseLifecycle` implements it under the mapping `AccountOf`: received is the paid amount, claimed
the recovered amount, a live case is an engagement, a terminal one a release. `ImplementsLedger`
is checked as a property of the run `Lifecycle` and proved.

**DecisionPipeline** asks for the decision instead of carrying it out. Failed payments (each
with its own time, so reported late or out of order), free text, part payments, promises and
executed actions accumulate, and the invariants quantify over every opinion of the LLM and every
reading the offline reader makes of the letters that may have come.

**ActionBudgets** counts what `CaseLifecycle` leaves open. Its cases are overdue invoices, so that
all of them climb the ladder of reminders; an attempt remembers who had it executed and when. A tick
is a session: `BeginTick` expires requests, opens cases and makes the two lists of `run_tick`,
`StepCase` steps one of them, in any order, with `PlanAction` and the budgets counted in the session's
own view, `EndTick` commits, `TickRaises` rolls back. The session has the write lock from its first
step on (a diagnosis row is flushed before the policy is asked), so humans, money and time act between
ticks: `Approve`, `Decline`, `MoneyArrives`, `AdvanceClock`. The contact window, cooldowns, the age limit
and the high-value gate are those of `PolicyEngine`.

**OfflineReader** is `offline_diagnose`: the classes of keywords a letter hits are tried in a fixed
order. A letter is that set of classes, the date it names, whether the date is in digits only, and
whether it is too brief to make the rules abstain. `Snapshot` keeps the first `SnapshotLimit`
letters and applies the redaction.

**Harness** is the driver. All events due at a moment are one batch, of any length, in the order of the
corpus (`DueBatches`). `StartCase` seeds a case, sets the clock to its start, delivers the
events of that moment and ticks; `Wake` jumps to the earliest of `Milestones` and does the same;
`FinishCase` ends the simulation when there is none or the horizon is reached. The handlers are the
operators of `CaseLifecycle`, here with the events and the tick in one transaction, and all cases
of the corpus in one database, so that a tick for one case works on the earlier ones too. `raised`
is the exception that ends an evaluation, among them the refusal of `VirtualClock.advance` to go
back.

**ApprovalConsole** gives each request to the console and the tick a session: it reads
(`AskDecision`, `ReadCase`, `AskTamper`, `AskTick`), takes the write lock (`BeginWrite`) or fails
to (`LockTimeout`), and commits (`CommitDecline`, `CommitApprove`, `CommitTamper`, `CommitTick`),
fails after its provider call (`FailApprove`) or finds its rows gone (`RowsGone`). A commit works on
the committed rows where the code writes columns and on the session's old view where the code
compares. `DropAll` and `SeedRequest` are `demo_reset`. Every handler appends the audit rows it
appends in the code, through `AuditChain`.

**AuditChain** models a digest by the contents it commits to. `audit_event` builds on a row with
the highest number (any of them, if there are several), `verify` walks the rows by number, those of
equal number as inserted.

**EvalWorker** is the thread of `POST /eval/run`: the flag that admits one batch, the three runs of
`run_evaluation`, the clock installed by each simulation and put back after it, the exception that
may leave it anywhere.

**WebApp** composes the two: requests and evaluations of one process share `clock`. A session draws its
time from it once it has read the case (`Draw`: `decided_at=now()` in `decide_approval`), then waits for
the lock and calls the provider, and what it commits bears that time (`stamps`), whatever the clock shows
by then. `disturbed` is not in the code: the sessions that have met a running batch, or the error of one.

Definitions whose name ends in an underscore and a word (`Park_KeepsOlder`, `LastAt_Oldest`) are
deliberately wrong variants, each marked *Faulty variant*. Replacing the definition after them
by the variant breaks the property that `PROJECT.json` names under `mutants`: evidence that the
property depends on that code.

### Abstractions

* Time is an integer. A day has `DayLen` slots, so the contact window, midnight and the dates
  of promises mean what they mean in the code. A budget deferral ("the next full hour") is the
  next slot.
* Error codes are the five signal sets of `policy/rules.py`, an unlisted code, and an unlisted
  code whose description carries a fraud token. A *listed* code with such a description is
  left out.
* `LatestFailure` compares these classes where the code compares raw codes, and looks at all
  failures where `classify` reads the latest eight payments. Instances have at most five.
* Two failures with the same attempt time have no defined order in the code; the model puts the
  one reported last first. Attempts within one slot have the same time here, so what is said of the
  "latest" attempt holds of that order.
* Confidences are percentages, risk scores per mille. `BaseRisk` stands for the base and amount
  terms of the score and `DayWeight` for the weight of a day.
* In `CaseLifecycle` and `DecisionPipeline` the two budgets are not counted: the first may find those
  of `BudgetAnswers` used up, the second any of them. `ActionBudgets` counts them. In it a month is
  `MonthLen` days, every invoice fell due the day before the clock starts, money pays in full, and the
  provider is the Razorpay client, which announces none.
* Compliance flags are part of the model; the instances leave them empty, because a flag only
  turns the first step of a case into a stop.
* The sandbox pays by the seeded profile of the customer; the model lets any outreach action be
  followed by a payment, after any delay of `HintDelays`, or by none. A retry is settled
  exactly as in `retry_payment`. The Razorpay client announces no payment and may fail or raise.
* `drain_pending_payments` credits due payments one after the other; since each of them covers
  the whole balance (the invariant `HintCoversBalance`), the first one settles the invoice and
  the model credits one and marks all as applied.
* `CaseLifecycle` commits `ingest_events` and `run_tick` separately and lets the clock move one slot
  at a time; `Harness` has the transactions and jumps of `simulate_case`. `_milestones` is computed
  before each jump; the guard of 2000 rounds is left out, `SimulationEnds` shows that it is not needed
  for the instance (but see section 5).
* `ApprovalConsole` reduces a case to its state and a request to its status and its announced
  money, since the console looks at nothing else; which answer the provider gives is open. A tick
  may step any other case: that is one more audit row. The timeout of a request is when the tick
  finds it stale. Resetting drops all tables in one step.
* A letter shorter than 20 characters is read by neither reader and left out. Digits without
  padding ("2026-8-7") count as a date in words, since the redaction leaves them alone.
* Console and evaluation share nothing but the clock, so `Console` runs without batches and
  `Background` with one session.

## 3. What is checked

The constants of the instances: a day of four slots with the second and third in the contact
window; cooldowns of 3, 4 and 5 slots, in the order of the code's 24, 48 and 72 hours; an age
limit of two days, one in `Pipeline`, four in `Simulation`. `Lifecycle` has a day of three slots, the last
two in the contact window, so that a ladder of three attempts and the age limit fit into nine slots; the
evening edge of the window is met by the days of four slots. `Fraud` has a day of two slots, the first
in the contact window, and a fraud window of two slots, so that signals leave the window before
`MaxTime`, which is the third day. These are the smallest values at which a whole ladder, a night, a
deferral of each kind, a payment in flight across a tick, and the age limit all occur before
`MaxTime`. `MaxTime` reaches the day on which the age limit closes every remaining case, so
nothing interesting lies beyond it, except in `Fraud`, which ends once its first signals have left the
window. Amounts are 2 (one part payment leaves a balance), 3 under a limit of 2 (`Lifecycle`: one part
payment brings the balance to the limit, the second below it) and 9 (at the limit; a part payment brings
it below). Keys, attempts and playbooks are those of the code, not reduced.

`Lifecycle` redelivers events in later batches and delivers one at a time (`MaxBatch = 1`); `Fraud`, about
events that are reported together, has batches of up to three, which is what it takes to let the agent act
between a failure that hides an address mismatch and one that brings a new one. A fraud token in a
description (`FRAUD_TEXT`) is in neither, only in the theorem. No run of `CaseLifecycle` has a full budget;
the theorems hold for any `BudgetAnswers`, and `Budgets` counts them. `Pipeline` bounds the failures by two
(`MaxFails`: one may be reported behind the other and overtake it) and the executed actions by one
(`MaxActions`).

### Runs that pass

| Run | Instance | Shows |
|---|---|---|
| `Lifecycle` | one case of 3 with a limit of 2: a failure and two part payments, redelivered; requests, decisions and timeouts above the limit, the agent alone below it; payments that travel for more than a day; exceptions, one crash | `TypeOK`, `BooksBalance`, `SinglePendingAction`, `ProviderCalledOnce`, `CooldownKept`, `UnattendedActionsCompliant`, `HintCoversBalance`, `NoDunningAfterPayment`, `MoneyAppliedOnce`, `MovesAllowed`, `ImplementsLedger`, `LargeAmountsNeedAHuman` |
| `Fraud` | five failures, of them three AUTH and one AVS, attempted in the first two slots and reported then or later, and a part payment on a low-risk invoice, in batches of up to three in any order, redelivered; acted on through the Razorpay client, which may fail or raise | `WatchedCasesUntouched`, `FraudNeverActedOn` |
| `Simulation` | a corpus of three cases: a failure reported after hours, an overdue invoice above the limit that is partly paid and whose customer writes (four readings), a promise with a part payment the day before it; payments delayed by 1, 2, 5 or 30 slots, the last one past the horizon | `PromiseRespected`, `PunctualDriver`, `SimulationEnds`, `EventuallyClosed`, `AnnouncedMoneyArrives` |
| `Pipeline` | every cause at a weak and a strong confidence, with and without a promised date; seven kinds of letters, alone, in pairs, and one more than the snapshot holds; two failures in either order of report | `FactsOverrideOpinions`, `WeakReadingsGoToHumans`, `DeferralOutlastsItsCause`, `DisputeNeverCollected` |
| `Budgets` | three cases of two customers, one at the high-value limit; one action a month for a customer, one a day for all; a month of two days, two months | `BudgetTypeOK`, `UnattendedWithinBudgets` |
| `BudgetsDriven` | three cases without the limit, two actions a month and one a day, ten days | `BudgetsOnlyDelay` |
| `Console` | one request, two console sessions, one tick, one reset, one failing handler, the rules as diagnosis | `ChainValidUnlessTampered`, `TamperPointNamed`, `LogTellsTheStatus`, `ConflictsNeedOverlap` |
| `Background` | two threads, two batches of three runs, one session that decides, at any of its steps | `SimulationOwnsClock`, `VirtualStampsExplained`, `BatchEnds` |

Deadlock checking is off in `Pipeline` (with the clock at its bound and every fact in place nothing is
left to happen), `Simulation` (the corpus is done), the two runs of `WebApp` (all sessions are
idle and the bounds used up) and `BudgetsDriven` (its clock is at `MaxTime` and nothing is due). In the runs of
`CaseLifecycle` and in `Budgets` the tick never stops.

`Console` needs two sessions and no more: every conflict is between two that overlap, and the tick is
a third. One request is enough because requests of different cases meet only in the log, where the
tick's other steps stand for them. `MaxTicks`, `MaxResets`, `MaxFailures` and `MaxBatches` bound how often
these happen. Two batches are what a second start, and a clock that a first one has left, need.

The two runs of `ActionBudgets` use a day of three slots, the last two in the contact window, and a
cooldown of one day. Budgets of one are the smallest that two cases of a tick can overrun; two months and
an age limit past their end let each count restart. `BudgetsDriven` has nine reminders to place under a
cap of two a month for the customer with two cases, which takes three months of two days and leaves
the age limit and `MaxTime` out of reach.

`ProviderCalledOnce` speaks of histories in which no transaction was rolled back. `ConflictsNeedOverlap`
speaks of requests that no two overlapping sessions have decided; what overlapping ones do is the
run `DoubleApproval`. `ChainValidUnlessTampered` is checked with the rules as diagnosis; with an LLM it is
false, which is the run `ForkedChain`.

Some limits of what the properties see. `PromiseRespected` reads the promise and the clock before the step, so
it says nothing of the step of the harness that seeds a case. `PunctualDriver` is about timeouts, payments,
schedules and events of the corpus; the moment an invoice falls due is none of the milestones of the code,
and the overdue scan finds it at the next wake-up. `MoneyAppliedOnce` asks for a new event, or a new announced
payment, behind every step that moves money; it would not see one event applied twice within one batch.

### Runs that end in a counterexample

Each checks one sentence of the repository's own comments, docs or tests; `PROJECT.json` quotes it
under `findings`.

| Run | What happens |
|---|---|
| `Replan` | An overdue case deferred overnight is both scheduled and listed in the tick that finds it due. `process_due_scheduled` parks it, the loop steps it again; the older request is cancelled but keeps its key, the new one has the same key, the insert fails and the tick is rolled back. Every later tick in contact hours fails the same way, for all cases, until the age limit. A part payment while a request waits does the same to `ingest_events`, and the payment is lost with it. |
| `Disagreement` | A payment fails for insufficient funds and the LLM reads another cause. `fuse` flags the disagreement and keeps the cause of the rules; `step_case` hands the policy the cause and not the flag, and the retry is approved: the agent acts on its own where `diagnosis/fusion.py:18`, the repository's `README.md:21` and the name of a test say that it never does. |
| `DoubleApproval` | Two sessions read the request as pending, both approve; the one that waits for the lock calls the provider again. |
| `ForkedChain` | A tick reads the last audit row before it has the lock, a decision is committed, the tick appends a second row of the same number: `verify` names a row nobody has touched. |

### Fairness

`HarnessSpec` assumes weak fairness of `HarnessNext`: an evaluation is one sequential program that goes
on as long as it can, and nothing outside it is needed. The web application itself starts no
scheduler (`config.hourly_tick` is read nowhere), so the liveness of cases holds of the agent as the
harness drives it, and that is where it is checked. `EventuallyClosed` and `AnnouncedMoneyArrives`
are thereby statements about `_milestones` as well: they need the driver to wake up at the right times.
The run is autonomous, with one case above the limit so that requests, decided by nobody, time out; in
supervised mode with a human `EventuallyClosed` is false (section 5, first row of the table).

`DrivenSpec` assumes weak fairness of `Drive`, in which the clock moves when no case is due and the
agent ticks otherwise. That is how the harness drives it: `PunctualDriver` says so of `_milestones`.

`WebSpec` assumes weak fairness of `WorkerStep` for each thread: a started thread is scheduled until it
ends. Starting a batch, requests and exceptions are not fair. That each simulation of a run ends is
`SimulationEnds` of `Harness`.

## 4. What is proved

All theorems hold for every value of the constants that the assumptions of the modules allow, so for
any number of invoices, requests, sessions, threads and customers, any amounts, event sets, limits and
bounds.

| Module | Theorem | States |
|---|---|---|
| `CaseLifecycleProofs` | `TypeCorrect` | `Spec => []TypeOK` |
| | `BooksAlwaysBalance` | `Spec => []BooksBalance` |
| | `NeverDunnedAfterPayment` | `Spec => []NoDunningAfterPayment` |
| | `OneRequestAtATime` | `Spec => []SinglePendingAction` |
| | `MovesAlwaysAllowed` | `Spec => MovesAllowed` |
| | `LedgerImplemented` | `Spec => ImplementsLedger`: the refinement of `Ledger` |
| `CaseExecutionProofs` | `CooldownAlwaysKept` | `Spec => []CooldownKept` |
| | `UnattendedAlwaysCompliant` | `Spec => []UnattendedActionsCompliant` |
| | `PromisesAlwaysRespected` | `Spec => PromiseRespected` |
| | `LargeAmountsAlwaysNeedAHuman` | `Spec => LargeAmountsNeedAHuman` |
| | `FraudIsNeverActedOn` | `Spec => FraudNeverActedOn` |
| | `WatchedAlwaysUntouched` | `Spec => []WatchedCasesUntouched` |
| | `ProviderAlwaysCalledOnce` | `Spec => []ProviderCalledOnce` |
| | `MoneyAlwaysAppliedOnce` | `Spec => MoneyAppliedOnce` |
| | `HintsAlwaysCover` | `Spec => []HintCoversBalance` |
| `HarnessProofs` | `HarnessKeepsBooks` | `HarnessSpec => [](BooksBalance /\ NoDunningAfterPayment /\ SinglePendingAction)` |
| | `HarnessMovesAllowed` | `HarnessSpec => MovesAllowed` |
| | `DriverAlwaysPunctual` | `HarnessSpec => PunctualDriver` |
| `DecisionPipelineProofs` | `FactsAlwaysOverrideOpinions` | `Spec => []FactsOverrideOpinions` |
| | `WeakReadingsAlwaysGoToHumans` | `Spec => []WeakReadingsGoToHumans` |
| | `DisputesNeverCollected` | `Spec => []DisputeNeverCollected` |
| | `DeferralsOutlastTheirCause` | `Spec => []DeferralOutlastsItsCause`, if `OpenHour < CloseHour` |
| `ActionBudgetsProofs` | `BudgetTypeCorrect` | `BudgetSpec => []BudgetTypeOK` |
| | `UnattendedAlwaysWithinBudgets` | `BudgetSpec => []UnattendedWithinBudgets` |
| `WebAppProofs` | `SimulationAlwaysOwnsClock` | `WebSpec => []SimulationOwnsClock` |
| | `VirtualStampsAlwaysExplained` | `WebSpec => VirtualStampsExplained` |
| | `ConflictsAlwaysNeedOverlap` | `WebSpec => []ConflictsNeedOverlap` |
| `AuditChainProofs` | `ChainAlwaysValidUnlessTampered` | `[]ChainValidUnlessTampered`, with the rules as diagnosis |
| | `TamperPointAlwaysNamed` | `[]TamperPointNamed`, with the rules as diagnosis |
| `ConsoleLogProofs` | `LogAlwaysTellsTheStatus` | `WebSpec => []LogTellsTheStatus`, whatever the diagnosis |

The assumptions are `DiagnosisAssumption`, `PolicyAssumption`, `LifecycleAssumption`,
`BudgetAssumption`, `HarnessAssumption` and those of the console, the worker and the stamps: types of the constants,
finite sets where something is counted, that events name existing invoices with positive amounts, and
that LLM answers have passed validation. Of a corpus `HarnessAssumption` asks that event ids are
distinct within an invoice, that there are finitely many events, that nothing is seeded overpaid, and that no promise is seeded for a paid invoice (`seed_case` would fail on
it, since `open_or_refresh_case` opens no case). TLC evaluates them in every run of their modules. The two
conditions in the table are hypotheses of the theorems; without the second one the statements are false,
which is the run `ForkedChain`.

**The agent loop.** The inductive invariant is `CaseInv`: `TypeOK`, and `RowOK` of every row.
`RowOK` joins three things that no one of the theorems can do without:

* the row's type;
* `SoundBooks`: recovered at most paid, paid at most billed, RECOVERED only when paid in full,
  and a *live* case only when not. The last part is what makes crediting preserve the second:
  money for a live case closes it in the same operation, so no handler meets a live case with
  nothing left to pay;
* `SoundRequests`: at most one waiting request, none while the case is open. Without its second
  half a tick could park a second request for an open case.

A handler is a composition of operators on rows, so there is one lemma per operator
(`ReceiveMoneyStep`, `DispatchStep`, `ParkStep`, `StepCaseStep`, ...), each saying that from a
`RowOK` row it leads to `RowOK` rows and *onward*: a terminal state stays terminal, a case stays a
case, and money is credited as the ledger demands (`Credits`: paid and recovered only grow, by the same
amount while the case stays live, recovered not at all once it is closed). `Onward` is reflexive and
transitive, which carries it over the stages of a handler; `NextInv` assembles the lemmas per action,
and the theorems project from `CaseInvariant`. `MovesAlwaysAllowed` uses `Onward` between two committed
databases: it is exactly what the table of `constants.py` forbids that `Onward` excludes.

`LedgerImplemented` maps steps to steps: `StepMoves` shows that two rows related by `Onward` have accounts
related by `Move` of the ledger, with `SoundBooks` for the last clause (an account with nothing
owed is not engaged). A rollback or a crash leaves all accounts alone, which is a stutter.

**What is executed, and when.** `CaseInv` knows nothing of time. `SafeRow(c, r, t)` does: it is what a row
satisfies at time `t` between any two steps of a handler.

* Every intervention that exists is in the past, and the attempts numbered before it were *executed*, each
  at least a cooldown before it (`Before`). For `CooldownKept` alone executed actions would do, but a request
  becomes an action when a human releases it, under a key that was chosen when it was parked; the
  condition therefore has to hold of waiting requests already, at the time they were parked, and it is
  kept because an executed action never changes its time.
* A waiting request was sent to a human (`REQUIRES_APPROVAL`), so that what runs as `APPROVED` is the
  agent's own and was compliant when it ran.
* An announced payment belongs to an executed action and covers the balance. It keeps covering it
  because the balance only falls (`OutstandingFalls`).
* A row without a case, or with one below the risk threshold, has no interventions at all.

`Advance(c, r, x, t)` is what a step may do on the agent's own authority: it keeps events, money, the
promise and executed actions (`Kept`), has an unused source for every payment (`Explained`), and
executes something only when no promise lies ahead and the balance is below the limit (`Unattended`).
It is transitive because what it forbids in the second of two steps it also forbids from the first
(the promise is never replaced, the balance never grows). One lemma per operator leads to
`StepCaseAdvance`, `IngestRowAdvance`, `TickEarlyAdvance` and `TickLateAdvance`; `Looks` adds that a step
that reads no event looks at the failures before it acts, which a batch as a whole does not. A human's
decision is not an `Advance`: `DecideRowHuman` says that it touches one request that was waiting.
`NextAttemptReady` is the step from the policy to the row: a plan that is not deferred by the cooldown
rule has its predecessors executed long enough ago, since `LastAt` is the latest of them.

`ExecInv` is `CaseInv`, `SafeRow` of every row at the current time, and `CallsMatch` unless a transaction was
rolled back: exactly the keys of executed actions have been called, once. The second half of `CallsMatch`
(no call without an execution) is what the induction needs; a rollback breaks it, which is why
`ProviderCalledOnce` is about histories without one.

`FraudNeverActedOn` speaks of the database before and after a step, and within a batch the agent acts at a
moment between the two (`ingest_events` applies and steps event by event). What showed before may have been
overtaken by then: an address mismatch counts for the latest attempt only, and the batch may have brought a
later one. What shows after may have come by then not yet: a failure behind the payment. The property
allows these two and nothing else. So `Reached` says of every row that is reached over some events of a batch
what can be said of it: failures are only added and hits other than the mismatch stay (`Grew`, from
`FiledEntries` and `FiledKeepsHits`: filing a failure shifts the others, an injection of the AUTH failures
into those of the longer list), and what was executed was executed on money, while nothing showed
(`FraudSeen`, `ActsOnMoney`). `ReachedFurther` carries it over one more event and `DeliverAllKeeps` over a batch
of any length: it is the induction over a batch, made with a least counterexample (`LeastOf`), since induction
theorems with an operator as parameter are out of the prover's reach.

**The harness.** `HarnessInv` carries `RowOK` of every row from one wake-up to the next, and that cases not
yet simulated are not in the database. It says nothing of the times in a row: the clock is put back for
every case, and `SafeRow` of the earlier ones is then false. `Reached` is `Step`, for all rows, over the events
and the tick of a wake-up (`WakeSound`); the events due are a batch (`DueBatchesAreBatches`). `Milestones` is
bounded from both sides, so it has a least element (`MilestonesBounded`, `LeastOf`), and a deadline that a
jump skipped would be a smaller milestone.

**Decisions.** `PipelineInv` says that failures are well formed and no action lies in the future, and
little more is inductive: the theorems are about `DiagnoseCase` and `PlanAction` on any such evidence.
`RulesDecide`, `WeakReadingAbstains` and `FirmReadingDecides` say which voice the diagnosis follows,
`HumanCauses`, `CorrectionPlan` and `DeferredPlan` what the policy makes of it. Where the rules decide, an
opinion may hold the agent back and never sets it going; that it does not hold the agent back whenever it
disagrees, as the comment in `fusion.py` would have it, is the run `Disagreement`.

**Budgets.** `DbOK` says of a set of rows that all executed actions lie in the past and those of the
agent are within the budgets; `BudgetInv` says it of the committed rows and of the session of the tick.
`AgentActs` is the heart: what the agent has done in the month, or the day, of a new action is among
what `OfCustomer` and `OfDay` count, since `StartOfMonth` and `StartOfDay` are not after anything of
the period (`PeriodStarts`), and `LadderPlan` shows that an approved plan finds both counts below
their limits. Everything else adds nothing by the agent (`NothingByAgent`).

**Console and clock.** `WorkerInv` ties the clock to the phases of the threads: at most one thread is
busy and then the flag is set, a thread that has run its batch has put the real clock back, and without
a batch the clock is the real one unless a batch has failed. `ConsoleInv` has a part for each session
(`SessionOK`: the request it is about was undecided when it read it) and one for each request
(`RequestOK`: what waits is undecided, what no overlapping sessions have met is decided at most once,
and announced money is only left to a request that was executed). For the
times, `DrawnInv` says what a session holds between drawing a time and committing it: the real clock, unless
the session is in `disturbed`. The clock is virtual only while a batch runs or after one has failed, both put
the sessions that draw then into `disturbed`, and none leaves it before it ends.

**The log.** `Chained` says that the rows are numbered without gaps, each commits to the original contents
of all rows before it, and exactly the tampered rows are forged. `ChainInv` adds that no session holds
a last row it has read before it had the lock, which is where the rules as diagnosis are needed:
an LLM's tick does, and that is `ForkedChain`.

**The log and the requests.** `Told` relates a request to the rows about it: there is one for each decision
it has had, and the last of them says whether it was declined. It is inductive with two more
facts. `Ordered`: a row that decides a request has a higher number than every row before it, so the last
decision inserted is the last by number too. `ReadAheadOK`: only a tick that expires nothing holds a last row it has
read before it had the lock. A session that writes a decision has the lock when it reads the last row, so
its rows get numbers above all others (`Appended`, `ApproveRowsDecide`, `DeclineRowsDecide`,
`TimeoutRowsDecide`), and the tick that may reuse a number appends no decision (`TickRowsDecide`). So
`LogTellsTheStatus` needs no hypothesis on the diagnosis: it holds of a forked log, and of a tampered one,
since tampering changes a row's contents and not what kind of row it is.

**Only model-checked**: liveness (`SimulationEnds`, `EventuallyClosed`, `AnnouncedMoneyArrives`, `BatchEnds`,
`BudgetsOnlyDelay`), which under fairness is out of the prover's reach. Every safety and action property
of a passing run is stated by a theorem. `PromiseRespected` is proved for `Spec` and checked for `HarnessSpec`,
where the clock jumps within a step and is put back, so that the invariant of `Spec` does not carry over.

## 5. What is not modelled

* The evaluation's measurement: the contents of the corpus, the metrics, the audit of the harvest and
  the baseline agents. They read what the modelled parts leave and change nothing.
* Prompt, HTTP call and parsing of the real LLM: it is any valid answer.
* Presentation, templates, the annotation of the demo's rows and the command line of `run_eval`.
* Reading the environment (`config.py`): limits are constants.
* A tick that is rolled back may have sent reminders that no row remembers; the budgets do not count
  them, in the code as in `ActionBudgets`, whose properties speak of rows.
* A webhook receiver: the tree has none, events enter by `ingest_events`.
* Ingestion in sessions of its own in `ApprovalConsole`. One that audits a duplicate before anything is
  flushed (`ingestion.py:56`) reads the last row of the log without the lock, as an LLM's tick does;
  `ChainValidUnlessTampered` says nothing of it.

Further behaviour of the code that the modules carry and no run reports. Each was met as a
counterexample of TLC to the sentence as an invariant; the reachable states are there for a
later run:

| In the repository | What the code, and the model, does |
|---|---|
| `constants.py:13`, RECOVERED is paid in full, CLOSED_NOOP closed without an intervention | Money closes the case and leaves its request pending; the timeout (`agent.py:659`) or a decline (`agent.py:696`) of the request then rewrites RECOVERED to CLOSED_NOOP. |
| `backend/tests/test_compliance_boundary.py:3`, compliance rules run again before dispatch | An approved action is dispatched without them: an invoice that passes the age limit while its request waits is still acted on (`agent.py:724`). |
| `README.md:213` of the repository, a per-customer monthly action cap | The cap is consulted when a case is stepped, where a request that only waits is not counted, and not again when it is approved (`agent.py:724`): with the agent's own actions for other cases of the customer it is exceeded. `UnattendedWithinBudgets` is therefore about what the agent does alone. |
| `execution/executors.py:3`, after a crash the provider is not called again | The row with the key is committed after the provider call; a crash in between repeats the call. |
| `clock.py:4`, the web app uses the real wall clock | During a batch its decisions are stamped with the virtual clock; after a batch that raised, until the next one has ended well (`eval/runner.py:90`). `decided_at` is read at `agent.py:683`, before the wait for the lock and the provider call, and committed at `main.py:742`: the virtual time may be committed when the batch is over. |
| `agent.py:694`, a declined action is not executed | Approval and decline that overlap: the decline comes last, drops announced money, or rewrites RECOVERED to CLOSED_NOOP. |
| `diagnosis/offline.py:130`, never auto-collect from a disputing customer | The test for a correction comes first, so a letter that asks for a correction and disputes gets the invoice again; a brief dispute (20 to 59 characters) is read by the offline reader but does not make the rules abstain, and their reminders go on. |
| `diagnosis/context_builder.py:36`, scrub contact data while keeping the substance | The pattern for telephone numbers (`:21`) matches a padded date in digits ("2026-08-07"), which neither reader then sees. |
| `constants.py:12`, PENDING_APPROVAL is a case whose action awaits a decision | An approved action that neither pays at once nor ends the ladder leaves the case PENDING_APPROVAL with nothing pending (`agent.py:721`); `run_tick` steps OPEN cases only, so it stays so until money arrives. |
| `policy/rules.py:168`, no external action outside the contact window | `decide_approval` consults no rule: a request parked by day and approved at night is sent at night. |
| `agent.py:391`, escalated once the ladder is exhausted and no money is announced | While announced money travels the case is OPEN with no next action time; the next tick steps it, finds the attempts used up and escalates; the money is then not credited to the case. |
| `execution/executors.py:3`, no second call of a key | Without a crash: the exception of one case rolls back what the same tick executed for another, which is executed again. |
| `ingestion.py:8`, nothing is ever applied twice | Events are told apart by their id, so two events about one payment (authorized, captured) credit it twice. |
| `policy/playbooks.py:93`, a promise is confirmed, then waited for | If the provider announces no payment, as the Razorpay client never does, the confirmed promise is escalated as broken at once. |
| `diagnosis/fusion.py:16`, a confidence of 0.5 to 0.65 requires approval | `requires_approval` is computed and never read; the plan asks by amount and mode only. |
| `diagnosis/rules_map.py:3`, diagnosis and the fraud stop never contradict each other | `classify` looks at failures of any age, `fraud_hits` at those of seven days. |
| `policy/engine.py:7`, fraud rules are a hard stop, "never overridable" | `ingest_events` steps a case for a payment before it applies the next event of the batch (`agent.py:460`): a fraud failure behind the payment comes too late for that step. An address mismatch stops a case only while it is the latest attempt (`policy/rules.py:97`): a failure attempted later, in the same batch if need be, lifts the stop. |
| `policy/rules.py:113`, consecutive authorization failures | Failures of another kind may lie between them. |

Remarks on the code which the model is not about: `open_or_refresh_case` has a branch that
refreshes an existing case, and wakes a pending one, but no caller reaches it, although
`ingestion.py:4` says that a failure "creates/refreshes a case"; `constants.py:55` says that a
declined case goes "back to watch", `decide_approval` closes it; `RA_COMPLIANCE_MAX_DAYS`
(the repository's `README.md:208`) is read into the settings and used nowhere, the limit in
`policy/rules.py:66` is the literal 120; `make_provider` is called by nobody. The snapshot shows the
eight oldest letters, not the newest. A promise for today is accepted and stored as midnight, so the
next pass finds it broken. A watched case with a missed promise keeps a next action time in the past
of the clock: a corpus with one would spend the 2000 rounds of its loop on it (the repository's corpus
has none). The harvest judges past actions by the age and the fraud window of the end
(`eval/harness.py:292`), so an action that was allowed may be counted as a violation.

## 6. Plan

Done: all modules of section 2. Next, in this order:

1. `LargeAmountsNeedAHuman` and `PromiseRespected` as theorems of `HarnessSpec`, from the part of `SafeRow`
   that does not speak of the present time.
2. That a tick of `ActionBudgets` executes only what `CaseLifecycle` allows (a refinement of the rows both
   have).
3. The baseline agents of the evaluation as further values of the agent's hooks, and the harvest.

The runs are kept few: a new question about the agent loop is a property of an existing run, and
what was refuted and is understood is a row of section 5.
