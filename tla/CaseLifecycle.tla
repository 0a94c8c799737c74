--------------------------- MODULE CaseLifecycle ---------------------------
(***************************************************************************)
(* The agent loop: risk cases from detection to a terminal state           *)
(* (app/agent.py, app/detection.py, app/ingestion.py, app/execution).      *)
(*                                                                         *)
(* db[c] is everything the database holds about invoice c: its payments,   *)
(* its risk case, the case's interventions and its promise.  Each public   *)
(* entry point - ingest_events, run_tick, decide_approval - is one action, *)
(* because its caller commits once, at the end.  An exception or a crash   *)
(* before that rolls the rows back, but not what the provider already did. *)
(*                                                                         *)
(* A handler is written as operators on rows that return the SET of rows   *)
(* the code may leave: the provider, the LLM and the action budgets answer *)
(* as they like within what their code allows.                             *)
(***************************************************************************)
EXTENDS PolicyEngine

CONSTANTS
    Cases,          \* the invoices, each with at most one risk case
    Amount,         \* [Cases -> amount billed]
    Due,            \* [Cases -> due date]
    Flags,          \* [Cases -> compliance flags of the customer]
    Messaged,       \* the invoices with substantive inbound free text
    Promised,       \* [Cases -> date promised before the agent starts, or NoTime]
    BaseRisk,       \* [Cases -> base and amount share of the risk score, per mille]
    DayWeight,      \* risk per day overdue, per mille
    ActionRiskMin,  \* threshold below which a case is only watched, per mille
    Events,         \* the events the outside world may deliver, in any order and number
    LlmAnswers,     \* what the LLM may answer; {NoOpinion} in rules mode
    Provider,       \* "sandbox" or "razorpay"
    HintDelays,     \* how long the sandbox lets money travel
    BudgetAnswers,  \* the budgets that may be found used up
    Timeout,        \* how long an approval may wait
    MaxTime,        \* bound: the clock stops here
    MaxCrashes,     \* bound: number of crashes
    MaxBatch,       \* bound: events in one ingested batch
    MaxCalls        \* bound: a ghost counter of provider calls saturates here

ASSUME LifecycleAssumption ==
    /\ Amount \in [Cases -> Nat \ {0}] /\ Due \in [Cases -> Nat]
    /\ Flags \in [Cases -> SUBSET FlagTypes] /\ Messaged \subseteq Cases
    /\ Promised \in [Cases -> Nat \cup {NoTime}]
    /\ BaseRisk \in [Cases -> Nat] /\ DayWeight \in Nat /\ ActionRiskMin \in Nat
    /\ \A e \in Events : /\ e.case \in Cases /\ e.amount \in Nat \ {0}
                         /\ e.kind \in {"failure", "money"}
                         /\ e.code \in ErrorCodes /\ e.at \in Nat \cup {NoTime}
    /\ \A o \in LlmAnswers : o = NoOpinion \/ ValidOpinion(o)
    /\ Provider \in {"sandbox", "razorpay"} /\ HintDelays \subseteq Nat \ {0}
    /\ BudgetAnswers \subseteq SUBSET Budgets
    /\ Timeout \in Nat \ {0} /\ MaxTime \in Nat
    /\ MaxCrashes \in Nat /\ MaxBatch \in Nat \ {0} /\ MaxCalls \in Nat \ {0}

VARIABLES
    now,         \* the clock every component reads
    db,          \* [Cases -> Row], the committed database
    crashes,     \* how many handlers crashed
    rolledBack   \* ghost: has any transaction been rolled back?

vars == <<now, db, crashes, rolledBack>>

EventIds   == {e.id : e \in Events}
PaymentIds == {e.pay : e \in Events}

-----------------------------------------------------------------------------
(* Rows.                                                                    *)

\* An intervention.  "at" is created_at while it awaits approval, executed_at
\* once it ran.  hint is the simulated payment its outcome announced.
Act == [status   : {"ABSENT", "PENDING_APPROVAL", "SUCCEEDED", "FAILED",
                    "DECLINED", "CANCELLED"},
        verdict  : {"", "APPROVED", "REQUIRES_APPROVAL"},
        at       : Nat \cup {NoTime},
        promised : Nat \cup {NoTime},
        hint     : {"none", "waiting", "applied"},
        hintAt   : Nat \cup {NoTime},
        hintAmt  : Nat]

Row == [paid        : Nat,
        fails       : Seq(Failures),
        payments    : SUBSET PaymentIds,
        seen        : SUBSET EventIds,
        state       : States \cup {"NONE"},
        risk        : Nat,
        nextAt      : Nat \cup {NoTime},
        recovered   : Nat,
        promise     : Nat \cup {NoTime},
        acts        : [Keys -> Act],
        escalations : SUBSET EscalationCodes,
        calls       : [Keys -> 0 .. MaxCalls],  \* ghost: provider calls made
        err         : BOOLEAN]                  \* an exception left the handler

NoAct == [status |-> "ABSENT", verdict |-> "", at |-> NoTime,
          promised |-> NoTime, hint |-> "none", hintAt |-> NoTime, hintAmt |-> 0]

NoCase == [paid |-> 0, fails |-> << >>, payments |-> {}, seen |-> {},
           state |-> "NONE", risk |-> 0, nextAt |-> NoTime, recovered |-> 0,
           promise |-> NoTime, acts |-> [k \in Keys |-> NoAct],
           escalations |-> {}, calls |-> [k \in Keys |-> 0], err |-> FALSE]

MinOf(a, b) == IF a < b THEN a ELSE b
MaxOf(a, b) == IF a > b THEN a ELSE b

Live(r)           == r.state \in LiveStates
Terminal(r)       == r.state \in TerminalStates
Outstanding(c, r) == MaxOf(0, Amount[c] - r.paid)
IsPaid(c, r)      == r.paid >= Amount[c]

Done(a)        == a.status \in {"SUCCEEDED", "FAILED"}
Attempts(r, p) == Cardinality({n \in 1 .. 3 : Done(r.acts[<<p, n>>])})

\* Faulty variant: the oldest execution instead of the latest.
LastAt_Oldest(r, p) ==
    LET times == {r.acts[<<p, n>>].at : n \in {m \in 1 .. 3 : Done(r.acts[<<p, m>>])}}
    IN  IF times = {} THEN NoTime
        ELSE CHOOSE t \in times : \A u \in times : u >= t

LastAt(r, p) ==
    LET times == {r.acts[<<p, n>>].at : n \in {m \in 1 .. 3 : Done(r.acts[<<p, m>>])}}
    IN  IF times = {} THEN NoTime
        ELSE CHOOSE t \in times : \A u \in times : u <= t

HasExecuted(r)     == \E k \in Keys : Done(r.acts[k])
HasIntervention(r) == \E k \in Keys : r.acts[k].status # "ABSENT"
Pending(r)         == {k \in Keys : r.acts[k].status = "PENDING_APPROVAL"}

DaysOverdue(c, t) == MaxOf(0, (t \div DayLen) - (Due[c] \div DayLen))

Evidence(c, r, t, full) ==
    [now |-> t, flags |-> Flags[c], days |-> DaysOverdue(c, t),
     fails |-> r.fails, promise |-> r.promise, messages |-> c \in Messaged,
     partial |-> r.paid > 0 /\ ~IsPaid(c, r),
     attempts |-> [p \in ActPlaybooks |-> Attempts(r, p)],
     lastAt |-> [p \in ActPlaybooks |-> LastAt(r, p)],
     full |-> full, amount |-> Outstanding(c, r)]

-----------------------------------------------------------------------------
(* Detection and crediting.                                                 *)

\* Faulty variant: a stop missing in the table is refused.
SetState_Strict(r, s) == IF s = "STOPPED_COMPLIANCE" THEN r ELSE [r EXCEPT !.state = s]

\* set_state applies the move even when AllowedTransition forbids it.
SetState(r, s) == [r EXCEPT !.state = s]

Escalate(r, code) ==
    [SetState(r, "ESCALATED") EXCEPT !.escalations = @ \cup {code}]

\* risk_score_for: the score is computed once, when the case is opened.
RiskScore(c, r, t) ==
    MinOf(1000,
          BaseRisk[c]
          + (IF r.fails = << >> THEN 0
             ELSE 200 + (IF CodeRules[r.fails[1].code].cause \in
                            {"technical_failure", "insufficient_funds", "auth_failure"}
                         THEN CodeRules[r.fails[1].code].conf \div 2 ELSE 0))
          + MinOf(250, DayWeight * DaysOverdue(c, t)))

OpenCase(c, r, t) == [r EXCEPT !.state = "OPEN", !.risk = RiskScore(c, r, t)]

\* Faulty variant: money is credited whatever the balance.
ReceiveMoney_Unclamped(c, r, amount) ==
    LET paid == [r EXCEPT !.paid = @ + amount]
    IN  IF ~Live(r) THEN paid
        ELSE [paid EXCEPT !.recovered = @ + amount,
                          !.state = IF IsPaid(c, paid) THEN "RECOVERED" ELSE @]

\* Faulty variant: the case is left for the next step to close.
ReceiveMoney_StaysOpen(c, r, amount) ==
    LET credit == MinOf(amount, Outstanding(c, r))
    IN  [r EXCEPT !.paid = @ + credit,
                  !.recovered = IF Live(r) THEN @ + credit ELSE @]

\* Faulty variant: money for a closed case is claimed too.
ReceiveMoney_ClosedToo(c, r, amount) ==
    LET credit == MinOf(amount, Outstanding(c, r))
        paid   == [r EXCEPT !.paid = @ + credit]
    IN  IF r.state = "NONE" \/ credit = 0 THEN paid
        ELSE [paid EXCEPT !.recovered = @ + credit,
                          !.state = IF IsPaid(c, paid) THEN "RECOVERED" ELSE @]

\* Money for a live case goes through credit_received; with no case, or a
\* closed one, it is only recorded on the invoice.
ReceiveMoney(c, r, amount) ==
    LET credit == MinOf(amount, Outstanding(c, r))
        paid   == [r EXCEPT !.paid = @ + credit]
    IN  IF ~Live(r) \/ credit = 0 THEN paid
        ELSE [paid EXCEPT !.recovered = @ + credit,
                          !.state = IF IsPaid(c, paid) THEN "RECOVERED" ELSE @]

-----------------------------------------------------------------------------
(* Execution.                                                               *)

Marker(r, p) == IF p \in Numbered THEN Attempts(r, p) + 1 ELSE 1

Answer(ok, raised, delay) == [ok |-> ok, raised |-> raised, delay |-> delay]

\* The sandbox settles a retry at once or never, by error code and attempt.
RetryPays(r, n) ==
    \/ r.fails[1].code = "TECHNICAL" /\ n >= 1
    \/ r.fails[1].code = "FUNDS" /\ n >= 2

NothingToRetry(r, p) == p = "smart_retry" /\ r.fails = << >>

\* The gateway announces no money: it reports success, an error, or raises.
RazorpayAnswers ==
    {Answer(TRUE, FALSE, NoTime), Answer(FALSE, FALSE, NoTime),
     Answer(FALSE, TRUE, NoTime)}

SandboxAnswers(r, p, n) ==
    IF p = "smart_retry"
    THEN {IF RetryPays(r, n) THEN Answer(TRUE, FALSE, 0)
                             ELSE Answer(FALSE, FALSE, NoTime)}
    ELSE {Answer(TRUE, FALSE, d) : d \in HintDelays \cup {NoTime}}

ProviderAnswers(r, p, n) ==
    IF NothingToRetry(r, p) THEN {Answer(FALSE, FALSE, NoTime)}
    ELSE IF Provider = "razorpay" THEN RazorpayAnswers
    ELSE SandboxAnswers(r, p, n)

\* A confirmed promise is paid some time after the promised date.
HintTime(p, promised, t, delay) ==
    IF p = "promise_accept" THEN MaxOf(t, promised) + delay ELSE t + delay

\* Faulty variant: what was recovered before is subtracted twice.
HintAmount_Twice(c, r) == MaxOf(0, Outstanding(c, r) - r.recovered)

\* The customer is asked for, and pays, the whole balance.
HintAmount(c, r) == Outstanding(c, r)

\* The provider is called under key k and its answer recorded.
Dispatch(c, r, k, verdict, promised, ans, t) ==
    LET hinted == ans.delay # NoTime
        act == [status   |-> IF ans.ok THEN "SUCCEEDED" ELSE "FAILED",
                verdict  |-> verdict,
                at       |-> t,
                promised |-> promised,
                hint     |-> IF hinted THEN "waiting" ELSE "none",
                hintAt   |-> IF hinted THEN HintTime(k[1], promised, t, ans.delay)
                                       ELSE NoTime,
                hintAmt  |-> IF hinted THEN HintAmount(c, r) ELSE 0]
        called == IF NothingToRetry(r, k[1]) THEN r.calls[k]
                  ELSE MinOf(r.calls[k] + 1, MaxCalls)
        accept == k[1] = "promise_accept" /\ ~ans.raised /\ r.promise = NoTime
    IN  [r EXCEPT !.acts[k] = act, !.calls[k] = called,
                  !.promise = IF accept THEN promised ELSE @]

Dispatched(c, r, k, verdict, promised, t) ==
    {Dispatch(c, r, k, verdict, promised, ans, t) : ans \in ProviderAnswers(r, k[1], k[2])}

\* Money already here is credited under the event id of its key, once.
SettleHint(c, r, k) ==
    IF r.acts[k].hint = "applied" THEN r
    ELSE ReceiveMoney(c, [r EXCEPT !.acts[k].hint = "applied"], r.acts[k].hintAmt)

\* _observe_execution: with no money announced, the ladder goes on or is over.
Observe(c, r, k, t) ==
    LET a == r.acts[k]
        p == k[1]
    IN  IF ~Done(a) THEN r
        ELSE IF a.status = "SUCCEEDED" /\ a.hint # "none"
          THEN IF a.hintAt <= a.at THEN SettleHint(c, r, k) ELSE r
        ELSE IF Attempts(r, p) >= MaxAttempts[p] THEN Escalate(r, ExhaustReason[p])
        ELSE [r EXCEPT !.nextAt = t + Cooldown[p]]

\* execute_action: a key that exists is never sent to the provider again.
Execute(c, r, p, promised, t) ==
    LET k == <<p, Marker(r, p)>>
    IN  IF r.acts[k].status # "ABSENT" THEN {Observe(c, r, k, t)}
        ELSE {Observe(c, x, k, t) : x \in Dispatched(c, r, k, "APPROVED", promised, t)}

\* Faulty variant: the older request is left waiting.
Park_KeepsOlder(r, p, promised, t) ==
    LET k == <<p, Marker(r, p)>>
        request == [NoAct EXCEPT !.status = "PENDING_APPROVAL", !.at = t,
                                 !.verdict = "REQUIRES_APPROVAL",
                                 !.promised = promised]
    IN  IF r.acts[k].status # "ABSENT" THEN [r EXCEPT !.err = TRUE]
        ELSE [r EXCEPT !.acts[k] = request,
                       !.state = "PENDING_APPROVAL", !.nextAt = NoTime]

\* _park_for_approval: older requests are cancelled, then the new row is
\* inserted; inserting a key that exists violates UNIQUE and raises.
Park(r, p, promised, t) ==
    LET k == <<p, Marker(r, p)>>
        cancelled == [j \in Keys |-> IF j \in Pending(r)
                                     THEN [r.acts[j] EXCEPT !.status = "CANCELLED"]
                                     ELSE r.acts[j]]
        request == [NoAct EXCEPT !.status = "PENDING_APPROVAL", !.at = t,
                                 !.verdict = "REQUIRES_APPROVAL",
                                 !.promised = promised]
    IN  IF r.acts[k].status # "ABSENT" THEN [r EXCEPT !.err = TRUE]
        ELSE [r EXCEPT !.acts = [cancelled EXCEPT ![k] = request],
                       !.state = "PENDING_APPROVAL", !.nextAt = NoTime]

-----------------------------------------------------------------------------
(* step_case: one detect - diagnose - decide - execute - observe pass.      *)

Enforce(c, r, plan, promised, t) ==
    CASE plan.verdict \in {"BLOCKED", "ESCALATE"} ->
            {[SetState(r, plan.stop) EXCEPT !.escalations = @ \cup {plan.code}]}
      [] plan.verdict = "DEFERRED" -> {[r EXCEPT !.nextAt = plan.deferTo]}
      [] plan.verdict = "REQUIRES_APPROVAL" -> {Park(r, plan.playbook, promised, t)}
      [] plan.verdict = "APPROVED" -> Execute(c, r, plan.playbook, promised, t)

\* What diagnosis and policy may make of the case.
Diagnosed(c, r, t) ==
    {[evidence |-> e, diagnosis |-> DiagnoseCase(e, llm)] :
        e \in {Evidence(c, r, t, full) : full \in BudgetAnswers}, llm \in LlmAnswers}

Planned(c, r, t) ==
    {[plan |-> PlanAction(x.evidence, x.diagnosis), promised |-> x.diagnosis.promised] :
        x \in Diagnosed(c, r, t)}

DiagnoseAndAct(c, r, t) ==
    UNION {Enforce(c, r, x.plan, x.promised, t) : x \in Planned(c, r, t)}

\* Faulty variant: a later failure lifts the gate without a new score.
Watched_UntilFailure(r) == r.risk < ActionRiskMin /\ r.fails = << >>

Watched(r) == r.risk < ActionRiskMin /\ ~HasExecuted(r)

\* Faulty variant: the promise ends the wait a day too early.
AwaitsPromise_DayEarly(r, t) == r.promise # NoTime /\ r.promise > t + DayLen

AwaitsPromise(r, t) == r.promise # NoTime /\ r.promise > t

StepCase(c, r, t) ==
    IF Terminal(r) THEN {r}
    ELSE IF IsPaid(c, r)
      THEN {SetState(r, IF r.recovered > 0 \/ HasIntervention(r)
                        THEN "RECOVERED" ELSE "CLOSED_NOOP")}
    ELSE IF AwaitsPromise(r, t) THEN {[r EXCEPT !.nextAt = r.promise + DayLen]}
    ELSE IF Watched(r) THEN {r}
    ELSE DiagnoseAndAct(c, r, t)

-----------------------------------------------------------------------------
(* ingest_events, for a batch about one invoice.                            *)

\* The attempt is dated by the event, or by its reception if that says nothing.
AttemptedAt(e, t) == IF e.at = NoTime THEN t ELSE e.at

\* A payment row is added once per payment id; money is credited regardless.
ApplyEvent(c, r, e, t) ==
    LET known  == e.pay \in r.payments
        stored == [r EXCEPT !.seen = @ \cup {e.id}, !.payments = @ \cup {e.pay}]
    IN  IF e.kind = "money" THEN ReceiveMoney(c, stored, e.amount)
        ELSE IF known THEN stored
        ELSE [stored EXCEPT !.fails = Filed(@, [code |-> e.code, at |-> AttemptedAt(e, t)])]

\* Faulty variant: every delivery is applied.
Deliver_EveryCopy(c, r, e, t) ==
    IF r.err THEN {r}
    ELSE UNION {IF e.kind = "money" /\ Live(x) THEN StepCase(c, x, t) ELSE {x} :
                x \in {ApplyEvent(c, r, e, t)}}

\* Each new event is applied; a live case that got money is stepped at once.
Deliver(c, r, e, t) ==
    IF r.err \/ e.id \in r.seen THEN {r}
    ELSE UNION {IF e.kind = "money" /\ Live(x) THEN StepCase(c, x, t) ELSE {x} :
                x \in {ApplyEvent(c, r, e, t)}}

\* The events of a batch are handled in turn; rows[i] are the rows after i of them.
DeliverAll(c, r, batch, t) ==
    LET rows[i \in 0 .. Len(batch)] ==
            IF i = 0 THEN {r}
            ELSE UNION {Deliver(c, x, batch[i], t) : x \in rows[i - 1]}
    IN  rows[Len(batch)]

\* After the batch an unpaid invoice it touched gets its case, if it has none.
\* An existing case is not looked at again: a failure leaves it as it was.
IngestRow(c, r, batch, t) ==
    UNION {IF x.seen # r.seen /\ x.state = "NONE" /\ ~IsPaid(c, x)
           THEN StepCase(c, OpenCase(c, x, t), t) ELSE {x} :
           x \in DeliverAll(c, r, batch, t)}

Batches == {b \in SeqOf(Events, MaxBatch) :
               b # << >> /\ \A i \in DOMAIN b : b[i].case = b[1].case}

\* An attempt is not reported before it is made.
Reportable(batch, t) == \A i \in DOMAIN batch : batch[i].at <= t

-----------------------------------------------------------------------------
(* run_tick, per case.  Cases meet only in the budgets and in the fate of   *)
(* the transaction.                                                         *)

Stale(r, t) == {k \in Pending(r) : r.acts[k].at <= t - Timeout}

ExpireStaleApprovals(r, t) ==
    IF Stale(r, t) = {} THEN r
    ELSE [SetState(r, "CLOSED_NOOP") EXCEPT
            !.acts = [k \in Keys |-> IF k \in Stale(r, t)
                                     THEN [r.acts[k] EXCEPT !.status = "DECLINED"]
                                     ELSE r.acts[k]]]

\* Faulty variant: money is awaited for live cases only.
DueHints_LiveOnly(r, t) ==
    {k \in Keys : Live(r) /\ r.acts[k].hint = "waiting" /\ r.acts[k].hintAt <= t}

DueHints(r, t) == {k \in Keys : /\ r.acts[k].status = "SUCCEEDED"
                                /\ r.acts[k].hint = "waiting"
                                /\ r.acts[k].hintAt <= t}

\* Every due hint is consumed.  Each one covers the whole balance
\* (HintCoversBalance), so whichever comes first settles the invoice.
DrainPendingPayments(c, r, t) ==
    LET due   == DueHints(r, t)
        paid  == ReceiveMoney(c, r, r.acts[CHOOSE k \in due : TRUE].hintAmt)
        spent == [paid EXCEPT !.acts =
                    [k \in Keys |-> IF k \in due
                                    THEN [r.acts[k] EXCEPT !.hint = "applied"]
                                    ELSE r.acts[k]]]
    IN  IF due = {} THEN {r}
        ELSE IF spent.state = "OPEN" THEN StepCase(c, spent, t)
        ELSE {spent}

Overdue(c, r, t) == Due[c] < t /\ ~IsPaid(c, r)

ScheduleArrived(r, t) ==
    r.state = "OPEN" /\ r.nextAt # NoTime /\ r.nextAt <= t

\* Listed by the overdue scan, before the scheduled cases are stepped.
Listed(c, r, t) ==
    /\ Overdue(c, r, t)
    /\ \/ r.state = "NONE"
       \/ r.state = "OPEN" /\ (r.nextAt = NoTime \/ r.nextAt <= t)

\* Approvals and pending money ...
TickMoney(c, r, t) ==
    UNION {DrainPendingPayments(c, x, t) : x \in {ExpireStaleApprovals(r, t)}}

\* ... the overdue scan, which opens missing cases and lists what to step ...
TickScan(c, r, t) ==
    {[row |-> IF Listed(c, x, t) /\ x.state = "NONE" THEN OpenCase(c, x, t) ELSE x,
      due |-> Listed(c, x, t)] : x \in TickMoney(c, r, t)}

\* ... the scheduled cases ...
TickEarly(c, r, t) ==
    UNION {{[row |-> y, due |-> x.due] :
               y \in IF ScheduleArrived(x.row, t) THEN StepCase(c, x.row, t) ELSE {x.row}} :
           x \in TickScan(c, r, t)}

\* ... then the listed cases, even those the schedule has just stepped.
TickLate(c, m, t) == IF m.due THEN StepCase(c, m.row, t) ELSE {m.row}

-----------------------------------------------------------------------------
(* decide_approval: only the intervention's own status is looked at.        *)

\* Faulty variant: a declined case goes back to watch.
DecideRow_BackToWatch(c, r, k, decision, t) ==
    IF decision = "DECLINED"
    THEN {[SetState(r, "OPEN") EXCEPT !.acts[k].status = "DECLINED"]}
    ELSE {Observe(c, x, k, t) :
            x \in Dispatched(c, r, k, r.acts[k].verdict, r.acts[k].promised, t)}

DecideRow(c, r, k, decision, t) ==
    LET a == r.acts[k]
    IN  IF decision = "DECLINED"
          THEN {[SetState(r, "CLOSED_NOOP") EXCEPT !.acts[k].status = "DECLINED"]}
        ELSE {Observe(c, x, k, t) : x \in Dispatched(c, r, k, a.verdict, a.promised, t)}

\* Faulty variant: a request can be approved again after it ran.
Decided_AnyStatus(c, r, t) ==
    UNION {DecideRow(c, r, k, "APPROVED", t) :
           k \in {j \in Keys : r.acts[j].verdict = "REQUIRES_APPROVAL"}}

Decided(c, r, t) ==
    UNION {DecideRow(c, r, k, "APPROVED", t) \cup DecideRow(c, r, k, "DECLINED", t) :
           k \in Pending(r)}

-----------------------------------------------------------------------------
(* The system.                                                              *)

Init ==
    /\ now = 0
    /\ db = [c \in Cases |->
               IF Promised[c] = NoTime THEN NoCase
               ELSE OpenCase(c, [NoCase EXCEPT !.promise = Promised[c]], 0)]
    /\ crashes = 0
    /\ rolledBack = FALSE

\* One result per case, out of the results each case may have.
OnePerCase(results) ==
    {f \in [Cases -> UNION {results[c] : c \in Cases}] :
        \A c \in Cases : f[c] \in results[c]}

\* Faulty variant: the exception is swallowed and the session committed.
Commit_Swallows(rows) == db' = rows /\ UNCHANGED <<now, crashes, rolledBack>>

Commit(rows) ==
    /\ \A c \in Cases : ~rows[c].err
    /\ db' = rows
    /\ UNCHANGED <<now, crashes, rolledBack>>

\* Nothing of the transaction survives but the provider calls it made.
RollBack(rows) ==
    /\ db' = [c \in Cases |-> [db[c] EXCEPT !.calls = rows[c].calls]]
    /\ rolledBack' = TRUE
    /\ UNCHANGED now

Crash(rows) ==
    /\ crashes < MaxCrashes
    /\ crashes' = crashes + 1
    /\ RollBack(rows)

Raise(rows) ==
    /\ \E c \in Cases : rows[c].err
    /\ RollBack(rows)
    /\ UNCHANGED crashes

IngestResults ==
    UNION {{[db EXCEPT ![b[1].case] = x] :
               x \in IngestRow(b[1].case, db[b[1].case], b, now)} :
           b \in {batch \in Batches : Reportable(batch, now)}}

DecideResults ==
    UNION {{[db EXCEPT ![c] = x] : x \in Decided(c, db[c], now)} : c \in Cases}

TickMiddles == OnePerCase([c \in Cases |-> TickEarly(c, db[c], now)])

TickResults(mid) == OnePerCase([c \in Cases |-> TickLate(c, mid[c], now)])

IngestEvents   == \E rows \in IngestResults : Commit(rows)
IngestRaises   == \E rows \in IngestResults : Raise(rows)
DecideApproval == \E rows \in DecideResults : Commit(rows)
RunTick        == \E mid \in TickMiddles : \E rows \in TickResults(mid) : Commit(rows)

\* The exception comes in the last stage: of the other listed cases some were
\* stepped before it, some were not (the queries have no ORDER BY).
TickRaises ==
    \E mid \in TickMiddles : \E rows \in TickResults(mid), done \in SUBSET Cases :
        Raise([c \in Cases |-> IF c \in done \/ rows[c].err THEN rows[c]
                               ELSE mid[c].row])

\* The process dies inside a handler, after any of its provider calls.
HandlerCrashes ==
    \/ \E rows \in IngestResults : Crash(rows)
    \/ \E rows \in DecideResults : Crash(rows)
    \/ \E mid \in TickMiddles : \E rows \in TickResults(mid),
                                   reached \in [Cases -> {"none", "early", "late"}] :
          Crash([c \in Cases |-> CASE reached[c] = "none"  -> db[c]
                                   [] reached[c] = "early" -> mid[c].row
                                   [] reached[c] = "late"  -> rows[c]])

AdvanceClock ==
    /\ now < MaxTime
    /\ now' = now + 1
    /\ UNCHANGED <<db, crashes, rolledBack>>

Next ==
    \/ IngestEvents
    \/ IngestRaises
    \/ RunTick
    \/ TickRaises
    \/ DecideApproval
    \/ HandlerCrashes
    \/ AdvanceClock

Spec == Init /\ [][Next]_vars

-----------------------------------------------------------------------------
(* Invariants.                                                              *)

\* Every row has its type; nothing with an escaped exception is committed.
TypeOK ==
    /\ now \in Nat
    /\ db \in [Cases -> Row]
    /\ \A c \in Cases : ~db[c].err
    /\ crashes \in 0 .. MaxCrashes
    /\ rolledBack \in BOOLEAN

\* No invoice is credited beyond its amount, no case claims more than was
\* received, and RECOVERED means paid in full - also after a late payment, a
\* timed-out approval or a replayed event (credit_received, set_state).
BooksBalance ==
    \A c \in Cases : LET r == db[c] IN
        /\ r.recovered <= r.paid
        /\ r.paid <= Amount[c]
        /\ r.state = "RECOVERED" => r.paid = Amount[c]

\* A case the agent may still act on is never about a settled invoice: money
\* that settles it closes the case in the same transaction.
NoDunningAfterPayment ==
    \A c \in Cases : Live(db[c]) => db[c].paid < Amount[c]

\* A case has at most one action waiting for a human, and none while OPEN or
\* not yet open, so no timeout or late decision can hit a case the agent is
\* working on.
SinglePendingAction ==
    \A c \in Cases :
        /\ \A j, k \in Pending(db[c]) : j = k
        /\ db[c].state \in {"NONE", "OPEN"} => Pending(db[c]) = {}

\* The n-th attempt of a playbook follows the (n-1)-th by its cooldown, even
\* when a human released one of them late (stopping_hits, decide_approval).
CooldownKept ==
    \A c \in Cases, p \in ActPlaybooks : \A m, n \in 1 .. 3 :
        LET a == db[c].acts[<<p, m>>]
            b == db[c].acts[<<p, n>>]
        IN  m < n /\ Done(b) => Done(a) /\ b.at - a.at >= Cooldown[p]

\* What the agent executes on its own authority it executes in contact hours,
\* before the age limit.
UnattendedActionsCompliant ==
    \A c \in Cases, k \in Keys : LET a == db[c].acts[k] IN
        Done(a) /\ a.verdict = "APPROVED" =>
            /\ InContactWindow(a.at)
            /\ DaysOverdue(c, a.at) <= MaxDays

\* A case opened below the risk threshold is never acted on, whatever happens
\* to it later (the watch gate of step_case).
WatchedCasesUntouched ==
    \A c \in Cases :
        db[c].state # "NONE" /\ db[c].risk < ActionRiskMin => ~HasIntervention(db[c])

\* Money announced by the provider covers the balance when it arrives, even
\* after partial payments in between.
HintCoversBalance ==
    \A c \in Cases, k \in Keys :
        db[c].acts[k].hint = "waiting" => db[c].acts[k].hintAmt >= Outstanding(c, db[c])

\* As long as every transaction commits, the provider sees each idempotency
\* key at most once, over redeliveries, repeated steps and human decisions.
ProviderCalledOnce ==
    \A c \in Cases, k \in Keys : rolledBack \/ db[c].calls[k] <= 1

-----------------------------------------------------------------------------
(* Action properties.                                                       *)

\* Cases move only along the transitions constants.py lists: in particular a
\* closed case never comes back to life.
MovesAllowed ==
    [][\A c \in Cases :
        LET s == db[c].state
            u == db'[c].state
        IN  s # "NONE" /\ u # s => AllowedTransition(s, u)]_vars

\* The invoice balance moves only with an event or a simulated payment that
\* was never applied before (store_event).
MoneyAppliedOnce ==
    [][\A c \in Cases :
        db'[c].paid # db[c].paid =>
            \/ \E e \in Events : e.case = c /\ e.id \in db'[c].seen \ db[c].seen
            \/ \E k \in Keys : /\ db'[c].acts[k].hint = "applied"
                               /\ db[c].acts[k].hint # "applied"]_vars

\* The agent on its own never executes an action for a case whose failures show
\* fraud, as they are sorted at that moment.  Within a batch the moment lies
\* between two events, when a payment is acted on (ingest_events): what showed
\* before may only be a mismatch that a later failure has overtaken, what shows
\* after may only have come by a failure that was read behind the payment.
FraudNeverActedOn ==
    [][\A c \in Cases, k \in Keys :
        LET a == db[c].acts[k]
            b == db'[c].acts[k]
            before == FraudHits([now |-> now, fails |-> db[c].fails])
            after  == FraudHits([now |-> now, fails |-> db'[c].fails])
        IN  ~Done(a) /\ Done(b) /\ b.verdict = "APPROVED" =>
                /\ before \subseteq {"FRAUD_AVS_MISMATCH"}
                /\ before # {} => db'[c].fails # db[c].fails
                /\ after # {} => db'[c].fails # db[c].fails /\ db'[c].paid # db[c].paid]_vars

\* An action for an invoice at or above the high-value limit starts only out
\* of a request a human was shown, also when part payments move the balance
\* across the limit (plan_action, decide_approval).
LargeAmountsNeedAHuman ==
    [][\A c \in Cases, k \in Keys :
        /\ ~Done(db[c].acts[k]) /\ Done(db'[c].acts[k])
        /\ Outstanding(c, db[c]) >= HighValue
        /\ Outstanding(c, db'[c]) >= HighValue
        => db[c].acts[k].status = "PENDING_APPROVAL"]_vars

\* While a promised date lies ahead the agent on its own does nothing for the
\* case: no reminder crosses a promise (the deferral of step_case).
PromiseRespected ==
    [][\A c \in Cases, k \in Keys :
        LET a == db[c].acts[k]
            b == db'[c].acts[k]
        IN  ~Done(a) /\ Done(b) /\ b.verdict = "APPROVED" => db[c].promise <= now]_vars

-----------------------------------------------------------------------------
(* The agency's ledger.                                                     *)

\* The account of an invoice: the case is the agency's engagement.
AccountOf(r) ==
    [received |-> r.paid,
     claimed  |-> r.recovered,
     stage    |-> CASE Live(r)     -> "engaged"
                    [] Terminal(r) -> "released"
                    [] OTHER       -> "none"]

Books == INSTANCE Ledger WITH Accounts <- Cases, Billed <- Amount,
                              books <- [c \in Cases |-> AccountOf(db[c])]

\* The agent implements the ledger: every commit, rollback and crash moves the
\* accounts as a ledger transaction does.  In particular money that comes after
\* a decline, a timeout or a stop is never claimed, and none is missed while
\* the case is open (credit_received, record_payment_received).
ImplementsLedger == Books!LedgerSpec

-----------------------------------------------------------------------------
(* What the repository says of the agent and the code does not do: refuted  *)
(* by a run.                                                                *)

\* agent.py: parking an action again replaces the pending request of the case;
\* so no handler fails when no process crashes.
HandlersNeverRaise == crashes = 0 => ~rolledBack

=============================================================================
