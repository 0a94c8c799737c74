--------------------------- MODULE ActionBudgets ---------------------------
(***************************************************************************)
(* The two action budgets - per customer and month, and for everybody per  *)
(* day - as cases share them (stopping_hits in app/policy/rules.py).       *)
(*                                                                         *)
(* CaseLifecycle lets a budget be full at will; here it is counted.  All   *)
(* invoices fell due the day before the clock starts, have no failed       *)
(* payment and no message, and are above the risk threshold, so that every *)
(* case climbs the ladder of reminders.  The provider is the Razorpay      *)
(* client, which announces no money.                                       *)
(*                                                                         *)
(* A tick is a session that steps one case after the other and commits at  *)
(* the end.  It has the write lock from its first step on, so that nothing *)
(* comes between; each step counts what the session itself has executed.   *)
(***************************************************************************)
EXTENDS PolicyEngine

CONSTANTS
    Cases,          \* the invoices
    CustomerOf,     \* [Cases -> customer]
    Amount,         \* [Cases -> amount due]
    CustomerCap,    \* actions for a customer in a calendar month
    DailyBudget,    \* actions in a day
    MonthLen,       \* days in a month
    Timeout,        \* how long an approval may wait
    MaxTime         \* bound: the clock stops here

ASSUME BudgetAssumption ==
    /\ IsFiniteSet(Cases) /\ CustomerOf = [c \in Cases |-> CustomerOf[c]]
    /\ Amount \in [Cases -> Nat \ {0}]
    /\ CustomerCap \in Nat /\ DailyBudget \in Nat /\ MonthLen \in Nat \ {0}
    /\ Timeout \in Nat \ {0} /\ MaxTime \in Nat

VARIABLES
    now,       \* the clock
    rows,      \* [Cases -> Row], the committed cases
    session    \* the tick under way

budgetVars == <<now, rows, session>>

Ladder == "dunning_reminder"

Attempts == 1 .. MaxAttempts[Ladder]

\* An attempt: not yet there, waiting for a human, declined, or executed by the
\* agent on its own or on the word of a human.
Act == [by : {"nobody", "request", "declined", "agent", "human"}, at : Nat \cup {NoTime}]

Row == [state : States \cup {"NONE"}, nextAt : Nat \cup {NoTime}, acts : [Attempts -> Act]]

NoCase == [state |-> "NONE", nextAt |-> NoTime,
           acts |-> [n \in Attempts |-> [by |-> "nobody", at |-> NoTime]]]

Executed(r) == {n \in Attempts : r.acts[n].by \in {"agent", "human"}}

LastAt(r) == IF Executed(r) = {} THEN NoTime
             ELSE r.acts[CHOOSE n \in Executed(r) : \A m \in Executed(r) : m <= n].at

-----------------------------------------------------------------------------
(* Counting.                                                                *)

Day(t)   == t \div DayLen
Month(t) == t \div (DayLen * MonthLen)

StartOfDay(t) == Day(t) * DayLen

\* Faulty variant: everything since the first action.
StartOfMonth_Ever(t) == 0

StartOfMonth(t) == Month(t) * (DayLen * MonthLen)

\* Executed interventions, of cases in any state.
Actions(db) == {a \in Cases \X Attempts : a[2] \in Executed(db[a[1]])}

AtOf(db, a) == db[a[1]].acts[a[2]].at

OfCustomer(db, c, t) ==
    {a \in Actions(db) : /\ CustomerOf[a[1]] = CustomerOf[c]
                         /\ AtOf(db, a) >= StartOfMonth(t)}

OfDay(db, t) == {a \in Actions(db) : AtOf(db, a) >= StartOfDay(t)}

Full(db, c, t) ==
    {b \in Budgets :
        \/ b = "CUSTOMER_CAP" /\ Cardinality(OfCustomer(db, c, t)) >= CustomerCap
        \/ b = "GLOBAL_BUDGET" /\ Cardinality(OfDay(db, t)) >= DailyBudget}

-----------------------------------------------------------------------------
(* step_case, for an overdue invoice.                                       *)

Evidence(c, r, t, full) ==
    [now |-> t, flags |-> {}, days |-> Day(t) + 1, fails |-> << >>, promise |-> NoTime,
     messages |-> FALSE, partial |-> FALSE,
     attempts |-> [p \in ActPlaybooks |->
                      IF p = Ladder THEN Cardinality(Executed(r)) ELSE 0],
     lastAt |-> [p \in ActPlaybooks |-> IF p = Ladder THEN LastAt(r) ELSE NoTime],
     full |-> full, amount |-> Amount[c]]

\* The number of the attempt, which is its idempotency key.
NextAttempt(r) == Cardinality(Executed(r)) + 1

\* The attempt is executed, and the ladder goes on or is over.
Acted(r, n, by, t) ==
    LET done == [r EXCEPT !.acts[n] = [by |-> by, at |-> t]]
    IN  IF Cardinality(Executed(done)) >= MaxAttempts[Ladder]
        THEN [done EXCEPT !.state = "ESCALATED"]
        ELSE [done EXCEPT !.nextAt = t + Cooldown[Ladder]]

Parked(r, t) == [state |-> "PENDING_APPROVAL", nextAt |-> NoTime,
                 acts |-> [r.acts EXCEPT ![NextAttempt(r)] = [by |-> "request", at |-> t]]]

Enforce(r, plan, t) ==
    IF r.state \in TerminalStates THEN r
    ELSE CASE plan.verdict \in {"BLOCKED", "ESCALATE"} -> [r EXCEPT !.state = plan.stop]
           [] plan.verdict = "DEFERRED" -> [r EXCEPT !.nextAt = plan.deferTo]
           [] plan.verdict = "REQUIRES_APPROVAL" -> Parked(r, t)
           [] plan.verdict = "APPROVED" -> Acted(r, NextAttempt(r), "agent", t)

\* Parking an attempt whose key exists violates UNIQUE.
Raises(r, plan) ==
    /\ r.state \in LiveStates
    /\ plan.verdict = "REQUIRES_APPROVAL"
    /\ r.acts[NextAttempt(r)].by # "nobody"

-----------------------------------------------------------------------------
(* run_tick.                                                                *)

NoSession == [open |-> FALSE, db |-> [c \in Cases |-> NoCase], scheduled |-> {}, listed |-> {}]

Waiting(r)  == {n \in Attempts : r.acts[n].by = "request"}
Stale(r, t) == {n \in Waiting(r) : r.acts[n].at <= t - Timeout}

\* Faulty variant: the case gets the status of its request.
Expired_Declined(r, t) ==
    IF Stale(r, t) = {} THEN r
    ELSE [r EXCEPT !.state = "DECLINED",
                   !.acts = [n \in Attempts |-> IF n \in Stale(r, t)
                                                THEN [r.acts[n] EXCEPT !.by = "declined"]
                                                ELSE r.acts[n]]]

Expired(r, t) ==
    IF Stale(r, t) = {} THEN r
    ELSE [r EXCEPT !.state = "CLOSED_NOOP",
                   !.acts = [n \in Attempts |-> IF n \in Stale(r, t)
                                                THEN [r.acts[n] EXCEPT !.by = "declined"]
                                                ELSE r.acts[n]]]

Opened(r) == IF r.state = "NONE" THEN [r EXCEPT !.state = "OPEN"] ELSE r

Scheduled(r, t) == r.state = "OPEN" /\ r.nextAt # NoTime /\ r.nextAt <= t

\* The overdue scan lists scheduled cases, too.
Listed(r, t) == r.state = "OPEN" /\ (r.nextAt = NoTime \/ r.nextAt <= t)

BeginTick ==
    LET db == [c \in Cases |-> Opened(Expired(rows[c], now))]
    IN  /\ ~session.open
        /\ session' = [open |-> TRUE, db |-> db,
                       scheduled |-> {c \in Cases : Scheduled(db[c], now)},
                       listed |-> {c \in Cases : Listed(db[c], now)}]
        /\ UNCHANGED <<now, rows>>

\* Faulty variant: the budgets are those of the last commit.
Counted_Committed == rows

\* The queries see what the session has flushed.
Counted == session.db

\* The one plan for the case, as a set.
Planned(c) ==
    {PlanAction(e, DiagnoseCase(e, NoOpinion)) :
        e \in {Evidence(c, session.db[c], now, Full(Counted, c, now))}}

\* First the scheduled cases are stepped, in any order, then the listed ones.
NextUp == IF session.scheduled = {} THEN session.listed ELSE session.scheduled

StepCase(c) ==
    /\ session.open /\ c \in NextUp
    /\ \E plan \in Planned(c) :
          /\ ~Raises(session.db[c], plan)
          /\ session' = IF c \in session.scheduled
                        THEN [session EXCEPT !.db[c] = Enforce(@, plan, now),
                                             !.scheduled = @ \ {c}]
                        ELSE [session EXCEPT !.db[c] = Enforce(@, plan, now),
                                             !.listed = @ \ {c}]
    /\ UNCHANGED <<now, rows>>

EndTick ==
    /\ session.open /\ session.scheduled = {} /\ session.listed = {}
    /\ rows' = session.db
    /\ session' = NoSession
    /\ UNCHANGED now

\* The exception undoes what the tick has done for all cases.
TickRaises ==
    /\ session.open
    /\ \E c \in NextUp : \E plan \in Planned(c) : Raises(session.db[c], plan)
    /\ session' = NoSession
    /\ UNCHANGED <<now, rows>>

-----------------------------------------------------------------------------
(* The console, the customers, and time.                                    *)

Approve(c) ==
    /\ ~session.open
    /\ \E n \in Waiting(rows[c]) :
          rows' = [rows EXCEPT ![c] = Acted(rows[c], n, "human", now)]
    /\ UNCHANGED <<now, session>>

Decline(c) ==
    /\ ~session.open
    /\ \E n \in Waiting(rows[c]) :
          rows' = [rows EXCEPT ![c].state = "CLOSED_NOOP", ![c].acts[n].by = "declined"]
    /\ UNCHANGED <<now, session>>

\* The invoice is paid in full.
MoneyArrives(c) ==
    /\ ~session.open /\ rows[c].state \in LiveStates
    /\ rows' = [rows EXCEPT ![c].state = "RECOVERED"]
    /\ UNCHANGED <<now, session>>

AdvanceClock ==
    /\ ~session.open /\ now < MaxTime
    /\ now' = now + 1
    /\ UNCHANGED <<rows, session>>

Tick ==
    \/ BeginTick
    \/ \E c \in Cases : StepCase(c)
    \/ EndTick
    \/ TickRaises

Outside == \E c \in Cases : Approve(c) \/ Decline(c) \/ MoneyArrives(c)

BudgetInit ==
    /\ now = 0
    /\ rows = [c \in Cases |-> NoCase]
    /\ session = NoSession

BudgetNext == Tick \/ Outside \/ AdvanceClock

BudgetSpec == BudgetInit /\ [][BudgetNext]_budgetVars

\* The agent as its driver runs it, while nobody pays: the clock moves on when
\* no case is due.
NothingDue == \A c \in Cases : rows[c].state # "NONE" /\ ~Listed(rows[c], now)

Drive == IF NothingDue /\ ~session.open THEN AdvanceClock ELSE Tick

DrivenSpec == BudgetInit /\ [][Drive]_budgetVars /\ WF_budgetVars(Drive)

-----------------------------------------------------------------------------
(* Properties.                                                              *)

BudgetTypeOK ==
    /\ now \in Nat
    /\ rows \in [Cases -> Row]
    /\ session \in [open : BOOLEAN, db : [Cases -> Row],
                    scheduled : SUBSET Cases, listed : SUBSET Cases]

ByAgent(db) == {a \in Actions(db) : db[a[1]].acts[a[2]].by = "agent"}

InMonth(S, db, k, m) == {a \in S : CustomerOf[a[1]] = k /\ Month(AtOf(db, a)) = m}
InDay(S, db, d)      == {a \in S : Day(AtOf(db, a)) = d}

\* For the customer and the month, and the day, of each action of the agent.
WithinBudgets(db) ==
    \A a \in ByAgent(db) :
        /\ Cardinality(InMonth(ByAgent(db), db, CustomerOf[a[1]], Month(AtOf(db, a))))
               <= CustomerCap
        /\ Cardinality(InDay(ByAgent(db), db, Day(AtOf(db, a)))) <= DailyBudget

\* What the agent does on its own stays within both budgets, of every customer
\* in every month and of every day, however many cases one tick steps, and also
\* when some of them are closed since (stopping_hits).
UnattendedWithinBudgets == WithinBudgets(rows)

\* A full budget only delays: as long as nobody pays, every case still gets its
\* whole ladder before the age limit, in whatever order a tick takes the cases
\* (plan_action, next_action_at).
BudgetsOnlyDelay == <>(\A c \in Cases : Cardinality(Executed(rows[c])) = MaxAttempts[Ladder])
=============================================================================
