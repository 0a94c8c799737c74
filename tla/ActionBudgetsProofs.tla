------------------------ MODULE ActionBudgetsProofs ------------------------
(***************************************************************************)
(* Proofs about the action budgets, for any number of cases and customers, *)
(* any budgets, and any length of days and months.                         *)
(***************************************************************************)
EXTENDS ActionBudgets, FiniteSetTheorems, TLAPS

\* A database whose executed actions lie in the past, with the agent's within
\* the budgets.  The session of a tick has one of its own.
DbOK(db, t) ==
    /\ db \in [Cases -> Row]
    /\ \A a \in Actions(db) : AtOf(db, a) \in 0 .. t
    /\ WithinBudgets(db)

BudgetInv ==
    /\ BudgetTypeOK
    /\ DbOK(rows, now)
    /\ DbOK(session.db, now)

-----------------------------------------------------------------------------
(* Constants and sets.                                                      *)

LEMMA LadderFacts ==
    /\ Ladder \in ActPlaybooks /\ MaxAttempts[Ladder] = 3 /\ Attempts = 1 .. 3
    /\ Cooldown[Ladder] \in Nat
    /\ CauseToPlaybook["overdue"] = Ladder /\ "overdue" \in Causes
<1>1. Ladder \in ActPlaybooks
  BY DEF Ladder, ActPlaybooks
<1>2. Cooldown[Ladder] \in Nat
  BY <1>1, PolicyAssumption
<1> QED BY <1>1, <1>2 DEF Ladder, MaxAttempts, ActPlaybooks, Attempts, CauseToPlaybook, Causes

LEMMA FiniteParts ==
    ASSUME NEW S \in SUBSET (Cases \X Attempts)
    PROVE  IsFiniteSet(S)
<1>1. IsFiniteSet(Attempts)
  <2>1. 1 \in Int /\ 3 \in Int
    OBVIOUS
  <2> QED BY <2>1, FS_Interval, LadderFacts
<1>2. IsFiniteSet(Cases \X Attempts)
  BY <1>1, BudgetAssumption, FS_Product
<1> QED BY <1>2, FS_Subset

LEMMA FiniteActions ==
    ASSUME NEW db
    PROVE  /\ IsFiniteSet(Actions(db)) /\ IsFiniteSet(ByAgent(db))
           /\ Actions(db) \subseteq Cases \X Attempts
           /\ ByAgent(db) \subseteq Cases \X Attempts
<1>1. Actions(db) \subseteq Cases \X Attempts /\ ByAgent(db) \subseteq Cases \X Attempts
  BY DEF Actions, ByAgent
<1> QED BY <1>1, FiniteParts

LEMMA ExecutedCount ==
    ASSUME NEW r
    PROVE  Cardinality(Executed(r)) \in 0 .. 3
<1>1. Executed(r) \in SUBSET (1 .. 3)
  BY LadderFacts DEF Executed
<1>2. IsFiniteSet(1 .. 3) /\ Cardinality(1 .. 3) = 3
  <2>1. 1 \in Int /\ 3 \in Int
    OBVIOUS
  <2>2. IsFiniteSet(1 .. 3) /\ Cardinality(1 .. 3) = IF 1 > 3 THEN 0 ELSE 3 - 1 + 1
    BY ONLY <2>1, FS_Interval
  <2> QED BY <2>2
<1>3. IsFiniteSet(Executed(r)) /\ Cardinality(Executed(r)) <= 3
  BY <1>1, <1>2, FS_Subset
<1>4. Cardinality(Executed(r)) \in Nat
  BY <1>3, FS_CardinalityType
<1> QED BY <1>3, <1>4

\* An action of the month, or of the day, is not older than its start.
LEMMA PeriodStarts ==
    ASSUME NEW t \in Nat, NEW u \in Nat
    PROVE  /\ Month(u) = Month(t) => u >= StartOfMonth(t)
           /\ Day(u) = Day(t) => u >= StartOfDay(t)
<1>1. DayLen \in Nat \ {0} /\ DayLen * MonthLen \in Nat \ {0}
  <2>1. DayLen \in Nat \ {0} /\ MonthLen \in Nat \ {0}
    BY DiagnosisAssumption, BudgetAssumption
  <2> QED BY <2>1
<1>2. ASSUME NEW d \in Nat \ {0}
      PROVE  (u \div d) * d <= u
  <2>1. u = d * (u \div d) + (u % d) /\ u % d \in Nat /\ u \div d \in Nat
    BY <1>2
  <2>2. d * (u \div d) = (u \div d) * d
    BY <1>2, <2>1
  <2> QED BY <1>2, <2>1, <2>2
<1>3. (u \div DayLen) * DayLen <= u
  BY <1>1, <1>2
<1>4. (u \div (DayLen * MonthLen)) * (DayLen * MonthLen) <= u
  BY <1>1, <1>2
<1>5. Day(u) = Day(t) => StartOfDay(t) <= u
  BY <1>3 DEF Day, StartOfDay
<1>6. Month(u) = Month(t) => StartOfMonth(t) <= u
  BY <1>4 DEF Month, StartOfMonth
<1>7. StartOfDay(t) \in Int /\ StartOfMonth(t) \in Int
  BY <1>1 DEF StartOfDay, StartOfMonth, Day, Month
<1> QED BY <1>5, <1>6, <1>7

-----------------------------------------------------------------------------
(* The decision.                                                            *)

\* What is decided for an overdue case: what executes, or asks a human, is an
\* attempt of the ladder, and the agent executes only below both budgets.
LEMMA LadderPlan ==
    ASSUME NEW c \in Cases, NEW r, NEW t \in Nat, NEW full \in SUBSET Budgets,
           NEW plan, plan = LET e == Evidence(c, r, t, full)
                            IN  PlanAction(e, DiagnoseCase(e, NoOpinion))
    PROVE  /\ plan.verdict \in Verdicts
           /\ plan.verdict \in {"BLOCKED", "ESCALATE"} => plan.stop \in TerminalStates
           /\ plan.verdict = "DEFERRED" => plan.deferTo \in Nat
           /\ plan.verdict \in {"APPROVED", "REQUIRES_APPROVAL"} => NextAttempt(r) \in Attempts
           /\ plan.verdict = "APPROVED" => full = {}
<1> DEFINE e == Evidence(c, r, t, full)
           d == DiagnoseCase(e, NoOpinion)
<1>1. /\ e.flags = {} /\ e.promise = NoTime /\ e.fails = << >> /\ e.messages = FALSE
      /\ e.partial = FALSE /\ e.now = t /\ e.full = full
      /\ e.attempts[Ladder] = Cardinality(Executed(r))
  BY LadderFacts DEF Evidence
<1>2. d.cause = "overdue"
  <2>1. Classify(e).cause = "overdue"
    BY <1>1 DEF Classify, PromiseBroken, HardSignal, InvoiceState, Rule
  <2> DEFINE f == Fuse(Classify(e), NoOpinion)
  <2>2. f.cause = "overdue" /\ f.path = "rules"
    BY <2>1 DEF Fuse, Diag
  <2> HIDE DEF f
  <2> QED BY <2>2 DEF DiagnoseCase, f
<1>3. plan = PlanAction(e, d)
  OBVIOUS
<1> HIDE DEF e, d
<1>4. CauseToPlaybook[d.cause] = Ladder /\ Ladder # "promise_accept" /\ Ladder # "escalate_human"
  BY <1>2, LadderFacts DEF Ladder
<1>5. DeferTo(e, Ladder) \in Nat
  <2>1. DayLen \in Nat \ {0} /\ OpenHour \in Nat /\ Cooldown[Ladder] \in Nat
    BY LadderFacts, DiagnosisAssumption, PolicyAssumption
  <2>2. t - Hour(t) \in Nat
    BY <2>1 DEF Hour
  <2>3. NextContactWindow(t) \in Nat
    BY <2>1, <2>2 DEF NextContactWindow
  <2> QED BY <1>1, <2>1, <2>3 DEF DeferTo
<1>6. CASE HardStop(e)
  <2>1. plan = StopPlan(e)
    BY <1>3, <1>6 DEF PlanAction
  <2>2. StopPlan(e).verdict = "BLOCKED" /\ StopPlan(e).stop \in TerminalStates
    BY DEF StopPlan, Blocked, Plan, TerminalStates
  <2> QED BY <2>1, <2>2 DEF Verdicts
<1>7. CASE ~HardStop(e) /\ AttemptsExhausted(e, Ladder)
  <2>1. plan = ToHuman(Ladder, ExhaustReason[Ladder])
    BY <1>3, <1>4, <1>7 DEF PlanAction
  <2>2. plan.verdict = "ESCALATE" /\ plan.stop \in TerminalStates
    BY <2>1 DEF ToHuman, Plan, TerminalStates
  <2> QED BY <2>2 DEF Verdicts
<1>8. CASE ~HardStop(e) /\ ~AttemptsExhausted(e, Ladder) /\ Deferrable(e, Ladder)
  <2>1. plan = Plan("DEFERRED", Ladder, "", "", DeferTo(e, Ladder))
    BY <1>3, <1>4, <1>8 DEF PlanAction
  <2>2. ASSUME NEW until
        PROVE  /\ Plan("DEFERRED", Ladder, "", "", until).verdict = "DEFERRED"
               /\ Plan("DEFERRED", Ladder, "", "", until).deferTo = until
    BY DEF Plan
  <2>3. plan.verdict = "DEFERRED" /\ plan.deferTo \in Nat
    BY <1>5, <2>1, <2>2
  <2> QED BY <2>3 DEF Verdicts
<1>9. CASE ~HardStop(e) /\ ~AttemptsExhausted(e, Ladder) /\ ~Deferrable(e, Ladder)
  <2>1. plan = Plan(IF NeedsApproval(e) THEN "REQUIRES_APPROVAL" ELSE "APPROVED",
                    Ladder, "", "", NoTime)
    BY <1>3, <1>4, <1>9 DEF PlanAction
  <2>2. plan.verdict \in {"APPROVED", "REQUIRES_APPROVAL"}
    <3>1. ASSUME NEW verdict
          PROVE  Plan(verdict, Ladder, "", "", NoTime).verdict = verdict
      BY DEF Plan
    <3> QED BY <2>1, <3>1
  <2>3. full = {}
    BY <1>1, <1>9 DEF Deferrable
  <2>4. NextAttempt(r) \in Attempts
    BY <1>1, <1>9, ExecutedCount, LadderFacts DEF AttemptsExhausted, NextAttempt
  <2> QED BY <2>2, <2>3, <2>4 DEF Verdicts
<1> QED BY <1>6, <1>7, <1>8, <1>9

-----------------------------------------------------------------------------
(* Changes of a database.                                                   *)

\* No action of the agent is added, none of any other is in the future.
LEMMA NothingByAgent ==
    ASSUME NEW db, NEW t \in Nat, DbOK(db, t), NEW x \in [Cases -> Row], NEW u \in Nat,
           \A a \in Actions(x) : AtOf(x, a) \in 0 .. u,
           \A a \in ByAgent(x) : a \in ByAgent(db) /\ AtOf(x, a) = AtOf(db, a)
    PROVE  DbOK(x, u)
<1>1. ASSUME NEW a \in ByAgent(x)
      PROVE  /\ Cardinality(InMonth(ByAgent(x), x, CustomerOf[a[1]], Month(AtOf(x, a)))) <= CustomerCap
             /\ Cardinality(InDay(ByAgent(x), x, Day(AtOf(x, a)))) <= DailyBudget
  <2> DEFINE k == CustomerOf[a[1]]
             m == Month(AtOf(x, a))
             d == Day(AtOf(x, a))
             M  == InMonth(ByAgent(x), x, k, m)
             D  == InDay(ByAgent(x), x, d)
             M0 == InMonth(ByAgent(db), db, k, m)
             D0 == InDay(ByAgent(db), db, d)
  <2>1. a \in ByAgent(db) /\ AtOf(x, a) = AtOf(db, a)
    OBVIOUS
  <2>2. Cardinality(M0) <= CustomerCap /\ Cardinality(D0) <= DailyBudget
    BY <2>1 DEF DbOK, WithinBudgets
  <2>3. M \subseteq M0 /\ D \subseteq D0
    BY DEF InMonth, InDay
  <2>4. M0 \subseteq Cases \X Attempts /\ D0 \subseteq Cases \X Attempts
    BY FiniteActions DEF InMonth, InDay
  <2> HIDE DEF M, D, M0, D0, k, m, d
  <2>5. IsFiniteSet(M0) /\ IsFiniteSet(D0)
    BY <2>4, FiniteParts
  <2>6. /\ Cardinality(M) <= Cardinality(M0) /\ Cardinality(D) <= Cardinality(D0)
        /\ IsFiniteSet(M) /\ IsFiniteSet(D)
    BY <2>3, <2>5, FS_Subset
  <2>7. /\ Cardinality(M) \in Nat /\ Cardinality(M0) \in Nat
        /\ Cardinality(D) \in Nat /\ Cardinality(D0) \in Nat
    BY <2>5, <2>6, FS_CardinalityType
  <2>8. Cardinality(M) <= CustomerCap /\ Cardinality(D) <= DailyBudget
    BY <2>2, <2>6, <2>7, BudgetAssumption
  <2> QED BY <2>8 DEF M, D, k, m, d
<1> QED BY <1>1 DEF DbOK, WithinBudgets

\* Time passes.
LEMMA LaterOK ==
    ASSUME NEW db, NEW t \in Nat, DbOK(db, t)
    PROVE  DbOK(db, t + 1)
<1>1. \A a \in Actions(db) : AtOf(db, a) \in 0 .. t + 1
  BY DEF DbOK
<1> QED BY <1>1, NothingByAgent DEF DbOK

\* A row changes, its executed attempts do not.
LEMMA NothingExecuted ==
    ASSUME NEW db, NEW t \in Nat, DbOK(db, t), NEW x \in [Cases -> Row],
           \A c \in Cases : /\ Executed(x[c]) \subseteq Executed(db[c])
                            /\ \A n \in Executed(x[c]) : x[c].acts[n] = db[c].acts[n]
    PROVE  DbOK(x, t)
<1>1. ASSUME NEW a \in Actions(x)
      PROVE  /\ a \in Actions(db) /\ AtOf(x, a) = AtOf(db, a)
             /\ x[a[1]].acts[a[2]] = db[a[1]].acts[a[2]]
  <2>1. a[1] \in Cases /\ a[2] \in Executed(x[a[1]]) /\ a \in Cases \X Attempts
    BY DEF Actions
  <2> QED BY <2>1 DEF Actions, AtOf
<1>2. \A a \in Actions(x) : AtOf(x, a) \in 0 .. t
  BY <1>1 DEF DbOK
<1>3. \A a \in ByAgent(x) : a \in ByAgent(db) /\ AtOf(x, a) = AtOf(db, a)
  BY <1>1 DEF ByAgent
<1> QED BY <1>2, <1>3, NothingByAgent

\* A set to which at most one element is added while it is below its limit.
LEMMA RoomForOne ==
    ASSUME NEW S, NEW T \in SUBSET (Cases \X Attempts), NEW a, NEW limit \in Nat,
           \/ S \subseteq T /\ Cardinality(T) <= limit
           \/ S \subseteq T \cup {a} /\ ~(Cardinality(T) >= limit)
    PROVE  Cardinality(S) <= limit
<1>1. IsFiniteSet(T) /\ Cardinality(T) \in Nat
  BY FiniteParts, FS_CardinalityType
<1>2. IsFiniteSet(T \cup {a}) /\ Cardinality(T \cup {a}) \in Nat
      /\ Cardinality(T \cup {a}) <= Cardinality(T) + 1
  <2>1. CASE a \in T
    <3>1. T \cup {a} = T
      BY <2>1
    <3>2. Cardinality(T) <= Cardinality(T) + 1
      BY <1>1
    <3> QED BY <1>1, <3>1, <3>2
  <2>2. CASE a \notin T
    <3>1. IsFiniteSet(T \cup {a}) /\ Cardinality(T \cup {a}) = Cardinality(T) + 1
      BY <1>1, <2>2, FS_AddElement, Zenon
    <3> QED BY <1>1, <3>1
  <2> QED BY <2>1, <2>2
<1>3. CASE S \subseteq T /\ Cardinality(T) <= limit
  <2>1. IsFiniteSet(S) /\ Cardinality(S) <= Cardinality(T)
    BY <1>1, <1>3, FS_Subset
  <2>2. Cardinality(S) \in Nat
    BY <2>1, FS_CardinalityType
  <2> QED BY <1>1, <1>3, <2>1, <2>2
<1>4. CASE S \subseteq T \cup {a} /\ ~(Cardinality(T) >= limit)
  <2>1. IsFiniteSet(S) /\ Cardinality(S) <= Cardinality(T \cup {a})
    BY <1>2, <1>4, FS_Subset
  <2>2. Cardinality(S) \in Nat
    BY <2>1, FS_CardinalityType
  <2> QED BY <1>1, <1>2, <1>4, <2>1, <2>2
<1> QED BY <1>3, <1>4

\* The agent executes an attempt now, below both budgets.
LEMMA AgentActs ==
    ASSUME NEW db, NEW t \in Nat, DbOK(db, t), NEW c \in Cases, NEW n \in Attempts,
           Full(db, c, t) = {}, NEW x \in [Cases -> Row],
           x[c].acts[n] = [by |-> "agent", at |-> t],
           \A b \in Cases, m \in Attempts :
              <<b, m>> # <<c, n>> => x[b].acts[m] = db[b].acts[m]
    PROVE  DbOK(x, t)
<1> DEFINE new == <<c, n>>
<1>1. ASSUME NEW a \in Actions(x)
      PROVE  \/ a = new /\ AtOf(x, a) = t
             \/ /\ a \in Actions(db) /\ AtOf(x, a) = AtOf(db, a)
                /\ x[a[1]].acts[a[2]] = db[a[1]].acts[a[2]]
  <2>1. /\ a \in Cases \X Attempts /\ a[1] \in Cases /\ a[2] \in Attempts
        /\ a = <<a[1], a[2]>> /\ a[2] \in Executed(x[a[1]])
    BY DEF Actions
  <2>2. CASE a = new
    BY <2>2 DEF AtOf
  <2>3. CASE a # new
    <3>1. x[a[1]].acts[a[2]] = db[a[1]].acts[a[2]]
      BY <2>1, <2>3
    <3>2. a[2] \in Executed(db[a[1]])
      BY <2>1, <3>1 DEF Executed
    <3> QED BY <2>1, <3>1, <3>2 DEF Actions, AtOf
  <2> QED BY <2>2, <2>3
<1>2. \A a \in Actions(x) : AtOf(x, a) \in 0 .. t
  <2>1. t \in 0 .. t
    OBVIOUS
  <2> QED BY <1>1, <2>1 DEF DbOK
<1>3. ASSUME NEW a \in ByAgent(x), a # new
      PROVE  a \in ByAgent(db) /\ AtOf(x, a) = AtOf(db, a)
  BY <1>1, <1>3 DEF ByAgent
<1>4. AtOf(x, new) = t
  BY DEF AtOf
<1>5. /\ ~(Cardinality(OfCustomer(db, c, t)) >= CustomerCap)
      /\ ~(Cardinality(OfDay(db, t)) >= DailyBudget)
  BY DEF Full, Budgets
<1>6. /\ OfCustomer(db, c, t) \in SUBSET (Cases \X Attempts)
      /\ OfDay(db, t) \in SUBSET (Cases \X Attempts)
  BY FiniteActions DEF OfCustomer, OfDay
<1>7. ASSUME NEW a \in ByAgent(x)
      PROVE  Cardinality(InMonth(ByAgent(x), x, CustomerOf[a[1]], Month(AtOf(x, a))))
                 <= CustomerCap
  <2> DEFINE k  == CustomerOf[a[1]]
             m  == Month(AtOf(x, a))
             M  == InMonth(ByAgent(x), x, k, m)
             M0 == InMonth(ByAgent(db), db, k, m)
  <2>1. M0 \in SUBSET (Cases \X Attempts)
    BY FiniteActions DEF InMonth
  <2>2. CASE k = CustomerOf[c] /\ m = Month(t)
    <3>1. ASSUME NEW b \in M, b # new
          PROVE  b \in OfCustomer(db, c, t)
      <4>1. b \in ByAgent(x) /\ CustomerOf[b[1]] = k /\ Month(AtOf(x, b)) = m
        BY DEF InMonth
      <4>2. b \in ByAgent(db) /\ AtOf(x, b) = AtOf(db, b)
        BY <1>3, <3>1, <4>1
      <4>3. b \in Actions(db)
        BY <4>2 DEF ByAgent
      <4>4. AtOf(db, b) \in Nat
        BY <4>3 DEF DbOK
      <4>5. AtOf(db, b) >= StartOfMonth(t)
        BY <2>2, <4>1, <4>2, <4>4, PeriodStarts
      <4> QED BY <2>2, <4>1, <4>3, <4>5 DEF OfCustomer
    <3>2. M \subseteq OfCustomer(db, c, t) \cup {new}
      BY <3>1
    <3> HIDE DEF M, new
    <3> QED BY <1>5, <1>6, <3>2, RoomForOne, BudgetAssumption DEF M
  <2>3. CASE ~(k = CustomerOf[c] /\ m = Month(t))
    <3>1. a # new
      BY <1>4, <2>3
    <3>2. Cardinality(M0) <= CustomerCap
      BY <1>3, <3>1 DEF DbOK, WithinBudgets
    <3>3. new \notin M
      BY <1>4, <2>3 DEF InMonth
    <3>4. M \subseteq M0
      BY <1>3, <3>3 DEF InMonth
    <3> HIDE DEF M, M0
    <3> QED BY <2>1, <3>2, <3>4, RoomForOne, BudgetAssumption DEF M
  <2> QED BY <2>2, <2>3
<1>8. ASSUME NEW a \in ByAgent(x)
      PROVE  Cardinality(InDay(ByAgent(x), x, Day(AtOf(x, a)))) <= DailyBudget
  <2> DEFINE d  == Day(AtOf(x, a))
             D  == InDay(ByAgent(x), x, d)
             D0 == InDay(ByAgent(db), db, d)
  <2>1. D0 \in SUBSET (Cases \X Attempts)
    BY FiniteActions DEF InDay
  <2>2. CASE d = Day(t)
    <3>1. ASSUME NEW b \in D, b # new
          PROVE  b \in OfDay(db, t)
      <4>1. b \in ByAgent(x) /\ Day(AtOf(x, b)) = d
        BY DEF InDay
      <4>2. b \in ByAgent(db) /\ AtOf(x, b) = AtOf(db, b)
        BY <1>3, <3>1, <4>1
      <4>3. b \in Actions(db)
        BY <4>2 DEF ByAgent
      <4>4. AtOf(db, b) \in Nat
        BY <4>3 DEF DbOK
      <4>5. AtOf(db, b) >= StartOfDay(t)
        BY <2>2, <4>1, <4>2, <4>4, PeriodStarts
      <4> QED BY <4>3, <4>5 DEF OfDay
    <3>2. D \subseteq OfDay(db, t) \cup {new}
      BY <3>1
    <3> HIDE DEF D, new
    <3> QED BY <1>5, <1>6, <3>2, RoomForOne, BudgetAssumption DEF D
  <2>3. CASE d # Day(t)
    <3>1. a # new
      BY <1>4, <2>3
    <3>2. Cardinality(D0) <= DailyBudget
      BY <1>3, <3>1 DEF DbOK, WithinBudgets
    <3>3. new \notin D
      BY <1>4, <2>3 DEF InDay
    <3>4. D \subseteq D0
      BY <1>3, <3>3 DEF InDay
    <3> HIDE DEF D, D0
    <3> QED BY <2>1, <3>2, <3>4, RoomForOne, BudgetAssumption DEF D
  <2> QED BY <2>2, <2>3
<1> QED BY <1>2, <1>7, <1>8 DEF DbOK, WithinBudgets

\* Nobody has done anything.
LEMMA NothingDone ==
    ASSUME NEW t \in Nat
    PROVE  DbOK([c \in Cases |-> NoCase], t)
<1> DEFINE x == [c \in Cases |-> NoCase]
<1>1. NoCase \in Row
  BY DEF NoCase, Row, Act
<1>2. Actions(x) = {}
  BY DEF Actions, Executed, NoCase
<1> QED BY <1>1, <1>2 DEF DbOK, WithinBudgets, ByAgent

-----------------------------------------------------------------------------
(* What the operations do to a row.                                         *)

LEMMA ActedRow ==
    ASSUME NEW r \in Row, NEW n \in Attempts, NEW by \in {"agent", "human"}, NEW t \in Nat
    PROVE  /\ Acted(r, n, by, t) \in Row
           /\ Acted(r, n, by, t).acts = [r.acts EXCEPT ![n] = [by |-> by, at |-> t]]
<1> DEFINE done == [r EXCEPT !.acts[n] = [by |-> by, at |-> t]]
<1>1. [by |-> by, at |-> t] \in Act
  BY DEF Act
<1>2. done \in Row /\ done.acts = [r.acts EXCEPT ![n] = [by |-> by, at |-> t]]
  BY <1>1 DEF Row
<1>3. t + Cooldown[Ladder] \in Nat
  BY LadderFacts
<1>4. "ESCALATED" \in States
  BY DEF States, TerminalStates
<1> HIDE DEF done
<1>5. /\ [done EXCEPT !.state = "ESCALATED"] \in Row
      /\ [done EXCEPT !.state = "ESCALATED"].acts = done.acts
      /\ [done EXCEPT !.nextAt = t + Cooldown[Ladder]] \in Row
      /\ [done EXCEPT !.nextAt = t + Cooldown[Ladder]].acts = done.acts
  BY <1>2, <1>3, <1>4 DEF Row
<1>6. Acted(r, n, by, t) \in {[done EXCEPT !.state = "ESCALATED"],
                              [done EXCEPT !.nextAt = t + Cooldown[Ladder]]}
  BY DEF Acted, done
<1> QED BY <1>2, <1>5, <1>6

LEMMA ParkedRow ==
    ASSUME NEW r \in Row, NextAttempt(r) \in Attempts, NEW t \in Nat
    PROVE  /\ Parked(r, t) \in Row
           /\ Executed(Parked(r, t)) \subseteq Executed(r)
           /\ \A n \in Executed(Parked(r, t)) : Parked(r, t).acts[n] = r.acts[n]
<1> DEFINE k == NextAttempt(r)
<1>1. [by |-> "request", at |-> t] \in Act
  BY DEF Act
<1>2. [r.acts EXCEPT ![k] = [by |-> "request", at |-> t]] \in [Attempts -> Act]
  BY <1>1 DEF Row
<1>3. Parked(r, t) \in Row
  BY <1>2 DEF Parked, Row, States, TerminalStates, LiveStates
<1>4. ASSUME NEW n \in Executed(Parked(r, t))
      PROVE  Parked(r, t).acts[n] = r.acts[n]
  BY DEF Parked, Executed, Row
<1> QED BY <1>3, <1>4 DEF Executed

LEMMA ExpiredRow ==
    ASSUME NEW r \in Row, NEW t \in Nat
    PROVE  /\ Opened(Expired(r, t)) \in Row
           /\ Executed(Opened(Expired(r, t))) \subseteq Executed(r)
           /\ \A n \in Executed(Opened(Expired(r, t))) :
                 Opened(Expired(r, t)).acts[n] = r.acts[n]
<1>1. ASSUME NEW y \in Row
      PROVE  Opened(y) \in Row /\ Opened(y).acts = y.acts
  BY DEF Opened, Row, States, LiveStates, TerminalStates
<1>2. CASE Stale(r, t) = {}
  BY <1>1, <1>2 DEF Expired, Executed
<1>3. CASE Stale(r, t) # {}
  <2> DEFINE acts == [n \in Attempts |-> IF n \in Stale(r, t)
                                         THEN [r.acts[n] EXCEPT !.by = "declined"]
                                         ELSE r.acts[n]]
             y == [r EXCEPT !.state = "CLOSED_NOOP", !.acts = acts]
  <2>1. \A n \in Attempts : r.acts[n] \in Act /\ [r.acts[n] EXCEPT !.by = "declined"] \in Act
    BY DEF Row, Act
  <2>2. acts \in [Attempts -> Act]
    BY <2>1
  <2>3. Expired(r, t) = y
    BY <1>3 DEF Expired
  <2> HIDE DEF acts
  <2>4. y \in Row /\ y.acts = acts
    BY <2>2 DEF Row, States, TerminalStates
  <2>5. ASSUME NEW n \in Attempts, acts[n].by \in {"agent", "human"}
        PROVE  acts[n] = r.acts[n]
    <3>1. [r.acts[n] EXCEPT !.by = "declined"].by = "declined"
      BY <2>1 DEF Act
    <3> QED BY <2>5, <3>1 DEF acts
  <2> HIDE DEF y
  <2>6. Opened(y) \in Row /\ Opened(y).acts = acts
    BY <1>1, <2>4
  <2> QED BY <2>3, <2>5, <2>6 DEF Executed
<1> QED BY <1>2, <1>3

\* A case is stepped.
LEMMA Stepped ==
    ASSUME NEW db, NEW t \in Nat, DbOK(db, t), NEW c \in Cases, NEW plan,
           plan = LET e == Evidence(c, db[c], t, Full(db, c, t))
                  IN  PlanAction(e, DiagnoseCase(e, NoOpinion)),
           NEW x, x = [db EXCEPT ![c] = Enforce(db[c], plan, t)]
    PROVE  DbOK(x, t)
<1> DEFINE r == db[c]
           y == Enforce(r, plan, t)
<1>0. t \in Nat /\ DbOK(db, t) /\ c \in Cases
  OBVIOUS
<1>1. db \in [Cases -> Row] /\ r \in Row /\ Full(db, c, t) \in SUBSET Budgets
  BY DEF DbOK, Full
<1>2. /\ plan.verdict \in Verdicts
      /\ plan.verdict \in {"BLOCKED", "ESCALATE"} => plan.stop \in TerminalStates
      /\ plan.verdict = "DEFERRED" => plan.deferTo \in Nat
      /\ plan.verdict \in {"APPROVED", "REQUIRES_APPROVAL"} => NextAttempt(r) \in Attempts
      /\ plan.verdict = "APPROVED" => Full(db, c, t) = {}
  BY <1>1, LadderPlan
<1>3. x = [db EXCEPT ![c] = y]
  OBVIOUS
<1> HIDE DEF r, y
<1>4. ASSUME y \in Row, Executed(y) \subseteq Executed(r),
             \A n \in Executed(y) : y.acts[n] = r.acts[n]
      PROVE  DbOK(x, t)
  <2>1. x \in [Cases -> Row] /\ x[c] = y
    BY <1>1, <1>3, <1>4
  <2>2. ASSUME NEW b \in Cases
        PROVE  /\ Executed(x[b]) \subseteq Executed(db[b])
               /\ \A n \in Executed(x[b]) : x[b].acts[n] = db[b].acts[n]
    <3>1. CASE b = c
      BY <1>4, <2>1, <3>1 DEF r
    <3>2. CASE b # c
      <4>1. x[b] = db[b]
        BY <1>1, <1>3, <3>2
      <4> QED BY <4>1
    <3> QED BY <3>1, <3>2
  <2> QED BY ONLY <1>0, <2>1, <2>2, NothingExecuted
<1>5. CASE r.state \in TerminalStates
  <2>1. y = r
    BY <1>5 DEF Enforce, y
  <2> QED BY <1>1, <1>4, <2>1
<1>6. CASE r.state \notin TerminalStates /\ plan.verdict \in {"BLOCKED", "ESCALATE"}
  <2>1. y = [r EXCEPT !.state = plan.stop]
    BY <1>6 DEF Enforce, y
  <2>2. y \in Row /\ y.acts = r.acts
    BY <1>1, <1>2, <1>6, <2>1 DEF Row, States
  <2> QED BY <1>4, <2>2 DEF Executed
<1>7. CASE r.state \notin TerminalStates /\ plan.verdict = "DEFERRED"
  <2>1. y = [r EXCEPT !.nextAt = plan.deferTo]
    BY <1>7 DEF Enforce, y
  <2>2. y \in Row /\ y.acts = r.acts
    BY <1>1, <1>2, <1>7, <2>1 DEF Row
  <2> QED BY <1>4, <2>2 DEF Executed
<1>8. CASE r.state \notin TerminalStates /\ plan.verdict = "REQUIRES_APPROVAL"
  <2>1. y = Parked(r, t)
    BY <1>8 DEF Enforce, y
  <2> QED BY <1>1, <1>2, <1>4, <1>8, <2>1, ParkedRow
<1>9. CASE r.state \notin TerminalStates /\ plan.verdict = "APPROVED"
  <2> DEFINE n == NextAttempt(r)
  <2>1. y = Acted(r, n, "agent", t)
    BY <1>9 DEF Enforce, y
  <2>2. n \in Attempts /\ Full(db, c, t) = {}
    BY <1>2, <1>9
  <2> HIDE DEF n
  <2>3. y \in Row /\ y.acts = [r.acts EXCEPT ![n] = [by |-> "agent", at |-> t]]
    BY <1>1, <2>1, <2>2, ActedRow
  <2>4. r.acts \in [Attempts -> Act]
    BY <1>1 DEF Row
  <2>5. /\ x \in [Cases -> Row]
        /\ x[c].acts[n] = [by |-> "agent", at |-> t]
    BY <1>1, <1>3, <2>2, <2>3, <2>4
  <2>6. ASSUME NEW b \in Cases, NEW m \in Attempts, <<b, m>> # <<c, n>>
        PROVE  x[b].acts[m] = db[b].acts[m]
    <3>1. CASE b = c
      <4>1. m # n /\ x[b] = y
        BY <1>1, <1>3, <2>6, <3>1
      <4> QED BY <2>3, <2>4, <3>1, <4>1 DEF r
    <3>2. CASE b # c
      <4>1. x[b] = db[b]
        BY <1>1, <1>3, <3>2
      <4> QED BY <4>1
    <3> QED BY <3>1, <3>2
  <2> QED BY ONLY <1>0, <2>2, <2>5, <2>6, AgentActs
<1> QED BY <1>2, <1>5, <1>6, <1>7, <1>8, <1>9 DEF Verdicts

\* A human has an attempt executed.
LEMMA ApprovedByHuman ==
    ASSUME NEW db, NEW t \in Nat, DbOK(db, t), NEW c \in Cases, NEW n \in Waiting(db[c]),
           NEW x, x = [db EXCEPT ![c] = Acted(db[c], n, "human", t)]
    PROVE  DbOK(x, t)
<1> DEFINE y == Acted(db[c], n, "human", t)
<1>1. db \in [Cases -> Row] /\ n \in Attempts /\ db[c] \in Row
  BY DEF DbOK, Waiting
<1>2. y \in Row /\ y.acts = [db[c].acts EXCEPT ![n] = [by |-> "human", at |-> t]]
  BY <1>1, ActedRow
<1>3. db[c].acts \in [Attempts -> Act]
  BY <1>1 DEF Row
<1> HIDE DEF y
<1>4. x \in [Cases -> Row] /\ x[c] = y
  BY <1>1, <1>2 DEF y
<1>5. x[c].acts[n] = [by |-> "human", at |-> t]
  BY <1>1, <1>2, <1>3, <1>4
<1>6. ASSUME NEW a \in Actions(x), a # <<c, n>>
      PROVE  a \in Actions(db) /\ x[a[1]].acts[a[2]] = db[a[1]].acts[a[2]]
  <2>1. /\ a \in Cases \X Attempts /\ a[1] \in Cases /\ a[2] \in Attempts
        /\ a = <<a[1], a[2]>> /\ a[2] \in Executed(x[a[1]])
    BY DEF Actions
  <2>2. a[1] # c => x[a[1]] = db[a[1]]
    BY <1>1, <2>1
  <2>3. x[a[1]].acts[a[2]] = db[a[1]].acts[a[2]]
    <3>1. CASE a[1] = c
      <4>1. a[2] # n
        BY <1>6, <2>1, <3>1
      <4>2. y.acts[a[2]] = db[c].acts[a[2]]
        BY <1>2, <1>3, <2>1, <4>1
      <4> QED BY <1>4, <3>1, <4>2
    <3>2. CASE a[1] # c
      BY <2>2, <3>2
    <3> QED BY <3>1, <3>2
  <2> QED BY <2>1, <2>3 DEF Actions, Executed
<1>7. \A a \in Actions(x) : AtOf(x, a) \in 0 .. t
  <2>1. t \in 0 .. t
    OBVIOUS
  <2>2. AtOf(x, <<c, n>>) = t
    BY <1>5 DEF AtOf
  <2>3. \A a \in Actions(x) : a # <<c, n>> => AtOf(x, a) = AtOf(db, a)
    BY <1>6 DEF AtOf
  <2> QED BY <1>6, <2>1, <2>2, <2>3 DEF DbOK
<1>8. \A a \in ByAgent(x) : a \in ByAgent(db) /\ AtOf(x, a) = AtOf(db, a)
  BY <1>5, <1>6 DEF ByAgent, AtOf
<1> QED BY <1>4, <1>7, <1>8, NothingByAgent

-----------------------------------------------------------------------------
(* The invariant.                                                           *)

SessionType == [open : BOOLEAN, db : [Cases -> Row],
                scheduled : SUBSET Cases, listed : SUBSET Cases]

LEMMA NoSessionOK ==
    ASSUME NEW t \in Nat
    PROVE  NoSession \in SessionType /\ DbOK(NoSession.db, t)
<1>1. DbOK([c \in Cases |-> NoCase], t)
  BY NothingDone
<1> QED BY <1>1 DEF NoSession, SessionType, DbOK

LEMMA BudgetInitial == BudgetInit => BudgetInv
<1> SUFFICES ASSUME BudgetInit PROVE BudgetInv
  OBVIOUS
<1>1. now \in Nat /\ DbOK(rows, now)
  BY NothingDone DEF BudgetInit
<1>2. session \in SessionType /\ DbOK(session.db, now)
  BY <1>1, NoSessionOK DEF BudgetInit
<1> QED BY <1>1, <1>2 DEF BudgetInv, BudgetTypeOK, SessionType, DbOK

LEMMA BeginTickStep == BudgetInv /\ BeginTick => BudgetInv'
<1> SUFFICES ASSUME BudgetInv, BeginTick PROVE BudgetInv'
  OBVIOUS
<1> DEFINE db == [c \in Cases |-> Opened(Expired(rows[c], now))]
<1>1. rows \in [Cases -> Row] /\ now \in Nat /\ DbOK(rows, now)
  BY DEF BudgetInv, BudgetTypeOK
<1>2. \A c \in Cases : /\ db[c] \in Row
                       /\ Executed(db[c]) \subseteq Executed(rows[c])
                       /\ \A n \in Executed(db[c]) : db[c].acts[n] = rows[c].acts[n]
  BY <1>1, ExpiredRow
<1>3. db \in [Cases -> Row]
  BY <1>2
<1>4. /\ session' = [open |-> TRUE, db |-> db,
                     scheduled |-> {c \in Cases : Scheduled(db[c], now)},
                     listed |-> {c \in Cases : Listed(db[c], now)}]
      /\ now' = now /\ rows' = rows
  BY DEF BeginTick
<1> HIDE DEF db
<1>5. DbOK(db, now)
  BY <1>1, <1>2, <1>3, NothingExecuted
<1>6. session' \in SessionType /\ session'.db = db
  BY <1>3, <1>4 DEF SessionType
<1> QED BY <1>1, <1>4, <1>5, <1>6 DEF BudgetInv, BudgetTypeOK, SessionType

LEMMA StepCaseStep ==
    ASSUME NEW c \in Cases
    PROVE  BudgetInv /\ StepCase(c) => BudgetInv'
<1> SUFFICES ASSUME BudgetInv, StepCase(c) PROVE BudgetInv'
  OBVIOUS
<1>1. /\ rows \in [Cases -> Row] /\ now \in Nat /\ DbOK(rows, now)
      /\ session \in SessionType /\ DbOK(session.db, now)
  BY DEF BudgetInv, BudgetTypeOK, SessionType
<1>2. PICK plan \in Planned(c) :
        session' = IF c \in session.scheduled
                   THEN [session EXCEPT !.db[c] = Enforce(@, plan, now),
                                        !.scheduled = @ \ {c}]
                   ELSE [session EXCEPT !.db[c] = Enforce(@, plan, now),
                                        !.listed = @ \ {c}]
  BY DEF StepCase
<1>3. plan = LET e == Evidence(c, session.db[c], now, Full(session.db, c, now))
             IN  PlanAction(e, DiagnoseCase(e, NoOpinion))
  BY DEF Planned, Counted
<1> DEFINE db == [session.db EXCEPT ![c] = Enforce(session.db[c], plan, now)]
<1>4. DbOK(db, now)
  BY <1>1, <1>3, Stepped
<1>5. session'.db = db /\ db \in [Cases -> Row]
  BY <1>1, <1>2, <1>4 DEF SessionType, DbOK
<1>6. session' \in SessionType
  BY <1>1, <1>2, <1>5 DEF SessionType
<1>7. now' = now /\ rows' = rows
  BY DEF StepCase
<1> QED BY <1>1, <1>4, <1>5, <1>6, <1>7 DEF BudgetInv, BudgetTypeOK, SessionType

LEMMA TickEndStep == BudgetInv /\ (EndTick \/ TickRaises) => BudgetInv'
<1> SUFFICES ASSUME BudgetInv, EndTick \/ TickRaises PROVE BudgetInv'
  OBVIOUS
<1>1. /\ rows \in [Cases -> Row] /\ now \in Nat /\ DbOK(rows, now)
      /\ session \in SessionType /\ DbOK(session.db, now)
  BY DEF BudgetInv, BudgetTypeOK, SessionType
<1>2. now' = now /\ session' = NoSession /\ rows' \in {rows, session.db}
  BY DEF EndTick, TickRaises
<1>3. DbOK(rows', now) /\ rows' \in [Cases -> Row]
  BY <1>1, <1>2 DEF DbOK
<1>4. session' \in SessionType /\ DbOK(session'.db, now)
  BY <1>1, <1>2, NoSessionOK
<1> QED BY <1>1, <1>2, <1>3, <1>4 DEF BudgetInv, BudgetTypeOK, SessionType

LEMMA OutsideStep ==
    ASSUME NEW c \in Cases
    PROVE  BudgetInv /\ (Approve(c) \/ Decline(c) \/ MoneyArrives(c)) => BudgetInv'
<1> SUFFICES ASSUME BudgetInv, Approve(c) \/ Decline(c) \/ MoneyArrives(c) PROVE BudgetInv'
  OBVIOUS
<1>1. /\ rows \in [Cases -> Row] /\ now \in Nat /\ DbOK(rows, now) /\ rows[c] \in Row
      /\ session \in SessionType /\ DbOK(session.db, now)
  BY DEF BudgetInv, BudgetTypeOK, SessionType
<1>2. now' = now /\ session' = session
  BY DEF Approve, Decline, MoneyArrives
<1>3. ASSUME rows' \in [Cases -> Row],
             \A b \in Cases : b # c => rows'[b] = rows[b],
             Executed(rows'[c]) \subseteq Executed(rows[c]),
             \A n \in Executed(rows'[c]) : rows'[c].acts[n] = rows[c].acts[n]
      PROVE  DbOK(rows', now)
  <2>1. \A b \in Cases : /\ Executed(rows'[b]) \subseteq Executed(rows[b])
                         /\ \A n \in Executed(rows'[b]) : rows'[b].acts[n] = rows[b].acts[n]
    BY <1>3
  <2> QED BY <1>1, <1>3, <2>1, NothingExecuted
<1>4. DbOK(rows', now)
  <2>1. CASE Approve(c)
    <3>1. PICK n \in Waiting(rows[c]) :
            rows' = [rows EXCEPT ![c] = Acted(rows[c], n, "human", now)]
      BY <2>1 DEF Approve
    <3> QED BY <1>1, <3>1, ApprovedByHuman
  <2>2. CASE Decline(c)
    <3>1. PICK n \in Waiting(rows[c]) :
            rows' = [rows EXCEPT ![c].state = "CLOSED_NOOP", ![c].acts[n].by = "declined"]
      BY <2>2 DEF Decline
    <3> DEFINE y == [rows[c] EXCEPT !.state = "CLOSED_NOOP", !.acts[n].by = "declined"]
    <3>2. n \in Attempts /\ rows[c].acts[n] \in Act
      BY <1>1 DEF Waiting, Row
    <3>3. [rows[c].acts[n] EXCEPT !.by = "declined"] \in Act
      BY <3>2 DEF Act
    <3>4. /\ y \in Row
          /\ y.acts = [rows[c].acts EXCEPT ![n] = [rows[c].acts[n] EXCEPT !.by = "declined"]]
      BY <1>1, <3>2, <3>3 DEF Row, States, TerminalStates
    <3>5. rows' = [rows EXCEPT ![c] = y]
      BY <1>1, <3>1
    <3> HIDE DEF y
    <3>6. rows' \in [Cases -> Row] /\ rows'[c] = y /\ \A b \in Cases : b # c => rows'[b] = rows[b]
      BY <1>1, <3>4, <3>5
    <3>7. ASSUME NEW m \in Executed(y)
          PROVE  y.acts[m] = rows[c].acts[m]
      <4>1. [rows[c].acts[n] EXCEPT !.by = "declined"].by = "declined"
        BY <3>2 DEF Act
      <4>2. rows[c].acts \in [Attempts -> Act]
        BY <1>1 DEF Row
      <4>3. m # n
        BY <3>2, <3>4, <4>1, <4>2 DEF Executed
      <4> QED BY <3>4, <4>2, <4>3 DEF Executed
    <3>8. Executed(y) \subseteq Executed(rows[c])
      BY <3>7 DEF Executed
    <3> QED BY <1>3, <3>6, <3>7, <3>8
  <2>3. CASE MoneyArrives(c)
    <3> DEFINE y == [rows[c] EXCEPT !.state = "RECOVERED"]
    <3>1. rows' = [rows EXCEPT ![c] = y]
      BY <1>1, <2>3 DEF MoneyArrives
    <3>2. y \in Row /\ y.acts = rows[c].acts
      BY <1>1 DEF Row, States, TerminalStates
    <3> HIDE DEF y
    <3>3. rows' \in [Cases -> Row] /\ rows'[c] = y /\ \A b \in Cases : b # c => rows'[b] = rows[b]
      BY <1>1, <3>1, <3>2
    <3> QED BY <1>3, <3>2, <3>3 DEF Executed
  <2> QED BY <2>1, <2>2, <2>3
<1> QED BY <1>1, <1>2, <1>4 DEF BudgetInv, BudgetTypeOK, SessionType, DbOK

LEMMA AdvanceClockStep == BudgetInv /\ AdvanceClock => BudgetInv'
<1> SUFFICES ASSUME BudgetInv, AdvanceClock PROVE BudgetInv'
  OBVIOUS
<1>1. now \in Nat /\ DbOK(rows, now) /\ DbOK(session.db, now)
  BY DEF BudgetInv, BudgetTypeOK
<1>2. now' = now + 1 /\ rows' = rows /\ session' = session
  BY DEF AdvanceClock
<1>3. DbOK(rows, now + 1) /\ DbOK(session.db, now + 1) /\ now + 1 \in Nat
  BY <1>1, LaterOK
<1> QED BY <1>2, <1>3 DEF BudgetInv, BudgetTypeOK

LEMMA BudgetStep == BudgetInv /\ [BudgetNext]_budgetVars => BudgetInv'
<1> SUFFICES ASSUME BudgetInv, [BudgetNext]_budgetVars PROVE BudgetInv'
  OBVIOUS
<1>1. CASE Tick
  BY <1>1, BeginTickStep, StepCaseStep, TickEndStep DEF Tick
<1>2. CASE Outside
  BY <1>2, OutsideStep DEF Outside
<1>3. CASE AdvanceClock
  BY <1>3, AdvanceClockStep
<1>4. CASE UNCHANGED budgetVars
  BY <1>4 DEF budgetVars, BudgetInv, BudgetTypeOK
<1> QED BY <1>1, <1>2, <1>3, <1>4 DEF BudgetNext

LEMMA BudgetInvariant == BudgetSpec => []BudgetInv
<1> QED BY BudgetInitial, BudgetStep, PTL DEF BudgetSpec

-----------------------------------------------------------------------------
(* Theorems.                                                                *)

\* The clock, the cases and the tick under way always have their types: a tick
\* leaves every case it steps with a state, a schedule and attempts the tables
\* can hold.
THEOREM BudgetTypeCorrect == BudgetSpec => []BudgetTypeOK
<1>1. BudgetInv => BudgetTypeOK
  BY DEF BudgetInv
<1> QED BY <1>1, BudgetInvariant, PTL

\* Whatever the budgets, and however many cases one tick steps, the actions the
\* agent takes on its own stay within the monthly cap of every customer and
\* the budget of every day (stopping_hits in app/policy/rules.py).
THEOREM UnattendedAlwaysWithinBudgets == BudgetSpec => []UnattendedWithinBudgets
<1>1. BudgetInv => UnattendedWithinBudgets
  BY DEF BudgetInv, DbOK, UnattendedWithinBudgets
<1> QED BY <1>1, BudgetInvariant, PTL
=============================================================================
