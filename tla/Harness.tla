------------------------------- MODULE Harness -------------------------------
(***************************************************************************)
(* The driver of the agent that the repository runs: simulate_case of      *)
(* app/eval/harness.py, for each case of the corpus, all in one database.  *)
(*                                                                         *)
(* It owns the clock.  Each simulation puts it back to its own start and   *)
(* then jumps from one time at which something is due to the next.  The    *)
(* handlers are those of CaseLifecycle; here the events of a wake-up and   *)
(* the tick after them are one transaction.                                *)
(***************************************************************************)
EXTENDS CaseLifecycle

CONSTANTS
    Start,        \* [Cases -> time at which the simulation of the case starts]
    Horizon,      \* how long a simulation lasts at most
    Offset,       \* [Events -> how long after the start the event happens]
    SeededFails,  \* [Cases -> failed payments before the start, newest first]
    SeededPaid,   \* [Cases -> what was paid before the start]
    Nobody        \* the case under simulation when there is none

ASSUME HarnessAssumption ==
    /\ Nobody \notin Cases
    /\ Start \in [Cases -> Nat] /\ Horizon \in Nat \ {0}
    /\ Offset \in [Events -> Nat]
    /\ SeededFails \in [Cases -> Seq(Failures)]
    /\ SeededPaid \in [Cases -> Nat]
    \* Nothing is seeded overpaid, and no promise for an invoice already paid:
    \* open_or_refresh_case opens no case for it.
    /\ \A c \in Cases : /\ SeededPaid[c] <= Amount[c]
                        /\ Promised[c] # NoTime => SeededPaid[c] < Amount[c]
    \* The corpus is finite, and its ids name the events of an invoice.
    /\ IsFiniteSet(Events) /\ \A e \in Events : e.id \in Nat
    /\ \A e, f \in Events : e.case = f.case /\ e.id = f.id => e = f

VARIABLES
    current,   \* the case under simulation, or Nobody
    todo,      \* the cases not simulated yet
    raised     \* has an exception ended the evaluation?

harnessVars == <<vars, current, todo, raised>>

-----------------------------------------------------------------------------
(* One wake-up.                                                             *)

\* seed_case: a promise is kept with a case, which is opened for it.
SeedCase(c) ==
    LET invoice == [NoCase EXCEPT !.paid = SeededPaid[c], !.fails = SeededFails[c],
                                  !.payments = {e.pay : e \in {x \in Events :
                                      x.case = c /\ x.kind = "failure"}}]
    IN  IF Promised[c] = NoTime THEN invoice
        ELSE OpenCase(c, [invoice EXCEPT !.promise = Promised[c]], Start[c])

DueEvents(c, elapsed) == {e \in Events : e.case = c /\ Offset[e] = elapsed}

\* trigger_events and _corpus_events_due: all of them, in the order of the corpus.
DueBatches(c, elapsed) ==
    {q \in SetToSeqs(DueEvents(c, elapsed)) :
        \A i, j \in DOMAIN q : i < j => q[i].id < q[j].id}

\* run_tick of a database that holds the cases of seeded.
TickRow(c, r, t) == UNION {TickLate(c, m, t) : m \in TickEarly(c, r, t)}

TickAll(rows, seeded, t) ==
    OnePerCase([c \in Cases |-> IF c \in seeded THEN TickRow(c, rows[c], t) ELSE {rows[c]}])

\* The events, if there are any, then the tick.
WakeResults(c, rows, seeded, t) ==
    LET ingested == UNION {IngestRow(c, rows[c], batch, t) :
                           batch \in DueBatches(c, t - Start[c])}
    IN  UNION {IF x.err THEN {[rows EXCEPT ![c] = x]}
               ELSE TickAll([rows EXCEPT ![c] = x], seeded, t) : x \in ingested}

\* The transaction commits, or an exception ends the whole evaluation.
CommitOrRaise(rows) ==
    IF \E c \in Cases : rows[c].err
    THEN raised' = TRUE /\ UNCHANGED db
    ELSE db' = rows /\ UNCHANGED raised

-----------------------------------------------------------------------------
(* _milestones: the times at which something is due, within the horizon.    *)

HorizonEnd == Start[current] + Horizon

Seeded == Cases \ todo

EventTimes ==
    {Start[current] + Offset[e] : e \in {x \in Events : x.case = current
                                                        /\ x.id \notin db[current].seen}}

ScheduledTimes ==
    {db[c].nextAt : c \in {x \in Seeded : db[x].state = "OPEN" /\ db[x].nextAt # NoTime}}

Acts == {db[c].acts[k] : c \in Seeded, k \in Keys}

\* Faulty variant: hints that were applied still count.
HintTimes_Applied == {a.hintAt : a \in {b \in Acts : b.status = "SUCCEEDED" /\ b.hint # "none"}}

HintTimes == {a.hintAt : a \in {b \in Acts : b.status = "SUCCEEDED" /\ b.hint = "waiting"}}

\* Faulty variant: nobody wakes up for a request that times out.
TimeoutTimes_None == {}

TimeoutTimes == {a.at + Timeout : a \in {b \in Acts : b.status = "PENDING_APPROVAL"}}

Milestones ==
    {t \in EventTimes \cup ScheduledTimes \cup HintTimes \cup TimeoutTimes : t <= HorizonEnd}

NextMilestone == CHOOSE t \in Milestones : \A u \in Milestones : t <= u

-----------------------------------------------------------------------------
(* simulate_case.                                                           *)

StartCase(c) ==
    /\ current = Nobody /\ c \in todo /\ ~raised
    /\ current' = c
    /\ todo' = todo \ {c}
    /\ now' = Start[c]
    /\ \E rows \in WakeResults(c, [db EXCEPT ![c] = SeedCase(c)], Cases \ todo', Start[c]) :
          CommitOrRaise(rows)
    /\ UNCHANGED <<crashes, rolledBack>>

Simulating == current # Nobody /\ ~raised

\* The clock jumps to the next milestone; it refuses to go back.
Wake ==
    /\ Simulating
    /\ Milestones # {} /\ now < HorizonEnd
    /\ IF NextMilestone < now
       THEN raised' = TRUE /\ UNCHANGED <<now, db>>
       ELSE /\ now' = NextMilestone
            /\ \E rows \in WakeResults(current, db, Seeded, NextMilestone) :
                  CommitOrRaise(rows)
    /\ UNCHANGED <<current, todo, crashes, rolledBack>>

FinishCase ==
    /\ Simulating
    /\ Milestones = {} \/ now >= HorizonEnd
    /\ current' = Nobody
    /\ UNCHANGED <<vars, todo, raised>>

HarnessInit ==
    /\ now = 0
    /\ db = [c \in Cases |-> NoCase]
    /\ crashes = 0 /\ rolledBack = FALSE
    /\ current = Nobody /\ todo = Cases /\ raised = FALSE

HarnessNext ==
    \/ \E c \in Cases : StartCase(c)
    \/ Wake
    \/ FinishCase

\* The evaluation is one sequential program: it goes on as long as it can.
HarnessSpec == HarnessInit /\ [][HarnessNext]_harnessVars /\ WF_harnessVars(HarnessNext)

-----------------------------------------------------------------------------
\* The clock never jumps over a time at which a tick would have found something
\* to do - a request to expire, money to credit, a schedule to follow - or an
\* event of the corpus would have come, for this case or for one simulated
\* before on the same database (_milestones).
PunctualDriver ==
    [][Simulating /\ current' = current /\ now' # now =>
        LET skipped == now' - 1
        IN  /\ \A c \in Seeded : /\ Stale(db[c], skipped) = {}
                                 /\ DueHints(db[c], skipped) = {}
                                 /\ ~ScheduleArrived(db[c], skipped)
            /\ \A t \in EventTimes : t > skipped]_harnessVars

\* Every simulation comes to an end and lets the next one start: settled cases
\* do not loop forever, and no exception ends the evaluation.
SimulationEnds == Simulating ~> current = Nobody

\* The agent never drops a case it may act on: retries, deferrals and promises
\* end, at the latest when the invoice passes the age limit.
EventuallyClosed ==
    \A c \in Cases : (db[c].state = "OPEN" /\ ~Watched(db[c])) ~> Terminal(db[c])

\* Announced money is credited once its time has come, also on a closed case.
AnnouncedMoneyArrives ==
    \A c \in Cases :
        LET Awaited == {k \in Keys : /\ db[c].acts[k].hint = "waiting"
                                     /\ db[c].acts[k].hintAt <= Start[c] + Horizon}
        IN  Awaited # {} ~> Awaited = {}
=============================================================================
