------------------------------- MODULE WebApp -------------------------------
(***************************************************************************)
(* The console process (app/main.py): sessions that decide requests, and   *)
(* the evaluation in its background.  They have two databases and one      *)
(* clock, which stamps what the sessions commit.                           *)
(***************************************************************************)
EXTENDS ApprovalConsole, EvalWorker

VARIABLES
    stamps,      \* [Requests -> the clock of the last decision, or Undecided]
    drawn,       \* [Clerks -> the clock the session has read its time from]
    disturbed    \* ghost: sessions that have met a batch, or the error of one

CONSTANT Undecided

ASSUME StampAssumption == Undecided \notin Threads

webVars == <<consoleVars, workerVars, stamps, drawn, disturbed>>

WebInit ==
    /\ ConsoleInit /\ WorkerInit
    /\ stamps = [r \in Requests |-> Undecided]
    /\ drawn = [s \in Clerks |-> RealClock]
    /\ disturbed = {}

Decided == {r \in Requests : reqs'[r].approvals > reqs[r].approvals}

\* decide_approval reads now() for decided_at once it has read the case, before
\* it waits for the lock and calls the provider.
Draw ==
    drawn' = [s \in Clerks |->
                CASE sess[s].at = "asked" /\ sess'[s].at = "ready" -> clock
                  [] sess'[s].at = "idle"                          -> RealClock
                  [] OTHER                                         -> drawn[s]]

\* What is committed bears the time that was read then.  The agent's tick and
\* the reset run in processes of their own, on the real clock.
Stamp ==
    /\ Draw
    /\ stamps' = [r \in Requests |->
                    IF reqs'[r].approvals = 0 THEN Undecided
                    ELSE IF r \in Decided
                      THEN IF writer \in Clerks THEN drawn[writer] ELSE RealClock
                    ELSE stamps[r]]

Disturb ==
    disturbed' = {s \in Clerks : /\ sess'[s].at # "idle"
                                 /\ \/ s \in disturbed
                                    \/ evalState'.running \/ evalState'.error}

OutsideConsole == UNCHANGED <<consoleVars, stamps, drawn>> /\ Disturb

WebNext ==
    \/ ConsoleNext /\ UNCHANGED workerVars /\ Stamp /\ Disturb
    \/ WorkerNext /\ OutsideConsole

\* A started thread is scheduled until it ends.  That every simulation ends is
\* SimulationEnds of Harness.
WebSpec ==
    WebInit /\ [][WebNext]_webVars
    /\ \A w \in Threads : WF_webVars(WorkerStep(w) /\ OutsideConsole)

-----------------------------------------------------------------------------
(* The audit chain.                                                         *)

\* Whatever sessions and ticks interleave, verify fails only on a log somebody
\* has tampered with: two sessions never build on the same last row
\* (audit_event, first called after the session's first flush).
ChainValidUnlessTampered == Verified(log) <=> tampered = {}

\* verify names the tampered row itself, the first of them by number, whatever
\* was appended before and after.
TamperPointNamed ==
    tampered # {} => /\ FirstBroken(log) \in tampered
                     /\ \A i \in tampered : ~Precedes(log, i, FirstBroken(log))

\* The log and the table never disagree on a decision: the last entry about a
\* request is the one its status shows, also when several sessions decided it.
LogTellsTheStatus ==
    \A r \in Requests :
        LET about == {i \in 1 .. Len(log) :
                         /\ log[i].content.subject = r
                         /\ log[i].content.what \in {"approved", "declined", "timeout"}}
            latest == CHOOSE i \in about : \A j \in about : log[j].seq <= log[i].seq
        IN  /\ Cardinality(about) = reqs[r].approvals
            /\ about # {} =>
                 (reqs[r].status = "DECLINED"
                    <=> log[latest].content.what \in {"declined", "timeout"})

-----------------------------------------------------------------------------
(* Decisions.                                                               *)

\* A request gets a second decision, or has the action taken back whose money
\* is still expected, only by a session that read it before the first decision
\* was committed (decide_approval, _expire_stale_approvals).
ConflictsNeedOverlap ==
    \A r \in Requests : r \notin overlapped =>
        /\ reqs[r].approvals <= 1
        /\ reqs[r].hint = "waiting" => reqs[r].status = "SUCCEEDED"

-----------------------------------------------------------------------------
(* The clock and the batch.                                                 *)

\* A decision bears the real time unless, while its session lived, a batch was
\* running or the last one had failed: a batch that ends well leaves the process
\* as it found it.  The session may have read the clock long before it commits,
\* and the batch may be over by then (decide_approval, reset_clock).
VirtualStampsExplained ==
    [][\A r \in Requests :
        stamps'[r] # stamps[r] /\ stamps'[r] \in Threads => writer \in disturbed]_webVars

\* A batch that was started comes to an end, well or not, so that the console
\* can start the next one.
BatchEnds == evalState.running ~> ~evalState.running

-----------------------------------------------------------------------------
(* What the repository says and the code does not do.                       *)

\* agent.py: an approved request is executed exactly once.
ApprovedExecutedOnce == \A r \in Requests : calls[r] <= 1

\* audit/__init__.py: the first row whose hash does not match is the tamper
\* point.
MismatchIsTamperPoint == ~Verified(log) => FirstBroken(log) \in tampered
=============================================================================
