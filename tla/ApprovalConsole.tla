--------------------------- MODULE ApprovalConsole ---------------------------
(***************************************************************************)
(* Database sessions at work on parked requests and on the audit log       *)
(* (app/main.py, agent.decide_approval, agent._expire_stale_approvals).    *)
(*                                                                         *)
(* CaseLifecycle runs one handler at a time.  Here each HTTP request and   *)
(* the agent's tick has its own session: it reads without a lock, takes    *)
(* SQLite's write lock with its first flush, and holds it until it         *)
(* commits.  Rows it has read before stay in its identity map, as old as   *)
(* they are.                                                               *)
(***************************************************************************)
EXTENDS AuditChain, FiniteSets, SequencesExt

CONSTANTS
    Requests,     \* the parked interventions, each of a case of its own
    Clerks,       \* concurrent HTTP requests to the console
    Agent,        \* the session of the agent's tick
    NoOne,        \* the owner of the write lock when it is free
    LlmMode,      \* of the agent: "rules" or "auto"
    Answers,      \* what may become of an approved action
    MaxTicks,     \* bound: ticks of the agent
    MaxResets,    \* bound: resets of the demo database
    MaxFailures   \* bound: handlers that fail after their provider call

Sessions == Clerks \cup {Agent}

ASSUME ConsoleAssumption ==
    /\ IsFiniteSet(Requests)
    /\ Agent \notin Clerks /\ NoOne \notin Sessions
    /\ LlmMode \in {"rules", "auto"}
    /\ Answers \subseteq {"paid", "announced", "no money", "exhausted", "failed"}
    /\ MaxTicks \in Nat /\ MaxResets \in Nat /\ MaxFailures \in Nat

VARIABLES
    reqs,        \* committed: the requests with their cases
    log,         \* committed: the audit log, in the order of insertion
    writer,      \* the session that holds the write lock
    sess,        \* what each session has read and where it is
    ticks, resets, failures,
    calls,       \* ghost: provider calls per request
    overlapped,  \* ghost: requests decided by sessions that overlapped
    tampered     \* ghost: positions of tampered rows

consoleVars == <<reqs, log, writer, sess, ticks, resets, failures,
                 calls, overlapped, tampered>>
ghosts == <<calls, overlapped, tampered>>
counters == <<ticks, resets, failures>>

\* approvals counts the rows of the table of that name; stored says that the
\* event of the simulated payment, whose id derives from the key, is known.
Request == [status    : {"ABSENT", "PENDING_APPROVAL", "SUCCEEDED", "FAILED", "DECLINED"},
            case      : {"NONE", "PENDING_APPROVAL", "RECOVERED", "ESCALATED", "CLOSED_NOOP"},
            hint      : {"none", "waiting", "applied"},
            stored    : BOOLEAN,
            approvals : Nat]

Absent == [status |-> "ABSENT", case |-> "NONE", hint |-> "none",
           stored |-> FALSE, approvals |-> 0]
Parked == [Absent EXCEPT !.status = "PENDING_APPROVAL", !.case = "PENDING_APPROVAL"]

Jobs == {"none", "APPROVED", "DECLINED", "tamper", "tick"}

\* The last row of the log, as read outside the lock: none or one.
Unread == << >>

Idle == [at |-> "idle", job |-> "none", targets |-> {},
         view |-> [r \in Requests |-> Absent], last |-> Unread, victim |-> 0]

\* What a row of the log is about; a tampered row says something else.
Content(what, subject) == [what |-> what, subject |-> subject, forged |-> FALSE]

-----------------------------------------------------------------------------
(* Rows.                                                                    *)

Waiting(r, rows) == rows[r].status = "PENDING_APPROVAL"

\* set_state compares with the state the session has read.
CaseMoved(row, read, state) == IF read.case = state THEN row.case ELSE state

\* Money that covers the balance; an event that is stored is not applied again.
Credited(row, read) ==
    [row EXCEPT !.hint = "applied", !.stored = TRUE,
                !.case = IF row.stored \/ read.case # "PENDING_APPROVAL" THEN @
                         ELSE "RECOVERED"]

Declined(row, read) ==
    [row EXCEPT !.status = "DECLINED", !.approvals = @ + 1,
                !.case = CaseMoved(row, read, "CLOSED_NOOP")]

\* _run_parked and _observe_execution, by what the provider answers.
Executed(row, read, answer) ==
    LET ran == [row EXCEPT !.approvals = @ + 1, !.hint = "none",
                           !.status = IF answer = "failed" THEN "FAILED" ELSE "SUCCEEDED"]
    IN  CASE answer = "paid"      -> Credited(ran, read)
          [] answer = "announced" -> [ran EXCEPT !.hint = "waiting"]
          [] answer = "exhausted" -> [ran EXCEPT !.case = CaseMoved(row, read, "ESCALATED")]
          [] OTHER                -> ran

-----------------------------------------------------------------------------
(* The audit rows of a handler, appended while it holds the lock.           *)

\* The first row may be built on a last row that was read before the lock.
Audited(s, contents) ==
    IF contents # << >> /\ sess[s].last # Unread
    THEN LET first == RowsAfter(Head(sess[s].last), <<Head(contents)>>)
         IN  AuditEvents(log \o first, Tail(contents))
    ELSE AuditEvents(log, contents)

DeclineRows(r) == <<Content("declined", r), Content("state_changed", r)>>

ApproveRows(r, answer) ==
    <<Content("approved", r), Content("action_result", r)>>
    \o (IF answer = "paid" /\ ~reqs[r].stored THEN <<Content("payment_credited", r)>>
        ELSE << >>)

-----------------------------------------------------------------------------
(* The life of a session.                                                   *)

\* Faulty variant: the status is not looked at.
MayDecide_AnyStatus(r) == reqs[r].status # "ABSENT"

MayDecide(r) == Waiting(r, reqs)

\* approval_decision up to the intervention's status.  A request that is not
\* pending, or a decline without a reason, is answered and changes nothing.
AskDecision(s) ==
    /\ sess[s].at = "idle"
    /\ \E r \in Requests, decision \in {"APPROVED", "DECLINED"} :
          /\ MayDecide(r)
          /\ sess' = [sess EXCEPT ![s] =
                [Idle EXCEPT !.at = "asked", !.job = decision, !.targets = {r},
                             !.view = reqs]]
    /\ UNCHANGED <<reqs, log, writer, counters, ghosts>>

\* The case is read by a statement of its own.
ReadCase(s) ==
    /\ sess[s].at = "asked"
    /\ \E r \in sess[s].targets :
          sess' = [sess EXCEPT ![s].at = "ready", ![s].view[r].case = reqs[r].case]
    /\ UNCHANGED <<reqs, log, writer, counters, ghosts>>

\* demo_tamper up to its choice of a victim, on a chain that verifies.
AskTamper(s) ==
    /\ sess[s].at = "idle" /\ log # << >> /\ Verified(log)
    /\ LET credited == {i \in 1 .. Len(log) : log[i].content.what = "payment_credited"}
           lowest(S) == CHOOSE i \in S : \A j \in S : log[i].seq <= log[j].seq
       IN  sess' = [sess EXCEPT ![s] =
               [Idle EXCEPT !.at = "ready", !.job = "tamper",
                            !.victim = lowest(IF credited = {} THEN 1 .. Len(log)
                                              ELSE credited)]]
    /\ UNCHANGED <<reqs, log, writer, counters, ghosts>>

\* Faulty variant: the rules' diagnosis is audited before its row is flushed.
AuditsBeforeLock_Rules(stale) == stale = {}

\* With no request to expire nothing is flushed before the first case is
\* stepped, and an LLM's diagnosis is audited before its row is added: the last
\* row of the log is then read without the lock.
AuditsBeforeLock(stale) == LlmMode = "auto" /\ stale = {}

\* run_tick reads the requests that have timed out.
AskTick ==
    /\ sess[Agent].at = "idle" /\ ticks < MaxTicks
    /\ ticks' = ticks + 1
    /\ \E stale \in SUBSET {r \in Requests : Waiting(r, reqs)} :
       \E last \in {Unread} \cup {<<row>> : row \in IF AuditsBeforeLock(stale)
                                                     THEN LastRows(log) ELSE {}} :
          sess' = [sess EXCEPT ![Agent] =
              [Idle EXCEPT !.at = "ready", !.job = "tick", !.targets = stale,
                           !.view = reqs, !.last = last]]
    /\ UNCHANGED <<reqs, log, writer, resets, failures, ghosts>>

\* The first flush.
BeginWrite(s) ==
    /\ sess[s].at = "ready" /\ writer = NoOne
    /\ writer' = s
    /\ sess' = [sess EXCEPT ![s].at = "writing"]
    /\ UNCHANGED <<reqs, log, counters, ghosts>>

\* "database is locked": the handler fails before it has done anything.
LockTimeout(s) ==
    /\ sess[s].at = "ready" /\ writer # NoOne
    /\ sess' = [sess EXCEPT ![s] = Idle]
    /\ UNCHANGED <<reqs, log, writer, counters, ghosts>>

Finish(s) ==
    /\ writer' = NoOne
    /\ sess' = [sess EXCEPT ![s] = Idle]

Writing(s, job) == sess[s].at = "writing" /\ sess[s].job = job

Overlaps(s, targets) ==
    {r \in targets : sess[s].view[r].approvals < reqs[r].approvals}

CommitDecline(s) ==
    /\ Writing(s, "DECLINED")
    /\ \E r \in sess[s].targets :
          /\ reqs[r].status # "ABSENT"
          /\ reqs' = [reqs EXCEPT ![r] = Declined(@, sess[s].view[r])]
          /\ log' \in Audited(s, DeclineRows(r))
          /\ overlapped' = overlapped \cup Overlaps(s, {r})
    /\ Finish(s)
    /\ UNCHANGED <<counters, calls, tampered>>

CommitApprove(s) ==
    /\ Writing(s, "APPROVED")
    /\ \E r \in sess[s].targets, answer \in Answers :
          /\ reqs[r].status # "ABSENT"
          /\ reqs' = [reqs EXCEPT ![r] = Executed(@, sess[s].view[r], answer)]
          /\ log' \in Audited(s, ApproveRows(r, answer))
          /\ calls' = [calls EXCEPT ![r] = @ + 1]
          /\ overlapped' = overlapped \cup Overlaps(s, {r})
    /\ Finish(s)
    /\ UNCHANGED <<counters, tampered>>

\* The action has been sent and the transaction is lost.
FailApprove(s) ==
    /\ Writing(s, "APPROVED") /\ failures < MaxFailures
    /\ failures' = failures + 1
    /\ \E r \in sess[s].targets :
          /\ reqs[r].status # "ABSENT"
          /\ calls' = [calls EXCEPT ![r] = @ + 1]
    /\ Finish(s)
    /\ UNCHANGED <<reqs, log, ticks, resets, overlapped, tampered>>

CommitTamper(s) ==
    /\ Writing(s, "tamper")
    /\ LET i == sess[s].victim
       IN  /\ i \in DOMAIN log
           /\ log' = [log EXCEPT ![i].content.forged = TRUE]
           /\ tampered' = tampered \cup {i}
    /\ Finish(s)
    /\ UNCHANGED <<reqs, counters, calls, overlapped>>

\* The rows the session is about are gone: the write fails.
RowsGone(s) ==
    /\ sess[s].at = "writing"
    /\ \/ \E r \in sess[s].targets : reqs[r].status = "ABSENT"
       \/ sess[s].job = "tamper" /\ sess[s].victim \notin DOMAIN log
    /\ Finish(s)
    /\ UNCHANGED <<reqs, log, counters, ghosts>>

-----------------------------------------------------------------------------
(* The tick.                                                                *)

\* Faulty variant: the automatic decline is not audited.
TimeoutRows_Silent(stale) ==
    LET row(r) == Content("state_changed", r)
    IN  [i \in 1 .. Cardinality(stale) |-> row(SetToSeq(stale)[i])]

\* Two rows for each request.
TimeoutRows(stale) ==
    LET subject(i) == SetToSeq(stale)[(i + 1) \div 2]
    IN  [i \in 1 .. 2 * Cardinality(stale) |->
            Content(IF i % 2 = 1 THEN "timeout" ELSE "state_changed", subject(i))]

CreditRows(credited) ==
    [i \in 1 .. Cardinality(credited) |->
        Content("payment_credited", SetToSeq(credited)[i])]

\* Money is looked for after the stale requests: in what the session read at
\* first, or under the lock if it had to write for them.
MoneyView == IF sess[Agent].targets = {} THEN sess[Agent].view ELSE reqs

Announced == {r \in Requests : /\ MoneyView[r].status = "SUCCEEDED"
                               /\ MoneyView[r].hint = "waiting"
                               /\ r \notin sess[Agent].targets
                               /\ reqs[r].status # "ABSENT"}

AfterTick(stale, due) ==
    [r \in Requests |->
        CASE r \in stale -> Declined(reqs[r], reqs[r])
          [] r \in due   -> Credited(reqs[r], reqs[r])
          [] OTHER       -> reqs[r]]

\* Requests expire, announced money is credited, then other cases are stepped.
CommitTick ==
    /\ Writing(Agent, "tick")
    /\ LET stale == sess[Agent].targets
       IN  /\ \A r \in stale : reqs[r].status # "ABSENT"
           /\ \E due \in SUBSET Announced, step \in BOOLEAN :
                 /\ sess[Agent].last # Unread => due = {} /\ step
                 /\ reqs' = AfterTick(stale, due)
                 /\ log' \in Audited(Agent,
                        TimeoutRows(stale)
                        \o CreditRows({r \in due : ~reqs[r].stored})
                        \o (IF step THEN <<Content("policy_decision", Agent)>> ELSE << >>))
           /\ overlapped' = overlapped \cup Overlaps(Agent, stale)
    /\ Finish(Agent)
    /\ UNCHANGED <<counters, calls, tampered>>

-----------------------------------------------------------------------------
(* demo_reset: another process drops all tables and seeds them again.       *)

DropAll ==
    /\ writer = NoOne /\ resets < MaxResets
    /\ resets' = resets + 1
    /\ reqs' = [r \in Requests |-> Absent]
    /\ log' = << >>
    /\ calls' = [r \in Requests |-> 0]
    /\ overlapped' = {} /\ tampered' = {}
    /\ UNCHANGED <<writer, sess, ticks, failures>>

SeedRequest ==
    /\ writer = NoOne
    /\ \E r \in Requests :
          /\ reqs[r].status = "ABSENT"
          /\ reqs' = [reqs EXCEPT ![r] = Parked]
          /\ log' \in AuditEvents(log, <<Content("approval_requested", r)>>)
    /\ UNCHANGED <<writer, sess, counters, ghosts>>

-----------------------------------------------------------------------------
ConsoleInit ==
    /\ reqs = [r \in Requests |-> Absent]
    /\ log = << >>
    /\ writer = NoOne
    /\ sess = [s \in Sessions |-> Idle]
    /\ ticks = 0 /\ resets = 0 /\ failures = 0
    /\ calls = [r \in Requests |-> 0]
    /\ overlapped = {} /\ tampered = {}

ConsoleNext ==
    \/ \E s \in Clerks : AskDecision(s) \/ ReadCase(s) \/ AskTamper(s)
    \/ AskTick
    \/ \E s \in Sessions : BeginWrite(s) \/ LockTimeout(s) \/ RowsGone(s)
    \/ \E s \in Clerks :
          CommitDecline(s) \/ CommitApprove(s) \/ FailApprove(s) \/ CommitTamper(s)
    \/ CommitTick
    \/ DropAll
    \/ SeedRequest
=============================================================================
