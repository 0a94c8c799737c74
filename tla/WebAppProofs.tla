---------------------------- MODULE WebAppProofs ----------------------------
(***************************************************************************)
(* Proofs about WebApp, for any number of sessions, requests and           *)
(* background threads: what a decision is stamped with, and when a request *)
(* can be decided twice.                                                   *)
(***************************************************************************)
EXTENDS WebApp, TLAPS

-----------------------------------------------------------------------------
(* The background thread and the clock.                                     *)

\* At most one batch is alive, and it is what the flag says; the clock is the
\* real one again once a simulation is over, and stays so unless a batch has
\* failed.
WorkerInv ==
    /\ WorkerTypeOK
    /\ \A w \in Threads : worker[w].at # "free" => evalState.running
    /\ \A v, w \in Threads : worker[v].at # "free" /\ worker[w].at # "free" => v = w
    /\ \A w \in Threads : worker[w].at \in {"persisting", "ended"} => clock = RealClock
    /\ SimulationOwnsClock
    /\ evalState.running \/ evalState.error \/ clock = RealClock

LEMMA WorkerInitially == WorkerInit => WorkerInv
BY WorkerAssumption
   DEF WorkerInit, WorkerInv, WorkerTypeOK, SimulationOwnsClock, Free, Stages, RunsPerBatch

LEMMA WorkerKept == WorkerInv /\ [WorkerNext]_workerVars => WorkerInv'
<1> SUFFICES ASSUME WorkerInv, [WorkerNext]_workerVars
             PROVE  WorkerInv'
  OBVIOUS
<1> USE WorkerAssumption
    DEF WorkerInv, WorkerTypeOK, SimulationOwnsClock, Free, Stages, RunsPerBatch
<1>1. CASE UNCHANGED workerVars
  BY <1>1 DEF workerVars
<1>2. ASSUME NEW w \in Threads, EvaluationRun(w)
      PROVE  WorkerInv'
  BY <1>2 DEF EvaluationRun, MayStart
<1>3. ASSUME NEW w \in Threads, SimulateCase(w)
      PROVE  WorkerInv'
  BY <1>3 DEF SimulateCase
<1>4. ASSUME NEW w \in Threads, EndSimulation(w)
      PROVE  WorkerInv'
  BY <1>4 DEF EndSimulation, ClockAfterRun
<1>5. ASSUME NEW w \in Threads, Persist(w)
      PROVE  WorkerInv'
  BY <1>5 DEF Persist
<1>6. ASSUME NEW w \in Threads, RunRaises(w)
      PROVE  WorkerInv'
  BY <1>6 DEF RunRaises
<1>7. ASSUME NEW w \in Threads, EndBatch(w)
      PROVE  WorkerInv'
  BY <1>7 DEF EndBatch, RunningAfter
<1> QED BY <1>1, <1>2, <1>3, <1>4, <1>5, <1>6, <1>7 DEF WorkerNext

LEMMA WorkerInvariant == WebSpec => []WorkerInv
<1>1. WebInit => WorkerInv
  BY WorkerInitially DEF WebInit
<1>2. WorkerInv /\ [WebNext]_webVars => WorkerInv'
  BY WorkerKept DEF WebNext, webVars, workerVars
<1> QED BY <1>1, <1>2, PTL DEF WebSpec

\* A simulation is alone with its clock, for any number of threads.
THEOREM SimulationAlwaysOwnsClock == WebSpec => []SimulationOwnsClock
<1>1. WorkerInv => SimulationOwnsClock
  BY DEF WorkerInv
<1> QED BY <1>1, WorkerInvariant, PTL

\* A session that has read a simulation's clock has met its batch, or the error
\* of one that failed before its clock was put back.
DrawnInv ==
    /\ DOMAIN drawn = Clerks
    /\ \A s \in Clerks : drawn[s] # RealClock => s \in disturbed /\ sess[s].at # "idle"

LEMMA DrawnInvariant == WebSpec => []DrawnInv
<1>1. WebInit => DrawnInv
  BY DEF WebInit, DrawnInv
<1>2. WorkerInv /\ DrawnInv /\ [WebNext]_webVars => DrawnInv'
  <2> SUFFICES ASSUME WorkerInv, DrawnInv, [WebNext]_webVars
               PROVE  DrawnInv'
    OBVIOUS
  <2>1. CASE ConsoleNext /\ UNCHANGED workerVars /\ Stamp /\ Disturb
    <3>1. /\ DOMAIN drawn' = Clerks
          /\ \A s \in Clerks :
                \/ drawn'[s] = RealClock
                \/ sess'[s].at = "ready" /\ drawn'[s] = clock
                \/ sess'[s].at # "idle" /\ drawn'[s] = drawn[s]
      BY <2>1, Zenon DEF Stamp, Draw
    <3>2. clock # RealClock => evalState'.running \/ evalState'.error
      BY <2>1 DEF WorkerInv, workerVars
    <3>3. \A s \in Clerks : drawn'[s] # RealClock =>
            s \in disturbed' /\ sess'[s].at # "idle"
      BY <2>1, <3>1, <3>2 DEF Disturb, DrawnInv
    <3> QED BY <3>1, <3>3 DEF DrawnInv
  <2>2. CASE WorkerNext /\ OutsideConsole
    BY <2>2 DEF OutsideConsole, consoleVars, Disturb, DrawnInv
  <2>3. CASE UNCHANGED webVars
    BY <2>3 DEF webVars, consoleVars, DrawnInv
  <2> QED BY <2>1, <2>2, <2>3 DEF WebNext
<1> QED BY <1>1, <1>2, WorkerInvariant, PTL DEF WebSpec

\* A decision is stamped with virtual time only by a session that has met a
\* batch, or the error of one.
THEOREM VirtualStampsAlwaysExplained == WebSpec => VirtualStampsExplained
<1>1. DrawnInv /\ [WebNext]_webVars =>
        [\A r \in Requests :
            stamps'[r] # stamps[r] /\ stamps'[r] \in Threads => writer \in disturbed]_webVars
  <2> SUFFICES ASSUME DrawnInv, WebNext, NEW r \in Requests,
                      stamps'[r] # stamps[r], stamps'[r] \in Threads
               PROVE  writer \in disturbed
    OBVIOUS
  <2>1. Stamp
    BY DEF WebNext, OutsideConsole
  <2>2. writer \in Clerks /\ stamps'[r] = drawn[writer]
    BY <2>1, WorkerAssumption, StampAssumption DEF Stamp
  <2> QED BY <2>2, WorkerAssumption DEF DrawnInv
<1> QED BY <1>1, DrawnInvariant, PTL DEF WebSpec, VirtualStampsExplained

-----------------------------------------------------------------------------
(* Who decides a request twice.                                             *)

\* What the proofs need of a session: what it has read is of the right type,
\* and the request it is about was undecided when it was read.
SessionOK(s) ==
    /\ s.targets \subseteq Requests
    /\ s.view \in [Requests -> Request]
    /\ \A r \in s.targets : s.view[r].approvals = 0

\* A waiting request is undecided, and so is one no session has touched yet;
\* a request is left behind only with an overlap.
RequestOK(r) ==
    /\ reqs[r].status \in {"ABSENT", "PENDING_APPROVAL"} => reqs[r].approvals = 0
    /\ reqs[r].approvals = 0 => reqs[r].hint # "waiting"
    /\ r \notin overlapped =>
         /\ reqs[r].approvals <= 1
         /\ reqs[r].hint = "waiting" => reqs[r].status = "SUCCEEDED"

ConsoleInv ==
    /\ reqs \in [Requests -> Request]
    /\ DOMAIN sess = Sessions
    /\ \A s \in Sessions : SessionOK(sess[s])
    /\ \A r \in Requests : RequestOK(r)

LEMMA IdleOK == SessionOK(Idle)
BY DEF SessionOK, Idle, Absent, Request

CaseStates == {"NONE", "PENDING_APPROVAL", "RECOVERED", "ESCALATED", "CLOSED_NOOP"}

\* A row with new values in its fields.
LEMMA RowWith ==
    ASSUME NEW row \in Request, NEW n \in Nat, NEW m \in CaseStates
    PROVE  /\ [row EXCEPT !.status = "DECLINED", !.approvals = n, !.case = m] \in Request
           /\ [row EXCEPT !.case = m] \in Request
           /\ [row EXCEPT !.hint = "waiting"] \in Request
           /\ [row EXCEPT !.hint = "applied", !.stored = TRUE, !.case = m] \in Request
           /\ \A status \in {"SUCCEEDED", "FAILED"} :
                [row EXCEPT !.approvals = n, !.hint = "none", !.status = status] \in Request
BY DEF Request, CaseStates

\* What a handler does to the row it decides.
LEMMA RowTypes ==
    ASSUME NEW row \in Request, NEW read \in Request, NEW answer
    PROVE  /\ Declined(row, read) \in Request
           /\ Declined(row, read).approvals = row.approvals + 1
           /\ Declined(row, read).status = "DECLINED"
           /\ Declined(row, read).hint = row.hint
           /\ Executed(row, read, answer) \in Request
           /\ Executed(row, read, answer).approvals = row.approvals + 1
           /\ Executed(row, read, answer).status \in {"SUCCEEDED", "FAILED"}
           /\ Executed(row, read, answer).hint = "waiting" =>
                Executed(row, read, answer).status = "SUCCEEDED"
           /\ Credited(row, read) \in Request
           /\ Credited(row, read).approvals = row.approvals
           /\ Credited(row, read).status = row.status
           /\ Credited(row, read).hint = "applied"
<1>1. \A x \in Request : x.case \in CaseStates /\ x.approvals + 1 \in Nat
  BY DEF Request, CaseStates
<1>2. \A state \in CaseStates : CaseMoved(row, read, state) \in CaseStates
  BY <1>1 DEF CaseMoved
<1>3. /\ Declined(row, read) \in Request
      /\ Declined(row, read).approvals = row.approvals + 1
      /\ Declined(row, read).status = "DECLINED"
      /\ Declined(row, read).hint = row.hint
  <2>1. CaseMoved(row, read, "CLOSED_NOOP") \in CaseStates
    BY <1>2 DEF CaseStates
  <2>2. Declined(row, read) \in Request
    BY <1>1, <2>1, RowWith, Zenon DEF Declined
  <2> QED BY <2>2 DEF Declined, Request
<1>4. ASSUME NEW x \in Request
      PROVE  /\ Credited(x, read) \in Request
             /\ Credited(x, read).approvals = x.approvals
             /\ Credited(x, read).status = x.status
             /\ Credited(x, read).hint = "applied"
  <2> DEFINE m == IF x.stored \/ read.case # "PENDING_APPROVAL" THEN x.case ELSE "RECOVERED"
  <2>1. m \in CaseStates
    BY <1>1 DEF CaseStates
  <2>2. Credited(x, read) = [x EXCEPT !.hint = "applied", !.stored = TRUE, !.case = m]
    BY DEF Credited
  <2> HIDE DEF m
  <2>3. Credited(x, read) \in Request
    <3>1. [x EXCEPT !.hint = "applied", !.stored = TRUE, !.case = m] \in Request
      BY <2>1, ZenonT(60) DEF Request, CaseStates
    <3> QED BY <2>2, <3>1
  <2> QED BY <2>2, <2>3 DEF Request
<1> DEFINE status == IF answer = "failed" THEN "FAILED" ELSE "SUCCEEDED"
           n      == row.approvals + 1
           ran    == [row EXCEPT !.approvals = n, !.hint = "none", !.status = status]
<1>5. status \in {"SUCCEEDED", "FAILED"} /\ (answer # "failed" => status = "SUCCEEDED")
  OBVIOUS
<1>6. n \in Nat
  BY <1>1
<1>7. \/ answer = "paid" /\ Executed(row, read, answer) = Credited(ran, read)
      \/ answer = "announced" /\ Executed(row, read, answer) = [ran EXCEPT !.hint = "waiting"]
      \/ Executed(row, read, answer) = [ran EXCEPT !.case = CaseMoved(row, read, "ESCALATED")]
      \/ Executed(row, read, answer) = ran
  BY DEF Executed
<1> HIDE DEF status, n
<1>8. ran \in Request
  BY <1>5, <1>6, ZenonT(30) DEF Request
<1>9. /\ ran.approvals = n /\ ran.status = status /\ ran.hint = "none"
  BY <1>8 DEF Request
<1> HIDE DEF ran
<1>10. /\ Executed(row, read, answer) \in Request
       /\ Executed(row, read, answer).approvals = n
       /\ Executed(row, read, answer).status = status
       /\ Executed(row, read, answer).hint = "waiting" => answer = "announced"
  <2>1. CASE Executed(row, read, answer) = Credited(ran, read)
    BY <2>1, <1>4, <1>8, <1>9
  <2>2. CASE answer = "announced" /\ Executed(row, read, answer) = [ran EXCEPT !.hint = "waiting"]
    <3>1. Executed(row, read, answer) \in Request
      BY <2>2, <1>6, <1>8, RowWith, Zenon DEF CaseStates
    <3> QED BY <2>2, <3>1, <1>8, <1>9 DEF Request
  <2>3. CASE Executed(row, read, answer) = [ran EXCEPT !.case = CaseMoved(row, read, "ESCALATED")]
    <3>1. CaseMoved(row, read, "ESCALATED") \in CaseStates
      BY <1>2 DEF CaseStates
    <3>2. Executed(row, read, answer) \in Request
      BY <2>3, <3>1, <1>6, <1>8, RowWith, Zenon
    <3> QED BY <2>3, <3>2, <1>8, <1>9 DEF Request
  <2>4. CASE Executed(row, read, answer) = ran
    BY <2>4, <1>8, <1>9
  <2> QED BY <1>7, <2>1, <2>2, <2>3, <2>4
<1> QED BY <1>3, <1>4, <1>5, <1>10 DEF n, status

LEMMA ConsoleInitially == ConsoleInit => ConsoleInv
BY IdleOK DEF ConsoleInit, ConsoleInv, RequestOK, Absent, Request

\* Sessions that only read, wait, or give up.
LEMMA ReadersKeep ==
    ASSUME ConsoleInv, NEW s \in Sessions, UNCHANGED <<reqs, overlapped>>,
           NEW x, sess' = [sess EXCEPT ![s] = x], SessionOK(x)
    PROVE  ConsoleInv'
BY DEF ConsoleInv, RequestOK, SessionOK

LEMMA DecisionKeeps ==
    ASSUME ConsoleInv, NEW s \in Sessions, NEW r \in sess[s].targets,
           NEW row \in Request, reqs' = [reqs EXCEPT ![r] = row],
           row.approvals = reqs[r].approvals + 1,
           row.status \in {"SUCCEEDED", "FAILED", "DECLINED"},
           reqs[r].approvals = 0 /\ row.hint = "waiting" => row.status = "SUCCEEDED",
           overlapped' = overlapped \cup Overlaps(s, {r}), Finish(s)
    PROVE  ConsoleInv'
<1>1. r \in Requests /\ sess[s].view[r].approvals = 0 /\ reqs[r] \in Request
  BY DEF ConsoleInv, SessionOK
<1>2. reqs[r].approvals = 0 \/ r \in overlapped'
  BY <1>1 DEF Overlaps, Request
<1>3. RequestOK(r)'
  BY <1>1, <1>2 DEF RequestOK, ConsoleInv, Request
<1>4. \A q \in Requests \ {r} : RequestOK(q)'
  BY DEF RequestOK, ConsoleInv
<1> QED BY <1>1, <1>3, <1>4, IdleOK DEF ConsoleInv, Finish, SessionOK

LEMMA TickKeeps == ConsoleInv /\ CommitTick => ConsoleInv'
<1> SUFFICES ASSUME ConsoleInv, CommitTick PROVE ConsoleInv'
  OBVIOUS
<1> DEFINE stale == sess[Agent].targets
<1>1. PICK due \in SUBSET Announced : reqs' = AfterTick(stale, due)
  BY DEF CommitTick
<1>2. Agent \in Sessions /\ SessionOK(sess[Agent])
  BY DEF ConsoleInv, Sessions
<1>3. overlapped' = overlapped \cup Overlaps(Agent, stale)
  BY DEF CommitTick
<1>4. due \subseteq Requests /\ due \cap stale = {}
  BY DEF Announced
<1>5. ASSUME NEW r \in Requests
      PROVE  reqs'[r] \in Request /\ RequestOK(r)'
  <2>0. reqs[r] \in Request /\ RequestOK(r)
    BY DEF ConsoleInv
  <2>1. CASE r \in stale
    <3>1. reqs'[r] = Declined(reqs[r], reqs[r])
      BY <1>1, <1>4, <2>1 DEF AfterTick
    <3>2. reqs[r].approvals = 0 \/ r \in overlapped'
      BY <1>2, <1>3, <2>0, <2>1 DEF Overlaps, SessionOK, Request
    <3> QED BY <2>0, <3>1, <3>2, RowTypes DEF RequestOK, Request
  <2>2. CASE r \in due
    <3>1. reqs'[r] = Credited(reqs[r], reqs[r])
      BY <1>1, <1>4, <2>2 DEF AfterTick
    <3> QED BY <2>0, <3>1, <1>3, RowTypes DEF RequestOK, Request
  <2>3. CASE r \notin stale /\ r \notin due
    BY <1>1, <1>3, <1>4, <2>0, <2>3 DEF AfterTick, RequestOK
  <2> QED BY <2>1, <2>2, <2>3
<1>6. reqs' \in [Requests -> Request]
  BY <1>1, <1>5 DEF AfterTick
<1>7. sess' = [sess EXCEPT ![Agent] = Idle]
  BY DEF CommitTick, Finish
<1> QED BY <1>2, <1>5, <1>6, <1>7, IdleOK DEF ConsoleInv, SessionOK

LEMMA ConsoleKept == ConsoleInv /\ [ConsoleNext]_consoleVars => ConsoleInv'
<1> SUFFICES ASSUME ConsoleInv, [ConsoleNext]_consoleVars
             PROVE  ConsoleInv'
  OBVIOUS
<1>1. CASE UNCHANGED consoleVars
  BY <1>1 DEF consoleVars, ConsoleInv, RequestOK, SessionOK
<1>2. ASSUME NEW s \in Clerks, AskDecision(s)
      PROVE  ConsoleInv'
  <2>1. PICK r \in Requests, decision \in {"APPROVED", "DECLINED"} :
          /\ MayDecide(r)
          /\ sess' = [sess EXCEPT ![s] =
                [Idle EXCEPT !.at = "asked", !.job = decision, !.targets = {r},
                             !.view = reqs]]
    BY <1>2 DEF AskDecision
  <2>2. reqs[r].approvals = 0
    BY <2>1 DEF MayDecide, Waiting, ConsoleInv, RequestOK
  <2>3. SessionOK([Idle EXCEPT !.at = "asked", !.job = decision, !.targets = {r},
                               !.view = reqs])
    BY <2>2 DEF SessionOK, Idle, ConsoleInv
  <2> QED BY <1>2, <2>1, <2>3, ReadersKeep DEF AskDecision, Sessions, ghosts
<1>3. ASSUME NEW s \in Clerks, ReadCase(s)
      PROVE  ConsoleInv'
  <2>1. PICK r \in sess[s].targets :
          sess' = [sess EXCEPT ![s].at = "ready", ![s].view[r].case = reqs[r].case]
    BY <1>3 DEF ReadCase
  <2> DEFINE read == [sess[s].view EXCEPT ![r].case = reqs[r].case]
             x    == [sess[s] EXCEPT !.at = "ready", !.view = read]
  <2>2. s \in Sessions /\ SessionOK(sess[s]) /\ r \in Requests
    BY DEF ConsoleInv, Sessions, SessionOK
  <2>3. sess' = [sess EXCEPT ![s] = x]
    BY <2>1, <2>2 DEF ConsoleInv
  <2>4. SessionOK(x)
    <3>1. [sess[s].view[r] EXCEPT !.case = reqs[r].case] \in Request
      <4>1. sess[s].view[r] \in Request /\ reqs[r] \in Request
        BY <2>2 DEF SessionOK, ConsoleInv
      <4>2. reqs[r].case \in CaseStates
        BY <4>1 DEF Request, CaseStates
      <4> QED BY <4>1, <4>2, RowWith
    <3> QED BY <2>2, <3>1 DEF SessionOK, Request
  <2> QED BY <1>3, <2>2, <2>3, <2>4, ReadersKeep DEF ReadCase, ghosts
<1>4. ASSUME NEW s \in Clerks, AskTamper(s)
      PROVE  ConsoleInv'
  <2>1. PICK i : sess' = [sess EXCEPT ![s] =
                   [Idle EXCEPT !.at = "ready", !.job = "tamper", !.victim = i]]
    BY <1>4 DEF AskTamper
  <2>2. SessionOK([Idle EXCEPT !.at = "ready", !.job = "tamper", !.victim = i])
    BY IdleOK DEF SessionOK, Idle
  <2> QED BY <1>4, <2>1, <2>2, ReadersKeep DEF AskTamper, Sessions, ghosts
<1>5. ASSUME AskTick
      PROVE  ConsoleInv'
  <2>0. PICK stale \in SUBSET {r \in Requests : Waiting(r, reqs)} :
          \E last : sess' = [sess EXCEPT ![Agent] =
              [Idle EXCEPT !.at = "ready", !.job = "tick", !.targets = stale,
                           !.view = reqs, !.last = last]]
    BY <1>5 DEF AskTick
  <2>1. PICK last :
          sess' = [sess EXCEPT ![Agent] =
              [Idle EXCEPT !.at = "ready", !.job = "tick", !.targets = stale,
                           !.view = reqs, !.last = last]]
    BY <2>0
  <2>2. \A r \in stale : reqs[r].approvals = 0
    BY <2>1 DEF Waiting, ConsoleInv, RequestOK
  <2>3. SessionOK([Idle EXCEPT !.at = "ready", !.job = "tick", !.targets = stale,
                               !.view = reqs, !.last = last])
    BY <2>2 DEF SessionOK, Idle, ConsoleInv
  <2> QED BY <1>5, <2>1, <2>3, ReadersKeep DEF AskTick, Sessions, ghosts
<1>6. ASSUME NEW s \in Sessions, BeginWrite(s)
      PROVE  ConsoleInv'
  <2>1. SessionOK([sess[s] EXCEPT !.at = "writing"])
    BY DEF ConsoleInv, SessionOK
  <2> QED BY <1>6, <2>1, ReadersKeep DEF BeginWrite, ConsoleInv, ghosts
<1>7. ASSUME NEW s \in Sessions, LockTimeout(s) \/ RowsGone(s)
      PROVE  ConsoleInv'
  BY <1>7, IdleOK, ReadersKeep DEF LockTimeout, RowsGone, Finish, ghosts
<1>8. ASSUME NEW s \in Clerks, CommitDecline(s)
      PROVE  ConsoleInv'
  <2>1. PICK r \in sess[s].targets :
          /\ reqs' = [reqs EXCEPT ![r] = Declined(@, sess[s].view[r])]
          /\ overlapped' = overlapped \cup Overlaps(s, {r})
    BY <1>8 DEF CommitDecline
  <2>2. /\ s \in Sessions /\ r \in Requests /\ RequestOK(r)
        /\ reqs[r] \in Request /\ sess[s].view[r] \in Request
    BY DEF ConsoleInv, Sessions, SessionOK
  <2> DEFINE row == Declined(reqs[r], sess[s].view[r])
  <2>3. reqs' = [reqs EXCEPT ![r] = row]
    BY <2>1, <2>2 DEF ConsoleInv
  <2>4. overlapped' = overlapped \cup Overlaps(s, {r}) /\ Finish(s)
    BY <1>8, <2>1 DEF CommitDecline
  <2>5. /\ row \in Request /\ row.approvals = reqs[r].approvals + 1
        /\ row.status = "DECLINED" /\ row.hint = reqs[r].hint
    BY <2>2, RowTypes
  <2>6. reqs[r].approvals = 0 => reqs[r].hint # "waiting"
    BY <2>2 DEF RequestOK
  <2> HIDE DEF row
  <2> QED BY <2>2, <2>3, <2>4, <2>5, <2>6, DecisionKeeps
<1>9. ASSUME NEW s \in Clerks, CommitApprove(s)
      PROVE  ConsoleInv'
  <2>1. PICK r \in sess[s].targets, answer \in Answers :
          /\ reqs' = [reqs EXCEPT ![r] = Executed(@, sess[s].view[r], answer)]
          /\ overlapped' = overlapped \cup Overlaps(s, {r})
    BY <1>9 DEF CommitApprove
  <2>2. /\ s \in Sessions /\ r \in Requests
        /\ reqs[r] \in Request /\ sess[s].view[r] \in Request
    BY DEF ConsoleInv, Sessions, SessionOK
  <2> DEFINE row == Executed(reqs[r], sess[s].view[r], answer)
  <2>3. reqs' = [reqs EXCEPT ![r] = row]
    BY <2>1, <2>2 DEF ConsoleInv
  <2>4. overlapped' = overlapped \cup Overlaps(s, {r}) /\ Finish(s)
    BY <1>9, <2>1 DEF CommitApprove
  <2>5. /\ row \in Request /\ row.approvals = reqs[r].approvals + 1
        /\ row.status \in {"SUCCEEDED", "FAILED"}
        /\ row.hint = "waiting" => row.status = "SUCCEEDED"
    BY <2>2, RowTypes
  <2> HIDE DEF row
  <2> QED BY <2>2, <2>3, <2>4, <2>5, DecisionKeeps
<1>10. ASSUME NEW s \in Clerks, FailApprove(s)
       PROVE  ConsoleInv'
  BY <1>10, IdleOK, ReadersKeep DEF FailApprove, Finish, Sessions
<1>11. ASSUME NEW s \in Clerks, CommitTamper(s)
       PROVE  ConsoleInv'
  BY <1>11, IdleOK, ReadersKeep DEF CommitTamper, Finish, Sessions
<1>12. CASE CommitTick
  BY <1>12, TickKeeps
<1>13. CASE DropAll
  BY <1>13 DEF DropAll, ConsoleInv, RequestOK, SessionOK, Absent, Request
<1>14. CASE SeedRequest
  <2>1. PICK r \in Requests : reqs[r].status = "ABSENT" /\ reqs' = [reqs EXCEPT ![r] = Parked]
    BY <1>14 DEF SeedRequest
  <2>2. Parked \in Request /\ Parked.approvals = 0 /\ Parked.hint = "none"
    BY DEF Parked, Absent, Request
  <2> QED BY <1>14, <2>1, <2>2 DEF SeedRequest, ghosts, ConsoleInv, RequestOK, SessionOK
<1> QED BY <1>1, <1>2, <1>3, <1>4, <1>5, <1>6, <1>7, <1>8, <1>9, <1>10, <1>11,
           <1>12, <1>13, <1>14 DEF ConsoleNext

LEMMA ConsoleInvariant == WebSpec => []ConsoleInv
<1>1. WebInit => ConsoleInv
  BY ConsoleInitially DEF WebInit
<1>2. ConsoleInv /\ [WebNext]_webVars => ConsoleInv'
  BY ConsoleKept DEF WebNext, webVars, OutsideConsole
<1> QED BY <1>1, <1>2, PTL DEF WebSpec

\* For any number of sessions: a second decision of a request, or expected money
\* on one that was declined, takes a session that read it before the first
\* decision was committed.
THEOREM ConflictsAlwaysNeedOverlap == WebSpec => []ConflictsNeedOverlap
<1>1. ConsoleInv => ConflictsNeedOverlap
  BY DEF ConsoleInv, RequestOK, ConflictsNeedOverlap
<1> QED BY <1>1, ConsoleInvariant, PTL
=============================================================================
