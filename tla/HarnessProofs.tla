---------------------------- MODULE HarnessProofs ----------------------------
(***************************************************************************)
(* Proofs about Harness, for every value of its constants.                 *)
(*                                                                         *)
(* A wake-up is made of the handlers of CaseLifecycle, so its rows are as  *)
(* sound as theirs, whatever the clock does between two simulations.  The  *)
(* milestones are then a set of numbers bounded from both sides: it has a  *)
(* least element, and that is where the clock goes.                        *)
(***************************************************************************)
EXTENDS Harness, CaseLifecycleProofs

\* What a row needs is carried from one wake-up to the next, and cases not yet
\* simulated are not in the database.  Nothing is said of the times in a row,
\* which may lie ahead of a clock that was put back.
HarnessInv ==
    /\ now \in Nat
    /\ db \in [Cases -> Row]
    /\ \A c \in Cases : RowOK(c, db[c])
    /\ current \in (Cases \ todo) \cup {Nobody}
    /\ todo \subseteq Cases
    /\ \A c \in todo : db[c].state = "NONE"

-----------------------------------------------------------------------------
(* The events of a wake-up.                                                 *)

\* Whatever is due at a wake-up, in the order of the corpus, is one batch about the
\* case, which may be empty.
LEMMA DueBatchesAreBatches ==
    ASSUME NEW c \in Cases, NEW h, NEW batch \in DueBatches(c, h)
    PROVE  BatchOf(c, batch)
<1> DEFINE S == DueEvents(c, h)
           n == Cardinality(S)
<1>1. S \in SUBSET Events /\ \A e \in S : e \in Events /\ e.case = c
  BY DEF DueEvents
<1>2. n \in Nat
  BY <1>1, HarnessAssumption, FS_Subset, FS_CardinalityType
<1>3. batch \in [1 .. n -> S]
  BY DEF DueBatches, SetToSeqs
<1> HIDE DEF S, n
<1>4. Len(batch) = n
  BY <1>2, <1>3
<1> QED BY <1>1, <1>2, <1>3, <1>4 DEF BatchOf

-----------------------------------------------------------------------------
(* The rows of a wake-up.                                                   *)

\* A case is put into the database as the agent would have opened it.
LEMMA SeedSound ==
    ASSUME NEW c \in Cases
    PROVE  RowOK(c, SeedCase(c))
<1> DEFINE paid == SeededPaid[c]
           fails == SeededFails[c]
           pays == {e.pay : e \in {x \in Events : x.case = c /\ x.kind = "failure"}}
           invoice == [NoCase EXCEPT !.paid = paid, !.fails = fails, !.payments = pays]
           promising == [invoice EXCEPT !.promise = Promised[c]]
<1>1. /\ paid \in Nat /\ paid <= Amount[c] /\ Amount[c] \in Nat
      /\ fails \in Seq(Failures)
      /\ Promised[c] \in Nat \cup {NoTime} /\ Start[c] \in Nat
      /\ Promised[c] # NoTime => paid < Amount[c]
  <2>1. /\ SeededPaid \in [Cases -> Nat] /\ SeededFails \in [Cases -> Seq(Failures)]
        /\ Start \in [Cases -> Nat]
    BY HarnessAssumption
  <2>2. SeededPaid[c] <= Amount[c] /\ (Promised[c] # NoTime => SeededPaid[c] < Amount[c])
    BY HarnessAssumption
  <2>3. Amount[c] \in Nat /\ Promised[c] \in Nat \cup {NoTime}
    BY LifecycleAssumption
  <2> QED BY <2>1, <2>2, <2>3
<1>2. pays \in SUBSET PaymentIds
  BY DEF PaymentIds
<1>3. SeedCase(c) = IF Promised[c] = NoTime THEN invoice
                    ELSE OpenCase(c, promising, Start[c])
  BY Zenon DEF SeedCase
<1> HIDE DEF paid, fails, pays
<1>4. NoCase \in Row /\ Pending(NoCase) = {} /\ NoCase.state = "NONE"
      /\ NoCase.recovered = 0
  BY NoCaseType
<1>5. invoice \in Row
  BY <1>1, <1>2, <1>4, Zenon DEF Row
<1>6. /\ invoice.paid = paid /\ invoice.recovered = 0 /\ invoice.state = "NONE"
      /\ invoice.acts = NoCase.acts
  BY <1>4 DEF Row
<1> HIDE DEF invoice
<1>7. RowOK(c, invoice)
  BY <1>1, <1>4, <1>5, <1>6
     DEF RowOK, SoundBooks, SoundRequests, Pending, LiveStates
<1>8. promising \in Row
  BY <1>1, <1>5, Zenon DEF Row
<1>9. /\ promising.paid = paid /\ promising.recovered = 0 /\ promising.state = "NONE"
      /\ promising.acts = NoCase.acts
  BY <1>5, <1>6 DEF Row
<1> HIDE DEF promising
<1>10. RowOK(c, promising)
  BY <1>1, <1>4, <1>8, <1>9
     DEF RowOK, SoundBooks, SoundRequests, Pending, LiveStates
<1>11. CASE Promised[c] # NoTime
  <2>1. ~IsPaid(c, promising)
    BY <1>1, <1>9, <1>11 DEF IsPaid
  <2> QED BY <1>1, <1>3, <1>9, <1>10, <1>11, <2>1, OpenCaseStep DEF Step
<1> QED BY <1>3, <1>7, <1>11

LEMMA TickRowSound ==
    ASSUME NEW c \in Cases, NEW r, RowOK(c, r), NEW t \in Nat
    PROVE  \A x \in TickRow(c, r, t) : Step(c, r, x)
<1>1. ASSUME NEW m \in TickEarly(c, r, t), NEW x \in TickLate(c, m, t)
      PROVE  Step(c, r, x)
  <2>1. Step(c, r, m.row) /\ (m.due => m.row.state # "NONE")
    BY TickEarlyStep
  <2> QED BY <1>1, <2>1, TickLateStep
<1> QED BY <1>1, Zenon DEF TickRow

\* Sound rows, one for each case, reached by sound steps of the cases in the
\* database.
Reached(rows, x, seeded) ==
    /\ x \in [Cases -> Row]
    /\ \A c \in Cases : /\ Step(c, rows[c], x[c])
                        /\ c \notin seeded => x[c] = rows[c]

LEMMA TickAllSound ==
    ASSUME NEW rows, NEW mid, NEW seeded, Reached(rows, mid, seeded), NEW t \in Nat
    PROVE  \A x \in TickAll(mid, seeded, t) : Reached(rows, x, seeded)
<1> TAKE x \in TickAll(mid, seeded, t)
<1> DEFINE Rows(c) == IF c \in seeded THEN TickRow(c, mid[c], t) ELSE {mid[c]}
           results == [c \in Cases |-> Rows(c)]
<1>1. x \in OnePerCase(results)
  BY DEF TickAll
<1>2. x = [c \in Cases |-> x[c]] /\ \A c \in Cases : x[c] \in Rows(c)
  BY <1>1 DEF OnePerCase
<1>3. \A c \in Cases : Step(c, rows[c], x[c]) /\ (c \notin seeded => x[c] = rows[c])
  <2> TAKE c \in Cases
  <2>1. Step(c, rows[c], mid[c]) /\ (c \notin seeded => mid[c] = rows[c])
    BY DEF Reached
  <2>2. c \in seeded => Step(c, mid[c], x[c])
    BY <1>2, <2>1, TickRowSound DEF Step
  <2>3. c \notin seeded => x[c] = mid[c]
    BY <1>2
  <2> QED BY <2>1, <2>2, <2>3, StepTransitive
<1>4. \A c \in Cases : x[c] \in Row
  BY <1>3 DEF Step, RowOK
<1> QED BY <1>2, <1>3, <1>4 DEF Reached

LEMMA WakeSound ==
    ASSUME NEW c \in Cases, NEW rows \in [Cases -> Row],
           \A d \in Cases : RowOK(d, rows[d]),
           NEW seeded, c \in seeded, NEW t \in Nat
    PROVE  \A x \in WakeResults(c, rows, seeded, t) : Reached(rows, x, seeded)
<1> DEFINE batches  == DueBatches(c, t - Start[c])
           ingested == UNION {IngestRow(c, rows[c], batch, t) : batch \in batches}
<1>1. \A batch \in batches : BatchOf(c, batch)
  BY DueBatchesAreBatches
<1> HIDE DEF batches
<1>2. ASSUME NEW y \in ingested PROVE Reached(rows, [rows EXCEPT ![c] = y], seeded)
  <2>1. Step(c, rows[c], y)
    BY <1>1, <1>2, IngestRowStep
  <2>2. \A d \in Cases : Step(d, rows[d], rows[d])
    BY StepReflexive
  <2>3. y \in Row
    BY <2>1 DEF Step, RowOK
  <2> QED BY <2>1, <2>2, <2>3 DEF Reached
<1>3. \A x \in WakeResults(c, rows, seeded, t) : \E y \in ingested :
         x \in (IF y.err THEN {[rows EXCEPT ![c] = y]}
                ELSE TickAll([rows EXCEPT ![c] = y], seeded, t))
  BY Zenon DEF WakeResults, batches
<1> HIDE DEF ingested
<1> TAKE x \in WakeResults(c, rows, seeded, t)
<1>4. PICK y \in ingested : x \in (IF y.err THEN {[rows EXCEPT ![c] = y]}
                                 ELSE TickAll([rows EXCEPT ![c] = y], seeded, t))
  BY <1>3
<1> DEFINE mid == [rows EXCEPT ![c] = y]
<1>5. Reached(rows, mid, seeded)
  BY <1>2
<1>6. x = mid \/ x \in TickAll(mid, seeded, t)
  BY <1>4
<1> HIDE DEF mid
<1> QED BY <1>5, <1>6, TickAllSound

-----------------------------------------------------------------------------
(* The invariant.                                                           *)

LEMMA InitHarness == HarnessInit => HarnessInv
<1> SUFFICES ASSUME HarnessInit PROVE HarnessInv
  OBVIOUS
<1>1. \A c \in Cases : RowOK(c, NoCase)
  BY NoCaseType, LifecycleAssumption DEF RowOK, SoundBooks, SoundRequests, LiveStates
<1>2. db = [c \in Cases |-> NoCase]
  BY DEF HarnessInit
<1>3. db \in [Cases -> Row] /\ \A c \in Cases : RowOK(c, db[c])
  BY <1>1, <1>2, NoCaseType, Zenon
<1>4. \A c \in Cases : db[c].state = "NONE"
  BY <1>2, NoCaseType
<1> QED BY <1>3, <1>4 DEF HarnessInit, HarnessInv

\* What every step of the evaluation does to the cases in its database.
HarnessStep == \A c \in Cases : db[c].state # "NONE" => Onward(db[c], db'[c])

\* What a wake-up commits, if it commits.
LEMMA CommitHarness ==
    ASSUME NEW rows, NEW x, NEW seeded, Reached(rows, x, seeded), CommitOrRaise(x),
           db \in [Cases -> Row], \A c \in Cases : RowOK(c, db[c])
    PROVE  db' \in [Cases -> Row] /\ \A c \in Cases : RowOK(c, db'[c])
<1>1. db' = x \/ db' = db
  BY DEF CommitOrRaise
<1> QED BY <1>1 DEF Reached, Step

LEMMA ActTimes ==
    ASSUME NEW a \in Act
    PROVE  a.at \in Int /\ a.at >= -1 /\ a.hintAt \in Int /\ a.hintAt >= -1
<1>1. a.at \in Nat \cup {NoTime} /\ a.hintAt \in Nat \cup {NoTime}
  BY Zenon DEF Act
<1> QED BY <1>1 DEF NoTime

LEMMA MilestonesBounded ==
    ASSUME HarnessInv, Simulating
    PROVE  HorizonEnd \in Nat /\ Milestones \subseteq -1 .. HorizonEnd
<1>1. current \in Cases
  BY DEF HarnessInv, Simulating
<1>2. HorizonEnd \in Nat /\ Start[current] \in Nat
  BY <1>1, HarnessAssumption DEF HorizonEnd
<1>3. NoTime = -1 /\ Timeout \in Nat /\ \A e \in Events : Offset[e] \in Nat
  BY HarnessAssumption, LifecycleAssumption DEF NoTime
<1>4. \A c \in Cases : db[c].nextAt \in Nat \cup {NoTime}
                       /\ \A k \in Keys : db[c].acts[k] \in Act
  BY Zenon DEF HarnessInv, Row
<1>5. \A a \in Acts : a \in Act
  BY <1>4 DEF Acts, Seeded
<1>6. \A a \in Acts : a.at \in Int /\ a.at >= -1 /\ a.hintAt \in Int /\ a.hintAt >= -1
  BY <1>5, ActTimes
<1>7. \A t \in EventTimes \cup ScheduledTimes \cup HintTimes \cup TimeoutTimes :
         t \in Int /\ t >= -1
  <2>1. \A t \in EventTimes : t \in Int /\ t >= -1
    BY <1>2, <1>3 DEF EventTimes
  <2>2. \A t \in ScheduledTimes : t \in Int /\ t >= -1
    BY <1>3, <1>4 DEF ScheduledTimes, Seeded
  <2>3. \A t \in HintTimes : t \in Int /\ t >= -1
    BY <1>6 DEF HintTimes
  <2>4. \A t \in TimeoutTimes : t \in Int /\ t >= -1
    BY <1>3, <1>6 DEF TimeoutTimes
  <2> QED BY <2>1, <2>2, <2>3, <2>4
<1> QED BY <1>2, <1>7 DEF Milestones

\* The clock goes to a milestone, and none lies before it.
LEMMA NextIsLeast ==
    ASSUME HarnessInv, Simulating, Milestones # {}
    PROVE  /\ NextMilestone \in Milestones /\ NextMilestone \in Int
           /\ \A t \in Milestones : NextMilestone <= t
<1>1. HorizonEnd \in Nat /\ Milestones \in SUBSET (-1 .. HorizonEnd)
  BY MilestonesBounded
<1>2. \E t \in Milestones : \A u \in Milestones : t <= u
  BY <1>1, LeastOf
<1>3. NextMilestone \in Milestones /\ \A t \in Milestones : NextMilestone <= t
  BY <1>2 DEF NextMilestone
<1> QED BY <1>1, <1>3

\* A simulation starts: one more case is in the database.
LEMMA StartSound ==
    ASSUME HarnessInv, NEW c \in Cases, StartCase(c)
    PROVE  HarnessInv' /\ HarnessStep
<1> DEFINE rows == [db EXCEPT ![c] = SeedCase(c)]
           seeded == Cases \ todo'
<1>1. PICK x \in WakeResults(c, rows, seeded, Start[c]) : CommitOrRaise(x)
  BY DEF StartCase
<1>2. now' = Start[c] /\ current' = c /\ c \in todo /\ todo' = todo \ {c}
  BY DEF StartCase
<1>3. \A d \in Cases : RowOK(d, rows[d]) /\ (d # c => rows[d] = db[d])
  BY SeedSound DEF HarnessInv
<1>4. rows \in [Cases -> Row]
  BY SeedSound DEF HarnessInv, RowOK
<1>5. Start[c] \in Nat
  BY HarnessAssumption
<1>6. c \in seeded
  BY <1>2
<1> HIDE DEF rows, seeded
<1>7. Reached(rows, x, seeded)
  BY <1>1, <1>3, <1>4, <1>5, <1>6, WakeSound
<1>8. db' \in [Cases -> Row] /\ \A d \in Cases : RowOK(d, db'[d])
  BY <1>1, <1>7, CommitHarness DEF HarnessInv
<1>9. db' = x \/ db' = db
  BY <1>1 DEF CommitOrRaise
<1>10. \A d \in todo' : db'[d].state = "NONE"
  <2> TAKE d \in todo'
  <2>1. d \in todo /\ d # c /\ d \in Cases /\ d \notin seeded
    BY <1>2 DEF HarnessInv, seeded
  <2>2. db'[d] = db[d]
    BY <1>3, <1>7, <1>9, <2>1 DEF Reached
  <2> QED BY <2>1, <2>2 DEF HarnessInv
<1>11. HarnessStep
  <2> SUFFICES ASSUME NEW d \in Cases, db[d].state # "NONE"
               PROVE  Onward(db[d], db'[d])
    BY DEF HarnessStep
  <2>1. d # c
    BY <1>2 DEF HarnessInv
  <2>2. CASE db' = x
    BY <1>3, <1>7, <2>1, <2>2 DEF Reached, Step
  <2>3. CASE db' = db
    BY <2>3, StepReflexive DEF HarnessInv, Step
  <2> QED BY <1>9, <2>2, <2>3
<1>12. current' \in (Cases \ todo') \cup {Nobody} /\ todo' \subseteq Cases
  BY <1>2 DEF HarnessInv
<1> QED BY <1>2, <1>5, <1>8, <1>10, <1>11, <1>12 DEF HarnessInv

\* The clock goes on, or refuses to.
LEMMA WakeUpSound ==
    ASSUME HarnessInv, Wake
    PROVE  HarnessInv' /\ HarnessStep
<1>1. current' = current /\ todo' = todo
  BY DEF Wake
<1>2. CASE NextMilestone < now
  <2>1. now' = now /\ db' = db
    BY <1>2 DEF Wake
  <2> QED BY <1>1, <2>1, StepReflexive DEF HarnessInv, HarnessStep, Step
<1>3. CASE ~(NextMilestone < now)
  <2>1. NextMilestone \in Nat
    BY <1>3, NextIsLeast DEF Wake, HarnessInv
  <2>2. now' = NextMilestone
    BY <1>3 DEF Wake
  <2>3. PICK x \in WakeResults(current, db, Seeded, NextMilestone) : CommitOrRaise(x)
    BY <1>3 DEF Wake
  <2>4. current \in Cases /\ current \in Seeded
    BY DEF Wake, Simulating, HarnessInv, Seeded
  <2>5. Reached(db, x, Seeded)
    BY <2>1, <2>3, <2>4, WakeSound DEF HarnessInv
  <2>6. db' \in [Cases -> Row] /\ \A d \in Cases : RowOK(d, db'[d])
    BY <2>3, <2>5, CommitHarness DEF HarnessInv
  <2>7. db' = x \/ db' = db
    BY <2>3 DEF CommitOrRaise
  <2>8. \A d \in Cases : Onward(db[d], db'[d]) /\ (d \in todo => db'[d] = db[d])
    <3>1. CASE db' = x
      BY <2>5, <3>1 DEF Reached, Step, Seeded
    <3>2. CASE db' = db
      BY <3>2, StepReflexive DEF HarnessInv, Step
    <3> QED BY <2>7, <3>1, <3>2
  <2> QED BY <1>1, <2>1, <2>2, <2>6, <2>8 DEF HarnessInv, HarnessStep
<1> QED BY <1>2, <1>3

LEMMA NextHarness ==
    HarnessInv /\ [HarnessNext]_harnessVars => HarnessInv' /\ HarnessStep
<1> SUFFICES ASSUME HarnessInv, [HarnessNext]_harnessVars
             PROVE  HarnessInv' /\ HarnessStep
  OBVIOUS
<1>1. ASSUME db' = db, now' = now, todo' = todo, current' \in {current, Nobody}
      PROVE  HarnessInv' /\ HarnessStep
  BY <1>1, StepReflexive DEF HarnessInv, HarnessStep, Step
<1>2. CASE FinishCase
  BY <1>1, <1>2 DEF FinishCase, vars
<1>3. CASE UNCHANGED harnessVars
  BY <1>1, <1>3 DEF harnessVars, vars
<1> QED BY <1>2, <1>3, StartSound, WakeUpSound DEF HarnessNext

LEMMA HarnessInvariant == HarnessSpec => []HarnessInv
<1>1. HarnessInit => HarnessInv
  BY InitHarness
<1>2. HarnessInv /\ [HarnessNext]_harnessVars => HarnessInv'
  BY NextHarness
<1> QED BY <1>1, <1>2, PTL DEF HarnessSpec

-----------------------------------------------------------------------------
(* The theorems.                                                            *)

\* The books of the evaluation are sound although its simulations share one
\* database and put the clock back between two cases: no invoice is credited
\* beyond its amount, no settled one is dunned, and no case has two requests.
THEOREM HarnessKeepsBooks ==
    HarnessSpec => [](BooksBalance /\ NoDunningAfterPayment /\ SinglePendingAction)
<1>1. HarnessInv => BooksBalance /\ NoDunningAfterPayment /\ SinglePendingAction
  BY DEF HarnessInv, RowOK, SoundBooks, SoundRequests, BooksBalance,
         NoDunningAfterPayment, SinglePendingAction, Live
<1> QED BY <1>1, HarnessInvariant, PTL

\* Nor does a case that was closed come back to life when the clock is put back
\* for the next one and its ticks visit the whole database again (set_state).
THEOREM HarnessMovesAllowed == HarnessSpec => MovesAllowed
<1>1. ASSUME HarnessInv, [HarnessNext]_harnessVars, NEW c \in Cases,
             db[c].state # "NONE", db'[c].state # db[c].state
      PROVE  AllowedTransition(db[c].state, db'[c].state)
  <2>1. db[c].state \in States \cup {"NONE"} /\ db'[c].state \in States \cup {"NONE"}
    BY <1>1, NextHarness, Zenon DEF HarnessInv, Row
  <2>2. Onward(db[c], db'[c])
    BY <1>1, NextHarness DEF HarnessStep
  <2> QED BY <1>1, <2>1, <2>2
          DEF Onward, AllowedTransition, States, LiveStates, TerminalStates
<1>2. HarnessInv /\ [HarnessNext]_harnessVars =>
        \A c \in Cases :
            LET s == db[c].state
                u == db'[c].state
            IN  s # "NONE" /\ u # s => AllowedTransition(s, u)
  BY <1>1
<1> QED BY HarnessInvariant, <1>2, PTL DEF HarnessSpec, MovesAllowed

\* The driver never jumps over a time at which something was due, in any corpus:
\* a deadline it skipped would be a milestone before the least one.
THEOREM DriverAlwaysPunctual == HarnessSpec => PunctualDriver
<1> DEFINE Punctual ==
        Simulating /\ current' = current /\ now' # now =>
            LET skipped == now' - 1
            IN  /\ \A c \in Seeded : /\ Stale(db[c], skipped) = {}
                                     /\ DueHints(db[c], skipped) = {}
                                     /\ ~ScheduleArrived(db[c], skipped)
                /\ \A t \in EventTimes : t > skipped
<1>1. HarnessInv /\ [HarnessNext]_harnessVars => Punctual
  <2> SUFFICES ASSUME HarnessInv, [HarnessNext]_harnessVars,
                      Simulating, current' = current, now' # now
               PROVE  /\ \A c \in Seeded : /\ Stale(db[c], now' - 1) = {}
                                           /\ DueHints(db[c], now' - 1) = {}
                                           /\ ~ScheduleArrived(db[c], now' - 1)
                      /\ \A t \in EventTimes : t > now' - 1
    OBVIOUS
  <2> DEFINE m == NextMilestone
  <2>1. Milestones # {} /\ now' = m
    <3>1. Wake
      BY DEF HarnessNext, StartCase, FinishCase, Simulating, harnessVars, vars
    <3> QED BY <3>1 DEF Wake
  <2>2. m \in Int /\ m \in Milestones /\ \A t \in Milestones : m <= t
    BY <2>1, NextIsLeast
  <2>3. HorizonEnd \in Nat /\ m <= HorizonEnd
    BY <2>2, MilestonesBounded
  <2> HIDE DEF m
  <2>4. ASSUME NEW t \in EventTimes \cup ScheduledTimes \cup HintTimes \cup TimeoutTimes,
               t \in Int
        PROVE  ~(t <= m - 1)
    <3> SUFFICES ASSUME t <= m - 1 PROVE FALSE
      OBVIOUS
    <3>1. t <= HorizonEnd
      BY <2>2, <2>3, <2>4
    <3>2. t \in Milestones
      BY <3>1 DEF Milestones
    <3> QED BY <2>2, <2>4, <3>2
  <2>5. \A c \in Cases : db[c].nextAt \in Nat \cup {NoTime}
                         /\ \A k \in Keys : db[c].acts[k] \in Act
    BY Zenon DEF HarnessInv, Row
  <2>6. ASSUME NEW c \in Seeded, NEW k \in Keys
        PROVE  /\ db[c].acts[k] \in Acts
               /\ db[c].acts[k].at \in Int /\ db[c].acts[k].hintAt \in Int
    BY <2>5, ActTimes DEF Acts, Seeded
  <2>7. ASSUME NEW c \in Seeded PROVE Stale(db[c], m - 1) = {}
    <3> SUFFICES ASSUME NEW k \in Stale(db[c], m - 1) PROVE FALSE
      OBVIOUS
    <3> DEFINE a == db[c].acts[k]
    <3>1. k \in Keys /\ a.status = "PENDING_APPROVAL" /\ a.at <= m - 1 - Timeout
      BY DEF Stale, Pending
    <3>2. a \in Acts /\ a.at \in Int
      BY <2>6, <3>1
    <3>3. Timeout \in Nat
      BY LifecycleAssumption
    <3> HIDE DEF a
    <3>4. a.at + Timeout \in TimeoutTimes
      BY <3>1, <3>2 DEF TimeoutTimes
    <3>5. a.at + Timeout \in Int /\ a.at + Timeout <= m - 1
      BY <2>2, <3>1, <3>2, <3>3
    <3> QED BY <2>4, <3>4, <3>5
  <2>8. ASSUME NEW c \in Seeded PROVE DueHints(db[c], m - 1) = {}
    <3> SUFFICES ASSUME NEW k \in DueHints(db[c], m - 1) PROVE FALSE
      OBVIOUS
    <3> DEFINE a == db[c].acts[k]
    <3>1. k \in Keys /\ a.status = "SUCCEEDED" /\ a.hint = "waiting" /\ a.hintAt <= m - 1
      BY DEF DueHints
    <3>2. a \in Acts /\ a.hintAt \in Int
      BY <2>6, <3>1
    <3> HIDE DEF a
    <3>3. a.hintAt \in HintTimes
      BY <3>1, <3>2 DEF HintTimes
    <3> QED BY <2>4, <3>1, <3>2, <3>3
  <2>9. ASSUME NEW c \in Seeded PROVE ~ScheduleArrived(db[c], m - 1)
    <3> SUFFICES ASSUME ScheduleArrived(db[c], m - 1) PROVE FALSE
      OBVIOUS
    <3>1. db[c].nextAt \in ScheduledTimes /\ db[c].nextAt <= m - 1
      BY DEF ScheduleArrived, ScheduledTimes
    <3>2. db[c].nextAt \in Int
      BY <2>5 DEF NoTime, Seeded
    <3> QED BY <2>4, <3>1, <3>2
  <2>10. \A t \in EventTimes : t > m - 1
    <3> TAKE t \in EventTimes
    <3>1. t \in Int
      BY HarnessAssumption DEF EventTimes, HarnessInv, Simulating
    <3> QED BY <2>2, <2>4, <3>1
  <2> QED BY <2>1, <2>7, <2>8, <2>9, <2>10
<1>2. HarnessSpec => [][Punctual]_harnessVars
  BY <1>1, HarnessInvariant, PTL DEF HarnessSpec
<1> QED BY <1>2 DEF PunctualDriver

=============================================================================
