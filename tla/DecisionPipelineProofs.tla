----------------------- MODULE DecisionPipelineProofs -----------------------
(***************************************************************************)
(* Proofs about the decisions of the agent, for every LLM, every set of    *)
(* letters, and every value of the limits.  What the rules, the fusion and *)
(* the policy decide is a function of the facts: the lemmas are about that *)
(* function, and the theorems say of which facts it is asked.              *)
(***************************************************************************)
EXTENDS DecisionPipeline, SequenceTheorems, FiniteSetTheorems, TLAPS

\* The facts are well formed; nothing was executed in the future.
PipelineInv ==
    /\ now \in Nat
    /\ fails \in Seq(Failures)
    /\ lastAt \in [ActPlaybooks -> Nat \cup {NoTime}]
    /\ \A p \in ActPlaybooks : lastAt[p] <= now

-----------------------------------------------------------------------------
(* Diagnosis.                                                               *)

LEMMA CodeRulesType ==
    \A code \in ErrorCodes :
        CodeRules[code].cause \in Causes \ {"insufficient_context", "ptp_offered"}
BY DEF CodeRules, ErrorCodes, Rule, Causes

\* No rule of the classifier names an offered promise.
LEMMA ClassifyType ==
    ASSUME NEW e, e.fails \in Seq(Failures)
    PROVE  Classify(e).cause \in Causes \ {"ptp_offered"}
<1>1. HardSignal(e) => LatestFailure(e).cause \in Causes \ {"ptp_offered"}
  <2> SUFFICES ASSUME HardSignal(e)
               PROVE  LatestFailure(e).cause \in Causes \ {"ptp_offered"}
    OBVIOUS
  <2>1. e.fails # << >>
    BY DEF HardSignal
  <2>2. Len(e.fails) \in Nat \ {0}
    BY <2>1, EmptySeq
  <2>3. e.fails[1] \in Failures
    BY <2>2, ElementOfSeq
  <2>4. CodeRules[e.fails[1].code].cause \in Causes \ {"ptp_offered"}
    BY <2>3, CodeRulesType DEF Failures
  <2> QED BY <2>4 DEF LatestFailure, Rule
<1>2. InvoiceState(e).cause \in Causes \ {"ptp_offered"}
  BY DEF InvoiceState, Rule, Causes
<1> QED BY <1>1, <1>2 DEF Classify, Rule, Causes

\* Where the rules decide, the diagnosis is theirs.
LEMMA RulesDecide ==
    ASSUME NEW e, NEW o, Classify(e).cause # "insufficient_context",
           Classify(e).cause # "ptp_offered"
    PROVE  /\ DiagnoseCase(e, o).cause = Classify(e).cause
           /\ DiagnoseCase(e, o).promised = NoTime
<1> DEFINE f == Fuse(Classify(e), o)
<1>1. f.cause = Classify(e).cause /\ f.path # "llm"
  BY DEF Fuse, Diag
<1> HIDE DEF f
<1> QED BY <1>1 DEF DiagnoseCase, f

\* Where they abstain, a reading that is missing, weak or unknown abstains too.
LEMMA WeakReadingAbstains ==
    ASSUME NEW e, NEW o, Classify(e).cause = "insufficient_context",
           o = NoOpinion \/ o.conf < 50 \/ o.cause = "unknown"
    PROVE  DiagnoseCase(e, o).cause = "insufficient_context"
<1> DEFINE f == Fuse(Classify(e), o)
<1>1. f.cause = "insufficient_context" \/ (f.path = "llm" /\ f.flagged)
  BY DEF Fuse, Diag, ApprovalConfLow
<1> HIDE DEF f
<1> QED BY <1>1 DEF DiagnoseCase, f

\* And a reading of some confidence names the cause.
LEMMA FirmReadingDecides ==
    ASSUME NEW e, NEW o, Classify(e).cause = "insufficient_context",
           o # NoOpinion, o.cause # "unknown", o.conf \in Nat, ~(o.conf < 50)
    PROVE  DiagnoseCase(e, o).cause = o.cause
<1> DEFINE f == Fuse(Classify(e), o)
<1>1. f.cause = o.cause /\ ~f.flagged
  BY DEF Fuse, Diag, ApprovalConfLow
<1> HIDE DEF f
<1> QED BY <1>1 DEF DiagnoseCase, f

-----------------------------------------------------------------------------
(* Policy.                                                                  *)

\* Of the diagnosis, the plan depends on the cause and the date only.
LEMMA PlanReadsCauseAndDate ==
    ASSUME NEW e, NEW d, NEW x, d.cause = x.cause, d.promised = x.promised
    PROVE  PlanAction(e, d) = PlanAction(e, x)
BY Zenon DEF PlanAction

\* What has no playbook goes to a human, or is stopped.
LEMMA HumanCauses ==
    ASSUME NEW e, NEW d, d.cause \in {"insufficient_context", "unknown", "invoice_dispute"}
    PROVE  PlanAction(e, d).verdict \in {"BLOCKED", "ESCALATE"}
<1>1. CauseToPlaybook[d.cause] = "escalate_human"
  BY DEF CauseToPlaybook, Causes
<1> QED BY <1>1 DEF PlanAction, StopPlan, Blocked, ToHuman, Plan

LEMMA CorrectionPlan ==
    ASSUME NEW e, NEW d, d.cause = "documentation_issue"
    PROVE  \/ PlanAction(e, d).verdict \in {"BLOCKED", "ESCALATE"}
           \/ PlanAction(e, d).playbook = "documentation_fix"
<1>1. CauseToPlaybook[d.cause] = "documentation_fix"
  BY DEF CauseToPlaybook, Causes
<1> QED BY <1>1 DEF PlanAction, StopPlan, Blocked, ToHuman, Plan

-----------------------------------------------------------------------------
(* The facts.                                                               *)

LEMMA PipelineInvariant == Spec => []PipelineInv
<1>1. Init => PipelineInv
  BY EmptySeq DEF Init, PipelineInv, NoTime
<1>2. PipelineInv /\ [Next]_vars => PipelineInv'
  <2> SUFFICES ASSUME PipelineInv, [Next]_vars
               PROVE  PipelineInv'
    OBVIOUS
  <2> USE DEF PipelineInv, NoTime
  <2>1. CASE UNCHANGED vars
    BY <2>1 DEF vars
  <2>2. CASE PaymentFails
    <3>1. PICK code \in Codes, at \in 0 .. now :
            fails' = Filed(fails, [code |-> code, at |-> at])
      BY <2>2 DEF PaymentFails
    <3> DEFINE newer == {i \in DOMAIN fails : fails[i].at > at}
               n     == Cardinality(newer)
               fail  == [code |-> code, at |-> at]
    <3>2. n \in Nat /\ DOMAIN fails = 1 .. Len(fails) /\ Len(fails) \in Nat
      <4>1. DOMAIN fails = 1 .. Len(fails) /\ Len(fails) \in Nat
        BY LenProperties
      <4>2. IsFiniteSet(1 .. Len(fails)) /\ newer \in SUBSET (1 .. Len(fails))
        BY <4>1, FS_Interval
      <4>3. IsFiniteSet(newer)
        BY <4>2, FS_Subset, Zenon
      <4> QED BY <4>1, <4>3, FS_CardinalityType
    <3>3. n <= Len(fails)
      <4>1. IsFiniteSet(1 .. Len(fails)) /\ newer \in SUBSET (1 .. Len(fails))
        BY <3>2, FS_Interval
      <4>2. Cardinality(1 .. Len(fails)) = Len(fails)
        <5>1. 1 \in Int /\ Len(fails) \in Int
          BY <3>2
        <5>2. Cardinality(1 .. Len(fails)) =
                IF 1 > Len(fails) THEN 0 ELSE Len(fails) - 1 + 1
          BY <5>1, FS_Interval, Zenon
        <5> QED BY <3>2, <5>2
      <4>3. n <= Cardinality(1 .. Len(fails))
        BY <4>1, FS_Subset, Zenon
      <4> QED BY <4>2, <4>3
    <3>4. fail \in Failures
      BY PipelineAssumption DEF Failures
    <3> HIDE DEF fail, n
    <3>5. InsertAt(fails, n + 1, fail) \in Seq(Failures)
      <4> DEFINE before == SubSeq(fails, 1, n)
                 after  == SubSeq(fails, n + 1, Len(fails))
      <4>1. \A i \in 1 .. Len(fails) : fails[i] \in Failures
        BY ElementOfSeq
      <4>2. before \in Seq(Failures)
        BY <3>2, <3>3, <4>1, SubSeqProperties
      <4>3. after \in Seq(Failures)
        BY <3>2, <3>3, <4>1, SubSeqProperties
      <4>4. InsertAt(fails, n + 1, fail) = before \o <<fail>> \o after
        <5>1. (n + 1) - 1 = n
          BY <3>2
        <5> QED BY <5>1, Zenon DEF InsertAt
      <4> HIDE DEF before, after
      <4>5. <<fail>> \in Seq(Failures)
        BY <3>4
      <4>6. before \o <<fail>> \in Seq(Failures)
        BY <4>2, <4>5, ConcatProperties, Zenon
      <4> QED BY <4>3, <4>4, <4>6, ConcatProperties, Zenon
    <3>6. fails' \in Seq(Failures)
      BY <3>1, <3>5 DEF Filed, n, fail
    <3> QED BY <2>2, <3>6 DEF PaymentFails
  <2>3. CASE MessageArrives
    BY <2>3 DEF MessageArrives
  <2>4. CASE PartIsPaid
    BY <2>4 DEF PartIsPaid
  <2>5. CASE ActionExecutes
    <3>1. PICK p : lastAt' = [lastAt EXCEPT ![p] = now]
      BY <2>5, Zenon DEF ActionExecutes
    <3>2. now' = now /\ fails' = fails
      BY <2>5, Zenon DEF ActionExecutes
    <3>3. lastAt' \in [ActPlaybooks -> Nat \cup {NoTime}]
      BY <3>1
    <3>4. \A q \in ActPlaybooks : lastAt'[q] = now \/ lastAt'[q] = lastAt[q]
      BY <3>1
    <3> QED BY <3>2, <3>3, <3>4
  <2>6. CASE AdvanceClock
    BY <2>6 DEF AdvanceClock
  <2> QED BY <2>1, <2>2, <2>3, <2>4, <2>5, <2>6 DEF Next
<1> QED BY <1>1, <1>2, PTL DEF Spec

-----------------------------------------------------------------------------
(* The clock.                                                               *)

\* The next opening lies ahead, and is within the contact window if there is one.
LEMMA NextOpening ==
    ASSUME NEW t \in Nat
    PROVE  /\ NextContactWindow(t) \in Nat
           /\ NextContactWindow(t) > t
           /\ OpenHour < CloseHour => InContactWindow(NextContactWindow(t))
<1> DEFINE q == t \div DayLen
           x == NextContactWindow(t)
<1>1. DayLen \in Nat \ {0} /\ OpenHour \in 0 .. DayLen - 1 /\ CloseHour \in Nat
  BY DiagnosisAssumption, PolicyAssumption
<1>2. q \in Nat /\ Hour(t) \in 0 .. DayLen - 1 /\ t = DayLen * q + Hour(t)
  BY <1>1 DEF Hour
<1>3. x = DayLen * q + OpenHour \/ x = DayLen * (q + 1) + OpenHour
  <2>1. t - Hour(t) = DayLen * q
    BY <1>1, <1>2
  <2>2. DayLen * (q + 1) = DayLen * q + DayLen
    BY <1>1, <1>2
  <2> HIDE DEF q
  <2> QED BY <1>1, <1>2, <2>1, <2>2 DEF NextContactWindow
<1>4. x \in Nat /\ x > t
  <2>1. t - Hour(t) + OpenHour \in Nat
    BY <1>1, <1>2
  <2>2. t - Hour(t) + OpenHour + DayLen > t
    BY <1>1, <1>2
  <2> QED BY <1>1, <2>1, <2>2 DEF NextContactWindow
<1>5. \A k \in Nat : (DayLen * k + OpenHour) % DayLen = OpenHour
  BY <1>1
<1>6. Hour(x) = OpenHour
  BY <1>2, <1>3, <1>5 DEF Hour
<1>7. OpenHour < CloseHour => InContactWindow(x)
  BY <1>1, <1>6 DEF InContactWindow
<1> QED BY <1>4, <1>7

\* A deferral is for what the soft rules found, and says until when.
LEMMA DeferredPlan ==
    ASSUME NEW e, NEW d, d.cause \in Causes, PlanAction(e, d).verdict = "DEFERRED"
    PROVE  /\ PlanAction(e, d).playbook \in ActPlaybooks
           /\ Deferrable(e, PlanAction(e, d).playbook)
           /\ PlanAction(e, d).deferTo = DeferTo(e, PlanAction(e, d).playbook)
<1> DEFINE p == CauseToPlaybook[d.cause]
<1>1. p \in ActPlaybooks \cup {"escalate_human"}
  BY DEF CauseToPlaybook, Causes, ActPlaybooks
<1> HIDE DEF p
<1>2. /\ p # "escalate_human" /\ Deferrable(e, p)
      /\ PlanAction(e, d) = Plan("DEFERRED", p, "", "", DeferTo(e, p))
  BY DEF PlanAction, p, StopPlan, Blocked, ToHuman, Plan
<1>3. PlanAction(e, d).playbook = p /\ PlanAction(e, d).deferTo = DeferTo(e, p)
  <2>1. \A t : Plan("DEFERRED", p, "", "", t).playbook = p
               /\ Plan("DEFERRED", p, "", "", t).deferTo = t
    BY DEF Plan
  <2> QED BY <1>2, <2>1, Zenon
<1>4. p \in ActPlaybooks
  BY <1>1, <1>2
<1> QED BY <1>2, <1>3, <1>4, Zenon

\* Every diagnosis names a known cause.
LEMMA DiagnosisType ==
    ASSUME NEW e, e.fails \in Seq(Failures), NEW o, o = NoOpinion \/ ValidOpinion(o)
    PROVE  DiagnoseCase(e, o).cause \in Causes
<1> DEFINE f == Fuse(Classify(e), o)
<1>1. Classify(e).cause \in Causes /\ "insufficient_context" \in Causes
  BY ClassifyType DEF Causes
<1>2. f.cause \in Causes
  BY <1>1 DEF Fuse, Diag, ValidOpinion
<1> HIDE DEF f
<1> QED BY <1>1, <1>2 DEF DiagnoseCase, f

-----------------------------------------------------------------------------
(* The theorems.                                                            *)

\* Where persisted facts decide, whatever an LLM or a reader of the letters
\* says, the agent does nothing it would not do without it.
THEOREM FactsAlwaysOverrideOpinions == Spec => []FactsOverrideOpinions
<1>1. PipelineInv => FactsOverrideOpinions
  <2> SUFFICES ASSUME PipelineInv, Classify(Facts(now, {})).cause # "insufficient_context",
                      NEW o \in Answers
               PROVE  Decision(now, {}, o) = Decision(now, {}, NoOpinion)
    BY DEF FactsOverrideOpinions
  <2> DEFINE e == Facts(now, {})
  <2>1. e.fails \in Seq(Failures)
    BY DEF PipelineInv, Facts
  <2> HIDE DEF e
  <2>2. Classify(e).cause # "ptp_offered"
    BY <2>1, ClassifyType
  <2>3. Classify(e).cause # "insufficient_context"
    BY DEF e
  <2>4. /\ DiagnoseCase(e, o).cause = DiagnoseCase(e, NoOpinion).cause
        /\ DiagnoseCase(e, o).promised = DiagnoseCase(e, NoOpinion).promised
    BY <2>2, <2>3, RulesDecide
  <2> QED BY <2>4, PlanReadsCauseAndDate DEF Decision, e
<1> QED BY <1>1, PipelineInvariant, PTL

\* Where they do not, a weak reading, one that names no cause, and a dispute
\* never lead to an action.
THEOREM WeakReadingsAlwaysGoToHumans == Spec => []WeakReadingsGoToHumans
<1>1. WeakReadingsGoToHumans
  <2> SUFFICES ASSUME Classify(Facts(now, {})).cause = "insufficient_context",
                      NEW o \in Opinions,
                      o = NoOpinion \/ o.conf < 50 \/ o.cause \in {"unknown", "invoice_dispute"}
               PROVE  Decision(now, {}, o).verdict \in {"BLOCKED", "ESCALATE"}
    BY DEF WeakReadingsGoToHumans
  <2> DEFINE e == Facts(now, {})
             c == DiagnoseCase(e, o).cause
  <2>1. c \in {"insufficient_context", "unknown", "invoice_dispute"}
    <3>1. CASE o = NoOpinion \/ o.conf < 50 \/ o.cause = "unknown"
      BY <3>1, WeakReadingAbstains
    <3>2. CASE o # NoOpinion /\ ~(o.conf < 50) /\ o.cause = "invoice_dispute"
      <4>1. o.conf \in Nat
        <5>1. ValidOpinion(o)
          BY <3>2, PipelineAssumption
        <5>2. o.conf \in 0 .. 100
          BY <5>1 DEF ValidOpinion
        <5> QED BY <5>2
      <4> QED BY <3>2, <4>1, FirmReadingDecides
    <3> QED BY <3>1, <3>2
  <2> HIDE DEF e
  <2> QED BY <2>1, HumanCauses DEF Decision, e
<1> QED BY <1>1, PTL

\* Where the letters decide and one that is read disputes the invoice, nothing
\* is collected.
THEOREM DisputesNeverCollected == Spec => []DisputeNeverCollected
<1>1. DisputeNeverCollected
  <2> SUFFICES ASSUME Classify(Facts(now, {})).cause = "insufficient_context",
                      NEW l \in Written, "dispute" \in Said(l)
               PROVE  \/ Decision(now, {}, OfflineReading(l, now)).verdict
                            \in {"BLOCKED", "ESCALATE"}
                      \/ Decision(now, {}, OfflineReading(l, now)).playbook = "documentation_fix"
    BY DEF DisputeNeverCollected
  <2> DEFINE e == Facts(now, {})
             o == OfflineReading(l, now)
  <2>1. /\ o.cause \in {"documentation_issue", "invoice_dispute"}
        /\ o.conf \in Nat /\ ~(o.conf < 50)
    BY DEF OfflineReading, Reading
  <2>2. o # NoOpinion
    <3>1. NoOpinion.cause = "none"
      BY DEF NoOpinion
    <3> HIDE DEF o
    <3> QED BY <2>1, <3>1
  <2> HIDE DEF e, o
  <2>3. DiagnoseCase(e, o).cause = o.cause
    BY <2>1, <2>2, FirmReadingDecides DEF e
  <2>4. \/ PlanAction(e, DiagnoseCase(e, o)).verdict \in {"BLOCKED", "ESCALATE"}
        \/ PlanAction(e, DiagnoseCase(e, o)).playbook = "documentation_fix"
    BY <2>1, <2>3, HumanCauses, CorrectionPlan
  <2> QED BY <2>4 DEF Decision, e, o
<1> QED BY <1>1, PTL

\* If the contact window is not empty, what deferred a case is over when it
\* comes back.
THEOREM DeferralsOutlastTheirCause ==
    ASSUME OpenHour < CloseHour
    PROVE  Spec => []DeferralOutlastsItsCause
<1>1. PipelineInv => DeferralOutlastsItsCause
  <2> SUFFICES ASSUME PipelineInv, NEW o \in Opinions, NEW full \in SUBSET Budgets,
                      Decision(now, full, o).verdict = "DEFERRED"
               PROVE  LET plan == Decision(now, full, o)
                          p    == plan.playbook
                      IN  /\ plan.deferTo > now
                          /\ InCooldown(Facts(now, full), p) =>
                                 ~InCooldown(Facts(plan.deferTo, full), p)
                          /\ ~InCooldown(Facts(now, full), p) /\ ~InContactWindow(now) =>
                                 InContactWindow(plan.deferTo)
    BY DEF DeferralOutlastsItsCause
  <2> DEFINE e == Facts(now, full)
             d == DiagnoseCase(e, o)
             p == PlanAction(e, d).playbook
             t == PlanAction(e, d).deferTo
  <2>1. \A s : /\ Facts(s, full).now = s /\ Facts(s, full).lastAt = lastAt
               /\ Facts(s, full).fails = fails
    BY DEF Facts
  <2>2. d.cause \in Causes
    BY <2>1, DiagnosisType, PipelineAssumption DEF PipelineInv
  <2> HIDE DEF e, d
  <2>3. p \in ActPlaybooks /\ t = DeferTo(e, p)
    BY <2>2, DeferredPlan DEF Decision, e, d
  <2> HIDE DEF p, t
  <2>4. /\ now \in Nat /\ Cooldown[p] \in Nat \ {0}
        /\ lastAt[p] \in Nat \cup {NoTime} /\ lastAt[p] <= now
        /\ e.now = now /\ e.lastAt = lastAt
    BY <2>1, <2>3, PolicyAssumption DEF PipelineInv, e
  <2>5. CASE InCooldown(e, p)
    <3>1. t = now + Cooldown[p]
      BY <2>3, <2>4, <2>5 DEF DeferTo
    <3>2. ~InCooldown(Facts(t, full), p)
      BY <2>1, <2>4, <2>5, <3>1 DEF InCooldown, NoTime
    <3> QED BY <2>4, <2>5, <3>1, <3>2 DEF Decision, e, d, p, t
  <2>6. CASE ~InCooldown(e, p) /\ ~InContactWindow(now)
    <3>1. t = NextContactWindow(now)
      BY <2>3, <2>4, <2>6 DEF DeferTo
    <3>2. t > now /\ InContactWindow(t)
      BY <2>4, <3>1, NextOpening
    <3> QED BY <2>6, <3>2 DEF Decision, e, d, p, t
  <2>7. CASE ~InCooldown(e, p) /\ InContactWindow(now)
    <3>1. t = now + 1
      BY <2>3, <2>4, <2>7 DEF DeferTo
    <3>2. t > now
      BY <2>4, <3>1
    <3> QED BY <2>7, <3>2 DEF Decision, e, d, p, t
  <2> QED BY <2>5, <2>6, <2>7
<1> QED BY <1>1, PipelineInvariant, PTL
=============================================================================
