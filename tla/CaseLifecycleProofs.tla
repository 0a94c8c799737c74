------------------------ MODULE CaseLifecycleProofs ------------------------
(***************************************************************************)
(* Proofs about CaseLifecycle, for every value of its constants.           *)
(*                                                                         *)
(* A handler is a set of rows, so the argument is made row by row: RowOK   *)
(* is what every row of the database satisfies between any two steps of a  *)
(* handler, and Onward what a step may do to the state of a case.  Each    *)
(* operator on rows leads from a RowOK row to RowOK rows, onward.          *)
(***************************************************************************)
EXTENDS CaseLifecycle, FiniteSetTheorems, SequenceTheorems, WellFoundedInduction, TLAPS

SoundBooks(c, r) ==
    /\ r.recovered <= r.paid
    /\ r.paid <= Amount[c]
    /\ r.state = "RECOVERED" => r.paid = Amount[c]
    /\ r.state \in LiveStates => r.paid < Amount[c]

SoundRequests(r) ==
    /\ \A j, k \in Pending(r) : j = k
    /\ r.state \in {"NONE", "OPEN"} => Pending(r) = {}

RowOK(c, r) == r \in Row /\ SoundBooks(c, r) /\ SoundRequests(r)

\* Money is only ever added, and claimed while the case is live.
Credits(r, x) ==
    /\ r.paid \in Nat /\ r.recovered \in Nat
    /\ r.paid <= x.paid /\ r.recovered <= x.recovered
    /\ x.recovered + r.paid <= r.recovered + x.paid
    /\ Terminal(r) \/ x.state = "NONE" => x.recovered = r.recovered
    /\ Live(r) /\ Live(x) => x.recovered + r.paid = r.recovered + x.paid

Onward(r, x) ==
    /\ r.state \in TerminalStates => x.state \in TerminalStates
    /\ r.state # "NONE" => x.state # "NONE"
    /\ Credits(r, x)

Step(c, r, x) == RowOK(c, x) /\ Onward(r, x)

-----------------------------------------------------------------------------
(* The registry and the decision.                                           *)

LEMMA FirstElement ==
    ASSUME NEW S, NEW s \in Seq(S), s # << >>
    PROVE  s[1] \in S
<1>1. Len(s) \in Nat \ {0}
  BY EmptySeq
<1>2. 1 \in 1 .. Len(s)
  BY <1>1
<1> QED BY <1>2, ElementOfSeq

LEMMA RegistryTypes ==
    /\ CauseToPlaybook \in [Causes -> Playbooks]
    /\ MaxAttempts \in [ActPlaybooks -> 1 .. 3]
    /\ ExhaustReason \in [ActPlaybooks -> EscalationCodes]
BY DEF CauseToPlaybook, MaxAttempts, ExhaustReason, Causes, Playbooks, ActPlaybooks,
       EscalationCodes

\* classify names one of the known causes, whatever the facts.
LEMMA ClassifyType ==
    ASSUME NEW e, e.fails \in Seq(Failures)
    PROVE  Classify(e).cause \in Causes
<1>1. CodeRules \in [ErrorCodes -> [cause : Causes, conf : Nat]]
  BY DEF CodeRules, ErrorCodes, Rule, Causes
<1>2. CASE e.fails = << >>
  BY <1>2 DEF Classify, HardSignal, Rule, InvoiceState, Causes
<1>3. CASE e.fails # << >>
  <2>1. e.fails[1] \in Failures
    BY <1>3, FirstElement
  <2>2. LatestFailure(e).cause \in Causes
    BY <1>1, <2>1 DEF LatestFailure, Rule, Failures
  <2> QED BY <2>2 DEF Classify, Rule, InvoiceState, Causes
<1> QED BY <1>2, <1>3

LEMMA DiagnoseType ==
    ASSUME NEW e, e.fails \in Seq(Failures),
           NEW o, o = NoOpinion \/ ValidOpinion(o)
    PROVE  /\ DiagnoseCase(e, o).cause \in Causes
           /\ DiagnoseCase(e, o).promised \in Nat \cup {NoTime}
<1> DEFINE rule == Classify(e)
           f == Fuse(rule, o)
<1>1. rule.cause \in Causes
  BY ClassifyType
<1>2. o.promised \in Nat \cup {NoTime} /\ (o # NoOpinion => o.cause \in Causes)
  <2>1. CASE o = NoOpinion
    BY <2>1 DEF NoOpinion
  <2>2. CASE ValidOpinion(o)
    BY <2>2 DEF ValidOpinion
  <2> QED BY <2>1, <2>2
<1>3. f.cause \in Causes
  <2> HIDE DEF rule
  <2>1. "insufficient_context" \in Causes
    BY DEF Causes
  <2> QED BY <1>1, <1>2, <2>1 DEF Fuse, Diag
<1> HIDE DEF f
<1>4. "insufficient_context" \in Causes
  BY DEF Causes
<1> QED BY <1>2, <1>3, <1>4 DEF DiagnoseCase, f, NoTime

\* The first hit in the order of the rules is a hit.
LEMMA FirstOfIsHit ==
    ASSUME NEW a, NEW b, NEW c, NEW hits, hits # {}, hits \subseteq {a, b, c}
    PROVE  FirstOf(hits, <<a, b, c>>) \in hits
<1> DEFINE order == <<a, b, c>>
           First(i) == order[i] \in hits /\ \A j \in 1 .. i - 1 : order[j] \notin hits
<1>1. DOMAIN order = 1 .. 3 /\ order[1] = a /\ order[2] = b /\ order[3] = c
  OBVIOUS
<1> HIDE DEF order
<1>2. \E i \in DOMAIN order : First(i)
  <2>1. CASE a \in hits
    <3>1. First(1)
      BY <1>1, <2>1
    <3> QED BY <1>1, <3>1
  <2>2. CASE a \notin hits /\ b \in hits
    <3>1. First(2)
      BY <1>1, <2>2
    <3> QED BY <1>1, <3>1
  <2>3. CASE a \notin hits /\ b \notin hits
    <3>1. First(3)
      BY <1>1, <2>3
    <3> QED BY <1>1, <3>1
  <2> QED BY <2>1, <2>2, <2>3
<1>3. order[CHOOSE i \in DOMAIN order : First(i)] \in hits
  BY <1>2
<1> QED BY <1>3 DEF FirstOf, order

LEMMA DeferType ==
    ASSUME NEW e, e.now \in Nat, NEW p \in ActPlaybooks
    PROVE  DeferTo(e, p) \in Nat
<1>1. Cooldown[p] \in Nat
  BY PolicyAssumption
<1>2. e.now % DayLen \in 0 .. e.now
  BY DiagnosisAssumption
<1>3. NextContactWindow(e.now) \in Nat
  BY <1>2, DiagnosisAssumption, PolicyAssumption DEF NextContactWindow, Hour
<1> QED BY <1>1, <1>3 DEF DeferTo

\* What plan_action may return: a code and a stop state with every refusal, a
\* time with every deferral, and an action only within its attempts.
LEMMA PlanType ==
    ASSUME NEW e, e.now \in Nat, NEW d, d.cause \in Causes
    PROVE  LET plan == PlanAction(e, d) IN
           /\ plan.verdict \in Verdicts
           /\ plan.verdict \in {"BLOCKED", "ESCALATE"} =>
                  plan.stop \in TerminalStates /\ plan.code \in EscalationCodes
           /\ plan.verdict = "DEFERRED" => plan.deferTo \in Nat
           /\ plan.verdict \in {"APPROVED", "REQUIRES_APPROVAL"} =>
                  /\ plan.playbook \in ActPlaybooks
                  /\ ~AttemptsExhausted(e, plan.playbook)
<1> DEFINE p == CauseToPlaybook[d.cause]
           plan == PlanAction(e, d)
<1>1. p \in Playbooks
  BY RegistryTypes
<1>2. ComplianceHits(e) # {} => FirstOf(ComplianceHits(e), ComplianceOrder) \in EscalationCodes
  <2>1. ComplianceHits(e) \subseteq
          {"COMPLIANCE_BANKRUPTCY", "COMPLIANCE_DNC", "COMPLIANCE_AGE"}
    BY DEF ComplianceHits
  <2>2. ComplianceHits(e) # {} =>
          FirstOf(ComplianceHits(e), ComplianceOrder) \in ComplianceHits(e)
    BY <2>1, FirstOfIsHit DEF ComplianceOrder
  <2> QED BY <2>1, <2>2 DEF EscalationCodes
<1>3. FraudHits(e) # {} => FirstOf(FraudHits(e), FraudOrder) \in EscalationCodes
  <2>1. FraudHits(e) \subseteq
          {"FRAUD_AVS_MISMATCH", "FRAUD_SUSPICIOUS_ACTIVITY", "FRAUD_REPEATED_AUTH_FAILURES"}
    BY DEF FraudHits
  <2>2. FraudHits(e) # {} => FirstOf(FraudHits(e), FraudOrder) \in FraudHits(e)
    BY <2>1, FirstOfIsHit DEF FraudOrder
  <2> QED BY <2>1, <2>2 DEF EscalationCodes
<1>4. p \in ActPlaybooks => DeferTo(e, p) \in Nat /\ ExhaustReason[p] \in EscalationCodes
  BY DeferType, RegistryTypes
<1>5. {"LOW_CONFIDENCE", "INVOICE_DISPUTE"} \subseteq EscalationCodes
  BY DEF EscalationCodes
<1>6. {"STOPPED_COMPLIANCE", "STOPPED_FRAUD", "ESCALATED"} \subseteq TerminalStates
  BY DEF TerminalStates
<1> HIDE DEF p
<1>7. CASE ComplianceHits(e) # {} \/ FraudHits(e) # {}
  BY <1>2, <1>3, <1>6, <1>7 DEF PlanAction, HardStop, StopPlan, Blocked, Plan, Verdicts
<1>8. CASE ~(ComplianceHits(e) # {} \/ FraudHits(e) # {})
  <2>1. CASE p = "escalate_human" \/ (p = "promise_accept" /\ d.promised = NoTime)
    BY <1>5, <1>6, <1>8, <2>1 DEF PlanAction, HardStop, StopPlan, ToHuman, Plan, Verdicts, p
  <2>2. CASE ~(p = "escalate_human" \/ (p = "promise_accept" /\ d.promised = NoTime))
    <3>1. p \in ActPlaybooks
      BY <1>1, <2>2 DEF Playbooks
    <3> QED BY <1>4, <1>6, <1>8, <2>2, <3>1 DEF PlanAction, HardStop, StopPlan, ToHuman, Plan, Verdicts, p
  <2> QED BY <2>1, <2>2
<1> QED BY <1>7, <1>8

-----------------------------------------------------------------------------
(* Single changes of a row.                                                 *)

LEMMA AttemptsType ==
    ASSUME NEW r, NEW p
    PROVE  Attempts(r, p) \in Nat
<1> DEFINE done == {n \in 1 .. 3 : Done(r.acts[<<p, n>>])}
<1>1. IsFiniteSet(1 .. 3)
  <2>1. 1 \in Int /\ 3 \in Int
    OBVIOUS
  <2> QED BY <2>1, FS_Interval, Zenon
<1>2. IsFiniteSet(done)
  BY <1>1, FS_Subset
<1>3. Cardinality(done) \in Nat
  BY <1>2, FS_CardinalityType
<1> QED BY <1>3 DEF Attempts

LEMMA MarkerType ==
    ASSUME NEW r, NEW p \in ActPlaybooks, ~(Attempts(r, p) >= MaxAttempts[p])
    PROVE  <<p, Marker(r, p)>> \in Keys
<1>1. Attempts(r, p) \in Nat /\ MaxAttempts[p] \in 1 .. 3
  BY AttemptsType, RegistryTypes
<1>2. Marker(r, p) \in 1 .. 3
  BY <1>1 DEF Marker
<1> QED BY <1>2 DEF Keys

LEMMA SameCredits ==
    ASSUME NEW c, NEW r, RowOK(c, r), NEW x, x.paid = r.paid, x.recovered = r.recovered
    PROVE  Credits(r, x)
<1>1. r.paid \in Nat /\ r.recovered \in Nat
  BY Zenon DEF RowOK, Row
<1> QED BY <1>1 DEF Credits

\* A step that touches neither balance, nor state, nor requests.
LEMMA QuietStep ==
    ASSUME NEW c, NEW r, RowOK(c, r), NEW x \in Row,
           x.paid = r.paid, x.recovered = r.recovered, x.state = r.state,
           \A k \in Keys : x.acts[k].status = "PENDING_APPROVAL" =>
                           r.acts[k].status = "PENDING_APPROVAL"
    PROVE  Step(c, r, x)
<1>1. Pending(x) \subseteq Pending(r)
  BY DEF Pending
<1> QED BY <1>1, SameCredits DEF Step, RowOK, Onward, SoundBooks, SoundRequests

\* A step that only closes the case.
LEMMA CloseStep ==
    ASSUME NEW c, NEW r, RowOK(c, r), NEW s \in TerminalStates \ {"RECOVERED"},
           NEW x \in Row,
           x.paid = r.paid, x.recovered = r.recovered, x.state = s,
           \A k \in Keys : x.acts[k].status = "PENDING_APPROVAL" =>
                           r.acts[k].status = "PENDING_APPROVAL"
    PROVE  Step(c, r, x)
<1>1. Pending(x) \subseteq Pending(r)
  BY DEF Pending
<1> QED BY <1>1, SameCredits
       DEF Step, RowOK, Onward, SoundBooks, SoundRequests, TerminalStates, LiveStates

LEMMA StepTransitive ==
    ASSUME NEW c, NEW r, NEW x, NEW y, Step(c, r, x), Step(c, x, y)
    PROVE  Step(c, r, y)
<1>1. x.state \in LiveStates \cup TerminalStates \cup {"NONE"}
  <2>1. x.state \in States \cup {"NONE"}
    BY Zenon DEF Step, RowOK, Row
  <2> QED BY <2>1 DEF States
<1>2. /\ Terminal(r) => Terminal(x)
      /\ y.state = "NONE" => x.state = "NONE"
      /\ Live(r) /\ Live(y) => Live(x)
  BY <1>1 DEF Step, Onward, Live, Terminal, LiveStates, TerminalStates
<1>3. Credits(r, x) /\ Credits(x, y) /\ y.paid \in Nat /\ y.recovered \in Nat
  BY Zenon DEF Step, Onward, RowOK, Row
<1>4. Credits(r, y)
  BY <1>2, <1>3 DEF Credits
<1> QED BY <1>4 DEF Step, Onward

LEMMA StepReflexive ==
    ASSUME NEW c, NEW r, RowOK(c, r)
    PROVE  Step(c, r, r)
BY SameCredits DEF Step, Onward

LEMMA BalanceType ==
    ASSUME NEW c \in Cases, NEW r \in Row
    PROVE  /\ Amount[c] \in Nat \ {0} /\ r.paid \in Nat
           /\ Outstanding(c, r) \in Nat
BY LifecycleAssumption DEF Outstanding, MaxOf, Row

\* Money never overpays an invoice, and closes a live case it settles.
LEMMA ReceiveMoneyStep ==
    ASSUME NEW c \in Cases, NEW r, RowOK(c, r), NEW amount \in Nat
    PROVE  Step(c, r, ReceiveMoney(c, r, amount))
<1> DEFINE credit == MinOf(amount, Outstanding(c, r))
           paid   == [r EXCEPT !.paid = @ + credit]
           x      == ReceiveMoney(c, r, amount)
<1>1. r \in Row /\ SoundBooks(c, r) /\ SoundRequests(r)
  BY DEF RowOK
<1>2. /\ Amount[c] \in Nat \ {0} /\ r.paid \in Nat
      /\ Outstanding(c, r) = Amount[c] - r.paid
  BY <1>1, BalanceType DEF Outstanding, MaxOf, SoundBooks
<1>3. credit \in Nat /\ r.paid + credit <= Amount[c]
  BY <1>1, <1>2 DEF MinOf, SoundBooks
<1> HIDE DEF credit
<1>4. /\ paid \in Row /\ paid.paid = r.paid + credit /\ paid.state = r.state
      /\ paid.recovered = r.recovered /\ paid.acts = r.acts
  <2>1. r.paid + credit \in Nat
    BY <1>2, <1>3
  <2>2. paid \in Row
    BY <1>1, <2>1, Zenon DEF Row
  <2> QED BY <1>1, <2>2 DEF Row
<1> HIDE DEF paid
<1>5. CASE ~Live(r) \/ credit = 0
  <2>1. x = paid
    BY <1>5 DEF ReceiveMoney, credit, paid
  <2>2. SoundBooks(c, paid)
    BY <1>1, <1>2, <1>3, <1>4, <1>5 DEF SoundBooks, Live, LiveStates, Row
  <2>3. SoundRequests(paid)
    BY <1>1, <1>4 DEF SoundRequests, Pending
  <2>4. Credits(r, paid)
    BY <1>1, <1>2, <1>3, <1>4, <1>5 DEF Credits, Live, Row
  <2> QED BY <2>1, <2>2, <2>3, <2>4, <1>4 DEF Step, RowOK, Onward
<1>6. CASE ~(~Live(r) \/ credit = 0)
  <2>1. x = [paid EXCEPT !.recovered = @ + credit,
                         !.state = IF IsPaid(c, paid) THEN "RECOVERED" ELSE @]
    BY <1>6 DEF ReceiveMoney, credit, paid
  <2>2. /\ x \in Row /\ x.paid = r.paid + credit /\ x.acts = r.acts
        /\ x.recovered = r.recovered + credit
        /\ x.state = IF IsPaid(c, paid) THEN "RECOVERED" ELSE r.state
    <3>1. r.recovered + credit \in Nat /\ paid.recovered + credit \in Nat
      BY <1>1, <1>3, <1>4 DEF Row
    <3>2. "RECOVERED" \in States \cup {"NONE"}
      BY DEF States, TerminalStates
    <3>3. x \in Row
      BY <1>4, <2>1, <3>1, <3>2, Zenon DEF Row
    <3> QED BY <1>4, <2>1, <3>3 DEF Row
  <2>3. IsPaid(c, paid) <=> r.paid + credit = Amount[c]
    BY <1>2, <1>3, <1>4 DEF IsPaid
  <2>4. SoundBooks(c, x)
    BY <2>2, <2>3, <1>1, <1>2, <1>3 DEF SoundBooks, Row, LiveStates
  <2>5. SoundRequests(x)
    BY <2>2, <1>1 DEF SoundRequests, Pending
  <2>6. Credits(r, x)
    <3>1. r.paid \in Nat /\ r.recovered \in Nat
      BY <1>1, Zenon DEF Row
    <3>2. ~Terminal(r) /\ x.state # "NONE"
      BY <2>2, <1>6 DEF Live, Terminal, LiveStates, TerminalStates
    <3> QED BY <2>2, <3>1, <3>2, <1>3 DEF Credits
  <2>7. Onward(r, x)
    BY <2>2, <2>6, <1>6 DEF Onward, Live, LiveStates, TerminalStates
  <2> QED BY <2>2, <2>4, <2>5, <2>7 DEF Step, RowOK
<1> QED BY <1>5, <1>6

-----------------------------------------------------------------------------
(* Execution.                                                               *)

Times == Nat \cup {NoTime}

Answers == [ok : BOOLEAN, raised : BOOLEAN, delay : Times]

LEMMA AnswersType ==
    ASSUME NEW r, NEW p, NEW n
    PROVE  ProviderAnswers(r, p, n) \subseteq Answers
<1>1. \A ok, raised \in BOOLEAN, d \in Times : Answer(ok, raised, d) \in Answers
  BY DEF Answer, Answers
<1>2. HintDelays \cup {NoTime} \subseteq Times /\ 0 \in Times /\ NoTime \in Times
  BY LifecycleAssumption DEF Times
<1> QED BY <1>1, <1>2, Zenon DEF ProviderAnswers, RazorpayAnswers, SandboxAnswers

LEMMA SaturatingCount ==
    ASSUME NEW m \in Nat, NEW n \in 0 .. m
    PROVE  MinOf(n + 1, m) \in 0 .. m
BY DEF MinOf

LEMMA HintTimeType ==
    ASSUME NEW p, NEW promised \in Times, NEW t \in Nat, NEW d \in Nat
    PROVE  HintTime(p, promised, t, d) \in Nat
<1>1. MaxOf(t, promised) \in Nat
  BY DEF Times, MaxOf, NoTime
<1> QED BY <1>1 DEF HintTime

\* Whatever the provider answers, the act becomes a finished one.
LEMMA DispatchStep ==
    ASSUME NEW c \in Cases, NEW r, RowOK(c, r), NEW k \in Keys,
           NEW verdict \in {"", "APPROVED", "REQUIRES_APPROVAL"},
           NEW promised \in Times, NEW ans \in Answers, NEW t \in Nat
    PROVE  Step(c, r, Dispatch(c, r, k, verdict, promised, ans, t))
<1> DEFINE hinted == ans.delay # NoTime
           act == [status   |-> IF ans.ok THEN "SUCCEEDED" ELSE "FAILED",
                   verdict  |-> verdict,
                   at       |-> t,
                   promised |-> promised,
                   hint     |-> IF hinted THEN "waiting" ELSE "none",
                   hintAt   |-> IF hinted THEN HintTime(k[1], promised, t, ans.delay)
                                          ELSE NoTime,
                   hintAmt  |-> IF hinted THEN Outstanding(c, r) ELSE 0]
           called == IF NothingToRetry(r, k[1]) THEN r.calls[k]
                     ELSE MinOf(r.calls[k] + 1, MaxCalls)
           accept == k[1] = "promise_accept" /\ ~ans.raised /\ r.promise = NoTime
           date   == IF accept THEN promised ELSE r.promise
           x      == [r EXCEPT !.acts[k] = act, !.calls[k] = called, !.promise = date]
<1>1. r \in Row
  BY DEF RowOK
<1>2. act \in Act /\ act.status # "PENDING_APPROVAL"
  <2>1. hinted => HintTime(k[1], promised, t, ans.delay) \in Nat
    <3>1. ans.delay \in Times
      BY DEF Answers
    <3>2. hinted => ans.delay \in Nat
      BY <3>1 DEF Times
    <3> QED BY <3>2, HintTimeType
  <2>2. (IF hinted THEN HintTime(k[1], promised, t, ans.delay) ELSE NoTime) \in Times
    BY <2>1 DEF Times
  <2>3. (IF hinted THEN Outstanding(c, r) ELSE 0) \in Nat
    BY <1>1, BalanceType
  <2>4. t \in Times
    BY DEF Times
  <2> QED BY <2>2, <2>3, <2>4 DEF Act, Times
<1>3. called \in 0 .. MaxCalls
  <2>1. r.calls[k] \in 0 .. MaxCalls
    BY <1>1, Zenon DEF Row
  <2>2. MaxCalls \in Nat
    BY LifecycleAssumption
  <2>3. MinOf(r.calls[k] + 1, MaxCalls) \in 0 .. MaxCalls
    BY <2>1, <2>2, SaturatingCount
  <2> QED BY <2>1, <2>3
<1>4. date \in Times
  BY <1>1, Zenon DEF Row, Times
<1> HIDE DEF act, called, date
<1>5. [r.acts EXCEPT ![k] = act] \in [Keys -> Act]
      /\ [r.calls EXCEPT ![k] = called] \in [Keys -> 0 .. MaxCalls]
  <2>1. r.acts \in [Keys -> Act] /\ r.calls \in [Keys -> 0 .. MaxCalls]
    BY <1>1, Zenon DEF Row
  <2> QED BY <1>2, <1>3, <2>1
<1>6. /\ x \in Row /\ x.paid = r.paid /\ x.recovered = r.recovered /\ x.state = r.state
      /\ x.acts = [r.acts EXCEPT ![k] = act]
  <2>1. x \in Row
    BY <1>1, <1>4, <1>5, Zenon DEF Row, Times
  <2> QED BY <1>1, <2>1 DEF Row
<1>7. \A j \in Keys : x.acts[j].status = "PENDING_APPROVAL" =>
                      r.acts[j].status = "PENDING_APPROVAL"
  BY <1>1, <1>2, <1>6 DEF Row
<1>8. Step(c, r, x)
  BY <1>6, <1>7, QuietStep
<1>9. x = Dispatch(c, r, k, verdict, promised, ans, t)
  BY Zenon DEF x, date, called, act, Dispatch, HintAmount
<1> QED BY <1>8, <1>9

LEMMA SettleHintStep ==
    ASSUME NEW c \in Cases, NEW r, RowOK(c, r), NEW k \in Keys
    PROVE  Step(c, r, SettleHint(c, r, k))
<1> DEFINE act == [r.acts[k] EXCEPT !.hint = "applied"]
           x   == [r EXCEPT !.acts[k].hint = "applied"]
<1>1. r \in Row /\ r.acts \in [Keys -> Act] /\ r.acts[k] \in Act
  BY Zenon DEF RowOK, Row
<1>2. act \in Act /\ act.status = r.acts[k].status
  BY <1>1 DEF Act
<1>3. x = [r EXCEPT !.acts = [r.acts EXCEPT ![k] = act]]
  BY <1>1 DEF Row
<1> HIDE DEF act, x
<1>4. [r.acts EXCEPT ![k] = act] \in [Keys -> Act]
  BY <1>1, <1>2
<1>5. /\ x \in Row /\ x.paid = r.paid /\ x.recovered = r.recovered /\ x.state = r.state
      /\ x.acts = [r.acts EXCEPT ![k] = act]
  <2>1. x \in Row
    BY <1>1, <1>3, <1>4, Zenon DEF Row
  <2> QED BY <1>1, <1>3, <2>1 DEF Row
<1>6. \A j \in Keys : x.acts[j].status = "PENDING_APPROVAL" =>
                      r.acts[j].status = "PENDING_APPROVAL"
  BY <1>1, <1>2, <1>5
<1>7. Step(c, r, x)
  BY <1>5, <1>6, QuietStep
<1>8. r.acts[k].hintAmt \in Nat
  BY <1>1 DEF Act
<1>9. Step(c, x, ReceiveMoney(c, x, r.acts[k].hintAmt))
  BY <1>7, <1>8, ReceiveMoneyStep DEF Step
<1>10. SettleHint(c, r, k) = r \/ SettleHint(c, r, k) = ReceiveMoney(c, x, r.acts[k].hintAmt)
  BY DEF SettleHint, x
<1> QED BY <1>7, <1>9, <1>10, StepTransitive, StepReflexive

LEMMA EscalateStep ==
    ASSUME NEW c \in Cases, NEW r, RowOK(c, r), NEW code \in EscalationCodes,
           NEW s \in TerminalStates \ {"RECOVERED"}
    PROVE  Step(c, r, [SetState(r, s) EXCEPT !.escalations = @ \cup {code}])
<1> DEFINE x == [r EXCEPT !.state = s, !.escalations = r.escalations \cup {code}]
<1>1. r \in Row
  BY DEF RowOK
<1>2. [SetState(r, s) EXCEPT !.escalations = @ \cup {code}] = x
  BY <1>1 DEF SetState, Row
<1>3. s \in States \cup {"NONE"}
  BY DEF States
<1>4. x \in Row
  BY <1>1, <1>3, Zenon DEF Row
<1>5. x.paid = r.paid /\ x.recovered = r.recovered /\ x.state = s /\ x.acts = r.acts
  BY <1>1 DEF Row
<1> HIDE DEF x
<1>6. Step(c, r, x)
  BY <1>4, <1>5, CloseStep
<1> QED BY <1>2, <1>6

LEMMA ScheduleStep ==
    ASSUME NEW c \in Cases, NEW r, RowOK(c, r), NEW t \in Nat
    PROVE  Step(c, r, [r EXCEPT !.nextAt = t])
<1> DEFINE x == [r EXCEPT !.nextAt = t]
<1>1. r \in Row
  BY DEF RowOK
<1>2. x \in Row
  BY <1>1, Zenon DEF Row
<1>3. x.paid = r.paid /\ x.recovered = r.recovered /\ x.state = r.state /\ x.acts = r.acts
  BY <1>1 DEF Row
<1> HIDE DEF x
<1> QED BY <1>2, <1>3, QuietStep DEF x

LEMMA ObserveStep ==
    ASSUME NEW c \in Cases, NEW r, RowOK(c, r), NEW k \in Keys, NEW t \in Nat
    PROVE  Step(c, r, Observe(c, r, k, t))
<1>1. k[1] \in ActPlaybooks
  BY DEF Keys
<1>2. Cooldown[k[1]] \in Nat /\ ExhaustReason[k[1]] \in EscalationCodes
  BY <1>1, RegistryTypes, PolicyAssumption
<1>3. Step(c, r, [r EXCEPT !.nextAt = t + Cooldown[k[1]]])
  BY <1>2, ScheduleStep
<1>4. Step(c, r, Escalate(r, ExhaustReason[k[1]]))
  <2>1. "ESCALATED" \in TerminalStates \ {"RECOVERED"}
    BY DEF TerminalStates
  <2> QED BY <1>2, <2>1, EscalateStep DEF Escalate
<1>5. Step(c, r, SettleHint(c, r, k)) /\ Step(c, r, r)
  BY SettleHintStep, StepReflexive
<1> QED BY <1>3, <1>4, <1>5, Zenon DEF Observe

LEMMA DispatchedStep ==
    ASSUME NEW c \in Cases, NEW r, RowOK(c, r), NEW k \in Keys,
           NEW verdict \in {"", "APPROVED", "REQUIRES_APPROVAL"},
           NEW promised \in Times, NEW t \in Nat,
           NEW x \in Dispatched(c, r, k, verdict, promised, t)
    PROVE  Step(c, r, x) /\ Step(c, r, Observe(c, x, k, t))
<1>1. PICK ans \in ProviderAnswers(r, k[1], k[2]) :
               x = Dispatch(c, r, k, verdict, promised, ans, t)
  BY DEF Dispatched
<1>2. ans \in Answers
  BY AnswersType
<1>3. Step(c, r, x)
  BY <1>1, <1>2, DispatchStep
<1>4. Step(c, x, Observe(c, x, k, t))
  BY <1>3, ObserveStep DEF Step
<1> QED BY <1>3, <1>4, StepTransitive

LEMMA ExecuteStep ==
    ASSUME NEW c \in Cases, NEW r, RowOK(c, r), NEW p \in ActPlaybooks,
           ~(Attempts(r, p) >= MaxAttempts[p]),
           NEW promised \in Times, NEW t \in Nat
    PROVE  \A x \in Execute(c, r, p, promised, t) : Step(c, r, x)
<1> DEFINE k == <<p, Marker(r, p)>>
<1>1. k \in Keys
  BY MarkerType
<1> HIDE DEF k
<1>2. Step(c, r, Observe(c, r, k, t))
  BY <1>1, ObserveStep
<1>3. \A x \in Dispatched(c, r, k, "APPROVED", promised, t) :
          Step(c, r, Observe(c, x, k, t))
  BY <1>1, DispatchedStep
<1> QED BY <1>2, <1>3, Zenon DEF Execute, k

LEMMA ParkStep ==
    ASSUME NEW c \in Cases, NEW r, RowOK(c, r), Live(r), NEW p \in ActPlaybooks,
           ~(Attempts(r, p) >= MaxAttempts[p]),
           NEW promised \in Times, NEW t \in Nat
    PROVE  Step(c, r, Park(r, p, promised, t))
<1> DEFINE k == <<p, Marker(r, p)>>
           cancelled == [j \in Keys |-> IF j \in Pending(r)
                                        THEN [r.acts[j] EXCEPT !.status = "CANCELLED"]
                                        ELSE r.acts[j]]
           request == [NoAct EXCEPT !.status = "PENDING_APPROVAL", !.at = t,
                                    !.verdict = "REQUIRES_APPROVAL",
                                    !.promised = promised]
           raised == [r EXCEPT !.err = TRUE]
           parked == [r EXCEPT !.acts = [cancelled EXCEPT ![k] = request],
                               !.state = "PENDING_APPROVAL", !.nextAt = NoTime]
<1>1. k \in Keys
  BY MarkerType
<1>2. r \in Row /\ r.acts \in [Keys -> Act]
  BY Zenon DEF RowOK, Row
<1>3. request \in Act
  BY DEF NoAct, Act, Times
<1>4. cancelled \in [Keys -> Act] /\ \A j \in Keys : cancelled[j].status # "PENDING_APPROVAL"
  <2>1. \A j \in Keys : [r.acts[j] EXCEPT !.status = "CANCELLED"] \in Act
                        /\ [r.acts[j] EXCEPT !.status = "CANCELLED"].status = "CANCELLED"
    <3>1. \A a \in Act : [a EXCEPT !.status = "CANCELLED"] \in Act
                         /\ [a EXCEPT !.status = "CANCELLED"].status = "CANCELLED"
      BY DEF Act
    <3> QED BY <1>2, <3>1
  <2> QED BY <1>2, <2>1 DEF Pending
<1> HIDE DEF k, request, cancelled
<1>5. Step(c, r, raised)
  <2>1. raised \in Row
    BY <1>2, Zenon DEF Row
  <2>2. /\ raised.paid = r.paid /\ raised.recovered = r.recovered
        /\ raised.state = r.state /\ raised.acts = r.acts
    BY <1>2 DEF Row
  <2> HIDE DEF raised
  <2> QED BY <2>1, <2>2, QuietStep
<1>6. Step(c, r, parked)
  <2>1. [cancelled EXCEPT ![k] = request] \in [Keys -> Act]
    BY <1>1, <1>3, <1>4
  <2>2. "PENDING_APPROVAL" \in States \cup {"NONE"} /\ NoTime \in Nat \cup {NoTime}
    BY DEF States, LiveStates
  <2>3. parked \in Row
    BY <1>2, <2>1, <2>2, Zenon DEF Row
  <2>4. /\ parked.paid = r.paid /\ parked.recovered = r.recovered
        /\ parked.state = "PENDING_APPROVAL"
        /\ parked.acts = [cancelled EXCEPT ![k] = request]
    BY <1>2 DEF Row
  <2> HIDE DEF parked
  <2>5. Pending(parked) \subseteq {k}
    BY <1>1, <1>4, <2>4 DEF Pending
  <2>6. SoundRequests(parked)
    BY <2>4, <2>5 DEF SoundRequests
  <2>7. SoundBooks(c, parked)
    BY <2>4 DEF RowOK, SoundBooks, Live
  <2>8. Onward(r, parked)
    BY <2>4, SameCredits DEF Onward, Live, LiveStates, TerminalStates
  <2> QED BY <2>3, <2>6, <2>7, <2>8 DEF Step, RowOK
<1>7. Park(r, p, promised, t) \in {raised, parked}
  BY Zenon DEF Park, k, cancelled, request
<1> QED BY <1>5, <1>6, <1>7

-----------------------------------------------------------------------------
(* Handlers, case by case.                                                  *)

\* Any plan the engine may make for the case is carried out soundly.
LEMMA DiagnoseAndActStep ==
    ASSUME NEW c \in Cases, NEW r, RowOK(c, r), Live(r), NEW t \in Nat
    PROVE  \A x \in DiagnoseAndAct(c, r, t) : Step(c, r, x)
<1> SUFFICES ASSUME NEW pl \in Planned(c, r, t),
                    NEW x \in Enforce(c, r, pl.plan, pl.promised, t)
             PROVE  Step(c, r, x)
  BY Zenon DEF DiagnoseAndAct
<1>1. PICK full \in BudgetAnswers, o \in LlmAnswers :
        /\ pl.plan = PlanAction(Evidence(c, r, t, full),
                                DiagnoseCase(Evidence(c, r, t, full), o))
        /\ pl.promised = DiagnoseCase(Evidence(c, r, t, full), o).promised
  BY DEF Planned, Diagnosed
<1> DEFINE e == Evidence(c, r, t, full)
           d == DiagnoseCase(e, o)
<1>2. /\ e.now = t /\ e.fails = r.fails
      /\ \A p \in ActPlaybooks : e.attempts[p] = Attempts(r, p)
  BY DEF Evidence
<1>3. e.fails \in Seq(Failures)
  BY <1>2, Zenon DEF RowOK, Row
<1> HIDE DEF e
<1>4. o = NoOpinion \/ ValidOpinion(o)
  BY LifecycleAssumption
<1>5. d.cause \in Causes /\ d.promised \in Times
  BY <1>3, <1>4, DiagnoseType DEF Times
<1> HIDE DEF d
<1> DEFINE plan == PlanAction(e, d)
<1>6. pl.plan = plan /\ pl.promised = d.promised
  BY <1>1 DEF e, d
<1>7. /\ plan.verdict \in Verdicts
      /\ plan.verdict \in {"BLOCKED", "ESCALATE"} =>
             plan.stop \in TerminalStates /\ plan.code \in EscalationCodes
      /\ plan.verdict = "DEFERRED" => plan.deferTo \in Nat
      /\ plan.verdict \in {"APPROVED", "REQUIRES_APPROVAL"} =>
             /\ plan.playbook \in ActPlaybooks
             /\ ~AttemptsExhausted(e, plan.playbook)
  BY <1>2, <1>5, PlanType
<1>8. plan.stop # "RECOVERED"
  BY DEF PlanAction, HardStop, StopPlan, Blocked, ToHuman, Plan
<1> HIDE DEF plan
<1>9. x \in Enforce(c, r, plan, d.promised, t)
  BY <1>6
<1>10. CASE plan.verdict \in {"BLOCKED", "ESCALATE"}
  <2>1. x = [SetState(r, plan.stop) EXCEPT !.escalations = @ \cup {plan.code}]
    BY <1>9, <1>10 DEF Enforce
  <2> QED BY <2>1, <1>7, <1>8, <1>10, EscalateStep
<1>11. CASE plan.verdict = "DEFERRED"
  <2>1. x = [r EXCEPT !.nextAt = plan.deferTo]
    BY <1>9, <1>11 DEF Enforce
  <2> QED BY <2>1, <1>7, <1>11, ScheduleStep
<1>12. CASE plan.verdict \in {"APPROVED", "REQUIRES_APPROVAL"}
  <2>1. plan.playbook \in ActPlaybooks
        /\ ~(Attempts(r, plan.playbook) >= MaxAttempts[plan.playbook])
    BY <1>2, <1>7, <1>12 DEF AttemptsExhausted
  <2>2. x = Park(r, plan.playbook, d.promised, t)
        \/ x \in Execute(c, r, plan.playbook, d.promised, t)
    BY <1>9, <1>12 DEF Enforce
  <2> QED BY <2>1, <2>2, <1>5, ParkStep, ExecuteStep
<1> QED BY <1>7, <1>10, <1>11, <1>12 DEF Verdicts

\* step_case: a live case is never about a settled invoice, so what is left is
\* to wait for a promise, to watch, or to decide and act.
LEMMA StepCaseStep ==
    ASSUME NEW c \in Cases, NEW r, RowOK(c, r), r.state # "NONE", NEW t \in Nat
    PROVE  \A x \in StepCase(c, r, t) : Step(c, r, x)
<1> DEFINE deferred == [r EXCEPT !.nextAt = r.promise + DayLen]
<1>1. r \in Row
  BY DEF RowOK
<1>2. Step(c, r, r)
  BY StepReflexive
<1>3. CASE Terminal(r)
  BY <1>2, <1>3 DEF StepCase, AwaitsPromise
<1>4. CASE ~Terminal(r)
  <2>1. Live(r)
    BY <1>1, <1>4 DEF Row, States, Live, Terminal
  <2>2. ~IsPaid(c, r)
    BY <1>1, <2>1, BalanceType DEF RowOK, SoundBooks, Live, IsPaid
  <2>3. CASE r.promise # NoTime /\ r.promise > t
    <3>1. r.promise \in Times
      BY <1>1, Zenon DEF Row, Times
    <3>2. r.promise + DayLen \in Nat
      BY <2>3, <3>1, DiagnosisAssumption DEF Times
    <3>3. Step(c, r, deferred)
      BY <3>2, ScheduleStep
    <3> HIDE DEF deferred
    <3>4. \A x \in StepCase(c, r, t) : x = deferred
      BY <1>4, <2>2, <2>3 DEF StepCase, AwaitsPromise, deferred
    <3> QED BY <3>3, <3>4
  <2>4. CASE ~(r.promise # NoTime /\ r.promise > t)
    <3>1. \A x \in StepCase(c, r, t) : x = r \/ x \in DiagnoseAndAct(c, r, t)
      BY <1>4, <2>2, <2>4 DEF StepCase, AwaitsPromise
    <3> QED BY <1>2, <2>1, <3>1, DiagnoseAndActStep
  <2> QED BY <2>3, <2>4
<1> QED BY <1>3, <1>4

LEMMA RiskType ==
    ASSUME NEW c \in Cases, NEW r \in Row, NEW t \in Nat
    PROVE  RiskScore(c, r, t) \in Nat
<1> DEFINE first == CodeRules[r.fails[1].code]
           fail  == IF r.fails = << >> THEN 0
                    ELSE 200 + (IF first.cause \in {"technical_failure",
                                                    "insufficient_funds", "auth_failure"}
                                THEN first.conf \div 2 ELSE 0)
           days  == MinOf(250, DayWeight * DaysOverdue(c, t))
<1>1. fail \in Nat
  <2>1. CASE r.fails = << >>
    BY <2>1
  <2>2. CASE r.fails # << >>
    <3>1. r.fails \in Seq(Failures)
      BY Zenon DEF Row
    <3>2. r.fails[1] \in Failures
      BY <2>2, <3>1, FirstElement
    <3>3. CodeRules \in [ErrorCodes -> [cause : Causes, conf : Nat]]
      BY DEF CodeRules, ErrorCodes, Rule, Causes
    <3>4. first.conf \in Nat
      BY <3>2, <3>3 DEF Failures
    <3> HIDE DEF first
    <3> QED BY <2>2, <3>4
  <2> QED BY <2>1, <2>2
<1>2. days \in Nat
  <2>1. DaysOverdue(c, t) \in Nat
    <3>1. t \div DayLen \in Int /\ Due[c] \div DayLen \in Int
      BY DiagnosisAssumption, LifecycleAssumption
    <3> QED BY <3>1 DEF DaysOverdue, MaxOf
  <2>2. DayWeight * DaysOverdue(c, t) \in Nat
    BY <2>1, LifecycleAssumption
  <2> QED BY <2>2 DEF MinOf
<1>3. BaseRisk[c] \in Nat
  BY LifecycleAssumption
<1>4. RiskScore(c, r, t) = MinOf(1000, BaseRisk[c] + fail + days)
  BY Zenon DEF RiskScore
<1> HIDE DEF fail, days
<1> QED BY <1>1, <1>2, <1>3, <1>4 DEF MinOf

LEMMA OpenCaseStep ==
    ASSUME NEW c \in Cases, NEW r, RowOK(c, r), r.state = "NONE", ~IsPaid(c, r),
           NEW t \in Nat
    PROVE  Step(c, r, OpenCase(c, r, t)) /\ OpenCase(c, r, t).state = "OPEN"
<1> DEFINE x == OpenCase(c, r, t)
<1>1. r \in Row
  BY DEF RowOK
<1>2. RiskScore(c, r, t) \in Nat /\ "OPEN" \in States \cup {"NONE"}
  BY <1>1, RiskType DEF States, LiveStates
<1>3. x \in Row
  BY <1>1, <1>2, Zenon DEF Row, OpenCase
<1>4. x.paid = r.paid /\ x.recovered = r.recovered /\ x.state = "OPEN" /\ x.acts = r.acts
  BY <1>1 DEF Row, OpenCase
<1> HIDE DEF x
<1>5. SoundBooks(c, x)
  BY <1>1, <1>4, BalanceType DEF RowOK, SoundBooks, IsPaid
<1>6. SoundRequests(x)
  BY <1>4 DEF RowOK, SoundRequests, Pending
<1>7. Onward(r, x)
  BY <1>4, SameCredits DEF Onward, TerminalStates
<1> QED BY <1>3, <1>4, <1>5, <1>6, <1>7 DEF Step, RowOK, x

\* A failure goes in between the newer and the older ones, which stay as they
\* are.
LEMMA FiledEntries ==
    ASSUME NEW fails \in Seq(Failures), NEW f \in Failures
    PROVE  /\ Filed(fails, f) \in Seq(Failures)
           /\ Len(fails) \in Nat /\ Len(Filed(fails, f)) = Len(fails) + 1
           /\ \E n \in 0 .. Len(fails) : \A i \in 1 .. Len(fails) + 1 :
                Filed(fails, f)[i] = IF i <= n THEN fails[i]
                                     ELSE IF i = n + 1 THEN f ELSE fails[i - 1]
<1> DEFINE newer == {i \in DOMAIN fails : fails[i].at > f.at}
           n     == Cardinality(newer)
           len   == Len(fails)
           front == SubSeq(fails, 1, n)
           back  == SubSeq(fails, n + 1, len)
<1>1. DOMAIN fails = 1 .. len /\ len \in Nat /\ \A i \in 1 .. len : fails[i] \in Failures
  BY LenProperties, ElementOfSeq
<1>2. n \in 0 .. len
  <2>1. IsFiniteSet(1 .. len) /\ newer \in SUBSET (1 .. len)
    BY <1>1, FS_Interval
  <2>2. Cardinality(1 .. len) = len
    <3>1. Cardinality(1 .. len) = IF 1 > len THEN 0 ELSE len - 1 + 1
      BY <1>1, FS_Interval
    <3> QED BY <1>1, <3>1
  <2>3. IsFiniteSet(newer) /\ n <= Cardinality(1 .. len)
    BY <2>1, FS_Subset, Zenon
  <2>4. n \in Nat
    BY <2>3, FS_CardinalityType
  <2> QED BY <2>2, <2>3, <2>4
<1>3. Filed(fails, f) = front \o <<f>> \o back
  <2>1. (n + 1) - 1 = n
    BY <1>2
  <2> QED BY <2>1, Zenon DEF Filed, InsertAt
<1> HIDE DEF n, front, back
<1>4. /\ front \in Seq(Failures) /\ Len(front) = n
      /\ \A i \in 1 .. n : front[i] = fails[i]
  <2>1. \A i \in 1 .. n : fails[i] \in Failures /\ 1 + i - 1 = i
    BY <1>1, <1>2
  <2>2. 1 \in Int /\ n \in Int /\ n - 1 + 1 = n /\ (1 > n => n = 0)
    BY <1>2
  <2>3. /\ SubSeq(fails, 1, n) \in Seq(Failures)
        /\ Len(SubSeq(fails, 1, n)) = IF 1 <= n THEN n - 1 + 1 ELSE 0
        /\ \A i \in 1 .. n - 1 + 1 : SubSeq(fails, 1, n)[i] = fails[1 + i - 1]
    BY <2>1, <2>2, SubSeqProperties
  <2> QED BY <2>1, <2>2, <2>3 DEF front
<1>5. /\ back \in Seq(Failures) /\ Len(back) = len - n
      /\ \A i \in 1 .. len - n : back[i] = fails[n + i]
  <2>1. \A i \in n + 1 .. len : fails[i] \in Failures
    BY <1>1, <1>2
  <2>2. n + 1 \in Int /\ len \in Int /\ len - (n + 1) + 1 = len - n
    BY <1>1, <1>2
  <2>3. /\ SubSeq(fails, n + 1, len) \in Seq(Failures)
        /\ Len(SubSeq(fails, n + 1, len)) =
             IF n + 1 <= len THEN len - (n + 1) + 1 ELSE 0
        /\ \A i \in 1 .. len - (n + 1) + 1 :
             SubSeq(fails, n + 1, len)[i] = fails[n + 1 + i - 1]
    BY <2>1, <2>2, SubSeqProperties
  <2>4. \A i \in 1 .. len - n : n + 1 + i - 1 = n + i
    BY <1>1, <1>2
  <2>5. ~(n + 1 <= len) => len - n = 0
    <3>1. len \in Nat /\ n \in Nat /\ n <= len
      BY <1>1, <1>2
    <3> HIDE DEF len
    <3> QED BY <3>1
  <2> QED BY <2>2, <2>3, <2>4, <2>5, Zenon DEF back
<1> DEFINE head == front \o <<f>>
<1>6. /\ head \in Seq(Failures) /\ Len(head) = n + 1
      /\ \A i \in 1 .. n + 1 : head[i] = IF i <= n THEN front[i] ELSE f
  <2>1. <<f>> \in Seq(Failures) /\ Len(<<f>>) = 1 /\ <<f>>[1] = f
    OBVIOUS
  <2>2. /\ head \in Seq(Failures) /\ Len(head) = n + 1
        /\ \A i \in 1 .. n + 1 : head[i] = IF i <= n THEN front[i] ELSE <<f>>[i - n]
    BY <1>4, <2>1, ConcatProperties
  <2>3. \A i \in 1 .. n + 1 : ~(i <= n) => i - n = 1
    BY <1>2
  <2> QED BY <2>1, <2>2, <2>3
<1> HIDE DEF head
<1>7. /\ Filed(fails, f) \in Seq(Failures)
      /\ Len(Filed(fails, f)) = (n + 1) + (len - n)
      /\ \A i \in 1 .. (n + 1) + (len - n) :
           Filed(fails, f)[i] = IF i <= n + 1 THEN head[i] ELSE back[i - (n + 1)]
  <2>1. Filed(fails, f) = head \o back
    BY <1>3 DEF head
  <2> QED BY <1>5, <1>6, <2>1, ConcatProperties
<1>8. (n + 1) + (len - n) = len + 1
  BY <1>1, <1>2
<1>9. ASSUME NEW i \in 1 .. len + 1
      PROVE  Filed(fails, f)[i] = IF i <= n THEN fails[i]
                                  ELSE IF i = n + 1 THEN f ELSE fails[i - 1]
  <2>0. Filed(fails, f)[i] = IF i <= n + 1 THEN head[i] ELSE back[i - (n + 1)]
    BY <1>7, <1>8
  <2>1. CASE i <= n
    <3>1. i \in 1 .. n /\ i \in 1 .. n + 1 /\ i <= n + 1
      BY <1>1, <1>2, <2>1
    <3> QED BY <1>4, <1>6, <2>0, <2>1, <3>1
  <2>2. CASE i = n + 1
    <3>1. ~(i <= n) /\ i \in 1 .. n + 1 /\ i <= n + 1
      BY <1>1, <1>2, <2>2
    <3> QED BY <1>6, <2>0, <2>2, <3>1
  <2>3. CASE i > n + 1
    <3>1. /\ ~(i <= n + 1) /\ ~(i <= n) /\ i # n + 1
          /\ i - (n + 1) \in 1 .. len - n /\ n + (i - (n + 1)) = i - 1
      BY <1>1, <1>2, <2>3
    <3> QED BY <1>5, <2>0, <3>1
  <2>4. i <= n \/ i = n + 1 \/ i > n + 1
    BY <1>1, <1>2
  <2> QED BY <2>1, <2>2, <2>3, <2>4
<1> QED BY <1>1, <1>2, <1>7, <1>8, <1>9

LEMMA ApplyEventStep ==
    ASSUME NEW c \in Cases, NEW r, RowOK(c, r), NEW e \in Events, NEW t \in Nat
    PROVE  Step(c, r, ApplyEvent(c, r, e, t))
<1> DEFINE stored == [r EXCEPT !.seen = r.seen \cup {e.id},
                               !.payments = r.payments \cup {e.pay}]
           filed  == Filed(r.fails, [code |-> e.code, at |-> AttemptedAt(e, t)])
           failed == [stored EXCEPT !.fails = filed]
<1>1. r \in Row /\ r.fails \in Seq(Failures)
  BY Zenon DEF RowOK, Row
<1>2. e.id \in EventIds /\ e.pay \in PaymentIds /\ e.amount \in Nat /\ e.code \in ErrorCodes
  BY LifecycleAssumption DEF EventIds, PaymentIds
<1>3. stored \in Row
  BY <1>1, <1>2, Zenon DEF Row
<1>4. /\ stored.paid = r.paid /\ stored.recovered = r.recovered /\ stored.state = r.state
      /\ stored.acts = r.acts /\ stored.fails = r.fails
  BY <1>1 DEF Row
<1>5. [r EXCEPT !.seen = @ \cup {e.id}, !.payments = @ \cup {e.pay}] = stored
  BY <1>1 DEF Row
<1> HIDE DEF stored
<1>6. Step(c, r, stored)
  BY <1>3, <1>4, QuietStep
<1>7. Step(c, stored, ReceiveMoney(c, stored, e.amount))
  BY <1>2, <1>6, ReceiveMoneyStep DEF Step
<1>8. Step(c, r, failed)
  <2>1. filed \in Seq(Failures)
    <3>1. AttemptedAt(e, t) \in Nat
      BY LifecycleAssumption DEF AttemptedAt, NoTime
    <3>2. [code |-> e.code, at |-> AttemptedAt(e, t)] \in Failures
      BY <1>2, <3>1 DEF Failures
    <3> QED BY <1>1, <3>2, FiledEntries
  <2> HIDE DEF filed
  <2>2. failed \in Row
    BY <1>3, <2>1, Zenon DEF Row
  <2>3. /\ failed.paid = r.paid /\ failed.recovered = r.recovered /\ failed.state = r.state
        /\ failed.acts = r.acts
    BY <1>3, <1>4 DEF Row
  <2> HIDE DEF failed
  <2> QED BY <2>2, <2>3, QuietStep
<1>9. ApplyEvent(c, r, e, t) \in {ReceiveMoney(c, stored, e.amount), stored, failed}
  <2>1. [stored EXCEPT !.fails = Filed(@, [code |-> e.code, at |-> AttemptedAt(e, t)])]
          = failed
    BY <1>3, <1>4 DEF Row
  <2> QED BY <1>5, <2>1 DEF ApplyEvent
<1> QED BY <1>6, <1>7, <1>8, <1>9, StepTransitive

LEMMA DeliverStep ==
    ASSUME NEW c \in Cases, NEW r, RowOK(c, r), NEW e \in Events, NEW t \in Nat
    PROVE  \A x \in Deliver(c, r, e, t) : Step(c, r, x)
<1> DEFINE y == ApplyEvent(c, r, e, t)
<1>1. Step(c, r, y) /\ Step(c, r, r)
  BY ApplyEventStep, StepReflexive
<1> HIDE DEF y
<1>2. Live(y) => \A x \in StepCase(c, y, t) : Step(c, y, x)
  <2>1. Live(y) => y.state # "NONE"
    BY DEF Live, LiveStates
  <2> QED BY <1>1, <2>1, StepCaseStep DEF Step
<1>3. \A x \in Deliver(c, r, e, t) : x = r \/ x = y \/ (Live(y) /\ x \in StepCase(c, y, t))
  BY DEF Deliver, y
<1> QED BY <1>1, <1>2, <1>3, StepTransitive

\* A nonempty set of numbers that is bounded from both sides has a least element.
LEMMA LeastOf ==
    ASSUME NEW n \in Nat, NEW S \in SUBSET (-1 .. n), S # {}
    PROVE  \E i \in S : \A j \in S : i <= j
<1> DEFINE D == -1 .. n
           R == StrictSubsetOrdering(D)
           Upto(i) == {j \in S : j <= i}
           T == {Upto(i) : i \in S}
<1>1. IsWellFoundedOn(R, FiniteSubsetsOf(D))
  BY FS_StrictSubsetOrderingWellFounded
<1>2. T \subseteq FiniteSubsetsOf(D) /\ T # {}
  <2>1. IsFiniteSet(D)
    BY FS_Interval
  <2>2. \A x \in T : x \in SUBSET D
    OBVIOUS
  <2>3. FiniteSubsetsOf(D) = SUBSET D
    BY <2>1, FS_FiniteSubsetsOfFinite
  <2> QED BY <2>2, <2>3
<1>3. \E x \in T : \A y \in T : ~ (<<y, x>> \in R)
  <2> HIDE DEF R, T
  <2> QED BY <1>1, <1>2, WFMin, Zenon
<1>4. PICK i \in S : \A j \in S : <<Upto(j), Upto(i)>> \notin R
  BY <1>3
<1>5. ASSUME NEW j \in S, j < i PROVE FALSE
  <2>1. Upto(j) \subseteq Upto(i) /\ Upto(j) # Upto(i)
    <3>1. i \in Int /\ S \subseteq Int /\ j \in Int
      OBVIOUS
    <3>2. i \in Upto(i) /\ i \notin Upto(j)
      BY <1>5, <3>1
    <3>3. \A k \in S : k <= j => k <= i
      BY <1>5, <3>1
    <3>4. Upto(j) \subseteq Upto(i)
      BY <3>3
    <3> QED BY <3>2, <3>4
  <2>2. Upto(j) \in SUBSET D /\ Upto(i) \in SUBSET D
    OBVIOUS
  <2> QED BY <1>4, <2>1, <2>2 DEF StrictSubsetOrdering
<1>6. \A j \in S : i <= j
  BY <1>5
<1> QED BY <1>6

\* A batch about one invoice, of any length.
BatchOf(c, batch) ==
    /\ Len(batch) \in Nat
    /\ \A i \in 1 .. Len(batch) : batch[i] \in Events /\ batch[i].case = c

LEMMA BatchesAreBatches ==
    ASSUME NEW b \in Batches
    PROVE  b[1].case \in Cases /\ BatchOf(b[1].case, b)
<1>1. PICK m \in 0 .. MaxBatch : b \in [1 .. m -> Events]
  BY DEF Batches, SeqOf
<1>2. m \in Nat /\ b \in Seq(Events)
  BY <1>1, LifecycleAssumption
<1>3. /\ Len(b) \in Nat /\ DOMAIN b = 1 .. Len(b)
      /\ \A i \in 1 .. Len(b) : b[i] \in Events
  BY <1>2, LenProperties, ElementOfSeq
<1>4. b[1] \in Events
  <2>1. b # << >>
    BY DEF Batches
  <2> QED BY <1>2, <2>1, FirstElement
<1>5. \A i \in DOMAIN b : b[i].case = b[1].case
  BY DEF Batches
<1> QED BY <1>3, <1>4, <1>5, LifecycleAssumption DEF BatchOf

\* What no event of the batch leads out of, the batch does not lead out of.
LEMMA DeliverAllKeeps ==
    ASSUME NEW c, NEW r, NEW batch, Len(batch) \in Nat, NEW t, NEW Good, r \in Good,
           \A i \in 1 .. Len(batch) : \A x \in Good : Deliver(c, x, batch[i], t) \subseteq Good
    PROVE  DeliverAll(c, r, batch, t) \subseteq Good
<1> DEFINE len       == Len(batch)
           Rows(S, i) == UNION {Deliver(c, x, batch[i], t) : x \in S}
           Runs(f, m) == f = [i \in 0 .. m |-> IF i = 0 THEN {r} ELSE Rows(f[i - 1], i)]
<1>1. \A S : \A i \in 1 .. len : S \subseteq Good => Rows(S, i) \subseteq Good
  OBVIOUS
<1>2. DeliverAll(c, r, batch, t) = (CHOOSE f : Runs(f, len))[len]
  BY Zenon DEF DeliverAll
<1> HIDE DEF Rows
<1>3. \E f : Runs(f, len)
  <2> DEFINE stuck == {m \in 0 .. len : ~ \E f : Runs(f, m)}
  <2>1. ASSUME stuck # {} PROVE FALSE
    <3>1. stuck \in SUBSET (-1 .. len)
      OBVIOUS
    <3>2. PICK m \in stuck : \A j \in stuck : m <= j
      <4> HIDE DEF stuck
      <4> QED BY <2>1, <3>1, LeastOf
    <3>3. CASE m = 0
      <4>1. Runs([i \in 0 .. 0 |-> {r}], 0)
        OBVIOUS
      <4> QED BY <3>2, <3>3, <4>1
    <3>4. CASE m # 0
      <4>1. m \in 1 .. len /\ m - 1 \in 0 .. len /\ ~(m <= m - 1)
        BY <3>2, <3>4
      <4>2. m - 1 \notin stuck
        <5> HIDE DEF stuck
        <5> QED BY <3>2, <4>1
      <4>3. PICK f : Runs(f, m - 1)
        BY <4>1, <4>2
      <4> DEFINE g == [i \in 0 .. m |-> IF i = m THEN Rows(f[m - 1], m) ELSE f[i]]
      <4>4. \A i \in 0 .. m - 1 : g[i] = f[i]
        BY <4>1
      <4>5. ASSUME NEW i \in 0 .. m
            PROVE  g[i] = IF i = 0 THEN {r} ELSE Rows(g[i - 1], i)
        <5>1. CASE i = m
          <6>1. i # 0 /\ i - 1 \in 0 .. m - 1 /\ i - 1 = m - 1
            BY <4>1, <5>1
          <6>2. g[i - 1] = f[m - 1] /\ g[i] = Rows(f[m - 1], m)
            BY <4>4, <5>1, <6>1
          <6> QED BY <5>1, <6>1, <6>2
        <5>2. CASE i # m
          <6>1. i \in 0 .. m - 1 /\ (i # 0 => i - 1 \in 0 .. m - 1)
            BY <4>1, <5>2
          <6>2. f[i] = IF i = 0 THEN {r} ELSE Rows(f[i - 1], i)
            BY <4>3, <6>1, Zenon
          <6> HIDE DEF g
          <6> QED BY <4>4, <6>1, <6>2
        <5> QED BY <5>1, <5>2
      <4>6. g = [i \in 0 .. m |-> g[i]]
        OBVIOUS
      <4> HIDE DEF g
      <4>7. Runs(g, m)
        BY <4>5, <4>6
      <4> QED BY <3>2, <4>7
    <3> QED BY <3>3, <3>4
  <2>2. len \in 0 .. len
    OBVIOUS
  <2> QED BY <2>1, <2>2, Zenon
<1> DEFINE rows == CHOOSE f : Runs(f, len)
<1>4. Runs(rows, len)
  BY <1>3, Zenon
<1> HIDE DEF rows
<1>5. \A i \in 0 .. len : rows[i] = IF i = 0 THEN {r} ELSE Rows(rows[i - 1], i)
  BY <1>4, Zenon
<1>6. rows[len] \subseteq Good
  <2> DEFINE bad == {m \in 0 .. len : ~(rows[m] \subseteq Good)}
  <2>1. ASSUME bad # {} PROVE FALSE
    <3>1. bad \in SUBSET (-1 .. len)
      OBVIOUS
    <3>2. PICK m \in bad : \A j \in bad : m <= j
      <4> HIDE DEF bad
      <4> QED BY <2>1, <3>1, LeastOf
    <3>3. m # 0
      BY <1>5, <3>2
    <3>4. m \in 1 .. len /\ m - 1 \in 0 .. len /\ ~(m <= m - 1)
      BY <3>2, <3>3
    <3>5. m - 1 \notin bad
      <4> HIDE DEF bad
      <4> QED BY <3>2, <3>4
    <3>6. rows[m - 1] \subseteq Good
      BY <3>4, <3>5
    <3>7. rows[m] = Rows(rows[m - 1], m)
      BY <1>5, <3>3, <3>4
    <3> QED BY <1>1, <3>2, <3>4, <3>6, <3>7
  <2>2. len \in 0 .. len
    OBVIOUS
  <2> QED BY <2>1, <2>2
<1> QED BY <1>2, <1>6, Zenon DEF rows

LEMMA IngestRowStep ==
    ASSUME NEW c \in Cases, NEW r, RowOK(c, r), NEW batch, BatchOf(c, batch), NEW t \in Nat
    PROVE  \A x \in IngestRow(c, r, batch, t) : Step(c, r, x)
<1>2. \A x \in DeliverAll(c, r, batch, t) : Step(c, r, x)
  <2> DEFINE Good == {x \in Row : Step(c, r, x)}
  <2>1. \A x : x \in Good <=> Step(c, r, x)
    BY DEF Step, RowOK
  <2>2. r \in Good
    BY <2>1, StepReflexive
  <2> HIDE DEF Good
  <2>3. ASSUME NEW i \in 1 .. Len(batch), NEW x \in Good,
               NEW y \in Deliver(c, x, batch[i], t)
        PROVE  y \in Good
    <3>1. Step(c, r, x) /\ RowOK(c, x) /\ batch[i] \in Events
      BY <2>1 DEF Step, BatchOf
    <3>2. Step(c, x, y)
      BY <2>3, <3>1, DeliverStep
    <3> QED BY <2>1, <3>1, <3>2, StepTransitive
  <2>4. DeliverAll(c, r, batch, t) \subseteq Good
    BY <2>2, <2>3, DeliverAllKeeps DEF BatchOf
  <2> QED BY <2>1, <2>4
<1>3. ASSUME NEW x, Step(c, r, x), x.state = "NONE", ~IsPaid(c, x),
             NEW y \in StepCase(c, OpenCase(c, x, t), t)
      PROVE  Step(c, r, y)
  <2> DEFINE o == OpenCase(c, x, t)
  <2>1. Step(c, x, o) /\ o.state = "OPEN"
    BY <1>3, OpenCaseStep DEF Step
  <2> HIDE DEF o
  <2>2. Step(c, o, y)
    BY <1>3, <2>1, StepCaseStep DEF Step, o
  <2> QED BY <1>3, <2>1, <2>2, StepTransitive
<1> QED BY <1>2, <1>3, Zenon DEF IngestRow

LEMMA ExpireStep ==
    ASSUME NEW c \in Cases, NEW r, RowOK(c, r), NEW t
    PROVE  Step(c, r, ExpireStaleApprovals(r, t))
<1> DEFINE acts == [k \in Keys |-> IF k \in Stale(r, t)
                                   THEN [r.acts[k] EXCEPT !.status = "DECLINED"]
                                   ELSE r.acts[k]]
           x == [r EXCEPT !.state = "CLOSED_NOOP", !.acts = acts]
<1>1. r \in Row /\ r.acts \in [Keys -> Act]
  BY Zenon DEF RowOK, Row
<1>2. \A a \in Act : [a EXCEPT !.status = "DECLINED"] \in Act
                     /\ [a EXCEPT !.status = "DECLINED"].status = "DECLINED"
  BY DEF Act
<1>3. acts \in [Keys -> Act]
      /\ \A k \in Keys : acts[k].status = "PENDING_APPROVAL" =>
                         r.acts[k].status = "PENDING_APPROVAL"
  BY <1>1, <1>2
<1> HIDE DEF acts
<1>4. "CLOSED_NOOP" \in States \cup {"NONE"}
      /\ "CLOSED_NOOP" \in TerminalStates \ {"RECOVERED"}
  BY DEF States, TerminalStates
<1>5. x \in Row
  BY <1>1, <1>3, <1>4, Zenon DEF Row
<1>6. x.paid = r.paid /\ x.recovered = r.recovered /\ x.state = "CLOSED_NOOP" /\ x.acts = acts
  BY <1>1 DEF Row
<1>7. [SetState(r, "CLOSED_NOOP") EXCEPT !.acts = acts] = x
  BY <1>1 DEF SetState, Row
<1> HIDE DEF x
<1>8. Step(c, r, x)
  BY <1>3, <1>4, <1>5, <1>6, CloseStep
<1>9. ExpireStaleApprovals(r, t) \in {r, x}
  BY <1>7, Zenon DEF ExpireStaleApprovals, acts
<1> QED BY <1>8, <1>9, StepReflexive

\* Consuming the due hints credits at most one balance, then settles the case.
LEMMA DrainStep ==
    ASSUME NEW c \in Cases, NEW r, RowOK(c, r), NEW t \in Nat
    PROVE  \A x \in DrainPendingPayments(c, r, t) : Step(c, r, x)
<1> DEFINE due   == DueHints(r, t)
           first == CHOOSE k \in due : TRUE
           paid  == ReceiveMoney(c, r, r.acts[first].hintAmt)
           acts  == [k \in Keys |-> IF k \in due
                                    THEN [r.acts[k] EXCEPT !.hint = "applied"]
                                    ELSE r.acts[k]]
           spent == [paid EXCEPT !.acts = acts]
<1>1. r \in Row /\ r.acts \in [Keys -> Act]
  BY Zenon DEF RowOK, Row
<1>2. CASE due = {}
  <2>1. DrainPendingPayments(c, r, t) = {r}
    BY <1>2 DEF DrainPendingPayments
  <2> QED BY <2>1, StepReflexive
<1>3. CASE due # {}
  <2>1. first \in Keys
    BY <1>3 DEF DueHints
  <2> HIDE DEF first
  <2>2. r.acts[first].hintAmt \in Nat
    BY <1>1, <2>1 DEF Act
  <2>3. Step(c, r, paid) /\ paid.acts = r.acts
    <3>1. Step(c, r, paid)
      BY <2>2, ReceiveMoneyStep
    <3>2. paid.acts = r.acts
      BY <1>1 DEF ReceiveMoney, Row
    <3> QED BY <3>1, <3>2
  <2>4. paid \in Row
    BY <2>3 DEF Step, RowOK
  <2>5. \A a \in Act : [a EXCEPT !.hint = "applied"] \in Act
                       /\ [a EXCEPT !.hint = "applied"].status = a.status
    BY DEF Act
  <2>6. acts \in [Keys -> Act] /\ \A k \in Keys : acts[k].status = r.acts[k].status
    BY <1>1, <2>5
  <2>7. DrainPendingPayments(c, r, t) =
          IF spent.state = "OPEN" THEN StepCase(c, spent, t) ELSE {spent}
    BY <1>3, Zenon DEF DrainPendingPayments, first
  <2> HIDE DEF acts, paid
  <2>8. spent \in Row
    BY <2>4, <2>6, Zenon DEF Row
  <2>9. /\ spent.paid = paid.paid /\ spent.recovered = paid.recovered
        /\ spent.state = paid.state /\ spent.acts = acts
    BY <2>4 DEF Row
  <2> HIDE DEF spent
  <2>10. Step(c, paid, spent)
    BY <2>3, <2>6, <2>8, <2>9, QuietStep DEF Step
  <2>11. Step(c, r, spent)
    BY <2>3, <2>10, StepTransitive
  <2>12. spent.state = "OPEN" => \A x \in StepCase(c, spent, t) : Step(c, spent, x)
    BY <2>11, StepCaseStep DEF Step
  <2> QED BY <2>7, <2>11, <2>12, StepTransitive
<1> QED BY <1>2, <1>3

LEMMA TickMoneyStep ==
    ASSUME NEW c \in Cases, NEW r, RowOK(c, r), NEW t \in Nat
    PROVE  \A x \in TickMoney(c, r, t) : Step(c, r, x)
<1> DEFINE y == ExpireStaleApprovals(r, t)
<1>1. Step(c, r, y)
  BY ExpireStep
<1> HIDE DEF y
<1>2. \A x \in DrainPendingPayments(c, y, t) : Step(c, y, x)
  BY <1>1, DrainStep DEF Step
<1>3. TickMoney(c, r, t) = DrainPendingPayments(c, y, t)
  BY DEF TickMoney, y
<1> QED BY <1>1, <1>2, <1>3, StepTransitive

\* A listed case exists, and no settled invoice is listed.
LEMMA TickScanStep ==
    ASSUME NEW c \in Cases, NEW r, RowOK(c, r), NEW t \in Nat,
           NEW m \in TickScan(c, r, t)
    PROVE  Step(c, r, m.row) /\ (m.due => m.row.state # "NONE")
<1>1. PICK x \in TickMoney(c, r, t) :
        /\ m.row = IF Listed(c, x, t) /\ x.state = "NONE" THEN OpenCase(c, x, t) ELSE x
        /\ m.due = Listed(c, x, t)
  BY DEF TickScan
<1>2. Step(c, r, x)
  BY TickMoneyStep
<1>3. CASE Listed(c, x, t) /\ x.state = "NONE"
  <2>1. ~IsPaid(c, x)
    BY <1>3 DEF Listed, Overdue
  <2>2. Step(c, x, OpenCase(c, x, t)) /\ OpenCase(c, x, t).state = "OPEN"
    BY <1>2, <1>3, <2>1, OpenCaseStep DEF Step
  <2> QED BY <1>1, <1>2, <1>3, <2>2, StepTransitive
<1>4. CASE ~(Listed(c, x, t) /\ x.state = "NONE")
  BY <1>1, <1>2, <1>4
<1> QED BY <1>3, <1>4

LEMMA TickEarlyStep ==
    ASSUME NEW c \in Cases, NEW r, RowOK(c, r), NEW t \in Nat,
           NEW m \in TickEarly(c, r, t)
    PROVE  Step(c, r, m.row) /\ (m.due => m.row.state # "NONE")
<1>1. PICK x \in TickScan(c, r, t) :
        \E y \in (IF ScheduleArrived(x.row, t) THEN StepCase(c, x.row, t) ELSE {x.row}) :
            m = [row |-> y, due |-> x.due]
  BY DEF TickEarly
<1>2. Step(c, r, x.row) /\ (x.due => x.row.state # "NONE")
  BY TickScanStep
<1>3. CASE ScheduleArrived(x.row, t)
  <2>1. x.row.state # "NONE"
    BY <1>3 DEF ScheduleArrived
  <2>2. m.row \in StepCase(c, x.row, t)
    BY <1>1, <1>3
  <2>3. Step(c, x.row, m.row)
    BY <1>2, <2>1, <2>2, StepCaseStep DEF Step
  <2>4. Step(c, r, m.row)
    BY <1>2, <2>3, StepTransitive
  <2> QED BY <2>1, <2>3, <2>4 DEF Step, Onward
<1>4. CASE ~ScheduleArrived(x.row, t)
  BY <1>1, <1>2, <1>4
<1> QED BY <1>3, <1>4

LEMMA TickLateStep ==
    ASSUME NEW c \in Cases, NEW r, NEW t \in Nat, NEW m, Step(c, r, m.row),
           m.due => m.row.state # "NONE"
    PROVE  \A x \in TickLate(c, m, t) : Step(c, r, x)
<1>1. m.due => \A x \in StepCase(c, m.row, t) : Step(c, m.row, x)
  BY StepCaseStep DEF Step
<1> QED BY <1>1, StepTransitive DEF TickLate

\* A decision on a pending request, however late, whatever became of the case.
LEMMA DecideRowStep ==
    ASSUME NEW c \in Cases, NEW r, RowOK(c, r), NEW k \in Pending(r),
           NEW d \in {"APPROVED", "DECLINED"}, NEW t \in Nat
    PROVE  \A x \in DecideRow(c, r, k, d, t) : Step(c, r, x)
<1> DEFINE act == [r.acts[k] EXCEPT !.status = "DECLINED"]
           x == [r EXCEPT !.state = "CLOSED_NOOP", !.acts = [r.acts EXCEPT ![k] = act]]
<1>1. r \in Row /\ r.acts \in [Keys -> Act] /\ k \in Keys
  BY Zenon DEF RowOK, Row, Pending
<1>2. r.acts[k] \in Act
  BY <1>1
<1>3. act \in Act /\ act.status = "DECLINED"
      /\ r.acts[k].verdict \in {"", "APPROVED", "REQUIRES_APPROVAL"}
      /\ r.acts[k].promised \in Times
  BY <1>2 DEF Act, Times
<1>4. [SetState(r, "CLOSED_NOOP") EXCEPT !.acts[k].status = "DECLINED"] = x
  BY <1>1 DEF SetState, Row
<1> HIDE DEF act
<1>5. [r.acts EXCEPT ![k] = act] \in [Keys -> Act]
  BY <1>1, <1>3
<1>6. "CLOSED_NOOP" \in States \cup {"NONE"}
      /\ "CLOSED_NOOP" \in TerminalStates \ {"RECOVERED"}
  BY DEF States, TerminalStates
<1>7. x \in Row
  BY <1>1, <1>5, <1>6, Zenon DEF Row
<1>8. /\ x.paid = r.paid /\ x.recovered = r.recovered /\ x.state = "CLOSED_NOOP"
      /\ x.acts = [r.acts EXCEPT ![k] = act]
  BY <1>1 DEF Row
<1> HIDE DEF x
<1>9. \A j \in Keys : x.acts[j].status = "PENDING_APPROVAL" =>
                      r.acts[j].status = "PENDING_APPROVAL"
  BY <1>1, <1>3, <1>8
<1>10. Step(c, r, x)
  BY <1>6, <1>7, <1>8, <1>9, CloseStep
<1>11. CASE d = "DECLINED"
  BY <1>4, <1>10, <1>11 DEF DecideRow
<1>12. CASE d # "DECLINED"
  <2>1. \A y \in Dispatched(c, r, k, r.acts[k].verdict, r.acts[k].promised, t) :
            Step(c, r, Observe(c, y, k, t))
    BY <1>1, <1>3, DispatchedStep
  <2> QED BY <1>12, <2>1, Zenon DEF DecideRow
<1> QED BY <1>11, <1>12

-----------------------------------------------------------------------------
(* The whole system.                                                        *)

\* The inductive invariant.
CaseInv == TypeOK /\ \A c \in Cases : RowOK(c, db[c])

\* What every step of the system does to the database.
SystemStep ==
    /\ db' \in [Cases -> Row]
    /\ \A c \in Cases : Step(c, db[c], db'[c]) /\ ~db'[c].err

\* What a handler would leave behind, were it to commit or to be cut short.
Sound(rows) ==
    /\ rows \in [Cases -> Row]
    /\ \A c \in Cases : Step(c, db[c], rows[c])

LEMMA CommitStep ==
    ASSUME CaseInv, NEW rows, Sound(rows), Commit(rows)
    PROVE  CaseInv' /\ SystemStep
<1>1. db' = rows /\ \A c \in Cases : ~rows[c].err
  BY DEF Commit
<1>2. SystemStep
  BY <1>1 DEF Sound, SystemStep
<1>3. TypeOK'
  BY <1>2 DEF CaseInv, TypeOK, Commit, SystemStep
<1> QED BY <1>2, <1>3 DEF CaseInv, SystemStep, Step

LEMMA RollBackStep ==
    ASSUME CaseInv, NEW rows, Sound(rows), RollBack(rows), crashes' \in 0 .. MaxCrashes
    PROVE  CaseInv' /\ SystemStep
<1>1. ASSUME NEW c \in Cases
      PROVE  Step(c, db[c], db'[c]) /\ db'[c] \in Row /\ ~db'[c].err
  <2> DEFINE r == db[c]
             x == [r EXCEPT !.calls = rows[c].calls]
  <2>1. r \in Row /\ RowOK(c, r) /\ ~r.err
    BY DEF CaseInv, TypeOK
  <2>2. rows[c].calls \in [Keys -> 0 .. MaxCalls]
    <3>1. rows[c] \in Row
      BY DEF Sound
    <3> QED BY <3>1, Zenon DEF Row
  <2>3. db'[c] = x
    BY DEF RollBack
  <2> HIDE DEF r
  <2>4. x \in Row
    BY <2>1, <2>2, Zenon DEF Row
  <2>5. /\ x.paid = r.paid /\ x.recovered = r.recovered /\ x.state = r.state
        /\ x.acts = r.acts /\ x.err = r.err
    BY <2>1 DEF Row
  <2> HIDE DEF x
  <2>6. Step(c, r, x)
    BY <2>1, <2>4, <2>5, QuietStep
  <2> QED BY <2>1, <2>3, <2>4, <2>5, <2>6 DEF r
<1>2. db' \in [Cases -> Row]
  <2>1. db' = [c \in Cases |-> db'[c]]
    BY DEF RollBack
  <2> QED BY <1>1, <2>1
<1>3. SystemStep
  BY <1>1, <1>2 DEF SystemStep
<1>4. TypeOK'
  BY <1>3 DEF CaseInv, TypeOK, RollBack, SystemStep
<1> QED BY <1>3, <1>4 DEF CaseInv, SystemStep, Step

LEMMA CrashStep ==
    ASSUME CaseInv, NEW rows, Sound(rows), Crash(rows)
    PROVE  CaseInv' /\ SystemStep
<1>1. crashes' \in 0 .. MaxCrashes
  BY LifecycleAssumption DEF CaseInv, TypeOK, Crash
<1> QED BY <1>1, RollBackStep DEF Crash

LEMMA RaiseStep ==
    ASSUME CaseInv, NEW rows, Sound(rows), Raise(rows)
    PROVE  CaseInv' /\ SystemStep
<1>1. crashes' \in 0 .. MaxCrashes
  BY DEF CaseInv, TypeOK, Raise
<1> QED BY <1>1, RollBackStep DEF Raise

LEMMA IngestSound ==
    ASSUME CaseInv, NEW rows \in IngestResults
    PROVE  Sound(rows)
<1>1. PICK b \in Batches : \E x \in IngestRow(b[1].case, db[b[1].case], b, now) :
                               rows = [db EXCEPT ![b[1].case] = x]
  BY Zenon DEF IngestResults
<1> DEFINE c == b[1].case
<1>2. c \in Cases /\ BatchOf(c, b)
  BY BatchesAreBatches
<1>3. PICK x \in IngestRow(c, db[c], b, now) : rows = [db EXCEPT ![c] = x]
  BY <1>1
<1> HIDE DEF c
<1>4. Step(c, db[c], x)
  BY <1>2, <1>3, IngestRowStep DEF CaseInv, TypeOK, c
<1> QED BY <1>2, <1>3, <1>4, StepReflexive DEF Sound, CaseInv, TypeOK, Step, RowOK

LEMMA DecideSound ==
    ASSUME CaseInv, NEW rows \in DecideResults
    PROVE  Sound(rows)
<1>1. PICK c \in Cases : \E x \in Decided(c, db[c], now) : rows = [db EXCEPT ![c] = x]
  BY Zenon DEF DecideResults
<1>2. PICK x \in Decided(c, db[c], now) : rows = [db EXCEPT ![c] = x]
  BY <1>1
<1>3. PICK k \in Pending(db[c]) :
        x \in DecideRow(c, db[c], k, "APPROVED", now)
              \cup DecideRow(c, db[c], k, "DECLINED", now)
  BY <1>2, Zenon DEF Decided
<1>4. Step(c, db[c], x)
  BY <1>3, DecideRowStep DEF CaseInv, TypeOK
<1> QED BY <1>2, <1>4, StepReflexive DEF Sound, CaseInv, TypeOK, Step, RowOK

LEMMA TickMiddleSound ==
    ASSUME CaseInv, NEW mid \in TickMiddles, NEW c \in Cases
    PROVE  Step(c, db[c], mid[c].row) /\ (mid[c].due => mid[c].row.state # "NONE")
<1>1. mid[c] \in TickEarly(c, db[c], now)
  BY DEF TickMiddles, OnePerCase
<1> QED BY <1>1, TickEarlyStep DEF CaseInv, TypeOK

LEMMA TickResultSound ==
    ASSUME CaseInv, NEW mid \in TickMiddles, NEW rows \in TickResults(mid), NEW c \in Cases
    PROVE  Step(c, db[c], rows[c])
<1>1. rows[c] \in TickLate(c, mid[c], now)
  BY DEF TickResults, OnePerCase
<1>2. Step(c, db[c], mid[c].row) /\ (mid[c].due => mid[c].row.state # "NONE")
  BY TickMiddleSound
<1> QED BY <1>1, <1>2, TickLateStep DEF CaseInv, TypeOK

\* A row for each case, each of them soundly reached.
LEMMA RowsSound ==
    ASSUME NEW rows, rows = [c \in Cases |-> rows[c]],
           \A c \in Cases : Step(c, db[c], rows[c])
    PROVE  Sound(rows)
BY DEF Sound, Step, RowOK

\* An invoice nothing is known of.
LEMMA NoCaseType ==
    /\ NoCase \in Row /\ Pending(NoCase) = {}
    /\ NoCase.paid = 0 /\ NoCase.recovered = 0 /\ NoCase.state = "NONE"
<1>1. NoAct \in Act /\ NoAct.status = "ABSENT"
  BY DEF NoAct, Act, Times
<1>2. \A k \in Keys : NoCase.acts[k] = NoAct
  BY DEF NoCase
<1>3. NoCase \in Row
  <2>1. [k \in Keys |-> NoAct] \in [Keys -> Act]
    BY <1>1
  <2>2. [k \in Keys |-> 0] \in [Keys -> 0 .. MaxCalls]
    BY LifecycleAssumption
  <2>3. << >> \in Seq(Failures)
    BY EmptySeq
  <2>4. 0 \in Nat /\ {} \in SUBSET PaymentIds /\ {} \in SUBSET EventIds
        /\ {} \in SUBSET EscalationCodes
    OBVIOUS
  <2> QED BY <2>1, <2>2, <2>3, <2>4, Zenon DEF NoCase, Row
<1>4. Pending(NoCase) = {}
  BY <1>1, <1>2 DEF Pending
<1>5. NoCase.paid = 0 /\ NoCase.recovered = 0 /\ NoCase.state = "NONE"
  BY DEF NoCase
<1> QED BY <1>3, <1>4, <1>5

LEMMA InitInv == Init => CaseInv
<1> SUFFICES ASSUME Init PROVE CaseInv
  OBVIOUS
<1>1. NoCase \in Row
  BY NoCaseType
<1>2. ASSUME NEW c \in Cases
      PROVE  RowOK(c, NoCase)
             /\ (Promised[c] # NoTime =>
                   RowOK(c, OpenCase(c, [NoCase EXCEPT !.promise = Promised[c]], 0)))
  <2> DEFINE r == [NoCase EXCEPT !.promise = Promised[c]]
  <2>1. Amount[c] \in Nat \ {0} /\ Promised[c] \in Nat \cup {NoTime}
    BY LifecycleAssumption
  <2>2. RowOK(c, NoCase)
    BY <2>1, NoCaseType DEF RowOK, SoundBooks, SoundRequests, LiveStates
  <2>3. r \in Row
    BY <1>1, <2>1, Zenon DEF Row
  <2>4. /\ r.paid = NoCase.paid /\ r.recovered = NoCase.recovered
        /\ r.state = NoCase.state /\ r.acts = NoCase.acts
    BY <1>1 DEF Row
  <2> HIDE DEF r
  <2>5. RowOK(c, r)
    BY <2>2, <2>3, <2>4, QuietStep DEF Step
  <2>6. r.state = "NONE" /\ r.paid = 0
    BY <2>4 DEF NoCase
  <2>7. ~IsPaid(c, r)
    BY <2>1, <2>6 DEF IsPaid
  <2>8. RowOK(c, OpenCase(c, r, 0))
    BY <2>5, <2>6, <2>7, OpenCaseStep DEF Step
  <2> QED BY <2>2, <2>8 DEF r
<1>3. \A c \in Cases : RowOK(c, db[c])
  BY <1>2, Zenon DEF Init
<1>4. \A c \in Cases : ~db[c].err
  BY DEF Init, OpenCase, NoCase
<1>5. TypeOK
  <2>1. \A c \in Cases : db[c] \in Row
    BY <1>3 DEF RowOK
  <2>2. db = [c \in Cases |-> db[c]]
    BY Zenon DEF Init
  <2>3. db \in [Cases -> Row]
    BY <2>1, <2>2
  <2>4. now \in Nat /\ crashes \in 0 .. MaxCrashes /\ rolledBack \in BOOLEAN
    <3>1. now = 0 /\ crashes = 0 /\ rolledBack = FALSE
      BY Zenon DEF Init
    <3>2. MaxCrashes \in Nat
      BY LifecycleAssumption
    <3>3. now \in Nat /\ crashes \in 0 .. MaxCrashes
      BY <3>1, <3>2
    <3> QED BY <3>1, <3>3, Zenon
  <2> QED BY <1>4, <2>3, <2>4 DEF TypeOK
<1> QED BY <1>3, <1>5 DEF CaseInv

\* Every step of the system, be it a commit, an exception or a crash, keeps the
\* invariant and takes every case onward.
LEMMA NextInv ==
    ASSUME CaseInv, [Next]_vars
    PROVE  CaseInv' /\ SystemStep
<1>1. ASSUME UNCHANGED <<db, crashes, rolledBack>>, now' \in Nat
      PROVE  CaseInv' /\ SystemStep
  BY <1>1, StepReflexive DEF CaseInv, TypeOK, SystemStep
<1>2. CASE IngestEvents
  BY <1>2, IngestSound, CommitStep DEF IngestEvents
<1>3. CASE IngestRaises
  BY <1>3, IngestSound, RaiseStep DEF IngestRaises
<1>4. CASE DecideApproval
  BY <1>4, DecideSound, CommitStep DEF DecideApproval
<1>5. CASE RunTick
  <2>1. PICK mid \in TickMiddles : \E rows \in TickResults(mid) : Commit(rows)
    BY <1>5 DEF RunTick
  <2>2. PICK rows \in TickResults(mid) : Commit(rows)
    BY <2>1
  <2>3. rows = [c \in Cases |-> rows[c]]
    BY DEF TickResults, OnePerCase
  <2>4. Sound(rows)
    BY <2>3, TickResultSound, RowsSound
  <2> QED BY <2>2, <2>4, CommitStep
<1>6. CASE TickRaises
  <2>1. PICK mid \in TickMiddles :
          \E rows \in TickResults(mid), done \in SUBSET Cases :
            Raise([c \in Cases |-> IF c \in done \/ rows[c].err THEN rows[c]
                                   ELSE mid[c].row])
    BY <1>6 DEF TickRaises
  <2>2. PICK rows \in TickResults(mid), done \in SUBSET Cases :
            Raise([c \in Cases |-> IF c \in done \/ rows[c].err THEN rows[c]
                                   ELSE mid[c].row])
    BY <2>1
  <2> DEFINE left == [c \in Cases |-> IF c \in done \/ rows[c].err THEN rows[c]
                                      ELSE mid[c].row]
  <2>3. \A c \in Cases : Step(c, db[c], left[c])
    BY TickMiddleSound, TickResultSound
  <2>4. left = [c \in Cases |-> left[c]] /\ Raise(left)
    BY <2>2
  <2> HIDE DEF left
  <2>5. Sound(left)
    BY <2>3, <2>4, RowsSound
  <2> QED BY <2>4, <2>5, RaiseStep
<1>7. CASE HandlerCrashes
  <2>1. CASE \E rows \in IngestResults : Crash(rows)
    BY <2>1, IngestSound, CrashStep
  <2>2. CASE \E rows \in DecideResults : Crash(rows)
    BY <2>2, DecideSound, CrashStep
  <2> DEFINE left(mid, rows, reached) ==
               [c \in Cases |-> CASE reached[c] = "none"  -> db[c]
                                  [] reached[c] = "early" -> mid[c].row
                                  [] reached[c] = "late"  -> rows[c]]
  <2>3. CASE \E mid \in TickMiddles : \E rows \in TickResults(mid),
                                         reached \in [Cases -> {"none", "early", "late"}] :
               Crash(left(mid, rows, reached))
    <3>1. PICK mid \in TickMiddles :
            \E rows \in TickResults(mid), reached \in [Cases -> {"none", "early", "late"}] :
              Crash(left(mid, rows, reached))
      BY <2>3
    <3>2. PICK rows \in TickResults(mid), reached \in [Cases -> {"none", "early", "late"}] :
              Crash(left(mid, rows, reached))
      BY <3>1
    <3> DEFINE cut == left(mid, rows, reached)
    <3>3. \A c \in Cases : Step(c, db[c], cut[c])
      BY TickMiddleSound, TickResultSound, StepReflexive DEF CaseInv
    <3>4. cut = [c \in Cases |-> cut[c]] /\ Crash(cut)
      BY <3>2
    <3> HIDE DEF cut
    <3>5. Sound(cut)
      BY <3>3, <3>4, RowsSound
    <3> QED BY <3>4, <3>5, CrashStep
  <2> QED BY <1>7, <2>1, <2>2, <2>3 DEF HandlerCrashes
<1>8. CASE AdvanceClock
  BY <1>1, <1>8 DEF AdvanceClock, CaseInv, TypeOK
<1>9. CASE UNCHANGED vars
  BY <1>1, <1>9 DEF vars, CaseInv, TypeOK
<1> QED BY <1>2, <1>3, <1>4, <1>5, <1>6, <1>7, <1>8, <1>9 DEF Next

\* CaseInv is inductive.
LEMMA CaseInvariant == Spec => []CaseInv
<1>1. CaseInv /\ [Next]_vars => CaseInv'
  BY NextInv
<1> QED BY InitInv, <1>1, PTL DEF Spec

\* Every reachable database is well typed, and no row with an exception that
\* escaped from its handler is ever committed (the caller's db.commit).
THEOREM TypeCorrect == Spec => []TypeOK
<1>1. CaseInv => TypeOK
  BY DEF CaseInv
<1> QED BY CaseInvariant, <1>1, PTL

\* credit_received and set_state keep the books: nothing is credited beyond the
\* invoice, no case claims more than was received, RECOVERED means paid in full.
THEOREM BooksAlwaysBalance == Spec => []BooksBalance
<1>1. CaseInv => BooksBalance
  BY DEF CaseInv, RowOK, SoundBooks, BooksBalance
<1> QED BY CaseInvariant, <1>1, PTL

\* A settled invoice has no live case: whatever settles it, an event, a due
\* payment or an approved action, closes the case in the same transaction.
THEOREM NeverDunnedAfterPayment == Spec => []NoDunningAfterPayment
<1>1. CaseInv => NoDunningAfterPayment
  BY DEF CaseInv, RowOK, SoundBooks, NoDunningAfterPayment, Live
<1> QED BY CaseInvariant, <1>1, PTL

\* Over parking, decisions, timeouts, exceptions and crashes a case never has two
\* requests waiting for a human, and none while the agent works on it.
THEOREM OneRequestAtATime == Spec => []SinglePendingAction
<1>1. CaseInv => SinglePendingAction
  BY DEF CaseInv, RowOK, SoundRequests, SinglePendingAction
<1> QED BY CaseInvariant, <1>1, PTL

\* set_state applies even a move it has flagged as illegal; the callers never
\* ask for one, so a closed case stays closed and an open one stays a case.
THEOREM MovesAlwaysAllowed == Spec => MovesAllowed
<1>1. ASSUME CaseInv, [Next]_vars, NEW c \in Cases,
             db[c].state # "NONE", db'[c].state # db[c].state
      PROVE  AllowedTransition(db[c].state, db'[c].state)
  <2>1. db[c].state \in States \cup {"NONE"} /\ db'[c].state \in States \cup {"NONE"}
    BY <1>1, NextInv, Zenon DEF CaseInv, TypeOK, SystemStep, Row
  <2>2. Onward(db[c], db'[c])
    BY <1>1, NextInv DEF SystemStep, Step
  <2> QED BY <1>1, <2>1, <2>2
          DEF Onward, AllowedTransition, States, LiveStates, TerminalStates
<1>2. CaseInv /\ [Next]_vars =>
        [\A c \in Cases :
            LET s == db[c].state
                u == db'[c].state
            IN  s # "NONE" /\ u # s => AllowedTransition(s, u)]_vars
  BY <1>1
<1> QED BY CaseInvariant, <1>2, PTL DEF Spec, MovesAllowed

-----------------------------------------------------------------------------
(* The refinement.                                                          *)

LEMMA AccountType ==
    ASSUME NEW r \in Row
    PROVE  AccountOf(r) \in Books!Account
<1>1. r.paid \in Nat /\ r.recovered \in Nat
  BY Zenon DEF Row
<1>2. (CASE Live(r) -> "engaged" [] Terminal(r) -> "released" [] OTHER -> "none")
          \in Books!Stages
  <2>1. ~(Live(r) /\ Terminal(r))
    BY DEF Live, Terminal, LiveStates, TerminalStates
  <2> QED BY <2>1 DEF Books!Stages
<1> QED BY <1>1, <1>2 DEF AccountOf, Books!Account

\* The stage of an account tells whether its case is live, over or not there.
LEMMA StageOf ==
    ASSUME NEW r \in Row
    PROVE  /\ AccountOf(r).received = r.paid /\ AccountOf(r).claimed = r.recovered
           /\ AccountOf(r).stage = "engaged" <=> Live(r)
           /\ AccountOf(r).stage = "released" <=> Terminal(r)
           /\ AccountOf(r).stage = "none" <=> r.state = "NONE"
<1>1. r.state \in States \cup {"NONE"}
  BY Zenon DEF Row
<1> QED BY <1>1 DEF AccountOf, Live, Terminal, States, LiveStates, TerminalStates

\* What a step does to a case, the ledger does to its account.
LEMMA StepMoves ==
    ASSUME NEW c \in Cases, NEW r \in Row, NEW x, Step(c, r, x)
    PROVE  Books!Move(c, AccountOf(r), AccountOf(x))
<1> DEFINE old == AccountOf(r)
           new == AccountOf(x)
<1>1. x \in Row /\ SoundBooks(c, x) /\ Onward(r, x)
  BY DEF Step, RowOK
<1>2. /\ old.received = r.paid /\ old.claimed = r.recovered
      /\ new.received = x.paid /\ new.claimed = x.recovered
  BY <1>1, StageOf
<1>3. /\ old.stage = "engaged" <=> Live(r)
      /\ old.stage = "released" <=> Terminal(r)
      /\ old.stage = "none" <=> r.state = "NONE"
      /\ new.stage = "engaged" <=> Live(x)
      /\ new.stage = "released" <=> Terminal(x)
      /\ new.stage = "none" <=> x.state = "NONE"
  BY <1>1, StageOf
<1>4. old.stage \in Books!Stages /\ new.stage \in Books!Stages
  BY <1>1, AccountType DEF Books!Account
<1> HIDE DEF old, new
<1>5. Books!StageReached(old.stage, new.stage)
  BY <1>1, <1>3, <1>4 DEF Books!StageReached, Books!Stages, Onward, Terminal
<1>6. Books!Takes(c, old, new)
  BY <1>1, <1>2 DEF Books!Takes, Onward, Credits, SoundBooks
<1>7. Books!Claims(old, new)
  BY <1>1, <1>2, <1>3 DEF Books!Claims, Onward, Credits
<1>8. new.stage = "engaged" => new.received < Amount[c]
  BY <1>1, <1>2, <1>3 DEF SoundBooks, Live
<1> QED BY <1>5, <1>6, <1>7, <1>8 DEF Books!Move, old, new

\* The agent implements the ledger: every handler, committed, rolled back or cut
\* short by a crash, moves the accounts as the agency promised its client.
THEOREM LedgerImplemented == Spec => ImplementsLedger
<1> DEFINE books == [c \in Cases |-> AccountOf(db[c])]
<1>1. Init => Books!LedgerInit
  <2> SUFFICES ASSUME Init PROVE Books!LedgerInit
    OBVIOUS
  <2>1. \A c \in Cases : db[c] \in Row
    BY InitInv DEF CaseInv, RowOK
  <2>2. ASSUME NEW c \in Cases
        PROVE  /\ db[c].paid = 0 /\ db[c].recovered = 0 /\ ~Terminal(db[c])
    BY DEF Init, OpenCase, NoCase, Terminal, TerminalStates
  <2>3. books \in [Cases -> Books!Account]
    BY <2>1, AccountType
  <2>4. ASSUME NEW c \in Cases
        PROVE  /\ books[c].received = 0 /\ books[c].claimed = 0
               /\ books[c].stage \in {"none", "engaged"}
    <3>1. books[c] = AccountOf(db[c]) /\ AccountOf(db[c]).stage \in Books!Stages
      BY <2>1, AccountType DEF Books!Account
    <3> HIDE DEF books
    <3> QED BY <2>1, <2>2, <3>1, StageOf DEF Books!Stages
  <2> QED BY <2>3, <2>4 DEF Books!LedgerInit
<1>2. CaseInv /\ [Next]_vars => [Books!Transaction]_books
  <2> SUFFICES ASSUME CaseInv, [Next]_vars PROVE Books!Transaction
    OBVIOUS
  <2>1. SystemStep
    BY NextInv
  <2>2. \A c \in Cases : db[c] \in Row /\ db'[c] \in Row /\ Step(c, db[c], db'[c])
    BY <2>1 DEF SystemStep, CaseInv, RowOK
  <2>3. books' \in [Cases -> Books!Account]
    BY <2>2, AccountType
  <2>4. \A c \in Cases : Books!Move(c, books[c], books'[c])
    BY <2>2, StepMoves
  <2> QED BY <2>3, <2>4 DEF Books!Transaction
<1> QED BY CaseInvariant, <1>1, <1>2, PTL DEF Spec, ImplementsLedger, Books!LedgerSpec

=============================================================================
