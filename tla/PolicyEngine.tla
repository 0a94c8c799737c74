---------------------------- MODULE PolicyEngine ----------------------------
(***************************************************************************)
(* The only authorizer of side effects: plan_action (app/policy/engine.py) *)
(* and the rules it consults (app/policy/rules.py).                        *)
(*                                                                         *)
(* Time is an integer number of slots, DayLen of them a day.  The evidence *)
(* record of Diagnosis carries, for the policy, also                       *)
(*   attempts  [ActPlaybooks -> Nat], how often each playbook was executed *)
(*   lastAt    [ActPlaybooks -> time or NoTime], when it last was          *)
(*   full      the action budgets now used up                              *)
(*   amount    the amount at risk                                          *)
(***************************************************************************)
EXTENDS Diagnosis

CONSTANTS
    OpenHour, CloseHour,          \* the contact window is [OpenHour, CloseHour)
    Cooldown,                     \* [ActPlaybooks -> slots between executions]
    FraudWindow,                  \* how long a failed payment counts for fraud
    HighValue,                    \* from this amount on a human must approve
    Mode                          \* "autonomous" or "supervised"

ASSUME PolicyAssumption ==
    /\ OpenHour \in 0 .. DayLen - 1 /\ CloseHour \in Nat
    /\ Cooldown \in [ActPlaybooks -> Nat \ {0}]
    /\ FraudWindow \in Nat /\ HighValue \in Nat
    /\ Mode \in {"autonomous", "supervised"}

Budgets == {"CUSTOMER_CAP", "GLOBAL_BUDGET"}

Hour(t) == t % DayLen

InContactWindow(t) == OpenHour <= Hour(t) /\ Hour(t) < CloseHour

\* Faulty variant: always today's opening.
NextContactWindow_Today(t) == t - Hour(t) + OpenHour

\* Today's opening, or tomorrow's when that is not in the future.
NextContactWindow(t) ==
    LET today == t - Hour(t) + OpenHour
    IN  IF today <= t THEN today + DayLen ELSE today

-----------------------------------------------------------------------------
(* Rules.                                                                   *)

Recent(e) == {i \in 1 .. Len(e.fails) : e.fails[i].at >= e.now - FraudWindow}

RecentWith(e, code) == {i \in Recent(e) : e.fails[i].code = code}

FraudHits(e) ==
    {hit \in {"FRAUD_AVS_MISMATCH", "FRAUD_SUSPICIOUS_ACTIVITY",
              "FRAUD_REPEATED_AUTH_FAILURES"} :
        \/ hit = "FRAUD_AVS_MISMATCH" /\ 1 \in RecentWith(e, "AVS")
        \/ hit = "FRAUD_SUSPICIOUS_ACTIVITY" /\ RecentWith(e, "FRAUD_TEXT") # {}
        \/ hit = "FRAUD_REPEATED_AUTH_FAILURES"
           /\ Cardinality(RecentWith(e, "AUTH")) >= 3}

\* The code a set of hits is filed under: the first in the order of the rules.
FirstOf(hits, order) == order[CHOOSE i \in DOMAIN order :
    order[i] \in hits /\ \A j \in 1 .. i - 1 : order[j] \notin hits]

ComplianceOrder == <<"COMPLIANCE_BANKRUPTCY", "COMPLIANCE_DNC", "COMPLIANCE_AGE">>
FraudOrder == <<"FRAUD_AVS_MISMATCH", "FRAUD_SUSPICIOUS_ACTIVITY",
                "FRAUD_REPEATED_AUTH_FAILURES">>

AttemptsExhausted(e, p) == e.attempts[p] >= MaxAttempts[p]

InCooldown(e, p) == e.lastAt[p] # NoTime /\ e.now - e.lastAt[p] < Cooldown[p]

\* Faulty variant: the contact window is left to the scheduler.
Deferrable_AnyHour(e, p) == InCooldown(e, p) \/ e.full # {}

\* Soft hits, which only defer: cooldown, contact hours, full budgets.
Deferrable(e, p) ==
    InCooldown(e, p) \/ ~InContactWindow(e.now) \/ e.full # {}

\* The first soft hit decides for how long.
DeferTo(e, p) ==
    IF InCooldown(e, p) THEN e.now + Cooldown[p]
    ELSE IF ~InContactWindow(e.now) THEN NextContactWindow(e.now)
    ELSE e.now + 1

-----------------------------------------------------------------------------
(* plan_action.                                                             *)

Plan(verdict, playbook, code, stop, deferTo) ==
    [verdict |-> verdict, playbook |-> playbook, code |-> code, stop |-> stop,
     deferTo |-> deferTo]

Verdicts == {"BLOCKED", "ESCALATE", "DEFERRED", "REQUIRES_APPROVAL", "APPROVED"}

Blocked(stop, code) == Plan("BLOCKED", "escalate_human", code, stop, NoTime)
ToHuman(p, code)    == Plan("ESCALATE", p, code, "ESCALATED", NoTime)

\* Faulty variant: the limit itself is still autonomous.
NeedsApproval_AboveLimit(e) == e.amount > HighValue \/ Mode = "supervised"

NeedsApproval(e) == e.amount >= HighValue \/ Mode = "supervised"

\* Faulty variant: fraud rules are left to the diagnosis.
HardStop_ComplianceOnly(e) == ComplianceHits(e) # {}

\* No playbook is even considered for such a case.
HardStop(e) == ComplianceHits(e) # {} \/ FraudHits(e) # {}

StopPlan(e) ==
    IF ComplianceHits(e) # {}
    THEN Blocked("STOPPED_COMPLIANCE", FirstOf(ComplianceHits(e), ComplianceOrder))
    ELSE Blocked("STOPPED_FRAUD", FirstOf(FraudHits(e), FraudOrder))

PlanAction(e, d) ==
    LET p == CauseToPlaybook[d.cause]
    IN  IF HardStop(e) THEN StopPlan(e)
        ELSE IF p = "promise_accept" /\ d.promised = NoTime
          THEN ToHuman(p, "LOW_CONFIDENCE")
        ELSE IF p = "escalate_human"
          THEN ToHuman(p, IF d.cause = "invoice_dispute"
                          THEN "INVOICE_DISPUTE" ELSE "LOW_CONFIDENCE")
        ELSE IF AttemptsExhausted(e, p) THEN ToHuman(p, ExhaustReason[p])
        ELSE IF Deferrable(e, p)
          THEN Plan("DEFERRED", p, "", "", DeferTo(e, p))
        ELSE Plan(IF NeedsApproval(e) THEN "REQUIRES_APPROVAL" ELSE "APPROVED",
                  p, "", "", NoTime)
=============================================================================
