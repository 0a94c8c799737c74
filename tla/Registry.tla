------------------------------ MODULE Registry ------------------------------
(***************************************************************************)
(* The vocabulary every component shares: case states, root causes and the *)
(* playbook registry (app/constants.py and app/policy/playbooks.py).       *)
(***************************************************************************)
EXTENDS Integers, FiniteSets

LiveStates == {"OPEN", "PENDING_APPROVAL"}

TerminalStates == {"RECOVERED", "CLOSED_NOOP", "STOPPED_COMPLIANCE",
                   "STOPPED_FRAUD", "STOPPED_RULE", "ESCALATED"}

States == LiveStates \cup TerminalStates

\* The table has no row for a terminal state: the default lets a closed case
\* move to any other terminal state, and never back to life.
AllowedTransition(frm, to) ==
    \/ frm = "OPEN"
    \/ frm = "PENDING_APPROVAL" /\ to # "PENDING_APPROVAL"
    \/ frm \in TerminalStates   /\ to \in TerminalStates

-----------------------------------------------------------------------------

Causes == {"technical_failure", "insufficient_funds", "auth_failure",
           "instrument_expired", "fraud_suspected", "overdue",
           "partial_balance", "ptp_missed", "documentation_issue",
           "awaiting_ap_approval", "ptp_offered", "invoice_dispute",
           "unknown", "insufficient_context"}

\* Every playbook but escalate_human plans exactly one provider action, so a
\* playbook also names its action.
ActPlaybooks == {"smart_retry", "payment_link_resend", "dunning_reminder",
                 "promise_to_pay", "documentation_fix", "ap_coordination",
                 "promise_accept"}

Playbooks == ActPlaybooks \cup {"escalate_human"}

\* Causes missing here go to a human.
CauseToPlaybook ==
    [c \in Causes |->
        CASE c \in {"technical_failure", "insufficient_funds"} -> "smart_retry"
          [] c \in {"auth_failure", "instrument_expired"} -> "payment_link_resend"
          [] c \in {"overdue", "partial_balance"} -> "dunning_reminder"
          [] c = "ptp_missed" -> "promise_to_pay"
          [] c = "documentation_issue" -> "documentation_fix"
          [] c = "awaiting_ap_approval" -> "ap_coordination"
          [] c = "ptp_offered" -> "promise_accept"
          [] OTHER -> "escalate_human"]

MaxAttempts ==
    [p \in ActPlaybooks |->
        CASE p = "dunning_reminder" -> 3
          [] p \in {"smart_retry", "promise_to_pay", "ap_coordination"} -> 2
          [] OTHER -> 1]

ExhaustReason ==
    [p \in ActPlaybooks |->
        IF p \in {"promise_to_pay", "promise_accept"}
        THEN "PTP_BROKEN" ELSE "LADDER_EXHAUSTED"]

\* Playbooks whose plan numbers its attempts (attempt, reminder_number or
\* followup_number); the idempotency keys of the others always end in "1".
Numbered == {"smart_retry", "dunning_reminder", "promise_to_pay",
             "ap_coordination"}

\* The idempotency keys one case can ever use: <<playbook, marker>>.
Keys == {<<p, n>> : p \in ActPlaybooks, n \in 1 .. 3}

EscalationCodes == {"COMPLIANCE_BANKRUPTCY", "COMPLIANCE_DNC", "COMPLIANCE_AGE",
                    "FRAUD_AVS_MISMATCH", "FRAUD_SUSPICIOUS_ACTIVITY",
                    "FRAUD_REPEATED_AUTH_FAILURES",
                    "LOW_CONFIDENCE", "INVOICE_DISPUTE",
                    "LADDER_EXHAUSTED", "PTP_BROKEN"}
=============================================================================
