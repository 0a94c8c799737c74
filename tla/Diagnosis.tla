----------------------------- MODULE Diagnosis -----------------------------
(***************************************************************************)
(* Why has the money not arrived?  The deterministic rules classifier, the *)
(* optional LLM opinion and their fusion (app/diagnosis and                *)
(* agent.diagnose_case).                                                   *)
(*                                                                         *)
(* Evidence about one case is a record; the operators below read           *)
(*   now       the current time                                            *)
(*   flags     compliance flags of the customer                            *)
(*   days      days overdue                                                *)
(*   fails     failed payments, newest first, each [code, at]              *)
(*   promise   date of the active promise, or NoTime                       *)
(*   messages  is there substantive inbound free text?                     *)
(*   partial   is part of the invoice paid?                                *)
(* Confidences are integers, in percent.                                   *)
(***************************************************************************)
EXTENDS Registry, SequencesExt

CONSTANTS
    MaxDays,    \* days overdue beyond which no customer may be contacted
    DayLen      \* slots of time in a day

ASSUME DiagnosisAssumption == MaxDays \in Nat /\ DayLen \in Nat \ {0}

NoTime == -1

\* Error codes up to the signal sets of policy/rules.py.  "FRAUD_TEXT" is an
\* unlisted code whose description carries a fraud token.
ErrorCodes == {"AVS", "AUTH", "TECHNICAL", "FUNDS", "EXPIRED",
               "FRAUD_TEXT", "UNLISTED"}

Failures == [code : ErrorCodes, at : Nat]

\* Every query sorts failed payments by the time of the attempt, newest first,
\* however late an attempt was reported.
Filed(fails, f) ==
    InsertAt(fails, Cardinality({i \in DOMAIN fails : fails[i].at > f.at}) + 1, f)

FlagTypes == {"BANKRUPTCY", "DNC", "LEGAL_HOLD"}

-----------------------------------------------------------------------------
(* Compliance hits, in the order _pick_compliance_code prefers them.        *)

ComplianceHits(e) ==
    {code \in {"COMPLIANCE_BANKRUPTCY", "COMPLIANCE_DNC", "COMPLIANCE_AGE"} :
        \/ code = "COMPLIANCE_BANKRUPTCY" /\ "BANKRUPTCY" \in e.flags
        \/ code = "COMPLIANCE_DNC" /\ e.flags \cap {"DNC", "LEGAL_HOLD"} # {}
        \/ code = "COMPLIANCE_AGE" /\ e.days > MaxDays}

-----------------------------------------------------------------------------
(* The rules classifier.                                                    *)

Rule(cause, conf) == [cause |-> cause, conf |-> conf]

CodeRules ==
    [code \in ErrorCodes |->
        CASE code = "AVS"        -> Rule("fraud_suspected", 98)
          [] code = "AUTH"       -> Rule("auth_failure", 90)
          [] code = "TECHNICAL"  -> Rule("technical_failure", 92)
          [] code = "FUNDS"      -> Rule("insufficient_funds", 90)
          [] code = "EXPIRED"    -> Rule("instrument_expired", 95)
          [] code = "FRAUD_TEXT" -> Rule("fraud_suspected", 90)
          [] OTHER               -> Rule("unknown", 40)]

StructuredSignalConf == 85

\* Two failures with the code of the latest one raise its confidence.
LatestFailure(e) ==
    LET base  == CodeRules[e.fails[1].code]
        again == \E i \in 2 .. Len(e.fails) : e.fails[i].code = e.fails[1].code
        conf  == IF again THEN base.conf + 10 ELSE base.conf
    IN  Rule(base.cause, IF conf > 100 THEN 100 ELSE conf)

PromiseBroken(e) == e.promise # NoTime /\ e.promise < e.now

HardSignal(e) ==
    /\ e.fails # << >>
    /\ LatestFailure(e).conf >= StructuredSignalConf

InvoiceState(e) ==
    IF e.partial THEN Rule("partial_balance", 85)
    ELSE Rule("overdue", IF e.days > 0 THEN 90 ELSE 50)

Classify(e) ==
    IF ComplianceHits(e) # {} THEN Rule("overdue", 100)
    ELSE IF PromiseBroken(e)  THEN Rule("ptp_missed", 95)
    ELSE IF HardSignal(e)     THEN LatestFailure(e)
    ELSE IF e.messages        THEN Rule("insufficient_context", 35)
    ELSE InvoiceState(e)

-----------------------------------------------------------------------------
(* The LLM opinion is external: any answer _validate lets through.  It can  *)
(* never abstain, and carries a date, that is a midnight, only with an      *)
(* offered promise.                                                         *)

NoOpinion == [cause |-> "none", conf |-> 0, playbook |-> "", promised |-> NoTime]

ValidOpinion(o) ==
    /\ o.cause \in Causes \ {"insufficient_context"}
    /\ o.conf \in 0 .. 100
    /\ o.playbook \in Playbooks \cup {""}
    /\ o.promised \in Nat \cup {NoTime}
    /\ o.promised # NoTime => o.cause = "ptp_offered" /\ o.promised % DayLen = 0

\* Faulty variant: a laxer threshold.
ApprovalConfLow_Lax == 40

ApprovalConfLow == 50

Diag(cause, conf, path, flagged, playbook) ==
    [cause |-> cause, conf |-> conf, path |-> path, flagged |-> flagged,
     playbook |-> playbook]

Fuse(rule, llm) ==
    LET abstained == rule.cause = "insufficient_context"
        rulePb    == CauseToPlaybook[rule.cause]
        sum       == rule.conf + llm.conf
        lesser    == IF rule.conf < llm.conf THEN rule.conf ELSE llm.conf
    IN  CASE llm = NoOpinion ->
                Diag(rule.cause, rule.conf, "rules",
                     abstained \/ rule.conf < ApprovalConfLow,
                     IF abstained THEN "" ELSE rulePb)
          [] llm # NoOpinion /\ abstained /\ llm.cause = "unknown" ->
                Diag("insufficient_context", 35, "llm", TRUE, "")
          [] llm # NoOpinion /\ abstained /\ llm.cause # "unknown" ->
                Diag(llm.cause, llm.conf, "llm", llm.conf < ApprovalConfLow,
                     llm.playbook)
          [] llm # NoOpinion /\ ~abstained /\ rule.cause = llm.cause ->
                Diag(rule.cause, sum \div 2, "fused",
                     sum < 2 * ApprovalConfLow,
                     IF llm.playbook # "" THEN llm.playbook ELSE rulePb)
          [] OTHER ->
                Diag(rule.cause, lesser, "fused", TRUE, "")

\* Faulty variant: the more confident of rules and LLM names the cause.
DiagnoseCase_MoreConfident(e, llm) ==
    LET f == Fuse(Classify(e), llm)
    IN  [cause |-> IF llm.conf > f.conf THEN llm.cause ELSE f.cause,
         flagged |-> f.flagged, conf |-> f.conf, playbook |-> f.playbook,
         promised |-> llm.promised]

(***************************************************************************)
(* What diagnose_case hands to the policy engine: the fused diagnosis, the *)
(* low-confidence LLM-only one turned into an abstention, plus the date of *)
(* an offered promise.                                                     *)
(***************************************************************************)
DiagnoseCase(e, llm) ==
    LET f == Fuse(Classify(e), llm)
        blind == f.path = "llm" /\ f.flagged
        cause == IF blind THEN "insufficient_context" ELSE f.cause
    IN  [cause    |-> cause,
         flagged  |-> f.flagged,
         conf     |-> f.conf,
         playbook |-> IF blind THEN "" ELSE f.playbook,
         promised |-> IF cause = "ptp_offered" THEN llm.promised ELSE NoTime]
=============================================================================
