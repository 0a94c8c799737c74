---------------------------- MODULE OfflineReader ----------------------------
(***************************************************************************)
(* The reader that stands in for the LLM in evaluations: keyword classes   *)
(* over the inbound correspondence, tried in a fixed order                 *)
(* (app/diagnosis/offline.py), and the redacted snapshot it is shown       *)
(* (app/diagnosis/context_builder.py).                                     *)
(*                                                                         *)
(* A letter is what its text contains: the keyword classes it hits, the    *)
(* calendar date it names, if any, whether that date is written in digits  *)
(* only, and whether it is too brief for the rules to take notice.         *)
(* Shorter ones still are read by neither and are left out.                *)
(***************************************************************************)
EXTENDS Diagnosis

CONSTANT SnapshotLimit      \* letters a snapshot holds, the oldest first

ASSUME SnapshotAssumption == SnapshotLimit \in Nat \ {0}

WordClasses == {"doc_action", "doc_subject", "doc_fault", "invoice", "dispute",
                "ap_people", "ap_flow", "pay_flow"}

Letter == [says : SUBSET WordClasses, date : Nat \cup {NoTime},
           digits : BOOLEAN, brief : BOOLEAN]

\* substantive_messages: any of them makes the rules abstain.
Substantive(letters) == \E i \in DOMAIN letters : ~letters[i].brief

\* The redaction takes a date in digits for a telephone number.
Redact(letter) == IF letter.digits THEN [letter EXCEPT !.date = NoTime] ELSE letter

\* build_snapshot: what came first, scrubbed; later letters are not shown.
Snapshot(letters) ==
    [i \in {j \in DOMAIN letters : j <= SnapshotLimit} |-> Redact(letters[i])]

Said(letters) ==
    UNION {Snapshot(letters)[i].says : i \in DOMAIN Snapshot(letters)}

\* _find_date: the first date that can be read.
FindDate(letters) ==
    LET shown == Snapshot(letters)
        dated == {i \in DOMAIN shown : shown[i].date # NoTime}
    IN  IF dated = {} THEN NoTime
        ELSE shown[CHOOSE i \in dated : \A j \in dated : i <= j].date

Today(t) == t - (t % DayLen)

AsksForCorrection(said) ==
    /\ "doc_action" \in said
    /\ \/ "doc_subject" \in said
       \/ {"invoice", "doc_fault"} \subseteq said

Reading(cause, conf, promised) ==
    [cause |-> cause, conf |-> conf, playbook |-> CauseToPlaybook[cause],
     promised |-> promised]

\* Faulty variant: the accounts-payable patterns are tried before the dispute.
OfflineReading_PayableFirst(letters, t) ==
    LET said == Said(letters)
    IN  IF AsksForCorrection(said) THEN Reading("documentation_issue", 88, NoTime)
        ELSE IF {"ap_people", "ap_flow"} \subseteq said
          THEN Reading("awaiting_ap_approval", 85, NoTime)
        ELSE IF "dispute" \in said THEN Reading("invoice_dispute", 92, NoTime)
        ELSE Reading("unknown", 30, NoTime)

\* offline_diagnose: the first pattern that matches names the cause; a promise
\* counts with a date not before today.
OfflineReading(letters, t) ==
    LET said == Said(letters)
        date == FindDate(letters)
    IN  IF AsksForCorrection(said) THEN Reading("documentation_issue", 88, NoTime)
        ELSE IF "dispute" \in said THEN Reading("invoice_dispute", 92, NoTime)
        ELSE IF {"ap_people", "ap_flow"} \subseteq said
          THEN Reading("awaiting_ap_approval", 85, NoTime)
        ELSE IF "pay_flow" \in said /\ date # NoTime /\ date >= Today(t)
          THEN Reading("ptp_offered", 90, date)
        ELSE Reading("unknown", 30, NoTime)
=============================================================================
