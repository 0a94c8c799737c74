------------------------- MODULE MCDecisionPipeline -------------------------
(* Instances of DecisionPipeline for TLC: a day of four slots, of which the *)
(* second and third are contact hours.                                      *)
EXTENDS DecisionPipeline

\* The code's 24, 48 and 72 hours, in their order but shortened, so that whole
\* ladders end below MaxTime.
MCCooldown ==
    [p \in ActPlaybooks |->
        CASE p \in {"smart_retry", "promise_to_pay", "promise_accept"} -> 3
          [] p = "ap_coordination" -> 5
          [] OTHER -> 4]

Opinion(cause, conf, promised) ==
    [cause |-> cause, conf |-> conf, playbook |-> CauseToPlaybook[cause],
     promised |-> promised]

LlmCauses == Causes \ {"insufficient_context"}

\* Every cause, at a confidence of each band, and promises with and without a
\* date.
AllOpinions ==
    {NoOpinion}
    \cup {Opinion(cause, conf, NoTime) : cause \in LlmCauses, conf \in {45, 70}}
    \cup {Opinion("ptp_offered", 70, DayLen)}

\* Letters that hit one pattern each, or two; a promise in words and one in
\* digits, and a dispute too brief for the rules.
Text(says, date, digits, brief) ==
    [says |-> says, date |-> date, digits |-> digits, brief |-> brief]

Correction == Text({"doc_action", "doc_subject", "pay_flow"}, NoTime, FALSE, FALSE)
Dispute    == Text({"dispute"}, NoTime, FALSE, FALSE)
BriefNo    == Text({"dispute"}, NoTime, FALSE, TRUE)
Approval   == Text({"ap_people", "ap_flow"}, NoTime, FALSE, FALSE)
Promise    == Text({"pay_flow"}, 2 * DayLen, FALSE, FALSE)
InDigits   == Text({"pay_flow"}, DayLen, TRUE, FALSE)
Chat       == Text({}, NoTime, FALSE, FALSE)

SomeLetters == {Correction, Dispute, BriefNo, Approval, Promise, InDigits, Chat}

\* Two letters in any order, or one too many for the snapshot.
AllLetters ==
    {<<>>} \cup {<<l>> : l \in SomeLetters} \cup (SomeLetters \X SomeLetters)
    \cup {<<Chat, Promise, Dispute>>, <<Dispute, Approval, Correction>>}

=============================================================================
