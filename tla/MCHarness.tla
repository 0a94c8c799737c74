----------------------------- MODULE MCHarness -----------------------------
(* Instances of Harness for TLC: a small corpus with one case of each kind  *)
(* of milestone.                                                            *)
EXTENDS Harness

CONSTANTS c1, c2, c3

\* The code's 24, 48 and 72 hours, in their order but shortened.
MCCooldown ==
    [p \in ActPlaybooks |->
        CASE p \in {"smart_retry", "promise_to_pay", "promise_accept"} -> 3
          [] p = "ap_coordination" -> 5
          [] OTHER -> 4]

Corpus == {c1, c2, c3}

\* c1: a failed payment, after hours; c2: overdue, above the limit until part
\* of it is paid; c3: a promise, with a part payment the day before it.
MCAmount == [c \in Cases |-> IF c = c2 THEN 9 ELSE 2]
MCDue    == [c \in Cases |-> IF c = c1 THEN 30 ELSE 1]
MCFlags  == [c \in Cases |-> {}]
MCPromised == [c \in Cases |-> IF c = c3 THEN 12 ELSE NoTime]
MCBaseRisk == [c \in Cases |-> 450]
MCStart  == [c \in Cases |-> IF c = c1 THEN 7 ELSE 5]

MCEvent(id, kind, c, code, at, amount, pay) ==
    [id |-> id, kind |-> kind, case |-> c, code |-> code, at |-> at, amount |-> amount,
     pay |-> pay]

MCEvents ==
    {MCEvent(1, "failure", c1, "FUNDS", 7, 2, "p1"),
     MCEvent(2, "money", c2, "UNLISTED", NoTime, 1, "p2"),
     MCEvent(3, "money", c3, "UNLISTED", NoTime, 1, "p3")}

MCOffset == [e \in Events |-> CASE e.id = 1 -> 0 [] e.id = 2 -> 3 [] OTHER -> 4]

MCSeededFails ==
    [c \in Cases |-> IF c = c1 THEN <<[code |-> "FUNDS", at |-> 7]>> ELSE << >>]
MCSeededPaid == [c \in Cases |-> 0]

\* Letters belong to the overdue invoice. What the LLM may read in them:
Correspondents == {c2}

Reading(cause, conf, promised) ==
    [cause |-> cause, conf |-> conf, playbook |-> CauseToPlaybook[cause],
     promised |-> promised]

Readings ==
    {NoOpinion,
     Reading("documentation_issue", 88, NoTime),
     Reading("ptp_offered", 90, 16),
     Reading("invoice_dispute", 92, NoTime)}

BudgetFree == {{}}
=============================================================================
