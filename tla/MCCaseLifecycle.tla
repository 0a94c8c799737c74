-------------------------- MODULE MCCaseLifecycle --------------------------
(* Instances of CaseLifecycle for TLC: a day of two to four slots, of which *)
(* one or two are contact hours, and an age limit of two days.              *)
EXTENDS CaseLifecycle

CONSTANT c1

\* The code's 24, 48 and 72 hours, in their order but shortened, so that whole
\* ladders end below MaxTime.
MCCooldown ==
    [p \in ActPlaybooks |->
        CASE p \in {"smart_retry", "promise_to_pay", "promise_accept"} -> 3
          [] p = "ap_coordination" -> 5
          [] OTHER -> 4]

OneCase == {c1}

Amount2  == [c \in Cases |-> 2]
Amount3  == [c \in Cases |-> 3]
Due1     == [c \in Cases |-> 1]
NoFlags  == [c \in Cases |-> {}]
NobodyPromised == [c \in Cases |-> NoTime]
Risky    == [c \in Cases |-> 450]

\* At this base only a failed payment lifts a case over the risk threshold.
Unremarkable == [c \in Cases |-> 300]

RulesOnly  == {NoOpinion}
BudgetFree == {{}}

Event(id, kind, code, at, pay) ==
    [id |-> id, kind |-> kind, case |-> c1, code |-> code, at |-> at, pay |-> pay,
     amount |-> IF kind = "money" THEN 1 ELSE 2]

NoEvents == {}

\* A failed payment that succeeds at the second retry, and partial payments.
FailureAndParts ==
    {Event(1, "failure", "FUNDS", 0, "p1"),
     Event(2, "money", "UNLISTED", NoTime, "p2"),
     Event(3, "money", "UNLISTED", NoTime, "p3")}

\* Repeated AUTH and an AVS failure, reported late, and an ordinary failure that
\* was attempted later or at the same time; the last AUTH says nothing of when.
FraudSignals ==
    {Event(1, "failure", "AUTH", 0, "p1"),
     Event(2, "failure", "AUTH", 1, "p2"),
     Event(3, "failure", "AUTH", NoTime, "p3"),
     Event(4, "failure", "AVS", 0, "p4"),
     Event(5, "failure", "FUNDS", 1, "p5"),
     Event(6, "money", "UNLISTED", NoTime, "p6")}
=============================================================================
