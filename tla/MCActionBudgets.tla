-------------------------- MODULE MCActionBudgets --------------------------
(* Instances of ActionBudgets for TLC. *)
EXTENDS ActionBudgets

CONSTANTS c1, c2, c3, k1, k2

MCCases == {c1, c2, c3}

\* c1 and c2 are of one customer.
MCCustomerOf == [c \in MCCases |-> IF c = c3 THEN k2 ELSE k1]

\* c2 needs a human.
OneLarge == [c \in MCCases |-> IF c = c2 THEN 9 ELSE 2]
AllSmall == [c \in MCCases |-> 2]

MCCooldown == [p \in ActPlaybooks |-> 3]
=============================================================================
