-------------------------- MODULE DecisionPipeline --------------------------
(***************************************************************************)
(* What the agent would decide about one invoice as the facts about it     *)
(* pile up: failed payments reported in any order, free text, part         *)
(* payments, promises and actions already taken, under every opinion the   *)
(* LLM may hold and every reading the offline reader may make of the       *)
(* correspondence (diagnose_case followed by plan_action).                 *)
(***************************************************************************)
EXTENDS PolicyEngine, OfflineReader, Functions

CONSTANTS
    Opinions,       \* what the LLM may answer, NoOpinion included
    Letters,        \* the sequences of letters that may have come
    Codes,          \* the error codes that occur
    Due,            \* the due date
    Amount,         \* the amount billed
    MaxFails,       \* bound: number of failed payments
    MaxActions,     \* bound: number of actions executed
    MaxTime         \* bound: the clock stops here

ASSUME PipelineAssumption ==
    /\ NoOpinion \in Opinions /\ Codes \subseteq ErrorCodes
    /\ \A o \in Opinions : o = NoOpinion \/ ValidOpinion(o)
    /\ Letters \subseteq Seq(Letter)
    /\ Due \in Nat /\ Amount \in Nat \ {0, 1} /\ MaxFails \in Nat
    /\ MaxActions \in Nat /\ MaxTime \in Nat

VARIABLES
    now,        \* the clock
    fails,      \* failed payments, newest attempt first
    messages,   \* is there substantive inbound free text?
    partial,    \* is part of the invoice paid?
    promise,    \* date of the active promise, or NoTime
    attempts,   \* how often each playbook was executed
    lastAt      \* when it last was

vars == <<now, fails, messages, partial, promise, attempts, lastAt>>

-----------------------------------------------------------------------------
(* The facts plan_action and classify read from the database at time t.     *)

DaysOverdue(t) == LET days == (t \div DayLen) - (Due \div DayLen)
                  IN  IF days > 0 THEN days ELSE 0

Facts(t, full) ==
    [now |-> t, flags |-> {}, days |-> DaysOverdue(t), fails |-> fails,
     promise |-> promise, messages |-> messages, partial |-> partial,
     attempts |-> attempts, lastAt |-> lastAt, full |-> full,
     amount |-> IF partial THEN Amount - 1 ELSE Amount]

Decision(t, full, opinion) ==
    PlanAction(Facts(t, full), DiagnoseCase(Facts(t, full), opinion))

\* What may have been written, as far as the case knows of it.
Written == {l \in Letters : Substantive(l) = messages}

\* With a key the LLM is asked, without one the offline reader or nobody.
Answers == Opinions \cup {OfflineReading(l, now) : l \in Written}

\* step_case asks for a decision only when no promise lies ahead.
Consulted == promise <= now

-----------------------------------------------------------------------------

Init ==
    /\ now = 0
    /\ fails = << >>
    /\ messages = FALSE
    /\ partial = FALSE
    /\ promise = NoTime
    /\ attempts = [p \in ActPlaybooks |-> 0]
    /\ lastAt = [p \in ActPlaybooks |-> NoTime]

\* A failure is filed under the time of the attempt, however late it is reported.
PaymentFails ==
    /\ Len(fails) < MaxFails
    /\ \E code \in Codes, at \in 0 .. now :
          fails' = Filed(fails, [code |-> code, at |-> at])
    /\ UNCHANGED <<now, messages, partial, promise, attempts, lastAt>>

MessageArrives ==
    /\ ~messages
    /\ messages' = TRUE
    /\ UNCHANGED <<now, fails, partial, promise, attempts, lastAt>>

PartIsPaid ==
    /\ ~partial
    /\ partial' = TRUE
    /\ UNCHANGED <<now, fails, messages, promise, attempts, lastAt>>

\* An authorized action is executed; the confirmed promise is recorded.
ActionExecutes ==
    /\ Consulted
    /\ SumFunction(attempts) < MaxActions
    /\ \E o \in Answers :
         LET plan == Decision(now, {}, o)
             date == DiagnoseCase(Facts(now, {}), o).promised
         IN  /\ plan.verdict \in {"APPROVED", "REQUIRES_APPROVAL"}
             /\ attempts' = [attempts EXCEPT ![plan.playbook] = @ + 1]
             /\ lastAt' = [lastAt EXCEPT ![plan.playbook] = now]
             /\ promise' = IF plan.playbook = "promise_accept" /\ promise = NoTime
                           THEN date ELSE promise
    /\ UNCHANGED <<now, fails, messages, partial>>

AdvanceClock ==
    /\ now < MaxTime
    /\ now' = now + 1
    /\ UNCHANGED <<fails, messages, partial, promise, attempts, lastAt>>

Next ==
    \/ PaymentFails
    \/ MessageArrives
    \/ PartIsPaid
    \/ ActionExecutes
    \/ AdvanceClock

Spec == Init /\ [][Next]_vars

-----------------------------------------------------------------------------
(* Invariants, about every decision the pipeline could be asked for now.    *)

\* Where persisted facts decide (the rules do not abstain), an opinion may hold
\* the agent back but never sets it going: what it does on its own it would do
\* without the opinion, and what it puts before a human is what the rules would
\* do (fuse, diagnose_case).
FactsOverrideOpinions ==
    Classify(Facts(now, {})).cause # "insufficient_context" =>
        \A o \in Answers :
            LET plan  == Decision(now, {}, o)
                rules == Decision(now, {}, NoOpinion)
            IN  /\ plan.verdict = "APPROVED" => plan = rules
                /\ plan.verdict = "REQUIRES_APPROVAL" =>
                       /\ rules.verdict \in {"APPROVED", "REQUIRES_APPROVAL"}
                       /\ rules.playbook = plan.playbook

\* On free text the rules cannot read, no reading, a weak or an unknown one
\* never leads to an action: the case goes to a human or is stopped.
WeakReadingsGoToHumans ==
    Classify(Facts(now, {})).cause = "insufficient_context" =>
        \A o \in Opinions :
            o = NoOpinion \/ o.conf < 50 \/ o.cause \in {"unknown", "invoice_dispute"} =>
                Decision(now, {}, o).verdict \in {"BLOCKED", "ESCALATE"}

\* A deferred case comes back later, when what deferred it is over: it is not
\* put off twice for the same cooldown or for the same night.
DeferralOutlastsItsCause ==
    \A o \in Opinions, full \in SUBSET Budgets :
        LET plan == Decision(now, full, o)
            p    == plan.playbook
        IN  plan.verdict = "DEFERRED" =>
                /\ plan.deferTo > now
                /\ InCooldown(Facts(now, full), p) =>
                       ~InCooldown(Facts(plan.deferTo, full), p)
                /\ ~InCooldown(Facts(now, full), p) /\ ~InContactWindow(now) =>
                       InContactWindow(plan.deferTo)

\* A customer whose letters dispute the invoice is not collected from, whatever
\* else they say: where the letters decide, a human takes over, or the invoice
\* is sent again because its correction was asked for (offline_diagnose).
DisputeNeverCollected ==
    Classify(Facts(now, {})).cause = "insufficient_context" =>
        \A l \in Written : "dispute" \in Said(l) =>
            LET plan == Decision(now, {}, OfflineReading(l, now))
            IN  plan.verdict \in {"BLOCKED", "ESCALATE"} \/ plan.playbook = "documentation_fix"

-----------------------------------------------------------------------------
(* What the repository says of the pipeline and the code does not do:       *)
(* refuted by a run.                                                        *)

\* fusion.py: when the rules and the LLM name different causes and the rules did
\* not abstain, the agent never acts on its own.  Asked for a case there is: a
\* payment failed or the invoice is overdue.
DisagreementNeverActs ==
    LET rules == Classify(Facts(now, {})).cause
    IN  Consulted /\ (fails # << >> \/ Due < now) /\ rules # "insufficient_context" =>
            \A o \in Opinions \ {NoOpinion} :
                o.cause # rules => Decision(now, {}, o).verdict # "APPROVED"

=============================================================================
