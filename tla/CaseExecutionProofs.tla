------------------------ MODULE CaseExecutionProofs ------------------------
(***************************************************************************)
(* Proofs about what CaseLifecycle executes, and when: cooldowns, contact  *)
(* hours, promises, fraud signals, provider calls and payments, for every  *)
(* value of the constants.                                                 *)
(*                                                                         *)
(* As in CaseLifecycleProofs the argument is made row by row.  SafeRow is  *)
(* what a row satisfies at time t between any two steps of a handler, and  *)
(* Advance what a step may do to a row on the agent's own authority.       *)
(***************************************************************************)
EXTENDS CaseLifecycleProofs

\* The attempts before k were made, each of them its cooldown before time t.
Before(r, k, t) ==
    \A m \in 1 .. k[2] - 1 :
        LET a == r.acts[<<k[1], m>>]
        IN  Done(a) /\ t - a.at >= Cooldown[k[1]]

\* In contact hours, and before the age limit.
Compliant(c, t) == InContactWindow(t) /\ DaysOverdue(c, t) <= MaxDays

SoundAct(c, r, k, t) ==
    LET a == r.acts[k] IN
    /\ a.status # "ABSENT" => a.at \in 0 .. t /\ Before(r, k, a.at)
    /\ a.status = "PENDING_APPROVAL" => a.verdict = "REQUIRES_APPROVAL"
    /\ a.hint # "none" => Done(a)
    /\ a.hint = "waiting" => a.hintAmt >= Outstanding(c, r)
    /\ Done(a) /\ a.verdict = "APPROVED" => Compliant(c, a.at)

Untouched(r) == \A k \in Keys : r.acts[k].status = "ABSENT"

SafeRow(c, r, t) ==
    /\ \A k \in Keys : SoundAct(c, r, k, t)
    /\ r.state = "NONE" \/ r.risk < ActionRiskMin => Untouched(r)

\* The provider was called once under the keys of executed actions, and under
\* no others.  Only a rollback forgets a call.
CallsMatch(r) == \A k \in Keys : /\ r.calls[k] <= 1
                                 /\ r.calls[k] > 0 => Done(r.acts[k])

NewlyDone(r, x) == {k \in Keys : ~Done(r.acts[k]) /\ Done(x.acts[k])}

Hits(r, t) == FraudHits([now |-> t, fails |-> r.fails])

ShowsFraud(r, t) == Hits(r, t) # {}

\* Money, promises, events, executed actions and spent payments are never lost.
Kept(r, x) ==
    /\ r.paid <= x.paid
    /\ r.promise # NoTime => x.promise = r.promise
    /\ r.seen \subseteq x.seen
    /\ \A k \in Keys : /\ Done(r.acts[k]) => Done(x.acts[k])
                       /\ r.acts[k].hint = "applied" => x.acts[k].hint = "applied"
    /\ CallsMatch(r) => CallsMatch(x)

\* Money has a source that was not used before.
Explained(c, r, x) ==
    x.paid # r.paid =>
        \/ \E e \in Events : e.case = c /\ e.id \in x.seen \ r.seen
        \/ \E k \in Keys : x.acts[k].hint = "applied" /\ r.acts[k].hint # "applied"

\* What the agent may execute without asking.
Unattended(c, r, x, t) ==
    NewlyDone(r, x) # {} => r.promise <= t /\ Outstanding(c, x) < HighValue

Advance(c, r, x, t) ==
    /\ SafeRow(c, x, t)
    /\ Kept(r, x)
    /\ Explained(c, r, x)
    /\ Unattended(c, r, x, t)

\* A step that reads no event looks at the failures before it acts.
Looks(r, x, t) ==
    x.fails = r.fails /\ (NewlyDone(r, x) # {} => ~ShowsFraud(x, t))

-----------------------------------------------------------------------------
(* Rows.                                                                    *)

LEMMA RowFields ==
    ASSUME NEW c, NEW r, RowOK(c, r)
    PROVE  /\ r \in Row /\ r.paid \in Nat /\ r.promise \in Times /\ r.risk \in Nat
           /\ r.acts \in [Keys -> Act] /\ r.calls \in [Keys -> 0 .. MaxCalls]
BY Zenon DEF RowOK, Row, Times

LEMMA OutstandingFalls ==
    ASSUME NEW c \in Cases, NEW r, RowOK(c, r), NEW x, RowOK(c, x), r.paid <= x.paid
    PROVE  Outstanding(c, x) <= Outstanding(c, r)
<1>1. Amount[c] \in Nat /\ r.paid \in Nat /\ x.paid \in Nat
  BY RowFields, LifecycleAssumption
<1> QED BY <1>1 DEF Outstanding, MaxOf

LEMMA EarlierKeys ==
    ASSUME NEW k \in Keys, NEW m \in 1 .. k[2] - 1
    PROVE  <<k[1], m>> \in Keys
BY DEF Keys

LEMMA AdvanceTransitive ==
    ASSUME NEW c \in Cases, NEW t \in Nat, NEW r, RowOK(c, r), NEW x, RowOK(c, x),
           NEW y, RowOK(c, y), Advance(c, r, x, t), Advance(c, x, y, t)
    PROVE  Advance(c, r, y, t)
<1>1. Kept(r, x) /\ Kept(x, y)
  BY DEF Advance
<1>2. Kept(r, y)
  <2>1. r.paid <= y.paid
    BY <1>1, RowFields DEF Kept
  <2> QED BY <1>1, <2>1 DEF Kept
<1>3. Explained(c, r, y)
  BY <1>1 DEF Advance, Explained, Kept
<1>4. Unattended(c, r, y, t)
  <2> SUFFICES ASSUME NEW k \in NewlyDone(r, y)
               PROVE  r.promise <= t /\ Outstanding(c, y) < HighValue
    BY DEF Unattended
  <2>1. /\ Outstanding(c, y) \in Nat /\ Outstanding(c, x) \in Nat
        /\ Outstanding(c, y) <= Outstanding(c, x) /\ HighValue \in Nat
    BY <1>1, OutstandingFalls, RowFields, BalanceType, PolicyAssumption DEF Kept
  <2>2. CASE k \in NewlyDone(r, x)
    <3>1. r.promise <= t /\ Outstanding(c, x) < HighValue
      BY <2>2 DEF Advance, Unattended
    <3> QED BY <2>1, <3>1
  <2>3. CASE k \in NewlyDone(x, y)
    <3>1. x.promise <= t /\ Outstanding(c, y) < HighValue
      BY <2>3 DEF Advance, Unattended
    <3>2. r.promise <= t
      BY <1>1, <3>1 DEF Kept, NoTime
    <3> QED BY <3>1, <3>2
  <2> QED BY <2>2, <2>3 DEF NewlyDone
<1> QED BY <1>2, <1>3, <1>4 DEF Advance

LEMMA LooksTransitive ==
    ASSUME NEW t, NEW r, NEW x, NEW y, Looks(r, x, t), Looks(x, y, t)
    PROVE  Looks(r, y, t)
<1>1. NewlyDone(r, y) \subseteq NewlyDone(r, x) \cup NewlyDone(x, y)
  BY DEF NewlyDone
<1> QED BY <1>1 DEF Looks, ShowsFraud, Hits

\* An act that is not executed: it may be withdrawn, or its payment consumed.
SameAct(a, b) ==
    /\ b.at = a.at /\ b.verdict = a.verdict /\ b.hintAmt = a.hintAmt
    /\ Done(b) <=> Done(a)
    /\ b.status = "ABSENT" <=> a.status = "ABSENT"
    /\ b.status = "PENDING_APPROVAL" => a.status = "PENDING_APPROVAL"
    /\ b.hint = a.hint \/ (b.hint = "applied" /\ a.hint # "none")

\* A step that executes nothing.
LEMMA QuietAdvance ==
    ASSUME NEW c \in Cases, NEW t \in Nat, NEW r, RowOK(c, r), SafeRow(c, r, t),
           NEW x, Step(c, r, x),
           \A k \in Keys : SameAct(r.acts[k], x.acts[k]),
           x.calls = r.calls, x.promise = r.promise, r.seen \subseteq x.seen,
           x.risk = r.risk \/ r.state = "NONE",
           Explained(c, r, x)
    PROVE  Advance(c, r, x, t) /\ NewlyDone(r, x) = {}
<1>1. RowOK(c, x) /\ r.paid <= x.paid /\ (x.state = "NONE" => r.state = "NONE")
  BY DEF Step, Onward, Credits
<1>2. Outstanding(c, x) <= Outstanding(c, r)
  BY <1>1, OutstandingFalls
<1>3. NewlyDone(r, x) = {}
  BY DEF NewlyDone, SameAct
<1>4. Kept(r, x)
  <2>1. CallsMatch(r) => CallsMatch(x)
    BY DEF CallsMatch, SameAct
  <2>2. \A k \in Keys : r.acts[k].hint = "applied" => x.acts[k].hint = "applied"
    BY DEF SameAct
  <2> QED BY <1>1, <2>1, <2>2 DEF Kept, SameAct
<1>5. SafeRow(c, x, t)
  <2>1. ASSUME NEW k \in Keys
        PROVE  SoundAct(c, x, k, t)
    <3>1. SoundAct(c, r, k, t) /\ SameAct(r.acts[k], x.acts[k])
      BY DEF SafeRow
    <3>2. \A s : Before(r, k, s) => Before(x, k, s)
      <4>1. \A m \in 1 .. k[2] - 1 : <<k[1], m>> \in Keys
        BY DEF Keys
      <4> QED BY <4>1 DEF Before, SameAct
    <3>3. Outstanding(c, x) \in Nat /\ Outstanding(c, r) \in Nat /\ r.acts[k].hintAmt \in Nat
      BY <1>1, BalanceType, RowFields DEF Act
    <3>4. x.acts[k].hint = "waiting" => x.acts[k].hintAmt >= Outstanding(c, x)
      <4>1. x.acts[k].hint = "waiting" => r.acts[k].hint = "waiting"
        BY <3>1 DEF SameAct
      <4>2. x.acts[k].hintAmt = r.acts[k].hintAmt
        BY <3>1 DEF SameAct
      <4>3. r.acts[k].hint = "waiting" => r.acts[k].hintAmt >= Outstanding(c, r)
        BY <3>1 DEF SoundAct
      <4> QED BY <1>2, <3>3, <4>1, <4>2, <4>3
    <3> QED BY <3>1, <3>2, <3>4 DEF SoundAct, SameAct
  <2>2. x.state = "NONE" \/ x.risk < ActionRiskMin => Untouched(x)
    BY <1>1 DEF SafeRow, Untouched, SameAct
  <2> QED BY <2>1, <2>2 DEF SafeRow
<1> QED BY <1>3, <1>4, <1>5 DEF Advance, Unattended

-----------------------------------------------------------------------------
(* Single changes of a row.                                                 *)

\* A step that executes nothing and reads no event.
Quiet(c, r, x, t) ==
    /\ Advance(c, r, x, t)
    /\ x.fails = r.fails
    /\ \A k \in Keys : SameAct(r.acts[k], x.acts[k])

LEMMA QuietLooks ==
    ASSUME NEW c, NEW t, NEW r, NEW x, Quiet(c, r, x, t)
    PROVE  NewlyDone(r, x) = {} /\ Looks(r, x, t)
BY DEF Quiet, NewlyDone, SameAct, Looks

LEMMA SameActReflexive ==
    ASSUME NEW a
    PROVE  SameAct(a, a)
BY DEF SameAct

LEMMA QuietReflexive ==
    ASSUME NEW c \in Cases, NEW t \in Nat, NEW r, RowOK(c, r), SafeRow(c, r, t)
    PROVE  Quiet(c, r, r, t)
<1>1. Step(c, r, r) /\ \A k \in Keys : SameAct(r.acts[k], r.acts[k])
  BY StepReflexive, SameActReflexive
<1>2. Advance(c, r, r, t)
  BY <1>1, QuietAdvance DEF Explained
<1> QED BY <1>1, <1>2 DEF Quiet

\* A step that leaves the balance, the promise and the acts alone.
LEMMA PlainStep ==
    ASSUME NEW c \in Cases, NEW t \in Nat, NEW r, RowOK(c, r), SafeRow(c, r, t),
           NEW x, Step(c, r, x),
           x.paid = r.paid, x.fails = r.fails, x.seen = r.seen, x.acts = r.acts,
           x.calls = r.calls, x.promise = r.promise,
           x.risk = r.risk \/ r.state = "NONE"
    PROVE  Quiet(c, r, x, t)
<1>1. \A k \in Keys : SameAct(r.acts[k], x.acts[k])
  BY SameActReflexive
<1>2. Advance(c, r, x, t)
  BY <1>1, QuietAdvance DEF Explained
<1> QED BY <1>1, <1>2 DEF Quiet

LEMMA ScheduleQuiet ==
    ASSUME NEW c \in Cases, NEW t \in Nat, NEW r, RowOK(c, r), SafeRow(c, r, t),
           NEW u \in Nat
    PROVE  Quiet(c, r, [r EXCEPT !.nextAt = u], t)
<1> DEFINE x == [r EXCEPT !.nextAt = u]
<1>1. Step(c, r, x)
  BY ScheduleStep
<1>2. /\ x.paid = r.paid /\ x.fails = r.fails /\ x.seen = r.seen /\ x.acts = r.acts
      /\ x.calls = r.calls /\ x.promise = r.promise /\ x.risk = r.risk
  BY RowFields DEF Row
<1> HIDE DEF x
<1> QED BY <1>1, <1>2, PlainStep DEF x

LEMMA EscalateQuiet ==
    ASSUME NEW c \in Cases, NEW t \in Nat, NEW r, RowOK(c, r), SafeRow(c, r, t),
           NEW code \in EscalationCodes, NEW s \in TerminalStates \ {"RECOVERED"}
    PROVE  Quiet(c, r, [SetState(r, s) EXCEPT !.escalations = @ \cup {code}], t)
<1> DEFINE x == [SetState(r, s) EXCEPT !.escalations = @ \cup {code}]
<1>1. Step(c, r, x)
  BY EscalateStep
<1>2. /\ x.paid = r.paid /\ x.fails = r.fails /\ x.seen = r.seen /\ x.acts = r.acts
      /\ x.calls = r.calls /\ x.promise = r.promise /\ x.risk = r.risk
  BY RowFields DEF Row, SetState
<1> HIDE DEF x
<1> QED BY <1>1, <1>2, PlainStep DEF x

LEMMA OpenCaseQuiet ==
    ASSUME NEW c \in Cases, NEW t \in Nat, NEW r, RowOK(c, r), SafeRow(c, r, t),
           r.state = "NONE", ~IsPaid(c, r)
    PROVE  Quiet(c, r, OpenCase(c, r, t), t)
<1> DEFINE x == OpenCase(c, r, t)
<1>1. Step(c, r, x)
  BY OpenCaseStep
<1>2. /\ x.paid = r.paid /\ x.fails = r.fails /\ x.seen = r.seen /\ x.acts = r.acts
      /\ x.calls = r.calls /\ x.promise = r.promise
  BY RowFields DEF Row, OpenCase
<1> HIDE DEF x
<1> QED BY <1>1, <1>2, PlainStep DEF x

\* Money changes the balance and, for a live case, its state, and nothing else.
LEMMA ReceiveMoneyFrame ==
    ASSUME NEW c \in Cases, NEW r \in Row, NEW amount
    PROVE  LET x == ReceiveMoney(c, r, amount) IN
           /\ x.fails = r.fails /\ x.seen = r.seen /\ x.acts = r.acts
           /\ x.calls = r.calls /\ x.promise = r.promise /\ x.risk = r.risk
           /\ Live(x) => Live(r)
<1> DEFINE credit == MinOf(amount, Outstanding(c, r))
           paid   == [r EXCEPT !.paid = @ + credit]
<1>1. /\ paid.fails = r.fails /\ paid.seen = r.seen /\ paid.acts = r.acts
      /\ paid.calls = r.calls /\ paid.promise = r.promise /\ paid.risk = r.risk
      /\ paid.state = r.state
  BY DEF Row
<1> HIDE DEF credit
<1>2. CASE ~Live(r) \/ credit = 0
  BY <1>1, <1>2 DEF ReceiveMoney, credit, Live
<1>3. CASE ~(~Live(r) \/ credit = 0)
  <2>1. ReceiveMoney(c, r, amount) =
          [paid EXCEPT !.recovered = @ + credit,
                       !.state = IF IsPaid(c, paid) THEN "RECOVERED" ELSE @]
    BY <1>3 DEF ReceiveMoney, credit
  <2> QED BY <1>1, <1>3, <2>1 DEF Row
<1> QED BY <1>2, <1>3

\* A live case is never paid up, so an amount that arrives changes its balance.
LEMMA LiveMoneyCounts ==
    ASSUME NEW c \in Cases, NEW r, RowOK(c, r), Live(r), NEW amount \in Nat \ {0}
    PROVE  ReceiveMoney(c, r, amount).paid # r.paid
<1> DEFINE credit == MinOf(amount, Outstanding(c, r))
           paid   == [r EXCEPT !.paid = @ + credit]
<1>1. r \in Row /\ r.paid \in Nat /\ Amount[c] \in Nat /\ r.paid < Amount[c]
  BY RowFields, LifecycleAssumption DEF RowOK, SoundBooks, Live
<1>2. credit \in Nat \ {0}
  BY <1>1 DEF MinOf, MaxOf, Outstanding
<1> HIDE DEF credit
<1>3. paid \in Row /\ paid.paid = r.paid + credit
  <2>1. r.paid + credit \in Nat
    BY <1>1, <1>2
  <2>2. paid \in Row
    BY <1>1, <2>1, Zenon DEF Row
  <2> QED BY <1>1, <2>2 DEF Row
<1> HIDE DEF paid
<1>4. ReceiveMoney(c, r, amount) =
        [paid EXCEPT !.recovered = @ + credit,
                     !.state = IF IsPaid(c, paid) THEN "RECOVERED" ELSE @]
  BY <1>2 DEF ReceiveMoney, credit, paid
<1>5. ReceiveMoney(c, r, amount).paid = paid.paid
  BY <1>3, <1>4 DEF Row
<1> QED BY <1>1, <1>2, <1>3, <1>5

\* Failures are only added, and a hit other than the mismatch of the latest one
\* stays.
Grew(r, x, t) ==
    /\ Len(r.fails) <= Len(x.fails)
    /\ x.fails # r.fails => Len(r.fails) < Len(x.fails)
    /\ Hits(r, t) \ {"FRAUD_AVS_MISMATCH"} \subseteq Hits(x, t)

LEMMA LengthOfFails ==
    ASSUME NEW c, NEW r, RowOK(c, r)
    PROVE  r.fails \in Seq(Failures) /\ Len(r.fails) \in Nat
<1>1. r.fails \in Seq(Failures)
  BY Zenon DEF RowOK, Row
<1> QED BY <1>1, LenProperties

LEMMA SameFailsGrew ==
    ASSUME NEW c, NEW r, RowOK(c, r), NEW x, x.fails = r.fails, NEW t
    PROVE  Grew(r, x, t)
BY LengthOfFails DEF Grew, Hits

LEMMA GrewTransitive ==
    ASSUME NEW c, NEW r, RowOK(c, r), NEW x, RowOK(c, x), NEW y, RowOK(c, y), NEW t,
           Grew(r, x, t), Grew(x, y, t)
    PROVE  Grew(r, y, t)
<1>1. Len(r.fails) \in Nat /\ Len(x.fails) \in Nat /\ Len(y.fails) \in Nat
  BY LengthOfFails
<1>2. Len(r.fails) <= Len(y.fails)
  BY <1>1 DEF Grew
<1>3. y.fails # r.fails => Len(r.fails) < Len(y.fails)
  <2>1. CASE x.fails # r.fails
    BY <1>1, <2>1 DEF Grew
  <2>2. CASE x.fails = r.fails
    BY <2>2 DEF Grew
  <2> QED BY <2>1, <2>2
<1>4. Hits(r, t) \ {"FRAUD_AVS_MISMATCH"} \subseteq Hits(y, t)
  BY DEF Grew
<1> QED BY <1>2, <1>3, <1>4 DEF Grew

\* Filing a failure moves others back, and takes none away.
LEMMA FiledKeepsHits ==
    ASSUME NEW fails \in Seq(Failures), NEW f \in Failures, NEW t
    PROVE  FraudHits([now |-> t, fails |-> fails]) \ {"FRAUD_AVS_MISMATCH"}
               \subseteq FraudHits([now |-> t, fails |-> Filed(fails, f)])
<1> DEFINE e == [now |-> t, fails |-> fails]
           d == [now |-> t, fails |-> Filed(fails, f)]
           len == Len(fails)
<1>1. PICK n \in 0 .. len : \A i \in 1 .. len + 1 :
        Filed(fails, f)[i] = IF i <= n THEN fails[i]
                             ELSE IF i = n + 1 THEN f ELSE fails[i - 1]
  BY FiledEntries
<1>2. len \in Nat /\ n \in Nat /\ Len(Filed(fails, f)) = len + 1
  BY <1>1, FiledEntries
<1> HIDE DEF len
<1> DEFINE shift(i) == IF i <= n THEN i ELSE i + 1
<1>3. ASSUME NEW i \in 1 .. len
      PROVE  shift(i) \in 1 .. len + 1 /\ Filed(fails, f)[shift(i)] = fails[i]
  <2>1. CASE i <= n
    <3>1. shift(i) = i /\ i \in 1 .. len + 1
      BY <1>2, <2>1
    <3> QED BY <1>1, <2>1, <3>1
  <2>2. CASE ~(i <= n)
    <3>1. /\ shift(i) = i + 1 /\ i + 1 \in 1 .. len + 1 /\ ~(i + 1 <= n)
          /\ i + 1 # n + 1 /\ (i + 1) - 1 = i
      BY <1>2, <2>2
    <3> QED BY <1>1, <3>1
  <2> QED BY <2>1, <2>2
<1>4. \A i, j \in 1 .. len : shift(i) = shift(j) => i = j
  BY <1>2
<1>5. ASSUME NEW code, NEW i \in RecentWith(e, code)
      PROVE  i \in 1 .. len /\ shift(i) \in RecentWith(d, code)
  <2>1. i \in 1 .. len /\ fails[i].at >= t - FraudWindow /\ fails[i].code = code
    BY DEF RecentWith, Recent, len
  <2> HIDE DEF shift
  <2> QED BY <1>2, <1>3, <2>1 DEF RecentWith, Recent
<1> HIDE DEF e, d, shift
<1>6. RecentWith(e, "FRAUD_TEXT") # {} => RecentWith(d, "FRAUD_TEXT") # {}
  BY <1>5
<1>7. Cardinality(RecentWith(e, "AUTH")) >= 3 => Cardinality(RecentWith(d, "AUTH")) >= 3
  <2> DEFINE S == RecentWith(e, "AUTH")
             T == RecentWith(d, "AUTH")
             g == [i \in S |-> shift(i)]
  <2>1. IsFiniteSet(T)
    <3>1. T \in SUBSET (1 .. len + 1)
      BY <1>2 DEF RecentWith, Recent, d
    <3>2. IsFiniteSet(1 .. len + 1)
      BY <1>2, FS_Interval
    <3> HIDE DEF T
    <3> QED BY <3>1, <3>2, FS_Subset
  <2>2. g \in Injection(S, T)
    <3>1. \A i \in S : i \in 1 .. len /\ shift(i) \in T
      BY <1>5
    <3> HIDE DEF S, T
    <3> QED BY <1>4, <3>1 DEF Injection, IsInjective
  <2> HIDE DEF S, T, g
  <2>3. IsFiniteSet(S) /\ Cardinality(S) <= Cardinality(T)
    BY <2>1, <2>2, FS_Injection
  <2>4. Cardinality(S) \in Nat /\ Cardinality(T) \in Nat
    BY <2>1, <2>3, FS_CardinalityType
  <2>5. Cardinality(S) >= 3 => Cardinality(T) >= 3
    BY <2>3, <2>4
  <2> QED BY <2>5 DEF S, T
<1> QED BY <1>6, <1>7 DEF FraudHits, e, d

\* A new event: money it brings is explained by it.
LEMMA EventAdvance ==
    ASSUME NEW c \in Cases, NEW t \in Nat, NEW r, RowOK(c, r), SafeRow(c, r, t),
           NEW e \in Events, e.case = c, e.id \notin r.seen
    PROVE  LET x == ApplyEvent(c, r, e, t) IN
           /\ Advance(c, r, x, t) /\ NewlyDone(r, x) = {} /\ Grew(r, x, t)
           /\ e.kind = "money" => x.fails = r.fails /\ (Live(x) => x.paid # r.paid)
<1> DEFINE filed  == Filed(r.fails, [code |-> e.code, at |-> AttemptedAt(e, t)])
           stored == [r EXCEPT !.seen = r.seen \cup {e.id},
                               !.payments = r.payments \cup {e.pay}]
           failed == [stored EXCEPT !.fails = filed]
           x == ApplyEvent(c, r, e, t)
<1>1. r \in Row
  BY RowFields
<1> HIDE DEF filed
<1>2. stored \in Row
  <2>1. e.id \in EventIds /\ e.pay \in PaymentIds
    BY DEF EventIds, PaymentIds
  <2> QED BY <1>1, <2>1, Zenon DEF Row
<1>3. /\ stored.paid = r.paid /\ stored.recovered = r.recovered /\ stored.state = r.state
      /\ stored.acts = r.acts /\ stored.fails = r.fails /\ stored.calls = r.calls
      /\ stored.promise = r.promise /\ stored.risk = r.risk
      /\ stored.seen = r.seen \cup {e.id}
  BY <1>1 DEF Row
<1>4. /\ failed.acts = r.acts /\ failed.calls = r.calls /\ failed.promise = r.promise
      /\ failed.risk = r.risk /\ failed.seen = r.seen \cup {e.id}
      /\ failed.fails = filed
  BY <1>1 DEF Row
<1>5. [r EXCEPT !.seen = @ \cup {e.id}, !.payments = @ \cup {e.pay}] = stored
  BY <1>1 DEF Row
<1> HIDE DEF stored
<1>6. RowOK(c, stored)
  BY <1>2, <1>3, QuietStep DEF Step
<1>7. x = IF e.kind = "money" THEN ReceiveMoney(c, stored, e.amount)
          ELSE IF e.pay \in r.payments THEN stored ELSE failed
  <2>1. [stored EXCEPT !.fails = Filed(@, [code |-> e.code, at |-> AttemptedAt(e, t)])]
          = failed
    BY <1>2, <1>3 DEF Row, filed
  <2> HIDE DEF failed
  <2> QED BY <1>5, <2>1 DEF ApplyEvent
<1> HIDE DEF failed
<1>8. /\ x.acts = r.acts /\ x.calls = r.calls /\ x.promise = r.promise
      /\ x.risk = r.risk /\ x.seen = r.seen \cup {e.id}
  <2>1. CASE e.kind = "money"
    BY <1>2, <1>3, <1>7, <2>1, ReceiveMoneyFrame
  <2>2. CASE e.kind # "money"
    BY <1>3, <1>4, <1>7, <2>2
  <2> QED BY <2>1, <2>2
<1>9. e.kind = "money" => x.fails = r.fails /\ (Live(x) => x.paid # r.paid)
  <2> SUFFICES ASSUME e.kind = "money"
               PROVE  x.fails = r.fails /\ (Live(x) => x.paid # r.paid)
    OBVIOUS
  <2>1. x = ReceiveMoney(c, stored, e.amount) /\ e.amount \in Nat \ {0}
    BY <1>7, LifecycleAssumption
  <2>2. x.fails = r.fails /\ (Live(x) => Live(stored))
    BY <1>2, <1>3, <2>1, ReceiveMoneyFrame
  <2>3. Live(stored) => x.paid # r.paid
    BY <1>3, <1>6, <2>1, LiveMoneyCounts
  <2> QED BY <2>2, <2>3
<1>10. Step(c, r, x)
  BY ApplyEventStep
<1>11. Grew(r, x, t)
  <2>1. CASE x.fails = r.fails
    BY <2>1, SameFailsGrew
  <2>2. CASE x.fails = filed
    <3>1. AttemptedAt(e, t) \in Nat
      BY LifecycleAssumption DEF AttemptedAt, NoTime
    <3>2. [code |-> e.code, at |-> AttemptedAt(e, t)] \in Failures
      BY <3>1, LifecycleAssumption DEF Failures
    <3>3. r.fails \in Seq(Failures) /\ Len(r.fails) \in Nat
      BY LengthOfFails
    <3>4. Len(x.fails) = Len(r.fails) + 1
      BY <2>2, <3>2, <3>3, FiledEntries DEF filed
    <3>5. Hits(r, t) \ {"FRAUD_AVS_MISMATCH"} \subseteq Hits(x, t)
      BY <2>2, <3>2, <3>3, FiledKeepsHits DEF Hits, filed
    <3> HIDE DEF x
    <3> QED BY <3>3, <3>4, <3>5 DEF Grew
  <2>3. x.fails = r.fails \/ x.fails = filed
    BY <1>3, <1>4, <1>7, <1>9
  <2> QED BY <2>1, <2>2, <2>3
<1> HIDE DEF x
<1>12. Explained(c, r, x)
  BY <1>8 DEF Explained
<1>13. Advance(c, r, x, t) /\ NewlyDone(r, x) = {}
  BY <1>8, <1>10, <1>12, QuietAdvance, SameActReflexive
<1> QED BY <1>9, <1>13, <1>11 DEF x

\* The payment a key announced is credited once.
LEMMA SettleHintQuiet ==
    ASSUME NEW c \in Cases, NEW t \in Nat, NEW r, RowOK(c, r), SafeRow(c, r, t),
           NEW k \in Keys, r.acts[k].hint # "none"
    PROVE  Quiet(c, r, SettleHint(c, r, k), t)
<1> DEFINE act == [r.acts[k] EXCEPT !.hint = "applied"]
           spent == [r EXCEPT !.acts[k].hint = "applied"]
           x   == SettleHint(c, r, k)
<1>1. r \in Row /\ r.acts \in [Keys -> Act] /\ r.acts[k] \in Act
  BY RowFields
<1>2. CASE r.acts[k].hint = "applied"
  BY <1>2, QuietReflexive DEF SettleHint
<1>3. CASE r.acts[k].hint # "applied"
  <2>1. act \in Act /\ act.hint = "applied" /\ SameAct(r.acts[k], act)
    BY <1>1 DEF Act, SameAct, Done
  <2>2. spent = [r EXCEPT !.acts = [r.acts EXCEPT ![k] = act]]
    BY <1>1 DEF Row
  <2> HIDE DEF act
  <2>3. [r.acts EXCEPT ![k] = act] \in [Keys -> Act]
    BY <1>1, <2>1
  <2>4. /\ spent \in Row /\ spent.fails = r.fails /\ spent.seen = r.seen
        /\ spent.acts = [r.acts EXCEPT ![k] = act]
        /\ spent.calls = r.calls /\ spent.promise = r.promise /\ spent.risk = r.risk
    <3>1. spent \in Row
      BY <1>1, <2>2, <2>3, Zenon DEF Row
    <3> QED BY <1>1, <2>2, <3>1 DEF Row
  <2>5. x = ReceiveMoney(c, spent, r.acts[k].hintAmt)
    BY <1>3 DEF SettleHint
  <2> HIDE DEF spent
  <2>6. /\ x.fails = r.fails /\ x.seen = r.seen /\ x.acts = [r.acts EXCEPT ![k] = act]
        /\ x.calls = r.calls /\ x.promise = r.promise /\ x.risk = r.risk
    BY <2>4, <2>5, ReceiveMoneyFrame
  <2>7. \A j \in Keys : SameAct(r.acts[j], x.acts[j])
    BY <1>1, <2>1, <2>6, SameActReflexive
  <2>8. Step(c, r, x)
    BY SettleHintStep
  <2> HIDE DEF x
  <2>9. Explained(c, r, x)
    BY <1>1, <1>3, <2>1, <2>6 DEF Explained
  <2>10. Advance(c, r, x, t)
    BY <2>6, <2>7, <2>8, <2>9, QuietAdvance
  <2> QED BY <2>6, <2>7, <2>10 DEF Quiet, x
<1> QED BY <1>2, <1>3

LEMMA ObserveQuiet ==
    ASSUME NEW c \in Cases, NEW t \in Nat, NEW r, RowOK(c, r), SafeRow(c, r, t),
           NEW k \in Keys
    PROVE  Quiet(c, r, Observe(c, r, k, t), t)
<1>1. k[1] \in ActPlaybooks
  BY DEF Keys
<1>2. t + Cooldown[k[1]] \in Nat /\ ExhaustReason[k[1]] \in EscalationCodes
  BY <1>1, RegistryTypes, PolicyAssumption
<1>3. Quiet(c, r, [r EXCEPT !.nextAt = t + Cooldown[k[1]]], t)
  BY <1>2, ScheduleQuiet
<1>4. Quiet(c, r, Escalate(r, ExhaustReason[k[1]]), t)
  <2>1. "ESCALATED" \in TerminalStates \ {"RECOVERED"}
    BY DEF TerminalStates
  <2> QED BY <1>2, <2>1, EscalateQuiet DEF Escalate
<1>5. Quiet(c, r, r, t) /\ (r.acts[k].hint # "none" => Quiet(c, r, SettleHint(c, r, k), t))
  BY SettleHintQuiet, QuietReflexive
<1> QED BY <1>3, <1>4, <1>5, Zenon DEF Observe

-----------------------------------------------------------------------------
(* Execution.                                                               *)

Rulings == {"", "APPROVED", "REQUIRES_APPROVAL"}

\* An action that was not executed yet is executed once, with the compliance
\* its verdict calls for and the cooldown of its predecessors over.
LEMMA DispatchAdvance ==
    ASSUME NEW c \in Cases, NEW t \in Nat, NEW r, RowOK(c, r), SafeRow(c, r, t),
           NEW k \in Keys, ~Done(r.acts[k]), Before(r, k, t),
           r.state # "NONE", ~(r.risk < ActionRiskMin),
           NEW verdict \in Rulings,
           verdict = "APPROVED" => Compliant(c, t),
           NEW promised \in Times, NEW ans \in Answers
    PROVE  LET x == Dispatch(c, r, k, verdict, promised, ans, t) IN
           /\ SafeRow(c, x, t) /\ Kept(r, x)
           /\ x.paid = r.paid /\ x.fails = r.fails
           /\ \A j \in Keys : j # k => x.acts[j] = r.acts[j]
           /\ x.acts[k].verdict = verdict
<1> DEFINE hinted == ans.delay # NoTime
           act == [status   |-> IF ans.ok THEN "SUCCEEDED" ELSE "FAILED",
                   verdict  |-> verdict,
                   at       |-> t,
                   promised |-> promised,
                   hint     |-> IF hinted THEN "waiting" ELSE "none",
                   hintAt   |-> IF hinted THEN HintTime(k[1], promised, t, ans.delay)
                                          ELSE NoTime,
                   hintAmt  |-> IF hinted THEN HintAmount(c, r) ELSE 0]
           called == IF NothingToRetry(r, k[1]) THEN r.calls[k]
                     ELSE MinOf(r.calls[k] + 1, MaxCalls)
           accept == k[1] = "promise_accept" /\ ~ans.raised /\ r.promise = NoTime
           date   == IF accept THEN promised ELSE r.promise
           x      == [r EXCEPT !.acts[k] = act, !.calls[k] = called, !.promise = date]
<1>1. r \in Row /\ r.paid \in Nat /\ r.acts \in [Keys -> Act]
      /\ r.calls \in [Keys -> 0 .. MaxCalls]
  BY RowFields
<1>2. /\ Done(act) /\ act.status \notin {"ABSENT", "PENDING_APPROVAL"}
      /\ act.at = t /\ act.verdict = verdict /\ act.hint # "applied"
      /\ act.hint = "waiting" => act.hintAmt = Outstanding(c, r)
  BY DEF Done, HintAmount
<1>3. r.calls[k] = 0 \/ ~CallsMatch(r)
  <2>1. MaxCalls \in Nat \ {0}
    BY LifecycleAssumption
  <2>2. r.calls[k] \in 0 .. MaxCalls
    BY <1>1
  <2> QED BY <2>1, <2>2 DEF CallsMatch
<1>4. called \in 0 .. 1 \/ ~CallsMatch(r)
  <2>1. MaxCalls \in Nat \ {0}
    BY LifecycleAssumption
  <2>2. called = r.calls[k] \/ called = MinOf(r.calls[k] + 1, MaxCalls)
    OBVIOUS
  <2> HIDE DEF called
  <2> QED BY <1>3, <2>1, <2>2 DEF MinOf
<1>5. r.promise # NoTime => date = r.promise
  OBVIOUS
<1> HIDE DEF act, called, date
<1>6. /\ x.paid = r.paid /\ x.fails = r.fails /\ x.state = r.state /\ x.risk = r.risk
      /\ x.seen = r.seen /\ x.promise = date
      /\ x.acts = [r.acts EXCEPT ![k] = act]
      /\ x.calls = [r.calls EXCEPT ![k] = called]
  BY <1>1 DEF Row
<1> HIDE DEF x
<1>7. x.acts[k] = act /\ \A j \in Keys : j # k => x.acts[j] = r.acts[j]
  BY <1>1, <1>6
<1>8. Outstanding(c, x) = Outstanding(c, r)
  BY <1>6 DEF Outstanding
<1>9. \A j \in Keys : \A s : Before(r, j, s) => Before(x, j, s)
  <2> SUFFICES ASSUME NEW j \in Keys, NEW s, Before(r, j, s)
               PROVE  Before(x, j, s)
    OBVIOUS
  <2> SUFFICES ASSUME NEW m \in 1 .. j[2] - 1
               PROVE  Done(x.acts[<<j[1], m>>]) /\ s - x.acts[<<j[1], m>>].at >= Cooldown[j[1]]
    BY DEF Before
  <2>1. <<j[1], m>> \in Keys
    BY EarlierKeys
  <2>2. Done(r.acts[<<j[1], m>>]) /\ s - r.acts[<<j[1], m>>].at >= Cooldown[j[1]]
    BY DEF Before
  <2> QED BY <1>7, <2>1, <2>2
<1>10. SafeRow(c, x, t)
  <2>1. ASSUME NEW j \in Keys, j # k
        PROVE  SoundAct(c, x, j, t)
    <3>1. SoundAct(c, r, j, t)
      BY DEF SafeRow
    <3> QED BY <1>7, <1>8, <1>9, <2>1, <3>1 DEF SoundAct
  <2>2. SoundAct(c, x, k, t)
    <3>1. Before(x, k, t)
      BY <1>9
    <3>2. Outstanding(c, r) \in Nat /\ t \in 0 .. t
      BY <1>1, BalanceType
    <3> QED BY <1>2, <1>7, <1>8, <3>1, <3>2 DEF SoundAct
  <2>3. ~(x.state = "NONE" \/ x.risk < ActionRiskMin)
    BY <1>6
  <2> QED BY <2>1, <2>2, <2>3 DEF SafeRow
<1>11. Kept(r, x)
  <2>1. r.acts[k].hint # "applied"
    BY DEF SafeRow, SoundAct
  <2>2. \A j \in Keys : /\ Done(r.acts[j]) => Done(x.acts[j])
                        /\ r.acts[j].hint = "applied" => x.acts[j].hint = "applied"
    BY <1>2, <1>7, <2>1
  <2>3. CallsMatch(r) => CallsMatch(x)
    <3> SUFFICES ASSUME CallsMatch(r), NEW j \in Keys
                 PROVE  x.calls[j] <= 1 /\ (x.calls[j] > 0 => Done(x.acts[j]))
      BY DEF CallsMatch
    <3>1. CASE j = k
      <4>1. x.calls[k] = called /\ called \in 0 .. 1
        BY <1>1, <1>4, <1>6
      <4> QED BY <1>2, <1>7, <3>1, <4>1
    <3>2. CASE j # k
      BY <1>1, <1>6, <1>7, <3>2 DEF CallsMatch
    <3> QED BY <3>1, <3>2
  <2>4. r.paid <= x.paid
    BY <1>1, <1>6
  <2> QED BY <1>5, <1>6, <2>2, <2>3, <2>4 DEF Kept
<1>12. x = Dispatch(c, r, k, verdict, promised, ans, t)
  BY Zenon DEF x, date, called, act, Dispatch
<1> QED BY <1>2, <1>6, <1>7, <1>10, <1>11, <1>12

\* The executed attempts of a playbook are its first ones.
LEMMA AttemptsInOrder ==
    ASSUME NEW c, NEW t, NEW r, SafeRow(c, r, t), NEW p \in ActPlaybooks
    PROVE  \A n \in 1 .. 3 : Done(r.acts[<<p, n>>]) <=> n <= Attempts(r, p)
<1> DEFINE done == {n \in 1 .. 3 : Done(r.acts[<<p, n>>])}
<1>1. \A n \in done : \A m \in 1 .. n - 1 : m \in done
  <2> SUFFICES ASSUME NEW n \in done, NEW m \in 1 .. n - 1
               PROVE  m \in done
    OBVIOUS
  <2>1. <<p, n>> \in Keys /\ r.acts[<<p, n>>].status # "ABSENT"
    BY DEF Keys, Done
  <2>2. Before(r, <<p, n>>, r.acts[<<p, n>>].at)
    BY <2>1 DEF SafeRow, SoundAct
  <2> QED BY <2>2 DEF Before
<1>2. PICK q \in 0 .. 3 : done = 1 .. q
  <2>1. /\ 3 \in done => 2 \in done
        /\ 2 \in done => 1 \in done
        /\ \A n \in done : n = 1 \/ n = 2 \/ n = 3
    <3>1. 2 \in 1 .. 3 - 1 /\ 1 \in 1 .. 2 - 1 /\ \A n \in done : n = 1 \/ n = 2 \/ n = 3
      OBVIOUS
    <3> HIDE DEF done
    <3> QED BY <1>1, <3>1
  <2> HIDE DEF done
  <2>2. CASE 3 \in done
    <3>1. \A n : n \in done <=> n \in 1 .. 3
      BY <2>1, <2>2
    <3> QED BY <3>1
  <2>3. CASE 3 \notin done /\ 2 \in done
    <3>1. \A n : n \in done <=> n \in 1 .. 2
      BY <2>1, <2>3
    <3> QED BY <3>1
  <2>4. CASE 3 \notin done /\ 2 \notin done /\ 1 \in done
    <3>1. \A n : n \in done <=> n \in 1 .. 1
      BY <2>1, <2>4
    <3> QED BY <3>1
  <2>5. CASE 3 \notin done /\ 2 \notin done /\ 1 \notin done
    <3>1. \A n : n \in done <=> n \in 1 .. 0
      BY <2>1, <2>5
    <3> QED BY <3>1
  <2> QED BY <2>2, <2>3, <2>4, <2>5
<1>3. Cardinality(done) = q
  <2>1. Cardinality(1 .. q) = IF 1 > q THEN 0 ELSE q - 1 + 1
    BY FS_Interval
  <2> HIDE DEF done
  <2> QED BY <1>2, <2>1
<1>4. Attempts(r, p) = q
  BY <1>3 DEF Attempts
<1>5. \A n \in 1 .. 3 : n \in done <=> n <= q
  <2> HIDE DEF done
  <2> QED BY <1>2
<1> QED BY <1>4, <1>5

\* No execution of a playbook is later than the last one.
LEMMA LastAtLatest ==
    ASSUME NEW c, NEW t \in Nat, NEW r, SafeRow(c, r, t), NEW p \in ActPlaybooks,
           NEW n \in 1 .. 3, Done(r.acts[<<p, n>>])
    PROVE  /\ LastAt(r, p) \in 0 .. t
           /\ r.acts[<<p, n>>].at <= LastAt(r, p)
<1> DEFINE at(m) == r.acts[<<p, m>>].at
           done  == {m \in 1 .. 3 : Done(r.acts[<<p, m>>])}
           times == {r.acts[<<p, m>>].at : m \in done}
<1>1. \A m \in done : at(m) \in 0 .. t
  <2> SUFFICES ASSUME NEW m \in done PROVE at(m) \in 0 .. t
    OBVIOUS
  <2>1. <<p, m>> \in Keys /\ r.acts[<<p, m>>].status # "ABSENT"
    BY DEF Keys, Done
  <2> QED BY <2>1 DEF SafeRow, SoundAct
<1>2. n \in done /\ done \subseteq {1, 2, 3}
  OBVIOUS
<1>3. times = {at(m) : m \in done}
  OBVIOUS
<1> HIDE DEF done
<1>4. \E m \in done : \A l \in done : at(l) <= at(m)
  <2> HIDE DEF at
  <2> QED BY <1>1, <1>2
<1>5. \E s \in times : \A u \in times : u <= s
  BY <1>3, <1>4
<1>6. LastAt(r, p) = IF times = {} THEN NoTime
                     ELSE CHOOSE s \in times : \A u \in times : u <= s
  BY DEF LastAt, done
<1>7. at(n) \in times /\ times \subseteq 0 .. t
  BY <1>1, <1>2, <1>3
<1> HIDE DEF times, at
<1>8. LastAt(r, p) \in times /\ \A u \in times : u <= LastAt(r, p)
  BY <1>5, <1>6, <1>7
<1> QED BY <1>7, <1>8 DEF at

\* A playbook that was executed was last executed at some time until now.
LEMMA LastAtType ==
    ASSUME NEW c, NEW t \in Nat, NEW r, SafeRow(c, r, t), NEW p \in ActPlaybooks
    PROVE  LastAt(r, p) = NoTime \/ LastAt(r, p) \in 0 .. t
<1>1. CASE \E n \in 1 .. 3 : Done(r.acts[<<p, n>>])
  BY <1>1, LastAtLatest
<1>2. CASE ~\E n \in 1 .. 3 : Done(r.acts[<<p, n>>])
  <2>1. {r.acts[<<p, n>>].at : n \in {m \in 1 .. 3 : Done(r.acts[<<p, m>>])}} = {}
    BY <1>2
  <2> QED BY <2>1 DEF LastAt
<1> QED BY <1>1, <1>2

LEMMA DaysType ==
    ASSUME NEW c \in Cases, NEW t \in Nat
    PROVE  DaysOverdue(c, t) \in Nat
BY LifecycleAssumption, DiagnosisAssumption DEF DaysOverdue, MaxOf

\* The playbook is not cooling down.
Cooled(r, p, t) == LastAt(r, p) = NoTime \/ t - LastAt(r, p) >= Cooldown[p]

\* The next attempt, if it may be made now, comes after those before it.
LEMMA NextAttemptReady ==
    ASSUME NEW c, NEW t \in Nat, NEW r, SafeRow(c, r, t), NEW p \in ActPlaybooks,
           ~(Attempts(r, p) >= MaxAttempts[p]), Cooled(r, p, t)
    PROVE  LET k == <<p, Marker(r, p)>> IN k \in Keys /\ Before(r, k, t)
<1> DEFINE n == Marker(r, p)
<1>1. <<p, n>> \in Keys
  BY MarkerType
<1>2. Attempts(r, p) \in Nat /\ MaxAttempts[p] \in 1 .. 3 /\ n \in {1, Attempts(r, p) + 1}
  BY AttemptsType, RegistryTypes DEF Marker
<1>3. ASSUME NEW m \in 1 .. n - 1
      PROVE  Done(r.acts[<<p, m>>]) /\ t - r.acts[<<p, m>>].at >= Cooldown[p]
  <2>1. m \in 1 .. 3 /\ m <= Attempts(r, p)
    BY <1>2, <1>3
  <2>2. Done(r.acts[<<p, m>>])
    BY <2>1, AttemptsInOrder
  <2>3. LastAt(r, p) \in 0 .. t /\ r.acts[<<p, m>>].at <= LastAt(r, p)
    BY <2>1, <2>2, LastAtLatest
  <2>4. r.acts[<<p, m>>].at \in 0 .. t
    <3>1. <<p, m>> \in Keys /\ r.acts[<<p, m>>].status # "ABSENT"
      BY <2>1, <2>2 DEF Keys, Done
    <3> QED BY <3>1 DEF SafeRow, SoundAct
  <2>5. Cooldown[p] \in Nat
    BY PolicyAssumption
  <2> QED BY <2>2, <2>3, <2>4, <2>5 DEF Cooled, NoTime
<1> QED BY <1>1, <1>3 DEF Before

LEMMA WaitIsOver ==
    ASSUME NEW c, NEW t \in Nat, NEW r, SafeRow(c, r, t), NEW k \in Keys,
           r.acts[k].status # "ABSENT"
    PROVE  Before(r, k, t)
<1>1. r.acts[k].at \in 0 .. t /\ Before(r, k, r.acts[k].at)
  BY DEF SafeRow, SoundAct
<1> SUFFICES ASSUME NEW m \in 1 .. k[2] - 1
             PROVE  /\ Done(r.acts[<<k[1], m>>])
                    /\ t - r.acts[<<k[1], m>>].at >= Cooldown[k[1]]
  BY DEF Before
<1>2. <<k[1], m>> \in Keys
  BY EarlierKeys
<1>3. Done(r.acts[<<k[1], m>>]) /\ r.acts[k].at - r.acts[<<k[1], m>>].at >= Cooldown[k[1]]
  BY <1>1 DEF Before
<1>4. r.acts[<<k[1], m>>].at \in 0 .. t
  <2>1. r.acts[<<k[1], m>>].status # "ABSENT"
    BY <1>3 DEF Done
  <2> QED BY <1>2, <2>1 DEF SafeRow, SoundAct
<1>5. Cooldown[k[1]] \in Nat
  BY PolicyAssumption DEF Keys
<1> QED BY <1>1, <1>3, <1>4, <1>5

\* What the agent may do on its own authority, at time t and to row r.
Cleared(c, r, p, t) ==
    /\ ~(Attempts(r, p) >= MaxAttempts[p])
    /\ Cooled(r, p, t)
    /\ Compliant(c, t)
    /\ ~ShowsFraud(r, t)

\* The agent executes only what is cleared, of no high value and promised by
\* nobody; the answer of the provider is then observed.
LEMMA ExecuteAdvance ==
    ASSUME NEW c \in Cases, NEW t \in Nat, NEW r, RowOK(c, r), SafeRow(c, r, t),
           r.state # "NONE", ~(r.risk < ActionRiskMin), r.promise <= t,
           NEW p \in ActPlaybooks, Cleared(c, r, p, t), Outstanding(c, r) < HighValue,
           NEW promised \in Times,
           NEW y \in Execute(c, r, p, promised, t)
    PROVE  Advance(c, r, y, t) /\ Looks(r, y, t)
<1> DEFINE k == <<p, Marker(r, p)>>
<1>1. k \in Keys /\ Before(r, k, t)
  BY NextAttemptReady DEF Cleared
<1>2. k[1] = p /\ k[2] = Marker(r, p)
  OBVIOUS
<1> HIDE DEF k
<1>3. CASE r.acts[k].status # "ABSENT"
  <2>1. y = Observe(c, r, k, t)
    BY <1>3 DEF Execute, k
  <2>2. Quiet(c, r, y, t)
    BY <1>1, <2>1, ObserveQuiet
  <2> QED BY <2>2, QuietLooks DEF Quiet
<1>4. CASE r.acts[k].status = "ABSENT"
  <2>1. PICK x \in Dispatched(c, r, k, "APPROVED", promised, t) : y = Observe(c, x, k, t)
    BY <1>4 DEF Execute, k
  <2>2. PICK ans \in ProviderAnswers(r, k[1], k[2]) :
                x = Dispatch(c, r, k, "APPROVED", promised, ans, t)
    BY DEF Dispatched
  <2>3. ans \in Answers
    BY AnswersType
  <2>4. ~Done(r.acts[k])
    BY <1>4 DEF Done
  <2>5. /\ SafeRow(c, x, t) /\ Kept(r, x)
        /\ x.paid = r.paid /\ x.fails = r.fails
        /\ \A j \in Keys : j # k => x.acts[j] = r.acts[j]
    <3>1. Compliant(c, t)
      BY DEF Cleared
    <3>2. "APPROVED" \in Rulings
      BY DEF Rulings
    <3> QED BY <1>1, <2>2, <2>3, <2>4, <3>1, <3>2, DispatchAdvance
  <2>6. RowOK(c, x)
    BY <1>1, DispatchedStep DEF Step
  <2>7. Outstanding(c, x) = Outstanding(c, r)
    BY <2>5 DEF Outstanding
  <2>8. Advance(c, r, x, t)
    BY <2>5, <2>7 DEF Advance, Explained, Unattended
  <2>9. Looks(r, x, t)
    BY <2>5 DEF Looks, Cleared, ShowsFraud, Hits
  <2>10. Quiet(c, x, y, t)
    BY <1>1, <2>1, <2>5, <2>6, ObserveQuiet
  <2>11. RowOK(c, y)
    BY <1>1, <2>1, <2>6, ObserveStep DEF Step
  <2> QED BY <2>6, <2>8, <2>9, <2>10, <2>11, AdvanceTransitive, LooksTransitive, QuietLooks
             DEF Quiet
<1> QED BY <1>3, <1>4

\* Parking executes nothing: it files a request and withdraws older ones.
LEMMA ParkAdvance ==
    ASSUME NEW c \in Cases, NEW t \in Nat, NEW r, RowOK(c, r), SafeRow(c, r, t),
           Live(r), ~(r.risk < ActionRiskMin),
           NEW p \in ActPlaybooks,
           ~(Attempts(r, p) >= MaxAttempts[p]), Cooled(r, p, t),
           NEW promised \in Times
    PROVE  LET x == Park(r, p, promised, t)
           IN  Advance(c, r, x, t) /\ Looks(r, x, t)
<1> DEFINE k == <<p, Marker(r, p)>>
           withdrawn(a) == [a EXCEPT !.status = "CANCELLED"]
           cancelled == [j \in Keys |-> IF j \in Pending(r)
                                        THEN [r.acts[j] EXCEPT !.status = "CANCELLED"]
                                        ELSE r.acts[j]]
           request == [NoAct EXCEPT !.status = "PENDING_APPROVAL", !.at = t,
                                    !.verdict = "REQUIRES_APPROVAL",
                                    !.promised = promised]
           raised == [r EXCEPT !.err = TRUE]
           parked == [r EXCEPT !.acts = [cancelled EXCEPT ![k] = request],
                               !.state = "PENDING_APPROVAL", !.nextAt = NoTime]
           x == Park(r, p, promised, t)
<1>1. k \in Keys /\ Before(r, k, t)
  BY NextAttemptReady
<1>2. r \in Row /\ r.acts \in [Keys -> Act]
  BY RowFields
<1>3. /\ request.status = "PENDING_APPROVAL" /\ request.at = t
      /\ request.verdict = "REQUIRES_APPROVAL" /\ request.hint = "none" /\ ~Done(request)
  BY DEF NoAct, Done
<1>4. /\ DOMAIN cancelled = Keys
      /\ \A j \in Keys : SameAct(r.acts[j], cancelled[j])
  <2>1. \A a \in Act : /\ a.status = "PENDING_APPROVAL" => SameAct(a, withdrawn(a))
                       /\ SameAct(a, a)
    BY DEF Act, SameAct, Done
  <2> HIDE DEF withdrawn
  <2>2. \A j \in Keys : cancelled[j] = withdrawn(r.acts[j]) \/ cancelled[j] = r.acts[j]
    BY DEF withdrawn
  <2>3. \A j \in Keys : r.acts[j].status # "PENDING_APPROVAL" => cancelled[j] = r.acts[j]
    BY DEF Pending
  <2> HIDE DEF cancelled
  <2>4. \A j \in Keys : SameAct(r.acts[j], cancelled[j])
    BY <1>2, <2>1, <2>2, <2>3
  <2> QED BY <2>4 DEF cancelled
<1>5. x = IF r.acts[k].status # "ABSENT" THEN raised ELSE parked
  BY Zenon DEF Park
<1>6. Step(c, r, x)
  BY ParkStep
<1> HIDE DEF k, request, cancelled, x
<1>7. CASE r.acts[k].status # "ABSENT"
  <2>1. /\ x.paid = r.paid /\ x.fails = r.fails /\ x.seen = r.seen /\ x.acts = r.acts
        /\ x.calls = r.calls /\ x.promise = r.promise /\ x.risk = r.risk
    BY <1>2, <1>5, <1>7 DEF Row
  <2>2. Quiet(c, r, x, t)
    BY <1>6, <2>1, PlainStep
  <2> QED BY <2>2, QuietLooks DEF Quiet, x
<1>8. CASE r.acts[k].status = "ABSENT"
  <2>1. /\ x.paid = r.paid /\ x.fails = r.fails /\ x.seen = r.seen
        /\ x.calls = r.calls /\ x.promise = r.promise /\ x.risk = r.risk
        /\ x.state = "PENDING_APPROVAL"
        /\ x.acts = [cancelled EXCEPT ![k] = request]
    BY <1>2, <1>5, <1>8 DEF Row
  <2>2. x.acts[k] = request /\ \A j \in Keys : j # k => SameAct(r.acts[j], x.acts[j])
    BY <1>1, <1>4, <2>1
  <2>3. Outstanding(c, x) = Outstanding(c, r)
    BY <2>1 DEF Outstanding
  <2>4. ~Done(r.acts[k]) /\ r.acts[k].hint = "none"
    <3>1. ~Done(r.acts[k])
      BY <1>8 DEF Done
    <3> QED BY <1>1, <3>1 DEF SafeRow, SoundAct
  <2>5. \A j \in Keys : Done(x.acts[j]) <=> Done(r.acts[j])
    BY <1>3, <2>2, <2>4 DEF SameAct
  <2>6. \A j \in Keys : \A s : Before(r, j, s) => Before(x, j, s)
    <3> SUFFICES ASSUME NEW j \in Keys, NEW s, Before(r, j, s), NEW m \in 1 .. j[2] - 1
                 PROVE  /\ Done(x.acts[<<j[1], m>>])
                        /\ s - x.acts[<<j[1], m>>].at >= Cooldown[j[1]]
      BY DEF Before
    <3>1. <<j[1], m>> \in Keys
      BY EarlierKeys
    <3>2. Done(r.acts[<<j[1], m>>]) /\ s - r.acts[<<j[1], m>>].at >= Cooldown[j[1]]
      BY DEF Before
    <3>3. <<j[1], m>> # k /\ Done(x.acts[<<j[1], m>>])
      BY <2>4, <2>5, <3>1, <3>2
    <3>4. x.acts[<<j[1], m>>].at = r.acts[<<j[1], m>>].at
      BY <2>2, <3>1, <3>3 DEF SameAct
    <3> QED BY <3>2, <3>3, <3>4
  <2>7. SafeRow(c, x, t)
    <3>1. ASSUME NEW j \in Keys, j # k
          PROVE  SoundAct(c, x, j, t)
      <4>1. SoundAct(c, r, j, t) /\ SameAct(r.acts[j], x.acts[j])
        BY <2>2, <3>1 DEF SafeRow
      <4> QED BY <2>3, <2>6, <4>1 DEF SoundAct, SameAct
    <3>2. SoundAct(c, x, k, t)
      <4>1. Before(x, k, t) /\ t \in 0 .. t
        BY <1>1, <2>6
      <4> QED BY <1>3, <2>2, <4>1 DEF SoundAct
    <3>3. ~(x.state = "NONE" \/ x.risk < ActionRiskMin)
      BY <2>1
    <3> QED BY <3>1, <3>2, <3>3 DEF SafeRow
  <2>8. NewlyDone(r, x) = {}
    BY <2>5 DEF NewlyDone
  <2>9. Kept(r, x)
    <3>1. r.paid <= x.paid
      BY <1>6 DEF Step, Onward, Credits
    <3>2. \A j \in Keys : r.acts[j].hint = "applied" => x.acts[j].hint = "applied"
      BY <2>2, <2>4 DEF SameAct
    <3>3. CallsMatch(r) => CallsMatch(x)
      BY <2>1, <2>5 DEF CallsMatch
    <3> QED BY <2>1, <2>5, <3>1, <3>2, <3>3 DEF Kept
  <2>10. Advance(c, r, x, t)
    BY <2>1, <2>7, <2>8, <2>9 DEF Advance, Explained, Unattended
  <2> QED BY <2>1, <2>8, <2>10 DEF Looks, x
<1> QED BY <1>7, <1>8

-----------------------------------------------------------------------------
(* Handlers, case by case.                                                  *)

\* A plan to act, or to ask, passed the hard stops, the cooldown, the contact
\* hours and the age limit; a plan to act also passed the high-value limit.
LEMMA PlanCleared ==
    ASSUME NEW e, NEW d,
           PlanAction(e, d).verdict \in {"APPROVED", "REQUIRES_APPROVAL"}
    PROVE  /\ ComplianceHits(e) = {} /\ FraudHits(e) = {}
           /\ ~Deferrable(e, PlanAction(e, d).playbook)
           /\ PlanAction(e, d).verdict = "APPROVED" => ~NeedsApproval(e)
<1> DEFINE p == CauseToPlaybook[d.cause]
<1>1. ~HardStop(e)
  BY DEF PlanAction, StopPlan, Blocked, Plan
<1> HIDE DEF p
<1>2. ~(p = "promise_accept" /\ d.promised = NoTime) /\ p # "escalate_human"
      /\ ~AttemptsExhausted(e, p) /\ ~Deferrable(e, p)
  BY <1>1 DEF PlanAction, ToHuman, Plan, p
<1> DEFINE v == IF NeedsApproval(e) THEN "REQUIRES_APPROVAL" ELSE "APPROVED"
<1>3. PICK a, b, w : PlanAction(e, d) = Plan(v, p, a, b, w)
  BY <1>1, <1>2 DEF PlanAction, p
<1> HIDE DEF v
<1>4. PlanAction(e, d).playbook = p /\ PlanAction(e, d).verdict = v
  BY <1>3 DEF Plan
<1>5. ComplianceHits(e) = {} /\ FraudHits(e) = {}
  BY <1>1 DEF HardStop
<1> QED BY <1>2, <1>4, <1>5 DEF v

LEMMA DiagnoseAndActAdvance ==
    ASSUME NEW c \in Cases, NEW t \in Nat, NEW r, RowOK(c, r), SafeRow(c, r, t),
           Live(r), ~(r.risk < ActionRiskMin), r.promise <= t
    PROVE  \A x \in DiagnoseAndAct(c, r, t) : Advance(c, r, x, t) /\ Looks(r, x, t)
<1> SUFFICES ASSUME NEW pl \in Planned(c, r, t),
                    NEW x \in Enforce(c, r, pl.plan, pl.promised, t)
             PROVE  Advance(c, r, x, t) /\ Looks(r, x, t)
  BY Zenon DEF DiagnoseAndAct
<1>1. PICK full \in BudgetAnswers, o \in LlmAnswers :
        /\ pl.plan = PlanAction(Evidence(c, r, t, full),
                                DiagnoseCase(Evidence(c, r, t, full), o))
        /\ pl.promised = DiagnoseCase(Evidence(c, r, t, full), o).promised
  BY DEF Planned, Diagnosed
<1> DEFINE e == Evidence(c, r, t, full)
           d == DiagnoseCase(e, o)
<1>2. /\ e.now = t /\ e.fails = r.fails /\ e.days = DaysOverdue(c, t)
      /\ e.amount = Outstanding(c, r)
      /\ \A p \in ActPlaybooks : /\ e.attempts[p] = Attempts(r, p)
                                 /\ e.lastAt[p] = LastAt(r, p)
  BY DEF Evidence
<1>3. e.fails \in Seq(Failures)
  BY <1>2, Zenon DEF RowOK, Row
<1> HIDE DEF e
<1>4. o = NoOpinion \/ ValidOpinion(o)
  BY LifecycleAssumption
<1>5. d.cause \in Causes /\ d.promised \in Times
  BY <1>3, <1>4, DiagnoseType DEF Times
<1> HIDE DEF d
<1> DEFINE plan == PlanAction(e, d)
<1>6. pl.plan = plan /\ pl.promised = d.promised
  BY <1>1 DEF e, d
<1>7. /\ plan.verdict \in Verdicts
      /\ plan.verdict \in {"BLOCKED", "ESCALATE"} =>
             plan.stop \in TerminalStates /\ plan.code \in EscalationCodes
      /\ plan.verdict = "DEFERRED" => plan.deferTo \in Nat
      /\ plan.verdict \in {"APPROVED", "REQUIRES_APPROVAL"} =>
             /\ plan.playbook \in ActPlaybooks
             /\ ~AttemptsExhausted(e, plan.playbook)
  BY <1>2, <1>5, PlanType
<1>8. plan.stop # "RECOVERED"
  BY DEF PlanAction, HardStop, StopPlan, Blocked, ToHuman, Plan
<1>9. plan.verdict \in {"APPROVED", "REQUIRES_APPROVAL"} =>
        /\ ComplianceHits(e) = {} /\ FraudHits(e) = {} /\ ~Deferrable(e, plan.playbook)
        /\ plan.verdict = "APPROVED" => ~NeedsApproval(e)
  BY PlanCleared
<1> HIDE DEF plan
<1>10. x \in Enforce(c, r, plan, d.promised, t)
  BY <1>6
<1>11. CASE plan.verdict \in {"BLOCKED", "ESCALATE"}
  <2>1. x = [SetState(r, plan.stop) EXCEPT !.escalations = @ \cup {plan.code}]
    BY <1>10, <1>11 DEF Enforce
  <2>2. Quiet(c, r, x, t)
    BY <2>1, <1>7, <1>8, <1>11, EscalateQuiet
  <2> QED BY <2>2, QuietLooks DEF Quiet
<1>12. CASE plan.verdict = "DEFERRED"
  <2>1. x = [r EXCEPT !.nextAt = plan.deferTo]
    BY <1>10, <1>12 DEF Enforce
  <2>2. Quiet(c, r, x, t)
    BY <2>1, <1>7, <1>12, ScheduleQuiet
  <2> QED BY <2>2, QuietLooks DEF Quiet
<1>13. CASE plan.verdict \in {"APPROVED", "REQUIRES_APPROVAL"}
  <2> DEFINE p == plan.playbook
  <2>1. p \in ActPlaybooks /\ ~(Attempts(r, p) >= MaxAttempts[p])
    BY <1>2, <1>7, <1>13 DEF AttemptsExhausted
  <2>2. Cooled(r, p, t)
    <3>1. ~InCooldown(e, p)
      BY <1>9, <1>13 DEF Deferrable
    <3>2. LastAt(r, p) = NoTime \/ ~(t - LastAt(r, p) < Cooldown[p])
      BY <1>2, <2>1, <3>1 DEF InCooldown
    <3>3. LastAt(r, p) = NoTime \/ LastAt(r, p) \in 0 .. t
      BY <2>1, LastAtType
    <3>4. Cooldown[p] \in Nat
      BY <2>1, PolicyAssumption
    <3> QED BY <3>2, <3>3, <3>4 DEF Cooled
  <2>3. Compliant(c, t)
    <3>1. InContactWindow(t)
      BY <1>2, <1>9, <1>13 DEF Deferrable
    <3>2. ~(DaysOverdue(c, t) > MaxDays)
      BY <1>2, <1>9, <1>13 DEF ComplianceHits
    <3>3. DaysOverdue(c, t) \in Nat /\ MaxDays \in Nat
      BY DaysType, DiagnosisAssumption
    <3> QED BY <3>1, <3>2, <3>3 DEF Compliant
  <2>4. ~ShowsFraud(r, t)
    BY <1>2, <1>9, <1>13 DEF ShowsFraud, Hits, FraudHits, RecentWith, Recent
  <2>5. Cleared(c, r, p, t)
    BY <2>1, <2>2, <2>3, <2>4 DEF Cleared
  <2> HIDE DEF p
  <2>6. CASE plan.verdict = "REQUIRES_APPROVAL"
    <3>1. x = Park(r, p, d.promised, t)
      BY <1>10, <2>6 DEF Enforce, p
    <3> QED BY <1>5, <2>1, <2>2, <3>1, ParkAdvance
  <2>7. CASE plan.verdict = "APPROVED"
    <3>1. x \in Execute(c, r, p, d.promised, t)
      BY <1>10, <2>7 DEF Enforce, p
    <3>2. Outstanding(c, r) < HighValue
      <4>1. ~(Outstanding(c, r) >= HighValue)
        BY <1>2, <1>9, <2>7 DEF NeedsApproval
      <4> QED BY <4>1, BalanceType, RowFields, PolicyAssumption
    <3>3. r.state # "NONE"
      BY DEF Live, LiveStates
    <3> QED BY <1>5, <2>1, <2>5, <3>1, <3>2, <3>3, ExecuteAdvance
  <2> QED BY <1>13, <2>6, <2>7
<1> QED BY <1>7, <1>11, <1>12, <1>13 DEF Verdicts

\* step_case: whatever it does to the case, it has looked at the promise, the
\* risk and the policy before it acts.
LEMMA StepCaseAdvance ==
    ASSUME NEW c \in Cases, NEW t \in Nat, NEW r, RowOK(c, r), SafeRow(c, r, t),
           r.state # "NONE"
    PROVE  \A x \in StepCase(c, r, t) : Advance(c, r, x, t) /\ Looks(r, x, t)
<1> DEFINE deferred == [r EXCEPT !.nextAt = r.promise + DayLen]
<1>1. r \in Row /\ r.promise \in Times /\ r.risk \in Nat
  BY RowFields
<1>2. Advance(c, r, r, t) /\ Looks(r, r, t)
  BY QuietReflexive, QuietLooks DEF Quiet
<1>3. CASE Terminal(r)
  BY <1>2, <1>3 DEF StepCase
<1>4. CASE ~Terminal(r)
  <2>1. Live(r)
    BY <1>1, <1>4 DEF Row, States, Live, Terminal
  <2>2. ~IsPaid(c, r)
    BY <1>1, <2>1, BalanceType DEF RowOK, SoundBooks, Live, IsPaid
  <2>3. CASE AwaitsPromise(r, t)
    <3>1. r.promise + DayLen \in Nat
      BY <1>1, <2>3, DiagnosisAssumption DEF Times, AwaitsPromise
    <3>2. Advance(c, r, deferred, t) /\ Looks(r, deferred, t)
      BY <3>1, ScheduleQuiet, QuietLooks DEF Quiet
    <3> HIDE DEF deferred
    <3>3. \A x \in StepCase(c, r, t) : x = deferred
      BY <1>4, <2>2, <2>3 DEF StepCase, deferred
    <3> QED BY <3>2, <3>3
  <2>4. CASE ~AwaitsPromise(r, t) /\ Watched(r)
    BY <1>2, <1>4, <2>2, <2>4 DEF StepCase
  <2>5. CASE ~AwaitsPromise(r, t) /\ ~Watched(r)
    <3>1. \A x \in StepCase(c, r, t) : x \in DiagnoseAndAct(c, r, t)
      BY <1>4, <2>2, <2>5 DEF StepCase
    <3>2. r.promise <= t
      BY <1>1, <2>5 DEF AwaitsPromise, Times, NoTime
    <3>3. ~(r.risk < ActionRiskMin)
      BY <2>5 DEF Watched, HasExecuted, SafeRow, Untouched, Done
    <3> QED BY <2>1, <3>1, <3>2, <3>3, DiagnoseAndActAdvance
  <2> QED BY <2>3, <2>4, <2>5
<1> QED BY <1>3, <1>4

-----------------------------------------------------------------------------
(* Entry points, case by case.                                              *)

\* What the agent executes it executes when no fraud shows.  In a batch of events
\* that may have been after some failures of the batch, and before others.
FraudSeen(r, x, t) ==
    NewlyDone(r, x) # {} =>
        /\ Hits(r, t) \subseteq {"FRAUD_AVS_MISMATCH"}
        /\ Hits(r, t) # {} => x.fails # r.fails
        /\ Hits(x, t) # {} => x.fails # r.fails /\ x.paid # r.paid

LEMMA LooksSeesFraud ==
    ASSUME NEW r, NEW x, NEW t, Looks(r, x, t)
    PROVE  FraudSeen(r, x, t)
BY DEF Looks, FraudSeen, ShowsFraud, Hits

AgentStep(c, r, x, t) == Advance(c, r, x, t) /\ FraudSeen(r, x, t)

\* A human releases requests, and executes nothing else.
HumanStep(c, r, x, t) ==
    /\ SafeRow(c, x, t) /\ Kept(r, x) /\ Explained(c, r, x)
    /\ \A k \in NewlyDone(r, x) : /\ r.acts[k].status = "PENDING_APPROVAL"
                                  /\ x.acts[k].verdict = "REQUIRES_APPROVAL"

\* One event: what is executed on it is executed on its money.
ActsOnMoney(r, x, t) ==
    NewlyDone(r, x) # {} => ~ShowsFraud(x, t) /\ x.fails = r.fails /\ x.paid # r.paid

LEMMA DeliverAdvance ==
    ASSUME NEW c \in Cases, NEW t \in Nat, NEW r, RowOK(c, r), SafeRow(c, r, t),
           NEW e \in Events, e.case = c
    PROVE  \A x \in Deliver(c, r, e, t) :
               Advance(c, r, x, t) /\ Grew(r, x, t) /\ ActsOnMoney(r, x, t)
<1> SUFFICES ASSUME NEW x \in Deliver(c, r, e, t)
             PROVE  Advance(c, r, x, t) /\ Grew(r, x, t) /\ ActsOnMoney(r, x, t)
  OBVIOUS
<1> DEFINE y == ApplyEvent(c, r, e, t)
<1>1. RowOK(c, y)
  BY ApplyEventStep DEF Step
<1>2. CASE r.err \/ e.id \in r.seen
  <2>1. x = r
    BY <1>2 DEF Deliver
  <2> QED BY <2>1, QuietReflexive, QuietLooks, SameFailsGrew DEF Quiet, ActsOnMoney
<1>3. CASE ~(r.err \/ e.id \in r.seen)
  <2>1. /\ Advance(c, r, y, t) /\ NewlyDone(r, y) = {} /\ Grew(r, y, t)
        /\ e.kind = "money" => y.fails = r.fails /\ (Live(y) => y.paid # r.paid)
    BY <1>3, EventAdvance
  <2>2. x \in IF e.kind = "money" /\ Live(y) THEN StepCase(c, y, t) ELSE {y}
    BY <1>3 DEF Deliver
  <2> HIDE DEF y
  <2>3. CASE ~(e.kind = "money" /\ Live(y))
    BY <2>1, <2>2, <2>3 DEF ActsOnMoney
  <2>4. CASE e.kind = "money" /\ Live(y)
    <3>1. y.state # "NONE" /\ SafeRow(c, y, t)
      BY <2>1, <2>4 DEF Live, LiveStates, Advance
    <3>2. x \in StepCase(c, y, t)
      BY <2>2, <2>4
    <3>3. Advance(c, y, x, t) /\ Looks(y, x, t)
      BY <1>1, <3>1, <3>2, StepCaseAdvance
    <3>4. RowOK(c, x)
      BY <1>1, <3>1, <3>2, StepCaseStep DEF Step
    <3>5. Advance(c, r, x, t)
      BY <1>1, <2>1, <3>3, <3>4, AdvanceTransitive
    <3>6. x.paid # r.paid
      <4>1. r.paid <= y.paid /\ y.paid <= x.paid /\ y.paid # r.paid
        BY <2>1, <2>4, <3>3 DEF Advance, Kept
      <4>2. r.paid \in Nat /\ y.paid \in Nat /\ x.paid \in Nat
        BY <1>1, <3>4, RowFields
      <4> QED BY <4>1, <4>2
    <3>7. NewlyDone(r, x) # {} => NewlyDone(y, x) # {}
      BY <2>1 DEF NewlyDone
    <3>8. x.fails = r.fails
      BY <2>1, <2>4, <3>3 DEF Looks
    <3>9. ActsOnMoney(r, x, t)
      BY <3>3, <3>6, <3>7, <3>8 DEF Looks, ActsOnMoney
    <3> QED BY <3>5, <3>8, <3>9, SameFailsGrew
  <2> QED BY <2>3, <2>4
<1> QED BY <1>2, <1>3

\* What holds of a row that was reached over some events of a batch.
Reached(c, r, x, t) ==
    /\ RowOK(c, x) /\ Advance(c, r, x, t) /\ Grew(r, x, t)
    /\ FraudSeen(r, x, t)
    /\ NewlyDone(r, x) # {} => x.paid # r.paid

LEMMA ReachedFurther ==
    ASSUME NEW c \in Cases, NEW t \in Nat, NEW r, RowOK(c, r),
           NEW x, Reached(c, r, x, t), NEW y, RowOK(c, y), Advance(c, x, y, t),
           Grew(x, y, t), ActsOnMoney(x, y, t)
    PROVE  Reached(c, r, y, t)
<1>1. RowOK(c, x) /\ Advance(c, r, x, t) /\ Grew(r, x, t)
  BY DEF Reached
<1>2. Advance(c, r, y, t) /\ Grew(r, y, t)
  BY <1>1, AdvanceTransitive, GrewTransitive
<1>3. x.fails # r.fails \/ y.fails # x.fails => y.fails # r.fails
  <2>1. Len(r.fails) \in Nat /\ Len(x.fails) \in Nat /\ Len(y.fails) \in Nat
    BY <1>1, LengthOfFails
  <2>2. /\ Len(r.fails) <= Len(x.fails) /\ Len(x.fails) <= Len(y.fails)
        /\ x.fails # r.fails => Len(r.fails) < Len(x.fails)
        /\ y.fails # x.fails => Len(x.fails) < Len(y.fails)
    BY <1>1 DEF Grew
  <2>3. x.fails # r.fails \/ y.fails # x.fails => Len(r.fails) < Len(y.fails)
    BY <2>1, <2>2
  <2> QED BY <2>1, <2>3
<1>4. x.paid # r.paid \/ y.paid # x.paid => y.paid # r.paid
  <2>1. r.paid <= x.paid /\ x.paid <= y.paid
    BY <1>1 DEF Advance, Kept
  <2>2. r.paid \in Nat /\ x.paid \in Nat /\ y.paid \in Nat
    BY <1>1, RowFields
  <2> QED BY <2>1, <2>2
<1>5. CASE NewlyDone(x, y) # {}
  <2>1. Hits(y, t) = {} /\ Hits(x, t) = {} /\ y.paid # r.paid
    BY <1>4, <1>5 DEF ActsOnMoney, ShowsFraud, Hits
  <2>2. Hits(r, t) \subseteq {"FRAUD_AVS_MISMATCH"}
    BY <1>1, <2>1 DEF Grew
  <2>3. Hits(r, t) # {} => x.fails # r.fails
    BY <2>1 DEF Hits
  <2> QED BY <1>2, <1>3, <2>1, <2>2, <2>3 DEF Reached, FraudSeen
<1>6. CASE NewlyDone(x, y) = {} /\ NewlyDone(r, y) # {}
  <2>1. NewlyDone(r, x) # {}
    BY <1>6 DEF NewlyDone
  <2>2. FraudSeen(r, x, t) /\ y.paid # r.paid
    BY <1>4, <2>1 DEF Reached
  <2>3. Hits(x, t) = {} /\ Hits(y, t) # {} => y.fails # x.fails
    BY DEF Hits
  <2>4. Hits(y, t) # {} => y.fails # r.fails
    BY <1>3, <2>1, <2>2, <2>3 DEF FraudSeen
  <2>5. /\ Hits(r, t) \subseteq {"FRAUD_AVS_MISMATCH"}
        /\ Hits(r, t) # {} => y.fails # r.fails
    BY <1>3, <2>1, <2>2 DEF FraudSeen
  <2> QED BY <1>2, <2>2, <2>4, <2>5 DEF Reached, FraudSeen
<1>7. CASE NewlyDone(r, y) = {}
  BY <1>2, <1>7 DEF Reached, FraudSeen
<1> QED BY <1>5, <1>6, <1>7

LEMMA DeliverAllAdvance ==
    ASSUME NEW c \in Cases, NEW t \in Nat, NEW r, RowOK(c, r), SafeRow(c, r, t),
           NEW batch, BatchOf(c, batch)
    PROVE  \A y \in DeliverAll(c, r, batch, t) : Reached(c, r, y, t)
<1> DEFINE Good == {x \in Row : Reached(c, r, x, t)}
<1>1. \A x : x \in Good <=> Reached(c, r, x, t)
  BY DEF Reached, RowOK
<1>2. r \in Good
  <2>1. Advance(c, r, r, t) /\ NewlyDone(r, r) = {}
    BY QuietReflexive, QuietLooks DEF Quiet
  <2> QED BY <1>1, <2>1, SameFailsGrew DEF Reached, FraudSeen
<1> HIDE DEF Good
<1>3. ASSUME NEW i \in 1 .. Len(batch), NEW x \in Good, NEW y \in Deliver(c, x, batch[i], t)
      PROVE  y \in Good
  <2>1. Reached(c, r, x, t) /\ RowOK(c, x) /\ SafeRow(c, x, t)
    BY <1>1 DEF Reached, Advance
  <2>2. batch[i] \in Events /\ batch[i].case = c
    BY DEF BatchOf
  <2>3. RowOK(c, y)
    BY <1>3, <2>1, <2>2, DeliverStep DEF Step
  <2>4. Advance(c, x, y, t) /\ Grew(x, y, t) /\ ActsOnMoney(x, y, t)
    BY <1>3, <2>1, <2>2, DeliverAdvance
  <2> QED BY <1>1, <2>1, <2>3, <2>4, ReachedFurther
<1>4. DeliverAll(c, r, batch, t) \subseteq Good
  BY <1>2, <1>3, DeliverAllKeeps DEF BatchOf
<1> QED BY <1>1, <1>4

\* ingest_events.
LEMMA IngestRowAdvance ==
    ASSUME NEW c \in Cases, NEW t \in Nat, NEW r, RowOK(c, r), SafeRow(c, r, t),
           NEW batch, BatchOf(c, batch)
    PROVE  \A y \in IngestRow(c, r, batch, t) : AgentStep(c, r, y, t)
<1> SUFFICES ASSUME NEW x \in DeliverAll(c, r, batch, t),
                    NEW y \in IF x.seen # r.seen /\ x.state = "NONE" /\ ~IsPaid(c, x)
                              THEN StepCase(c, OpenCase(c, x, t), t) ELSE {x}
             PROVE  AgentStep(c, r, y, t)
  BY Zenon DEF IngestRow
<1>1. /\ RowOK(c, x) /\ AgentStep(c, r, x, t) /\ Advance(c, r, x, t) /\ SafeRow(c, x, t)
      /\ Grew(r, x, t)
  BY DeliverAllAdvance DEF Reached, AgentStep, Advance
<1>2. CASE ~(x.seen # r.seen /\ x.state = "NONE" /\ ~IsPaid(c, x))
  BY <1>1, <1>2
<1>3. CASE x.seen # r.seen /\ x.state = "NONE" /\ ~IsPaid(c, x)
  <2> DEFINE o == OpenCase(c, x, t)
  <2>1. Quiet(c, x, o, t) /\ RowOK(c, o) /\ o.state = "OPEN"
    BY <1>1, <1>3, OpenCaseQuiet, OpenCaseStep DEF Step
  <2>2. y \in StepCase(c, o, t)
    BY <1>3
  <2> HIDE DEF o
  <2>3. NewlyDone(r, x) = {}
    BY <1>1, <1>3 DEF SafeRow, Untouched, NewlyDone, Done
  <2>4. NewlyDone(x, o) = {}
    BY <2>1, QuietLooks
  <2>5. NewlyDone(r, o) = {}
    BY <2>3, <2>4 DEF NewlyDone
  <2>6. Advance(c, r, o, t)
    BY <1>1, <2>1, AdvanceTransitive DEF Quiet
  <2>7. Advance(c, r, y, t) /\ (NewlyDone(o, y) # {} => ~ShowsFraud(y, t)) /\ y.fails = x.fails
    <3>1. SafeRow(c, o, t) /\ o.fails = x.fails
      BY <2>1 DEF Quiet, Advance
    <3>2. RowOK(c, y) /\ Advance(c, o, y, t) /\ Looks(o, y, t)
      BY <2>1, <2>2, <3>1, StepCaseAdvance, StepCaseStep DEF Step
    <3>3. Advance(c, r, y, t)
      BY <2>1, <2>6, <3>2, AdvanceTransitive
    <3> QED BY <3>1, <3>2, <3>3 DEF Looks
  <2>8. FraudSeen(r, y, t)
    <3> SUFFICES ASSUME NewlyDone(r, y) # {} PROVE FraudSeen(r, y, t)
      BY DEF FraudSeen
    <3>1. NewlyDone(o, y) # {}
      BY <2>5 DEF NewlyDone
    <3>2. Hits(y, t) = {} /\ Hits(x, t) = {}
      BY <2>7, <3>1 DEF ShowsFraud, Hits
    <3>3. Hits(r, t) \subseteq {"FRAUD_AVS_MISMATCH"}
      BY <1>1, <3>2 DEF Grew
    <3>4. Hits(r, t) # {} => y.fails # r.fails
      BY <2>7, <3>2 DEF Hits
    <3> QED BY <3>2, <3>3, <3>4 DEF FraudSeen
  <2> QED BY <2>7, <2>8 DEF AgentStep
<1> QED BY <1>2, <1>3

\* A request that waited too long is declined, and its case closed.
LEMMA ExpireQuiet ==
    ASSUME NEW c \in Cases, NEW t \in Nat, NEW r, RowOK(c, r), SafeRow(c, r, t)
    PROVE  Quiet(c, r, ExpireStaleApprovals(r, t), t)
<1> DEFINE declined(a) == [a EXCEPT !.status = "DECLINED"]
           acts == [k \in Keys |-> IF k \in Stale(r, t)
                                   THEN [r.acts[k] EXCEPT !.status = "DECLINED"]
                                   ELSE r.acts[k]]
           x == ExpireStaleApprovals(r, t)
<1>1. r \in Row /\ r.acts \in [Keys -> Act]
  BY RowFields
<1>2. Step(c, r, x)
  BY ExpireStep
<1>3. \A k \in Keys : SameAct(r.acts[k], acts[k])
  <2>1. \A a \in Act : /\ a.status = "PENDING_APPROVAL" => SameAct(a, declined(a))
                       /\ SameAct(a, a)
    BY DEF Act, SameAct, Done
  <2> HIDE DEF declined
  <2>2. \A k \in Keys : /\ acts[k] = declined(r.acts[k]) \/ acts[k] = r.acts[k]
                        /\ r.acts[k].status # "PENDING_APPROVAL" => acts[k] = r.acts[k]
    BY DEF declined, Stale, Pending
  <2> HIDE DEF acts
  <2> QED BY <1>1, <2>1, <2>2
<1>4. x = r \/ x = [SetState(r, "CLOSED_NOOP") EXCEPT !.acts = acts]
  BY Zenon DEF ExpireStaleApprovals
<1> HIDE DEF acts, x
<1>5. CASE x = r
  BY <1>5, QuietReflexive DEF x
<1>6. CASE x = [SetState(r, "CLOSED_NOOP") EXCEPT !.acts = acts]
  <2>1. /\ x.paid = r.paid /\ x.fails = r.fails /\ x.seen = r.seen /\ x.acts = acts
        /\ x.calls = r.calls /\ x.promise = r.promise /\ x.risk = r.risk
    BY <1>1, <1>6 DEF SetState, Row
  <2>2. Advance(c, r, x, t)
    BY <1>2, <1>3, <2>1, QuietAdvance DEF Explained
  <2> QED BY <1>3, <2>1, <2>2 DEF Quiet, x
<1> QED BY <1>4, <1>5, <1>6

\* Announced money that is due is explained by its hint; then the case is seen to.
LEMMA DrainAdvance ==
    ASSUME NEW c \in Cases, NEW t \in Nat, NEW r, RowOK(c, r), SafeRow(c, r, t)
    PROVE  \A x \in DrainPendingPayments(c, r, t) : Advance(c, r, x, t) /\ Looks(r, x, t)
<1> DEFINE due   == DueHints(r, t)
           first == CHOOSE k \in due : TRUE
           paid  == ReceiveMoney(c, r, r.acts[first].hintAmt)
           consumed(a) == [a EXCEPT !.hint = "applied"]
           acts  == [k \in Keys |-> IF k \in due
                                    THEN [r.acts[k] EXCEPT !.hint = "applied"]
                                    ELSE r.acts[k]]
           spent == [paid EXCEPT !.acts = acts]
<1>1. r \in Row /\ r.acts \in [Keys -> Act]
  BY RowFields
<1>2. CASE due = {}
  <2>1. DrainPendingPayments(c, r, t) = {r}
    BY <1>2 DEF DrainPendingPayments
  <2> QED BY <2>1, QuietReflexive, QuietLooks DEF Quiet
<1>3. CASE due # {}
  <2>1. first \in Keys /\ first \in due /\ r.acts[first].hint = "waiting"
    BY <1>3 DEF DueHints
  <2> HIDE DEF first
  <2>2. r.acts[first].hintAmt \in Nat
    BY <1>1, <2>1 DEF Act
  <2>3. /\ paid.fails = r.fails /\ paid.seen = r.seen /\ paid.acts = r.acts
        /\ paid.calls = r.calls /\ paid.promise = r.promise /\ paid.risk = r.risk
    BY <1>1, ReceiveMoneyFrame
  <2>4. Step(c, r, paid)
    BY <2>2, ReceiveMoneyStep
  <2>5. /\ acts \in [Keys -> Act]
        /\ \A k \in Keys : acts[k].status = r.acts[k].status /\ SameAct(r.acts[k], acts[k])
        /\ acts[first].hint = "applied"
    <3>1. ASSUME NEW a \in Act
          PROVE  /\ consumed(a) \in Act /\ consumed(a).status = a.status
                 /\ consumed(a).hint = "applied"
                 /\ a.hint # "none" => SameAct(a, consumed(a))
                 /\ SameAct(a, a)
      <4>1. /\ consumed(a).status = a.status /\ consumed(a).hint = "applied"
            /\ consumed(a).at = a.at /\ consumed(a).verdict = a.verdict
            /\ consumed(a).hintAmt = a.hintAmt
        BY DEF Act
      <4>2. consumed(a) \in Act
        BY DEF Act
      <4> HIDE DEF consumed
      <4> QED BY <4>1, <4>2 DEF SameAct, Done
    <3> HIDE DEF consumed
    <3>2. acts = [k \in Keys |-> IF k \in due THEN consumed(r.acts[k]) ELSE r.acts[k]]
      BY DEF consumed
    <3>3. \A k \in due : r.acts[k].hint # "none"
      BY DEF DueHints
    <3> HIDE DEF acts, due
    <3> QED BY <1>1, <2>1, <3>1, <3>2, <3>3
  <2>6. DrainPendingPayments(c, r, t) =
          IF spent.state = "OPEN" THEN StepCase(c, spent, t) ELSE {spent}
    BY <1>3, Zenon DEF DrainPendingPayments, first
  <2> HIDE DEF acts, paid
  <2>7. paid \in Row
    BY <2>4 DEF Step, RowOK
  <2>8. spent \in Row
    BY <2>5, <2>7, Zenon DEF Row
  <2>9. /\ spent.paid = paid.paid /\ spent.recovered = paid.recovered
        /\ spent.state = paid.state /\ spent.acts = acts
        /\ spent.fails = r.fails /\ spent.seen = r.seen /\ spent.calls = r.calls
        /\ spent.promise = r.promise /\ spent.risk = r.risk
    BY <2>3, <2>7 DEF Row
  <2> HIDE DEF spent
  <2>10. Step(c, r, spent)
    <3>1. Step(c, paid, spent)
      BY <2>3, <2>4, <2>5, <2>8, <2>9, QuietStep DEF Step
    <3> QED BY <2>4, <3>1, StepTransitive
  <2>11. Explained(c, r, spent)
    BY <2>1, <2>5, <2>9 DEF Explained
  <2>12. Advance(c, r, spent, t) /\ NewlyDone(r, spent) = {}
    BY <2>5, <2>9, <2>10, <2>11, QuietAdvance
  <2>13. Looks(r, spent, t)
    BY <2>9, <2>12 DEF Looks
  <2>14. RowOK(c, spent) /\ SafeRow(c, spent, t)
    BY <2>10, <2>12 DEF Step, Advance
  <2>15. CASE spent.state = "OPEN"
    <3>1. \A x \in StepCase(c, spent, t) :
             RowOK(c, x) /\ Advance(c, spent, x, t) /\ Looks(spent, x, t)
      BY <2>14, <2>15, StepCaseAdvance, StepCaseStep DEF Step
    <3> QED BY <2>6, <2>12, <2>13, <2>14, <2>15, <3>1, AdvanceTransitive, LooksTransitive
  <2> QED BY <2>6, <2>12, <2>13, <2>15
<1> QED BY <1>2, <1>3

\* run_tick, stage by stage.
LEMMA TickMoneyAdvance ==
    ASSUME NEW c \in Cases, NEW t \in Nat, NEW r, RowOK(c, r), SafeRow(c, r, t)
    PROVE  \A x \in TickMoney(c, r, t) : Advance(c, r, x, t) /\ Looks(r, x, t)
<1> DEFINE y == ExpireStaleApprovals(r, t)
<1>1. Quiet(c, r, y, t) /\ RowOK(c, y) /\ SafeRow(c, y, t)
  BY ExpireQuiet, ExpireStep DEF Step, Quiet, Advance
<1> HIDE DEF y
<1>2. Advance(c, r, y, t) /\ Looks(r, y, t)
  BY <1>1, QuietLooks DEF Quiet
<1>3. \A x \in DrainPendingPayments(c, y, t) :
         RowOK(c, x) /\ Advance(c, y, x, t) /\ Looks(y, x, t)
  BY <1>1, DrainStep, DrainAdvance DEF Step
<1>4. TickMoney(c, r, t) = DrainPendingPayments(c, y, t)
  BY DEF TickMoney, y
<1> QED BY <1>1, <1>2, <1>3, <1>4, AdvanceTransitive, LooksTransitive

LEMMA TickScanAdvance ==
    ASSUME NEW c \in Cases, NEW t \in Nat, NEW r, RowOK(c, r), SafeRow(c, r, t),
           NEW m \in TickScan(c, r, t)
    PROVE  Advance(c, r, m.row, t) /\ Looks(r, m.row, t)
<1>1. PICK x \in TickMoney(c, r, t) :
        m.row = IF Listed(c, x, t) /\ x.state = "NONE" THEN OpenCase(c, x, t) ELSE x
  BY DEF TickScan
<1>2. RowOK(c, x) /\ Advance(c, r, x, t) /\ Looks(r, x, t) /\ SafeRow(c, x, t)
  BY TickMoneyStep, TickMoneyAdvance DEF Step, Advance
<1>3. CASE Listed(c, x, t) /\ x.state = "NONE"
  <2> DEFINE o == OpenCase(c, x, t)
  <2>1. ~IsPaid(c, x)
    BY <1>3 DEF Listed, Overdue
  <2>2. Quiet(c, x, o, t) /\ RowOK(c, o)
    BY <1>2, <1>3, <2>1, OpenCaseQuiet, OpenCaseStep DEF Step
  <2>3. m.row = o
    BY <1>1, <1>3
  <2> HIDE DEF o
  <2>4. Advance(c, x, o, t) /\ Looks(x, o, t)
    BY <2>2, QuietLooks DEF Quiet
  <2> QED BY <1>2, <2>2, <2>3, <2>4, AdvanceTransitive, LooksTransitive
<1>4. CASE ~(Listed(c, x, t) /\ x.state = "NONE")
  BY <1>1, <1>2, <1>4
<1> QED BY <1>3, <1>4

LEMMA TickEarlyAdvance ==
    ASSUME NEW c \in Cases, NEW t \in Nat, NEW r, RowOK(c, r), SafeRow(c, r, t),
           NEW m \in TickEarly(c, r, t)
    PROVE  Advance(c, r, m.row, t) /\ Looks(r, m.row, t)
<1>1. PICK x \in TickScan(c, r, t) :
        \E y \in (IF ScheduleArrived(x.row, t) THEN StepCase(c, x.row, t) ELSE {x.row}) :
            m = [row |-> y, due |-> x.due]
  BY DEF TickEarly
<1>2. /\ RowOK(c, x.row) /\ Advance(c, r, x.row, t) /\ Looks(r, x.row, t)
      /\ SafeRow(c, x.row, t)
  BY TickScanStep, TickScanAdvance DEF Step, Advance
<1>3. CASE ScheduleArrived(x.row, t)
  <2>1. x.row.state # "NONE"
    BY <1>3 DEF ScheduleArrived
  <2>2. m.row \in StepCase(c, x.row, t)
    BY <1>1, <1>3
  <2>3. RowOK(c, m.row) /\ Advance(c, x.row, m.row, t) /\ Looks(x.row, m.row, t)
    BY <1>2, <2>1, <2>2, StepCaseStep, StepCaseAdvance DEF Step
  <2> QED BY <1>2, <2>3, AdvanceTransitive, LooksTransitive
<1>4. CASE ~ScheduleArrived(x.row, t)
  BY <1>1, <1>2, <1>4
<1> QED BY <1>3, <1>4

LEMMA TickLateAdvance ==
    ASSUME NEW c \in Cases, NEW t \in Nat, NEW r, RowOK(c, r), SafeRow(c, r, t),
           NEW m \in TickEarly(c, r, t)
    PROVE  \A x \in TickLate(c, m, t) : AgentStep(c, r, x, t)
<1>1. /\ RowOK(c, m.row) /\ Advance(c, r, m.row, t) /\ Looks(r, m.row, t)
      /\ SafeRow(c, m.row, t) /\ (m.due => m.row.state # "NONE")
  BY TickEarlyStep, TickEarlyAdvance DEF Step, Advance
<1>2. \A x \in TickLate(c, m, t) : Advance(c, r, x, t) /\ Looks(r, x, t)
  <2>1. CASE m.due
    <3>1. \A x \in StepCase(c, m.row, t) :
             RowOK(c, x) /\ Advance(c, m.row, x, t) /\ Looks(m.row, x, t)
      BY <1>1, <2>1, StepCaseStep, StepCaseAdvance DEF Step
    <3> QED BY <1>1, <2>1, <3>1, AdvanceTransitive, LooksTransitive DEF TickLate
  <2>2. CASE ~m.due
    BY <1>1, <2>2 DEF TickLate
  <2> QED BY <2>1, <2>2
<1> QED BY <1>2, LooksSeesFraud DEF AgentStep

\* decide_approval: what a human releases waited for it.
LEMMA DecideRowHuman ==
    ASSUME NEW c \in Cases, NEW t \in Nat, NEW r, RowOK(c, r), SafeRow(c, r, t),
           NEW k \in Pending(r), NEW d \in {"APPROVED", "DECLINED"}
    PROVE  \A y \in DecideRow(c, r, k, d, t) : HumanStep(c, r, y, t)
<1> SUFFICES ASSUME NEW y \in DecideRow(c, r, k, d, t)
             PROVE  HumanStep(c, r, y, t)
  OBVIOUS
<1>1. /\ r \in Row /\ r.acts \in [Keys -> Act] /\ k \in Keys
      /\ r.acts[k].status = "PENDING_APPROVAL"
  BY RowFields DEF Pending
<1>2. r.acts[k].verdict = "REQUIRES_APPROVAL" /\ ~Done(r.acts[k])
  BY <1>1 DEF SafeRow, SoundAct, Done
<1>3. Step(c, r, y)
  BY DecideRowStep
<1>4. CASE d = "DECLINED"
  <2> DEFINE act == [r.acts[k] EXCEPT !.status = "DECLINED"]
  <2>1. y = [SetState(r, "CLOSED_NOOP") EXCEPT !.acts[k].status = "DECLINED"]
    BY <1>4 DEF DecideRow
  <2>2. /\ y.paid = r.paid /\ y.fails = r.fails /\ y.seen = r.seen
        /\ y.calls = r.calls /\ y.promise = r.promise /\ y.risk = r.risk
        /\ y.acts = [r.acts EXCEPT ![k] = act]
    BY <1>1, <2>1 DEF SetState, Row
  <2>3. SameAct(r.acts[k], act)
    <3>1. r.acts[k] \in Act
      BY <1>1
    <3> QED BY <1>1, <3>1 DEF Act, SameAct, Done
  <2> HIDE DEF act
  <2>4. \A j \in Keys : SameAct(r.acts[j], y.acts[j])
    BY <1>1, <2>2, <2>3, SameActReflexive
  <2>5. Advance(c, r, y, t) /\ NewlyDone(r, y) = {}
    BY <1>3, <2>2, <2>4, QuietAdvance DEF Explained
  <2> QED BY <2>5 DEF HumanStep, Advance
<1>5. CASE d # "DECLINED"
  <2> DEFINE verdict  == r.acts[k].verdict
             promised == r.acts[k].promised
  <2>1. PICK x \in Dispatched(c, r, k, verdict, promised, t) : y = Observe(c, x, k, t)
    BY <1>5 DEF DecideRow
  <2>2. PICK ans \in ProviderAnswers(r, k[1], k[2]) :
                x = Dispatch(c, r, k, verdict, promised, ans, t)
    BY <2>1 DEF Dispatched
  <2>3. ans \in Answers
    BY AnswersType
  <2>4. verdict \in {"", "APPROVED", "REQUIRES_APPROVAL"} /\ promised \in Times
    <3>1. r.acts[k] \in Act
      BY <1>1
    <3> QED BY <3>1 DEF Act, Times
  <2>5. Before(r, k, t)
    BY <1>1, WaitIsOver
  <2>6. r.state # "NONE" /\ ~(r.risk < ActionRiskMin)
    BY <1>1 DEF SafeRow, Untouched
  <2>7. verdict \in Rulings /\ verdict # "APPROVED" /\ verdict = "REQUIRES_APPROVAL"
    BY <1>2 DEF Rulings
  <2>8. RowOK(c, x)
    BY <1>1, <2>1, <2>4, DispatchedStep DEF Step
  <2>9. promised \in Times
    BY <2>4
  <2> HIDE DEF verdict, promised
  <2>10. /\ SafeRow(c, x, t) /\ Kept(r, x)
         /\ x.paid = r.paid /\ x.fails = r.fails
         /\ \A j \in Keys : j # k => x.acts[j] = r.acts[j]
         /\ x.acts[k].verdict = verdict
    BY <1>1, <1>2, <2>2, <2>3, <2>5, <2>6, <2>7, <2>9, DispatchAdvance
  <2>11. Quiet(c, x, y, t)
    BY <1>1, <2>1, <2>8, <2>10, ObserveQuiet
  <2>12. Kept(x, y) /\ Explained(c, x, y) /\ SafeRow(c, y, t)
    BY <2>11 DEF Quiet, Advance
  <2>13. Kept(r, y)
    <3>1. r.paid <= y.paid
      BY <1>3 DEF Step, Onward, Credits
    <3> QED BY <2>10, <2>12, <3>1 DEF Kept
  <2>14. Explained(c, r, y)
    BY <2>10, <2>12 DEF Explained, Kept
  <2>15. \A j \in NewlyDone(r, y) : j = k /\ y.acts[k].verdict = verdict
    BY <1>1, <2>10, <2>11 DEF NewlyDone, Quiet, SameAct
  <2> QED BY <1>1, <2>7, <2>12, <2>13, <2>14, <2>15 DEF HumanStep
<1> QED BY <1>4, <1>5

-----------------------------------------------------------------------------
(* The whole system.                                                        *)

\* The inductive invariant.
ExecInv ==
    /\ CaseInv
    /\ \A c \in Cases : SafeRow(c, db[c], now)
    /\ rolledBack \/ \A c \in Cases : CallsMatch(db[c])

Permitted(c, r, x, t) == AgentStep(c, r, x, t) \/ HumanStep(c, r, x, t)

\* A rollback leaves everything but the provider as it was.
Frozen(r, x) == x.acts = r.acts /\ x.paid = r.paid

ExecStep ==
    \A c \in Cases : Permitted(c, db[c], db'[c], now) \/ Frozen(db[c], db'[c])

LEMMA IdlePermitted ==
    ASSUME NEW c \in Cases, NEW t \in Nat, NEW r, RowOK(c, r), SafeRow(c, r, t)
    PROVE  Permitted(c, r, r, t)
<1>1. Advance(c, r, r, t) /\ NewlyDone(r, r) = {}
  BY QuietReflexive, QuietLooks DEF Quiet
<1> QED BY <1>1 DEF Permitted, AgentStep, FraudSeen

LEMMA CommitExec ==
    ASSUME ExecInv, CaseInv', NEW rows, Commit(rows),
           \A c \in Cases : Permitted(c, db[c], rows[c], now)
    PROVE  ExecInv' /\ ExecStep
<1>1. db' = rows /\ now' = now /\ rolledBack' = rolledBack
  BY DEF Commit
<1>2. ASSUME NEW c \in Cases
      PROVE  SafeRow(c, rows[c], now) /\ Kept(db[c], rows[c])
  BY DEF Permitted, AgentStep, HumanStep, Advance
<1>3. (\A c \in Cases : SafeRow(c, db[c], now))'
  <2> SUFFICES ASSUME NEW c \in Cases PROVE SafeRow(c, db[c], now)'
    OBVIOUS
  <2>1. SafeRow(c, rows[c], now)
    BY <1>2
  <2> QED BY <1>1, <2>1
<1>4. (rolledBack \/ \A c \in Cases : CallsMatch(db[c]))'
  <2>1. rolledBack \/ \A c \in Cases : CallsMatch(rows[c])
    BY <1>2 DEF ExecInv, Kept
  <2> QED BY <1>1, <2>1
<1>5. ExecStep
  BY <1>1 DEF ExecStep
<1> QED BY <1>3, <1>4, <1>5 DEF ExecInv

\* The rows are as they were, at the same time or later; but the provider was
\* called for work that is forgotten.
LEMMA FrozenExec ==
    ASSUME ExecInv, CaseInv', now' \in Nat, now <= now',
           \A c \in Cases : /\ db'[c].acts = db[c].acts /\ db'[c].paid = db[c].paid
                            /\ db'[c].state = db[c].state /\ db'[c].risk = db[c].risk
                            /\ rolledBack' \/ db'[c].calls = db[c].calls,
           rolledBack => rolledBack'
    PROVE  ExecInv' /\ ExecStep
<1>1. ASSUME NEW c \in Cases
      PROVE  SafeRow(c, db'[c], now')
  <2>1. SafeRow(c, db[c], now)
    BY DEF ExecInv
  <2>2. now \in Nat
    BY DEF ExecInv, CaseInv, TypeOK
  <2>3. \A k \in Keys : SoundAct(c, db'[c], k, now')
    <3> SUFFICES ASSUME NEW k \in Keys PROVE SoundAct(c, db'[c], k, now')
      OBVIOUS
    <3>1. SoundAct(c, db[c], k, now)
      BY <2>1 DEF SafeRow
    <3>2. \A s : Before(db[c], k, s) => Before(db'[c], k, s)
      BY DEF Before
    <3>3. Outstanding(c, db'[c]) = Outstanding(c, db[c])
      BY DEF Outstanding
    <3>4. 0 .. now \subseteq 0 .. now'
      BY <2>2
    <3> QED BY <3>1, <3>2, <3>3, <3>4 DEF SoundAct
  <2> QED BY <2>1, <2>3 DEF SafeRow, Untouched
<1>2. rolledBack' \/ \A c \in Cases : CallsMatch(db'[c])
  BY DEF ExecInv, CallsMatch
<1>3. ExecStep
  BY DEF ExecStep, Frozen
<1>4. (\A c \in Cases : SafeRow(c, db[c], now))'
  BY <1>1
<1>5. (rolledBack \/ \A c \in Cases : CallsMatch(db[c]))'
  BY <1>2
<1> QED BY <1>3, <1>4, <1>5 DEF ExecInv

LEMMA RollBackExec ==
    ASSUME ExecInv, CaseInv', NEW rows, RollBack(rows)
    PROVE  ExecInv' /\ ExecStep
<1>1. now' = now /\ rolledBack' = TRUE /\ now \in Nat
  BY DEF RollBack, ExecInv, CaseInv, TypeOK
<1>2. ASSUME NEW c \in Cases
      PROVE  /\ db'[c].acts = db[c].acts /\ db'[c].paid = db[c].paid
             /\ db'[c].state = db[c].state /\ db'[c].risk = db[c].risk
  <2>1. db[c] \in Row
    BY DEF ExecInv, CaseInv, TypeOK
  <2>2. db'[c] = [db[c] EXCEPT !.calls = rows[c].calls]
    BY DEF RollBack
  <2> QED BY <2>1, <2>2 DEF Row
<1>3. now' \in Nat /\ now <= now'
  BY <1>1
<1>4. rolledBack'
  BY <1>1
<1> QED BY <1>2, <1>3, <1>4, FrozenExec

LEMMA IngestPermitted ==
    ASSUME ExecInv, NEW rows \in IngestResults, NEW d \in Cases
    PROVE  Permitted(d, db[d], rows[d], now)
<1>1. PICK b \in Batches : \E x \in IngestRow(b[1].case, db[b[1].case], b, now) :
                               rows = [db EXCEPT ![b[1].case] = x]
  BY Zenon DEF IngestResults
<1> DEFINE c == b[1].case
<1>2. c \in Cases /\ BatchOf(c, b)
  BY BatchesAreBatches
<1>3. PICK x \in IngestRow(c, db[c], b, now) : rows = [db EXCEPT ![c] = x]
  BY <1>1
<1>4. db \in [Cases -> Row] /\ now \in Nat
  BY DEF ExecInv, CaseInv, TypeOK
<1>5. AgentStep(c, db[c], x, now)
  BY <1>2, <1>3, <1>4, IngestRowAdvance DEF ExecInv, CaseInv
<1> HIDE DEF c
<1>6. CASE d = c
  BY <1>2, <1>3, <1>4, <1>5, <1>6 DEF Permitted
<1>7. CASE d # c
  <2>1. rows[d] = db[d]
    BY <1>2, <1>3, <1>4, <1>7
  <2> QED BY <1>4, <2>1, IdlePermitted DEF ExecInv, CaseInv
<1> QED BY <1>6, <1>7

LEMMA DecidePermitted ==
    ASSUME ExecInv, NEW rows \in DecideResults, NEW d \in Cases
    PROVE  Permitted(d, db[d], rows[d], now)
<1>1. PICK c \in Cases : \E x \in Decided(c, db[c], now) : rows = [db EXCEPT ![c] = x]
  BY Zenon DEF DecideResults
<1>2. PICK x \in Decided(c, db[c], now) : rows = [db EXCEPT ![c] = x]
  BY <1>1
<1>3. PICK k \in Pending(db[c]) :
        x \in DecideRow(c, db[c], k, "APPROVED", now)
              \cup DecideRow(c, db[c], k, "DECLINED", now)
  BY <1>2, Zenon DEF Decided
<1>4. db \in [Cases -> Row] /\ now \in Nat
  BY DEF ExecInv, CaseInv, TypeOK
<1>5. HumanStep(c, db[c], x, now)
  BY <1>3, <1>4, DecideRowHuman DEF ExecInv, CaseInv
<1>6. CASE d = c
  BY <1>2, <1>4, <1>5, <1>6 DEF Permitted
<1>7. CASE d # c
  <2>1. rows[d] = db[d]
    BY <1>2, <1>4, <1>7
  <2> QED BY <1>4, <2>1, IdlePermitted DEF ExecInv, CaseInv
<1> QED BY <1>6, <1>7

LEMMA TickPermitted ==
    ASSUME ExecInv, NEW mid \in TickMiddles, NEW rows \in TickResults(mid), NEW c \in Cases
    PROVE  Permitted(c, db[c], rows[c], now)
<1>1. mid[c] \in TickEarly(c, db[c], now)
  BY DEF TickMiddles, OnePerCase
<1>2. rows[c] \in TickLate(c, mid[c], now)
  BY DEF TickResults, OnePerCase
<1>3. AgentStep(c, db[c], rows[c], now)
  BY <1>1, <1>2, TickLateAdvance DEF ExecInv, CaseInv, TypeOK
<1> QED BY <1>3 DEF Permitted

LEMMA NextExec ==
    ASSUME ExecInv, [Next]_vars
    PROVE  ExecInv' /\ ExecStep
<1>1. CaseInv'
  BY NextInv DEF ExecInv
<1>2. now \in Nat
  BY DEF ExecInv, CaseInv, TypeOK
<1>3. CASE IngestEvents
  BY <1>1, <1>3, IngestPermitted, CommitExec DEF IngestEvents
<1>4. CASE DecideApproval
  BY <1>1, <1>4, DecidePermitted, CommitExec DEF DecideApproval
<1>5. CASE RunTick
  BY <1>1, <1>5, TickPermitted, CommitExec DEF RunTick
<1>6. CASE IngestRaises \/ TickRaises \/ HandlerCrashes
  <2>1. \E rows : RollBack(rows)
    BY <1>6, Zenon DEF IngestRaises, TickRaises, HandlerCrashes, Raise, Crash
  <2> QED BY <1>1, <2>1, RollBackExec
<1>7. CASE AdvanceClock
  <2>1. now' = now + 1 /\ db' = db /\ rolledBack' = rolledBack
    BY <1>7 DEF AdvanceClock
  <2>2. now' \in Nat /\ now <= now'
    BY <1>2, <2>1
  <2> QED BY <1>1, <2>1, <2>2, FrozenExec
<1>8. CASE UNCHANGED vars
  <2>1. now' = now /\ db' = db /\ rolledBack' = rolledBack
    BY <1>8 DEF vars
  <2>2. now' \in Nat /\ now <= now'
    BY <1>2, <2>1
  <2> QED BY <1>1, <2>1, <2>2, FrozenExec
<1> QED BY <1>3, <1>4, <1>5, <1>6, <1>7, <1>8 DEF Next

\* Nothing was executed, and nothing asked, in a row no step has touched.
LEMMA InitExec == Init => ExecInv
<1> SUFFICES ASSUME Init PROVE ExecInv
  OBVIOUS
<1>1. CaseInv
  BY InitInv
<1>2. ASSUME NEW c \in Cases
      PROVE  /\ \A k \in Keys : db[c].acts[k] = NoAct
             /\ \A k \in Keys : db[c].calls[k] = 0
  <2>1. db[c] = IF Promised[c] = NoTime THEN NoCase
                ELSE OpenCase(c, [NoCase EXCEPT !.promise = Promised[c]], 0)
    BY Zenon DEF Init
  <2>2. db[c].acts = NoCase.acts /\ db[c].calls = NoCase.calls
    BY <2>1 DEF OpenCase, NoCase
  <2> QED BY <2>2 DEF NoCase
<1>3. NoAct.status = "ABSENT" /\ NoAct.hint = "none" /\ ~Done(NoAct)
  BY DEF NoAct, Done
<1>4. \A c \in Cases : SafeRow(c, db[c], now)
  BY <1>2, <1>3 DEF SafeRow, SoundAct, Untouched
<1>5. \A c \in Cases : CallsMatch(db[c])
  BY <1>2 DEF CallsMatch
<1> QED BY <1>1, <1>4, <1>5 DEF ExecInv

\* ExecInv is inductive.
LEMMA ExecInvariant == Spec => []ExecInv
<1>1. ExecInv /\ [Next]_vars => ExecInv'
  BY NextExec
<1> QED BY InitExec, <1>1, PTL DEF Spec

-----------------------------------------------------------------------------
(* What is kept at all times.                                               *)

\* The n-th attempt of a playbook follows every earlier one by the cooldown, also
\* when a request waited for its approval meanwhile (stopping_hits, decide_approval).
THEOREM CooldownAlwaysKept == Spec => []CooldownKept
<1>1. ExecInv => CooldownKept
  <2> SUFFICES ASSUME ExecInv, NEW c \in Cases, NEW p \in ActPlaybooks,
                      NEW m \in 1 .. 3, NEW n \in 1 .. 3, m < n,
                      Done(db[c].acts[<<p, n>>])
               PROVE  /\ Done(db[c].acts[<<p, m>>])
                      /\ db[c].acts[<<p, n>>].at - db[c].acts[<<p, m>>].at >= Cooldown[p]
    BY DEF CooldownKept
  <2>1. <<p, n>> \in Keys /\ db[c].acts[<<p, n>>].status # "ABSENT"
    BY DEF Keys, Done
  <2>2. Before(db[c], <<p, n>>, db[c].acts[<<p, n>>].at)
    BY <2>1 DEF ExecInv, SafeRow, SoundAct
  <2>3. m \in 1 .. n - 1
    OBVIOUS
  <2> QED BY <2>2, <2>3 DEF Before
<1> QED BY ExecInvariant, <1>1, PTL

\* Whatever the agent executed on its own it executed in contact hours and before
\* the age limit (contact_window_hit, compliance_hits).
THEOREM UnattendedAlwaysCompliant == Spec => []UnattendedActionsCompliant
<1>1. ExecInv => UnattendedActionsCompliant
  BY DEF ExecInv, SafeRow, SoundAct, Compliant, UnattendedActionsCompliant
<1> QED BY ExecInvariant, <1>1, PTL

\* Money that is announced still covers the balance: part payments only lower it
\* (_pending_hint, drain_pending_payments).
THEOREM HintsAlwaysCover == Spec => []HintCoversBalance
<1>1. ExecInv => HintCoversBalance
  BY DEF ExecInv, SafeRow, SoundAct, HintCoversBalance
<1> QED BY ExecInvariant, <1>1, PTL

\* Until a transaction is rolled back, no idempotency key reaches the provider
\* twice: what was called for is recorded as executed, and is not called for again
\* (execute_action, decide_approval).
THEOREM ProviderAlwaysCalledOnce == Spec => []ProviderCalledOnce
<1>1. ExecInv => ProviderCalledOnce
  BY DEF ExecInv, CallsMatch, ProviderCalledOnce
<1> QED BY ExecInvariant, <1>1, PTL

\* A case scored below the threshold when it was opened is never executed for, nor
\* a human asked about it (the watch gate of step_case).
THEOREM WatchedAlwaysUntouched == Spec => []WatchedCasesUntouched
<1>1. ExecInv => WatchedCasesUntouched
  BY DEF ExecInv, SafeRow, Untouched, WatchedCasesUntouched, HasIntervention
<1> QED BY ExecInvariant, <1>1, PTL

-----------------------------------------------------------------------------
(* What no step does.                                                       *)

\* The balance moves only with an event that was not seen before or an announced
\* payment that was not consumed before (store_event, the idempotency of hints).
THEOREM MoneyAlwaysAppliedOnce == Spec => MoneyAppliedOnce
<1>1. ASSUME ExecInv, [Next]_vars, NEW c \in Cases, db'[c].paid # db[c].paid
      PROVE  \/ \E e \in Events : e.case = c /\ e.id \in db'[c].seen \ db[c].seen
             \/ \E k \in Keys : /\ db'[c].acts[k].hint = "applied"
                                /\ db[c].acts[k].hint # "applied"
  <2>1. Permitted(c, db[c], db'[c], now)
    BY <1>1, NextExec DEF ExecStep, Frozen
  <2>2. Explained(c, db[c], db'[c])
    BY <2>1 DEF Permitted, AgentStep, Advance, HumanStep
  <2> QED BY <1>1, <2>2 DEF Explained
<1>2. ExecInv /\ [Next]_vars =>
        [\A c \in Cases :
            db'[c].paid # db[c].paid =>
                \/ \E e \in Events : e.case = c /\ e.id \in db'[c].seen \ db[c].seen
                \/ \E k \in Keys : /\ db'[c].acts[k].hint = "applied"
                                   /\ db[c].acts[k].hint # "applied"]_vars
  BY <1>1
<1> QED BY ExecInvariant, <1>2, PTL DEF Spec, MoneyAppliedOnce

\* What a step executes, the agent did with all its checks passed, or a human
\* released it: a request that waited, and keeps its verdict.
LEMMA WhoExecutes ==
    ASSUME ExecInv, [Next]_vars, NEW c \in Cases, NEW k \in Keys,
           ~Done(db[c].acts[k]), Done(db'[c].acts[k])
    PROVE  \/ /\ db[c].promise <= now /\ Outstanding(c, db'[c]) < HighValue
              /\ FraudSeen(db[c], db'[c], now)
           \/ /\ db[c].acts[k].status = "PENDING_APPROVAL"
              /\ db'[c].acts[k].verdict = "REQUIRES_APPROVAL"
<1>1. k \in NewlyDone(db[c], db'[c])
  BY DEF NewlyDone
<1>2. Permitted(c, db[c], db'[c], now)
  BY NextExec DEF ExecStep, Frozen
<1> QED BY <1>1, <1>2 DEF Permitted, AgentStep, HumanStep, Advance, Unattended

\* The agent on its own acts on no case whose failures show fraud, whatever the
\* order and the number of the events reported together, and however late they are
\* reported (ApplyEvent files a failure by the time of its attempt): what showed
\* before is at most an address mismatch that a later failure of the same batch has
\* overtaken, and what shows after came in that batch behind the payment acted on
\* (plan_action, ingest_events).
THEOREM FraudIsNeverActedOn == Spec => FraudNeverActedOn
<1>1. ASSUME ExecInv, [Next]_vars, NEW c \in Cases, NEW k \in Keys,
             ~Done(db[c].acts[k]), Done(db'[c].acts[k]),
             db'[c].acts[k].verdict = "APPROVED"
      PROVE  /\ Hits(db[c], now) \subseteq {"FRAUD_AVS_MISMATCH"}
             /\ Hits(db[c], now) # {} => db'[c].fails # db[c].fails
             /\ Hits(db'[c], now) # {} =>
                    db'[c].fails # db[c].fails /\ db'[c].paid # db[c].paid
  <2>1. FraudSeen(db[c], db'[c], now)
    BY <1>1, WhoExecutes
  <2>2. k \in NewlyDone(db[c], db'[c])
    BY <1>1 DEF NewlyDone
  <2> QED BY <2>1, <2>2 DEF FraudSeen
<1>2. ExecInv /\ [Next]_vars =>
        [\A c \in Cases, k \in Keys :
            LET a == db[c].acts[k]
                b == db'[c].acts[k]
                before == FraudHits([now |-> now, fails |-> db[c].fails])
                after  == FraudHits([now |-> now, fails |-> db'[c].fails])
            IN  ~Done(a) /\ Done(b) /\ b.verdict = "APPROVED" =>
                    /\ before \subseteq {"FRAUD_AVS_MISMATCH"}
                    /\ before # {} => db'[c].fails # db[c].fails
                    /\ after # {} => db'[c].fails # db[c].fails /\ db'[c].paid # db[c].paid]_vars
  BY <1>1 DEF Hits
<1> QED BY ExecInvariant, <1>2, PTL DEF Spec, FraudNeverActedOn

\* An action for a balance at or above the high-value limit starts only from a
\* request a human was asked about (plan_action, decide_approval).
THEOREM LargeAmountsAlwaysNeedAHuman == Spec => LargeAmountsNeedAHuman
<1>1. ASSUME ExecInv, [Next]_vars, NEW c \in Cases, NEW k \in Keys,
             ~Done(db[c].acts[k]), Done(db'[c].acts[k]),
             Outstanding(c, db'[c]) >= HighValue
      PROVE  db[c].acts[k].status = "PENDING_APPROVAL"
  <2>1. db'[c] \in Row
    BY <1>1, NextInv DEF ExecInv, SystemStep
  <2>2. Outstanding(c, db'[c]) \in Nat /\ HighValue \in Nat
    BY <2>1, BalanceType, PolicyAssumption
  <2>3. ~(Outstanding(c, db'[c]) < HighValue)
    BY <1>1, <2>2
  <2> QED BY <1>1, <2>3, WhoExecutes
<1>2. ExecInv /\ [Next]_vars =>
        [\A c \in Cases, k \in Keys :
            /\ ~Done(db[c].acts[k]) /\ Done(db'[c].acts[k])
            /\ Outstanding(c, db[c]) >= HighValue
            /\ Outstanding(c, db'[c]) >= HighValue
            => db[c].acts[k].status = "PENDING_APPROVAL"]_vars
  BY <1>1
<1> QED BY ExecInvariant, <1>2, PTL DEF Spec, LargeAmountsNeedAHuman

\* While a promised date lies ahead the agent on its own does nothing for the
\* case, whatever the events of the transaction (the deferral of step_case).
THEOREM PromisesAlwaysRespected == Spec => PromiseRespected
<1>1. ASSUME ExecInv, [Next]_vars, NEW c \in Cases, NEW k \in Keys,
             ~Done(db[c].acts[k]), Done(db'[c].acts[k]),
             db'[c].acts[k].verdict = "APPROVED"
      PROVE  db[c].promise <= now
  BY <1>1, WhoExecutes
<1>2. ExecInv /\ [Next]_vars =>
        [\A c \in Cases, k \in Keys :
            LET a == db[c].acts[k]
                b == db'[c].acts[k]
            IN  ~Done(a) /\ Done(b) /\ b.verdict = "APPROVED" => db[c].promise <= now]_vars
  BY <1>1
<1> QED BY ExecInvariant, <1>2, PTL DEF Spec, PromiseRespected

=============================================================================
