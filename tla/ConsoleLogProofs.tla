--------------------------- MODULE ConsoleLogProofs ---------------------------
(***************************************************************************)
(* Proofs that the audit log and the table of requests agree on every      *)
(* decision, for any number of sessions and requests and for either mode   *)
(* of the diagnosis: also a chain that has forked tells who decided last.  *)
(***************************************************************************)
EXTENDS WebAppProofs, AuditChainProofs

Decisions == {"approved", "declined", "timeout"}

Refusals == {"declined", "timeout"}

\* A row that records a decision of request r.
Decides(content, r) == content.subject = r /\ content.what \in Decisions

\* The positions LogTellsTheStatus looks at.
About(l, r) == {i \in 1 .. Len(l) : Decides(l[i].content, r)}

\* A decision has a higher number than every row before it.  Rows that are not
\* decisions may share a number: two sessions may build on the same last row.
Ordered(l) ==
    \A i, j \in 1 .. Len(l), r \in Requests :
        i < j /\ Decides(l[j].content, r) => l[i].seq < l[j].seq

\* The log holds one decision for each approvals row of the request, and the
\* last of them is what the request shows.
Told(l, r, row) ==
    /\ Cardinality(About(l, r)) = row.approvals
    /\ \/ About(l, r) = {}
       \/ \E i \in About(l, r) :
             /\ \A j \in About(l, r) : j <= i
             /\ row.status = "DECLINED" <=> l[i].content.what \in Refusals

\* Only a tick that expires nothing holds a last row it has read without the
\* lock.
ReadAheadOK(s) ==
    sess[s].last # Unread =>
        /\ s = Agent /\ sess[s].targets = {}
        /\ \E row : /\ sess[s].last = <<row>>
                    /\ row.seq \in Nat /\ row.hash \in Seq(Contents)

\* What the log says and what the requests say go together, and nobody is about
\* to append a decision under a number read too early.
LogInv ==
    /\ log \in Seq(Rows)
    /\ Ordered(log)
    /\ \A r \in Requests : Told(log, r, reqs[r])
    /\ \A s \in Sessions : ReadAheadOK(s)

-----------------------------------------------------------------------------
(* Rows that are appended.                                                  *)

\* x is l with rows of these contents behind it, the decisions among them with
\* numbers of their own.
Extends(x, l, contents) ==
    /\ x \in Seq(Rows) /\ Len(x) = Len(l) + Len(contents)
    /\ \A i \in 1 .. Len(l) : x[i] = l[i]
    /\ \A i \in 1 .. Len(contents) : x[Len(l) + i].content = contents[i]
    /\ Ordered(x)

LEMMA LogType ==
    ASSUME NEW l \in Seq(Rows)
    PROVE  /\ Len(l) \in Nat /\ DOMAIN l = 1 .. Len(l)
           /\ \A i \in 1 .. Len(l) : /\ l[i] \in Rows /\ l[i].seq \in Nat
                                     /\ l[i].content \in Contents
                                     /\ l[i].hash \in Seq(Contents)
<1>1. Len(l) \in Nat /\ DOMAIN l = 1 .. Len(l)
  BY LenProperties
<1>2. ASSUME NEW i \in 1 .. Len(l) PROVE l[i] \in Rows
  BY ElementOfSeq
<1> QED BY <1>1, <1>2 DEF Rows

LEMMA NewRowsType ==
    ASSUME NEW last, last.seq \in Nat, last.hash \in Seq(Contents),
           NEW contents \in Seq(Contents)
    PROVE  /\ RowsAfter(last, contents) \in Seq(Rows)
           /\ Len(RowsAfter(last, contents)) = Len(contents)
           /\ \A i \in 1 .. Len(contents) :
                /\ RowsAfter(last, contents)[i].seq = last.seq + i
                /\ RowsAfter(last, contents)[i].content = contents[i]
<1> DEFINE m == Len(contents)
           prev(i) == last.hash \o SubSeq(contents, 1, i - 1)
           row(i) == [seq  |-> last.seq + i, content |-> contents[i],
                      prev |-> prev(i), hash |-> Append(prev(i), contents[i])]
<1>1. m \in Nat /\ DOMAIN contents = 1 .. m /\ \A i \in 1 .. m : contents[i] \in Contents
  BY LenProperties, ElementOfSeq
<1>2. ASSUME NEW i \in 1 .. m PROVE row(i) \in Rows
  <2> DEFINE older == SubSeq(contents, 1, i - 1)
             before == last.hash \o older
             hash   == Append(before, contents[i])
  <2>1. older \in Seq(Contents)
    BY <1>1, SubSeqProperties
  <2>2. before \in Seq(Contents)
    <3> HIDE DEF older
    <3> QED BY <2>1, ConcatProperties, Zenon
  <2>3. hash \in Seq(Contents)
    <3> HIDE DEF before
    <3> QED BY <1>1, <2>2, AppendProperties
  <2>4. row(i) = [seq |-> last.seq + i, content |-> contents[i], prev |-> before,
                  hash |-> hash]
    OBVIOUS
  <2> HIDE DEF before, hash, row
  <2> QED BY <1>1, <2>2, <2>3, <2>4 DEF Rows
<1>3. RowsAfter(last, contents) = [i \in 1 .. m |-> row(i)]
  BY <1>1 DEF RowsAfter, Digest
<1>4. [i \in 1 .. m |-> row(i)] \in Seq(Rows) /\ Len([i \in 1 .. m |-> row(i)]) = m
  <2> HIDE DEF row
  <2>1. [i \in 1 .. m |-> row(i)] \in [1 .. m -> Rows]
    BY <1>2
  <2>2. [i \in 1 .. m |-> row(i)] \in Seq(Rows)
    BY <1>1, <2>1, SeqDef
  <2> QED BY <1>1, <2>2, LenProperties
<1>5. \A i \in 1 .. m : row(i).seq = last.seq + i /\ row(i).content = contents[i]
  OBVIOUS
<1> HIDE DEF row
<1> QED BY <1>3, <1>4, <1>5

\* Rows numbered above all that is there, or rows without a decision.
LEMMA Appended ==
    ASSUME NEW l \in Seq(Rows), Ordered(l),
           NEW last, last.seq \in Nat, last.hash \in Seq(Contents),
           NEW contents \in Seq(Contents),
           \/ \A i \in 1 .. Len(l) : l[i].seq <= last.seq
           \/ \A i \in 1 .. Len(contents), r \in Requests : ~Decides(contents[i], r)
    PROVE  Extends(l \o RowsAfter(last, contents), l, contents)
<1> DEFINE n == Len(l)
           m == Len(contents)
           new == RowsAfter(last, contents)
           x == l \o new
<1>1. n \in Nat /\ \A i \in 1 .. n : l[i] \in Rows /\ l[i].seq \in Nat
  BY LogType
<1>2. m \in Nat
  BY LenProperties
<1>3. /\ new \in Seq(Rows) /\ Len(new) = m
      /\ \A i \in 1 .. m : new[i].seq = last.seq + i /\ new[i].content = contents[i]
  BY NewRowsType
<1> HIDE DEF new
<1>4. /\ x \in Seq(Rows) /\ Len(x) = n + m
      /\ \A i \in 1 .. n + m : x[i] = IF i <= n THEN l[i] ELSE new[i - n]
  <2>1. l \in Seq(Rows) /\ new \in Seq(Rows)
    BY <1>3
  <2>2. /\ x \in Seq(Rows) /\ Len(x) = Len(l) + Len(new)
        /\ \A i \in 1 .. Len(l) + Len(new) :
             x[i] = IF i <= Len(l) THEN l[i] ELSE new[i - Len(l)]
    BY <2>1, ConcatProperties, Zenon
  <2> HIDE DEF x
  <2>3. Len(new) = m
    BY <1>3
  <2> HIDE DEF m
  <2> QED BY <2>2, <2>3
<1> HIDE DEF x
<1>5. \A i \in 1 .. n : x[i] = l[i]
  BY <1>1, <1>2, <1>4
<1>6. ASSUME NEW i \in 1 .. m
      PROVE  x[n + i].content = contents[i] /\ x[n + i].seq = last.seq + i
  <2>1. n + i \in 1 .. n + m /\ ~(n + i <= n) /\ (n + i) - n = i
    BY <1>1, <1>2
  <2> QED BY <1>3, <1>4, <2>1
<1>7. Ordered(x)
  <2> SUFFICES ASSUME NEW i \in 1 .. n + m, NEW j \in 1 .. n + m, NEW r \in Requests,
                      i < j, Decides(x[j].content, r)
               PROVE  x[i].seq < x[j].seq
    BY <1>4 DEF Ordered
  <2>1. CASE j <= n
    <3>1. i \in 1 .. n /\ j \in 1 .. n
      BY <1>1, <1>2, <2>1
    <3> QED BY <1>5, <3>1 DEF Ordered
  <2>2. CASE j > n
    <3>1. PICK k \in 1 .. m : j = n + k
      <4>1. j - n \in 1 .. m /\ j = n + (j - n)
        BY <1>1, <1>2, <2>2
      <4> QED BY <4>1
    <3>2. x[j].seq = last.seq + k /\ Decides(contents[k], r)
      BY <1>6, <3>1
    <3>3. CASE i <= n
      <4>1. i \in 1 .. n /\ x[i] = l[i]
        BY <1>1, <1>2, <1>5, <3>3
      <4>2. l[i].seq <= last.seq
        BY <3>2, <4>1
      <4> QED BY <1>1, <1>2, <3>2, <4>1, <4>2
    <3>4. CASE i > n
      <4>1. PICK h \in 1 .. m : i = n + h
        <5>1. i - n \in 1 .. m /\ i = n + (i - n)
          BY <1>1, <1>2, <3>4
        <5> QED BY <5>1
      <4>2. x[i].seq = last.seq + h /\ h < k
        BY <1>1, <1>2, <1>6, <3>1, <4>1
      <4> QED BY <1>2, <3>2, <4>2
    <3> QED BY <1>1, <1>2, <3>3, <3>4
  <2> QED BY <1>1, <1>2, <2>1, <2>2
<1> QED BY <1>4, <1>5, <1>6, <1>7 DEF Extends, x, new

LEMMA LastRowType ==
    ASSUME NEW l \in Seq(Rows), NEW last \in LastRows(l)
    PROVE  /\ last.seq \in Nat /\ last.hash \in Seq(Contents)
           /\ \A i \in 1 .. Len(l) : l[i].seq <= last.seq
<1>1. Len(l) \in Nat
  BY LogType
<1>2. CASE l = << >>
  <2>1. last = NoRow /\ Len(l) = 0
    BY <1>2, EmptySeq DEF LastRows
  <2>2. NoRow.seq = 0 /\ NoRow.hash = << >>
    BY DEF NoRow, GENESIS
  <2>3. << >> \in Seq(Contents)
    BY EmptySeq
  <2> QED BY <2>1, <2>2, <2>3
<1>3. CASE l # << >>
  <2>1. PICK i \in 1 .. Len(l) :
          last = l[i] /\ \A k \in 1 .. Len(l) : l[k].seq <= l[i].seq
    BY <1>3 DEF LastRows
  <2> QED BY <2>1, LogType
<1> QED BY <1>2, <1>3

\* What successive calls of audit_event leave.
LEMMA EventsAppended ==
    ASSUME NEW l \in Seq(Rows), Ordered(l), NEW contents \in Seq(Contents),
           NEW x \in AuditEvents(l, contents)
    PROVE  Extends(x, l, contents)
<1>1. PICK last \in LastRows(l) : x = l \o RowsAfter(last, contents)
  BY DEF AuditEvents
<1>2. /\ last.seq \in Nat /\ last.hash \in Seq(Contents)
      /\ \A i \in 1 .. Len(l) : l[i].seq <= last.seq
  BY LastRowType
<1>3. Extends(l \o RowsAfter(last, contents), l, contents)
  BY <1>2, Appended
<1> QED BY <1>1, <1>3, Zenon

\* What a handler leaves.
LEMMA HandlerAppended ==
    ASSUME LogInv, NEW s \in Sessions, NEW contents \in Seq(Contents),
           sess[s].last = Unread
             \/ \A i \in 1 .. Len(contents), r \in Requests : ~Decides(contents[i], r),
           NEW x \in Audited(s, contents)
    PROVE  Extends(x, log, contents)
<1>1. log \in Seq(Rows) /\ Ordered(log)
  BY DEF LogInv
<1>2. CASE contents = << >> \/ sess[s].last = Unread
  BY <1>1, <1>2, EventsAppended DEF Audited
<1>3. CASE contents # << >> /\ sess[s].last # Unread
  <2> DEFINE row == Head(sess[s].last)
             head == <<Head(contents)>>
             tail == Tail(contents)
             y == log \o RowsAfter(row, head)
             n == Len(log)
             m == Len(contents)
  <2>1. row.seq \in Nat /\ row.hash \in Seq(Contents)
    BY <1>3 DEF LogInv, ReadAheadOK
  <2>2. /\ m \in Nat /\ m >= 1 /\ n \in Nat
        /\ Head(contents) \in Contents /\ Head(contents) = contents[1]
        /\ tail \in Seq(Contents) /\ Len(tail) = m - 1
        /\ \A i \in 1 .. m - 1 : tail[i] = contents[i + 1]
    BY <1>1, <1>3, HeadTailProperties, EmptySeq, LenProperties, LogType, ElementOfSeq
  <2>3. head \in Seq(Contents) /\ Len(head) = 1 /\ head[1] = contents[1]
    BY <2>2
  <2>4. \A i \in 1 .. Len(head), r \in Requests : ~Decides(head[i], r)
    BY <1>3, <2>2, <2>3
  <2>5. x \in AuditEvents(y, tail)
    BY <1>3 DEF Audited
  <2> HIDE DEF row, head, tail
  <2>6. Extends(y, log, head)
    BY <1>1, <2>1, <2>3, <2>4, Appended
  <2> HIDE DEF y
  <2>7. Extends(x, y, tail)
    BY <2>2, <2>5, <2>6, EventsAppended DEF Extends
  <2>8. /\ x \in Seq(Rows) /\ Ordered(x) /\ Len(y) = n + 1 /\ Len(x) = n + m
    BY <2>2, <2>3, <2>6, <2>7 DEF Extends
  <2>9. \A i \in 1 .. n : x[i] = log[i]
    <3> TAKE i \in 1 .. n
    <3>1. i \in 1 .. Len(y)
      BY <2>2, <2>8
    <3> QED BY <2>6, <2>7, <3>1 DEF Extends
  <2>10. ASSUME NEW i \in 1 .. m PROVE x[n + i].content = contents[i]
    <3>1. CASE i = 1
      <4>1. n + 1 \in 1 .. Len(y) /\ 1 \in 1 .. Len(head)
        BY <2>2, <2>3, <2>8
      <4> QED BY <2>3, <2>6, <2>7, <3>1, <4>1 DEF Extends
    <3>2. CASE i # 1
      <4>1. /\ i - 1 \in 1 .. Len(tail) /\ Len(y) + (i - 1) = n + i
            /\ (i - 1) + 1 = i /\ i - 1 \in 1 .. m - 1
        BY <2>2, <2>8, <3>2
      <4>2. x[Len(y) + (i - 1)].content = tail[i - 1]
        BY <2>7, <4>1 DEF Extends
      <4> QED BY <2>2, <4>1, <4>2
    <3> QED BY <3>1, <3>2
  <2> QED BY <2>8, <2>9, <2>10 DEF Extends
<1> QED BY <1>2, <1>3

-----------------------------------------------------------------------------
(* What a request's decisions become.                                       *)

LEMMA AboutFinite ==
    ASSUME NEW l \in Seq(Rows), NEW r
    PROVE  About(l, r) \subseteq 1 .. Len(l) /\ IsFiniteSet(About(l, r))
<1>1. Len(l) \in Nat /\ About(l, r) \subseteq 1 .. Len(l)
  BY LogType DEF About
<1>2. IsFiniteSet(1 .. Len(l))
  BY <1>1, FS_Interval
<1> QED BY <1>1, <1>2, FS_Subset

\* A request the new rows do not decide keeps its story.
LEMMA UndecidedTold ==
    ASSUME NEW l \in Seq(Rows), NEW contents \in Seq(Contents), NEW x,
           Extends(x, l, contents), NEW r,
           \A i \in 1 .. Len(contents) : ~Decides(contents[i], r)
    PROVE  /\ About(x, r) = About(l, r)
           /\ \A old, row : /\ Told(l, r, old) /\ row.approvals = old.approvals
                            /\ row.approvals = 0 \/ row.status = old.status
                            => Told(x, r, row)
<1>1. Len(l) \in Nat /\ Len(contents) \in Nat
  BY LogType, LenProperties
<1>2. ASSUME NEW i \in 1 .. Len(l) + Len(contents)
      PROVE  Decides(x[i].content, r) <=> i \in 1 .. Len(l) /\ Decides(l[i].content, r)
  <2>1. CASE i <= Len(l)
    <3>1. i \in 1 .. Len(l)
      BY <1>1, <2>1
    <3> QED BY <3>1 DEF Extends
  <2>2. CASE i > Len(l)
    <3>1. i - Len(l) \in 1 .. Len(contents) /\ Len(l) + (i - Len(l)) = i
      BY <1>1, <2>2
    <3>2. x[Len(l) + (i - Len(l))].content = contents[i - Len(l)]
      BY <3>1 DEF Extends
    <3> QED BY <1>1, <2>2, <3>1, <3>2
  <2> QED BY <1>1, <2>1, <2>2
<1>3. About(x, r) = About(l, r)
  BY <1>1, <1>2 DEF About, Extends
<1>4. ASSUME NEW old, NEW row, Told(l, r, old), row.approvals = old.approvals,
             row.approvals = 0 \/ row.status = old.status
      PROVE  Told(x, r, row)
  <2>1. \A i \in About(l, r) : x[i].content.what = l[i].content.what
    BY DEF About, Extends
  <2>2. CASE row.approvals = 0
    <3>1. About(l, r) = {}
      BY <1>4, <2>2, AboutFinite, FS_EmptySet DEF Told
    <3> QED BY <1>3, <1>4, <3>1 DEF Told
  <2>3. CASE row.status = old.status
    BY <1>3, <1>4, <2>1, <2>3 DEF Told
  <2> QED BY <1>4, <2>2, <2>3
<1> QED BY <1>3, <1>4

\* A request they decide once has one more, which is the last.
LEMMA DecidedTold ==
    ASSUME NEW l \in Seq(Rows), NEW contents \in Seq(Contents), NEW x,
           Extends(x, l, contents), NEW r, NEW k \in 1 .. Len(contents),
           Decides(contents[k], r),
           \A i \in 1 .. Len(contents) : Decides(contents[i], r) => i = k,
           NEW old, Told(l, r, old), NEW row, row.approvals = old.approvals + 1,
           row.status = "DECLINED" <=> contents[k].what \in Refusals
    PROVE  Told(x, r, row)
<1> DEFINE n == Len(l)
           m == Len(contents)
<1>1. n \in Nat /\ m \in Nat
  BY LogType, LenProperties
<1>2. ASSUME NEW i \in 1 .. n + m
      PROVE  Decides(x[i].content, r)
               <=> (i \in 1 .. n /\ Decides(l[i].content, r)) \/ i = n + k
  <2>1. CASE i <= n
    <3>1. i \in 1 .. n /\ i # n + k
      BY <1>1, <2>1
    <3> QED BY <3>1 DEF Extends
  <2>2. CASE i > n
    <3>1. i - n \in 1 .. m /\ n + (i - n) = i /\ (i - n = k <=> i = n + k)
      BY <1>1, <2>2
    <3>2. x[n + (i - n)].content = contents[i - n]
      BY <3>1 DEF Extends
    <3>3. Decides(contents[i - n], r) <=> i - n = k
      BY <3>1
    <3> QED BY <1>1, <2>2, <3>1, <3>2, <3>3
  <2> QED BY <1>1, <2>1, <2>2
<1>3. Len(x) = n + m /\ n + k \in 1 .. n + m
  BY <1>1 DEF Extends
<1>4. About(x, r) = About(l, r) \cup {n + k}
  BY <1>1, <1>2, <1>3 DEF About
<1>5. n + k \notin About(l, r) /\ \A j \in About(l, r) : j <= n + k
  BY <1>1 DEF About
<1>6. Cardinality(About(x, r)) = row.approvals
  BY <1>4, <1>5, AboutFinite, FS_AddElement DEF Told
<1>7. x[n + k].content.what \in Refusals <=> row.status = "DECLINED"
  BY DEF Extends
<1>8. n + k \in About(x, r) /\ \A j \in About(x, r) : j <= n + k
  BY <1>1, <1>4, <1>5
<1> QED BY <1>6, <1>7, <1>8 DEF Told

-----------------------------------------------------------------------------
(* What the handlers write.                                                 *)

LEMMA GenuineRows == \A q \in Seq(Genuine) : q \in Seq(Contents)
<1> SUFFICES ASSUME NEW q \in Seq(Genuine) PROVE q \in Seq(Contents)
  OBVIOUS
<1>1. Len(q) \in Nat /\ q \in [1 .. Len(q) -> Genuine]
  BY LenProperties
<1>2. q \in [1 .. Len(q) -> Contents]
  BY <1>1 DEF Genuine
<1> QED BY <1>1, <1>2, SeqDef

LEMMA WhatContentsDecide ==
    ASSUME NEW what \in Entries, NEW subject, NEW r
    PROVE  /\ Content(what, subject).what = what
           /\ Decides(Content(what, subject), r) <=> subject = r /\ what \in Decisions
BY DEF Decides, Content

\* Rows whose first one decides r, and no other decides anything.
DecideOne(rows, r) ==
    /\ rows \in Seq(Contents) /\ 1 \in 1 .. Len(rows)
    /\ Decides(rows[1], r)
    /\ \A i \in 1 .. Len(rows), q \in Requests : Decides(rows[i], q) => q = r /\ i = 1

\* A decline is one decision, of its request only.
LEMMA DeclineRowsDecide ==
    ASSUME NEW r \in Requests
    PROVE  DecideOne(DeclineRows(r), r) /\ DeclineRows(r)[1].what = "declined"
<1>1. DeclineRows(r) \in Seq(Contents)
  BY DecisionRowsType, GenuineRows
<1>2. /\ Len(DeclineRows(r)) = 2
      /\ DeclineRows(r)[1] = Content("declined", r)
      /\ DeclineRows(r)[2] = Content("state_changed", r)
  BY DEF DeclineRows
<1>3. \A i \in 1 .. 2 : i = 1 \/ i = 2
  OBVIOUS
<1> QED BY <1>1, <1>2, <1>3, WhatContentsDecide DEF Decisions, Entries, DecideOne

\* So is an approval, whatever the provider answers.
LEMMA ApproveRowsDecide ==
    ASSUME NEW r \in Requests, NEW answer
    PROVE  DecideOne(ApproveRows(r, answer), r) /\ ApproveRows(r, answer)[1].what = "approved"
<1> DEFINE rows == ApproveRows(r, answer)
<1>1. rows \in Seq(Contents)
  BY DecisionRowsType, GenuineRows
<1> DEFINE first == <<Content("approved", r), Content("action_result", r)>>
           third == IF answer = "paid" /\ ~reqs[r].stored
                    THEN <<Content("payment_credited", r)>> ELSE << >>
<1>2. /\ first \in Seq(Contents) /\ Len(first) = 2
      /\ first[1] = Content("approved", r) /\ first[2] = Content("action_result", r)
      /\ third \in Seq(Contents)
      /\ \/ Len(third) = 0
         \/ Len(third) = 1 /\ third[1] = Content("payment_credited", r)
  <2>1. \A what \in Entries : Content(what, r) \in Contents
    BY ContentType DEF Genuine
  <2>2. first \in Seq(Contents)
    BY <2>1 DEF Entries
  <2>3. third \in Seq(Contents)
    BY <2>1 DEF Entries
  <2>4. Len(first) = 2 /\ first[1] = Content("approved", r)
        /\ first[2] = Content("action_result", r)
    OBVIOUS
  <2>5. Len(third) = 0 \/ (Len(third) = 1 /\ third[1] = Content("payment_credited", r))
    OBVIOUS
  <2> QED BY <2>2, <2>3, <2>4, <2>5
<1>3. /\ Len(rows) \in {2, 3}
      /\ rows[1] = Content("approved", r) /\ rows[2] = Content("action_result", r)
      /\ Len(rows) = 3 => rows[3] = Content("payment_credited", r)
  <2>1. rows = first \o third
    BY DEF ApproveRows
  <2> HIDE DEF rows, first, third
  <2>2. /\ Len(rows) = Len(first) + Len(third)
        /\ \A i \in 1 .. Len(first) + Len(third) :
             rows[i] = IF i <= Len(first) THEN first[i] ELSE third[i - Len(first)]
    BY <1>2, <2>1, ConcatProperties, Zenon
  <2> QED BY <1>2, <2>2
<1> HIDE DEF rows, first, third
<1>4. \A i \in 1 .. Len(rows) : i = 1 \/ i = 2 \/ (i = 3 /\ Len(rows) = 3)
  <2>1. CASE Len(rows) = 2
    <3>1. \A i \in 1 .. 2 : i = 1 \/ i = 2
      OBVIOUS
    <3> QED BY <2>1, <3>1
  <2>2. CASE Len(rows) = 3
    <3>1. \A i \in 1 .. 3 : i = 1 \/ i = 2 \/ i = 3
      OBVIOUS
    <3> QED BY <2>2, <3>1
  <2> QED BY <1>3, <2>1, <2>2
<1>5. 1 \in 1 .. Len(rows)
  BY <1>3
<1>6. Decides(rows[1], r) /\ rows[1].what = "approved"
  BY <1>3, WhatContentsDecide DEF Decisions, Entries
<1>7. \A i \in 1 .. Len(rows), q \in Requests : Decides(rows[i], q) => q = r /\ i = 1
  BY <1>3, <1>4, WhatContentsDecide DEF Decisions, Entries
<1> QED BY <1>1, <1>5, <1>6, <1>7 DEF rows, DecideOne

\* The requests of a set in a row, each once.
LEMMA Enumeration ==
    ASSUME NEW S \in SUBSET Requests
    PROVE  /\ Cardinality(S) \in Nat
           /\ SetToSeq(S) \in [1 .. Cardinality(S) -> S]
           /\ \A i, j \in 1 .. Cardinality(S) : SetToSeq(S)[i] = SetToSeq(S)[j] => i = j
           /\ \A r \in S : \E i \in 1 .. Cardinality(S) : SetToSeq(S)[i] = r
<1> DEFINE n == Cardinality(S)
<1>1. IsFiniteSet(S)
  BY ConsoleAssumption, FS_Subset
<1>2. n \in Nat /\ ExistsBijection(1 .. n, S)
  BY <1>1, FS_CardinalityType
<1>3. \E f \in [1 .. n -> S] : IsInjective(f)
  BY <1>2 DEF ExistsBijection, Bijection, Injection
<1>4. SetToSeq(S) \in [1 .. n -> S] /\ IsInjective(SetToSeq(S))
  BY <1>3 DEF SetToSeq
<1> DEFINE f == SetToSeq(S)
<1>5. \A i, j \in 1 .. n : f[i] = f[j] => i = j
  BY <1>4 DEF IsInjective
<1>6. f \in Injection(1 .. n, S)
  BY <1>4, Zenon DEF Injection
<1>7. IsFiniteSet(1 .. n) /\ Cardinality(1 .. n) = n
  BY <1>2, FS_Interval
<1>8. f \in Surjection(1 .. n, S)
  BY <1>1, <1>6, <1>7, FS_Injection
<1>9. \A r \in S : \E i \in 1 .. n : f[i] = r
  BY <1>8 DEF Surjection
<1> QED BY <1>2, <1>4, <1>5, <1>9

\* Rows that decline each request of a set once, and decide no other.
DeclineEach(rows, stale) ==
    /\ rows \in Seq(Contents)
    /\ \A r \in stale : \E k \in 1 .. Len(rows) :
          /\ Decides(rows[k], r) /\ rows[k].what = "timeout"
          /\ \A i \in 1 .. Len(rows) : Decides(rows[i], r) => i = k
    /\ \A i \in 1 .. Len(rows), r \in Requests : Decides(rows[i], r) => r \in stale

LEMMA TimeoutRowsDecide ==
    ASSUME NEW stale \in SUBSET Requests
    PROVE  DeclineEach(TimeoutRows(stale), stale)
<1> DEFINE n == Cardinality(stale)
           q == SetToSeq(stale)
           rows == TimeoutRows(stale)
<1>1. /\ n \in Nat /\ q \in [1 .. n -> stale]
      /\ \A i, j \in 1 .. n : q[i] = q[j] => i = j
      /\ \A r \in stale : \E i \in 1 .. n : q[i] = r
  BY Enumeration
<1>2. rows \in Seq(Contents)
  BY TickRowsType, GenuineRows
<1>3. rows = [i \in 1 .. 2 * n |->
                Content(IF i % 2 = 1 THEN "timeout" ELSE "state_changed", q[(i + 1) \div 2])]
  BY DEF TimeoutRows
<1> HIDE DEF n, q, rows
<1>4. Len(rows) = 2 * n
  <2>1. DOMAIN rows = 1 .. 2 * n /\ 2 * n \in Nat
    BY <1>1, <1>3
  <2>2. Len(rows) \in Nat /\ DOMAIN rows = 1 .. Len(rows)
    BY <1>2, LenProperties
  <2> QED BY <2>1, <2>2
<1>5. ASSUME NEW i \in 1 .. Len(rows)
      PROVE  /\ (i + 1) \div 2 \in 1 .. n
             /\ \A r : Decides(rows[i], r) <=> i % 2 = 1 /\ q[(i + 1) \div 2] = r
             /\ i % 2 = 1 => rows[i].what = "timeout"
  <2>1. (i + 1) \div 2 \in 1 .. n
    BY <1>1, <1>4
  <2>2. rows[i] = Content(IF i % 2 = 1 THEN "timeout" ELSE "state_changed",
                          q[(i + 1) \div 2])
    BY <1>3, <1>4
  <2> DEFINE odd == i % 2 = 1
             subject == q[(i + 1) \div 2]
  <2>3. rows[i] = Content(IF odd THEN "timeout" ELSE "state_changed", subject)
    BY <2>2
  <2> HIDE DEF odd, subject
  <2>4. /\ \A r : Decides(rows[i], r) <=> odd /\ subject = r
        /\ odd => rows[i].what = "timeout"
    BY <2>3, WhatContentsDecide DEF Decisions, Entries
  <2> QED BY <2>1, <2>4 DEF odd, subject
<1>6. ASSUME NEW r \in stale
      PROVE  \E k \in 1 .. Len(rows) :
               /\ Decides(rows[k], r) /\ rows[k].what = "timeout"
               /\ \A i \in 1 .. Len(rows) : Decides(rows[i], r) => i = k
  <2>1. PICK h \in 1 .. n : q[h] = r
    BY <1>1
  <2> DEFINE k == 2 * h - 1
  <2>2. k \in 1 .. Len(rows) /\ k % 2 = 1 /\ (k + 1) \div 2 = h
    BY <1>1, <1>4
  <2>3. Decides(rows[k], r) /\ rows[k].what = "timeout"
    BY <1>5, <2>1, <2>2
  <2>4. ASSUME NEW i \in 1 .. Len(rows), Decides(rows[i], r)
        PROVE  i = k
    <3>1. i % 2 = 1 /\ q[(i + 1) \div 2] = q[h] /\ (i + 1) \div 2 \in 1 .. n
      BY <1>5, <2>1, <2>4
    <3>2. (i + 1) \div 2 = h
      BY <1>1, <3>1
    <3> QED BY <1>1, <1>4, <3>1, <3>2
  <2> HIDE DEF k
  <2> QED BY <2>2, <2>3, <2>4
<1>7. ASSUME NEW i \in 1 .. Len(rows), NEW r \in Requests, Decides(rows[i], r)
      PROVE  r \in stale
  <2> DEFINE h == (i + 1) \div 2
  <2>1. h \in 1 .. n /\ q[h] = r
    BY <1>5, <1>7
  <2> HIDE DEF h
  <2> QED BY <1>1, <2>1
<1> QED BY <1>2, <1>6, <1>7 DEF rows, DeclineEach

LEMMA CreditRowsDecide ==
    ASSUME NEW credited \in SUBSET Requests
    PROVE  /\ CreditRows(credited) \in Seq(Contents)
           /\ \A i \in 1 .. Len(CreditRows(credited)), r \in Requests :
                ~Decides(CreditRows(credited)[i], r)
<1>1. CreditRows(credited) \in Seq(Contents)
  BY TickRowsType, GenuineRows
<1>2. \A i \in 1 .. Len(CreditRows(credited)) :
        CreditRows(credited)[i] = Content("payment_credited", SetToSeq(credited)[i])
  <2>1. DOMAIN CreditRows(credited) = 1 .. Cardinality(credited)
    BY DEF CreditRows
  <2>2. DOMAIN CreditRows(credited) = 1 .. Len(CreditRows(credited))
    BY <1>1, LenProperties
  <2> QED BY <2>1, <2>2 DEF CreditRows
<1> QED BY <1>1, <1>2, WhatContentsDecide DEF Decisions, Entries

\* Rows without a decision behind rows with some.
LEMMA DecisionsStay ==
    ASSUME NEW p \in Seq(Contents), NEW q \in Seq(Contents),
           \A i \in 1 .. Len(q), r \in Requests : ~Decides(q[i], r)
    PROVE  /\ p \o q \in Seq(Contents)
           /\ 1 .. Len(p) \subseteq 1 .. Len(p \o q)
           /\ \A i \in 1 .. Len(p) : (p \o q)[i] = p[i]
           /\ \A i \in 1 .. Len(p \o q), r \in Requests :
                Decides((p \o q)[i], r) => i \in 1 .. Len(p)
<1> DEFINE both == p \o q
<1>1. Len(p) \in Nat /\ Len(q) \in Nat
  BY LenProperties
<1>2. p \in Seq(Contents) /\ q \in Seq(Contents)
  OBVIOUS
<1>3. /\ both \in Seq(Contents) /\ Len(both) = Len(p) + Len(q)
      /\ \A i \in 1 .. Len(p) + Len(q) :
           both[i] = IF i <= Len(p) THEN p[i] ELSE q[i - Len(p)]
  BY <1>2, ConcatProperties, Zenon
<1> HIDE DEF both
<1>4. \A i \in 1 .. Len(p) : both[i] = p[i] /\ i \in 1 .. Len(both)
  BY <1>1, <1>3
<1>5. ASSUME NEW i \in 1 .. Len(both), NEW r \in Requests, Decides(both[i], r)
      PROVE  i \in 1 .. Len(p)
  <2>1. CASE i > Len(p)
    <3>1. i - Len(p) \in 1 .. Len(q) /\ both[i] = q[i - Len(p)]
      BY <1>1, <1>3, <2>1
    <3> QED BY <1>5, <3>1
  <2> QED BY <1>1, <1>3, <2>1
<1> QED BY <1>3, <1>4, <1>5 DEF both

\* The rows of a tick.
TickRows(stale, credited, step) ==
    TimeoutRows(stale) \o CreditRows(credited)
    \o (IF step THEN <<Content("policy_decision", Agent)>> ELSE << >>)

\* The tick as a whole decides what it expires, each request once.
LEMMA TickRowsDecide ==
    ASSUME NEW stale \in SUBSET Requests, NEW credited \in SUBSET Requests,
           NEW step \in BOOLEAN
    PROVE  DeclineEach(TickRows(stale, credited, step), stale)
<1> DEFINE p == TimeoutRows(stale)
           c == CreditRows(credited)
           both == p \o c
           third == IF step THEN <<Content("policy_decision", Agent)>> ELSE << >>
           rows == TickRows(stale, credited, step)
<1>1. /\ p \in Seq(Contents)
      /\ \A r \in stale : \E k \in 1 .. Len(p) :
           /\ Decides(p[k], r) /\ p[k].what = "timeout"
           /\ \A i \in 1 .. Len(p) : Decides(p[i], r) => i = k
      /\ \A i \in 1 .. Len(p), r \in Requests : Decides(p[i], r) => r \in stale
  BY TimeoutRowsDecide DEF DeclineEach
<1>2. c \in Seq(Contents) /\ \A i \in 1 .. Len(c), r \in Requests : ~Decides(c[i], r)
  BY CreditRowsDecide
<1>3. third \in Seq(Contents) /\ \A i \in 1 .. Len(third), r \in Requests : ~Decides(third[i], r)
  <2>1. CASE third = << >>
    BY <2>1, EmptySeq
  <2>2. CASE third = <<Content("policy_decision", Agent)>>
    <3>1. Content("policy_decision", Agent) \in Contents
      BY ContentType DEF Genuine, Entries
    <3>2. Len(third) = 1 /\ third[1] = Content("policy_decision", Agent)
      BY <2>2
    <3>3. \A r \in Requests : ~Decides(third[1], r)
      BY <3>2, WhatContentsDecide DEF Decisions, Entries
    <3>4. \A i \in 1 .. Len(third) : i = 1
      BY <3>2
    <3> QED BY <2>2, <3>1, <3>3, <3>4
  <2> QED BY <2>1, <2>2
<1>4. rows = both \o third
  BY DEF TickRows
<1> HIDE DEF p, c, rows, third
<1>5. /\ both \in Seq(Contents)
      /\ 1 .. Len(p) \subseteq 1 .. Len(both) /\ \A i \in 1 .. Len(p) : both[i] = p[i]
      /\ \A i \in 1 .. Len(both), r \in Requests : Decides(both[i], r) => i \in 1 .. Len(p)
  BY <1>1, <1>2, DecisionsStay
<1> HIDE DEF both
<1>6. /\ rows \in Seq(Contents)
      /\ 1 .. Len(both) \subseteq 1 .. Len(rows) /\ \A i \in 1 .. Len(both) : rows[i] = both[i]
      /\ \A i \in 1 .. Len(rows), r \in Requests : Decides(rows[i], r) => i \in 1 .. Len(both)
  BY <1>3, <1>4, <1>5, DecisionsStay
<1>7. \A i \in 1 .. Len(rows), r \in Requests :
        Decides(rows[i], r) <=> i \in 1 .. Len(p) /\ Decides(p[i], r)
  BY <1>5, <1>6
<1>8. \A i \in 1 .. Len(p) : i \in 1 .. Len(rows) /\ rows[i] = p[i]
  BY <1>5, <1>6
<1>9. ASSUME NEW r \in stale
      PROVE  \E k \in 1 .. Len(rows) :
               /\ Decides(rows[k], r) /\ rows[k].what = "timeout"
               /\ \A i \in 1 .. Len(rows) : Decides(rows[i], r) => i = k
  <2>1. PICK k \in 1 .. Len(p) :
          /\ Decides(p[k], r) /\ p[k].what = "timeout"
          /\ \A i \in 1 .. Len(p) : Decides(p[i], r) => i = k
    BY <1>1
  <2> QED BY <1>7, <1>8, <2>1
<1> QED BY <1>1, <1>6, <1>7, <1>9 DEF rows, DeclineEach

-----------------------------------------------------------------------------
(* The steps.                                                               *)

LEMMA LogInitially == WebInit => LogInv
<1> SUFFICES ASSUME WebInit PROVE LogInv
  OBVIOUS
<1>1. log = << >> /\ log \in Seq(Rows) /\ Len(log) = 0
  BY EmptySeq DEF WebInit, ConsoleInit
<1>2. \A r : About(log, r) = {}
  BY <1>1 DEF About
<1>3. \A r \in Requests : Told(log, r, reqs[r])
  BY <1>2, FS_EmptySet DEF Told, WebInit, ConsoleInit, Absent
<1>4. \A s \in Sessions : sess[s].last = Unread
  BY DEF WebInit, ConsoleInit, Idle
<1> QED BY <1>1, <1>3, <1>4 DEF LogInv, Ordered, ReadAheadOK

\* Sessions that only read, wait, or give up.
LEMMA ReadersKeepLog ==
    ASSUME LogInv, DOMAIN sess = Sessions, NEW s \in Sessions, UNCHANGED <<reqs, log>>,
           NEW x, sess' = [sess EXCEPT ![s] = x],
           x.last # Unread =>
             /\ s = Agent /\ x.targets = {}
             /\ \E row : /\ x.last = <<row>>
                         /\ row.seq \in Nat /\ row.hash \in Seq(Contents)
    PROVE  LogInv'
<1>1. \A t \in Sessions : sess'[t] = IF t = s THEN x ELSE sess[t]
  OBVIOUS
<1>2. \A t \in Sessions : ReadAheadOK(t)'
  BY <1>1 DEF LogInv, ReadAheadOK
<1> QED BY <1>2 DEF LogInv, Told, About, Ordered

\* A handler that ends leaves its session idle.
LEMMA FinishKeepsReadAhead ==
    ASSUME LogInv, DOMAIN sess = Sessions, NEW s \in Sessions, Finish(s)
    PROVE  \A t \in Sessions : ReadAheadOK(t)'
BY DEF LogInv, ReadAheadOK, Finish, Idle

\* A handler that decides one request.
LEMMA DecisionKeepsLog ==
    ASSUME LogInv, ConsoleInv, NEW s \in Clerks, NEW r \in Requests,
           NEW row \in Request, reqs' = [reqs EXCEPT ![r] = row],
           row.approvals = reqs[r].approvals + 1,
           NEW contents \in Seq(Contents), log' \in Audited(s, contents),
           DecideOne(contents, r),
           row.status = "DECLINED" <=> contents[1].what \in Refusals,
           Finish(s)
    PROVE  LogInv'
<1>0. /\ 1 \in 1 .. Len(contents) /\ Decides(contents[1], r)
      /\ \A i \in 1 .. Len(contents), q \in Requests :
           Decides(contents[i], q) => q = r /\ i = 1
  BY DEF DecideOne
<1>1. s \in Sessions /\ sess[s].last = Unread
  BY ConsoleAssumption DEF LogInv, ReadAheadOK, Sessions
<1>2. Extends(log', log, contents)
  BY <1>1, HandlerAppended
<1>3. log \in Seq(Rows) /\ \A q \in Requests : Told(log, q, reqs[q])
  BY DEF LogInv
<1>4. Told(log', r, row)
  BY <1>0, <1>2, <1>3, DecidedTold
<1>5. ASSUME NEW q \in Requests PROVE Told(log', q, reqs'[q])
  <2>1. CASE q = r
    BY <1>4, <2>1 DEF ConsoleInv
  <2>2. CASE q # r
    <3>1. reqs'[q] = reqs[q]
      BY <2>2 DEF ConsoleInv
    <3>2. \A i \in 1 .. Len(contents) : ~Decides(contents[i], q)
      BY <1>0, <2>2
    <3> QED BY <1>2, <1>3, <3>1, <3>2, UndecidedTold
  <2> QED BY <2>1, <2>2
<1>6. \A t \in Sessions : ReadAheadOK(t)'
  BY <1>1, FinishKeepsReadAhead DEF ConsoleInv
<1> QED BY <1>2, <1>5, <1>6 DEF LogInv, Extends, Told, About

\* What a tick does to a row, as far as the log is concerned.
LEMMA RowMoves ==
    ASSUME NEW row \in Request
    PROVE  /\ Declined(row, row).approvals = row.approvals + 1
           /\ Declined(row, row).status = "DECLINED"
           /\ Credited(row, row).approvals = row.approvals
           /\ Credited(row, row).status = row.status
<1>1. Executed(row, row, "paid").approvals = row.approvals + 1
  BY RowTypes
<1> QED BY <1>1, RowTypes

LEMMA TickKeepsLog == LogInv /\ ConsoleInv /\ CommitTick => LogInv'
<1> SUFFICES ASSUME LogInv, ConsoleInv, CommitTick PROVE LogInv'
  OBVIOUS
<1> DEFINE stale == sess[Agent].targets
<1>1. PICK due \in SUBSET Announced, step \in BOOLEAN :
        /\ reqs' = AfterTick(stale, due)
        /\ log' \in Audited(Agent, TickRows(stale, {r \in due : ~reqs[r].stored}, step))
  BY DEF CommitTick, TickRows
<1> DEFINE credited == {r \in due : ~reqs[r].stored}
           contents == TickRows(stale, credited, step)
<1>2. Agent \in Sessions /\ stale \subseteq Requests /\ credited \in SUBSET Requests
  BY DEF ConsoleInv, SessionOK, Sessions, Announced
<1>3. DeclineEach(contents, stale)
  BY <1>2, TickRowsDecide
<1>4. log' \in Audited(Agent, contents)
  BY <1>1
<1>5. \A r \in Requests : reqs'[r] = CASE r \in stale -> Declined(reqs[r], reqs[r])
                                       [] r \in due   -> Credited(reqs[r], reqs[r])
                                       [] OTHER       -> reqs[r]
  BY <1>1 DEF AfterTick
<1>6. due \cap stale = {}
  BY DEF Announced
<1>7. sess[Agent].last = Unread \/ stale = {}
  BY <1>2 DEF LogInv, ReadAheadOK
<1> HIDE DEF contents, credited, stale
<1>8. Extends(log', log, contents)
  BY <1>2, <1>3, <1>4, <1>7, HandlerAppended DEF DeclineEach
<1>9. log \in Seq(Rows) /\ \A q \in Requests : Told(log, q, reqs[q]) /\ reqs[q] \in Request
  BY DEF LogInv, ConsoleInv
<1>10. ASSUME NEW r \in Requests PROVE Told(log', r, reqs'[r])
  <2>0. reqs[r] \in Request
    BY <1>9
  <2>1. CASE r \in stale
    <3>1. PICK k \in 1 .. Len(contents) :
            /\ Decides(contents[k], r) /\ contents[k].what = "timeout"
            /\ \A i \in 1 .. Len(contents) : Decides(contents[i], r) => i = k
      BY <1>3, <2>1 DEF DeclineEach
    <3>2. reqs'[r] = Declined(reqs[r], reqs[r])
      BY <1>5, <1>6, <2>1
    <3>3. reqs'[r].approvals = reqs[r].approvals + 1 /\ reqs'[r].status = "DECLINED"
      BY <2>0, <3>2, RowMoves
    <3>4. contents[k].what \in Refusals
      BY <3>1 DEF Refusals
    <3> QED BY <1>3, <1>8, <1>9, <3>1, <3>3, <3>4, DecidedTold DEF DeclineEach
  <2>2. CASE r \notin stale
    <3>1. reqs'[r] = Credited(reqs[r], reqs[r]) \/ reqs'[r] = reqs[r]
      BY <1>5, <2>2
    <3>2. reqs'[r].approvals = reqs[r].approvals /\ reqs'[r].status = reqs[r].status
      BY <2>0, <3>1, RowMoves
    <3>3. \A i \in 1 .. Len(contents) : ~Decides(contents[i], r)
      BY <1>3, <2>2 DEF DeclineEach
    <3> QED BY <1>3, <1>8, <1>9, <3>2, <3>3, UndecidedTold DEF DeclineEach
  <2> QED BY <2>1, <2>2
<1>11. Finish(Agent) /\ DOMAIN sess = Sessions
  BY DEF CommitTick, ConsoleInv
<1>12. \A t \in Sessions : ReadAheadOK(t)'
  BY <1>2, <1>11, FinishKeepsReadAhead
<1> QED BY <1>8, <1>10, <1>12 DEF LogInv, Extends, Told, About

\* A log with a tampered row tells the same: who did what, and the numbers, stay.
LEMMA TamperKeepsLog ==
    ASSUME LogInv, NEW i \in DOMAIN log, log' = [log EXCEPT ![i].content.forged = TRUE],
           UNCHANGED reqs
    PROVE  log' \in Seq(Rows) /\ Ordered(log') /\ \A r \in Requests : Told(log', r, reqs'[r])
<1> DEFINE row == [log[i] EXCEPT !.content = [log[i].content EXCEPT !.forged = TRUE]]
           x   == [log EXCEPT ![i] = row]
<1>1. /\ log \in Seq(Rows) /\ Len(log) \in Nat /\ i \in 1 .. Len(log) /\ log[i] \in Rows
      /\ log[i].content \in Contents
  BY LogType DEF LogInv
<1>2. log' = x
  BY <1>1 DEF Rows, Contents
<1>3. /\ row \in Rows /\ row.seq = log[i].seq
      /\ row.content.what = log[i].content.what
      /\ row.content.subject = log[i].content.subject
  <2> DEFINE c == log[i].content
             forged == [c EXCEPT !.forged = TRUE]
  <2>1. forged \in Contents /\ forged.what = c.what /\ forged.subject = c.subject
    BY <1>1 DEF Contents
  <2>2. row = [log[i] EXCEPT !.content = forged]
    OBVIOUS
  <2> HIDE DEF forged, c, row
  <2>3. row \in Rows /\ row.seq = log[i].seq /\ row.content = forged
    BY <1>1, <2>1, <2>2 DEF Rows
  <2> QED BY <2>1, <2>3 DEF c
<1> HIDE DEF row
<1>4. /\ x \in Seq(Rows) /\ Len(x) = Len(log)
      /\ \A j \in 1 .. Len(log) : x[j] = IF j = i THEN row ELSE log[j]
  BY <1>1, <1>3, ExceptSeq
<1> HIDE DEF x
<1>5. \A j \in 1 .. Len(log) : /\ x[j].seq = log[j].seq
                               /\ x[j].content.what = log[j].content.what
                               /\ x[j].content.subject = log[j].content.subject
  BY <1>3, <1>4
<1>6. \A j \in 1 .. Len(log) : \A r : Decides(x[j].content, r) <=> Decides(log[j].content, r)
  BY <1>5 DEF Decides
<1>7. Ordered(x)
  BY <1>4, <1>5, <1>6 DEF LogInv, Ordered
<1>8. ASSUME NEW r \in Requests PROVE Told(x, r, reqs[r])
  <2>1. About(x, r) = About(log, r)
    BY <1>4, <1>6 DEF About
  <2>2. \A j \in About(log, r) : x[j].content.what = log[j].content.what
    BY <1>5 DEF About
  <2>3. Told(log, r, reqs[r])
    BY DEF LogInv
  <2> QED BY <2>1, <2>2, <2>3 DEF Told
<1> QED BY <1>2, <1>4, <1>7, <1>8

LEMMA LogKept == LogInv /\ ConsoleInv /\ [ConsoleNext]_consoleVars => LogInv'
<1> SUFFICES ASSUME LogInv, ConsoleInv, [ConsoleNext]_consoleVars
             PROVE  LogInv'
  OBVIOUS
<1>0. DOMAIN sess = Sessions /\ Clerks \subseteq Sessions /\ Agent \in Sessions
  BY DEF ConsoleInv, Sessions
<1>1. CASE UNCHANGED consoleVars
  BY <1>1 DEF consoleVars, LogInv, Told, About, Ordered, ReadAheadOK
<1>2. ASSUME NEW s \in Clerks, AskDecision(s)
      PROVE  LogInv'
  <2>1. PICK r \in Requests, decision \in {"APPROVED", "DECLINED"} :
          sess' = [sess EXCEPT ![s] =
                [Idle EXCEPT !.at = "asked", !.job = decision, !.targets = {r},
                             !.view = reqs]]
    BY <1>2 DEF AskDecision
  <2>2. UNCHANGED <<reqs, log>>
    BY <1>2 DEF AskDecision
  <2>3. [Idle EXCEPT !.at = "asked", !.job = decision, !.targets = {r},
                     !.view = reqs].last = Unread
    BY DEF Idle
  <2> QED BY <1>0, <2>1, <2>2, <2>3, ReadersKeepLog
<1>3. ASSUME NEW s \in Clerks, ReadCase(s)
      PROVE  LogInv'
  <2>1. PICK r \in sess[s].targets :
          sess' = [sess EXCEPT ![s].at = "ready", ![s].view[r].case = reqs[r].case]
    BY <1>3 DEF ReadCase
  <2> DEFINE read == [sess[s].view EXCEPT ![r].case = reqs[r].case]
             x    == [sess[s] EXCEPT !.at = "ready", !.view = read]
  <2>2. UNCHANGED <<reqs, log>>
    BY <1>3 DEF ReadCase, ghosts
  <2>0. sess' = [sess EXCEPT ![s] = x]
    BY <1>0, <2>1 DEF ConsoleInv, SessionOK
  <2>3. x.last = sess[s].last /\ x.targets = sess[s].targets
    OBVIOUS
  <2> HIDE DEF x
  <2> QED BY <1>0, <2>0, <2>2, <2>3, ReadersKeepLog DEF LogInv, ReadAheadOK
<1>4. ASSUME NEW s \in Clerks, AskTamper(s)
      PROVE  LogInv'
  <2>1. PICK i : sess' = [sess EXCEPT ![s] =
                   [Idle EXCEPT !.at = "ready", !.job = "tamper", !.victim = i]]
    BY <1>4 DEF AskTamper
  <2>2. [Idle EXCEPT !.at = "ready", !.job = "tamper", !.victim = i].last = Unread
    BY DEF Idle
  <2>3. UNCHANGED <<reqs, log>>
    BY <1>4 DEF AskTamper
  <2> QED BY <1>0, <2>1, <2>2, <2>3, ReadersKeepLog
<1>5. CASE AskTick
  <2>0. PICK stale \in SUBSET {r \in Requests : Waiting(r, reqs)} :
          \E last \in {Unread} \cup {<<row>> : row \in IF AuditsBeforeLock(stale)
                                                     THEN LastRows(log) ELSE {}} :
             sess' = [sess EXCEPT ![Agent] =
                 [Idle EXCEPT !.at = "ready", !.job = "tick", !.targets = stale,
                              !.view = reqs, !.last = last]]
    BY <1>5 DEF AskTick
  <2>1. PICK last \in {Unread} \cup {<<row>> : row \in IF AuditsBeforeLock(stale)
                                                        THEN LastRows(log) ELSE {}} :
          sess' = [sess EXCEPT ![Agent] =
              [Idle EXCEPT !.at = "ready", !.job = "tick", !.targets = stale,
                           !.view = reqs, !.last = last]]
    BY <2>0
  <2> DEFINE x == [Idle EXCEPT !.at = "ready", !.job = "tick", !.targets = stale,
                               !.view = reqs, !.last = last]
  <2>2. x.last = last /\ x.targets = stale
    BY DEF Idle
  <2>3. UNCHANGED <<reqs, log>> /\ sess' = [sess EXCEPT ![Agent] = x]
    BY <1>5, <2>1 DEF AskTick
  <2>4. CASE last = Unread
    <3> HIDE DEF x
    <3> QED BY <1>0, <2>2, <2>3, <2>4, ReadersKeepLog
  <2>5. CASE last # Unread
    <3>1. stale = {} /\ \E row \in LastRows(log) : last = <<row>>
      BY <2>1, <2>5 DEF AuditsBeforeLock
    <3>2. PICK row \in LastRows(log) : last = <<row>>
      BY <3>1
    <3>3. row.seq \in Nat /\ row.hash \in Seq(Contents)
      BY LastRowType DEF LogInv
    <3> HIDE DEF x
    <3> QED BY <1>0, <2>2, <2>3, <3>1, <3>2, <3>3, ReadersKeepLog
  <2> QED BY <2>4, <2>5
<1>6. ASSUME NEW s \in Sessions, BeginWrite(s)
      PROVE  LogInv'
  <2> DEFINE x == [sess[s] EXCEPT !.at = "writing"]
  <2>1. sess' = [sess EXCEPT ![s] = x] /\ UNCHANGED <<reqs, log>>
    BY <1>0, <1>6 DEF BeginWrite
  <2>2. x.last = sess[s].last /\ x.targets = sess[s].targets
    OBVIOUS
  <2> HIDE DEF x
  <2> QED BY <1>0, <2>1, <2>2, ReadersKeepLog DEF LogInv, ReadAheadOK
<1>7. ASSUME NEW s \in Sessions, UNCHANGED <<reqs, log>>, sess' = [sess EXCEPT ![s] = Idle]
      PROVE  LogInv'
  BY <1>0, <1>7, ReadersKeepLog DEF Idle
<1>8. ASSUME NEW s \in Sessions, LockTimeout(s) \/ RowsGone(s)
      PROVE  LogInv'
  BY <1>7, <1>8 DEF LockTimeout, RowsGone, Finish
<1>9. ASSUME NEW s \in Clerks, CommitDecline(s)
      PROVE  LogInv'
  <2>1. PICK r \in sess[s].targets :
          /\ reqs' = [reqs EXCEPT ![r] = Declined(@, sess[s].view[r])]
          /\ log' \in Audited(s, DeclineRows(r))
    BY <1>9 DEF CommitDecline
  <2>2. r \in Requests /\ reqs[r] \in Request /\ sess[s].view[r] \in Request
    BY <1>0 DEF ConsoleInv, SessionOK
  <2> DEFINE row == Declined(reqs[r], sess[s].view[r])
  <2>3. reqs' = [reqs EXCEPT ![r] = row] /\ Finish(s)
    BY <1>9, <2>1, <2>2 DEF ConsoleInv, CommitDecline
  <2>4. row \in Request /\ row.approvals = reqs[r].approvals + 1 /\ row.status = "DECLINED"
    BY <2>2, RowTypes
  <2> HIDE DEF row
  <2>5. row.status = "DECLINED" <=> DeclineRows(r)[1].what \in Refusals
    BY <2>2, <2>4, DeclineRowsDecide DEF Refusals
  <2>6. DecideOne(DeclineRows(r), r) /\ DeclineRows(r) \in Seq(Contents)
    BY <2>2, DeclineRowsDecide DEF DecideOne
  <2> QED BY <2>1, <2>2, <2>3, <2>4, <2>5, <2>6, DecisionKeepsLog
<1>10. ASSUME NEW s \in Clerks, CommitApprove(s)
       PROVE  LogInv'
  <2>1. PICK r \in sess[s].targets, answer \in Answers :
          /\ reqs' = [reqs EXCEPT ![r] = Executed(@, sess[s].view[r], answer)]
          /\ log' \in Audited(s, ApproveRows(r, answer))
    BY <1>10 DEF CommitApprove
  <2>2. r \in Requests /\ reqs[r] \in Request /\ sess[s].view[r] \in Request
    BY <1>0 DEF ConsoleInv, SessionOK
  <2> DEFINE row == Executed(reqs[r], sess[s].view[r], answer)
  <2>3. reqs' = [reqs EXCEPT ![r] = row] /\ Finish(s)
    BY <1>10, <2>1, <2>2 DEF ConsoleInv, CommitApprove
  <2>4. /\ row \in Request /\ row.approvals = reqs[r].approvals + 1
        /\ row.status \in {"SUCCEEDED", "FAILED"}
    BY <2>2, RowTypes
  <2> HIDE DEF row
  <2>5. row.status = "DECLINED" <=> ApproveRows(r, answer)[1].what \in Refusals
    BY <2>2, <2>4, ApproveRowsDecide DEF Refusals
  <2>6. DecideOne(ApproveRows(r, answer), r) /\ ApproveRows(r, answer) \in Seq(Contents)
    BY <2>2, ApproveRowsDecide DEF DecideOne
  <2> QED BY <2>1, <2>2, <2>3, <2>4, <2>5, <2>6, DecisionKeepsLog
<1>11. ASSUME NEW s \in Clerks, FailApprove(s)
       PROVE  LogInv'
  BY <1>0, <1>7, <1>11 DEF FailApprove, Finish
<1>12. ASSUME NEW s \in Clerks, CommitTamper(s)
       PROVE  LogInv'
  <2>1. PICK i \in DOMAIN log : log' = [log EXCEPT ![i].content.forged = TRUE]
    BY <1>12 DEF CommitTamper
  <2>2. UNCHANGED reqs /\ Finish(s)
    BY <1>12 DEF CommitTamper
  <2> QED BY <1>0, <2>1, <2>2, TamperKeepsLog, FinishKeepsReadAhead DEF LogInv, Told, About, Ordered
<1>13. CASE CommitTick
  BY <1>13, TickKeepsLog
<1>14. CASE DropAll
  <2>1. log' = << >> /\ log' \in Seq(Rows) /\ Len(log') = 0 /\ UNCHANGED sess
    BY <1>14, EmptySeq DEF DropAll
  <2>2. \A r : About(log', r) = {}
    BY <2>1 DEF About
  <2>3. \A r \in Requests : Told(log', r, reqs'[r])
    BY <1>14, <2>2, FS_EmptySet DEF Told, DropAll, Absent
  <2> QED BY <2>1, <2>3 DEF LogInv, Ordered, ReadAheadOK, Told, About
<1>15. CASE SeedRequest
  <2>1. PICK r \in Requests :
          /\ reqs[r].status = "ABSENT" /\ reqs' = [reqs EXCEPT ![r] = Parked]
          /\ log' \in AuditEvents(log, <<Content("approval_requested", r)>>)
    BY <1>15 DEF SeedRequest
  <2> DEFINE contents == <<Content("approval_requested", r)>>
  <2>2. contents \in Seq(Contents) /\ \A i \in 1 .. Len(contents), q \in Requests : ~Decides(contents[i], q)
    <3>1. Content("approval_requested", r) \in Contents
      BY ContentType DEF Genuine, Entries
    <3>2. Len(contents) = 1 /\ contents[1] = Content("approval_requested", r)
      OBVIOUS
    <3>3. \A q \in Requests : ~Decides(contents[1], q)
      BY <3>2, WhatContentsDecide DEF Decisions, Entries
    <3>4. \A i \in 1 .. Len(contents) : i = 1
      BY <3>2
    <3> QED BY <3>1, <3>3, <3>4
  <2>3. log' \in AuditEvents(log, contents)
    BY <2>1
  <2> HIDE DEF contents
  <2>4. log \in Seq(Rows) /\ Ordered(log) /\ \A q \in Requests : Told(log, q, reqs[q])
    BY DEF LogInv
  <2>5. Extends(log', log, contents)
    BY <2>2, <2>3, <2>4, EventsAppended
  <2>6. ASSUME NEW q \in Requests PROVE Told(log', q, reqs'[q])
    <3>1. reqs'[q].approvals = reqs[q].approvals
          /\ (reqs'[q].approvals = 0 \/ reqs'[q].status = reqs[q].status)
      BY <2>1 DEF ConsoleInv, RequestOK, Parked, Absent
    <3>2. \A i \in 1 .. Len(contents) : ~Decides(contents[i], q)
      BY <2>2
    <3> QED BY <2>2, <2>4, <2>5, <3>1, <3>2, UndecidedTold
  <2>7. UNCHANGED sess
    BY <1>15 DEF SeedRequest
  <2> QED BY <2>5, <2>6, <2>7 DEF LogInv, Extends, ReadAheadOK, Told, About
<1> QED BY <1>1, <1>2, <1>3, <1>4, <1>5, <1>6, <1>8, <1>9, <1>10, <1>11, <1>12,
           <1>13, <1>14, <1>15 DEF ConsoleNext

LEMMA LogInvariant == WebSpec => []LogInv
<1>1. LogInv /\ ConsoleInv /\ [WebNext]_webVars => LogInv'
  BY LogKept DEF WebNext, webVars, OutsideConsole
<1> QED BY <1>1, LogInitially, ConsoleInvariant, PTL DEF WebSpec

\* However sessions, ticks and resets interleave, and whether or not the chain
\* has forked or been tampered with, the log holds every decision of a request
\* once, and the one with the highest number is what the request shows.
THEOREM LogAlwaysTellsTheStatus == WebSpec => []LogTellsTheStatus
<1>1. LogInv => LogTellsTheStatus
  <2> SUFFICES ASSUME LogInv, NEW r \in Requests
               PROVE  LET latest == CHOOSE i \in About(log, r) :
                                      \A j \in About(log, r) : log[j].seq <= log[i].seq
                      IN  /\ Cardinality(About(log, r)) = reqs[r].approvals
                          /\ About(log, r) # {} =>
                               (reqs[r].status = "DECLINED"
                                  <=> log[latest].content.what \in {"declined", "timeout"})
    BY DEF LogTellsTheStatus, About, Decides, Decisions
  <2> DEFINE about == About(log, r)
             latest == CHOOSE i \in about : \A j \in about : log[j].seq <= log[i].seq
  <2>1. Told(log, r, reqs[r]) /\ Ordered(log) /\ log \in Seq(Rows)
    BY DEF LogInv
  <2>2. \A i \in about : i \in 1 .. Len(log) /\ log[i].seq \in Nat
    BY <2>1, LogType DEF About
  <2>3. \A i, j \in about : i < j => log[i].seq < log[j].seq
    BY <2>1 DEF About, Ordered
  <2>4. ASSUME about # {}
        PROVE  reqs[r].status = "DECLINED" <=> log[latest].content.what \in Refusals
    <3>1. PICK i \in about :
            /\ \A j \in about : j <= i
            /\ reqs[r].status = "DECLINED" <=> log[i].content.what \in Refusals
      BY <2>1, <2>4 DEF Told
    <3> HIDE DEF about
    <3>2. \A j \in about : log[j].seq <= log[i].seq
      <4> TAKE j \in about
      <4>1. j = i \/ j < i
        BY <2>1, <2>2, <3>1, LogType
      <4> QED BY <2>2, <2>3, <4>1
    <3>3. latest \in about /\ log[i].seq <= log[latest].seq
      BY <3>1, <3>2
    <3>4. latest = i
      <4>1. latest = i \/ latest < i
        BY <2>1, <2>2, <3>1, <3>3, LogType
      <4> HIDE DEF latest
      <4> QED BY <2>2, <2>3, <3>1, <3>3, <4>1
    <3> QED BY <3>1, <3>4
  <2> QED BY <2>1, <2>4 DEF Told, Refusals
<1> QED BY <1>1, LogInvariant, PTL

=============================================================================
