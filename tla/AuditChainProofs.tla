-------------------------- MODULE AuditChainProofs --------------------------
(***************************************************************************)
(* Proofs about the audit log under any number of concurrent sessions: as  *)
(* long as the last row is read under the write lock, which is what the    *)
(* rules' diagnosis leads to, verify fails exactly on tampered rows, and   *)
(* names the first of them.                                                *)
(***************************************************************************)
EXTENDS WebApp, SequenceTheorems, FiniteSetTheorems, TLAPS

Entries == {"approval_requested", "approved", "declined", "timeout", "state_changed",
            "action_result", "payment_credited", "policy_decision"}

Contents == [what : Entries, subject : Requests \cup {Agent}, forged : BOOLEAN]

Rows == [seq : Nat, content : Contents, prev : Seq(Contents), hash : Seq(Contents)]

\* What the row said when it was written.
Original(content) == [content EXCEPT !.forged = FALSE]

Genuine == {content \in Contents : content.forged = FALSE}

\* Row i is number i, and its hash commits to what the rows up to it once said.
Chained(l, T) ==
    /\ l \in Seq(Rows) /\ T \subseteq 1 .. Len(l)
    /\ \A i \in 1 .. Len(l) :
          /\ l[i].seq = i
          /\ Len(l[i].hash) = i
          /\ l[i].content.forged <=> i \in T
    /\ \A i, j \in 1 .. Len(l) : j <= i => l[i].hash[j] = Original(l[j].content)

-----------------------------------------------------------------------------
(* What verify finds in a chained log.                                      *)

LEMMA OriginalType ==
    ASSUME NEW c \in Contents
    PROVE  /\ Original(c) \in Genuine
           /\ c.forged \in BOOLEAN
           /\ Original(c) = c <=> ~c.forged
<1>1. Original(c) \in Genuine /\ c.forged \in BOOLEAN
  BY DEF Original, Contents, Genuine
<1>2. ~c.forged => Original(c) = c
  BY DEF Original, Contents
<1>3. c.forged => Original(c) # c
  BY <1>1 DEF Genuine
<1> QED BY <1>1, <1>2, <1>3

LEMMA RowType ==
    ASSUME NEW l, NEW T, Chained(l, T), NEW i \in 1 .. Len(l)
    PROVE  /\ Len(l) \in Nat /\ DOMAIN l = 1 .. Len(l)
           /\ l[i] \in Rows /\ l[i].content \in Contents
           /\ l[i].hash \in Seq(Contents) /\ l[i].seq = i /\ Len(l[i].hash) = i
           /\ l[i].content.forged <=> i \in T
           /\ \A j \in 1 .. i : l[i].hash[j] = Original(l[j].content)
<1>1. l \in Seq(Rows)
  BY DEF Chained
<1>2. Len(l) \in Nat /\ DOMAIN l = 1 .. Len(l)
  BY <1>1, LenProperties
<1>3. l[i] \in Rows
  BY <1>1, ElementOfSeq
<1> QED BY <1>2, <1>3 DEF Chained, Rows

\* The row walked before row i is row i - 1.
LEMMA HashBeforeIs ==
    ASSUME NEW l, NEW T, Chained(l, T), NEW i \in 1 .. Len(l)
    PROVE  HashBefore(l, i) = IF i = 1 THEN GENESIS ELSE l[i - 1].hash
<1>1. Len(l) \in Nat /\ \A j \in 1 .. Len(l) : l[j].seq = j
  BY RowType
<1>2. Earlier(l, i) = 1 .. i - 1
  BY <1>1 DEF Earlier, Precedes
<1>3. CASE i = 1
  BY <1>2, <1>3 DEF HashBefore
<1>4. CASE i # 1
  <2> DEFINE last == CHOOSE j \in Earlier(l, i) :
                       \A k \in Earlier(l, i) : k = j \/ Precedes(l, k, j)
  <2>1. i - 1 \in Earlier(l, i)
    BY <1>1, <1>2, <1>4
  <2>2. \A k \in Earlier(l, i) : k = i - 1 \/ Precedes(l, k, i - 1)
    BY <1>1, <1>2, <1>4 DEF Precedes
  <2>3. /\ last \in Earlier(l, i)
        /\ \A k \in Earlier(l, i) : k = last \/ Precedes(l, k, last)
    BY <2>1, <2>2
  <2>4. last = i - 1
    BY <1>1, <1>2, <1>4, <2>1, <2>3 DEF Precedes
  <2>5. HashBefore(l, i) = l[last].hash
    BY <2>1 DEF HashBefore
  <2> QED BY <1>4, <2>4, <2>5
<1> QED BY <1>3, <1>4

LEMMA MismatchIsForgery ==
    ASSUME NEW l, NEW T, Chained(l, T)
    PROVE  Mismatched(l) = T
<1>1. ASSUME NEW i \in 1 .. Len(l)
      PROVE  l[i].hash # Digest(HashBefore(l, i), l[i].content) <=> i \in T
  <2> DEFINE before == IF i = 1 THEN GENESIS ELSE l[i - 1].hash
             c      == l[i].content
             digest == Append(before, c)
  <2>1. /\ Len(l) \in Nat /\ i \in Nat
        /\ l[i].hash \in Seq(Contents) /\ Len(l[i].hash) = i
        /\ c \in Contents /\ (c.forged <=> i \in T)
        /\ c = l[i].content
        /\ \A j \in 1 .. i : l[i].hash[j] = Original(l[j].content)
    BY RowType
  <2>2. /\ before \in Seq(Contents) /\ Len(before) = i - 1
        /\ \A j \in 1 .. i - 1 : before[j] = Original(l[j].content)
    <3>1. CASE i = 1
      BY <3>1 DEF GENESIS
    <3>2. CASE i # 1
      <4>1. i - 1 \in 1 .. Len(l)
        BY <2>1, <3>2
      <4> QED BY <2>1, <3>2, <4>1, RowType
    <3> QED BY <3>1, <3>2
  <2>3. Digest(HashBefore(l, i), l[i].content) = digest
    BY HashBeforeIs DEF Digest
  <2> HIDE DEF before, c
  <2>4. /\ digest \in Seq(Contents) /\ Len(digest) = i /\ digest[i] = c
        /\ \A j \in 1 .. i - 1 : digest[j] = before[j]
    BY <2>1, <2>2, AppendProperties
  <2>5. Original(c) = c <=> i \notin T
    BY <2>1, OriginalType
  <2> HIDE DEF digest
  <2>6. l[i].hash[i] = Original(c)
    BY <2>1
  <2>7. CASE i \in T
    BY <2>3, <2>4, <2>5, <2>6, <2>7
  <2>8. CASE i \notin T
    <3>1. \A j \in 1 .. i : l[i].hash[j] = digest[j]
      BY <2>1, <2>2, <2>4, <2>5, <2>8
    <3>2. l[i].hash = digest
      BY <2>1, <2>4, <3>1, SeqEqual
    <3> QED BY <2>3, <2>8, <3>2
  <2> QED BY <2>7, <2>8
<1> QED BY <1>1 DEF Mismatched, Chained

-----------------------------------------------------------------------------
(* What the writers leave.                                                  *)

\* The last row of a chained log commits to the whole of it.
LEMMA LastRowOfChain ==
    ASSUME NEW l, NEW T, Chained(l, T), NEW last \in LastRows(l)
    PROVE  /\ last.seq = Len(l) /\ Len(l) \in Nat
           /\ last.hash \in Seq(Contents) /\ Len(last.hash) = Len(l)
           /\ \A j \in 1 .. Len(l) : last.hash[j] = Original(l[j].content)
<1>1. l \in Seq(Rows) /\ Len(l) \in Nat
  BY LenProperties DEF Chained
<1>2. CASE l = << >>
  <2>1. last = NoRow /\ Len(l) = 0
    BY <1>2, EmptySeq DEF LastRows
  <2>2. NoRow.seq = 0 /\ NoRow.hash = << >>
    BY DEF NoRow, GENESIS
  <2>3. << >> \in Seq(Contents) /\ Len(<< >>) = 0
    BY EmptySeq
  <2> QED BY <2>1, <2>2, <2>3
<1>3. CASE l # << >>
  <2>1. Len(l) \in 1 .. Len(l)
    BY <1>1, <1>3, EmptySeq
  <2>2. PICK i \in 1 .. Len(l) :
          last = l[i] /\ \A k \in 1 .. Len(l) : l[k].seq <= l[i].seq
    BY <1>3 DEF LastRows
  <2>3. l[Len(l)].seq = Len(l) /\ l[i].seq = i
    BY <2>1, RowType
  <2>4. i = Len(l)
    BY <1>1, <2>1, <2>2, <2>3
  <2> QED BY <1>1, <2>1, <2>2, <2>4, RowType
<1> QED BY <1>2, <1>3

LEMMA WritersKeepChain ==
    ASSUME NEW l, NEW T, Chained(l, T), NEW contents \in Seq(Genuine),
           NEW x \in AuditEvents(l, contents)
    PROVE  Chained(x, T)
<1>1. PICK last \in LastRows(l) : x = l \o RowsAfter(last, contents)
  BY DEF AuditEvents
<1> DEFINE n == Len(l)
           m == Len(contents)
           new == RowsAfter(last, contents)
           prev(i) == last.hash \o SubSeq(contents, 1, i - 1)
           row(i) == [seq  |-> last.seq + i, content |-> contents[i],
                      prev |-> prev(i), hash |-> Append(prev(i), contents[i])]
<1>2. /\ last.seq = n /\ n \in Nat
      /\ last.hash \in Seq(Contents) /\ Len(last.hash) = n
      /\ \A j \in 1 .. n : last.hash[j] = Original(l[j].content)
  BY LastRowOfChain
<1>3. /\ m \in Nat /\ DOMAIN contents = 1 .. m
      /\ \A i \in 1 .. m : contents[i] \in Genuine
  BY LenProperties, ElementOfSeq
<1>4. \A c \in Genuine : c \in Contents /\ Original(c) = c /\ ~c.forged
  BY OriginalType DEF Genuine
<1>5. ASSUME NEW i \in 1 .. m
      PROVE  /\ prev(i) \in Seq(Contents) /\ Len(prev(i)) = n + i - 1
             /\ \A j \in 1 .. n : prev(i)[j] = last.hash[j]
             /\ \A j \in 1 .. i - 1 : prev(i)[n + j] = contents[j]
  <2> DEFINE older == SubSeq(contents, 1, i - 1)
  <2>1. \A j \in 1 .. i - 1 : contents[j] \in Contents
    BY <1>3, <1>4
  <2>2. /\ older \in Seq(Contents) /\ Len(older) = i - 1
        /\ \A j \in 1 .. i - 1 : older[j] = contents[j]
    BY <1>3, <2>1, SubSeqProperties
  <2> DEFINE both == last.hash \o older
  <2>3. prev(i) = both
    OBVIOUS
  <2> HIDE DEF older, prev
  <2>4. /\ both \in Seq(Contents) /\ Len(both) = n + (i - 1)
        /\ \A j \in 1 .. n + (i - 1) :
             both[j] = IF j <= n THEN last.hash[j] ELSE older[j - n]
    <3>1. /\ both \in Seq(Contents) /\ Len(both) = Len(last.hash) + Len(older)
          /\ \A j \in 1 .. Len(last.hash) + Len(older) :
               both[j] = IF j <= Len(last.hash) THEN last.hash[j]
                         ELSE older[j - Len(last.hash)]
      <4>1. last.hash \in Seq(Contents) /\ older \in Seq(Contents)
        BY <1>2, <2>2
      <4> QED BY <4>1, ConcatProperties, Zenon
    <3>2. Len(last.hash) = n /\ Len(older) = i - 1
      BY <1>2, <2>2
    <3> HIDE DEF both
    <3> QED BY <3>1, <3>2
  <2> HIDE DEF both
  <2>5. \A j \in 1 .. i - 1 : both[n + j] = contents[j]
    <3> TAKE j \in 1 .. i - 1
    <3>1. n + j \in 1 .. n + (i - 1) /\ ~(n + j <= n) /\ (n + j) - n = j
      BY <1>2, <1>3
    <3> QED BY <2>2, <2>4, <3>1
  <2> QED BY <1>2, <1>3, <2>3, <2>4, <2>5
<1>6. ASSUME NEW i \in 1 .. m
      PROVE  /\ row(i) \in Rows /\ row(i).seq = n + i /\ row(i).content = contents[i]
             /\ Len(row(i).hash) = n + i
             /\ \A j \in 1 .. n : row(i).hash[j] = Original(l[j].content)
             /\ \A j \in 1 .. i : row(i).hash[n + j] = contents[j]
  <2> DEFINE before == prev(i)
             digest == Append(before, contents[i])
  <2>1. /\ before \in Seq(Contents) /\ Len(before) = n + i - 1
        /\ \A j \in 1 .. n : before[j] = last.hash[j]
        /\ \A j \in 1 .. i - 1 : before[n + j] = contents[j]
    BY <1>5
  <2>2. contents[i] \in Contents
    BY <1>3, <1>4
  <2>3. row(i) = [seq |-> last.seq + i, content |-> contents[i],
                  prev |-> before, hash |-> digest]
    OBVIOUS
  <2> HIDE DEF before, row, prev
  <2>4. /\ digest \in Seq(Contents) /\ Len(digest) = n + i
        /\ \A j \in 1 .. n + i - 1 : digest[j] = before[j]
        /\ digest[n + i] = contents[i]
    BY <1>2, <1>3, <2>1, <2>2, AppendProperties
  <2> HIDE DEF digest
  <2>5. \A j \in 1 .. n : digest[j] = Original(l[j].content)
    BY <1>2, <1>3, <2>1, <2>4
  <2>6. \A j \in 1 .. i : digest[n + j] = contents[j]
    <3> TAKE j \in 1 .. i
    <3>1. CASE j = i
      BY <2>4, <3>1
    <3>2. CASE j # i
      <4>1. j \in 1 .. i - 1 /\ n + j \in 1 .. n + i - 1
        BY <1>2, <1>3, <3>2
      <4> QED BY <2>1, <2>4, <4>1
    <3> QED BY <3>1, <3>2
  <2>7. row(i) \in Rows
    BY <1>2, <1>3, <2>1, <2>2, <2>3, <2>4 DEF Rows
  <2> QED BY <1>2, <2>3, <2>4, <2>5, <2>6, <2>7
<1>7. new = [i \in 1 .. m |-> row(i)]
  BY <1>3 DEF RowsAfter, Digest
<1>8. l \in Seq(Rows)
  BY DEF Chained
<1>9. new \in Seq(Rows) /\ Len(new) = m /\ \A i \in 1 .. m : new[i] = row(i)
  <2> HIDE DEF row, new
  <2>1. new \in [1 .. m -> Rows]
    BY <1>6, <1>7
  <2> QED BY <1>3, <1>7, <2>1, SeqDef, LenProperties
<1> HIDE DEF new, row, prev
<1>10. /\ x \in Seq(Rows) /\ Len(x) = n + m
       /\ \A i \in 1 .. n + m : x[i] = IF i <= n THEN l[i] ELSE new[i - n]
  BY <1>1, <1>8, <1>9, ConcatProperties DEF new
<1>11. ASSUME NEW i \in 1 .. n + m
       PROVE  /\ x[i].seq = i /\ Len(x[i].hash) = i
              /\ x[i].content.forged <=> i \in T
              /\ \A j \in 1 .. n + m : j <= i => x[i].hash[j] = Original(x[j].content)
  <2>1. T \subseteq 1 .. n
    BY DEF Chained
  <2>2. CASE i <= n
    <3>1. i \in 1 .. n /\ x[i] = l[i] /\ \A j \in 1 .. n : x[j] = l[j]
      BY <1>2, <1>3, <1>10, <2>2
    <3>2. /\ l[i].seq = i /\ Len(l[i].hash) = i
          /\ l[i].content.forged <=> i \in T
          /\ \A j \in 1 .. i : l[i].hash[j] = Original(l[j].content)
      BY <3>1, RowType
    <3> QED BY <1>2, <1>3, <2>2, <3>1, <3>2
  <2>3. CASE i > n
    <3> DEFINE k == i - n
    <3>1. k \in 1 .. m /\ i = n + k /\ x[i] = row(k)
      BY <1>2, <1>3, <1>9, <1>10, <2>3
    <3> HIDE DEF k
    <3>2. /\ x[i].seq = i /\ Len(x[i].hash) = i /\ x[i].content = contents[k]
          /\ \A j \in 1 .. n : x[i].hash[j] = Original(l[j].content)
          /\ \A j \in 1 .. k : x[i].hash[n + j] = contents[j]
      BY <1>6, <3>1
    <3>3. x[i].content.forged <=> i \in T
      BY <1>2, <1>3, <1>4, <2>1, <2>3, <3>1, <3>2
    <3>4. ASSUME NEW j \in 1 .. n + m, j <= i
          PROVE  x[i].hash[j] = Original(x[j].content)
      <4>1. CASE j <= n
        BY <1>2, <1>3, <1>10, <3>2, <4>1
      <4>2. CASE j > n
        <5> DEFINE h == j - n
        <5>1. h \in 1 .. k /\ h \in 1 .. m /\ j = n + h /\ x[j] = row(h)
          BY <1>2, <1>3, <1>9, <1>10, <3>1, <3>4, <4>2
        <5> HIDE DEF h
        <5>2. x[j].content = contents[h] /\ contents[h] \in Genuine
          BY <1>3, <1>6, <5>1
        <5> QED BY <1>4, <3>2, <5>1, <5>2
      <4> QED BY <1>2, <1>3, <4>1, <4>2
    <3> QED BY <3>2, <3>3, <3>4
  <2> QED BY <1>2, <1>3, <2>2, <2>3
<1>12. T \subseteq 1 .. n + m
  BY <1>2, <1>3 DEF Chained
<1> HIDE DEF n, m
<1> QED BY <1>10, <1>11, <1>12 DEF Chained

LEMMA TamperKeepsChain ==
    ASSUME NEW l, NEW T, Chained(l, T), NEW i \in DOMAIN l
    PROVE  Chained([l EXCEPT ![i].content.forged = TRUE], T \cup {i})
<1> DEFINE row == [l[i] EXCEPT !.content = [l[i].content EXCEPT !.forged = TRUE]]
           x   == [l EXCEPT ![i] = row]
<1>1. l \in Seq(Rows) /\ Len(l) \in Nat /\ DOMAIN l = 1 .. Len(l)
  BY LenProperties DEF Chained
<1>2. l[i] \in Rows /\ l[i].content \in Contents
  BY <1>1, RowType
<1>3. [l EXCEPT ![i].content.forged = TRUE] = x
  BY <1>1, <1>2 DEF Rows, Contents
<1>4. /\ row \in Rows /\ row.seq = l[i].seq /\ row.hash = l[i].hash
      /\ row.content.forged = TRUE /\ Original(row.content) = Original(l[i].content)
  <2> DEFINE c == l[i].content
             forged == [c EXCEPT !.forged = TRUE]
  <2>1. forged \in Contents /\ forged.forged = TRUE /\ Original(forged) = Original(c)
    BY <1>2 DEF Contents, Original
  <2>2. row = [l[i] EXCEPT !.content = forged]
    OBVIOUS
  <2> HIDE DEF forged, c, row
  <2>3. row \in Rows /\ row.seq = l[i].seq /\ row.hash = l[i].hash /\ row.content = forged
    BY <1>2, <2>1, <2>2 DEF Rows
  <2> QED BY <2>1, <2>3 DEF c
<1> HIDE DEF row
<1>5. /\ x \in Seq(Rows) /\ Len(x) = Len(l)
      /\ \A j \in 1 .. Len(l) : x[j] = IF j = i THEN row ELSE l[j]
  BY <1>1, <1>4, ExceptSeq
<1> HIDE DEF x
<1>6. ASSUME NEW j \in 1 .. Len(x)
      PROVE  /\ x[j].seq = j /\ Len(x[j].hash) = j
             /\ x[j].content.forged <=> j \in T \cup {i}
  BY <1>1, <1>4, <1>5, RowType
<1>7. ASSUME NEW j \in 1 .. Len(x), NEW k \in 1 .. Len(x), k <= j
      PROVE  x[j].hash[k] = Original(x[k].content)
  <2>1. x[j].hash = l[j].hash /\ Original(x[k].content) = Original(l[k].content)
    BY <1>4, <1>5
  <2> QED BY <1>5, <1>7, <2>1 DEF Chained
<1>8. T \cup {i} \subseteq 1 .. Len(x)
  BY <1>1, <1>5 DEF Chained
<1>9. Chained(x, T \cup {i})
  BY <1>5, <1>6, <1>7, <1>8 DEF Chained
<1> QED BY <1>3, <1>9

LEMMA EmptyChain == Chained(<< >>, {})
BY EmptySeq DEF Chained

-----------------------------------------------------------------------------
(* What the sessions write is genuine.                                      *)

LEMMA ContentType ==
    ASSUME NEW what \in Entries, NEW subject \in Requests \cup {Agent}
    PROVE  Content(what, subject) \in Genuine
BY DEF Content, Genuine, Contents

\* The requests of a set can be put in a row.
LEMMA EnumerationType ==
    ASSUME NEW S \in SUBSET Requests
    PROVE  Cardinality(S) \in Nat /\ SetToSeq(S) \in [1 .. Cardinality(S) -> S]
<1>1. IsFiniteSet(S)
  BY ConsoleAssumption, FS_Subset
<1>2. Cardinality(S) \in Nat /\ ExistsBijection(1 .. Cardinality(S), S)
  BY <1>1, FS_CardinalityType
<1>3. \E f \in [1 .. Cardinality(S) -> S] : IsInjective(f)
  BY <1>2 DEF ExistsBijection, Bijection, Injection
<1> QED BY <1>2, <1>3 DEF SetToSeq

LEMMA TickRowsType ==
    ASSUME NEW stale \in SUBSET Requests, NEW credited \in SUBSET Requests
    PROVE  TimeoutRows(stale) \in Seq(Genuine) /\ CreditRows(credited) \in Seq(Genuine)
<1>1. TimeoutRows(stale) \in Seq(Genuine)
  <2> DEFINE n == Cardinality(stale)
             q == SetToSeq(stale)
             row(i) == Content(IF i % 2 = 1 THEN "timeout" ELSE "state_changed",
                               q[(i + 1) \div 2])
  <2>1. n \in Nat /\ q \in [1 .. n -> stale]
    BY EnumerationType
  <2> HIDE DEF n, q
  <2>2. ASSUME NEW i \in 1 .. 2 * n
        PROVE  row(i) \in Genuine
    <3>1. (i + 1) \div 2 \in 1 .. n
      BY <2>1
    <3>2. q[(i + 1) \div 2] \in Requests
      BY <2>1, <3>1
    <3> QED BY <3>2, ContentType DEF Entries
  <2> HIDE DEF row
  <2>3. 2 * n \in Nat /\ [i \in 1 .. 2 * n |-> row(i)] \in [1 .. 2 * n -> Genuine]
    BY <2>1, <2>2
  <2>4. [i \in 1 .. 2 * n |-> row(i)] \in Seq(Genuine)
    BY <2>3, SeqDef
  <2> QED BY <2>4 DEF TimeoutRows, n, q, row
<1>2. CreditRows(credited) \in Seq(Genuine)
  <2>1. /\ Cardinality(credited) \in Nat
        /\ \A i \in 1 .. Cardinality(credited) : SetToSeq(credited)[i] \in Requests
    BY EnumerationType
  <2>2. CreditRows(credited) \in [1 .. Cardinality(credited) -> Genuine]
    BY <2>1, ContentType DEF CreditRows, Entries
  <2> QED BY <2>1, <2>2, SeqDef
<1> QED BY <1>1, <1>2

LEMMA DecisionRowsType ==
    ASSUME NEW r \in Requests, NEW answer
    PROVE  DeclineRows(r) \in Seq(Genuine) /\ ApproveRows(r, answer) \in Seq(Genuine)
<1>1. \A what \in Entries : Content(what, r) \in Genuine
  BY ContentType
<1>2. DeclineRows(r) \in Seq(Genuine)
  BY <1>1 DEF DeclineRows, Entries
<1>3. ApproveRows(r, answer) \in Seq(Genuine)
  <2>1. <<Content("approved", r), Content("action_result", r)>> \in Seq(Genuine)
    BY <1>1 DEF Entries
  <2>2. << >> \in Seq(Genuine) /\ <<Content("payment_credited", r)>> \in Seq(Genuine)
    BY <1>1 DEF Entries
  <2> QED BY <2>1, <2>2, ConcatProperties DEF ApproveRows
<1> QED BY <1>2, <1>3

-----------------------------------------------------------------------------
(* A nonempty set of positions has a first one.                             *)

LEMMA Least ==
    ASSUME NEW n \in Nat, NEW S \in SUBSET (1 .. n), S # {}
    PROVE  \E i \in S : \A j \in S : i <= j
<1> DEFINE R == StrictSubsetOrdering(1 .. n)
           Upto(i) == {j \in S : j <= i}
           T == {Upto(i) : i \in S}
<1>1. IsWellFoundedOn(R, FiniteSubsetsOf(1 .. n))
  BY FS_StrictSubsetOrderingWellFounded
<1>2. T \subseteq FiniteSubsetsOf(1 .. n) /\ T # {}
  <2>1. IsFiniteSet(1 .. n)
    BY FS_Interval
  <2>2. \A x \in T : x \in SUBSET (1 .. n)
    OBVIOUS
  <2>3. FiniteSubsetsOf(1 .. n) = SUBSET (1 .. n)
    BY <2>1, FS_FiniteSubsetsOfFinite
  <2> QED BY <2>2, <2>3
<1>3. \E x \in T : \A y \in T : ~ (<<y, x>> \in R)
  <2> HIDE DEF R, T
  <2> QED BY <1>1, <1>2, WFMin, Zenon
<1>4. PICK i \in S : \A j \in S : <<Upto(j), Upto(i)>> \notin R
  BY <1>3
<1>5. ASSUME NEW j \in S, j < i PROVE FALSE
  <2>1. Upto(j) \subseteq Upto(i) /\ Upto(j) # Upto(i)
    <3>1. i \in Nat /\ S \subseteq Nat /\ j \in Nat
      OBVIOUS
    <3>2. i \in Upto(i) /\ i \notin Upto(j)
      BY <1>5, <3>1
    <3>3. \A k \in S : k <= j => k <= i
      BY <1>5, <3>1
    <3>4. Upto(j) \subseteq Upto(i)
      BY <3>3
    <3> QED BY <3>2, <3>4
  <2>2. Upto(j) \in SUBSET (1 .. n) /\ Upto(i) \in SUBSET (1 .. n)
    OBVIOUS
  <2> QED BY <1>4, <2>1, <2>2 DEF StrictSubsetOrdering
<1>6. \A j \in S : i <= j
  BY <1>5
<1> QED BY <1>6

-----------------------------------------------------------------------------
(* The invariant.                                                           *)

\* No session holds a last row it has read without the lock.
ChainInv ==
    /\ Chained(log, tampered)
    /\ DOMAIN sess = Sessions
    /\ \A s \in Sessions : sess[s].targets \subseteq Requests /\ sess[s].last = Unread

LEMMA AuditedKeepsChain ==
    ASSUME ChainInv, NEW s \in Sessions, NEW contents \in Seq(Genuine),
           NEW x \in Audited(s, contents)
    PROVE  Chained(x, tampered)
BY WritersKeepChain DEF ChainInv, Audited

LEMMA FinishKeepsSessions ==
    ASSUME ChainInv, NEW s \in Sessions, Finish(s), Chained(log, tampered)'
    PROVE  ChainInv'
BY DEF ChainInv, Finish, Idle

LEMMA TickKeepsChain == ChainInv /\ CommitTick => ChainInv'
<1> SUFFICES ASSUME ChainInv, CommitTick
             PROVE  ChainInv'
  OBVIOUS
<1>1. Agent \in Sessions /\ sess[Agent].targets \subseteq Requests
  BY DEF ChainInv, Sessions
<1> DEFINE stale == sess[Agent].targets
           rows(due, step) ==
             TimeoutRows(stale) \o CreditRows({r \in due : ~reqs[r].stored})
             \o (IF step THEN <<Content("policy_decision", Agent)>> ELSE << >>)
<1>2. PICK due \in SUBSET Announced, step \in BOOLEAN :
        log' \in Audited(Agent, rows(due, step))
  BY DEF CommitTick
<1>3. rows(due, step) \in Seq(Genuine)
  <2> DEFINE credited == {r \in due : ~reqs[r].stored}
             third == IF step THEN <<Content("policy_decision", Agent)>> ELSE << >>
  <2>1. credited \in SUBSET Requests
    BY DEF Announced
  <2>2. TimeoutRows(stale) \in Seq(Genuine) /\ CreditRows(credited) \in Seq(Genuine)
    BY <1>1, <2>1, TickRowsType
  <2>3. Content("policy_decision", Agent) \in Genuine
    BY ContentType DEF Entries
  <2>4. third \in Seq(Genuine)
    BY <2>3
  <2> HIDE DEF third, credited, stale
  <2>5. TimeoutRows(stale) \o CreditRows(credited) \in Seq(Genuine)
    BY <2>2, ConcatProperties, Zenon
  <2>6. TimeoutRows(stale) \o CreditRows(credited) \o third \in Seq(Genuine)
    BY <2>4, <2>5, ConcatProperties, Zenon
  <2> QED BY <2>6 DEF third, credited
<1> HIDE DEF rows
<1>4. Chained(log', tampered)
  BY <1>1, <1>2, <1>3, AuditedKeepsChain
<1>5. tampered' = tampered /\ Finish(Agent)
  BY DEF CommitTick
<1> QED BY <1>1, <1>4, <1>5, FinishKeepsSessions

LEMMA ChainKept ==
    ASSUME LlmMode = "rules"
    PROVE  ChainInv /\ [ConsoleNext]_consoleVars => ChainInv'
<1> SUFFICES ASSUME ChainInv, [ConsoleNext]_consoleVars
             PROVE  ChainInv'
  OBVIOUS
<1>1. CASE UNCHANGED consoleVars
  BY <1>1 DEF consoleVars, ChainInv
<1>2. ASSUME NEW s \in Clerks, AskDecision(s) \/ ReadCase(s) \/ AskTamper(s)
      PROVE  ChainInv'
  <2>1. UNCHANGED <<log, tampered>> /\ s \in Sessions
    BY <1>2 DEF AskDecision, ReadCase, AskTamper, ghosts, Sessions
  <2>2. /\ DOMAIN sess' = Sessions
        /\ \A t \in Sessions : sess'[t].targets \subseteq Requests /\ sess'[t].last = Unread
    <3>1. CASE AskDecision(s)
      BY <2>1, <3>1 DEF AskDecision, Idle, ChainInv
    <3>2. CASE ReadCase(s)
      BY <2>1, <3>2 DEF ReadCase, ChainInv
    <3>3. CASE AskTamper(s)
      BY <2>1, <3>3 DEF AskTamper, Idle, ChainInv
    <3> QED BY <1>2, <3>1, <3>2, <3>3
  <2> QED BY <2>1, <2>2 DEF ChainInv
<1>3. CASE AskTick
  <2>1. \A stale : AuditsBeforeLock(stale) = FALSE
    BY DEF AuditsBeforeLock
  <2> QED BY <1>3, <2>1 DEF AskTick, Idle, ChainInv, ghosts, Sessions
<1>4. ASSUME NEW s \in Sessions, BeginWrite(s) \/ LockTimeout(s)
      PROVE  ChainInv'
  <2>1. UNCHANGED <<log, tampered>>
    BY <1>4 DEF BeginWrite, LockTimeout, ghosts
  <2>2. CASE BeginWrite(s)
    BY <2>1, <2>2 DEF BeginWrite, ChainInv
  <2>3. CASE LockTimeout(s)
    BY <2>1, <2>3 DEF LockTimeout, Idle, ChainInv
  <2> QED BY <1>4, <2>2, <2>3
<1>5. ASSUME NEW s \in Sessions, RowsGone(s)
      PROVE  ChainInv'
  <2>1. Finish(s) /\ UNCHANGED <<log, tampered>>
    BY <1>5 DEF RowsGone, ghosts
  <2> QED BY <2>1, FinishKeepsSessions DEF ChainInv
<1>6. ASSUME NEW s \in Clerks, CommitDecline(s)
      PROVE  ChainInv'
  <2>1. PICK r \in sess[s].targets : log' \in Audited(s, DeclineRows(r))
    BY <1>6 DEF CommitDecline
  <2>2. s \in Sessions /\ r \in Requests /\ tampered' = tampered /\ Finish(s)
    BY <1>6 DEF ChainInv, Sessions, CommitDecline
  <2> QED BY <2>1, <2>2, DecisionRowsType, AuditedKeepsChain, FinishKeepsSessions
<1>7. ASSUME NEW s \in Clerks, CommitApprove(s)
      PROVE  ChainInv'
  <2>1. PICK r \in sess[s].targets, answer \in Answers :
          log' \in Audited(s, ApproveRows(r, answer))
    BY <1>7 DEF CommitApprove
  <2>2. s \in Sessions /\ r \in Requests /\ tampered' = tampered /\ Finish(s)
    BY <1>7 DEF ChainInv, Sessions, CommitApprove
  <2> QED BY <2>1, <2>2, DecisionRowsType, AuditedKeepsChain, FinishKeepsSessions
<1>8. ASSUME NEW s \in Clerks, FailApprove(s)
      PROVE  ChainInv'
  <2>1. s \in Sessions /\ Finish(s) /\ UNCHANGED <<log, tampered>>
    BY <1>8 DEF FailApprove, Sessions
  <2> QED BY <2>1, FinishKeepsSessions DEF ChainInv
<1>9. ASSUME NEW s \in Clerks, CommitTamper(s)
      PROVE  ChainInv'
  <2> DEFINE i == sess[s].victim
  <2>1. /\ i \in DOMAIN log /\ log' = [log EXCEPT ![i].content.forged = TRUE]
        /\ tampered' = tampered \cup {i} /\ Finish(s) /\ s \in Sessions
    BY <1>9 DEF CommitTamper, Sessions
  <2> HIDE DEF i
  <2>2. Chained(log', tampered')
    BY <2>1, TamperKeepsChain DEF ChainInv
  <2> QED BY <2>1, <2>2, FinishKeepsSessions
<1>10. CASE CommitTick
  BY <1>10, TickKeepsChain
<1>11. CASE DropAll
  BY <1>11, EmptyChain DEF DropAll, ChainInv
<1>12. CASE SeedRequest
  <2>1. PICK r \in Requests :
          log' \in AuditEvents(log, <<Content("approval_requested", r)>>)
    BY <1>12 DEF SeedRequest
  <2>2. <<Content("approval_requested", r)>> \in Seq(Genuine)
    BY ContentType DEF Entries
  <2> QED BY <1>12, <2>1, <2>2, WritersKeepChain DEF SeedRequest, ChainInv, ghosts
<1> QED BY <1>1, <1>2, <1>3, <1>4, <1>5, <1>6, <1>7, <1>8, <1>9, <1>10, <1>11, <1>12
        DEF ConsoleNext

LEMMA ChainInvariant ==
    ASSUME LlmMode = "rules"
    PROVE  WebSpec => []ChainInv
<1>1. WebInit => ChainInv
  BY EmptyChain DEF WebInit, ConsoleInit, ChainInv, Idle
<1>2. ChainInv /\ [WebNext]_webVars => ChainInv'
  BY ChainKept DEF WebNext, webVars, OutsideConsole
<1> QED BY <1>1, <1>2, PTL DEF WebSpec

\* Under any interleaving of sessions, ticks and resets the chain verifies
\* exactly as long as nobody has tampered with it.
THEOREM ChainAlwaysValidUnlessTampered ==
    ASSUME LlmMode = "rules"
    PROVE  WebSpec => []ChainValidUnlessTampered
<1>1. ChainInv => ChainValidUnlessTampered
  BY MismatchIsForgery DEF ChainInv, ChainValidUnlessTampered, Verified
<1> QED BY <1>1, ChainInvariant, PTL

\* And the row verify names is the first of those that were tampered with.
THEOREM TamperPointAlwaysNamed ==
    ASSUME LlmMode = "rules"
    PROVE  WebSpec => []TamperPointNamed
<1>1. ChainInv => TamperPointNamed
  <2> SUFFICES ASSUME ChainInv, tampered # {}
               PROVE  /\ FirstBroken(log) \in tampered
                      /\ \A i \in tampered : ~Precedes(log, i, FirstBroken(log))
    BY DEF TamperPointNamed
  <2>1. Chained(log, tampered) /\ Mismatched(log) = tampered
    BY MismatchIsForgery DEF ChainInv
  <2>2. /\ Len(log) \in Nat /\ tampered \in SUBSET (1 .. Len(log))
        /\ \A i \in 1 .. Len(log) : log[i].seq = i
    BY <2>1, LenProperties DEF Chained
  <2>3. PICK i \in tampered : \A j \in tampered : i <= j
    BY <2>2, Least
  <2>4. \A j \in Mismatched(log) : j = i \/ Precedes(log, i, j)
    <3> SUFFICES ASSUME NEW j \in tampered, j # i
                 PROVE  Precedes(log, i, j)
      BY <2>1
    <3>1. i \in Nat /\ j \in Nat /\ log[i].seq = i /\ log[j].seq = j
      BY <2>2
    <3> QED BY <2>3, <3>1 DEF Precedes
  <2>5. /\ FirstBroken(log) \in tampered
        /\ \A j \in tampered : j = FirstBroken(log) \/ Precedes(log, FirstBroken(log), j)
    BY <2>1, <2>3, <2>4 DEF FirstBroken
  <2>6. \A k \in tampered : k \in Nat /\ log[k].seq = k
    BY <2>2
  <2>7. ASSUME NEW j \in tampered
        PROVE  ~Precedes(log, j, FirstBroken(log))
    BY <2>5, <2>6 DEF Precedes
  <2> QED BY <2>5, <2>7
<1> QED BY <1>1, ChainInvariant, PTL
=============================================================================
