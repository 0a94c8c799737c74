----------------------------- MODULE AuditChain -----------------------------
(***************************************************************************)
(* The hash chain of the audit log (app/audit/__init__.py): how a row is   *)
(* built on the last one, and what verify reports.                         *)
(*                                                                         *)
(* SHA-256 is taken to be free of collisions, so a digest is modelled by   *)
(* what it commits to: the contents of all rows up to its own.             *)
(***************************************************************************)
EXTENDS Naturals, Sequences

GENESIS == << >>

Digest(prev, content) == Append(prev, content)

\* The log of an empty table has no last row.
NoRow == [seq |-> 0, content |-> << >>, prev |-> GENESIS, hash |-> GENESIS]

\* The rows successive calls of audit_event build, the first of them on the row
\* it has read as the last.  A hash is what it commits to, so the one row i is
\* built on is that of the last row with the contents before i.
RowsAfter(last, contents) ==
    LET prev(i) == last.hash \o SubSeq(contents, 1, i - 1)
    IN  [i \in DOMAIN contents |->
            [seq  |-> last.seq + i, content |-> contents[i],
             prev |-> prev(i), hash |-> Digest(prev(i), contents[i])]]

\* ORDER BY seq DESC LIMIT 1.  seq is not unique: of several rows with the
\* highest number the database may return any.
LastRows(log) ==
    IF log = << >> THEN {NoRow}
    ELSE {log[i] : i \in {j \in 1 .. Len(log) :
                             \A k \in 1 .. Len(log) : log[k].seq <= log[j].seq}}

\* The logs these calls may leave.  From the second call on the last row is the
\* one just added: no row had a number above the last one.
AuditEvents(log, contents) == {log \o RowsAfter(last, contents) : last \in LastRows(log)}

-----------------------------------------------------------------------------
(* verify walks the rows by seq, those of equal seq as inserted.            *)

\* Faulty variant: the newest row first, as audit_event reads them.
Precedes_NewestFirst(log, i, j) ==
    log[i].seq > log[j].seq \/ (log[i].seq = log[j].seq /\ i < j)

Precedes(log, i, j) ==
    log[i].seq < log[j].seq \/ (log[i].seq = log[j].seq /\ i < j)

Earlier(log, i) == {j \in 1 .. Len(log) : Precedes(log, j, i)}

\* The stored hash of the row that is walked just before row i.
HashBefore(log, i) ==
    IF Earlier(log, i) = {} THEN GENESIS
    ELSE log[CHOOSE j \in Earlier(log, i) :
                \A k \in Earlier(log, i) : k = j \/ Precedes(log, k, j)].hash

Mismatched(log) ==
    {i \in 1 .. Len(log) : log[i].hash # Digest(HashBefore(log, i), log[i].content)}

Verified(log) == Mismatched(log) = {}

\* The row verify names.
FirstBroken(log) ==
    CHOOSE i \in Mismatched(log) : \A j \in Mismatched(log) : j = i \/ Precedes(log, i, j)
=============================================================================
