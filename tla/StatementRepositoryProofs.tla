--------------------- MODULE StatementRepositoryProofs ---------------------
(***************************************************************************)
(* Theorems about StatementRepository: what PostgresRepository and            *)
(* DuckDBRepository leave in the table when the statements of a save fail, or *)
(* are cut short, anywhere.                                                  *)
(***************************************************************************)
EXTENDS StatementRepository, AuditRepositoryProofs

-----------------------------------------------------------------------------
(* The rows of a save that has come to its k-th INSERT.                     *)

First(rows, k) == [i \in 1..k |-> rows[i]]

LEMMA FirstProperties ==
  ASSUME NEW rows \in Seq(Row)
  PROVE  /\ First(rows, 0) = << >>
         /\ First(rows, Len(rows)) = rows
         /\ \A k \in 0..(Len(rows) - 1) :
              Append(First(rows, k), rows[k + 1]) = First(rows, k + 1)
         /\ \A k \in 0..Len(rows) :
              First(rows, k) \in Seq(Row) /\ Len(First(rows, k)) = k
<1>0. Len(rows) \in Nat /\ \A i \in 1..Len(rows) : rows[i] \in Row
  BY LenProperties, ElementOfSeq
<1>1. ASSUME NEW k \in 0..Len(rows)
      PROVE  First(rows, k) \in Seq(Row) /\ Len(First(rows, k)) = k
  <2>1. k \in Nat /\ \A i \in 1..k : rows[i] \in Row
    BY <1>0
  <2> QED
    BY <2>1 DEF First
<1>2. First(rows, 0) = << >>
  BY <1>0, <1>1, EmptySeq
<1>3. First(rows, Len(rows)) = rows
  BY <1>0, <1>1, SeqEqual DEF First
<1>4. ASSUME NEW k \in 0..(Len(rows) - 1)
      PROVE  Append(First(rows, k), rows[k + 1]) = First(rows, k + 1)
  <2> DEFINE s == First(rows, k)
             t == First(rows, k + 1)
             row == rows[k + 1]
  <2>1. /\ k \in Nat /\ row \in Row
        /\ s \in Seq(Row) /\ Len(s) = k
        /\ t \in Seq(Row) /\ Len(t) = k + 1
    BY <1>0, <1>1
  <2>2. /\ \A i \in 1..k : s[i] = t[i]
        /\ t[k + 1] = row
    BY <2>1 DEF First
  <2> HIDE DEF s, t, row
  <2>3. /\ Append(s, row) \in Seq(Row) /\ Len(Append(s, row)) = k + 1
        /\ \A i \in 1..k : Append(s, row)[i] = s[i]
        /\ Append(s, row)[k + 1] = row
    BY <2>1, AppendProperties
  <2>4. \A i \in 1..(k + 1) : i \in 1..k \/ i = k + 1
    BY <2>1
  <2>5. \A i \in 1..(k + 1) : Append(s, row)[i] = t[i]
    BY <2>2, <2>3, <2>4
  <2>6. Append(s, row) = t
    BY <2>1, <2>3, <2>5, SeqEqual
  <2> QED
    BY <2>6 DEF s, t, row
<1> QED
  BY <1>1, <1>2, <1>3, <1>4

(* Rows whose chain holds: numbered, one per event, each linked to the digest
   stored in the row before and vouched for by its own digest, unless its body is
   one of `odd'. *)
Linked(rows, odd) ==
  /\ rows \in Seq(Row)
  /\ DistinctIds(Logged(rows))
  /\ \A i \in 1..Len(rows) :
       /\ rows[i].sequence = i
       /\ rows[i].previous_digest
            = IF i = 1 THEN NoDigest ELSE rows[i - 1].integrity_digest
       /\ rows[i].integrity_digest = Digest(rows[i]) \/ rows[i].event.body \in odd

(* The bodies that excuse a row: PostgreSQL gives them back for others. *)
Odd == IF duckdb THEN {} ELSE Bodies \ Plain

LEMMA EmptyLinked == ASSUME NEW odd PROVE Linked(<< >>, odd)
<1>1. << >> \in Seq(Row) /\ Len(<< >>) = 0 /\ Logged(<< >>) = << >>
  BY EmptySeq DEF Logged
<1>2. \A i \in 1..0 : FALSE
  OBVIOUS
<1> QED
  BY <1>1, <1>2 DEF Linked, DistinctIds

(* A sealed list is linked, and excuses nothing. *)
LEMMA SealedLinked ==
  ASSUME NEW r, WellFormed(r), NEW odd
  PROVE  Linked(r.events, odd)
<1> DEFINE rows == r.events
           log == Logged(rows)
<1>1. /\ rows \in Seq(Row) /\ rows = Chain(log) /\ DistinctIds(log)
      /\ log \in Seq(Event) /\ Len(log) = Len(rows)
  BY LoggedProperties DEF WellFormed, Repository
<1>2. Len(rows) \in Nat
  BY <1>1, LenProperties
<1>3. /\ \A n \in 1..Len(rows) : rows[n].sequence = n
      /\ Verifies(rows)
  BY <1>1, ChainProperties
<1> HIDE DEF rows, log
<1>4. ASSUME NEW n \in 1..Len(rows)
      PROVE  /\ rows[n].integrity_digest = Digest(rows[n])
             /\ rows[n].previous_digest
                  = IF n = 1 THEN NoDigest ELSE rows[n - 1].integrity_digest
  <2>1. n = 1 \/ n - 1 \in 1..Len(rows)
    BY <1>2
  <2>2. /\ ~MismatchAt(rows, n)
        /\ n # 1 => ~MismatchAt(rows, n - 1)
    BY <1>3, <2>1 DEF Verifies
  <2> QED
    BY <2>2 DEF MismatchAt
<1> QED
  BY <1>1, <1>3, <1>4 DEF Linked, log, rows

(* The first rows of a linked list are linked: rows are inserted oldest first,
   and each one's digests look back only. *)
LEMMA FirstLinked ==
  ASSUME NEW odd, NEW rows, Linked(rows, odd), NEW k \in 0..Len(rows)
  PROVE  Linked(First(rows, k), odd)
<1> DEFINE part == First(rows, k)
<1>1. /\ rows \in Seq(Row) /\ Len(rows) \in Nat /\ k \in Nat
      /\ \A i \in 1..k : i \in 1..Len(rows)
  BY LenProperties DEF Linked
<1>2. /\ part \in Seq(Row) /\ Len(part) = k
      /\ \A i \in 1..k : part[i] = rows[i]
  BY <1>1, FirstProperties DEF First
<1> HIDE DEF part
<1>3. /\ Len(Logged(part)) = k /\ \A i \in 1..k : Logged(part)[i] = rows[i].event
      /\ Len(Logged(rows)) = Len(rows)
      /\ \A i \in 1..Len(rows) : Logged(rows)[i] = rows[i].event
  BY <1>1, <1>2, LoggedProperties
<1>4. DistinctIds(Logged(part))
  BY <1>1, <1>3 DEF Linked, DistinctIds
<1>5. ASSUME NEW i \in 1..k
      PROVE  /\ part[i].sequence = i
             /\ part[i].previous_digest
                  = IF i = 1 THEN NoDigest ELSE part[i - 1].integrity_digest
             /\ part[i].integrity_digest = Digest(part[i]) \/ part[i].event.body \in odd
  <2>1. i = 1 \/ i - 1 \in 1..k
    BY <1>1
  <2> QED
    BY <1>1, <1>2, <2>1 DEF Linked
<1> QED
  BY <1>2, <1>4, <1>5 DEF Linked, part

(* What a row is in the table: another body at most, which JSONB gives back for
   another. *)
LEMMA AsStoredProperties ==
  ASSUME NEW row \in Row, duckdb \in BOOLEAN
  PROVE  LET stored == AsStored(row)
         IN /\ stored \in Row
            /\ stored.sequence = row.sequence
            /\ stored.previous_digest = row.previous_digest
            /\ stored.integrity_digest = row.integrity_digest
            /\ stored.event.event_id = row.event.event_id
            /\ \/ stored = row
               \/ stored.event.body \in Odd
<1>1. CASE duckdb
  BY <1>1 DEF AsStored
<1>2. CASE ~duckdb
  <2> DEFINE e == row.event
             b == e.body
             f == [e EXCEPT !.body = Jsonb[b]]
             stored == [row EXCEPT !.event = f]
  <2>1. e \in Event /\ b \in Bodies /\ Jsonb[b] \in Bodies
    BY JsonbAssumption DEF Row, Event
  <2>2. /\ f \in Event /\ f.event_id = e.event_id /\ f.body = Jsonb[b]
        /\ Jsonb[b] = b => f = e
    BY <2>1 DEF Event
  <2>3. AsStored(row) = stored
    BY <1>2 DEF AsStored
  <2>4. Jsonb[b] \in Plain => Jsonb[b] = b
    BY <2>1 DEF Plain
  <2>5. Odd = Bodies \ Plain
    BY <1>2 DEF Odd
  <2>0. row = [event |-> e, sequence |-> row.sequence,
               previous_digest |-> row.previous_digest,
               integrity_digest |-> row.integrity_digest]
        /\ row.sequence \in Nat
        /\ row.previous_digest \in Digests /\ row.integrity_digest \in Digests
    BY DEF Row
  <2> HIDE DEF f
  <2>6. /\ stored \in Row
        /\ stored.sequence = row.sequence
        /\ stored.previous_digest = row.previous_digest
        /\ stored.integrity_digest = row.integrity_digest
        /\ stored.event = f
        /\ f = e => stored = row
    BY <2>0, <2>2 DEF Row
  <2>7. stored.event.event_id = row.event.event_id
    BY <2>2, <2>6
  <2> HIDE DEF stored, b, e
  <2>8. stored = row \/ stored.event.body \in Odd
    <3>1. CASE Jsonb[b] = b
      BY <2>2, <2>6, <3>1
    <3>2. CASE Jsonb[b] # b
      BY <2>1, <2>2, <2>4, <2>5, <2>6, <3>2
    <3> QED
      BY <3>1, <3>2
  <2> QED
    BY <2>3, <2>6, <2>7, <2>8
<1> QED
  BY <1>1, <1>2

LEMMA WrittenLinked ==
  ASSUME duckdb \in BOOLEAN, NEW rows, Linked(rows, Odd)
  PROVE  /\ Linked(Written(rows), Odd)
         /\ Len(Written(rows)) = Len(rows)
         /\ \A i \in 1..Len(rows) : Written(rows)[i] = AsStored(rows[i])
         /\ Ids(Written(rows)) = Ids(rows)
<1> DEFINE w == Written(rows)
           odd == Odd
<1>1. /\ rows \in Seq(Row) /\ Len(rows) \in Nat
      /\ \A i \in 1..Len(rows) : rows[i] \in Row
  BY LenProperties, ElementOfSeq DEF Linked
<1>2. ASSUME NEW i \in 1..Len(rows)
      PROVE  /\ w[i] = AsStored(rows[i])
             /\ w[i] \in Row
             /\ w[i].sequence = rows[i].sequence
             /\ w[i].previous_digest = rows[i].previous_digest
             /\ w[i].integrity_digest = rows[i].integrity_digest
             /\ w[i].event.event_id = rows[i].event.event_id
             /\ w[i] = rows[i] \/ w[i].event.body \in odd
  <2>1. w[i] = AsStored(rows[i]) /\ rows[i] \in Row
    BY <1>1 DEF Written
  <2> HIDE DEF w
  <2> QED
    BY <2>1, AsStoredProperties
<1>3. w \in Seq(Row) /\ Len(w) = Len(rows)
  BY <1>1, <1>2 DEF Written
<1> HIDE DEF w
<1>4. /\ Len(Logged(w)) = Len(rows)
      /\ \A i \in 1..Len(rows) : Logged(w)[i] = w[i].event
      /\ Len(Logged(rows)) = Len(rows)
      /\ \A i \in 1..Len(rows) : Logged(rows)[i] = rows[i].event
  BY <1>1, <1>3, LoggedProperties
<1>5. DistinctIds(Logged(w))
  BY <1>2, <1>4 DEF Linked, DistinctIds
<1> HIDE DEF odd
<1>6. Linked(rows, odd)
  BY DEF odd
<1>7. ASSUME NEW i \in 1..Len(rows)
      PROVE  /\ w[i].sequence = i
             /\ w[i].previous_digest
                  = IF i = 1 THEN NoDigest ELSE w[i - 1].integrity_digest
             /\ w[i].integrity_digest = Digest(w[i]) \/ w[i].event.body \in odd
  <2>1. i = 1 \/ i - 1 \in 1..Len(rows)
    BY <1>1
  <2>2. /\ rows[i].sequence = i
        /\ rows[i].previous_digest
             = IF i = 1 THEN NoDigest ELSE rows[i - 1].integrity_digest
        /\ rows[i].integrity_digest = Digest(rows[i]) \/ rows[i].event.body \in odd
    BY <1>6 DEF Linked
  <2> QED
    BY <1>2, <2>1, <2>2
<1>8. Linked(w, odd)
  BY <1>3, <1>5, <1>7 DEF Linked
<1>9. Ids(w) = Ids(rows)
  BY <1>2, <1>3 DEF Ids
<1> QED
  BY <1>2, <1>3, <1>8, <1>9 DEF w, odd

(* append() on linked rows: the new row is linked to the digest stored in the
   last one. *)
LEMMA AppendLinked ==
  ASSUME NEW r \in Repository, NEW odd, Linked(r.events, odd), NEW e \in Event,
         AppendOutcome(r, ObjectUid, e) = "accepted"
  PROVE  LET s == AfterAppend(r, ObjectUid, e)
         IN /\ s \in Repository
            /\ Linked(s.events, odd)
            /\ Ids(s.events) = Ids(r.events) \cup {e.event_id}
<1> DEFINE rows == r.events
           n == Len(rows)
           last == LastDigest(rows)
           row == RowOf(e, n + 1, last)
           longer == Append(rows, row)
           s == AfterAppend(r, ObjectUid, e)
<1>1. /\ rows \in Seq(Row) /\ n \in Nat /\ (rows = << >> <=> n = 0)
      /\ \A i \in 1..n : rows[i] \in Row
  BY LenProperties, ElementOfSeq, EmptySeq DEF Linked
<1>2. /\ last \in Digests
      /\ last = IF n + 1 = 1 THEN NoDigest ELSE rows[n].integrity_digest
  <2>1. NoDigest \in Digests
    BY EmptySeq DEF NoDigest, Digests
  <2>2. n # 0 => rows[n] \in Row
    BY <1>1
  <2> QED
    BY <1>1, <2>1, <2>2 DEF LastDigest, Row
<1>3. e.event_id \notin Ids(rows)
  BY DEF AppendOutcome
<1>4. s = [r EXCEPT !.events = longer]
  BY DEF AfterAppend, NewRow
<1> HIDE DEF last
<1> DEFINE m == n + 1
<1>5. m \in Nat /\ m = n + 1
  BY <1>1
<1> HIDE DEF m
<1>6. row = RowOf(e, m, last)
  BY <1>5
<1>7. /\ row \in Row /\ row.event = e /\ row.sequence = m
      /\ row.previous_digest = last
      /\ row.integrity_digest = Digest(row)
  <2>1. last \in Seq(Event \X Nat) /\ <<e, m>> \in Event \X Nat
    BY <1>2, <1>5 DEF Digests
  <2>2. Append(last, <<e, m>>) \in Digests
    BY <2>1, AppendProperties DEF Digests
  <2>3. last \in Digests
    BY <1>2
  <2> HIDE DEF row
  <2> QED
    BY <1>5, <1>6, <2>2, <2>3 DEF RowOf, Row, Digest
<1> HIDE DEF row
<1>8. /\ row \in Row /\ row.event = e /\ row.sequence = n + 1
      /\ row.previous_digest = last
      /\ row.integrity_digest = Digest(row)
  BY <1>5, <1>6, <1>7
<1>9. /\ longer \in Seq(Row) /\ Len(longer) = n + 1
      /\ \A i \in 1..n : longer[i] = rows[i]
      /\ longer[n + 1] = row
  BY <1>1, <1>8, AppendProperties
<1> HIDE DEF longer, s
<1>10. s \in Repository /\ s.events = longer
  BY <1>4, <1>9, SetEvents
<1>11. Linked(rows, odd)
  OBVIOUS
<1> HIDE DEF s, longer, rows, n
<1>12. \A i \in 1..(n + 1) : i \in 1..n \/ i = n + 1
  BY <1>1
<1>13. /\ Len(Logged(longer)) = n + 1
       /\ \A i \in 1..n : Logged(longer)[i] = rows[i].event
       /\ Logged(longer)[n + 1] = e
       /\ Len(Logged(rows)) = n
       /\ \A i \in 1..n : Logged(rows)[i] = rows[i].event
  <2>1. \A i \in 1..n : i \in 1..(n + 1)
    BY <1>1
  <2>2. n + 1 \in 1..(n + 1) /\ Len(rows) = n
    BY <1>1 DEF n
  <2> QED
    BY <1>1, <1>8, <1>9, <2>1, <2>2, LoggedProperties
<1>14. \A i \in 1..n : rows[i].event.event_id # e.event_id
  BY <1>3 DEF Ids, n
<1>15. DistinctIds(Logged(longer))
  <2> DEFINE a == Logged(longer)
             b == Logged(rows)
  <2>1. \A i, j \in 1..n : b[i].event_id = b[j].event_id => i = j
    BY <1>11, <1>13 DEF Linked, DistinctIds
  <2>2. /\ Len(a) = n + 1 /\ a[n + 1] = e
        /\ \A i \in 1..n : a[i] = b[i] /\ b[i].event_id # e.event_id
    BY <1>13, <1>14
  <2> HIDE DEF a, b
  <2>3. \A i, j \in 1..(n + 1) : a[i].event_id = a[j].event_id => i = j
    BY <1>12, <2>1, <2>2
  <2> QED
    BY <2>2, <2>3 DEF DistinctIds, a
<1>16. ASSUME NEW i \in 1..(n + 1)
       PROVE  /\ longer[i].sequence = i
              /\ longer[i].previous_digest
                   = IF i = 1 THEN NoDigest ELSE longer[i - 1].integrity_digest
              /\ \/ longer[i].integrity_digest = Digest(longer[i])
                 \/ longer[i].event.body \in odd
  <2>1. CASE i \in 1..n
    <3>1. i = 1 \/ i - 1 \in 1..n
      BY <1>1, <2>1
    <3>2. /\ rows[i].sequence = i
          /\ rows[i].previous_digest
               = IF i = 1 THEN NoDigest ELSE rows[i - 1].integrity_digest
          /\ rows[i].integrity_digest = Digest(rows[i]) \/ rows[i].event.body \in odd
      BY <1>11, <2>1 DEF Linked, n
    <3> QED
      BY <1>9, <2>1, <3>1, <3>2
  <2>2. CASE i = n + 1
    <3>1. i # 1 => n \in 1..n /\ i - 1 = n
      BY <1>1, <2>2
    <3> QED
      BY <1>2, <1>8, <1>9, <2>2, <3>1
  <2> QED
    BY <1>12, <2>1, <2>2
<1>17. Linked(longer, odd)
  BY <1>9, <1>15, <1>16 DEF Linked
<1>18. Ids(longer) = Ids(rows) \cup {e.event_id}
  <2>1. \A i \in 1..n : i \in 1..(n + 1)
    BY <1>1
  <2>2. n + 1 \in 1..(n + 1)
    BY <1>1
  <2>3. /\ Ids(longer) = {longer[i].event.event_id : i \in 1..(n + 1)}
        /\ Ids(rows) = {rows[i].event.event_id : i \in 1..n}
    BY <1>9 DEF Ids, n
  <2>4. \A i \in 1..n : longer[i].event.event_id = rows[i].event.event_id
    BY <1>9
  <2>5. longer[n + 1].event.event_id = e.event_id
    BY <1>8, <1>9
  <2> QED
    BY <1>12, <2>1, <2>2, <2>3, <2>4, <2>5
<1> QED
  BY <1>10, <1>17, <1>18 DEF s, rows

-----------------------------------------------------------------------------
(* The inductive invariant.  While a save runs, the rows its statements see   *)
(* are the first rows of the instance, as many as it has inserted.           *)

Instance == mem \in Repository /\ Linked(mem.events, Odd)

InSave ==
  /\ mem # None /\ unsaved
  /\ saving \in Saving /\ saving.inserted <= Len(mem.events)
  /\ saving.deleted => Visible = First(Written(mem.events), saving.inserted)
  /\ ~saving.deleted => saving.inserted = 0
  /\ saving.answer = "present" => saving.ids \subseteq Ids(mem.events)
  /\ saving.answer = "absent" => saving.ids \cap Ids(mem.events) = {}

SInv ==
  /\ duckdb \in BOOLEAN /\ failed \in BOOLEAN
  /\ unsaved \in BOOLEAN /\ cut \in BOOLEAN
  /\ Linked(table, Odd)
  /\ mem # None => Instance
  /\ work # None => ~duckdb /\ mem # None
  /\ saving # None => InSave

(* What callers were told, against the rows of the instance. *)
KInv ==
  /\ AnsweredIsKept
  /\ PostgresKeepsDeletions
  /\ mem # None /\ ~(duckdb /\ cut) =>
       \A e \in EventIds : told[e] = "present" => e \in Ids(mem.events)
  /\ mem # None /\ ~duckdb =>
       \A e \in EventIds : told[e] = "absent" => e \notin Ids(mem.events)

(* What is said of a state depends on the class only, as far as it does not
   change. *)
LEMMA SameClass ==
  ASSUME UNCHANGED duckdb
  PROVE  Odd' = Odd
BY DEF Odd

LEMMA SameInstance ==
  ASSUME UNCHANGED <<duckdb, mem>>
  PROVE  Written(mem.events)' = Written(mem.events) /\ Instance' = Instance
BY SameClass DEF Written, AsStored, Instance

(* The methods that save nothing. *)
LEMMA QuietStep ==
  ASSUME SInv, mem # None, saving = None,
         NEW s \in Repository, s.events = mem.events, Only(s)
  PROVE  SInv'
<1>1. mem' = s /\ UNCHANGED <<duckdb, table, work, failed, saving, unsaved, cut>>
  BY DEF Only
<1>2. Linked(s.events, Odd)
  BY DEF SInv, Instance
<1> QED
  BY <1>1, <1>2, SameClass, AbsenceAssumption DEF SInv, Instance

(* The instance has changed and its save begins. *)
LEMMA BeginStep ==
  ASSUME SInv, saving = None,
         NEW s \in Repository, Linked(s.events, Odd), mem' = s,
         NEW ids \in SUBSET EventIds, NEW answer \in {"present", "absent"},
         answer = "present" => ids \subseteq Ids(s.events),
         answer = "absent" => ids \cap Ids(s.events) = {},
         BeginSave(ids, answer),
         UNCHANGED <<duckdb, table, work, failed, cut>>
  PROVE  SInv'
<1> DEFINE save == [ids |-> ids, answer |-> answer, deleted |-> FALSE, inserted |-> 0]
<1>1. s # None /\ Len(s.events) \in Nat
  BY AbsenceAssumption, LenProperties DEF Repository
<1>2. /\ save \in Saving /\ save.inserted <= Len(s.events)
      /\ save.ids = ids /\ save.answer = answer
      /\ save.deleted = FALSE /\ save.inserted = 0
  BY <1>1 DEF Saving
<1>3. saving' = save /\ unsaved' = TRUE
  BY DEF BeginSave
<1> HIDE DEF save
<1>4. InSave'
  BY <1>1, <1>2, <1>3 DEF InSave
<1>5. Instance'
  BY SameClass DEF Instance
<1> QED
  BY <1>1, <1>3, <1>4, <1>5, SameClass DEF SInv

(* A statement runs: the rows it leaves are those of the instance that have
   been inserted so far. *)
LEMMA StatementStep ==
  ASSUME SInv, saving # None, NEW k \in 0..Len(mem.events),
         Executed(First(Written(mem.events), k)),
         NEW save, saving' = save,
         save \in Saving,
         save.ids = saving.ids, save.answer = saving.answer,
         save.deleted = TRUE, save.inserted = k,
         UNCHANGED <<duckdb, failed, mem, told, unsaved, cut>>
  PROVE  SInv'
<1> DEFINE rows == First(Written(mem.events), k)
<1>1. InSave /\ mem # None /\ Instance
  BY DEF SInv, InSave
<1>2. Linked(rows, Odd) /\ rows # None
  <2>1. duckdb \in BOOLEAN /\ Linked(mem.events, Odd)
    BY <1>1 DEF SInv, Instance
  <2>2. Linked(Written(mem.events), Odd) /\ Len(Written(mem.events)) = Len(mem.events)
    BY <2>1, WrittenLinked
  <2>3. Linked(rows, Odd)
    BY <2>2, FirstLinked
  <2> QED
    BY <2>3, AbsenceAssumption DEF Linked
<1>3. IF duckdb THEN table' = rows /\ work' = work
                ELSE work' = rows /\ table' = table
  BY DEF Executed
<1>4. rows' = First(Written(mem.events)', k)
  BY DEF First
<1>5. Written(mem.events)' = Written(mem.events) /\ Instance' = Instance /\ Odd' = Odd
  BY SameInstance, SameClass
<1>6. First(Written(mem.events), k)' = rows
  BY <1>5 DEF First
<1> HIDE DEF rows
<1>7. saving' # None
  BY AbsenceAssumption
<1>8. /\ Linked(table', Odd)
      /\ work' # None => ~duckdb'
      /\ Visible' = rows
  <2>1. CASE duckdb
    BY <1>2, <1>3, <2>1 DEF SInv, Visible
  <2>2. CASE ~duckdb
    BY <1>2, <1>3, <2>2 DEF SInv, Visible
  <2> QED
    BY <2>1, <2>2
<1>9. InSave'
  <2>1. saving'.deleted => Visible' = First(Written(mem.events)', saving'.inserted)
    BY <1>5, <1>8 DEF rows
  <2> QED
    BY <1>1, <2>1 DEF InSave
<1> QED
  BY <1>1, <1>5, <1>7, <1>8, <1>9 DEF SInv

LEMMA InitSaved == Init => SInv /\ KInv
<1> SUFFICES ASSUME Init PROVE SInv /\ KInv
  OBVIOUS
<1>1. Linked(table, Odd)
  BY EmptyLinked DEF Init
<1>2. SInv
  BY <1>1 DEF Init, SInv
<1>3. Ids(table) = {}
  <2>1. Len(<< >>) = 0
    BY EmptySeq
  <2> QED
    BY <2>1 DEF Init, Ids
<1>4. KInv
  BY <1>3 DEF Init, KInv, AnsweredIsKept, PostgresKeepsDeletions
<1> QED
  BY <1>2, <1>4

(* The instance, and what PostgreSQL or DuckDB makes of its rows. *)
LEMMA InstanceRows ==
  ASSUME SInv, mem # None
  PROVE  /\ mem \in Repository /\ mem.events \in Seq(Row)
         /\ Len(mem.events) \in Nat
         /\ Linked(mem.events, Odd)
         /\ Linked(Written(mem.events), Odd)
         /\ Written(mem.events) \in Seq(Row)
         /\ Len(Written(mem.events)) = Len(mem.events)
         /\ \A i \in 1..Len(mem.events) :
              Written(mem.events)[i] = AsStored(mem.events[i])
         /\ Ids(Written(mem.events)) = Ids(mem.events)
<1>1. duckdb \in BOOLEAN /\ mem \in Repository /\ Linked(mem.events, Odd)
  BY DEF SInv, Instance
<1>2. mem.events \in Seq(Row) /\ Len(mem.events) \in Nat
  BY <1>1, LenProperties DEF Linked
<1>3. /\ Linked(Written(mem.events), Odd)
      /\ Len(Written(mem.events)) = Len(mem.events)
      /\ \A i \in 1..Len(mem.events) :
           Written(mem.events)[i] = AsStored(mem.events[i])
      /\ Ids(Written(mem.events)) = Ids(mem.events)
  BY <1>1, WrittenLinked
<1>4. Written(mem.events) \in Seq(Row)
  BY <1>3 DEF Linked
<1> QED
  BY <1>1, <1>2, <1>3, <1>4

(* What the statements of a save leave in the table. *)
LEMMA SavedRows ==
  ASSUME SInv, AllInserted
  PROVE  mem # None /\ Visible = Written(mem.events)
<1>1. InSave /\ mem # None
  BY DEF SInv, InSave, AllInserted
<1>2. Visible = First(Written(mem.events), Len(Written(mem.events)))
  BY <1>1, InstanceRows DEF InSave, AllInserted
<1> QED
  BY <1>1, <1>2, InstanceRows, FirstProperties

LEMMA DeleteRowsStep == ASSUME SInv, DeleteRows PROVE SInv'
<1>1. /\ saving # None /\ Executed(<< >>)
      /\ saving' = [saving EXCEPT !.deleted = TRUE]
      /\ UNCHANGED <<duckdb, failed, mem, told, unsaved, cut>>
      /\ InSave /\ mem # None /\ ~saving.deleted
  BY DEF DeleteRows, SInv, InSave
<1>2. 0 \in 0..Len(mem.events) /\ First(Written(mem.events), 0) = << >>
  BY <1>1, InstanceRows, FirstProperties
<1> DEFINE save == [saving EXCEPT !.deleted = TRUE]
<1>3. /\ save \in Saving /\ save.ids = saving.ids /\ save.answer = saving.answer
      /\ save.deleted = TRUE /\ save.inserted = 0
  BY <1>1 DEF InSave, Saving
<1> HIDE DEF save
<1>4. saving' = save
  BY <1>1 DEF save
<1> QED
  BY <1>1, <1>2, <1>3, <1>4, StatementStep

LEMMA InsertRowStep == ASSUME SInv, InsertRow PROVE SInv'
<1> DEFINE n == saving.inserted
           save == [saving EXCEPT !.inserted = @ + 1]
           w == Written(mem.events)
<1>1. /\ saving # None /\ Executed(Append(Visible, AsStored(mem.events[n + 1])))
      /\ saving' = save
      /\ UNCHANGED <<duckdb, failed, mem, told, unsaved, cut>>
      /\ InSave /\ mem # None
      /\ saving.deleted /\ n < Len(mem.events)
  BY DEF InsertRow, Inserting, NextToInsert, SInv, InSave
<1>2. /\ n \in Nat /\ Len(mem.events) \in Nat
      /\ w \in Seq(Row) /\ Len(w) = Len(mem.events)
      /\ \A i \in 1..Len(mem.events) : w[i] = AsStored(mem.events[i])
  BY <1>1, InstanceRows DEF InSave, Saving
<1>3. /\ n \in 0..(Len(w) - 1) /\ n + 1 \in 0..Len(mem.events)
      /\ n + 1 \in 1..Len(mem.events)
  BY <1>1, <1>2
<1>4. Visible = First(w, n) /\ AsStored(mem.events[n + 1]) = w[n + 1]
  BY <1>1, <1>2, <1>3 DEF InSave
<1> HIDE DEF w, n, save
<1>5. Append(First(w, n), w[n + 1]) = First(w, n + 1)
  BY <1>2, <1>3, FirstProperties
<1>6. Executed(First(Written(mem.events), n + 1))
  BY <1>1, <1>4, <1>5 DEF w
<1> USE DEF save, n
<1>7. /\ save \in Saving /\ save.ids = saving.ids /\ save.answer = saving.answer
      /\ save.deleted = TRUE /\ save.inserted = n + 1
  BY <1>1, <1>2 DEF InSave, Saving
<1> HIDE DEF save, n
<1> QED
  BY <1>1, <1>3, <1>7, <1>6, StatementStep

LEMMA StepSaved == SInv /\ [Next]_vars => SInv'
<1> SUFFICES ASSUME SInv, [Next]_vars PROVE SInv'
  OBVIOUS
<1>0. Odd' = Odd
  BY SameClass DEF Next, Open, Close, AppendEvent, DeletePreview, Only,
     SetPolicy, CreatePreview, CreateHold, ReleaseHold,
     DeleteRows, InsertRow, Return, Fail, vars
<1>1. CASE Open
  <2> DEFINE r == [EmptyRepository EXCEPT !.events = table]
  <2>1. r \in Repository /\ r.events = table
    BY LoadedRows DEF SInv, Linked
  <2>2. saving = None /\ work = None /\ mem' = r
        /\ UNCHANGED <<duckdb, table, work, failed, saving, unsaved, cut>>
    BY <1>1 DEF Open, SInv, InSave
  <2> HIDE DEF r
  <2>3. Instance'
    BY <1>0, <2>1, <2>2 DEF SInv, Instance
  <2> QED
    BY <1>0, <2>2, <2>3 DEF SInv
<1>2. CASE Close
  BY <1>0, <1>2 DEF Close, SInv
<1>3. ASSUME NEW e \in Offered, AppendEvent(e) PROVE SInv'
  <2> DEFINE s == AfterAppend(mem, ObjectUid, e)
  <2>1. /\ mem # None /\ saving = None /\ mem' = s
        /\ AppendOutcome(mem, ObjectUid, e) = "accepted"
        /\ BeginSave({e.event_id}, "present")
        /\ UNCHANGED <<duckdb, table, work, failed, cut>>
    BY <1>3 DEF AppendEvent, Called
  <2>2. mem \in Repository /\ Linked(mem.events, Odd) /\ e \in Event
    BY <2>1, OfferedAssumption DEF SInv, Instance
  <2>3. s \in Repository /\ Linked(s.events, Odd)
        /\ Ids(s.events) = Ids(mem.events) \cup {e.event_id}
    BY <2>1, <2>2, AppendLinked
  <2>4. {e.event_id} \in SUBSET EventIds
    BY <2>2 DEF Event
  <2> HIDE DEF s
  <2> QED
    BY <2>1, <2>3, <2>4, BeginStep
<1>4. ASSUME NEW id \in PreviewIds, NEW actor \in Actors, NEW blank \in BOOLEAN,
             DeletePreview(id, actor, blank)
      PROVE  SInv'
  <2> DEFINE s == AfterDelete(mem, id, actor, blank, Now)
             ids == mem.previews[id].event_ids
  <2>1. /\ mem # None /\ saving = None /\ mem' = s
        /\ DeleteOutcome(mem, id, actor, blank, Now) = "deleted"
        /\ UNCHANGED <<duckdb, table, work, failed, cut>>
        /\ duckdb => UNCHANGED <<saving, unsaved>>
        /\ ~duckdb => BeginSave(ids, "absent")
    BY <1>4 DEF DeletePreview, Called
  <2>2. mem \in Repository /\ DistinctIds(Logged(mem.events))
    BY <2>1 DEF SInv, Instance, Linked
  <2>3. WellFormed(s) /\ DeletedBy(mem, s, id)
    BY <2>1, <2>2, DeleteSeals
  <2>4. s \in Repository /\ Linked(s.events, Odd)
    BY <2>3, SealedLinked DEF WellFormed
  <2>5. Ids(s.events) = Ids(mem.events) \ ids
    BY <2>2, <2>3, <2>4, DeletedIdsOf
  <2>6. ids \in SUBSET EventIds
    <3>1. mem.previews[id] # None /\ mem.previews \in [PreviewIds -> Preview \cup {None}]
      BY <2>2, <2>3 DEF DeletedBy, Repository
    <3>2. mem.previews[id] \in Preview
      BY <3>1
    <3> QED
      BY <3>2 DEF Preview
  <2> HIDE DEF s, ids
  <2>7. CASE duckdb
    <3>1. Instance' /\ mem' # None
      BY <1>0, <2>1, <2>4, AbsenceAssumption DEF Instance
    <3> QED
      BY <1>0, <2>1, <2>7, <3>1 DEF SInv
  <2>8. CASE ~duckdb
    BY <2>1, <2>4, <2>5, <2>6, <2>8, BeginStep
  <2> QED
    BY <2>7, <2>8
<1>5. ASSUME NEW policy \in Policies, NEW actor \in Actors, SetPolicy(policy, actor)
      PROVE  SInv'
  BY <1>5, SetPolicyTyped, QuietStep DEF SetPolicy, Called, SInv, Instance
<1>6. ASSUME NEW id \in PreviewIds, NEW actor \in Actors, CreatePreview(id, actor)
      PROVE  SInv'
  BY <1>6, CreatePreviewTyped, QuietStep DEF CreatePreview, Called, SInv, Instance, Now
<1>7. ASSUME NEW hold_id \in HoldIds, NEW event_id \in HoldTargets,
             NEW actor \in Actors, CreateHold(hold_id, event_id, actor)
      PROVE  SInv'
  BY <1>7, CreateHoldTyped, QuietStep DEF CreateHold, Called, SInv, Instance
<1>8. ASSUME NEW hold_id \in HoldIds, NEW actor \in Actors,
             ReleaseHold(hold_id, actor)
      PROVE  SInv'
  BY <1>8, ReleaseHoldTyped, QuietStep DEF ReleaseHold, Called, SInv, Instance
<1>9. CASE Return
  <2>1. mem # None /\ table' = Written(mem.events) /\ work' = None
        /\ saving' = None
        /\ unsaved' = FALSE
        /\ UNCHANGED <<duckdb, failed, mem, cut>>
    BY <1>9, SavedRows DEF Return, Committed
  <2>2. Linked(table', Odd) /\ Instance' = Instance
    BY <2>1, InstanceRows, SameInstance
  <2> QED
    BY <1>0, <2>1, <2>2 DEF SInv
<1>10. CASE Fail
  <2>1. /\ saving' = None /\ failed' \in BOOLEAN
        /\ table' = table \/ table' = Written(mem.events)
        /\ work' = work \/ work' = None
        /\ mem # None
        /\ UNCHANGED <<duckdb, mem, unsaved, cut>>
    BY <1>10, SavedRows DEF Fail, NotSent, Aborted, NotCommittable, SInv, InSave
  <2>2. Linked(table', Odd) /\ Instance' = Instance
    BY <2>1, InstanceRows, SameInstance DEF SInv
  <2> QED
    BY <1>0, <2>1, <2>2 DEF SInv
<1>11. CASE UNCHANGED vars
  <2>1. /\ UNCHANGED <<duckdb, table, work, failed, mem, saving, unsaved, cut>>
        /\ Written(mem.events)' = Written(mem.events) /\ Instance' = Instance
    BY <1>11, SameInstance DEF vars
  <2>2. InSave' = InSave
    BY <2>1 DEF InSave, Visible, First
  <2> QED
    BY <1>0, <2>1, <2>2 DEF SInv
<1> QED
  BY <1>1, <1>2, <1>3, <1>4, <1>5, <1>6, <1>7, <1>8, <1>9, <1>10, <1>11,
     DeleteRowsStep, InsertRowStep DEF Next

THEOREM SavedAlways == Spec => []SInv
BY InitSaved, StepSaved, PTL DEF Spec

(* Wherever an error or a crash cuts the statements of a save short, the rows
   left in the table are numbered and one per event, and verify() reports the
   first of them, if any, that JSONB has given another body. *)
THEOREM LeftoverAlwaysVerifies == Spec => []LeftoverVerifies
<1>1. SInv => LeftoverVerifies
  <2> SUFFICES ASSUME SInv PROVE LeftoverVerifies
    OBVIOUS
  <2>1. /\ table \in Seq(Row) /\ Len(table) \in Nat
        /\ Len(Logged(table)) = Len(table)
        /\ \A i \in 1..Len(table) : Logged(table)[i] = table[i].event
        /\ DistinctIds(Logged(table))
    BY LoggedProperties, LenProperties DEF SInv, Linked
  <2>2. \A i \in 1..Len(table) :
          /\ table[i].sequence = i
          /\ table[i].previous_digest
               = IF i = 1 THEN NoDigest ELSE table[i - 1].integrity_digest
          /\ table[i].integrity_digest = Digest(table[i])
             \/ table[i].event.body \in Odd
    BY DEF SInv, Linked
  <2>3. \A i, j \in 1..Len(table) :
          table[i].event.event_id = table[j].event.event_id => i = j
    BY <2>1 DEF DistinctIds
  <2>4. ASSUME NEW i \in 1..Len(table), FirstMismatch(table, i)
        PROVE  ~duckdb /\ table[i].event.body \notin Plain
    <3>1. i # 1 => i - 1 \in 1..Len(table) /\ i - 1 \in 1..(i - 1)
      BY <2>1
    <3>2. i # 1 => table[i - 1].integrity_digest = Digest(table[i - 1])
      BY <2>4, <3>1 DEF FirstMismatch, MismatchAt
    <3>3. table[i].integrity_digest # Digest(table[i])
      BY <2>2, <2>4, <3>1, <3>2 DEF FirstMismatch, MismatchAt
    <3>4. table[i].event.body \in Odd
      BY <2>2, <3>3
    <3> QED
      BY <3>4 DEF Odd
  <2> QED
    BY <2>2, <2>3, <2>4 DEF LeftoverVerifies
<1> QED
  BY <1>1, SavedAlways, PTL

(* A call that returns after its save leaves the rows of the instance in the
   table, as the table keeps them, all of them and no others. *)
THEOREM AnswerAlwaysMeansWholeList == Spec => AnswerMeansWholeList
<1>1. SInv /\ [Next]_vars
        => [(unsaved /\ ~unsaved' /\ mem' # None)
              => table' = Written(mem'.events)]_vars
  <2> SUFFICES ASSUME SInv, Next, unsaved, ~unsaved', mem' # None
               PROVE  table' = Written(mem'.events)
    OBVIOUS
  <2>1. Return
    BY DEF Next, Open, Close, AppendEvent, DeletePreview, BeginSave, Only,
           SetPolicy, CreatePreview, CreateHold, ReleaseHold,
           DeleteRows, InsertRow, Fail
  <2> QED
    BY <2>1, SavedRows DEF Return, Committed
<1> QED
  BY <1>1, SavedAlways, PTL DEF Spec, AnswerMeansWholeList

-----------------------------------------------------------------------------
(* What callers were told.                                                  *)

LEMMA ToldOf ==
  ASSUME NEW ids, NEW answer, told' = TellAll(ids, answer), NEW x \in EventIds
  PROVE  told'[x] = IF x \in ids THEN answer ELSE told[x]
BY DEF TellAll

LEMMA QuietKnown ==
  ASSUME KInv, mem # None, NEW s \in Repository, s.events = mem.events, Only(s)
  PROVE  KInv'
<1>1. s # None
  BY AbsenceAssumption
<1>2. /\ mem' # None /\ mem'.events = mem.events
      /\ UNCHANGED <<duckdb, table, told, unsaved, cut>>
  BY <1>1 DEF Only
<1> QED
  BY <1>2 DEF KInv, AnsweredIsKept, PostgresKeepsDeletions

(* The instance changes in the events the call is about, of which nothing is
   known until the call returns, or which DuckDB reports deleted at once. *)
LEMMA ChangeKnown ==
  ASSUME KInv, mem # None, NEW s, s # None, mem' = s,
         NEW ids, NEW answer \in {"unknown", "absent"},
         answer = "absent" => duckdb,
         \A x \in EventIds \ ids : x \in Ids(s.events) <=> x \in Ids(mem.events),
         told' = TellAll(ids, answer), unsaved => unsaved',
         UNCHANGED <<duckdb, table, cut>>
  PROVE  KInv'
<1>1. \A x \in EventIds : told'[x] = IF x \in ids THEN answer ELSE told[x]
  BY ToldOf
<1>2. \A x \in EventIds :
        /\ told'[x] = "present" => x \notin ids /\ told[x] = "present"
        /\ told'[x] = "absent" /\ ~duckdb => x \notin ids /\ told[x] = "absent"
  BY <1>1
<1> QED
  BY <1>2 DEF KInv, AnsweredIsKept, PostgresKeepsDeletions

(* A statement that DuckDB commits by itself. *)
LEMMA StatementKnown ==
  ASSUME SInv, KInv, saving # None, NEW rows, Executed(rows),
         UNCHANGED <<duckdb, mem, told, unsaved, cut>>
  PROVE  KInv'
<1>1. mem # None /\ unsaved
  BY DEF SInv, InSave
<1>2. CASE duckdb
  BY <1>1, <1>2 DEF KInv, AnsweredIsKept, PostgresKeepsDeletions
<1>3. CASE ~duckdb
  BY <1>3 DEF Executed, KInv, AnsweredIsKept, PostgresKeepsDeletions
<1> QED
  BY <1>2, <1>3

LEMMA ReturnKnown == ASSUME SInv, KInv, Return PROVE KInv'
<1>1. /\ mem # None /\ table' = Written(mem.events)
      /\ Ids(Written(mem.events)) = Ids(mem.events)
      /\ told' = TellAll(saving.ids, saving.answer)
      /\ UNCHANGED <<duckdb, mem, cut>>
  BY SavedRows, InstanceRows DEF Return, Committed
<1>2. \A x \in EventIds :
        told'[x] = IF x \in saving.ids THEN saving.answer ELSE told[x]
  BY <1>1, ToldOf
<1>3. /\ saving.answer = "present" => saving.ids \subseteq Ids(mem.events)
      /\ saving.answer = "absent" => saving.ids \cap Ids(mem.events) = {}
  BY DEF SInv, InSave, Return, AllInserted
<1>4. ASSUME NEW x \in EventIds, told'[x] = "present", ~(duckdb /\ cut)
      PROVE  x \in Ids(mem.events)
  BY <1>1, <1>2, <1>3, <1>4 DEF KInv
<1>5. ASSUME NEW x \in EventIds, told'[x] = "absent", ~duckdb
      PROVE  x \notin Ids(mem.events)
  BY <1>1, <1>2, <1>3, <1>5 DEF KInv
<1> QED
  BY <1>1, <1>4, <1>5 DEF KInv, AnsweredIsKept, PostgresKeepsDeletions

LEMMA StepKnown == ASSUME SInv, KInv, [Next]_vars PROVE KInv'
<1>1. CASE Open
  <2>1. mem'.events = table
    BY <1>1, LoadedRows DEF Open, SInv, Linked
  <2>2. UNCHANGED <<duckdb, table, told, unsaved, cut>> /\ mem = None
    BY <1>1 DEF Open
  <2> QED
    BY <2>1, <2>2 DEF KInv, AnsweredIsKept, PostgresKeepsDeletions
<1>2. CASE Close
  BY <1>2 DEF Close, KInv, AnsweredIsKept, PostgresKeepsDeletions
<1>3. ASSUME NEW e \in Offered, AppendEvent(e) PROVE KInv'
  <2> DEFINE s == AfterAppend(mem, ObjectUid, e)
  <2>1. /\ mem # None /\ mem' = s
        /\ AppendOutcome(mem, ObjectUid, e) = "accepted"
        /\ told' = TellAll({e.event_id}, "unknown") /\ unsaved' = TRUE
        /\ UNCHANGED <<duckdb, table, cut>>
    BY <1>3 DEF AppendEvent, BeginSave, Called
  <2>2. s \in Repository /\ Ids(s.events) = Ids(mem.events) \cup {e.event_id}
    BY <2>1, AppendLinked, OfferedAssumption DEF SInv, Instance
  <2>3. s # None
    BY <2>2, AbsenceAssumption
  <2> HIDE DEF s
  <2>4. \A x \in EventIds \ {e.event_id} :
          x \in Ids(s.events) <=> x \in Ids(mem.events)
    BY <2>2
  <2> QED
    BY <2>1, <2>3, <2>4, ChangeKnown
<1>4. ASSUME NEW id \in PreviewIds, NEW actor \in Actors, NEW blank \in BOOLEAN,
             DeletePreview(id, actor, blank)
      PROVE  KInv'
  <2> DEFINE s == AfterDelete(mem, id, actor, blank, Now)
             ids == mem.previews[id].event_ids
  <2>1. /\ mem # None /\ mem' = s
        /\ DeleteOutcome(mem, id, actor, blank, Now) = "deleted"
        /\ UNCHANGED <<duckdb, table, cut>>
        /\ duckdb => told' = TellAll(ids, "absent") /\ UNCHANGED unsaved
        /\ ~duckdb => told' = TellAll(ids, "unknown") /\ unsaved' = TRUE
    BY <1>4 DEF DeletePreview, BeginSave, Called
  <2>2. mem \in Repository /\ DistinctIds(Logged(mem.events))
    BY <2>1 DEF SInv, Instance, Linked
  <2>3. s \in Repository /\ DeletedBy(mem, s, id)
    BY <2>1, <2>2, DeleteSeals
  <2>4. Ids(s.events) = Ids(mem.events) \ ids /\ s # None
    BY <2>2, <2>3, DeletedIdsOf, AbsenceAssumption
  <2> HIDE DEF s, ids
  <2>5. \A x \in EventIds \ ids : x \in Ids(s.events) <=> x \in Ids(mem.events)
    BY <2>4
  <2>6. CASE duckdb
    BY <2>1, <2>4, <2>5, <2>6, ChangeKnown
  <2>7. CASE ~duckdb
    BY <2>1, <2>4, <2>5, <2>7, ChangeKnown
  <2> QED
    BY <2>6, <2>7
<1>5. ASSUME NEW policy \in Policies, NEW actor \in Actors, SetPolicy(policy, actor)
      PROVE  KInv'
  BY <1>5, SetPolicyTyped, QuietKnown DEF SetPolicy, Called, SInv, Instance
<1>6. ASSUME NEW id \in PreviewIds, NEW actor \in Actors, CreatePreview(id, actor)
      PROVE  KInv'
  BY <1>6, CreatePreviewTyped, QuietKnown DEF CreatePreview, Called, SInv, Instance, Now
<1>7. ASSUME NEW hold_id \in HoldIds, NEW event_id \in HoldTargets,
             NEW actor \in Actors, CreateHold(hold_id, event_id, actor)
      PROVE  KInv'
  BY <1>7, CreateHoldTyped, QuietKnown DEF CreateHold, Called, SInv, Instance
<1>8. ASSUME NEW hold_id \in HoldIds, NEW actor \in Actors,
             ReleaseHold(hold_id, actor)
      PROVE  KInv'
  BY <1>8, ReleaseHoldTyped, QuietKnown DEF ReleaseHold, Called, SInv, Instance
<1>9. CASE DeleteRows
  BY <1>9, StatementKnown DEF DeleteRows
<1>10. CASE InsertRow
  BY <1>10, StatementKnown DEF InsertRow, Inserting
<1>11. CASE Fail
  <2>1. /\ mem # None
        /\ table' = table \/ table' = Written(mem.events)
        /\ UNCHANGED <<duckdb, mem, told, unsaved, cut>>
    BY <1>11, SavedRows DEF Fail, NotSent, Aborted, NotCommittable, SInv, InSave
  <2>2. Ids(table') = Ids(table) \/ Ids(table') = Ids(mem.events)
    BY <2>1, InstanceRows
  <2> QED
    BY <2>1, <2>2 DEF KInv, AnsweredIsKept, PostgresKeepsDeletions
<1>12. CASE UNCHANGED vars
  BY <1>12 DEF vars, KInv, AnsweredIsKept, PostgresKeepsDeletions
<1> QED
  BY <1>1, <1>2, <1>3, <1>4, <1>5, <1>6, <1>7, <1>8, <1>9, <1>10, <1>11, <1>12,
     ReturnKnown DEF Next

THEOREM KnownAlways == Spec => []KInv
<1>1. SInv /\ KInv /\ [Next]_vars => KInv'
  BY StepKnown
<1> QED
  BY <1>1, InitSaved, SavedAlways, PTL DEF Spec

(* An append that was answered is in the table, except in DuckDB's while a
   later save replaces the rows and the instance has the event, or after an
   instance ended before such a save was completed. *)
THEOREM AnsweredAlwaysKept == Spec => []AnsweredIsKept
<1>1. KInv => AnsweredIsKept
  BY DEF KInv
<1> QED
  BY <1>1, KnownAlways, PTL

(* What PostgreSQL has answered as deleted stays out of the table, whatever
   fails later. *)
THEOREM PostgresAlwaysKeepsDeletions == Spec => []PostgresKeepsDeletions
<1>1. KInv => PostgresKeepsDeletions
  BY DEF KInv
<1> QED
  BY <1>1, KnownAlways, PTL
=============================================================================
