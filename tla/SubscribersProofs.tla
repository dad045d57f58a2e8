------------------------- MODULE SubscribersProofs -------------------------
(***************************************************************************)
(* Theorems about Subscribers, for any number of threads, any settings and    *)
(* snapshots and any limit of the baseline.  The inductive invariant says of   *)
(* every request, committed or not, that its notifications and its rows fit,   *)
(* that its rows end with its content unless it owes a notification, and what  *)
(* it may still take from the database.                                      *)
(***************************************************************************)
EXTENDS Subscribers, FiniteSetTheorems, SequenceTheorems,
        WellFoundedInduction, TLAPS

-----------------------------------------------------------------------------
(* The inductive invariant.                                                  *)

LifecycleKinds == {"created", "modified"}

InHandler(r) == r.handler \in LifecycleKinds

(* The rows that the handlers have written in a request. *)
NewRows(r) == {i \in r.first..Len(r.rows) : IsLifecycle(r.rows[i])}

(* The rows in `new' are of the types told, in their order. *)
InPlace(rows, new, told) ==
  \A i \in new : rows[i].type = told[Cardinality({j \in new : j <= i})]

(* What a request has logged is what it was told, except for the handler that
   has not logged yet. *)
LogSoFar(r) ==
  LET new == NewRows(r) IN
  /\ r.first <= Len(r.rows) + 1
  /\ Len(r.told) = Cardinality(new) + (IF InHandler(r) THEN 1 ELSE 0)
  /\ InHandler(r) => r.told[Len(r.told)] = r.handler /\ r.content # None
  /\ InPlace(r.rows, new, r.told)
  /\ r.heard = r.site + (IF r.handler = "notification" THEN 1 ELSE 0)

(* A request that owes nothing has logged its content as it is. *)
Owing(r) ==
  ~r.owed /\ ~InHandler(r) =>
    /\ LastSnapshotIs(r.rows, r.content)
    /\ "content" \in r.wrote => "rows" \in r.wrote

(* Content that nobody has touched is still that of the database; content that
   others have committed without a row is owed there. *)
InStep(r, db) ==
  /\ "content" \notin r.wrote /\ "content" \notin r.stale => r.content = db.content
  /\ "content" \in r.stale /\ "rows" \notin r.stale => db.owed

(* Rows are numbered in their order, and follow one that stood before. *)
Numbered(rows) ==
  /\ \A i, j \in DOMAIN rows : i < j => rows[i].number < rows[j].number
  /\ \A k \in DOMAIN rows : rows[k].follows < rows[k].number

Linked(rows) == Numbered(rows) /\ Connected(rows)

GoodRequest(r, db) ==
  /\ LogSoFar(r)
  /\ Owing(r)
  /\ InStep(r, db)
  /\ Linked(r.rows)

GoodDatabase(db) ==
  /\ ~db.owed => LastSnapshotIs(db.rows, db.content)
  /\ Linked(db.rows)

IInv ==
  /\ TypeOK
  /\ \A t \in Threads : writing[t] <=> Handling(t)
  /\ \A t \in Threads : request[t] # None => GoodRequest(request[t], database)
  /\ GoodDatabase(database)

-----------------------------------------------------------------------------
(* Lists of rows.                                                           *)

LEMMA LifecycleRows ==
  ASSUME NEW row \in Row
  PROVE  /\ IsLifecycle(row) <=> row.type \in LifecycleKinds
         /\ row.number \in Nat \ {0} /\ row.follows \in Nat
BY DEF IsLifecycle, Row, LifecycleKinds

LEMMA SmallestElement ==
  ASSUME NEW T \in SUBSET Nat, T # {}
  PROVE  \E m \in T : \A n \in T : m <= n
<1>1. PICK m \in T : \A n \in T : <<n, m>> \notin OpToRel(<, Nat)
  BY NatLessThanWellFounded, WFMin
<1>2. \A n \in T : ~(n < m)
  BY <1>1 DEF OpToRel
<1> QED
  BY <1>2

LEMMA LargestElement ==
  ASSUME NEW N \in Nat, NEW T \in SUBSET (0..N), T # {}
  PROVE  \E m \in T : \A n \in T : n <= m
<1> DEFINE U == {N - x : x \in T}
<1>1. U \in SUBSET Nat /\ U # {}
  <2>1. \A x \in T : N - x \in Nat
    OBVIOUS
  <2>2. PICK x \in T : TRUE
    OBVIOUS
  <2> QED
    BY <2>1, <2>2
<1>2. PICK u \in U : \A v \in U : u <= v
  BY <1>1, SmallestElement
<1>3. PICK m \in T : u = N - m
  BY <1>2
<1>4. \A n \in T : N - m <= N - n
  BY <1>2, <1>3
<1> QED
  BY <1>4

LEMMA RowsOf ==
  ASSUME NEW rows \in Seq(Row)
  PROVE  /\ Len(rows) \in Nat /\ DOMAIN rows = 1..Len(rows)
         /\ \A i \in 1..Len(rows) :
              /\ rows[i] \in Row /\ rows[i].created_at \in 0..MaxClock
              /\ rows[i].snapshot_after \in Metadata \cup {None, << >>}
              /\ rows[i].number \in Nat \ {0} /\ rows[i].follows \in Nat
<1>1. \A i \in 1..Len(rows) : rows[i] \in Row
  BY ElementOfSeq
<1> QED
  BY <1>1, LenProperties DEF Row, Kept

LEMMA AppendedRow ==
  ASSUME NEW rows \in Seq(Row), NEW row \in Row
  PROVE  LET longer == Append(rows, row) IN
         /\ longer \in Seq(Row) /\ Len(longer) = Len(rows) + 1
         /\ DOMAIN longer = 1..(Len(rows) + 1)
         /\ \A i \in 1..Len(rows) : longer[i] = rows[i]
         /\ longer[Len(rows) + 1] = row
<1>1. Len(rows) \in Nat
  BY LenProperties
<1>2. Append(rows, row) \in Seq(Row) /\ Len(Append(rows, row)) = Len(rows) + 1
  OBVIOUS
<1> QED
  BY <1>1, <1>2, LenProperties, AppendProperties

LEMMA SelectedRows ==
  ASSUME NEW rows \in Seq(Row), NEW size \in Nat, NEW stays \in Ascending(size, Len(rows))
  PROVE  LET rest == [n \in 1..size |-> rows[stays[n]]] IN
         /\ rest \in Seq(Row) /\ Len(rest) = size /\ DOMAIN rest = 1..size
         /\ \A n \in 1..size : stays[n] \in 1..Len(rows) /\ rest[n] = rows[stays[n]]
         /\ \A m, n \in 1..size : m < n => stays[m] < stays[n]
<1> DEFINE rest == [n \in 1..size |-> rows[stays[n]]]
<1>1. /\ stays \in [1..size -> 1..Len(rows)]
      /\ \A m, n \in 1..size : m < n => stays[m] < stays[n]
  BY DEF Ascending
<1>2. rest \in [1..size -> Row]
  BY <1>1, RowsOf
<1>3. rest \in Seq(Row)
  BY <1>2, SeqDef
<1>4. Len(rest) = size
  BY <1>3, LenProperties
<1> QED
  BY <1>1, <1>3, <1>4

(* What the handlers have told last: after a row of theirs, after one of other
   code, and when rows go, but not the one that told it. *)
LEMMA LastSnapshotLogged ==
  ASSUME NEW rows \in Seq(Row), NEW row \in Row, IsLifecycle(row)
  PROVE  LastSnapshotIs(Append(rows, row), row.snapshot_after)
<1> DEFINE longer == Append(rows, row)
           n == Len(rows)
<1>1. /\ n \in Nat /\ DOMAIN longer = 1..(n + 1) /\ Len(longer) = n + 1
      /\ longer[n + 1] = row
  BY AppendedRow, RowsOf
<1> HIDE DEF longer, n
<1>2. ASSUME NEW i \in 1..(n + 1), TellsLast(longer, i)
      PROVE  i = n + 1
  <2>1. CASE i <= n
    <3>1. n + 1 \in (i + 1)..(n + 1)
      BY <1>1, <2>1
    <3> QED
      BY <1>1, <1>2, <3>1 DEF TellsLast
  <2> QED
    BY <1>1, <2>1
<1>3. LastSnapshotIs(longer, row.snapshot_after)
  BY <1>1, <1>2 DEF LastSnapshotIs
<1> QED
  BY <1>3 DEF longer

LEMMA LastSnapshotStays ==
  ASSUME NEW rows \in Seq(Row), NEW row \in Row, ~IsLifecycle(row),
         NEW content, LastSnapshotIs(rows, content)
  PROVE  LastSnapshotIs(Append(rows, row), content)
<1> DEFINE longer == Append(rows, row)
           n == Len(rows)
<1>1. /\ n \in Nat /\ DOMAIN longer = 1..(n + 1) /\ Len(longer) = n + 1
      /\ longer[n + 1] = row /\ \A i \in 1..n : longer[i] = rows[i]
      /\ DOMAIN rows = 1..n /\ Len(rows) = n
  BY AppendedRow, RowsOf
<1> HIDE DEF longer, n
<1>2. ASSUME NEW i \in 1..(n + 1), TellsLast(longer, i)
      PROVE  longer[i].snapshot_after = content
  <2>1. i \in 1..n
    BY <1>1, <1>2 DEF TellsLast
  <2>2. \A j \in (i + 1)..n : j \in (i + 1)..(n + 1) /\ longer[j] = rows[j]
    BY <1>1, <2>1
  <2>3. TellsLast(rows, i)
    BY <1>1, <1>2, <2>1, <2>2 DEF TellsLast
  <2>4. rows[i].snapshot_after = content
    BY <1>1, <2>1, <2>3 DEF LastSnapshotIs
  <2> QED
    BY <1>1, <2>1, <2>4
<1>3. LastSnapshotIs(longer, content)
  BY <1>1, <1>2 DEF LastSnapshotIs
<1> QED
  BY <1>3 DEF longer

LEMMA LastSnapshotOfRest ==
  ASSUME NEW rows \in Seq(Row), NEW content, LastSnapshotIs(rows, content),
         NEW size \in Nat, NEW stays \in Ascending(size, Len(rows)),
         \A i \in DOMAIN rows : TellsLast(rows, i) => \E n \in 1..size : stays[n] = i
  PROVE  LastSnapshotIs([n \in 1..size |-> rows[stays[n]]], content)
<1> DEFINE rest == [n \in 1..size |-> rows[stays[n]]]
           N == Len(rows)
<1>1. /\ DOMAIN rest = 1..size /\ Len(rest) = size
      /\ \A n \in 1..size : stays[n] \in 1..N /\ rest[n] = rows[stays[n]]
      /\ \A m, n \in 1..size : m < n => stays[m] < stays[n]
      /\ N \in Nat /\ DOMAIN rows = 1..N /\ Len(rows) = N
  BY SelectedRows, RowsOf
<1> HIDE DEF rest, N
<1>2. ASSUME NEW i \in 1..size, TellsLast(rest, i)
      PROVE  rest[i].snapshot_after = content
  <2> DEFINE told == {j \in 1..N : IsLifecycle(rows[j])}
  <2>1. stays[i] \in told
    BY <1>1, <1>2 DEF TellsLast
  <2>2. PICK m \in told : \A j \in told : j <= m
    <3>1. told \in SUBSET (0..N) /\ told # {}
      BY <1>1, <2>1
    <3> HIDE DEF told
    <3> QED
      BY <1>1, <3>1, LargestElement
  <2>3. m \in 1..N /\ IsLifecycle(rows[m]) /\ \A j \in (m + 1)..N : ~IsLifecycle(rows[j])
    <3>1. m \in 1..N /\ IsLifecycle(rows[m])
      BY <2>2
    <3>2. ASSUME NEW j \in (m + 1)..N, IsLifecycle(rows[j]) PROVE FALSE
      <4>1. j \in 1..N /\ ~(j <= m)
        BY <1>1, <3>1
      <4> QED
        BY <2>2, <3>2, <4>1
    <3> QED
      BY <3>1, <3>2
  <2>4. TellsLast(rows, m)
    BY <1>1, <2>3 DEF TellsLast
  <2>5. PICK p \in 1..size : stays[p] = m
    BY <1>1, <2>3, <2>4
  <2>6. stays[i] <= m
    BY <2>1, <2>2
  <2>7. p = i
    <3>1. CASE p < i
      <4>1. stays[p] < stays[i] /\ stays[i] \in Nat /\ stays[p] \in Nat
        BY <1>1, <3>1
      <4> QED
        BY <2>5, <2>6, <4>1
    <3>2. CASE i < p
      <4>1. p \in (i + 1)..size
        BY <3>2
      <4>2. IsLifecycle(rest[p])
        BY <1>1, <2>3, <2>5
      <4> QED
        BY <1>1, <1>2, <4>1, <4>2 DEF TellsLast
    <3> QED
      BY <3>1, <3>2
  <2> QED
    BY <1>1, <2>3, <2>4, <2>5, <2>7 DEF LastSnapshotIs
<1>3. LastSnapshotIs(rest, content)
  BY <1>1, <1>2 DEF LastSnapshotIs
<1> QED
  BY <1>3 DEF rest

-----------------------------------------------------------------------------
(* The baseline.                                                            *)

(* Some row with a snapshot is the newest of those a search answers. *)
LEMMA NewestOf ==
  ASSUME NEW rows \in Seq(Row), NEW S \in SUBSET DOMAIN rows, S # {}
  PROVE  \E i \in S : \A j \in S : ~Newer(rows, j, i)
<1>1. /\ Len(rows) \in Nat /\ S \in SUBSET (0..Len(rows))
      /\ \A i \in S : rows[i].created_at \in 0..MaxClock
  BY RowsOf
<1>2. MaxClock \in Nat
  BY BoundAssumption
<1> DEFINE times == {rows[i].created_at : i \in S}
<1>3. times \in SUBSET (0..MaxClock) /\ times # {}
  <2>1. PICK i \in S : TRUE
    OBVIOUS
  <2> QED
    BY <1>1, <2>1
<1>4. PICK time \in times : \A other \in times : other <= time
  <2> HIDE DEF times
  <2> QED
    BY <1>2, <1>3, LargestElement
<1> DEFINE latest == {i \in S : rows[i].created_at = time}
<1>5. latest \in SUBSET (0..Len(rows)) /\ latest # {}
  BY <1>1, <1>4
<1>6. PICK i \in latest : \A j \in latest : j <= i
  <2> HIDE DEF latest
  <2> QED
    BY <1>1, <1>5, LargestElement
<1>7. ASSUME NEW j \in S PROVE ~Newer(rows, j, i)
  <2>1. /\ rows[j].created_at <= time /\ rows[i].created_at = time
        /\ rows[j].created_at \in 0..MaxClock /\ i \in S
        /\ i \in 0..Len(rows) /\ j \in 0..Len(rows)
    BY <1>1, <1>4, <1>6
  <2>2. rows[j].created_at = time => j <= i
    BY <1>6, <2>1
  <2> QED
    BY <1>1, <1>2, <2>1, <2>2 DEF Newer
<1> QED
  BY <1>6, <1>7

LEMMA PreviousIsSnapshot ==
  ASSUME NEW rows \in Seq(Row)
  PROVE  PreviousSnapshot(rows) \in Metadata \cup {None, << >>}
<1> DEFINE found == {i \in Newest(rows) : HasSnapshot(rows[i])}
           last == CHOOSE i \in found : \A j \in found : ~Newer(rows, j, i)
<1>1. CASE found = {}
  BY <1>1 DEF PreviousSnapshot
<1>2. CASE found # {}
  <2>1. found \in SUBSET DOMAIN rows
    BY DEF Newest
  <2>2. last \in found
    <3> HIDE DEF found
    <3>1. \E i \in found : \A j \in found : ~Newer(rows, j, i)
      BY <1>2, <2>1, NewestOf
    <3> QED
      BY <3>1
  <2>3. PreviousSnapshot(rows) = rows[last].snapshot_after
    BY <1>2 DEF PreviousSnapshot
  <2> HIDE DEF last, found
  <2> QED
    BY <2>1, <2>2, <2>3, RowsOf
<1> QED
  BY <1>1, <1>2

(* In a list in the order of its times the baseline is the last snapshot, and
   the row that has it is the one that a modification follows. *)
LEMMA PreviousIsLast ==
  ASSUME NEW rows \in Seq(Row), Preceding(rows) # 0
  PROVE  \E j \in DOMAIN rows :
           /\ Preceding(rows) = rows[j].number
           /\ HasSnapshot(rows[j])
           /\ PreviousSnapshot(rows) = rows[j].snapshot_after
<1> DEFINE n == Len(rows)
           reached == {i \in DOMAIN rows : Len(rows) - i < BaselineLimit /\ HasSnapshot(rows[i])}
           j == CHOOSE i \in reached : \A k \in reached : k <= i
           found == {i \in Newest(rows) : HasSnapshot(rows[i])}
           last == CHOOSE i \in found : \A k \in found : ~Newer(rows, k, i)
<1>1. /\ n \in Nat /\ DOMAIN rows = 1..n /\ Len(rows) = n /\ BaselineLimit \in Nat
      /\ \A i \in 1..n : rows[i].created_at \in 0..MaxClock
  BY RowsOf, BoundAssumption
<1>2. InOrder(rows) /\ reached # {} /\ Preceding(rows) = rows[j].number
  BY DEF Preceding
<1> HIDE DEF n
<1>3. j \in reached /\ \A k \in reached : k <= j
  <2>1. reached \in SUBSET (0..n)
    BY <1>1
  <2> HIDE DEF reached
  <2>2. \E i \in reached : \A k \in reached : k <= i
    BY <1>1, <1>2, <2>1, LargestElement
  <2> QED
    BY <2>2
<1> HIDE DEF j
<1>4. ASSUME NEW i \in 1..n, NEW k \in 1..n PROVE Newer(rows, i, k) <=> i > k
  <2>1. /\ i <= k => rows[i].created_at <= rows[k].created_at
        /\ k <= i => rows[k].created_at <= rows[i].created_at
    BY <1>1, <1>2 DEF InOrder
  <2>2. rows[i].created_at \in Int /\ rows[k].created_at \in Int
    BY <1>1
  <2> QED
    BY <2>1, <2>2 DEF Newer
<1>5. ASSUME NEW k \in 1..n
      PROVE  Cardinality({i \in DOMAIN rows : Newer(rows, i, k)}) = n - k
  <2>1. {i \in DOMAIN rows : Newer(rows, i, k)} = (k + 1)..n
    BY <1>1, <1>4
  <2>2. Cardinality((k + 1)..n) = IF k + 1 > n THEN 0 ELSE n - (k + 1) + 1
    <3>1. k + 1 \in Int /\ n \in Int
      BY <1>1
    <3> QED
      BY <3>1, FS_Interval
  <2>3. Cardinality((k + 1)..n) = n - k
    BY <1>1, <2>2
  <2> QED
    BY <2>1, <2>3
<1>6. found = reached
  BY <1>1, <1>5 DEF Newest
<1>7. reached \subseteq 1..n /\ \A k \in reached : HasSnapshot(rows[k])
  BY <1>1
<1> HIDE DEF found, reached
<1>8. \A k \in found : ~Newer(rows, k, j)
  <2>1. ASSUME NEW k \in found PROVE ~Newer(rows, k, j)
    <3>1. k \in 1..n /\ j \in 1..n /\ k <= j
      BY <1>3, <1>6, <1>7
    <3> QED
      BY <1>1, <1>4, <3>1
  <2> QED
    BY <2>1
<1>9. last \in found /\ \A k \in found : ~Newer(rows, k, last)
  BY <1>3, <1>6, <1>8
<1>10. PreviousSnapshot(rows) = rows[last].snapshot_after
  BY <1>3, <1>6 DEF PreviousSnapshot, last, found
<1> HIDE DEF last
<1>11. last = j
  <2>1. last \in 1..n /\ j \in 1..n /\ last <= j
    BY <1>3, <1>6, <1>7, <1>9
  <2>2. ~Newer(rows, j, last)
    BY <1>3, <1>6, <1>9
  <2> QED
    BY <1>1, <1>4, <2>1, <2>2
<1> QED
  BY <1>1, <1>2, <1>3, <1>7, <1>10, <1>11

-----------------------------------------------------------------------------
(* What the differences of a row say.                                        *)

LEMMA DiffApplies ==
  ASSUME NEW before \in Metadata, NEW after \in Metadata
  PROVE  Leads(MetadataDiff(before, after), before, after)
<1> DEFINE both == DOMAIN before \cap DOMAIN after
           differ == {k \in both : before[k] # after[k]}
           added == [k \in DOMAIN after \ DOMAIN before |-> after[k]]
           removed == [k \in DOMAIN before \ DOMAIN after |-> before[k]]
           changed == [k \in differ |-> [before |-> before[k], after |-> after[k]]]
           changes == MetadataDiff(before, after)
<1>1. before # None /\ after = [k \in DOMAIN after |-> after[k]]
  BY MetadataAssumption
<1>2. /\ changes.baseline_available = TRUE /\ changes.added = added
      /\ changes.removed = removed /\ changes.changed = changed
  BY <1>1 DEF MetadataDiff, Restrict
<1> HIDE DEF changes
<1>3. /\ DOMAIN added = DOMAIN after \ DOMAIN before
      /\ \A k \in DOMAIN added : added[k] = after[k]
      /\ DOMAIN removed = DOMAIN before \ DOMAIN after
      /\ DOMAIN changed = differ
      /\ \A k \in differ : changed[k].after = after[k] /\ changed[k].before = before[k]
  OBVIOUS
<1> DEFINE value(k) == IF k \in DOMAIN added THEN added[k]
                       ELSE IF k \in DOMAIN changed THEN changed[k].after
                       ELSE before[k]
<1> HIDE DEF added, removed, changed
<1>4. (DOMAIN before \ DOMAIN removed) \cup DOMAIN added = DOMAIN after
  BY <1>3
<1>5. \A k \in DOMAIN after : value(k) = after[k]
  BY <1>3
<1>6. Applied(changes, before) = [k \in (DOMAIN before \ DOMAIN removed) \cup DOMAIN added |-> value(k)]
  BY <1>2 DEF Applied
<1> HIDE DEF value
<1>7. Applied(changes, before) = after
  BY <1>1, <1>4, <1>5, <1>6
<1> QED
  BY <1>2, <1>3, <1>7 DEF Leads, changes

-----------------------------------------------------------------------------
(* Lists whose changes connect.                                             *)

Connects(rows, j, k) ==
  rows[k].follows = rows[j].number /\ rows[j].snapshot_after # << >>
    => Leads(rows[k].changes, rows[j].snapshot_after, rows[k].snapshot_after)

LEMMA ConnectedIs ==
  ASSUME NEW rows
  PROVE  Connected(rows) <=> \A j, k \in DOMAIN rows : Connects(rows, j, k)
BY DEF Connected, Connects

(* A row that is written after these follows none, or it is a modification
   whose changes are those from the baseline the handler has read. *)
FromBaseline(rows, row) ==
  /\ row.number = NextNumber(rows)
  /\ row.follows # 0 =>
       /\ row.follows = Preceding(rows)
       /\ row.snapshot_after \in Metadata
       /\ PreviousSnapshot(rows) \notin {None, << >>} =>
            row.changes = MetadataDiff(PreviousSnapshot(rows), row.snapshot_after)

LEMMA LinkedLogged ==
  ASSUME NEW rows \in Seq(Row), NEW row \in Row, Linked(rows), FromBaseline(rows, row)
  PROVE  Linked(Append(rows, row))
<1> DEFINE longer == Append(rows, row)
           n == Len(rows)
<1>1. /\ n \in Nat /\ DOMAIN longer = 1..(n + 1) /\ DOMAIN rows = 1..n /\ Len(rows) = n
      /\ longer[n + 1] = row /\ \A i \in 1..n : longer[i] = rows[i]
      /\ \A i \in 1..n : rows[i].number \in Nat \ {0} /\ rows[i].follows \in Nat
      /\ row.number \in Nat \ {0} /\ row.follows \in Nat
  BY AppendedRow, RowsOf, LifecycleRows
<1>2. Numbered(rows) /\ Connected(rows)
  BY DEF Linked
<1> HIDE DEF longer, n
<1>3. ASSUME NEW i \in 1..n PROVE rows[i].number < row.number
  <2>1. rows # << >>
    BY <1>1
  <2>2. row.number = rows[n].number + 1
    BY <1>1, <2>1 DEF FromBaseline, NextNumber
  <2>3. i = n \/ rows[i].number < rows[n].number
    BY <1>1, <1>2 DEF Numbered
  <2> QED
    BY <1>1, <2>2, <2>3
<1>4. row.follows < row.number
  <2>1. CASE row.follows = 0
    BY <1>1, <2>1
  <2>2. CASE row.follows # 0
    <3>1. PICK j \in DOMAIN rows : Preceding(rows) = rows[j].number
      BY <2>2, PreviousIsLast DEF FromBaseline
    <3> QED
      BY <1>1, <1>3, <2>2, <3>1 DEF FromBaseline
  <2> QED
    BY <2>1, <2>2
<1>5. \A i \in 1..(n + 1) : i \in 1..n \/ i = n + 1
  BY <1>1
<1>6. Numbered(longer)
  <2>1. ASSUME NEW i \in 1..(n + 1), NEW j \in 1..(n + 1), i < j
        PROVE  longer[i].number < longer[j].number
    <3>1. i \in 1..n
      BY <1>1, <2>1
    <3> QED
      BY <1>1, <1>2, <1>3, <1>5, <2>1, <3>1 DEF Numbered
  <2>2. \A k \in 1..(n + 1) : longer[k].follows < longer[k].number
    BY <1>1, <1>2, <1>4, <1>5 DEF Numbered
  <2> QED
    BY <1>1, <2>1, <2>2 DEF Numbered
<1>7. ASSUME NEW j \in 1..(n + 1), NEW k \in 1..(n + 1) PROVE Connects(longer, j, k)
  <2>1. CASE j \in 1..n /\ k \in 1..n
    <3>1. Connects(rows, j, k)
      BY <1>1, <1>2, <2>1, ConnectedIs
    <3> QED
      BY <1>1, <2>1, <3>1 DEF Connects
  <2>2. CASE j \in 1..n /\ k = n + 1
    <3>1. SUFFICES ASSUME row.follows = rows[j].number, rows[j].snapshot_after # << >>
                   PROVE  Leads(row.changes, rows[j].snapshot_after, row.snapshot_after)
      BY <1>1, <2>2 DEF Connects
    <3>2. row.follows # 0 /\ row.follows = Preceding(rows) /\ row.snapshot_after \in Metadata
      BY <1>1, <2>2, <3>1 DEF FromBaseline
    <3>3. PICK i \in DOMAIN rows :
            /\ Preceding(rows) = rows[i].number
            /\ HasSnapshot(rows[i])
            /\ PreviousSnapshot(rows) = rows[i].snapshot_after
      BY <3>2, PreviousIsLast
    <3>4. i = j
      <4>1. /\ i < j => rows[i].number < rows[j].number
            /\ j < i => rows[j].number < rows[i].number
        BY <1>1, <1>2, <2>2 DEF Numbered
      <4>2. rows[i].number = rows[j].number /\ i \in 1..n
        BY <1>1, <3>1, <3>2, <3>3
      <4> QED
        BY <1>1, <2>2, <4>1, <4>2
    <3>5. rows[j].snapshot_after \in Metadata
      BY <2>2, <3>1, <3>3, <3>4, RowsOf DEF HasSnapshot, n
    <3>6. row.changes = MetadataDiff(rows[j].snapshot_after, row.snapshot_after)
      BY <3>1, <3>2, <3>3, <3>4 DEF FromBaseline, HasSnapshot
    <3> QED
      BY <3>2, <3>5, <3>6, DiffApplies
  <2>3. CASE j = n + 1
    <3>1. /\ longer[k].follows < longer[k].number
          /\ k # j => longer[k].number < longer[j].number
      BY <1>1, <1>5, <1>6, <2>3 DEF Numbered
    <3>2. longer[k].follows \in Nat /\ longer[k].number \in Nat /\ longer[j].number \in Nat
      BY <1>1, <1>5
    <3>3. longer[k].follows # longer[j].number
      BY <3>1, <3>2
    <3> QED
      BY <3>3 DEF Connects
  <2> QED
    BY <1>5, <2>1, <2>2, <2>3
<1>8. Connected(longer)
  BY <1>1, <1>7, ConnectedIs
<1> QED
  BY <1>6, <1>8 DEF Linked, longer

LEMMA LinkedRest ==
  ASSUME NEW rows \in Seq(Row), Linked(rows),
         NEW size \in Nat, NEW stays \in Ascending(size, Len(rows))
  PROVE  Linked([n \in 1..size |-> rows[stays[n]]])
<1> DEFINE rest == [n \in 1..size |-> rows[stays[n]]]
<1>1. /\ DOMAIN rest = 1..size /\ DOMAIN rows = 1..Len(rows)
      /\ \A n \in 1..size : stays[n] \in DOMAIN rows /\ rest[n] = rows[stays[n]]
      /\ \A m, n \in 1..size : m < n => stays[m] < stays[n]
  BY SelectedRows, RowsOf
<1> HIDE DEF rest
<1>2. Numbered(rest)
  BY <1>1 DEF Linked, Numbered
<1>3. ASSUME NEW j \in 1..size, NEW k \in 1..size PROVE Connects(rest, j, k)
  <2>1. Connects(rows, stays[j], stays[k])
    BY <1>1, ConnectedIs DEF Linked
  <2> QED
    BY <1>1, <2>1 DEF Connects
<1>4. Connected(rest)
  BY <1>1, <1>3, ConnectedIs
<1> QED
  BY <1>2, <1>4 DEF Linked, rest

-----------------------------------------------------------------------------
(* What a request has logged.                                               *)

LEMMA NewRowsFinite ==
  ASSUME NEW r \in Request
  PROVE  /\ NewRows(r) \in SUBSET (r.first..Len(r.rows))
         /\ IsFiniteSet(NewRows(r)) /\ Cardinality(NewRows(r)) \in Nat
         /\ r.first \in Nat \ {0} /\ Len(r.rows) \in Nat
<1>1. r.first \in Nat \ {0} /\ r.rows \in Seq(Row)
  BY DEF Request
<1>2. r.first \in Int /\ Len(r.rows) \in Int /\ Len(r.rows) \in Nat
  BY <1>1, LenProperties
<1>3. IsFiniteSet(r.first..Len(r.rows))
  BY <1>2, FS_Interval
<1>4. NewRows(r) \in SUBSET (r.first..Len(r.rows))
  BY DEF NewRows
<1> QED
  BY <1>1, <1>2, <1>3, <1>4, FS_Subset, FS_CardinalityType

(* A row of other code. *)
LEMMA ApplicationLogged ==
  ASSUME NEW r \in Request, NEW s \in Request, NEW row \in Row, ~IsLifecycle(row),
         s.rows = Append(r.rows, row), s.first = r.first, s.told = r.told,
         s.handler = r.handler, s.content = r.content, s.heard = r.heard, s.site = r.site,
         LogSoFar(r)
  PROVE  LogSoFar(s)
<1>1. r.rows \in Seq(Row)
  BY DEF Request
<1>2. /\ Len(r.rows) \in Nat /\ Len(s.rows) = Len(r.rows) + 1
      /\ \A i \in 1..Len(r.rows) : s.rows[i] = r.rows[i]
      /\ s.rows[Len(r.rows) + 1] = row
  BY <1>1, RowsOf, AppendedRow
<1>3. r.first \in Nat \ {0}
  BY DEF Request
<1>4. NewRows(s) = NewRows(r)
  <2>1. ASSUME NEW i \in Int
        PROVE  i \in NewRows(s) <=> i \in NewRows(r)
    <3>1. CASE i = Len(r.rows) + 1
      BY <1>2, <3>1 DEF NewRows
    <3>2. CASE i # Len(r.rows) + 1
      <4>1. i \in r.first..Len(s.rows) <=> i \in r.first..Len(r.rows)
        BY <1>2, <1>3, <3>2
      <4>2. i \in r.first..Len(r.rows) => s.rows[i] = r.rows[i]
        BY <1>2, <1>3
      <4> QED
        BY <4>1, <4>2 DEF NewRows
    <3> QED
      BY <3>1, <3>2
  <2>2. NewRows(s) \subseteq Int /\ NewRows(r) \subseteq Int
    BY DEF NewRows
  <2> QED
    BY <2>1, <2>2
<1>5. \A i \in NewRows(r) : s.rows[i] = r.rows[i]
  BY <1>2, <1>3 DEF NewRows
<1>6. InHandler(s) <=> InHandler(r)
  BY DEF InHandler
<1>7. InPlace(s.rows, NewRows(s), s.told)
  <2>1. InPlace(r.rows, NewRows(r), r.told)
    BY DEF LogSoFar
  <2> QED
    BY <1>4, <1>5, <2>1 DEF InPlace
<1> QED
  BY <1>2, <1>3, <1>4, <1>6, <1>7 DEF LogSoFar

(* The row that a handler has been told to write. *)
LEMMA LifecycleLogged ==
  ASSUME NEW r \in Request, NEW s \in Request, NEW row \in Row, IsLifecycle(row),
         InHandler(r), row.type = r.handler,
         s.rows = Append(r.rows, row), s.first = r.first, s.told = r.told,
         s.handler = None, s.content = r.content, s.heard = r.heard, s.site = r.site,
         LogSoFar(r)
  PROVE  LogSoFar(s)
<1> DEFINE n == Len(r.rows) + 1
           old == NewRows(r)
           new == NewRows(s)
<1>1. r.rows \in Seq(Row)
  BY DEF Request
<1>2. /\ Len(r.rows) \in Nat /\ Len(s.rows) = n /\ s.rows[n] = row
      /\ \A i \in 1..Len(r.rows) : s.rows[i] = r.rows[i]
  BY <1>1, RowsOf, AppendedRow
<1>3. r.first \in Nat \ {0} /\ r.first <= n
  BY DEF Request, LogSoFar
<1>4. new = old \cup {n}
  <2>1. ASSUME NEW i \in Int
        PROVE  i \in new <=> i \in old \/ i = n
    <3>1. CASE i = n
      BY <1>2, <1>3, <3>1 DEF NewRows
    <3>2. CASE i # n
      <4>1. i \in r.first..Len(s.rows) <=> i \in r.first..Len(r.rows)
        BY <1>2, <1>3, <3>2
      <4>2. i \in r.first..Len(r.rows) => s.rows[i] = r.rows[i]
        BY <1>2, <1>3
      <4> QED
        BY <3>2, <4>1, <4>2 DEF NewRows
    <3> QED
      BY <3>1, <3>2
  <2>2. new \subseteq Int /\ old \subseteq Int /\ n \in Int
    BY <1>2 DEF NewRows
  <2> HIDE DEF n, old, new
  <2> QED
    BY <2>1, <2>2
<1>5. /\ old \subseteq r.first..Len(r.rows)
      /\ IsFiniteSet(old) /\ Cardinality(old) \in Nat /\ n \notin old
  BY <1>2, NewRowsFinite
<1>6. Cardinality(new) = Cardinality(old) + 1
  <2> HIDE DEF old, new, n
  <2> QED
    BY <1>4, <1>5, FS_AddElement
<1>7. \A i \in old : s.rows[i] = r.rows[i] /\ i < n
  BY <1>2, <1>3, <1>5
<1>8. /\ Len(r.told) = Cardinality(old) + 1 /\ r.told[Len(r.told)] = r.handler
      /\ r.content # None
      /\ InPlace(r.rows, old, r.told)
      /\ r.heard = r.site + (IF r.handler = "notification" THEN 1 ELSE 0)
  BY DEF LogSoFar
<1>9. ~InHandler(s) /\ s.handler # "notification" /\ r.handler # "notification"
  BY NoneAssumption DEF InHandler, LifecycleKinds, Kinds
<1> HIDE DEF old, new
<1> HIDE DEF n
<1>10. ASSUME NEW i \in new PROVE s.rows[i].type = r.told[Cardinality({j \in new : j <= i})]
  <2>1. CASE i = n
    <3>1. \A j \in old : j \in Int /\ j < n
      BY <1>3, <1>5, <1>7
    <3>2. n \in Int
      BY <1>2 DEF n
    <3>3. \A j \in new : j <= n
      BY <1>4, <3>1, <3>2
    <3>4. {j \in new : j <= i} = new
      BY <2>1, <3>3
    <3> QED
      BY <1>2, <1>6, <1>8, <2>1, <3>4 DEF n
  <2>2. CASE i \in old
    <3>1. {j \in new : j <= i} = {j \in old : j <= i}
      <4>1. ~(n <= i)
        BY <1>2, <1>3, <1>5, <1>7, <2>2 DEF n
      <4> QED
        BY <1>4, <4>1
    <3> QED
      BY <1>7, <1>8, <2>2, <3>1 DEF InPlace
  <2> QED
    BY <1>4, <2>1, <2>2
<1>11. s.first <= Len(s.rows) + 1
  BY <1>2, <1>3 DEF n
<1>12. InPlace(s.rows, new, s.told)
  BY <1>10 DEF InPlace
<1> QED
  BY <1>6, <1>8, <1>9, <1>11, <1>12 DEF LogSoFar, new

-----------------------------------------------------------------------------
(* A step that changes one request and nothing that others see.             *)

LEMMA OneRequest ==
  ASSUME IInv, NEW t \in Threads, NEW q \in Request \cup {None},
         request' = [request EXCEPT ![t] = q],
         UNCHANGED <<settings, database, clock>>,
         writing' \in [Threads -> BOOLEAN],
         \A u \in Threads : u # t => writing'[u] = writing[u],
         writing'[t] <=> q # None /\ q.handler # None,
         q # None => GoodRequest(q, database)
  PROVE  IInv'
<1>1. request \in [Threads -> Request \cup {None}]
  BY DEF IInv, TypeOK
<1>2. /\ request' \in [Threads -> Request \cup {None}]
      /\ \A u \in Threads : request'[u] = IF u = t THEN q ELSE request[u]
  BY <1>1
<1>3. TypeOK'
  BY <1>2 DEF IInv, TypeOK
<1>4. \A u \in Threads : writing'[u] <=> Handling(u)'
  BY <1>2 DEF IInv, Handling
<1>5. \A u \in Threads :
        request'[u] # None => GoodRequest(request'[u], database')
  BY <1>2 DEF IInv
<1>6. GoodDatabase(database')
  BY DEF IInv
<1> QED
  BY <1>3, <1>4, <1>5, <1>6 DEF IInv

LEMMA Serving ==
  ASSUME IInv, NEW t \in Threads, request[t] # None
  PROVE  /\ request[t] \in Request /\ request[t].rows \in Seq(Row)
         /\ LogSoFar(request[t]) /\ Owing(request[t]) /\ InStep(request[t], database)
         /\ Linked(request[t].rows)
         /\ writing \in [Threads -> BOOLEAN]
         /\ writing[t] <=> request[t].handler # None
         /\ clock \in 0..MaxClock /\ clock \in Nat /\ database \in Database
         /\ None \notin Metadata /\ None \notin Kinds
<1>1. request[t] \in Request
  BY DEF IInv, TypeOK
<1>2. request[t].rows \in Seq(Row)
  BY <1>1 DEF Request
<1>3. clock \in Nat
  BY BoundAssumption DEF IInv, TypeOK
<1> QED
  BY <1>1, <1>2, <1>3, NoneAssumption, MetadataAssumption
     DEF IInv, TypeOK, GoodRequest, Handling

-----------------------------------------------------------------------------
(* The first state, and steps that no request takes.                        *)

LEMMA EmptyRows ==
  ASSUME NEW content
  PROVE  LastSnapshotIs(<< >>, content) /\ Linked(<< >>)
<1>1. DOMAIN << >> = {}
  OBVIOUS
<1> QED
  BY <1>1 DEF LastSnapshotIs, Linked, Numbered, Connected

LEMMA InitIInv ==
  ASSUME Init
  PROVE  IInv
<1>1. settings \in Settings
  <2>1. DOMAIN << >> = {}
    OBVIOUS
  <2>2. SettingsOf(<< >>) = [audit_logging_enabled |-> TRUE, detail_limit |-> 65536,
                             enabled_content_types |-> {}]
    BY <2>1 DEF SettingsOf, Default
  <2>3. SettingsOf(<< >>) \in {SettingsOf(form) : form \in Forms \cup {<< >>}}
    OBVIOUS
  <2>4. 65536 \in DetailLimits
    BY DEF DetailLimits
  <2>5. /\ SettingsOf(<< >>).audit_logging_enabled \in BOOLEAN
        /\ SettingsOf(<< >>).detail_limit \in DetailLimits
        /\ SettingsOf(<< >>).enabled_content_types # None
    <3>1. /\ SettingsOf(<< >>).audit_logging_enabled = TRUE
          /\ SettingsOf(<< >>).detail_limit = 65536
          /\ SettingsOf(<< >>).enabled_content_types = {}
      BY <2>2
    <3>2. SettingsOf(<< >>).audit_logging_enabled \in BOOLEAN
      BY DEF SettingsOf, Default
    <3>3. SettingsOf(<< >>).detail_limit \in DetailLimits
      BY <2>4, <3>1
    <3>4. SettingsOf(<< >>).enabled_content_types # None
      BY <3>1, NoneAssumption
    <3> QED
      BY <3>2, <3>3, <3>4
  <2> QED
    BY <2>3, <2>5 DEF Init, Settings
<1>2. database \in Database /\ clock \in 0..MaxClock
  <2>1. << >> \in Seq(Row) /\ None \in Kept /\ 0 \in 0..MaxCommits /\ 0 \in 0..MaxClock
    BY BoundAssumption DEF Kept
  <2> QED
    BY <2>1 DEF Init, Database
<1>3. request \in [Threads -> Request \cup {None}] /\ writing \in [Threads -> BOOLEAN]
  BY DEF Init
<1>4. \A t \in Threads : ~writing[t] /\ request[t] = None
  BY DEF Init
<1>5. GoodDatabase(database)
  BY EmptyRows DEF Init, GoodDatabase
<1> QED
  BY <1>1, <1>2, <1>3, <1>4, <1>5 DEF IInv, TypeOK, Handling

LEMMA SaveSettingsStep ==
  ASSUME IInv, NEW form \in Forms, SaveSettings(form)
  PROVE  IInv'
<1>1. settings' \in Settings
  BY DEF SaveSettings, ValidForm, Settings
<1> QED
  BY <1>1 DEF IInv, TypeOK, SaveSettings, Handling

LEMMA SetClockStep ==
  ASSUME IInv, NEW instant \in 0..MaxClock, SetClock(instant)
  PROVE  IInv'
<1>1. TypeOK'
  BY DEF IInv, TypeOK, SetClock
<1>2. \A t \in Threads : request'[t] = None /\ writing'[t] = writing[t]
  BY DEF SetClock
<1>3. \A t \in Threads : writing'[t] <=> Handling(t)'
  BY DEF IInv, SetClock, Handling
<1>4. GoodDatabase(database')
  BY DEF IInv, SetClock
<1> QED
  BY <1>1, <1>2, <1>3, <1>4 DEF IInv

-----------------------------------------------------------------------------
(* The steps of a request, before its commit.                               *)

LEMMA BeginStep ==
  ASSUME IInv, NEW t \in Threads, Begin(t)
  PROVE  IInv'
<1> DEFINE q == [settings |-> settings, handler |-> None,
                 isNew |-> database.content = None, first |-> Len(database.rows) + 1,
                 content |-> database.content, rows |-> database.rows, site |-> 0,
                 wrote |-> {}, stale |-> {}, calls |-> 0,
                 told |-> << >>, heard |-> 0, owed |-> database.owed]
<1>1. /\ settings \in Settings /\ database.content \in Kept
      /\ database.rows \in Seq(Row) /\ database.owed \in BOOLEAN
      /\ Len(database.rows) \in Nat
  BY LenProperties DEF IInv, TypeOK, Database
<1>2. q \in Request
  BY <1>1, BoundAssumption DEF Request
<1>3. /\ q.handler = None /\ q.first = Len(database.rows) + 1 /\ q.told = << >>
      /\ q.content = database.content /\ q.rows = database.rows /\ q.site = 0
      /\ q.wrote = {} /\ q.stale = {} /\ q.heard = 0 /\ q.owed = database.owed
  OBVIOUS
<1>4. request' = [request EXCEPT ![t] = q] /\ request[t] = None
  BY DEF Begin
<1> HIDE DEF q
<1>5. ~InHandler(q) /\ q.handler # "notification"
  BY <1>3, NoneAssumption DEF InHandler, LifecycleKinds, Kinds
<1>6. LogSoFar(q)
  <2>1. NewRows(q) = {}
    BY <1>1, <1>3 DEF NewRows
  <2>2. Cardinality({}) = 0 /\ Len(q.told) = 0
    BY <1>3, FS_EmptySet
  <2> QED
    BY <1>1, <1>3, <1>5, <2>1, <2>2 DEF LogSoFar, InPlace
<1>7. GoodRequest(q, database)
  BY <1>3, <1>6 DEF IInv, GoodDatabase, GoodRequest, Owing, InStep
<1>8. /\ UNCHANGED <<settings, database, clock>>
      /\ writing' = writing /\ writing \in [Threads -> BOOLEAN] /\ ~writing[t]
  BY <1>4 DEF IInv, TypeOK, Begin, Handling
<1> QED
  BY <1>2, <1>3, <1>4, <1>7, <1>8, OneRequest

LEMMA EditStep ==
  ASSUME IInv, NEW t \in Threads, NEW metadata \in Metadata, Edit(t, metadata)
  PROVE  IInv'
<1> DEFINE r == request[t]
           q == [r EXCEPT !.content = metadata, !.owed = TRUE,
                          !.wrote = r.wrote \cup {"content"}]
<1>1. request[t] # None /\ r.handler = None /\ UNCHANGED <<settings, database, writing, clock>>
  BY DEF Edit, Running
<1>2. /\ r \in Request /\ LogSoFar(r) /\ Owing(r) /\ InStep(r, database)
      /\ Linked(r.rows)
      /\ writing \in [Threads -> BOOLEAN] /\ ~writing[t]
  BY <1>1, Serving
<1>3. request' = [request EXCEPT ![t] = q]
  BY <1>1 DEF Edit
<1>4. /\ q \in Request /\ q.handler = None /\ q.first = r.first /\ q.content = metadata
      /\ q.rows = r.rows /\ q.site = r.site /\ q.wrote = r.wrote \cup {"content"}
      /\ q.stale = r.stale /\ q.told = r.told /\ q.heard = r.heard /\ q.owed = TRUE
  BY <1>1, <1>2 DEF Request, Kept, Parts
<1> HIDE DEF q
<1>5. ~InHandler(r) /\ ~InHandler(q)
  BY <1>1, <1>4, NoneAssumption DEF InHandler, LifecycleKinds, Kinds
<1>6. LogSoFar(q)
  BY <1>1, <1>2, <1>4, <1>5 DEF LogSoFar, NewRows
<1>7. GoodRequest(q, database)
  BY <1>2, <1>4, <1>6 DEF GoodRequest, Owing, InStep
<1> QED
  BY <1>1, <1>2, <1>3, <1>4, <1>7, OneRequest

LEMMA NextNumberIs ==
  ASSUME NEW rows \in Seq(Row)
  PROVE  NextNumber(rows) \in Nat \ {0}
<1>1. rows # << >> => Len(rows) \in 1..Len(rows)
  BY RowsOf
<1> QED
  BY <1>1, RowsOf DEF NextNumber

LEMMA ApplicationIsRow ==
  ASSUME NEW r, r.rows \in Seq(Row), NEW created_at \in 0..MaxClock,
         NEW snapshot \in CallerSnapshots
  PROVE  LET row == ApplicationRow(r, created_at, snapshot) IN
         row \in Row /\ ~IsLifecycle(row) /\ FromBaseline(r.rows, row)
<1>1. snapshot \in Kept \cup {<< >>}
  BY CallersAssumption DEF Kept
<1> QED
  BY <1>1, NextNumberIs DEF ApplicationRow, Row, IsLifecycle, FromBaseline

LEMMA LogApplicationStep ==
  ASSUME IInv, NEW t \in Threads, NEW created_at \in 0..MaxClock,
         NEW snapshot \in CallerSnapshots, LogApplication(t, created_at, snapshot)
  PROVE  IInv'
<1> DEFINE r == request[t]
           row == ApplicationRow(r, created_at, snapshot)
           q == Called(WithRow(r, row))
<1>1. /\ request[t] # None /\ r.handler = None
      /\ UNCHANGED <<settings, database, writing, clock>>
      /\ r.calls < MaxCalls
  BY DEF LogApplication, Running, Calls
<1>2. /\ r \in Request /\ r.rows \in Seq(Row)
      /\ LogSoFar(r) /\ Owing(r) /\ InStep(r, database)
      /\ Linked(r.rows)
      /\ writing \in [Threads -> BOOLEAN] /\ ~writing[t]
      /\ clock \in 0..MaxClock /\ clock \in Nat
  BY <1>1, Serving
<1>3. request' = [request EXCEPT ![t] = q]
  BY <1>1 DEF LogApplication
<1>4. row \in Row /\ ~IsLifecycle(row) /\ FromBaseline(r.rows, row)
  BY <1>2, ApplicationIsRow
<1> HIDE DEF row
<1>5. /\ q \in Request /\ q.handler = None /\ q.first = r.first /\ q.content = r.content
      /\ q.rows = Append(r.rows, row) /\ q.site = r.site /\ q.wrote = r.wrote \cup {"rows"}
      /\ q.stale = r.stale /\ q.told = r.told /\ q.heard = r.heard /\ q.owed = r.owed
  <2>1. Append(r.rows, row) \in Seq(Row)
    BY <1>2, <1>4
  <2>2. r.calls + 1 \in 0..MaxCalls
    BY <1>1, <1>2, BoundAssumption DEF Request
  <2> QED
    BY <1>1, <1>2, <2>1, <2>2 DEF Called, WithRow, Request, Parts
<1> HIDE DEF q
<1>6. ~InHandler(r)
  BY <1>1, NoneAssumption DEF InHandler, LifecycleKinds, Kinds
<1>7. LogSoFar(q)
  BY <1>1, <1>2, <1>4, <1>5, ApplicationLogged
<1>8. Owing(q)
  BY <1>2, <1>4, <1>5, <1>6, LastSnapshotStays DEF Owing
<1>9. Linked(q.rows)
  BY <1>2, <1>4, <1>5, LinkedLogged
<1>10. InStep(q, database)
  BY <1>2, <1>5 DEF InStep
<1>11. GoodRequest(q, database)
  BY <1>7, <1>8, <1>9, <1>10 DEF GoodRequest
<1> QED
  BY <1>1, <1>2, <1>3, <1>5, <1>11, OneRequest

(* A request that ends takes nothing along. *)
LEMMA EndedRequest ==
  ASSUME IInv, NEW t \in Threads, request' = [request EXCEPT ![t] = None],
         UNCHANGED <<settings, database, clock>>,
         writing' = [writing EXCEPT ![t] = FALSE]
  PROVE  IInv'
<1>1. writing \in [Threads -> BOOLEAN]
  BY DEF IInv, TypeOK
<1>2. /\ writing' \in [Threads -> BOOLEAN] /\ ~writing'[t]
      /\ \A u \in Threads : u # t => writing'[u] = writing[u]
  BY <1>1
<1> QED
  BY <1>2, OneRequest

LEMMA LogRaisesStep ==
  ASSUME IInv, NEW t \in Threads, LogRaises(t)
  PROVE  IInv'
BY EndedRequest DEF LogRaises

LEMMA AbortStep ==
  ASSUME IInv, NEW t \in Threads, Abort(t)
  PROVE  IInv'
<1>1. request[t] # None /\ request[t].handler = None
  BY DEF Abort, Running
<1>2. writing \in [Threads -> BOOLEAN] /\ ~writing[t]
  BY <1>1, Serving
<1>3. writing' = [writing EXCEPT ![t] = FALSE]
  BY <1>2 DEF Abort
<1> QED
  BY <1>3, EndedRequest DEF Abort

(* The place of a new row is among those told so far. *)
LEMMA PlaceIsTold ==
  ASSUME NEW new \in SUBSET Nat, IsFiniteSet(new), NEW i \in new
  PROVE  Cardinality({j \in new : j <= i}) \in 1..Cardinality(new)
<1> DEFINE upTo == {j \in new : j <= i}
<1>1. upTo \subseteq new /\ i \in upTo
  OBVIOUS
<1> HIDE DEF upTo
<1>2. /\ IsFiniteSet(upTo) /\ Cardinality(upTo) <= Cardinality(new)
      /\ Cardinality(upTo) \in Nat /\ Cardinality(new) \in Nat
  BY <1>1, FS_Subset, FS_CardinalityType
<1>3. Cardinality(upTo) # 0
  BY <1>1, <1>2, FS_EmptySet
<1>4. Cardinality(upTo) \in 1..Cardinality(new)
  BY <1>2, <1>3
<1> QED
  BY <1>4 DEF upTo

(* A handler that has been told of something. *)
LEMMA ToldLifecycle ==
  ASSUME NEW r \in Request, NEW s \in Request, NEW kind \in LifecycleKinds,
         ~InHandler(r), r.handler = None, r.content # None,
         s.rows = r.rows, s.first = r.first, s.told = Append(r.told, kind),
         s.handler = kind, s.content = r.content, s.heard = r.heard, s.site = r.site,
         LogSoFar(r)
  PROVE  LogSoFar(s)
<1> DEFINE new == NewRows(r)
<1>1. /\ new \in SUBSET Nat /\ IsFiniteSet(new) /\ Cardinality(new) \in Nat
      /\ NewRows(s) = new
  <2>1. NewRows(s) = new
    BY DEF NewRows
  <2>2. /\ new \in SUBSET (r.first..Len(r.rows)) /\ IsFiniteSet(new)
        /\ Cardinality(new) \in Nat /\ r.first \in Nat \ {0} /\ Len(r.rows) \in Nat
    BY NewRowsFinite
  <2> HIDE DEF new
  <2>3. r.first..Len(r.rows) \subseteq Nat
    BY <2>2
  <2> QED
    BY <2>1, <2>2, <2>3
<1>2. /\ r.first <= Len(r.rows) + 1 /\ Len(r.told) = Cardinality(new)
      /\ InPlace(r.rows, new, r.told) /\ r.heard = r.site + 0
  <2>1. r.handler # "notification"
    BY NoneAssumption DEF Kinds
  <2> HIDE DEF new
  <2>2. /\ r.first <= Len(r.rows) + 1 /\ Len(r.told) = Cardinality(new) + 0
        /\ InPlace(r.rows, new, r.told) /\ r.heard = r.site + 0
    BY <2>1 DEF LogSoFar, new
  <2> QED
    BY <1>1, <2>2
<1>3. r.told \in Seq(Kinds) /\ kind \in Kinds
  BY DEF Request, LifecycleKinds, Kinds
<1>4. /\ Len(s.told) = Len(r.told) + 1 /\ s.told[Len(r.told) + 1] = kind
      /\ \A k \in 1..Len(r.told) : s.told[k] = r.told[k]
  BY <1>3, LenProperties, AppendProperties
<1> HIDE DEF new
<1>5. InPlace(s.rows, new, s.told)
  BY <1>1, <1>2, <1>4, PlaceIsTold DEF InPlace
<1>6. InHandler(s) /\ s.handler # "notification"
  BY DEF InHandler, LifecycleKinds
<1> QED
  BY <1>1, <1>2, <1>4, <1>5, <1>6 DEF LogSoFar

LEMMA NotifyStep ==
  ASSUME IInv, NEW t \in Threads, NEW kind \in Kinds, Notify(t, kind)
  PROVE  IInv'
<1> DEFINE r == request[t]
           wanted == Wanted(r, kind)
           q == Called(Told(r, kind, Admitted(t, kind)))
<1>1. /\ request[t] # None /\ r.handler = None
      /\ UNCHANGED <<settings, database, clock>>
      /\ r.calls < MaxCalls
      /\ kind # "notification" => r.content # None
  BY DEF Notify, Running, Calls
<1>2. /\ r \in Request /\ r.rows \in Seq(Row)
      /\ LogSoFar(r) /\ Owing(r) /\ InStep(r, database)
      /\ Linked(r.rows)
      /\ writing \in [Threads -> BOOLEAN] /\ ~writing[t]
      /\ None \notin Kinds
  BY <1>1, Serving
<1>3. Admitted(t, kind) <=> wanted
  BY <1>2 DEF Admitted, Wanted, LoggingEnabled
<1>4. /\ request' = [request EXCEPT ![t] = q]
      /\ writing' \in [Threads -> BOOLEAN]
      /\ \A u \in Threads : u # t => writing'[u] = writing[u]
      /\ writing'[t] <=> wanted
  <2>1. request' = [request EXCEPT ![t] = q]
    BY <1>1 DEF Notify
  <2>2. writing' = [writing EXCEPT ![t] = writing[t] \/ Admitted(t, kind)]
    BY DEF Notify
  <2> QED
    BY <1>2, <1>3, <2>1, <2>2
<1>5. kind = "notification" => wanted
  BY DEF Wanted
<1>6. /\ q \in Request
      /\ q.handler = IF wanted THEN kind ELSE None
      /\ q.told = IF wanted /\ kind # "notification" THEN Append(r.told, kind) ELSE r.told
      /\ q.heard = IF kind = "notification" THEN r.heard + 1 ELSE r.heard
      /\ q.owed <=> r.owed /\ (wanted => kind = "notification")
      /\ q.first = r.first /\ q.content = r.content /\ q.rows = r.rows
      /\ q.site = r.site /\ q.wrote = r.wrote /\ q.stale = r.stale
  <2>1. r.calls + 1 \in 0..MaxCalls /\ r.heard + 1 \in Nat /\ r.told \in Seq(Kinds)
    BY <1>1, <1>2, BoundAssumption DEF Request
  <2>2. Append(r.told, kind) \in Seq(Kinds)
    BY <2>1
  <2> DEFINE s == Told(r, kind, Admitted(t, kind))
             handler == IF wanted THEN kind ELSE None
             told == IF wanted /\ kind # "notification" THEN Append(r.told, kind) ELSE r.told
             heard == IF kind = "notification" THEN r.heard + 1 ELSE r.heard
             owed == r.owed /\ (wanted => kind = "notification")
  <2>3. s = [r EXCEPT !.handler = handler, !.told = told, !.heard = heard, !.owed = owed]
    BY <1>2, <1>3 DEF Told, Request
  <2>4. /\ handler \in Kinds \cup {None} /\ told \in Seq(Kinds) /\ heard \in Nat
        /\ owed \in BOOLEAN
    BY <1>2, <2>1, <2>2 DEF Request
  <2> HIDE DEF s, handler, told, heard, owed
  <2>5. /\ s \in Request /\ s.handler = handler /\ s.told = told /\ s.heard = heard
        /\ s.owed = owed /\ s.first = r.first /\ s.content = r.content /\ s.rows = r.rows
        /\ s.site = r.site /\ s.wrote = r.wrote /\ s.stale = r.stale /\ s.calls = r.calls
    BY <1>2, <2>3, <2>4 DEF Request
  <2>6. q = [s EXCEPT !.calls = s.calls + 1]
    BY DEF Called, s
  <2> HIDE DEF q, wanted
  <2>7. /\ q \in Request /\ q.handler = handler /\ q.told = told /\ q.heard = heard
        /\ q.owed = owed /\ q.first = r.first /\ q.content = r.content /\ q.rows = r.rows
        /\ q.site = r.site /\ q.wrote = r.wrote /\ q.stale = r.stale
    BY <2>1, <2>5, <2>6 DEF Request
  <2> QED
    BY <2>7 DEF handler, told, heard, owed
<1> HIDE DEF q, wanted
<1>7. ~InHandler(r)
  BY <1>1, <1>2 DEF InHandler, LifecycleKinds, Kinds
<1>8. LogSoFar(q) /\ Owing(q)
  <2>1. CASE ~wanted
    <3>1. /\ q.handler = None /\ q.told = r.told /\ q.heard = r.heard /\ (q.owed <=> r.owed)
      BY <1>5, <1>6, <2>1
    <3>2. InHandler(q) <=> InHandler(r)
      BY <1>1, <3>1 DEF InHandler
    <3> QED
      BY <1>1, <1>2, <1>6, <3>1, <3>2 DEF LogSoFar, Owing, NewRows
  <2>2. CASE kind = "notification"
    <3>1. /\ q.handler = "notification" /\ q.told = r.told /\ q.heard = r.heard + 1
          /\ (q.owed <=> r.owed) /\ r.handler # "notification"
      BY <1>1, <1>2, <1>5, <1>6, <2>2 DEF Kinds
    <3>2. ~InHandler(q)
      BY <3>1 DEF InHandler, LifecycleKinds
    <3>3. r.heard \in Nat /\ r.site \in Nat
      BY <1>2 DEF Request
    <3> QED
      BY <1>2, <1>6, <1>7, <3>1, <3>2, <3>3 DEF LogSoFar, Owing, NewRows
  <2>3. CASE wanted /\ kind # "notification"
    <3>1. /\ kind \in LifecycleKinds /\ q.handler = kind /\ q.told = Append(r.told, kind)
          /\ q.heard = r.heard
      BY <1>6, <2>3 DEF LifecycleKinds, Kinds
    <3>2. LogSoFar(q)
      BY <1>1, <1>2, <1>6, <1>7, <2>3, <3>1, ToldLifecycle
    <3> QED
      BY <3>1, <3>2 DEF Owing, InHandler
  <2> QED
    BY <2>1, <2>2, <2>3
<1>9. GoodRequest(q, database)
  BY <1>2, <1>6, <1>8 DEF GoodRequest, InStep
<1>10. q # None /\ (q.handler # None <=> wanted)
  BY <1>2, <1>6, NoneAssumption
<1> QED
  BY <1>1, <1>4, <1>6, <1>9, <1>10, OneRequest

(* Within a handler nothing is admitted. *)
LEMMA NestedStep ==
  ASSUME IInv, NEW t \in Threads, NEW kind \in Kinds, Nested(t, kind)
  PROVE  IInv'
<1> DEFINE r == request[t]
           q == Called(r)
<1>1. /\ request[t] # None /\ r.handler # None
      /\ UNCHANGED <<settings, database, writing, clock>>
      /\ r.calls < MaxCalls
  BY DEF Nested, Handling, Calls
<1>2. /\ r \in Request
      /\ LogSoFar(r) /\ Owing(r) /\ InStep(r, database)
      /\ Linked(r.rows)
      /\ writing \in [Threads -> BOOLEAN] /\ writing[t]
  BY <1>1, Serving
<1>3. ~Admitted(t, kind)
  BY <1>2 DEF Admitted
<1>4. request' = [request EXCEPT ![t] = q]
  BY <1>3 DEF Nested
<1>5. /\ q \in Request /\ q.handler = r.handler /\ q.told = r.told /\ q.heard = r.heard
      /\ q.owed = r.owed /\ q.first = r.first /\ q.content = r.content /\ q.rows = r.rows
      /\ q.site = r.site /\ q.wrote = r.wrote /\ q.stale = r.stale
  <2>1. r.calls + 1 \in 0..MaxCalls
    BY <1>1, <1>2, BoundAssumption DEF Request
  <2> QED
    BY <1>2, <2>1 DEF Called, Request
<1> HIDE DEF q
<1>6. LogSoFar(q) /\ Owing(q) /\ InStep(q, database)
  <2>1. NewRows(q) = NewRows(r) /\ (InHandler(q) <=> InHandler(r))
    BY <1>5 DEF NewRows, InHandler
  <2> QED
    BY <1>2, <1>5, <2>1 DEF LogSoFar, Owing, InStep
<1>7. GoodRequest(q, database)
  BY <1>2, <1>5, <1>6 DEF GoodRequest
<1>8. q # None /\ q.handler # None
  BY <1>1, <1>5, NoneAssumption
<1> QED
  BY <1>1, <1>2, <1>4, <1>5, <1>7, <1>8, OneRequest

(* The row that a handler writes. *)
LEMMA LifecycleIsRow ==
  ASSUME NEW r, r.rows \in Seq(Row), r.content \in Metadata, clock \in 0..MaxClock,
         NEW kind \in LifecycleKinds, NEW before \in Baselines(r, kind)
  PROVE  LET row == LifecycleRow(r, kind, before) IN
         /\ row \in Row /\ IsLifecycle(row)
         /\ row.type = kind /\ row.snapshot_after = r.content
         /\ FromBaseline(r.rows, row)
<1> DEFINE row == LifecycleRow(r, kind, before)
<1>1. /\ row = [type |-> kind, created_at |-> clock,
                changes |-> MetadataDiff(before, r.content), snapshot_after |-> r.content,
                number |-> NextNumber(r.rows),
                follows |-> IF kind = "modified" THEN Preceding(r.rows) ELSE 0]
      /\ r.content # None
  BY MetadataAssumption DEF LifecycleRow
<1>2. before \in Kept \cup {<< >>}
  BY PreviousIsSnapshot DEF Baselines, HistoricalSnapshots, Kept
<1>3. MetadataDiff(before, r.content) \in Changes
  BY <1>2 DEF Changes
<1>4. kind = "modified" /\ PreviousSnapshot(r.rows) \notin {None, << >>}
        => before = PreviousSnapshot(r.rows)
  BY DEF Baselines
<1> HIDE DEF row
<1>5. /\ row.type = kind /\ row.number = NextNumber(r.rows)
      /\ row.follows = IF kind = "modified" THEN Preceding(r.rows) ELSE 0
      /\ row.changes = MetadataDiff(before, r.content) /\ row.snapshot_after = r.content
  BY <1>1
<1>6. row.follows \in Nat /\ row.number \in Nat \ {0}
  <2>1. Preceding(r.rows) # 0 => Preceding(r.rows) \in Nat
    BY PreviousIsLast, RowsOf
  <2> QED
    BY <1>5, <2>1, NextNumberIs
<1>7. row \in Row
  BY <1>1, <1>3, <1>5, <1>6 DEF Row, Kept, LifecycleKinds
<1>8. FromBaseline(r.rows, row)
  BY <1>4, <1>5 DEF FromBaseline
<1>9. IsLifecycle(row)
  BY <1>5, <1>7, LifecycleRows
<1> QED
  BY <1>5, <1>7, <1>8, <1>9 DEF row

LEMMA LogEventStep ==
  ASSUME IInv, NEW t \in Threads, LogEvent(t)
  PROVE  IInv'
<1> DEFINE r == request[t]
           kind == r.handler
<1>1. /\ request[t] # None /\ kind # None
      /\ UNCHANGED <<settings, database, clock>>
      /\ writing' = [writing EXCEPT ![t] = FALSE]
  BY DEF LogEvent, Handling
<1>2. /\ r \in Request /\ r.rows \in Seq(Row)
      /\ LogSoFar(r) /\ Owing(r) /\ InStep(r, database)
      /\ Linked(r.rows)
      /\ writing \in [Threads -> BOOLEAN] /\ writing[t]
      /\ clock \in 0..MaxClock /\ clock \in Nat /\ None \notin Metadata
  BY <1>1, Serving
<1>3. PICK before \in Baselines(r, kind) :
        request' = [request EXCEPT ![t] = [Stored(r, kind, before) EXCEPT !.handler = None]]
  BY <1>1 DEF LogEvent
<1>4. kind = "notification" \/ kind \in LifecycleKinds
  BY <1>1, <1>2 DEF Request, Kinds, LifecycleKinds
<1>5. /\ writing' \in [Threads -> BOOLEAN] /\ ~writing'[t]
      /\ \A u \in Threads : u # t => writing'[u] = writing[u]
  BY <1>1, <1>2
<1> DEFINE q == [Stored(r, kind, before) EXCEPT !.handler = None]
<1>6. ASSUME kind = "notification"
      PROVE  q \in Request /\ q.handler = None /\ GoodRequest(q, database)
  <2>1. q = [r EXCEPT !.site = r.site + 1, !.handler = None]
    BY <1>2, <1>6 DEF Stored, Request
  <2> HIDE DEF q
  <2>2. /\ q \in Request /\ q.handler = None /\ q.first = r.first /\ q.content = r.content
        /\ q.rows = r.rows /\ q.site = r.site + 1 /\ q.wrote = r.wrote /\ q.stale = r.stale
        /\ q.told = r.told /\ q.heard = r.heard /\ q.owed = r.owed
        /\ r.heard \in Nat /\ r.site \in Nat
    <3>1. r.heard \in Nat /\ r.site \in Nat /\ r.site + 1 \in Nat
      BY <1>2 DEF Request
    <3> QED
      BY <1>2, <2>1, <3>1 DEF Request
  <2>3. ~InHandler(r) /\ ~InHandler(q) /\ q.handler # "notification"
    BY <1>6, <2>2, NoneAssumption DEF InHandler, LifecycleKinds, Kinds
  <2>4. NewRows(q) = NewRows(r)
    BY <2>2 DEF NewRows
  <2>5. LogSoFar(q)
    BY <1>2, <1>6, <2>2, <2>3, <2>4 DEF LogSoFar
  <2>6. GoodRequest(q, database)
    BY <1>2, <2>2, <2>3, <2>5 DEF GoodRequest, Owing, InStep
  <2> QED
    BY <2>2, <2>6
<1>7. ASSUME kind \in LifecycleKinds
      PROVE  q \in Request /\ q.handler = None /\ GoodRequest(q, database)
  <2> DEFINE row == LifecycleRow(r, kind, before)
  <2>1. InHandler(r) /\ kind # "notification"
    BY <1>7 DEF InHandler, LifecycleKinds
  <2>2. r.content \in Metadata
    BY <1>2, <2>1 DEF LogSoFar, Request, Kept
  <2>3. /\ row \in Row /\ IsLifecycle(row) /\ row.type = kind
        /\ row.snapshot_after = r.content /\ FromBaseline(r.rows, row)
    BY <1>2, <1>7, <2>2, LifecycleIsRow
  <2>4. q = [r EXCEPT !.rows = Append(r.rows, row), !.wrote = r.wrote \cup {"rows"},
                      !.handler = None]
    BY <1>2, <2>1 DEF Stored, WithRow, Request
  <2> HIDE DEF row, q
  <2>5. Append(r.rows, row) \in Seq(Row)
    BY <1>2, <2>3
  <2>6. /\ q \in Request /\ q.handler = None /\ q.first = r.first /\ q.content = r.content
        /\ q.rows = Append(r.rows, row) /\ q.site = r.site
        /\ q.wrote = r.wrote \cup {"rows"} /\ q.stale = r.stale
        /\ q.told = r.told /\ q.heard = r.heard /\ q.owed = r.owed
    <3>1. r.wrote \cup {"rows"} \in SUBSET Parts
      BY <1>2 DEF Request, Parts
    <3> QED
      BY <1>2, <2>4, <2>5, <3>1 DEF Request
  <2>7. LogSoFar(q)
    BY <1>2, <2>1, <2>3, <2>6, LifecycleLogged
  <2>8. Owing(q)
    <3>1. LastSnapshotIs(q.rows, q.content)
      BY <1>2, <2>3, <2>6, LastSnapshotLogged
    <3> QED
      BY <2>6, <3>1 DEF Owing
  <2>9. InStep(q, database)
    BY <1>2, <2>6 DEF InStep
  <2>10. Linked(q.rows)
    BY <1>2, <2>3, <2>6, LinkedLogged
  <2> QED
    BY <2>6, <2>7, <2>8, <2>9, <2>10 DEF GoodRequest
<1>8. q \in Request /\ q.handler = None /\ GoodRequest(q, database)
  BY <1>4, <1>6, <1>7
<1> HIDE DEF q
<1>9. request' = [request EXCEPT ![t] = q]
  BY <1>3 DEF q
<1> QED
  BY <1>1, <1>5, <1>8, <1>9, OneRequest

-----------------------------------------------------------------------------
(* What is committed, and what it does to the requests that are running.     *)

LEMMA OutdatedRequest ==
  ASSUME NEW s \in Request, NEW parts \in SUBSET Parts, NEW db, NEW later,
         GoodRequest(s, db),
         "content" \notin parts => later.content = db.content,
         "rows" \notin parts /\ ("content" \in parts \/ db.owed) => later.owed
  PROVE  LET q == Outdated(s, parts) IN
         /\ q \in Request /\ q.handler = s.handler
         /\ GoodRequest(q, later)
<1> DEFINE q == Outdated(s, parts)
<1>1. q = [s EXCEPT !.stale = s.stale \cup parts]
  BY NoneAssumption DEF Outdated
<1> HIDE DEF q
<1>2. /\ q \in Request /\ q.handler = s.handler /\ q.told = s.told /\ q.heard = s.heard
      /\ q.owed = s.owed /\ q.first = s.first /\ q.content = s.content /\ q.rows = s.rows
      /\ q.site = s.site /\ q.wrote = s.wrote /\ q.stale = s.stale \cup parts
  BY <1>1 DEF Request
<1>3. NewRows(q) = NewRows(s) /\ (InHandler(q) <=> InHandler(s))
  BY <1>2 DEF NewRows, InHandler
<1>4. LogSoFar(q) /\ Owing(q)
  BY <1>2, <1>3 DEF GoodRequest, LogSoFar, Owing
<1>5. InStep(q, later)
  BY <1>2 DEF GoodRequest, InStep
<1>6. GoodRequest(q, later)
  BY <1>2, <1>4, <1>5 DEF GoodRequest
<1> QED
  BY <1>2, <1>6 DEF q

LEMMA Committed ==
  ASSUME IInv, NEW parts \in SUBSET Parts, NEW gone \in SUBSET Threads,
         database' \in Database, GoodDatabase(database'),
         "content" \notin parts => database'.content = database.content,
         "rows" \notin parts /\ ("content" \in parts \/ database.owed) => database'.owed,
         request' = [u \in Threads |->
                       IF u \in gone THEN None ELSE Outdated(request[u], parts)],
         \A u \in gone : ~writing[u],
         UNCHANGED <<settings, writing, clock>>
  PROVE  IInv'
<1>1. ASSUME NEW u \in Threads
      PROVE  /\ request'[u] \in Request \cup {None}
             /\ writing'[u] <=> Handling(u)'
             /\ request'[u] # None => GoodRequest(request'[u], database')
  <2>1. request'[u] = IF u \in gone THEN None ELSE Outdated(request[u], parts)
    OBVIOUS
  <2>2. CASE u \in gone
    BY <2>1, <2>2 DEF Handling
  <2>3. CASE u \notin gone /\ request[u] = None
    <3>1. request'[u] = None
      BY <2>1, <2>3 DEF Outdated
    <3> QED
      BY <2>3, <3>1 DEF IInv, Handling
  <2>4. CASE u \notin gone /\ request[u] # None
    <3>1. /\ request[u] \in Request /\ (writing[u] <=> request[u].handler # None)
          /\ GoodRequest(request[u], database)
      BY <2>4 DEF IInv, TypeOK, Handling
    <3>2. /\ request'[u] \in Request /\ request'[u].handler = request[u].handler
          /\ GoodRequest(request'[u], database')
      BY <2>1, <2>4, <3>1, OutdatedRequest
    <3> QED
      BY <3>1, <3>2, NoneAssumption DEF Handling
  <2> QED
    BY <2>2, <2>3, <2>4
<1>2. TypeOK'
  <2>1. request' \in [Threads -> Request \cup {None}]
    BY <1>1
  <2> QED
    BY <2>1 DEF IInv, TypeOK
<1> QED
  BY <1>1, <1>2 DEF IInv

LEMMA CommitStep ==
  ASSUME IInv, NEW t \in Threads, Commit(t)
  PROVE  IInv'
<1> DEFINE r == request[t]
<1>1. /\ request[t] # None /\ r.handler = None
      /\ r.wrote \cap r.stale = {} /\ database.commits < MaxCommits
      /\ UNCHANGED <<settings, writing, clock>>
  BY DEF Commit, Running
<1>2. /\ r \in Request /\ r.rows \in Seq(Row)
      /\ LogSoFar(r) /\ Owing(r) /\ InStep(r, database)
      /\ Linked(r.rows)
      /\ ~writing[t] /\ database \in Database
  BY <1>1, Serving
<1>3. /\ database'.content = IF "content" \in r.wrote THEN r.content ELSE database.content
      /\ database'.rows = IF "rows" \in r.wrote THEN r.rows ELSE database.rows
      /\ database'.owed = IF r.wrote # {} /\ "content" \notin r.stale
                          THEN r.owed ELSE database.owed
      /\ database' = [content |-> database'.content, rows |-> database'.rows,
                      commits |-> database.commits + 1, owed |-> database'.owed]
  BY <1>1 DEF Commit
<1>4. r.wrote \in SUBSET Parts /\ r.content \in Kept /\ r.owed \in BOOLEAN
  BY <1>2 DEF Request
<1>5. database' \in Database
  <2>1. /\ database.content \in Kept /\ database.rows \in Seq(Row)
        /\ database.owed \in BOOLEAN /\ database.commits + 1 \in 0..MaxCommits
    BY <1>1, <1>2, BoundAssumption DEF Database
  <2> QED
    BY <1>2, <1>3, <1>4, <2>1 DEF Database
<1>6. ~InHandler(r)
  BY <1>1, NoneAssumption DEF InHandler, LifecycleKinds, Kinds
<1>7. ASSUME ~database'.owed PROVE LastSnapshotIs(database'.rows, database'.content)
  <2>1. CASE r.wrote = {}
    BY <1>3, <1>7, <2>1 DEF IInv, GoodDatabase
  <2>2. CASE r.wrote # {} /\ "content" \notin r.stale
    <3>1. ~r.owed
      BY <1>3, <1>7, <2>2
    <3>2. /\ LastSnapshotIs(r.rows, r.content)
          /\ "content" \in r.wrote => "rows" \in r.wrote
      BY <1>2, <1>6, <3>1 DEF Owing
    <3>3. "rows" \in r.wrote
      BY <1>4, <2>2, <3>2 DEF Parts
    <3>4. database'.content = r.content
      BY <1>2, <1>3, <2>2 DEF InStep
    <3> QED
      BY <1>3, <3>2, <3>3, <3>4
  <2>3. CASE r.wrote # {} /\ "content" \in r.stale
    <3>1. "content" \notin r.wrote /\ "rows" \in r.wrote /\ "rows" \notin r.stale
      BY <1>1, <1>4, <2>3 DEF Parts
    <3>2. database.owed
      BY <1>2, <2>3, <3>1 DEF InStep
    <3> QED
      BY <1>3, <1>7, <2>3, <3>2
  <2> QED
    BY <2>1, <2>2, <2>3
<1>8. GoodDatabase(database')
  BY <1>2, <1>3, <1>7 DEF IInv, GoodDatabase
<1>9. ASSUME "rows" \notin r.wrote, "content" \in r.wrote \/ database.owed
      PROVE  database'.owed
  <2>1. CASE "content" \in r.wrote
    <3>1. "content" \notin r.stale
      BY <1>1, <2>1
    <3>2. r.owed
      BY <1>2, <1>6, <1>9, <2>1 DEF Owing
    <3> QED
      BY <1>3, <2>1, <3>1, <3>2
  <2>2. CASE "content" \notin r.wrote
    <3>1. r.wrote = {}
      BY <1>4, <1>9, <2>2 DEF Parts
    <3> QED
      BY <1>3, <1>9, <2>2, <3>1
  <2> QED
    BY <2>1, <2>2
<1>10. request' = [u \in Threads |->
                     IF u \in {t} THEN None ELSE Outdated(request[u], r.wrote)]
  BY DEF Commit
<1>11. "content" \notin r.wrote => database'.content = database.content
  BY <1>3
<1> QED
  BY <1>1, <1>2, <1>4, <1>5, <1>8, <1>9, <1>10, <1>11, Committed

LEMMA EditElsewhereStep ==
  ASSUME IInv, NEW metadata \in Metadata, NEW notified \in BOOLEAN,
         EditElsewhere(metadata, notified)
  PROVE  IInv'
<1> DEFINE r == [content |-> metadata, rows |-> database.rows, wrote |-> {}]
           parts == IF notified THEN {"content", "rows"} ELSE {"content"}
<1>1. PICK before \in Baselines(r, "modified") :
        database' =
          [content |-> metadata, owed |-> ~notified, commits |-> database.commits + 1,
           rows |-> IF notified THEN Stored(r, "modified", before).rows ELSE r.rows]
  BY DEF EditElsewhere
<1>2. /\ database.commits < MaxCommits /\ UNCHANGED <<settings, writing, clock>>
      /\ request' = [u \in Threads |-> Outdated(request[u], parts)]
  BY DEF EditElsewhere
<1>3. /\ clock \in 0..MaxClock /\ clock \in Nat /\ database.rows \in Seq(Row)
      /\ database.commits + 1 \in 0..MaxCommits
  BY <1>2, BoundAssumption DEF IInv, TypeOK, Database
<1> DEFINE row == LifecycleRow(r, "modified", before)
<1>4. /\ row \in Row /\ IsLifecycle(row)
      /\ row.snapshot_after = metadata /\ FromBaseline(database.rows, row)
  <2>1. r.rows = database.rows /\ r.content = metadata /\ "modified" \in LifecycleKinds
    BY DEF LifecycleKinds
  <2> HIDE DEF r
  <2> QED
    BY <1>1, <1>3, <2>1, LifecycleIsRow
<1>5. Stored(r, "modified", before).rows = Append(database.rows, row)
  BY DEF Stored, WithRow
<1> HIDE DEF row
<1>6. /\ database'.content = metadata /\ (database'.owed <=> ~notified)
      /\ notified => database'.rows = Append(database.rows, row)
      /\ ~notified => database'.rows = database.rows
      /\ database'.commits = database.commits + 1
  BY <1>1, <1>5
<1>7. database' \in Database
  <2>1. Append(database.rows, row) \in Seq(Row)
    BY <1>3, <1>4
  <2> QED
    BY <1>1, <1>3, <1>5, <2>1 DEF Database, Kept
<1>8. GoodDatabase(database')
  <2>1. CASE notified
    <3>1. LastSnapshotIs(database'.rows, database'.content)
      BY <1>3, <1>4, <1>6, <2>1, LastSnapshotLogged
    <3>2. Linked(database'.rows)
      BY <1>3, <1>4, <1>6, <2>1, LinkedLogged DEF IInv, GoodDatabase
    <3> QED
      BY <3>1, <3>2 DEF GoodDatabase
  <2>2. CASE ~notified
    BY <1>6, <2>2 DEF IInv, GoodDatabase
  <2> QED
    BY <2>1, <2>2
<1>9. parts \in SUBSET Parts /\ "content" \in parts /\ ("rows" \notin parts => ~notified)
  BY DEF Parts
<1> HIDE DEF parts
<1> DEFINE gone == {}
<1>10. /\ request' = [u \in Threads |->
                        IF u \in gone THEN None ELSE Outdated(request[u], parts)]
       /\ gone \in SUBSET Threads /\ \A u \in gone : ~writing[u]
  BY <1>2
<1> HIDE DEF gone
<1> QED
  BY <1>2, <1>6, <1>7, <1>8, <1>9, <1>10, Committed

LEMMA DeletePreviewStep ==
  ASSUME IInv, NEW size \in Nat, NEW stays \in Ascending(size, Len(database.rows)),
         DeletePreview(size, stays)
  PROVE  IInv'
<1> DEFINE rows == database.rows
           rest == [n \in 1..size |-> rows[stays[n]]]
           lost == \E i \in DOMAIN rows :
                     TellsLast(rows, i) /\ \A n \in 1..size : stays[n] # i
           gone == {}
           parts == {"rows"}
<1>1. /\ database.commits < MaxCommits
      /\ UNCHANGED <<settings, writing, clock>>
      /\ request' = [u \in Threads |->
                       IF u \in gone THEN None ELSE Outdated(request[u], parts)]
      /\ gone \in SUBSET Threads /\ \A u \in gone : ~writing[u]
  BY DEF DeletePreview
<1>2. /\ database \in Database /\ rows \in Seq(Row)
      /\ database.commits + 1 \in 0..MaxCommits
  BY <1>1, BoundAssumption DEF IInv, TypeOK, Database
<1>3. rest \in Seq(Row)
  BY <1>2, SelectedRows
<1>4. database' = [database EXCEPT !.rows = rest, !.commits = database.commits + 1,
                                   !.owed = database.owed \/ lost]
  BY DEF DeletePreview
<1>5. ~database.owed => LastSnapshotIs(rows, database.content)
  BY DEF IInv, GoodDatabase
<1>6. Linked(rest)
  BY <1>2, LinkedRest DEF IInv, GoodDatabase
<1>7. ASSUME ~database.owed, ~lost PROVE LastSnapshotIs(rest, database.content)
  <2>1. \A i \in DOMAIN rows : TellsLast(rows, i) => \E n \in 1..size : stays[n] = i
    BY <1>7
  <2>2. LastSnapshotIs(rows, database.content)
    BY <1>5, <1>7
  <2>3. rows \in Seq(Row) /\ stays \in Ascending(size, Len(rows))
    BY <1>2
  <2> HIDE DEF rows, lost
  <2>4. LastSnapshotIs([n \in 1..size |-> rows[stays[n]]], database.content)
    BY <2>1, <2>2, <2>3, LastSnapshotOfRest
  <2> QED
    BY <2>4
<1> HIDE DEF rest, lost
<1>8. /\ database' \in Database /\ database'.rows = rest
      /\ database'.content = database.content
      /\ database'.owed <=> database.owed \/ lost
  <2>1. (database.owed \/ lost) \in BOOLEAN
    BY <1>2 DEF Database
  <2> QED
    BY <1>2, <1>3, <1>4, <2>1 DEF Database
<1>9. GoodDatabase(database')
  BY <1>6, <1>7, <1>8 DEF GoodDatabase
<1>10. parts \in SUBSET Parts /\ "rows" \in parts
  BY DEF Parts
<1> HIDE DEF gone, parts
<1> QED
  BY <1>1, <1>8, <1>9, <1>10, Committed

-----------------------------------------------------------------------------
(* The theorems.                                                            *)

LEMMA NextStep ==
  ASSUME IInv, [Next]_vars
  PROVE  IInv'
<1>1. CASE UNCHANGED vars
  BY <1>1 DEF IInv, TypeOK, Handling, vars
<1>2. ASSUME NEW form \in Forms, SaveSettings(form) PROVE IInv'
  BY <1>2, SaveSettingsStep
<1>3. ASSUME NEW t \in Threads, Begin(t) PROVE IInv'
  BY <1>3, BeginStep
<1>4. ASSUME NEW t \in Threads, NEW metadata \in Metadata, Edit(t, metadata) PROVE IInv'
  BY <1>4, EditStep
<1>5. ASSUME NEW t \in Threads, NEW created_at \in 0..MaxClock,
             NEW snapshot \in CallerSnapshots, LogApplication(t, created_at, snapshot)
      PROVE  IInv'
  BY <1>5, LogApplicationStep
<1>6. ASSUME NEW t \in Threads, NEW kind \in Kinds, Notify(t, kind) PROVE IInv'
  BY <1>6, NotifyStep
<1>7. ASSUME NEW t \in Threads, NEW kind \in Kinds, Nested(t, kind) PROVE IInv'
  BY <1>7, NestedStep
<1>8. ASSUME NEW t \in Threads, LogEvent(t) PROVE IInv'
  BY <1>8, LogEventStep
<1>9. ASSUME NEW t \in Threads, LogRaises(t) PROVE IInv'
  BY <1>9, LogRaisesStep
<1>10. ASSUME NEW t \in Threads, Commit(t) PROVE IInv'
  BY <1>10, CommitStep
<1>11. ASSUME NEW t \in Threads, Abort(t) PROVE IInv'
  BY <1>11, AbortStep
<1>12. ASSUME NEW metadata \in Metadata, NEW notified \in BOOLEAN,
              EditElsewhere(metadata, notified)
       PROVE  IInv'
  BY <1>12, EditElsewhereStep
<1>13. ASSUME NEW size \in 0..(Len(database.rows) - 1),
              NEW stays \in Ascending(size, Len(database.rows)), DeletePreview(size, stays)
       PROVE  IInv'
  <2>1. size \in Nat
    BY LenProperties DEF IInv, TypeOK, Database
  <2> QED
    BY <1>13, <2>1, DeletePreviewStep
<1>14. ASSUME NEW instant \in 0..MaxClock, SetClock(instant) PROVE IInv'
  BY <1>14, SetClockStep
<1> QED
  BY <1>1, <1>2, <1>3, <1>4, <1>5, <1>6, <1>7, <1>8, <1>9, <1>10, <1>11, <1>12, <1>13,
     <1>14 DEF Next

LEMMA AlwaysIInv == Spec => []IInv
<1>1. Init => IInv
  BY InitIInv
<1>2. IInv /\ [Next]_vars => IInv'
  BY NextStep
<1> QED
  BY <1>1, <1>2, PTL DEF Spec

(* The settings are valid whatever bodies were sent to the control panel, every
   row is as a handler or the application makes it, and what a request holds is
   what the code of a request holds. *)
THEOREM SubscribersTypeCorrect == Spec => []TypeOK
<1>1. IInv => TypeOK
  BY DEF IInv
<1> QED
  BY <1>1, AlwaysIInv, PTL

(* In every thread and at every point of a request outside the handlers, each
   notification that the settings want logged is in the log, once and in its
   place, and nothing else is, whatever errors and nested notifications went
   before. *)
THEOREM LoggedAlwaysAsNotified == Spec => []LoggedAsNotified
<1>1. ASSUME IInv, NEW t \in Threads, Running(t)
      PROVE  LET r == request[t]
                 new == {i \in r.first..Len(r.rows) : IsLifecycle(r.rows[i])}
             IN /\ Cardinality(new) = Len(r.told)
                /\ \A i \in new : r.rows[i].type = r.told[Cardinality({j \in new : j <= i})]
                /\ r.site = r.heard
  <2> DEFINE r == request[t]
             new == NewRows(r)
  <2>1. /\ request[t] # None /\ r.handler = None
    BY <1>1 DEF Running
  <2>2. r \in Request /\ LogSoFar(r) /\ None \notin Kinds
    BY <1>1, <2>1, Serving
  <2>3. ~InHandler(r) /\ r.handler # "notification"
    BY <2>1, <2>2 DEF InHandler, LifecycleKinds, Kinds
  <2>4. Cardinality(new) \in Nat /\ r.site \in Nat
    BY <2>2, NewRowsFinite DEF Request
  <2>5. /\ Len(r.told) = Cardinality(new) + 0 /\ r.heard = r.site + 0
        /\ InPlace(r.rows, new, r.told)
    BY <2>2, <2>3 DEF LogSoFar
  <2>6. /\ Cardinality(new) = Len(r.told) /\ r.site = r.heard
        /\ InPlace(r.rows, new, r.told)
    BY <2>4, <2>5
  <2> QED
    BY <2>6 DEF InPlace, NewRows
<1>2. IInv => LoggedAsNotified
  BY <1>1 DEF LoggedAsNotified
<1> QED
  BY <1>2, AlwaysIInv, PTL

(* The content object and its log are committed together: unless the object was
   changed and nobody told, or the row that told of it was deleted, the last
   snapshot of the handlers in the log is the object as it is, whatever was
   committed elsewhere while the request ran and whatever other rows were
   deleted. *)
THEOREM LastSnapshotAlwaysContent == Spec => []LastSnapshotIsContent
<1>1. IInv => LastSnapshotIsContent
  BY DEF IInv, GoodDatabase, LastSnapshotIsContent
<1> QED
  BY <1>1, AlwaysIInv, PTL

(* The changes of every modification lead from the snapshot that stood before it
   to its own, if BaselineLimit rows reached that snapshot and the rows stood in
   the order of their times when it was logged, for as long as both rows are
   there: in the committed log and in that of every request, after deletions of
   any rows. *)
THEOREM ChangesAlwaysConnect == Spec => []ChangesConnect
<1>1. IInv => ChangesConnect
  BY DEF IInv, GoodDatabase, GoodRequest, Linked, ChangesConnect
<1> QED
  BY <1>1, AlwaysIInv, PTL
=============================================================================
