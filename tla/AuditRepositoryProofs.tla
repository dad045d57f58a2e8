----------------------- MODULE AuditRepositoryProofs -----------------------
(***************************************************************************)
(* Lemmas about the operators of AuditRepository: the enumeration Nth        *)
(* behind Survivors, the chain a log is sealed into, and the types of what   *)
(* the methods return.                                                      *)
(***************************************************************************)
EXTENDS AuditRepository, FiniteSetTheorems, SequenceTheorems,
        WellFoundedInduction, TLAPS

-----------------------------------------------------------------------------
(* The n-th kept position.                                                  *)

Rank(K, k) == Cardinality({j \in K : j <= k})

(* Ranks in a finite set of positions grow with the position, and run through
   1..Cardinality(K). *)
LEMMA RankProperties ==
  ASSUME NEW K \in SUBSET Int, IsFiniteSet(K)
  PROVE  /\ \A k \in K : Rank(K, k) \in 1..Cardinality(K)
         /\ \A i, k \in K : i < k => Rank(K, i) < Rank(K, k)
         /\ \A n \in 1..Cardinality(K) : \E k \in K : Rank(K, k) = n
<1> DEFINE Below(k) == {j \in K : j <= k}
<1>1. \A k \in K : IsFiniteSet(Below(k)) /\ Cardinality(Below(k)) \in Nat
                   /\ Cardinality(Below(k)) <= Cardinality(K)
  BY FS_Subset, FS_CardinalityType
<1>2. Cardinality(K) \in Nat
  BY FS_CardinalityType
<1>3. \A k \in K : Rank(K, k) \in 1..Cardinality(K)
  <2> SUFFICES ASSUME NEW k \in K
               PROVE  Rank(K, k) \in 1..Cardinality(K)
    OBVIOUS
  <2>1. k \in Below(k)
    OBVIOUS
  <2>2. Cardinality(Below(k)) # 0
    BY <1>1, <2>1, FS_EmptySet
  <2> QED
    BY <1>1, <1>2, <2>2 DEF Rank
<1>4. \A i, k \in K : i < k => Rank(K, i) < Rank(K, k)
  <2> SUFFICES ASSUME NEW i \in K, NEW k \in K, i < k
               PROVE  Rank(K, i) < Rank(K, k)
    OBVIOUS
  <2>1. k \notin Below(i) /\ Below(i) \cup {k} \in SUBSET Below(k)
    <3>1. i \in Int /\ k \in Int /\ k \in Below(k)
      OBVIOUS
    <3>2. \A j \in K : j <= i => j <= k
      BY <3>1
    <3>3. k \notin Below(i)
      BY <3>1
    <3>4. Below(i) \subseteq Below(k)
      BY <3>2
    <3> HIDE DEF Below
    <3> QED
      BY <3>1, <3>3, <3>4
  <2>2. Cardinality(Below(i) \cup {k}) = Cardinality(Below(i)) + 1
    BY <1>1, <2>1, FS_AddElement
  <2>3. Cardinality(Below(i) \cup {k}) <= Cardinality(Below(k))
    BY <1>1, <2>1, FS_Subset
  <2> QED
    BY <1>1, <2>2, <2>3 DEF Rank
<1>5. \A n \in 1..Cardinality(K) : \E k \in K : Rank(K, k) = n
  <2> DEFINE f == [k \in K |-> Rank(K, k)]
             T == 1..Cardinality(K)
  <2>1. f \in Injection(K, T)
    <3>1. f \in [K -> T]
      BY <1>3
    <3>2. \A a, b \in K : f[a] = f[b] => a = b
      <4> SUFFICES ASSUME NEW a \in K, NEW b \in K, a # b
                   PROVE  Rank(K, a) # Rank(K, b)
        OBVIOUS
      <4>1. a < b \/ b < a
        OBVIOUS
      <4> QED
        BY <1>2, <1>3, <1>4, <4>1
    <3> QED
      BY <3>1, <3>2 DEF Injection, IsInjective
  <2>2. IsFiniteSet(T) /\ Cardinality(T) = Cardinality(K)
    BY <1>2, FS_Interval
  <2>3. f \in Surjection(K, T)
    BY <2>1, <2>2, FS_Injection
  <2> QED
    BY <2>3 DEF Surjection
<1> QED
  BY <1>3, <1>4, <1>5

(* Nth enumerates a finite set of positions in increasing order, all of it. *)
LEMMA NthProperties ==
  ASSUME NEW K \in SUBSET Int, IsFiniteSet(K)
  PROVE  /\ \A n \in 1..Cardinality(K) : Nth(K, n) \in K
         /\ \A m, n \in 1..Cardinality(K) : m < n => Nth(K, m) < Nth(K, n)
         /\ \A k \in K : \E n \in 1..Cardinality(K) : Nth(K, n) = k
<1>1. \A n \in 1..Cardinality(K) : Nth(K, n) \in K /\ Rank(K, Nth(K, n)) = n
  <2> SUFFICES ASSUME NEW n \in 1..Cardinality(K)
               PROVE  Nth(K, n) \in K /\ Rank(K, Nth(K, n)) = n
    OBVIOUS
  <2>1. \E k \in K : Rank(K, k) = n
    BY RankProperties
  <2> QED
    BY <2>1 DEF Nth, Rank
<1>2. Cardinality(K) \in Nat
  BY FS_CardinalityType
<1>3. \A m, n \in 1..Cardinality(K) : m < n => Nth(K, m) < Nth(K, n)
  <2> SUFFICES ASSUME NEW m \in 1..Cardinality(K), NEW n \in 1..Cardinality(K),
                      m < n, ~(Nth(K, m) < Nth(K, n))
               PROVE  FALSE
    OBVIOUS
  <2> DEFINE a == Nth(K, m)
             b == Nth(K, n)
  <2>1. a \in K /\ b \in K /\ Rank(K, a) = m /\ Rank(K, b) = n
    BY <1>1
  <2>2. ~(a < b)
    OBVIOUS
  <2> HIDE DEF a, b
  <2>3. a \in Int /\ b \in Int /\ m \in Int /\ n \in Int
    BY <2>1
  <2>4. a = b \/ b < a
    BY <2>2, <2>3
  <2>5. b < a => n < m
    BY <2>1, RankProperties
  <2> QED
    BY <2>1, <2>3, <2>4, <2>5
<1>4. \A k \in K : \E n \in 1..Cardinality(K) : Nth(K, n) = k
  <2> SUFFICES ASSUME NEW k \in K
               PROVE  \E n \in 1..Cardinality(K) : Nth(K, n) = k
    OBVIOUS
  <2>1. Rank(K, k) \in 1..Cardinality(K)
    BY RankProperties
  <2> DEFINE b == Nth(K, Rank(K, k))
  <2>2. b \in K /\ Rank(K, b) = Rank(K, k)
    BY <1>1, <2>1
  <2>3. Nth(K, Rank(K, k)) = b
    OBVIOUS
  <2> HIDE DEF b
  <2>4. b \in Int /\ k \in Int /\ Rank(K, k) \in Int
    BY <2>1, <2>2
  <2>5. ~(b < k) /\ ~(k < b)
    BY <2>2, <2>4, RankProperties
  <2>6. b = k
    BY <2>4, <2>5
  <2> QED
    BY <2>1, <2>3, <2>6
<1> QED
  BY <1>1, <1>3, <1>4

-----------------------------------------------------------------------------
(* The sealed chain.                                                        *)

(* The evidence of one more row is the evidence so far and the row's own. *)
LEMMA EvidenceProperties ==
  ASSUME NEW log \in Seq(Event)
  PROVE  /\ \A n \in 0..Len(log) : Evidence(log, n) \in Digests
         /\ Evidence(log, 0) = NoDigest
         /\ \A n \in 1..Len(log) :
              Append(Evidence(log, n - 1), <<log[n], n>>) = Evidence(log, n)
<1>0. Len(log) \in Nat /\ \A n \in 1..Len(log) : log[n] \in Event
  BY LenProperties, ElementOfSeq
<1>1. \A n \in 0..Len(log) : Evidence(log, n) \in Digests
                              /\ Len(Evidence(log, n)) = n
  <2> SUFFICES ASSUME NEW n \in 0..Len(log)
               PROVE  Evidence(log, n) \in Digests /\ Len(Evidence(log, n)) = n
    OBVIOUS
  <2>1. n \in Nat /\ \A m \in 1..n : <<log[m], m>> \in Event \X Nat
    BY <1>0
  <2> QED
    BY <2>1 DEF Evidence, Digests
<1>2. Evidence(log, 0) = NoDigest
  BY <1>0, <1>1, EmptySeq DEF NoDigest, Digests
<1>3. ASSUME NEW n \in 1..Len(log)
      PROVE  Append(Evidence(log, n - 1), <<log[n], n>>) = Evidence(log, n)
  <2> DEFINE s == Evidence(log, n - 1)
             t == Evidence(log, n)
             x == <<log[n], n>>
  <2>1. s \in Digests /\ Len(s) = n - 1 /\ t \in Digests /\ Len(t) = n
    BY <1>0, <1>1
  <2>2. x \in Event \X Nat
    BY <1>0
  <2>3. \A i \in 1..(n - 1) : s[i] = t[i]
    BY DEF Evidence
  <2>4. t[n] = x
    BY DEF Evidence
  <2> HIDE DEF s, t, x
  <2>5. /\ Append(s, x) \in Seq(Event \X Nat)
        /\ Len(Append(s, x)) = n
        /\ \A i \in 1..(n - 1) : Append(s, x)[i] = s[i]
        /\ Append(s, x)[n] = x
    BY <1>0, <2>1, <2>2, AppendProperties DEF Digests
  <2>6. ASSUME NEW i \in 1..n PROVE Append(s, x)[i] = t[i]
    <3>1. i = n \/ i \in 1..(n - 1)
      BY <1>0
    <3> QED
      BY <2>3, <2>4, <2>5, <3>1
  <2>7. Append(s, x) = t
    BY <2>1, <2>5, <2>6, SeqEqual DEF Digests
  <2> QED
    BY <2>7 DEF s, t, x
<1> QED
  BY <1>1, <1>2, <1>3

LEMMA RowOfProperties ==
  ASSUME NEW e \in Event, NEW n \in Nat, NEW d \in Digests
  PROVE  /\ RowOf(e, n, d) \in Row
         /\ RowOf(e, n, d).event = e
         /\ RowOf(e, n, d).sequence = n
         /\ RowOf(e, n, d).previous_digest = d
         /\ RowOf(e, n, d).integrity_digest = Append(d, <<e, n>>)
         /\ Digest(RowOf(e, n, d)) = Append(d, <<e, n>>)
<1>1. Append(d, <<e, n>>) \in Digests
  BY AppendProperties DEF Digests
<1> QED
  BY <1>1 DEF RowOf, Row, Digest

(* A sealed log is made of rows, holds the log, is numbered from one, and
   verify() answers ok for it. *)
LEMMA ChainProperties ==
  ASSUME NEW log \in Seq(Event)
  PROVE  /\ Chain(log) \in Seq(Row)
         /\ Len(Chain(log)) = Len(log)
         /\ Logged(Chain(log)) = log
         /\ \A n \in 1..Len(log) :
              /\ Chain(log)[n] = RowOf(log[n], n, Evidence(log, n - 1))
              /\ Chain(log)[n].sequence = n
              /\ Chain(log)[n].integrity_digest = Evidence(log, n)
         /\ Verifies(Chain(log))
<1> DEFINE c == Chain(log)
<1>0. Len(log) \in Nat /\ \A n \in 1..Len(log) : log[n] \in Event
  BY LenProperties, ElementOfSeq
<1>1. \A n \in 1..Len(log) : c[n] = RowOf(log[n], n, Evidence(log, n - 1))
  BY DEF Chain
<1>2. \A n \in 1..Len(log) : Evidence(log, n - 1) \in Digests
  BY <1>0, EvidenceProperties
<1>3. \A n \in 1..Len(log) : /\ c[n] \in Row
                            /\ c[n].event = log[n]
                            /\ c[n].sequence = n
                            /\ c[n].previous_digest = Evidence(log, n - 1)
                            /\ c[n].integrity_digest = Evidence(log, n)
                            /\ Digest(c[n]) = Evidence(log, n)
  <2> SUFFICES ASSUME NEW n \in 1..Len(log)
               PROVE  /\ c[n] \in Row
                      /\ c[n].event = log[n]
                      /\ c[n].sequence = n
                      /\ c[n].previous_digest = Evidence(log, n - 1)
                      /\ c[n].integrity_digest = Evidence(log, n)
                      /\ Digest(c[n]) = Evidence(log, n)
    OBVIOUS
  <2> DEFINE d == Evidence(log, n - 1)
  <2>1. n \in Nat /\ log[n] \in Event /\ d \in Digests
    BY <1>0, <1>2
  <2>2. c[n] = RowOf(log[n], n, d)
    BY <1>1
  <2>3. Append(d, <<log[n], n>>) = Evidence(log, n)
    BY EvidenceProperties
  <2> HIDE DEF c, d
  <2>4. /\ c[n] \in Row
        /\ c[n].event = log[n]
        /\ c[n].sequence = n
        /\ c[n].previous_digest = d
        /\ c[n].integrity_digest = Evidence(log, n)
        /\ Digest(c[n]) = Evidence(log, n)
    <3> DEFINE row == RowOf(log[n], n, d)
    <3>1. /\ row \in Row
          /\ row.event = log[n]
          /\ row.sequence = n
          /\ row.previous_digest = d
          /\ row.integrity_digest = Append(d, <<log[n], n>>)
          /\ Digest(row) = Append(d, <<log[n], n>>)
      BY <2>1, RowOfProperties
    <3>2. c[n] = row
      BY <2>2
    <3> HIDE DEF row
    <3> QED
      BY <2>3, <3>1, <3>2
  <2> QED
    BY <2>4 DEF d
<1>4. c \in Seq(Row) /\ Len(c) = Len(log)
  BY <1>0, <1>1, <1>3 DEF Chain
<1>5. Logged(c) = log
  <2>1. log = [n \in 1..Len(log) |-> log[n]]
    BY LenProperties
  <2> QED
    BY <1>3, <1>4, <2>1 DEF Logged
<1>6. Verifies(c)
  <2> HIDE DEF c
  <2> SUFFICES ASSUME NEW i \in 1..Len(log)
               PROVE  ~MismatchAt(c, i)
    BY <1>4 DEF Verifies
  <2>1. CASE i = 1
    BY <1>3, <2>1, EvidenceProperties DEF MismatchAt
  <2>2. CASE i # 1
    <3>1. i - 1 \in 1..Len(log)
      BY <1>0, <2>2
    <3>2. Digest(c[i - 1]) = Evidence(log, i - 1)
      BY <1>3, <3>1
    <3> QED
      BY <1>3, <2>2, <3>2 DEF MismatchAt
  <2> QED
    BY <2>1, <2>2
<1> QED
  BY <1>1, <1>3, <1>4, <1>5, <1>6

(* append() continues a sealed chain: the new row is the one sealing the
   longer log would give it. *)
LEMMA ChainAppend ==
  ASSUME NEW log \in Seq(Event), NEW e \in Event
  PROVE  /\ NewRow(Chain(log), e) \in Row
         /\ Append(Chain(log), NewRow(Chain(log), e)) = Chain(Append(log, e))
<1> DEFINE longer == Append(log, e)
           N == Len(log)
           c == Chain(log)
           row == NewRow(c, e)
<1>0. N \in Nat /\ \A n \in 1..N : log[n] \in Event
  BY LenProperties, ElementOfSeq
<1>1. /\ longer \in Seq(Event)
      /\ Len(longer) = N + 1
      /\ \A n \in 1..N : longer[n] = log[n]
      /\ longer[N + 1] = e
  BY AppendProperties
<1>2. \A n \in 0..N : Evidence(longer, n) = Evidence(log, n)
  BY <1>0, <1>1 DEF Evidence
<1>3. LastDigest(c) = Evidence(log, N)
  <2>1. c \in Seq(Row) /\ Len(c) = N
    BY ChainProperties
  <2>2. CASE N = 0
    <3>1. c = << >>
      BY <2>1, <2>2, EmptySeq
    <3> QED
      BY <2>2, <3>1, EvidenceProperties DEF LastDigest
  <2>3. CASE N # 0
    <3>1. N \in 1..N /\ c # << >>
      BY <1>0, <2>1, <2>3, EmptySeq
    <3>2. c[N].integrity_digest = Evidence(log, N)
      BY <3>1, ChainProperties
    <3> QED
      BY <2>1, <3>1, <3>2 DEF LastDigest
  <2> QED
    BY <2>2, <2>3
<1>4. Evidence(log, N) \in Digests
  BY <1>0, EvidenceProperties
<1>5. row = RowOf(e, N + 1, Evidence(log, N))
  BY <1>3, ChainProperties DEF NewRow
<1>6. row \in Row
  BY <1>0, <1>4, <1>5, RowOfProperties
<1>7. Append(c, row) = Chain(longer)
  <2>1. /\ c \in Seq(Row) /\ Len(c) = N
        /\ Chain(longer) \in Seq(Row) /\ Len(Chain(longer)) = N + 1
        /\ \A n \in 1..N : c[n] = RowOf(log[n], n, Evidence(log, n - 1))
        /\ \A n \in 1..(N + 1) :
             Chain(longer)[n] = RowOf(longer[n], n, Evidence(longer, n - 1))
    BY <1>1, ChainProperties
  <2> HIDE DEF c, row, longer, N
  <2>2. /\ Append(c, row) \in Seq(Row)
        /\ Len(Append(c, row)) = N + 1
        /\ \A n \in 1..N : Append(c, row)[n] = c[n]
        /\ Append(c, row)[N + 1] = row
    BY <1>6, <2>1, AppendProperties
  <2>3. ASSUME NEW n \in 1..(N + 1)
        PROVE  Append(c, row)[n] = Chain(longer)[n]
    <3>0. n \in 1..N \/ n = N + 1
      BY <1>0
    <3>1. CASE n \in 1..N
      <4>1. n - 1 \in 0..N
        BY <1>0, <3>1
      <4> QED
        BY <1>1, <1>2, <2>1, <2>2, <3>1, <4>1
    <3>2. CASE n = N + 1
      <4>1. n - 1 = N /\ N \in 0..N
        BY <1>0, <3>2
      <4> QED
        BY <1>1, <1>2, <1>5, <2>1, <2>2, <3>2, <4>1
    <3> QED
      BY <3>0, <3>1, <3>2
  <2> QED
    BY <2>1, <2>2, <2>3, SeqEqual
<1> QED
  BY <1>6, <1>7

-----------------------------------------------------------------------------
(* What is left after a deletion.                                           *)

(* The survivors are the kept events, all of them, in the order of the log. *)
LEMMA SurvivorsProperties ==
  ASSUME NEW log \in Seq(Event), NEW selection
  PROVE  /\ Survivors(log, selection) \in Seq(Event)
         /\ Len(Survivors(log, selection)) \in 0..Len(log)
         /\ \E f \in [1..Len(Survivors(log, selection)) -> 1..Len(log)] :
              /\ \A m, n \in 1..Len(Survivors(log, selection)) :
                   m < n => f[m] < f[n]
              /\ \A n \in 1..Len(Survivors(log, selection)) :
                   Survivors(log, selection)[n] = log[f[n]]
              /\ {f[n] : n \in 1..Len(Survivors(log, selection))}
                   = Kept(log, selection)
<1> DEFINE K == Kept(log, selection)
           N == Cardinality(K)
           rest == Survivors(log, selection)
           f == [n \in 1..N |-> Nth(K, n)]
<1>0. Len(log) \in Nat /\ \A i \in 1..Len(log) : log[i] \in Event
  BY LenProperties, ElementOfSeq
<1>1. K \in SUBSET (1..Len(log)) /\ K \in SUBSET Int
  BY DEF Kept
<1>2. /\ IsFiniteSet(1..Len(log))
      /\ Cardinality(1..Len(log)) = Len(log)
  <2> DEFINE L == Len(log)
  <2>1. L \in Nat
    BY <1>0
  <2> HIDE DEF L
  <2>2. /\ IsFiniteSet(1..L)
        /\ Cardinality(1..L) = IF 1 > L THEN 0 ELSE L - 1 + 1
    BY <2>1, FS_Interval
  <2> QED
    BY <2>1, <2>2 DEF L
<1>3. IsFiniteSet(K) /\ N \in 0..Len(log)
  BY <1>0, <1>1, <1>2, FS_Subset, FS_CardinalityType
<1>4. /\ \A n \in 1..N : Nth(K, n) \in K
      /\ \A m, n \in 1..N : m < n => Nth(K, m) < Nth(K, n)
      /\ \A k \in K : \E n \in 1..N : Nth(K, n) = k
  BY <1>1, <1>3, NthProperties
<1>5. rest = [n \in 1..N |-> log[Nth(K, n)]]
  BY DEF Survivors
<1> HIDE DEF K, rest, N
<1>6. rest \in Seq(Event) /\ Len(rest) = N
  <2>1. \A n \in 1..N : log[Nth(K, n)] \in Event
    BY <1>0, <1>1, <1>4
  <2> QED
    BY <1>3, <1>5, <2>1
<1>7. f \in [1..N -> 1..Len(log)]
  BY <1>1, <1>4
<1>8. /\ \A m, n \in 1..N : m < n => f[m] < f[n]
      /\ \A n \in 1..N : rest[n] = log[f[n]]
  BY <1>4, <1>5
<1>9. {f[n] : n \in 1..N} = K
  BY <1>4
<1> HIDE DEF f
<1> QED
  BY <1>3, <1>6, <1>7, <1>8, <1>9 DEF K, rest

(* A deletion leaves no two events with one id if there were none before. *)
LEMMA SurvivorsDistinct ==
  ASSUME NEW log \in Seq(Event), NEW selection,
         \A i, j \in 1..Len(log) : log[i].event_id = log[j].event_id => i = j
  PROVE  \A i, j \in 1..Len(Survivors(log, selection)) :
           Survivors(log, selection)[i].event_id
             = Survivors(log, selection)[j].event_id => i = j
<1> DEFINE rest == Survivors(log, selection)
<1>1. PICK f \in [1..Len(rest) -> 1..Len(log)] :
        /\ \A m, n \in 1..Len(rest) : m < n => f[m] < f[n]
        /\ \A n \in 1..Len(rest) : rest[n] = log[f[n]]
        /\ {f[n] : n \in 1..Len(rest)} = Kept(log, selection)
  BY SurvivorsProperties
<1>2. Len(rest) \in Nat /\ Len(log) \in Nat
  BY SurvivorsProperties, LenProperties
<1> HIDE DEF rest
<1> SUFFICES ASSUME NEW i \in 1..Len(rest), NEW j \in 1..Len(rest),
                    rest[i].event_id = rest[j].event_id
             PROVE  i = j
  BY DEF rest
<1>3. f[i] \in 1..Len(log) /\ f[j] \in 1..Len(log) /\ f[i] = f[j]
  BY <1>1
<1>4. ~(i < j) /\ ~(j < i)
  BY <1>1, <1>2, <1>3
<1> QED
  BY <1>2, <1>4

-----------------------------------------------------------------------------
(* What the methods preserve.                                               *)

LEMMA LoggedProperties ==
  ASSUME NEW events \in Seq(Row)
  PROVE  /\ Logged(events) \in Seq(Event)
         /\ Len(Logged(events)) = Len(events)
         /\ \A i \in 1..Len(events) : Logged(events)[i] = events[i].event
<1>1. Len(events) \in Nat /\ \A i \in 1..Len(events) : events[i] \in Row
  BY LenProperties, ElementOfSeq
<1>2. \A row \in Row : row.event \in Event
  BY DEF Row
<1>3. \A i \in 1..Len(events) : events[i].event \in Event
  BY <1>1, <1>2
<1> QED
  BY <1>1, <1>3 DEF Logged

LEMMA SetEvents ==
  ASSUME NEW r \in Repository, NEW events \in Seq(Row)
  PROVE  LET s == [r EXCEPT !.events = events]
         IN /\ s \in Repository
            /\ s.events = events
            /\ s.policy = r.policy
            /\ s.holds = r.holds
            /\ s.previews = r.previews
            /\ s.governance = r.governance
BY DEF Repository

LEMMA JournaledProperties ==
  ASSUME NEW r \in Repository, NEW entry \in JournalEntry
  PROVE  /\ Journaled(r, entry) \in Repository
         /\ Journaled(r, entry).events = r.events
         /\ Journaled(r, entry).policy = r.policy
         /\ Journaled(r, entry).holds = r.holds
         /\ Journaled(r, entry).previews = r.previews
         /\ Journaled(r, entry).governance = Append(r.governance, entry)
<1>1. Append(r.governance, entry) \in Seq(JournalEntry)
  BY AppendProperties DEF Repository
<1> QED
  BY <1>1 DEF Journaled, Repository

(* append() keeps the repository well formed, and either leaves it alone or
   adds one event whose id was free. *)
LEMMA AppendPreserves ==
  ASSUME NEW r, WellFormed(r), NEW uid, NEW e \in Event
  PROVE  LET s == AfterAppend(r, uid, e)
         IN /\ WellFormed(s)
            /\ s.holds = r.holds
            /\ s.previews = r.previews
            /\ s.governance = r.governance
            /\ \/ AppendOutcome(r, uid, e) # "accepted" /\ s = r
               \/ /\ AppendOutcome(r, uid, e) = "accepted"
                  /\ Logged(s.events) = Append(Logged(r.events), e)
                  /\ e.event_id \notin Ids(r.events)
<1> DEFINE s == AfterAppend(r, uid, e)
           log == Logged(r.events)
           longer == Append(log, e)
<1>0. r \in Repository /\ r.events \in Seq(Row) /\ log \in Seq(Event)
      /\ r.events = Chain(log) /\ DistinctIds(log) /\ Len(log) = Len(r.events)
      /\ Len(log) \in Nat
  BY LoggedProperties, LenProperties DEF WellFormed, Repository
<1>1. CASE AppendOutcome(r, uid, e) # "accepted"
  BY <1>1 DEF AfterAppend
<1>2. CASE AppendOutcome(r, uid, e) = "accepted"
  <2>1. e.event_id \notin Ids(r.events)
    BY <1>2 DEF AppendOutcome
  <2>2. /\ longer \in Seq(Event)
        /\ Len(longer) = Len(log) + 1
        /\ \A i \in 1..Len(log) : longer[i] = log[i]
        /\ longer[Len(log) + 1] = e
    BY <1>0, AppendProperties
  <2>3. /\ Append(r.events, NewRow(r.events, e)) = Chain(longer)
        /\ Chain(longer) \in Seq(Row)
        /\ Logged(Chain(longer)) = longer
    <3>1. Append(Chain(log), NewRow(Chain(log), e)) = Chain(longer)
      BY <1>0, ChainAppend
    <3>2. Chain(longer) \in Seq(Row) /\ Logged(Chain(longer)) = longer
      BY <2>2, ChainProperties
    <3> QED
      BY <1>0, <3>1, <3>2
  <2>4. s = [r EXCEPT !.events = Chain(longer)]
    BY <1>2, <2>3 DEF AfterAppend
  <2>5. /\ s \in Repository
        /\ s.events = Chain(longer)
        /\ s.holds = r.holds
        /\ s.previews = r.previews
        /\ s.governance = r.governance
    BY <1>0, <2>3, <2>4, SetEvents
  <2>6. DistinctIds(longer)
    <3>1. \A i \in 1..Len(log) : longer[i].event_id # e.event_id
      BY <1>0, <2>1, <2>2, LoggedProperties DEF Ids
    <3> HIDE DEF longer, log
    <3> SUFFICES ASSUME NEW i \in 1..Len(longer), NEW j \in 1..Len(longer),
                        longer[i].event_id = longer[j].event_id
                 PROVE  i = j
      BY DEF DistinctIds
    <3>2. /\ i \in 1..Len(log) \/ i = Len(log) + 1
          /\ j \in 1..Len(log) \/ j = Len(log) + 1
      BY <1>0, <2>2
    <3> QED
      BY <1>0, <2>2, <3>1, <3>2 DEF DistinctIds
  <2> HIDE DEF s, longer
  <2>7. WellFormed(s)
    BY <2>3, <2>5, <2>6 DEF WellFormed
  <2> QED
    BY <1>2, <2>1, <2>3, <2>5, <2>7 DEF s, longer
<1> QED
  BY <1>0, <1>1, <1>2

(* The other methods that write the journal, holds, policy or previews leave
   the events alone. *)
LEMMA SameEventsPreserves ==
  ASSUME NEW r, WellFormed(r), NEW s \in Repository, s.events = r.events
  PROVE  WellFormed(s)
BY DEF WellFormed

LEMMA SetPolicyTyped ==
  ASSUME NEW r \in Repository, NEW policy \in Policies, NEW actor \in Actors
  PROVE  LET s == AfterSetPolicy(r, policy, actor)
         IN /\ s \in Repository
            /\ s.events = r.events
            /\ s.holds = r.holds
            /\ s.previews = r.previews
            /\ \E entry \in JournalEntry :
                 /\ s.governance = Append(r.governance, entry)
                 /\ entry.event_type = "retention.policy.changed"
<1> DEFINE t == [r EXCEPT !.policy = policy]
           entry == [event_type |-> "retention.policy.changed", actor |-> actor,
                     enabled |-> policy.enabled,
                     max_entries |-> policy.max_entries]
<1>1. r \in Repository
  OBVIOUS
<1>2. /\ t \in Repository /\ t.events = r.events /\ t.holds = r.holds
      /\ t.previews = r.previews /\ t.governance = r.governance
  BY <1>1 DEF Repository
<1>3. entry \in JournalEntry /\ entry.event_type = "retention.policy.changed"
  BY PolicyAssumption DEF JournalEntry, PolicyEntry
<1>4. AfterSetPolicy(r, policy, actor) = Journaled(t, entry)
  BY DEF AfterSetPolicy
<1> HIDE DEF t, entry
<1>5. /\ Journaled(t, entry) \in Repository
      /\ Journaled(t, entry).events = r.events
      /\ Journaled(t, entry).holds = r.holds
      /\ Journaled(t, entry).previews = r.previews
      /\ Journaled(t, entry).governance = Append(r.governance, entry)
  BY <1>2, <1>3, JournaledProperties
<1> QED
  BY <1>3, <1>4, <1>5

LEMMA SetPolicyPreserves ==
  ASSUME NEW r, WellFormed(r), NEW policy \in Policies, NEW actor \in Actors
  PROVE  LET s == AfterSetPolicy(r, policy, actor)
         IN /\ WellFormed(s)
            /\ s.events = r.events
            /\ s.holds = r.holds
            /\ s.previews = r.previews
            /\ \E entry \in JournalEntry :
                 /\ s.governance = Append(r.governance, entry)
                 /\ entry.event_type = "retention.policy.changed"
BY SetPolicyTyped, SameEventsPreserves DEF WellFormed

CreatedHold(r, s, hold_id) ==
  \E hold \in Hold, entry \in JournalEntry :
    /\ s.holds = [r.holds EXCEPT ![hold_id] = hold]
    /\ ~hold.released
    /\ s.governance = Append(r.governance, entry)
    /\ entry.event_type = "governance.hold.created"
    /\ entry.hold_id = hold_id
    /\ entry.event_id = hold.event_id

ReleasedHold(r, s, hold_id) ==
  \E hold \in Hold, entry \in JournalEntry :
    /\ s.holds = [r.holds EXCEPT ![hold_id] = hold]
    /\ hold.released
    /\ s.governance = Append(r.governance, entry)
    /\ entry.event_type = "governance.hold.released"
    /\ entry.hold_id = hold_id

DeletedBy(r, s, id) ==
  \E entry \in JournalEntry :
    /\ r.previews[id] # None
    /\ s.previews = [r.previews EXCEPT ![id] = None]
    /\ s.governance = Append(r.governance, entry)
    /\ entry.event_type = "retention.events.deleted"
    /\ entry.selection = r.previews[id].event_ids
    /\ entry.selection \cap Held(r) = {}
    /\ Logged(s.events) = Survivors(Logged(r.events), entry.selection)
    /\ entry.count = Len(Logged(r.events)) - Len(Logged(s.events))

LEMMA CreateHoldTyped ==
  ASSUME NEW r \in Repository, NEW uid, NEW hold_id \in HoldIds,
         NEW event_id \in HoldTargets, NEW actor \in Actors
  PROVE  LET s == AfterCreateHold(r, uid, hold_id, event_id, actor)
         IN /\ s \in Repository
            /\ s.events = r.events
            /\ s.previews = r.previews
            /\ \/ CreateHoldOutcome(uid) # "created" /\ s = r
               \/ CreateHoldOutcome(uid) = "created" /\ CreatedHold(r, s, hold_id)
<1> DEFINE s == AfterCreateHold(r, uid, hold_id, event_id, actor)
           hold == [event_id |-> event_id, actor |-> actor, released |-> FALSE]
           t == [r EXCEPT !.holds[hold_id] = hold]
           entry == [event_type |-> "governance.hold.created", actor |-> actor,
                     hold_id |-> hold_id, event_id |-> event_id]
<1>1. r \in Repository
  OBVIOUS
<1>2. hold \in Hold /\ ~hold.released /\ hold.event_id = event_id
  BY DEF Hold
<1>3. /\ t \in Repository /\ t.events = r.events /\ t.previews = r.previews
      /\ t.governance = r.governance
      /\ t.holds = [r.holds EXCEPT ![hold_id] = hold]
  <2> HIDE DEF hold
  <2> QED
    BY <1>1, <1>2 DEF Repository
<1>4. /\ entry \in JournalEntry /\ entry.event_type = "governance.hold.created"
      /\ entry.hold_id = hold_id /\ entry.event_id = hold.event_id
  BY DEF JournalEntry, HoldEntry
<1>5. CASE CreateHoldOutcome(uid) = "created"
  <2>1. s = Journaled(t, entry)
    BY <1>5 DEF AfterCreateHold
  <2> HIDE DEF s, t, entry, hold
  <2>2. /\ s \in Repository /\ s.events = r.events /\ s.previews = r.previews
        /\ s.holds = [r.holds EXCEPT ![hold_id] = hold]
        /\ s.governance = Append(r.governance, entry)
    BY <1>3, <1>4, <2>1, JournaledProperties
  <2>4. CreatedHold(r, s, hold_id)
    BY <1>2, <1>4, <2>2 DEF CreatedHold
  <2> QED
    BY <1>5, <2>2, <2>4 DEF s
<1>6. CASE CreateHoldOutcome(uid) # "created"
  BY <1>6 DEF AfterCreateHold
<1> QED
  BY <1>5, <1>6

LEMMA CreateHoldPreserves ==
  ASSUME NEW r, WellFormed(r), NEW uid, NEW hold_id \in HoldIds,
         NEW event_id \in HoldTargets, NEW actor \in Actors
  PROVE  LET s == AfterCreateHold(r, uid, hold_id, event_id, actor)
         IN /\ WellFormed(s)
            /\ s.events = r.events
            /\ s.previews = r.previews
            /\ \/ CreateHoldOutcome(uid) # "created" /\ s = r
               \/ CreateHoldOutcome(uid) = "created" /\ CreatedHold(r, s, hold_id)
BY CreateHoldTyped, SameEventsPreserves DEF WellFormed

LEMMA ReleaseHoldTyped ==
  ASSUME NEW r \in Repository, NEW hold_id \in HoldIds, NEW actor \in Actors
  PROVE  LET s == AfterReleaseHold(r, hold_id, actor)
         IN /\ s \in Repository
            /\ s.events = r.events
            /\ s.previews = r.previews
            /\ \/ ReleaseHoldOutcome(r, hold_id) # "released" /\ s = r
               \/ /\ ReleaseHoldOutcome(r, hold_id) = "released"
                  /\ ReleasedHold(r, s, hold_id)
<1> DEFINE s == AfterReleaseHold(r, hold_id, actor)
           hold == [r.holds[hold_id] EXCEPT !.released = TRUE]
           t == [r EXCEPT !.holds[hold_id] = hold]
           entry == [event_type |-> "governance.hold.released",
                     actor |-> actor, hold_id |-> hold_id]
<1>1. r \in Repository
  OBVIOUS
<1>2. /\ entry \in JournalEntry /\ entry.event_type = "governance.hold.released"
      /\ entry.hold_id = hold_id
  BY DEF JournalEntry, ReleaseEntry
<1>3. CASE ReleaseHoldOutcome(r, hold_id) = "released"
  <2>1. r.holds[hold_id] \in Hold
    <3>1. r.holds[hold_id] \in Hold \cup {None}
      BY <1>1 DEF Repository
    <3>2. r.holds[hold_id] # None
      BY <1>3 DEF ReleaseHoldOutcome, ActiveHolds
    <3> QED
      BY <3>1, <3>2
  <2>2. hold \in Hold /\ hold.released
    BY <2>1 DEF Hold
  <2>3. /\ t \in Repository /\ t.events = r.events /\ t.previews = r.previews
        /\ t.governance = r.governance
        /\ t.holds = [r.holds EXCEPT ![hold_id] = hold]
    <3> HIDE DEF hold
    <3> QED
      BY <1>1, <2>2 DEF Repository
  <2>4. s = Journaled(t, entry)
    BY <1>3 DEF AfterReleaseHold
  <2> HIDE DEF s, t, entry, hold
  <2>5. /\ s \in Repository /\ s.events = r.events /\ s.previews = r.previews
        /\ s.holds = [r.holds EXCEPT ![hold_id] = hold]
        /\ s.governance = Append(r.governance, entry)
    <3>1. /\ Journaled(t, entry) \in Repository
          /\ Journaled(t, entry).events = t.events
          /\ Journaled(t, entry).previews = t.previews
          /\ Journaled(t, entry).holds = t.holds
          /\ Journaled(t, entry).governance = Append(t.governance, entry)
      BY <1>2, <2>3, JournaledProperties
    <3> QED
      BY <2>3, <2>4, <3>1
  <2>7. ReleasedHold(r, s, hold_id)
    BY <1>2, <2>2, <2>5 DEF ReleasedHold
  <2> QED
    BY <1>3, <2>5, <2>7 DEF s
<1>4. CASE ReleaseHoldOutcome(r, hold_id) # "released"
  BY <1>4 DEF AfterReleaseHold
<1> QED
  BY <1>3, <1>4

LEMMA ReleaseHoldPreserves ==
  ASSUME NEW r, WellFormed(r), NEW hold_id \in HoldIds, NEW actor \in Actors
  PROVE  LET s == AfterReleaseHold(r, hold_id, actor)
         IN /\ WellFormed(s)
            /\ s.events = r.events
            /\ s.previews = r.previews
            /\ \/ ReleaseHoldOutcome(r, hold_id) # "released" /\ s = r
               \/ /\ ReleaseHoldOutcome(r, hold_id) = "released"
                  /\ ReleasedHold(r, s, hold_id)
BY ReleaseHoldTyped, SameEventsPreserves DEF WellFormed

Previewed(r, s, id, ids) ==
  \E preview \in Preview :
    /\ s.previews = [r.previews EXCEPT ![id] = preview]
    /\ preview.event_ids = ids

LEMMA CreatePreviewTyped ==
  ASSUME NEW r \in Repository, NEW id \in PreviewIds, NEW actor \in Actors,
         NEW t \in Int
  PROVE  LET s == AfterCreatePreview(r, id, actor, t)
         IN /\ s \in Repository
            /\ s.events = r.events
            /\ s.holds = r.holds
            /\ s.governance = r.governance
            /\ Previewed(r, s, id, Selection(r, t))
<1> DEFINE preview == [event_ids |-> Selection(r, t), actor |-> actor,
                       expires_at |-> t + PreviewTTL]
           s == [r EXCEPT !.previews[id] = preview]
<1>1. r \in Repository
  OBVIOUS
<1>2. Selection(r, t) \in SUBSET EventIds
  <2>1. r.events \in Seq(Row)
    BY <1>1 DEF Repository
  <2>2. \A i \in 1..Len(r.events) : r.events[i].event \in Event
    BY <2>1, LoggedProperties, LenProperties, ElementOfSeq
  <2>3. \A e \in Event : e.event_id \in EventIds
    BY DEF Event
  <2> QED
    BY <2>2, <2>3 DEF Selection
<1>3. preview \in Preview /\ preview.event_ids = Selection(r, t)
  BY <1>2, TTLAssumption DEF Preview
<1> HIDE DEF preview
<1>4. /\ s \in Repository
      /\ s.events = r.events
      /\ s.holds = r.holds
      /\ s.governance = r.governance
      /\ s.previews = [r.previews EXCEPT ![id] = preview]
  BY <1>1, <1>3 DEF Repository
<1>5. s = AfterCreatePreview(r, id, actor, t)
  BY DEF AfterCreatePreview, preview
<1> HIDE DEF s
<1>6. Previewed(r, s, id, Selection(r, t))
  BY <1>3, <1>4 DEF Previewed
<1> QED
  BY <1>4, <1>5, <1>6

LEMMA CreatePreviewPreserves ==
  ASSUME NEW r, WellFormed(r), NEW id \in PreviewIds, NEW actor \in Actors,
         NEW t \in Int
  PROVE  LET s == AfterCreatePreview(r, id, actor, t)
         IN /\ WellFormed(s)
            /\ s.events = r.events
            /\ s.holds = r.holds
            /\ s.governance = r.governance
            /\ Previewed(r, s, id, Selection(r, t))
BY CreatePreviewTyped, SameEventsPreserves DEF WellFormed

(* delete_preview() leaves a well-formed repository, whatever the digests were
   before.  If it deletes, the journal entry it writes names a selection without
   held events, what is left are the survivors of that selection, and the entry
   counts the others. *)
LEMMA DeleteSeals ==
  ASSUME NEW r \in Repository, DistinctIds(Logged(r.events)),
         NEW id \in PreviewIds, NEW actor \in Actors,
         NEW blank, NEW t
  PROVE  LET s == AfterDelete(r, id, actor, blank, t)
         IN /\ s \in Repository
            /\ s.holds = r.holds
            /\ \/ DeleteOutcome(r, id, actor, blank, t) # "deleted" /\ s = r
               \/ /\ DeleteOutcome(r, id, actor, blank, t) = "deleted"
                  /\ WellFormed(s) /\ DeletedBy(r, s, id)
<1> DEFINE s == AfterDelete(r, id, actor, blank, t)
           log == Logged(r.events)
           selection == r.previews[id].event_ids
           rest == Survivors(log, selection)
           w == [r EXCEPT !.previews[id] = None]
           u == [w EXCEPT !.events = Chain(rest)]
           entry == [event_type |-> "retention.events.deleted", actor |-> actor,
                     count |-> Len(log) - Len(rest),
                     selection |-> selection]
<1>1. /\ r \in Repository /\ r.events \in Seq(Row) /\ log \in Seq(Event)
      /\ DistinctIds(log) /\ Len(log) = Len(r.events) /\ Len(log) \in Nat
  BY LoggedProperties, LenProperties DEF Repository
<1>2. CASE DeleteOutcome(r, id, actor, blank, t) # "deleted"
  BY <1>2 DEF AfterDelete
<1>3. CASE DeleteOutcome(r, id, actor, blank, t) = "deleted"
  <2>1. r.previews[id] # None /\ selection \cap Held(r) = {}
    BY <1>3 DEF DeleteOutcome, PreviewUsable
  <2>2. selection \in SUBSET EventIds
    <3>1. r.previews[id] \in Preview
      BY <1>1, <2>1 DEF Repository
    <3> QED
      BY <3>1 DEF Preview
  <2>3. rest \in Seq(Event) /\ Len(rest) \in 0..Len(log)
    BY <1>1, SurvivorsProperties
  <2>4. DistinctIds(rest)
    BY <1>1, SurvivorsDistinct DEF DistinctIds
  <2>5. /\ Chain(rest) \in Seq(Row)
        /\ Len(Chain(rest)) = Len(rest)
        /\ Logged(Chain(rest)) = rest
    BY <2>3, ChainProperties
  <2>6. /\ w \in Repository
        /\ w.holds = r.holds /\ w.governance = r.governance
        /\ w.previews = [r.previews EXCEPT ![id] = None]
    BY <1>1 DEF Repository
  <2>7. s = Journaled(u, entry)
    BY <1>1, <1>3, <2>5 DEF AfterDelete, Resealed, WithoutPreview, DeletedCount
  <2>8. entry \in JournalEntry
    <3>1. Len(log) - Len(rest) \in Nat
      BY <1>1, <2>3
    <3> HIDE DEF log, rest, selection
    <3> QED
      BY <2>2, <3>1 DEF JournalEntry, DeletionEntry
  <2>9. /\ entry.event_type = "retention.events.deleted"
        /\ entry.selection = selection
        /\ entry.count = Len(log) - Len(rest)
    OBVIOUS
  <2> HIDE DEF w, rest, entry, s, selection, log
  <2>10. /\ u \in Repository
         /\ u.events = Chain(rest)
         /\ u.holds = r.holds
         /\ u.previews = [r.previews EXCEPT ![id] = None]
         /\ u.governance = r.governance
    BY <2>5, <2>6, SetEvents
  <2> HIDE DEF u
  <2>11. /\ s \in Repository
         /\ s.events = Chain(rest)
         /\ s.holds = r.holds
         /\ s.previews = [r.previews EXCEPT ![id] = None]
         /\ s.governance = Append(r.governance, entry)
    BY <2>7, <2>8, <2>10, JournaledProperties
  <2>12. WellFormed(s)
    BY <2>4, <2>5, <2>11 DEF WellFormed
  <2> QED
    <3>1. DeletedBy(r, s, id)
      BY <2>1, <2>5, <2>8, <2>9, <2>11 DEF DeletedBy, log, rest, selection
    <3> QED
      BY <1>3, <2>11, <2>12, <3>1 DEF s
<1> QED
  BY <1>2, <1>3

(* ... and a well-formed repository stays one when nothing is deleted, too. *)
LEMMA DeletePreserves ==
  ASSUME NEW r, WellFormed(r), NEW id \in PreviewIds, NEW actor \in Actors,
         NEW blank, NEW t
  PROVE  LET s == AfterDelete(r, id, actor, blank, t)
         IN /\ WellFormed(s)
            /\ s.holds = r.holds
            /\ \/ DeleteOutcome(r, id, actor, blank, t) # "deleted" /\ s = r
               \/ DeleteOutcome(r, id, actor, blank, t) = "deleted" /\ DeletedBy(r, s, id)
BY DeleteSeals DEF WellFormed

(* In a well-formed repository a stored event is its own replay. *)
LEMMA WellFormedRecognisesReplays ==
  ASSUME NEW r, WellFormed(r), NEW i \in 1..Len(r.events)
  PROVE  AppendOutcome(r, ObjectUid, r.events[i].event) = "IdempotentReplay"
<1> DEFINE log == Logged(r.events)
           e == r.events[i].event
           p == PositionOf(r.events, e.event_id)
<1>1. /\ r.events \in Seq(Row) /\ log \in Seq(Event)
      /\ r.events = Chain(log) /\ DistinctIds(log) /\ Len(log) = Len(r.events)
      /\ \A n \in 1..Len(r.events) : log[n] = r.events[n].event
  BY LoggedProperties DEF WellFormed, Repository
<1>2. e.event_id \in Ids(r.events)
  BY DEF Ids
<1>3. \A n \in 1..Len(r.events) : r.events[n].event.event_id = e.event_id => n = i
  BY <1>1 DEF DistinctIds
<1>4. p = i
  <2>1. Len(r.events) \in Nat
    BY <1>1, LenProperties
  <2>2. \A j \in 1..(i - 1) : r.events[j].event.event_id # e.event_id
    BY <1>3, <2>1
  <2> QED
    BY <1>3, <2>2 DEF PositionOf
<1>5. RowOf(e, r.events[i].sequence, r.events[i].previous_digest) = r.events[i]
  <2> DEFINE d == Evidence(log, i - 1)
  <2>1. Len(log) \in Nat /\ log[i] \in Event
    BY <1>1, LenProperties, ElementOfSeq
  <2>2. i \in Nat /\ i - 1 \in 0..Len(log)
    BY <1>1, <2>1
  <2>3. d \in Digests
    BY <1>1, <2>2, EvidenceProperties
  <2>4. r.events[i] = RowOf(log[i], i, d)
    BY <1>1, ChainProperties
  <2> HIDE DEF d
  <2>5. /\ r.events[i].sequence = i
        /\ r.events[i].previous_digest = d
        /\ r.events[i].event = log[i]
    BY <2>1, <2>2, <2>3, <2>4, RowOfProperties
  <2> QED
    BY <2>4, <2>5
<1> QED
  BY <1>2, <1>4, <1>5 DEF AppendOutcome

LEMMA SealedOfWellFormed ==
  ASSUME NEW r, WellFormed(r)
  PROVE  Sealed(r.events)
BY DEF WellFormed, Sealed, Repository

(* A repository opened on stored rows. *)
LEMMA LoadedRows ==
  ASSUME NEW rows \in Seq(Row)
  PROVE  /\ [EmptyRepository EXCEPT !.events = rows] \in Repository
         /\ [EmptyRepository EXCEPT !.events = rows].events = rows
<1>1. EmptyRepository \in Repository
  BY PolicyAssumption, EmptySeq DEF EmptyRepository, Repository
<1> QED
  BY <1>1, SetEvents

LEMMA LoadedSealed ==
  ASSUME NEW rows, Sealed(rows)
  PROVE  /\ WellFormed([EmptyRepository EXCEPT !.events = rows])
         /\ [EmptyRepository EXCEPT !.events = rows].events = rows
BY LoadedRows DEF WellFormed, Sealed

-----------------------------------------------------------------------------
(* Which event ids the methods add and take away.                           *)

LEMMA IdsOfRows ==
  ASSUME NEW rows \in Seq(Row)
  PROVE  /\ Logged(rows) \in Seq(Event)
         /\ Len(Logged(rows)) \in Nat
         /\ Len(Logged(rows)) = Len(rows)
         /\ \A i \in 1..Len(rows) : Logged(rows)[i] = rows[i].event
         /\ Ids(rows) = {Logged(rows)[i].event_id : i \in 1..Len(rows)}
         /\ Ids(rows) \subseteq EventIds
<1> DEFINE log == Logged(rows)
<1>1. /\ log \in Seq(Event) /\ Len(log) = Len(rows)
      /\ \A i \in 1..Len(rows) : log[i] = rows[i].event
  BY LoggedProperties
<1>2. Len(log) \in Nat /\ \A i \in 1..Len(log) : log[i] \in Event
  BY <1>1, LenProperties, ElementOfSeq
<1>3. \A i \in 1..Len(log) : log[i].event_id \in EventIds
  BY <1>2 DEF Event
<1> HIDE DEF log
<1>4. Ids(rows) = {log[i].event_id : i \in 1..Len(rows)}
  BY <1>1 DEF Ids
<1>5. Ids(rows) \subseteq EventIds
  BY <1>1, <1>3, <1>4
<1> QED
  BY <1>1, <1>2, <1>4, <1>5 DEF log

LEMMA IdsOfLogged ==
  ASSUME NEW r, WellFormed(r)
  PROVE  /\ Logged(r.events) \in Seq(Event)
         /\ Len(Logged(r.events)) \in Nat
         /\ Len(Logged(r.events)) = Len(r.events)
         /\ DistinctIds(Logged(r.events))
         /\ \A i \in 1..Len(r.events) : Logged(r.events)[i] = r.events[i].event
         /\ Ids(r.events) = {Logged(r.events)[i].event_id : i \in 1..Len(r.events)}
         /\ Ids(r.events) \subseteq EventIds
BY IdsOfRows DEF WellFormed, Repository

LEMMA AppendIds ==
  ASSUME NEW r, WellFormed(r), NEW uid, NEW e \in Event,
         AppendOutcome(r, uid, e) = "accepted"
  PROVE  /\ e.event_id \notin Ids(r.events)
         /\ Ids(AfterAppend(r, uid, e).events) = Ids(r.events) \cup {e.event_id}
<1> DEFINE s == AfterAppend(r, uid, e)
           log == Logged(r.events)
           longer == Append(log, e)
           n == Len(log)
<1>1. /\ WellFormed(s)
      /\ Logged(s.events) = longer
      /\ e.event_id \notin Ids(r.events)
  BY AppendPreserves
<1> HIDE DEF s
<1>2. log \in Seq(Event) /\ n \in Nat
      /\ Ids(r.events) = {log[i].event_id : i \in 1..n}
  BY IdsOfLogged
<1>3. Len(longer) = n + 1 /\ longer[n + 1] = e
      /\ \A i \in 1..n : longer[i] = log[i]
  BY <1>2, AppendProperties
<1>4. Ids(s.events) = {longer[i].event_id : i \in 1..(n + 1)}
  <2>1. Len(Logged(s.events)) = Len(s.events)
    BY <1>1, IdsOfLogged
  <2>2. Ids(s.events) = {Logged(s.events)[i].event_id : i \in 1..Len(s.events)}
    BY <1>1, IdsOfLogged
  <2> QED
    BY <1>1, <1>3, <2>1, <2>2
<1> HIDE DEF longer, log, n
<1>5. /\ \A i \in 1..(n + 1) : i \in 1..n \/ i = n + 1
      /\ 1..n \subseteq 1..(n + 1) /\ n + 1 \in 1..(n + 1)
  BY <1>2
<1>6. {longer[i].event_id : i \in 1..(n + 1)}
        = {log[i].event_id : i \in 1..n} \cup {e.event_id}
  BY <1>3, <1>5
<1> QED
  BY <1>1, <1>2, <1>4, <1>6 DEF s

LEMMA DeletedIdsOf ==
  ASSUME NEW r \in Repository, NEW s \in Repository, NEW id, DeletedBy(r, s, id)
  PROVE  Ids(s.events) = Ids(r.events) \ r.previews[id].event_ids
<1> DEFINE log == Logged(r.events)
           selection == r.previews[id].event_ids
           rest == Survivors(log, selection)
<1>1. Logged(s.events) = rest
  BY DEF DeletedBy
<1>2. log \in Seq(Event)
      /\ Ids(r.events) = {log[i].event_id : i \in 1..Len(log)}
  BY IdsOfRows DEF Repository
<1>3. Ids(s.events) = {rest[i].event_id : i \in 1..Len(rest)}
  <2>1. Len(Logged(s.events)) = Len(s.events)
    BY IdsOfRows DEF Repository
  <2>2. Ids(s.events) = {Logged(s.events)[i].event_id : i \in 1..Len(s.events)}
    BY IdsOfRows DEF Repository
  <2> QED
    BY <1>1, <2>1, <2>2
<1>4. PICK f \in [1..Len(rest) -> 1..Len(log)] :
        /\ \A m, n \in 1..Len(rest) : m < n => f[m] < f[n]
        /\ \A n \in 1..Len(rest) : rest[n] = log[f[n]]
        /\ {f[n] : n \in 1..Len(rest)} = Kept(log, selection)
  BY <1>2, SurvivorsProperties
<1> HIDE DEF rest, log, selection
<1>5. {rest[n].event_id : n \in 1..Len(rest)}
        = {log[i].event_id : i \in Kept(log, selection)}
  BY <1>4
<1>6. {log[i].event_id : i \in Kept(log, selection)} = Ids(r.events) \ selection
  BY <1>2 DEF Kept
<1> QED
  BY <1>3, <1>5, <1>6 DEF selection

LEMMA DeletedIds ==
  ASSUME NEW r, WellFormed(r), NEW s, WellFormed(s), NEW id, DeletedBy(r, s, id)
  PROVE  Ids(s.events) = Ids(r.events) \ r.previews[id].event_ids
BY DeletedIdsOf DEF WellFormed

-----------------------------------------------------------------------------
(* Every method is a step of GovernedLog or changes nothing it sees.  Stated   *)
(* of the state before and the state after, for the classes that hold it.      *)

Recorded(r, s) ==
  LET old == Logged(r.events)
      new == Logged(s.events)
  IN /\ Len(new) = Len(old) + 1
     /\ new = Append(old, new[Len(old) + 1])
     /\ new[Len(old) + 1].event_id \notin {old[i].event_id : i \in DOMAIN old}
     /\ Held(s) = Held(r)
     /\ s.governance = r.governance

Wrote(r, s, isDeletion) ==
  LET n == Len(r.governance) + 1
  IN /\ Len(s.governance) = n
     /\ s.governance = Append(r.governance, s.governance[n])
     /\ (s.governance[n].event_type = "retention.events.deleted") <=> isDeletion

Remains(new, old, erased) ==
  \E f \in [DOMAIN new -> DOMAIN old] :
    /\ \A m, n \in DOMAIN new : m < n => f[m] < f[n]
    /\ \A n \in DOMAIN new : new[n] = old[f[n]]
    /\ {f[n] : n \in DOMAIN new} = {i \in DOMAIN old : old[i].event_id \notin erased}

Erased(r, s) ==
  LET entry == s.governance[Len(r.governance) + 1]
      old == Logged(r.events)
      new == Logged(s.events)
  IN /\ Wrote(r, s, TRUE)
     /\ entry.selection \cap Held(r) = {}
     /\ Remains(new, old, entry.selection)
     /\ entry.count = Len(old) - Len(new)
     /\ Held(s) = Held(r)

Ruled(r, s) == Wrote(r, s, FALSE) /\ s.events = r.events

Unseen(r, s) ==
  s.events = r.events /\ Held(s) = Held(r) /\ s.governance = r.governance

GovernedStep(r, s) == Recorded(r, s) \/ Erased(r, s) \/ Ruled(r, s) \/ Unseen(r, s)

LEMMA AppendedEntry ==
  ASSUME NEW g \in Seq(JournalEntry), NEW entry \in JournalEntry
  PROVE  /\ Len(Append(g, entry)) = Len(g) + 1
         /\ Append(g, entry)[Len(g) + 1] = entry
         /\ \A i \in 1..Len(g) : Append(g, entry)[i] = g[i]
         /\ Len(g) \in Nat
BY AppendProperties, LenProperties

LEMMA AppendGoverned ==
  ASSUME NEW r, WellFormed(r), NEW uid, NEW e \in Event
  PROVE  GovernedStep(r, AfterAppend(r, uid, e))
<1> DEFINE s == AfterAppend(r, uid, e)
           log == Logged(r.events)
<1>1. log \in Seq(Event) /\ Len(log) = Len(r.events)
      /\ \A i \in 1..Len(log) : log[i] = r.events[i].event
  BY LoggedProperties DEF WellFormed, Repository
<1>2. /\ s.holds = r.holds
      /\ s.governance = r.governance
      /\ \/ s = r
         \/ /\ Logged(s.events) = Append(log, e)
            /\ e.event_id \notin Ids(r.events)
  BY AppendPreserves
<1> HIDE DEF s
<1>3. Held(s) = Held(r)
  BY <1>2 DEF Held, ActiveHolds
<1>4. s = r => GovernedStep(r, s)
  BY DEF GovernedStep, Unseen
<1>5. ASSUME Logged(s.events) = Append(log, e), e.event_id \notin Ids(r.events)
      PROVE  GovernedStep(r, s)
  <2>1. Len(Append(log, e)) = Len(log) + 1 /\ Append(log, e)[Len(log) + 1] = e
    BY <1>1, AppendProperties
  <2>2. e.event_id \notin {log[i].event_id : i \in DOMAIN log}
    <3>1. DOMAIN log = 1..Len(log)
      BY <1>1, LenProperties
    <3> QED
      BY <1>1, <1>5, <3>1 DEF Ids
  <2> QED
    BY <1>2, <1>3, <1>5, <2>1, <2>2 DEF GovernedStep, Recorded
<1> QED
  BY <1>2, <1>4, <1>5 DEF s

LEMMA SetPolicyGoverned ==
  ASSUME NEW r, WellFormed(r), NEW policy \in Policies, NEW actor \in Actors
  PROVE  GovernedStep(r, AfterSetPolicy(r, policy, actor))
<1> DEFINE s == AfterSetPolicy(r, policy, actor)
<1>1. r.governance \in Seq(JournalEntry)
  BY DEF WellFormed, Repository
<1>2. PICK entry \in JournalEntry :
        /\ s.governance = Append(r.governance, entry)
        /\ entry.event_type = "retention.policy.changed"
  BY SetPolicyPreserves
<1>3. s.events = r.events
  BY SetPolicyPreserves
<1> HIDE DEF s
<1>4. Ruled(r, s)
  BY <1>1, <1>2, <1>3, AppendedEntry DEF Ruled, Wrote
<1> QED
  BY <1>4 DEF GovernedStep, s

LEMMA CreatePreviewGoverned ==
  ASSUME NEW r, WellFormed(r), NEW id \in PreviewIds, NEW actor \in Actors,
         NEW t \in Int
  PROVE  GovernedStep(r, AfterCreatePreview(r, id, actor, t))
<1> DEFINE s == AfterCreatePreview(r, id, actor, t)
<1>1. s.events = r.events /\ s.holds = r.holds /\ s.governance = r.governance
  BY CreatePreviewPreserves
<1> HIDE DEF s
<1>2. Unseen(r, s)
  BY <1>1 DEF Unseen, Held, ActiveHolds
<1> QED
  BY <1>2 DEF GovernedStep, s

LEMMA CreateHoldGoverned ==
  ASSUME NEW r, WellFormed(r), NEW uid, NEW hold_id \in HoldIds,
         NEW event_id \in HoldTargets, NEW actor \in Actors
  PROVE  GovernedStep(r, AfterCreateHold(r, uid, hold_id, event_id, actor))
<1> DEFINE s == AfterCreateHold(r, uid, hold_id, event_id, actor)
<1>1. r.governance \in Seq(JournalEntry)
  BY DEF WellFormed, Repository
<1>2. s.events = r.events /\ (s = r \/ CreatedHold(r, s, hold_id))
  BY CreateHoldPreserves
<1> HIDE DEF s
<1>3. s = r => GovernedStep(r, s)
  BY DEF GovernedStep, Unseen
<1>4. ASSUME CreatedHold(r, s, hold_id) PROVE Ruled(r, s)
  <2>1. PICK entry \in JournalEntry :
          /\ s.governance = Append(r.governance, entry)
          /\ entry.event_type = "governance.hold.created"
    BY <1>4 DEF CreatedHold
  <2> QED
    BY <1>1, <1>2, <2>1, AppendedEntry DEF Ruled, Wrote
<1> QED
  BY <1>2, <1>3, <1>4 DEF GovernedStep, s

LEMMA ReleaseHoldGoverned ==
  ASSUME NEW r, WellFormed(r), NEW hold_id \in HoldIds, NEW actor \in Actors
  PROVE  GovernedStep(r, AfterReleaseHold(r, hold_id, actor))
<1> DEFINE s == AfterReleaseHold(r, hold_id, actor)
<1>1. r.governance \in Seq(JournalEntry)
  BY DEF WellFormed, Repository
<1>2. s.events = r.events /\ (s = r \/ ReleasedHold(r, s, hold_id))
  BY ReleaseHoldPreserves
<1> HIDE DEF s
<1>3. s = r => GovernedStep(r, s)
  BY DEF GovernedStep, Unseen
<1>4. ASSUME ReleasedHold(r, s, hold_id) PROVE Ruled(r, s)
  <2>1. PICK entry \in JournalEntry :
          /\ s.governance = Append(r.governance, entry)
          /\ entry.event_type = "governance.hold.released"
    BY <1>4 DEF ReleasedHold
  <2> QED
    BY <1>1, <1>2, <2>1, AppendedEntry DEF Ruled, Wrote
<1> QED
  BY <1>2, <1>3, <1>4 DEF GovernedStep, s

LEMMA DeleteGoverned ==
  ASSUME NEW r, WellFormed(r), NEW id \in PreviewIds, NEW actor \in Actors,
         NEW blank, NEW t
  PROVE  GovernedStep(r, AfterDelete(r, id, actor, blank, t))
<1> DEFINE s == AfterDelete(r, id, actor, blank, t)
           log == Logged(r.events)
<1>1. log \in Seq(Event) /\ r.governance \in Seq(JournalEntry)
  BY LoggedProperties DEF WellFormed, Repository
<1>2. /\ s.holds = r.holds
      /\ s = r \/ DeletedBy(r, s, id)
  BY DeletePreserves
<1> HIDE DEF s
<1>3. Held(s) = Held(r)
  BY <1>2 DEF Held, ActiveHolds
<1>4. s = r => GovernedStep(r, s)
  BY DEF GovernedStep, Unseen
<1>5. ASSUME DeletedBy(r, s, id) PROVE Erased(r, s)
  <2>0. PICK entry \in JournalEntry :
          /\ s.governance = Append(r.governance, entry)
          /\ entry.event_type = "retention.events.deleted"
          /\ entry.selection \cap Held(r) = {}
          /\ Logged(s.events) = Survivors(log, entry.selection)
          /\ entry.count = Len(log) - Len(Logged(s.events))
    BY <1>5 DEF DeletedBy
  <2> DEFINE rest == Survivors(log, entry.selection)
  <2>1. Remains(rest, log, entry.selection)
    <3>1. DOMAIN log = 1..Len(log) /\ DOMAIN rest = 1..Len(rest)
      BY <1>1, SurvivorsProperties, LenProperties
    <3>2. PICK f \in [1..Len(rest) -> 1..Len(log)] :
            /\ \A m, n \in 1..Len(rest) : m < n => f[m] < f[n]
            /\ \A n \in 1..Len(rest) : rest[n] = log[f[n]]
            /\ {f[n] : n \in 1..Len(rest)} = Kept(log, entry.selection)
      BY <1>1, SurvivorsProperties
    <3> HIDE DEF rest, log
    <3>3. Kept(log, entry.selection)
            = {i \in DOMAIN log : log[i].event_id \notin entry.selection}
      BY <3>1 DEF Kept
    <3>4. /\ f \in [DOMAIN rest -> DOMAIN log]
          /\ \A m, n \in DOMAIN rest : m < n => f[m] < f[n]
          /\ \A n \in DOMAIN rest : rest[n] = log[f[n]]
          /\ {f[n] : n \in DOMAIN rest}
               = {i \in DOMAIN log : log[i].event_id \notin entry.selection}
      BY <3>1, <3>2, <3>3
    <3> QED
      BY <3>4 DEF Remains
  <2>2. Wrote(r, s, TRUE) /\ s.governance[Len(r.governance) + 1] = entry
    BY <1>1, <2>0, AppendedEntry DEF Wrote
  <2> QED
    BY <1>3, <2>0, <2>1, <2>2 DEF Erased
<1> QED
  BY <1>2, <1>4, <1>5 DEF GovernedStep, s

-----------------------------------------------------------------------------
(* What previews select and what deletions leave in the journal.              *)

(* Deleting what an enabled policy selects leaves at most max_entries events
   no hold protects, and none of those expired. *)
LEMMA SelectionReachesPolicy ==
  ASSUME NEW r, WellFormed(r), NEW t \in Int, r.policy.enabled
  PROVE  LET rest == Survivors(Logged(r.events), Selection(r, t))
             free == {i \in 1..Len(rest) : rest[i].event_id \notin Held(r)}
         IN /\ Cardinality(free) <= r.policy.max_entries
            /\ \A i \in free : ~Expired(r.policy, rest[i], t)
<1> DEFINE log == Logged(r.events)
           N == Len(log)
           M == r.policy.max_entries
           selection == Selection(r, t)
           rest == Survivors(log, selection)
           free == {i \in 1..Len(rest) : rest[i].event_id \notin Held(r)}
           low == IF N > M THEN N - M + 1 ELSE 1
<1>1. /\ log \in Seq(Event) /\ N = Len(r.events) /\ N \in Nat
      /\ \A i \in 1..N : log[i] = r.events[i].event
  BY LoggedProperties, LenProperties DEF WellFormed, Repository
<1>2. M \in Nat \ {0}
  BY PolicyAssumption DEF WellFormed, Repository
<1>3. PICK f \in [1..Len(rest) -> 1..N] :
        /\ \A m, n \in 1..Len(rest) : m < n => f[m] < f[n]
        /\ \A n \in 1..Len(rest) : rest[n] = log[f[n]]
        /\ {f[n] : n \in 1..Len(rest)} = Kept(log, selection)
  BY <1>1, SurvivorsProperties
<1>4. Len(rest) \in Nat
  BY <1>1, SurvivorsProperties
<1>5. \A i \in 1..N : \/ Expired(r.policy, log[i], t)
                      \/ i \in Overflow(r)
                      => log[i].event_id \in selection \cup Held(r)
  BY <1>1 DEF Selection
<1> HIDE DEF selection, rest, log
<1>6. ASSUME NEW i \in free
      PROVE  /\ f[i] \in 1..N
             /\ ~Expired(r.policy, rest[i], t)
             /\ f[i] \notin Overflow(r)
  <2>1. f[i] \in 1..N /\ f[i] \in Kept(log, selection) /\ rest[i] = log[f[i]]
    BY <1>3
  <2>2. log[f[i]].event_id \notin selection \cup Held(r)
    BY <2>1 DEF Kept
  <2> QED
    BY <1>5, <2>1, <2>2
<1>7. \A i \in free : f[i] \in low..N
  BY <1>1, <1>2, <1>6 DEF Overflow
<1>8. /\ IsFiniteSet(low..N)
      /\ Cardinality(low..N) \in Nat
      /\ Cardinality(low..N) <= M
  <2>1. low \in Int /\ N \in Int
    BY <1>1, <1>2
  <2>2. low > N \/ N - low + 1 <= M
    BY <1>1, <1>2
  <2> HIDE DEF low, N
  <2>3. /\ IsFiniteSet(low..N)
        /\ Cardinality(low..N) = IF low > N THEN 0 ELSE N - low + 1
    BY <2>1, FS_Interval
  <2>4. Cardinality(low..N) \in Nat
    BY <2>1, <2>3
  <2> QED
    BY <1>2, <2>1, <2>2, <2>3, <2>4
<1>9. Cardinality(free) <= Cardinality(low..N) /\ Cardinality(free) \in Nat
  <2> DEFINE g == [i \in free |-> f[i]]
  <2>1. \A i, j \in free : f[i] = f[j] => i = j
    <3> SUFFICES ASSUME NEW i \in free, NEW j \in free, f[i] = f[j]
                 PROVE  i = j
      OBVIOUS
    <3>1. i \in 1..Len(rest) /\ j \in 1..Len(rest) /\ f[i] \in 1..N
      BY <1>6
    <3>2. ~(i < j) /\ ~(j < i)
      BY <1>1, <1>3, <3>1
    <3> QED
      BY <1>4, <3>1, <3>2
  <2>2. g \in Injection(free, low..N)
    BY <1>7, <2>1 DEF Injection, IsInjective
  <2> HIDE DEF free, low, N
  <2> QED
    BY <1>8, <2>2, FS_Injection, FS_CardinalityType
<1>10. Cardinality(free) <= M
  <2> HIDE DEF free, low, M, N
  <2> QED
    BY <1>2, <1>8, <1>9
<1> QED
  BY <1>6, <1>10 DEF log, rest, selection

(* An entry that is not about a deletion adds none; one that is adds one. *)
LEMMA DeletionsAppended ==
  ASSUME NEW r, NEW s, r.governance \in Seq(JournalEntry),
         NEW entry \in JournalEntry,
         s.governance = Append(r.governance, entry)
  PROVE  Deletions(s) =
           IF entry.event_type = "retention.events.deleted"
           THEN Deletions(r) \cup {Len(r.governance) + 1}
           ELSE Deletions(r)
<1> DEFINE g == r.governance
           n == Len(g)
<1>1. /\ Len(s.governance) = n + 1 /\ n \in Nat
      /\ s.governance[n + 1] = entry
      /\ \A i \in 1..n : s.governance[i] = g[i]
  BY AppendedEntry
<1>2. 1..(n + 1) = (1..n) \cup {n + 1}
  BY <1>1
<1> QED
  BY <1>1, <1>2 DEF Deletions

LEMMA DeletionsFinite ==
  ASSUME NEW r, r.governance \in Seq(JournalEntry)
  PROVE  /\ IsFiniteSet(Deletions(r))
         /\ Cardinality(Deletions(r)) \in Nat
         /\ Len(r.governance) + 1 \notin Deletions(r)
<1>1. Len(r.governance) \in Nat
  BY LenProperties
<1>2. IsFiniteSet(1..Len(r.governance))
  BY <1>1, FS_Interval
<1>3. Deletions(r) \in SUBSET (1..Len(r.governance))
  BY DEF Deletions
<1> QED
  BY <1>1, <1>2, <1>3, FS_Subset, FS_CardinalityType

-----------------------------------------------------------------------------
(* The loops of delete_preview.  What they have done after n rows is compared *)
(* with the closed form over the first n rows; a first row where they differ  *)
(* would be preceded by rows where they do not.                              *)

LEMMA SmallestElement ==
  ASSUME NEW T \in SUBSET Nat, T # {}
  PROVE  \E m \in T : \A n \in T : m <= n
<1>1. PICK m \in T : \A n \in T : <<n, m>> \notin OpToRel(<, Nat)
  BY NatLessThanWellFounded, WFMin
<1>2. \A n \in T : ~(n < m)
  BY <1>1 DEF OpToRel
<1> QED
  BY <1>2

LEMMA NthUnique ==
  ASSUME NEW K \in SUBSET Int, IsFiniteSet(K), NEW k \in K
  PROVE  Nth(K, Rank(K, k)) = k
<1> DEFINE n == Rank(K, k)
<1>1. n \in 1..Cardinality(K)
  BY RankProperties
<1>2. Nth(K, n) \in K /\ Rank(K, Nth(K, n)) = n
  BY <1>1, RankProperties DEF Nth, Rank
<1> DEFINE i == Nth(K, n)
<1>3. i \in K /\ Rank(K, i) = Rank(K, k)
  BY <1>2
<1> HIDE DEF n, i
<1>4. \A a, b \in K : a < b => Rank(K, a) < Rank(K, b)
  BY RankProperties
<1>5. Rank(K, k) \in Int
  BY RankProperties
<1>6. ~(i < k) /\ ~(k < i)
  BY <1>3, <1>4, <1>5
<1>7. i \in Int /\ k \in Int
  BY <1>3
<1> QED
  BY <1>6, <1>7 DEF i, n

(* The rows the comprehension has kept of the first n. *)
KeptTo(events, selection, n) ==
  {i \in 1..n : events[i].event.event_id \notin selection}

FilteredTo(events, selection, n) ==
  LET K == KeptTo(events, selection, n)
  IN [m \in 1..Cardinality(K) |-> events[Nth(K, m)]]

LEMMA FilteredNext ==
  ASSUME NEW events \in Seq(Row), NEW selection, NEW n \in 1..Len(events)
  PROVE  FilteredTo(events, selection, n) =
           IF events[n].event.event_id \in selection
           THEN FilteredTo(events, selection, n - 1)
           ELSE Append(FilteredTo(events, selection, n - 1), events[n])
<1> DEFINE K == KeptTo(events, selection, n)
           L == KeptTo(events, selection, n - 1)
           shorter == FilteredTo(events, selection, n - 1)
<1>1. Len(events) \in Nat /\ n \in Nat /\ n - 1 \in Nat
      /\ \A i \in 1..Len(events) : events[i] \in Row
  BY LenProperties, ElementOfSeq
<1>2. /\ L \in SUBSET Int /\ IsFiniteSet(L) /\ Cardinality(L) \in Nat
      /\ L \subseteq 1..(n - 1) /\ n \notin L
  <2>1. IsFiniteSet(1..(n - 1))
    BY <1>1, FS_Interval
  <2>2. L \in SUBSET (1..(n - 1))
    BY DEF KeptTo
  <2>3. n \notin 1..(n - 1)
    BY <1>1
  <2> QED
    BY <1>1, <2>1, <2>2, <2>3, FS_Subset, FS_CardinalityType
<1>3. CASE events[n].event.event_id \in selection
  <2>1. K = L
    BY <1>1, <1>3 DEF KeptTo
  <2> QED
    BY <1>3, <2>1 DEF FilteredTo
<1>4. CASE events[n].event.event_id \notin selection
  <2>1. K = L \cup {n}
    BY <1>1, <1>4 DEF KeptTo
  <2> HIDE DEF K, L
  <2>2. /\ IsFiniteSet(K) /\ K \in SUBSET Int
        /\ Cardinality(K) = Cardinality(L) + 1
    <3>1. IsFiniteSet(L \cup {n}) /\ Cardinality(L \cup {n}) = Cardinality(L) + 1
      BY <1>2, FS_AddElement
    <3> QED
      BY <1>1, <1>2, <2>1, <3>1
  <2>3. ASSUME NEW k \in L PROVE Rank(K, k) = Rank(L, k)
    <3>1. {j \in K : j <= k} = {j \in L : j <= k}
      BY <1>1, <1>2, <2>1
    <3> QED
      BY <3>1 DEF Rank
  <2>4. Rank(K, n) = Cardinality(K)
    <3>1. \A j \in K : j <= n
      BY <1>1, <1>2, <2>1
    <3>2. {j \in K : j <= n} = K
      BY <3>1
    <3> QED
      BY <3>2 DEF Rank
  <2>5. ASSUME NEW m \in 1..Cardinality(L) PROVE Nth(K, m) = Nth(L, m)
    <3>1. Nth(L, m) \in L
      BY <1>2, NthProperties
    <3>2. Rank(L, Nth(L, m)) = m
      <4>1. PICK k \in L : Rank(L, k) = m
        BY <1>2, RankProperties
      <4> QED
        BY <1>2, <4>1, NthUnique
    <3>3. Rank(K, Nth(L, m)) = m /\ Nth(L, m) \in K
      BY <2>1, <2>3, <3>1, <3>2
    <3> QED
      BY <2>2, <3>3, NthUnique
  <2>6. Nth(K, Cardinality(K)) = n
    BY <2>1, <2>2, <2>4, NthUnique
  <2>7. shorter = [m \in 1..Cardinality(L) |-> events[Nth(L, m)]]
    BY DEF FilteredTo, L
  <2>8. /\ shorter \in Seq(Row) /\ Len(shorter) = Cardinality(L)
    <3>1. \A m \in 1..Cardinality(L) : Nth(L, m) \in L
      BY <1>2, NthProperties
    <3>2. L \subseteq 1..Len(events)
      BY <1>1, <1>2
    <3>3. \A m \in 1..Cardinality(L) : events[Nth(L, m)] \in Row
      BY <1>1, <3>1, <3>2
    <3>4. [m \in 1..Cardinality(L) |-> events[Nth(L, m)]] \in Seq(Row)
      BY <1>2, <3>3
    <3> QED
      BY <1>2, <2>7, <3>4
  <2>9. FilteredTo(events, selection, n)
          = [m \in 1..(Cardinality(L) + 1) |-> events[Nth(K, m)]]
    BY <2>2 DEF FilteredTo, K
  <2>10. Append(shorter, events[n]) =
           [m \in 1..(Cardinality(L) + 1) |->
              IF m <= Cardinality(L) THEN shorter[m] ELSE events[n]]
    <3> HIDE DEF shorter
    <3> QED
      BY <1>1, <1>2, <2>8
  <2>11. ASSUME NEW m \in 1..(Cardinality(L) + 1)
         PROVE  events[Nth(K, m)]
                  = IF m <= Cardinality(L) THEN shorter[m] ELSE events[n]
    <3>1. CASE m <= Cardinality(L)
      <4>1. m \in 1..Cardinality(L)
        BY <1>2, <3>1
      <4> QED
        BY <2>5, <2>7, <3>1, <4>1
    <3>2. CASE ~(m <= Cardinality(L))
      <4>1. m = Cardinality(K)
        BY <1>2, <2>2, <3>2
      <4> QED
        BY <2>6, <3>2, <4>1
    <3> QED
      BY <3>1, <3>2
  <2> QED
    BY <1>4, <2>9, <2>10, <2>11
<1> QED
  BY <1>3, <1>4

(* The comprehension ends with the rows whose ids are not selected. *)
LEMMA FilterLoopValue ==
  ASSUME NEW events \in Seq(Row), NEW selection
  PROVE  FilterLoop(events, selection) = FilteredTo(events, selection, Len(events))
<1> DEFINE N == Len(events)
           G == [n \in 0..N |-> FilteredTo(events, selection, n)]
           done == CHOOSE f : f = [n \in 0..N |->
                     IF n = 0 THEN << >>
                     ELSE IF events[n].event.event_id \in selection THEN f[n - 1]
                     ELSE Append(f[n - 1], events[n])]
<1>1. N \in Nat
  BY LenProperties
<1>2. FilteredTo(events, selection, 0) = << >>
  <2>1. KeptTo(events, selection, 0) = {}
    BY DEF KeptTo
  <2>2. Cardinality(KeptTo(events, selection, 0)) = 0
    BY <2>1, FS_EmptySet, Zenon
  <2>3. 1..0 = {}
    OBVIOUS
  <2> QED
    BY <2>2, <2>3 DEF FilteredTo
<1>3. ASSUME NEW n \in 0..N, n # 0
      PROVE  /\ n - 1 \in 0..N
             /\ FilteredTo(events, selection, n) =
                  IF events[n].event.event_id \in selection
                  THEN FilteredTo(events, selection, n - 1)
                  ELSE Append(FilteredTo(events, selection, n - 1), events[n])
  <2>1. n \in 1..N
    BY <1>1, <1>3
  <2> QED
    BY <1>1, <2>1, FilteredNext
<1>4. G = [n \in 0..N |->
             IF n = 0 THEN << >>
             ELSE IF events[n].event.event_id \in selection THEN G[n - 1]
             ELSE Append(G[n - 1], events[n])]
  <2> HIDE DEF N
  <2> QED
    BY <1>1, <1>2, <1>3
<1>5. FilterLoop(events, selection) = done[N]
  BY DEF FilterLoop
<1> HIDE DEF G
<1>6. done = [n \in 0..N |->
                IF n = 0 THEN << >>
                ELSE IF events[n].event.event_id \in selection THEN done[n - 1]
                ELSE Append(done[n - 1], events[n])]
  BY <1>4
<1> HIDE DEF done, N
<1>7. \A n \in 0..N : done[n] = G[n]
  <2> SUFFICES ASSUME NEW k \in 0..N, done[k] # G[k] PROVE FALSE
    OBVIOUS
  <2> DEFINE T == {n \in 0..N : done[n] # G[n]}
  <2>1. T \in SUBSET Nat /\ T # {}
    BY <1>1
  <2>2. PICK m \in T : \A n \in T : m <= n
    BY <2>1, SmallestElement
  <2>3. m # 0
    BY <1>1, <1>4, <1>6, <2>2
  <2>4. m - 1 \in 0..N /\ m - 1 \notin T
    BY <1>1, <2>2, <2>3
  <2>5. done[m - 1] = G[m - 1]
    BY <2>4
  <2>6. m \in 0..N /\ done[m] # G[m]
    BY <2>2
  <2> HIDE DEF T
  <2>7. /\ done[m] = IF events[m].event.event_id \in selection THEN done[m - 1]
                     ELSE Append(done[m - 1], events[m])
        /\ G[m] = IF events[m].event.event_id \in selection THEN G[m - 1]
                  ELSE Append(G[m - 1], events[m])
    BY <1>4, <1>6, <2>3, <2>6
  <2> QED
    BY <2>5, <2>6, <2>7
<1> QED
  BY <1>1, <1>5, <1>7 DEF G, N

(* The chain over the first n events, one row after the other. *)
LEMMA ChainNext ==
  ASSUME NEW log \in Seq(Event), NEW n \in 1..Len(log)
  PROVE  Chain(SubSeq(log, 1, n)) =
           Append(Chain(SubSeq(log, 1, n - 1)),
                  RowOf(log[n], n, LastDigest(Chain(SubSeq(log, 1, n - 1)))))
<1> DEFINE first == SubSeq(log, 1, n - 1)
<1>1. Len(log) \in Nat /\ n \in Nat /\ \A i \in 1..Len(log) : log[i] \in Event
  BY LenProperties, ElementOfSeq
<1>2. /\ first \in Seq(Event) /\ Len(first) = n - 1
      /\ \A i \in 1..(n - 1) : first[i] = log[i]
  BY <1>1
<1>3. SubSeq(log, 1, n) = Append(first, log[n])
  BY <1>1
<1>4. Chain(first) \in Seq(Row) /\ Len(Chain(first)) = n - 1
  BY <1>2, ChainProperties
<1>5. NewRow(Chain(first), log[n]) = RowOf(log[n], n, LastDigest(Chain(first)))
  BY <1>1, <1>4 DEF NewRow
<1> HIDE DEF first
<1>6. log[n] \in Event
  BY <1>1
<1>7. Append(Chain(first), NewRow(Chain(first), log[n])) = Chain(Append(first, log[n]))
  BY <1>2, <1>6, ChainAppend
<1> QED
  BY <1>3, <1>5, <1>7 DEF first

(* The loop ends with the chain over the events of the rows it has walked. *)
LEMMA ResealLoopValue ==
  ASSUME NEW events \in Seq(Row)
  PROVE  ResealLoop(events) = Chain(Logged(events))
<1> DEFINE N == Len(events)
           log == Logged(events)
           G == [n \in 0..N |-> Chain(SubSeq(log, 1, n))]
           done == CHOOSE f : f = [n \in 0..N |->
                     IF n = 0 THEN << >>
                     ELSE Append(f[n - 1],
                                 RowOf(events[n].event, n, LastDigest(f[n - 1])))]
<1>1. /\ N \in Nat /\ log \in Seq(Event) /\ Len(log) = N
      /\ \A n \in 1..N : log[n] = events[n].event
  BY LenProperties, LoggedProperties
<1>2. ResealLoop(events) = done[N]
  BY DEF ResealLoop
<1> HIDE DEF log
<1>3. Chain(SubSeq(log, 1, 0)) = << >>
  <2>1. SubSeq(log, 1, 0) = << >>
    BY <1>1
  <2>2. << >> \in Seq(Event) /\ Len(<< >>) = 0
    BY EmptySeq
  <2> QED
    BY <2>1, <2>2 DEF Chain
<1>4. ASSUME NEW n \in 0..N, n # 0
      PROVE  /\ n - 1 \in 0..N
             /\ Chain(SubSeq(log, 1, n)) =
                  Append(Chain(SubSeq(log, 1, n - 1)),
                         RowOf(events[n].event, n,
                               LastDigest(Chain(SubSeq(log, 1, n - 1)))))
  <2>1. n \in 1..N /\ n - 1 \in 0..N
    BY <1>1, <1>4
  <2> HIDE DEF N
  <2>2. log[n] = events[n].event /\ n \in 1..Len(log)
    BY <1>1, <2>1
  <2> QED
    BY <1>1, <2>1, <2>2, ChainNext
<1>5. G = [n \in 0..N |->
             IF n = 0 THEN << >>
             ELSE Append(G[n - 1], RowOf(events[n].event, n, LastDigest(G[n - 1])))]
  <2> HIDE DEF N
  <2> QED
    BY <1>3, <1>4
<1> HIDE DEF G
<1>6. done = [n \in 0..N |->
                IF n = 0 THEN << >>
                ELSE Append(done[n - 1],
                            RowOf(events[n].event, n, LastDigest(done[n - 1])))]
  BY <1>5
<1> HIDE DEF done, N
<1>7. \A n \in 0..N : done[n] = G[n]
  <2> SUFFICES ASSUME NEW k \in 0..N, done[k] # G[k] PROVE FALSE
    OBVIOUS
  <2> DEFINE T == {n \in 0..N : done[n] # G[n]}
  <2>1. T \in SUBSET Nat /\ T # {}
    BY <1>1
  <2>2. PICK m \in T : \A n \in T : m <= n
    BY <2>1, SmallestElement
  <2>3. m # 0
    BY <1>1, <1>5, <1>6, <2>2
  <2>4. m - 1 \in 0..N /\ m - 1 \notin T
    BY <1>1, <2>2, <2>3
  <2>5. done[m - 1] = G[m - 1]
    BY <2>4
  <2>6. m \in 0..N /\ done[m] # G[m]
    BY <2>2
  <2> HIDE DEF T
  <2>7. /\ done[m] = Append(done[m - 1],
                            RowOf(events[m].event, m, LastDigest(done[m - 1])))
        /\ G[m] = Append(G[m - 1], RowOf(events[m].event, m, LastDigest(G[m - 1])))
    BY <1>5, <1>6, <2>3, <2>6
  <2> QED
    BY <2>5, <2>6, <2>7
<1>8. SubSeq(log, 1, N) = log
  BY <1>1
<1>9. G[N] = Chain(SubSeq(log, 1, N))
  BY <1>1 DEF G
<1>10. done[N] = Chain(log)
  <2>1. N \in 0..N
    BY <1>1
  <2>2. done[N] = G[N]
    BY <1>7, <2>1
  <2> QED
    BY <1>8, <1>9, <2>2
<1> QED
  BY <1>2, <1>10 DEF log

(* Filtering and resealing in the code's loops gives the closed form. *)
LEMMA ResealedByLoop ==
  ASSUME NEW events \in Seq(Row), NEW selection
  PROVE  Resealed(events, selection) = ResealLoop(FilterLoop(events, selection))
<1> DEFINE log == Logged(events)
           K == Kept(log, selection)
           rest == FilteredTo(events, selection, Len(events))
<1>1. /\ Len(events) \in Nat /\ log \in Seq(Event) /\ Len(log) = Len(events)
      /\ \A i \in 1..Len(events) : events[i] \in Row /\ log[i] = events[i].event
  BY LenProperties, ElementOfSeq, LoggedProperties
<1>2. KeptTo(events, selection, Len(events)) = K
  BY <1>1 DEF KeptTo, Kept
<1>3. /\ K \in SUBSET Int /\ K \subseteq 1..Len(events)
      /\ IsFiniteSet(K) /\ Cardinality(K) \in Nat
  <2>1. IsFiniteSet(1..Len(events))
    <3>1. 1 \in Int /\ Len(events) \in Int
      BY <1>1
    <3> QED
      BY <3>1, FS_Interval
  <2>2. K \in SUBSET (1..Len(events))
    BY <1>1 DEF Kept
  <2> QED
    BY <1>1, <2>1, <2>2, FS_Subset, FS_CardinalityType
<1>4. rest = [m \in 1..Cardinality(K) |-> events[Nth(K, m)]]
  BY <1>2 DEF FilteredTo
<1>5. Survivors(log, selection) = [m \in 1..Cardinality(K) |-> log[Nth(K, m)]]
  BY DEF Survivors
<1> HIDE DEF K, rest, log
<1>6. \A m \in 1..Cardinality(K) :
        events[Nth(K, m)] \in Row /\ log[Nth(K, m)] = events[Nth(K, m)].event
  <2>1. \A m \in 1..Cardinality(K) : Nth(K, m) \in 1..Len(events)
    BY <1>3, NthProperties
  <2> QED
    BY <1>1, <2>1
<1>7. rest \in Seq(Row) /\ Len(rest) = Cardinality(K)
  BY <1>3, <1>4, <1>6
<1>8. Logged(rest) = Survivors(log, selection)
  BY <1>4, <1>5, <1>6, <1>7 DEF Logged
<1>9. ResealLoop(FilterLoop(events, selection)) = Chain(Logged(rest))
  BY <1>7, FilterLoopValue, ResealLoopValue DEF rest
<1> QED
  BY <1>8, <1>9 DEF Resealed, log
=============================================================================
