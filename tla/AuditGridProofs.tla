-------------------------- MODULE AuditGridProofs --------------------------
(***************************************************************************)
(* Theorems about AuditGrid, for any texts, rows, limits and sizes of blocks, *)
(* and lemmas about the order in which search() answers.                      *)
(***************************************************************************)
EXTENDS AuditGrid, FiniteSetTheorems, SequenceTheorems,
        WellFoundedInduction, TLAPS

-----------------------------------------------------------------------------
(* The order of texts.                                                      *)

LEMMA SmallestElement ==
  ASSUME NEW T \in SUBSET Nat, T # {}
  PROVE  \E m \in T : \A n \in T : m <= n
<1>1. PICK m \in T : \A n \in T : <<n, m>> \notin OpToRel(<, Nat)
  BY NatLessThanWellFounded, WFMin
<1>2. \A n \in T : ~(n < m)
  BY <1>1 DEF OpToRel
<1> QED
  BY <1>2

(* The order of str is strict and total. *)
LEMMA LessIrreflexive ==
  ASSUME NEW s \in Seq(Int)
  PROVE  ~Less(s, s)
<1>1. Len(s) \in Nat /\ \A n \in 1..Len(s) : s[n] \in Int
  BY LenProperties, ElementOfSeq
<1> QED
  BY <1>1 DEF Less

LEMMA LessTransitive ==
  ASSUME NEW s \in Seq(Int), NEW t \in Seq(Int), NEW u \in Seq(Int),
         Less(s, t), Less(t, u)
  PROVE  Less(s, u)
<1>1. /\ Len(s) \in Nat /\ Len(t) \in Nat /\ Len(u) \in Nat
      /\ \A n \in 1..Len(s) : s[n] \in Int
      /\ \A n \in 1..Len(t) : t[n] \in Int
      /\ \A n \in 1..Len(u) : u[n] \in Int
  BY LenProperties, ElementOfSeq
<1>2. PICK n \in 1..Len(t) :
        /\ \A l \in 1..(n - 1) : l <= Len(s) /\ s[l] = t[l]
        /\ n > Len(s) \/ s[n] < t[n]
  BY DEF Less
<1>3. PICK m \in 1..Len(u) :
        /\ \A l \in 1..(m - 1) : l <= Len(t) /\ t[l] = u[l]
        /\ m > Len(t) \/ t[m] < u[m]
  BY DEF Less
<1>4. CASE n < m
  <2>1. n \in 1..Len(u) /\ n \in 1..(m - 1) /\ t[n] = u[n]
    BY <1>1, <1>3, <1>4
  <2>2. \A l \in 1..(n - 1) : l \in 1..(m - 1) /\ l <= Len(s) /\ s[l] = u[l]
    BY <1>1, <1>2, <1>3, <1>4, SMTT(30)
  <2> QED
    BY <1>2, <2>1, <2>2 DEF Less
<1>5. CASE n >= m
  <2>1. \A l \in 1..(m - 1) : l \in 1..(n - 1) /\ l <= Len(s) /\ s[l] = u[l]
    BY <1>1, <1>2, <1>3, <1>5, SMTT(30)
  <2>2. m \in 1..Len(t) /\ t[m] < u[m]
    BY <1>1, <1>3, <1>5
  <2>3. m > Len(s) \/ s[m] < u[m]
    <3>1. CASE m = n
      <4>1. CASE n > Len(s)
        BY <3>1, <4>1
      <4>2. CASE ~(n > Len(s))
        <5>1. s[m] < t[m] /\ m \in 1..Len(s)
          BY <1>1, <1>2, <3>1, <4>2
        <5>2. s[m] \in Int /\ t[m] \in Int /\ u[m] \in Int
          BY <1>1, <2>2, <5>1
        <5> QED
          BY <2>2, <5>1, <5>2
      <4> QED
        BY <4>1, <4>2
    <3>2. CASE m # n
      <4>1. m \in 1..(n - 1)
        BY <1>1, <1>5, <3>2
      <4> QED
        BY <1>2, <2>2, <4>1
    <3> QED
      BY <3>1, <3>2
  <2> QED
    BY <2>1, <2>3 DEF Less
<1> QED
  BY <1>1, <1>4, <1>5

LEMMA LessTotal ==
  ASSUME NEW s \in Seq(Int), NEW t \in Seq(Int)
  PROVE  s = t \/ Less(s, t) \/ Less(t, s)
<1>1. /\ Len(s) \in Nat /\ Len(t) \in Nat
      /\ \A n \in 1..Len(s) : s[n] \in Int
      /\ \A n \in 1..Len(t) : t[n] \in Int
  BY LenProperties, ElementOfSeq
<1> DEFINE D == {n \in 1..Len(s) : n <= Len(t) /\ s[n] # t[n]}
<1>2. CASE D # {}
  <2>1. D \in SUBSET Nat
    BY <1>1
  <2>2. PICK n \in D : \A m \in D : n <= m
    BY <1>2, <2>1, SmallestElement
  <2>3. n \in 1..Len(s) /\ n \in 1..Len(t) /\ s[n] # t[n] /\ s[n] \in Int /\ t[n] \in Int
    BY <1>1, <2>2
  <2>4. \A l \in 1..(n - 1) : l <= Len(s) /\ l <= Len(t) /\ s[l] = t[l]
    <3> SUFFICES ASSUME NEW l \in 1..(n - 1)
                 PROVE  l <= Len(s) /\ l <= Len(t) /\ s[l] = t[l]
      OBVIOUS
    <3>1. l \in 1..Len(s) /\ l <= Len(t) /\ ~(n <= l)
      BY <1>1, <2>3
    <3>2. l \notin D
      BY <2>2, <3>1
    <3> QED
      BY <3>1, <3>2
  <2>5. s[n] < t[n] \/ t[n] < s[n]
    BY <2>3
  <2> QED
    BY <2>3, <2>4, <2>5 DEF Less
<1>3. CASE D = {}
  <2>1. \A l \in 1..Len(s) : l <= Len(t) => s[l] = t[l]
    BY <1>3
  <2>2. CASE Len(s) = Len(t)
    <3>1. \A l \in 1..Len(s) : s[l] = t[l]
      BY <1>1, <2>1, <2>2
    <3> QED
      BY <2>2, <3>1, SeqEqual
  <2>3. CASE Len(s) < Len(t)
    <3> DEFINE n == Len(s) + 1
    <3>1. n \in 1..Len(t) /\ n > Len(s)
      BY <1>1, <2>3
    <3>2. \A l \in 1..(n - 1) : l <= Len(s) /\ s[l] = t[l]
      BY <1>1, <2>1, <2>3
    <3> HIDE DEF n
    <3> QED
      BY <3>1, <3>2 DEF Less
  <2>4. CASE Len(t) < Len(s)
    <3> DEFINE n == Len(t) + 1
    <3>1. n \in 1..Len(s) /\ n > Len(t)
      BY <1>1, <2>4
    <3>2. \A l \in 1..(n - 1) : l <= Len(t) /\ t[l] = s[l]
      BY <1>1, <2>1, <2>4
    <3> HIDE DEF n
    <3> QED
      BY <3>1, <3>2 DEF Less
  <2> QED
    BY <1>1, <2>2, <2>3, <2>4
<1> QED
  BY <1>2, <1>3

-----------------------------------------------------------------------------
(* A finite set in a strict order: the elements before an element are its     *)
(* place, and the places run through 0..(Cardinality(S) - 1).                 *)

StrictOrder(S, R) ==
  /\ \A i \in S : <<i, i>> \notin R
  /\ \A i, j, k \in S : <<i, j>> \in R /\ <<j, k>> \in R => <<i, k>> \in R
  /\ \A i, j \in S : i = j \/ <<i, j>> \in R \/ <<j, i>> \in R

Earlier(S, R, i) == {j \in S : <<j, i>> \in R}

Place(S, R, i) == Cardinality(Earlier(S, R, i))

LEMMA PlaceProperties ==
  ASSUME NEW S, IsFiniteSet(S), NEW R, StrictOrder(S, R)
  PROVE  /\ Cardinality(S) \in Nat
         /\ \A i \in S : Place(S, R, i) \in 0..(Cardinality(S) - 1)
         /\ \A i, j \in S : Place(S, R, i) < Place(S, R, j) <=> <<i, j>> \in R
         /\ \A i, j \in S : Place(S, R, i) = Place(S, R, j) => i = j
         /\ \A n \in 0..(Cardinality(S) - 1) : \E i \in S : Place(S, R, i) = n
<1> DEFINE N == Cardinality(S)
<1>1. N \in Nat
  BY FS_CardinalityType
<1>2. ASSUME NEW i \in S
      PROVE  /\ IsFiniteSet(Earlier(S, R, i)) /\ Place(S, R, i) \in Nat
             /\ i \notin Earlier(S, R, i)
             /\ Cardinality(Earlier(S, R, i) \cup {i}) = Place(S, R, i) + 1
             /\ Place(S, R, i) \in 0..(N - 1)
  <2>1. Earlier(S, R, i) \subseteq S /\ i \notin Earlier(S, R, i)
    BY <1>2 DEF Earlier, StrictOrder
  <2>2. IsFiniteSet(Earlier(S, R, i)) /\ Place(S, R, i) \in Nat
    BY <2>1, FS_Subset, FS_CardinalityType DEF Place
  <2>3. Cardinality(Earlier(S, R, i) \cup {i}) = Place(S, R, i) + 1
    BY <2>1, <2>2, FS_AddElement DEF Place
  <2>4. Earlier(S, R, i) \cup {i} \in SUBSET S
    BY <1>2, <2>1
  <2>5. Place(S, R, i) + 1 <= N
    BY <2>3, <2>4, FS_Subset
  <2> QED
    BY <1>1, <2>1, <2>2, <2>3, <2>5
<1>3. ASSUME NEW i \in S, NEW j \in S, <<i, j>> \in R
      PROVE  Place(S, R, i) < Place(S, R, j)
  <2>1. Earlier(S, R, i) \cup {i} \in SUBSET Earlier(S, R, j)
    BY <1>3 DEF Earlier, StrictOrder
  <2>2. /\ IsFiniteSet(Earlier(S, R, j))
        /\ Cardinality(Earlier(S, R, i) \cup {i}) = Place(S, R, i) + 1
        /\ Place(S, R, i) \in Nat /\ Place(S, R, j) \in Nat
    BY <1>2
  <2>3. Cardinality(Earlier(S, R, i) \cup {i}) <= Cardinality(Earlier(S, R, j))
    BY <2>1, <2>2, FS_Subset
  <2> QED
    BY <2>2, <2>3 DEF Place
<1>4. ASSUME NEW i \in S, NEW j \in S
      PROVE  /\ Place(S, R, i) < Place(S, R, j) <=> <<i, j>> \in R
             /\ Place(S, R, i) = Place(S, R, j) => i = j
  <2>1. Place(S, R, i) \in Nat /\ Place(S, R, j) \in Nat
    BY <1>2
  <2>2. i = j \/ <<i, j>> \in R \/ <<j, i>> \in R
    BY DEF StrictOrder
  <2> QED
    BY <1>3, <2>1, <2>2
<1>5. \A n \in 0..(N - 1) : \E i \in S : Place(S, R, i) = n
  <2> DEFINE f == [i \in S |-> Place(S, R, i)]
             T == 0..(N - 1)
  <2>1. f \in Injection(S, T)
    <3>1. f \in [S -> T]
      BY <1>2
    <3>2. \A i, j \in S : f[i] = f[j] => i = j
      BY <1>4
    <3> QED
      BY <3>1, <3>2 DEF Injection, IsInjective
  <2>2. IsFiniteSet(T) /\ Cardinality(T) = N
    <3>1. 0 \in Int /\ N - 1 \in Int
      BY <1>1
    <3>2. /\ IsFiniteSet(T)
          /\ Cardinality(T) = IF 0 > N - 1 THEN 0 ELSE (N - 1) - 0 + 1
      BY <3>1, FS_Interval
    <3> QED
      BY <1>1, <3>2
  <2>3. f \in Surjection(S, T)
    BY <2>1, <2>2, FS_Injection
  <2> QED
    BY <2>3 DEF Surjection
<1> QED
  BY <1>1, <1>2, <1>4, <1>5

-----------------------------------------------------------------------------
(* The answer of search(), before it is sliced, has every matching row once,  *)
(* in its place.                                                             *)

OrderOn(D, rows, q) == {p \in D \X D : Precedes(rows, q, p[1], p[2])}

OrderOf(rows, q) == OrderOn(DOMAIN rows, rows, q)

LEMMA InOrder ==
  ASSUME NEW D, NEW rows, NEW q, NEW i \in D, NEW j \in D
  PROVE  <<i, j>> \in OrderOn(D, rows, q) <=> Precedes(rows, q, i, j)
BY DEF OrderOn

PlaceIn(rows, q, i) == Place(Matching(rows, q), OrderOf(rows, q), i)

LEMMA OrderedLength ==
  ASSUME NEW rows, IsFiniteSet(DOMAIN rows), NEW q
  PROVE  /\ IsFiniteSet(Matching(rows, q)) /\ Cardinality(Matching(rows, q)) \in Nat
         /\ DOMAIN Ordered(rows, q) = 1..Cardinality(Matching(rows, q))
         /\ Len(Ordered(rows, q)) = Cardinality(Matching(rows, q))
<1>1. Matching(rows, q) \in SUBSET DOMAIN rows
  BY DEF Matching
<1>2. IsFiniteSet(Matching(rows, q)) /\ Cardinality(Matching(rows, q)) \in Nat
  BY <1>1, FS_Subset, FS_CardinalityType
<1> QED
  BY <1>2 DEF Ordered

LEMMA OrderedProperties ==
  ASSUME NEW rows, IsFiniteSet(DOMAIN rows), NEW q,
         StrictOrder(DOMAIN rows, OrderOf(rows, q))
  PROVE  /\ \A n \in 1..Cardinality(Matching(rows, q)) :
              /\ Ordered(rows, q)[n] \in Matching(rows, q)
              /\ PlaceIn(rows, q, Ordered(rows, q)[n]) = n - 1
         /\ \A i \in Matching(rows, q) :
              /\ PlaceIn(rows, q, i) \in 0..(Cardinality(Matching(rows, q)) - 1)
              /\ Ordered(rows, q)[PlaceIn(rows, q, i) + 1] = i
         /\ \A i, j \in Matching(rows, q) :
              PlaceIn(rows, q, i) < PlaceIn(rows, q, j) <=> Precedes(rows, q, i, j)
<1> DEFINE M == Matching(rows, q)
           R == OrderOf(rows, q)
           N == Cardinality(M)
           P(i) == Place(M, R, i)
           order == Ordered(rows, q)
<1>1. M \subseteq DOMAIN rows
  BY DEF Matching
<1>2. ASSUME NEW i \in M, NEW j \in M
      PROVE  <<i, j>> \in R <=> Precedes(rows, q, i, j)
  <2>1. i \in DOMAIN rows /\ j \in DOMAIN rows
    BY <1>1, <1>2
  <2> QED
    BY <2>1, InOrder DEF OrderOf
<1>3. StrictOrder(M, R)
  BY <1>1 DEF StrictOrder
<1>4. IsFiniteSet(M) /\ N \in Nat
  BY OrderedLength
<1>5. order = [n \in 1..N |-> CHOOSE i \in M : Cardinality({j \in M : Precedes(rows, q, j, i)}) = n - 1]
  BY DEF Ordered
<1>6. \A i : PlaceIn(rows, q, i) = P(i)
  BY DEF PlaceIn
<1>7. \A i \in M : {j \in M : Precedes(rows, q, j, i)} = Earlier(M, R, i)
  BY <1>2 DEF Earlier
<1> HIDE DEF M, R
<1>8. /\ \A i \in M : P(i) \in 0..(N - 1)
      /\ \A i, j \in M : P(i) < P(j) <=> <<i, j>> \in R
      /\ \A i, j \in M : P(i) = P(j) => i = j
      /\ \A n \in 0..(N - 1) : \E i \in M : P(i) = n
  BY <1>3, <1>4, PlaceProperties
<1>9. \A i \in M : Cardinality({j \in M : Precedes(rows, q, j, i)}) = P(i)
  BY <1>7 DEF Place
<1> HIDE DEF P
<1>10. ASSUME NEW n \in 1..N PROVE order[n] \in M /\ P(order[n]) = n - 1
  <2>1. n - 1 \in 0..(N - 1)
    BY <1>4
  <2>2. \E i \in M : Cardinality({j \in M : Precedes(rows, q, j, i)}) = n - 1
    BY <1>8, <1>9, <2>1
  <2>3. order[n] = CHOOSE i \in M : Cardinality({j \in M : Precedes(rows, q, j, i)}) = n - 1
    BY <1>5
  <2> HIDE DEF order
  <2>4. /\ order[n] \in M
        /\ Cardinality({j \in M : Precedes(rows, q, j, order[n])}) = n - 1
    BY <2>2, <2>3
  <2> QED
    BY <1>9, <2>4
<1> HIDE DEF order
<1>11. ASSUME NEW i \in M PROVE order[P(i) + 1] = i
  <2>1. P(i) + 1 \in 1..N /\ (P(i) + 1) - 1 = P(i)
    BY <1>4, <1>8
  <2> QED
    BY <1>8, <1>10, <2>1
<1>12. /\ \A n \in 1..N : order[n] \in M /\ PlaceIn(rows, q, order[n]) = n - 1
       /\ \A i \in M : /\ PlaceIn(rows, q, i) \in 0..(N - 1)
                       /\ order[PlaceIn(rows, q, i) + 1] = i
  BY <1>6, <1>8, <1>10, <1>11
<1>13. \A i, j \in M :
         PlaceIn(rows, q, i) < PlaceIn(rows, q, j) <=> Precedes(rows, q, i, j)
  <2> SUFFICES ASSUME NEW i \in M, NEW j \in M
               PROVE  PlaceIn(rows, q, i) < PlaceIn(rows, q, j) <=> Precedes(rows, q, i, j)
    OBVIOUS
  <2>1. PlaceIn(rows, q, i) = P(i) /\ PlaceIn(rows, q, j) = P(j)
    BY <1>6
  <2>2. P(i) < P(j) <=> <<i, j>> \in R
    BY <1>8
  <2>3. <<i, j>> \in R <=> Precedes(rows, q, i, j)
    BY <1>2
  <2> QED
    BY <2>1, <2>2, <2>3
<1> QED
  BY <1>12, <1>13 DEF M, order

-----------------------------------------------------------------------------
(* Whatever the sort model, and without one: no two rows are left in any      *)
(* order, and the order is strict.                                           *)

TextRow(row) ==
  /\ row["created_at"] \in Seq(Int)
  /\ \A f \in Fields : TextOf(row, f) \in Seq(Int)

TextRows(rows) ==
  /\ DOMAIN rows \subseteq Int
  /\ \A i \in DOMAIN rows : TextRow(rows[i])

LEMMA ItemOrder ==
  ASSUME NEW rows, TextRows(rows), NEW item,
         NEW i \in DOMAIN rows, NEW j \in DOMAIN rows, NEW k \in DOMAIN rows
  PROVE  /\ ~Before(rows, item, i, i) /\ Tied(rows, item, i, i)
         /\ Before(rows, item, i, j) /\ Before(rows, item, j, k) => Before(rows, item, i, k)
         /\ Tied(rows, item, i, j) /\ Before(rows, item, j, k) => Before(rows, item, i, k)
         /\ Before(rows, item, i, j) /\ Tied(rows, item, j, k) => Before(rows, item, i, k)
         /\ Tied(rows, item, i, j) /\ Tied(rows, item, j, k) => Tied(rows, item, i, k)
         /\ Tied(rows, item, i, j) <=> Tied(rows, item, j, i)
         /\ Tied(rows, item, i, j) \/ Before(rows, item, i, j) \/ Before(rows, item, j, i)
<1> DEFINE a == TextOf(rows[i], item.colId)
           b == TextOf(rows[j], item.colId)
           c == TextOf(rows[k], item.colId)
<1>1. CASE Sortable(item)
  <2>1. a \in Seq(Int) /\ b \in Seq(Int) /\ c \in Seq(Int)
    BY <1>1 DEF Sortable, TextRows, TextRow
  <2>2. /\ Tied(rows, item, i, j) <=> a = b
        /\ Tied(rows, item, j, i) <=> b = a
        /\ Tied(rows, item, j, k) <=> b = c
        /\ Tied(rows, item, i, k) <=> a = c
        /\ Tied(rows, item, i, i)
    BY <1>1 DEF Tied
  <2>3. /\ Before(rows, item, i, i) <=> Less(a, a)
        /\ Before(rows, item, i, j) <=> IF item.sort = "asc" THEN Less(a, b) ELSE Less(b, a)
        /\ Before(rows, item, j, i) <=> IF item.sort = "asc" THEN Less(b, a) ELSE Less(a, b)
        /\ Before(rows, item, j, k) <=> IF item.sort = "asc" THEN Less(b, c) ELSE Less(c, b)
        /\ Before(rows, item, i, k) <=> IF item.sort = "asc" THEN Less(a, c) ELSE Less(c, a)
    BY <1>1 DEF Before
  <2> HIDE DEF a, b, c
  <2>4. /\ ~Less(a, a)
        /\ Less(a, b) /\ Less(b, c) => Less(a, c)
        /\ Less(c, b) /\ Less(b, a) => Less(c, a)
        /\ a = b \/ Less(a, b) \/ Less(b, a)
    BY <2>1, LessIrreflexive, LessTransitive, LessTotal
  <2> QED
    BY <2>2, <2>3, <2>4
<1>2. CASE ~Sortable(item)
  BY <1>2 DEF Tied, Before
<1> QED
  BY <1>1, <1>2

(* The first item that tells two rows apart. *)
ByItem(rows, model, n, i, j) ==
  /\ Before(rows, model[n], i, j)
  /\ \A m \in 1..(n - 1) : Tied(rows, model[m], i, j)

ByNone(rows, model, i, j) == \A n \in DOMAIN model : Tied(rows, model[n], i, j)

LEMMA ModelCases ==
  ASSUME NEW rows, NEW model, NEW i, NEW j
  PROVE  ModelPrecedes(rows, model, i, j)
           <=> \/ \E n \in DOMAIN model : ByItem(rows, model, n, i, j)
               \/ ByNone(rows, model, i, j) /\ i < j
BY DEF ModelPrecedes, ByItem, ByNone

LEMMA ModelTransitive ==
  ASSUME NEW rows, TextRows(rows), NEW model, NEW N \in Nat, DOMAIN model = 1..N,
         NEW i \in DOMAIN rows, NEW j \in DOMAIN rows, NEW k \in DOMAIN rows,
         ModelPrecedes(rows, model, i, j), ModelPrecedes(rows, model, j, k)
  PROVE  ModelPrecedes(rows, model, i, k)
<1>1. ASSUME NEW n \in 1..N
      PROVE  /\ Before(rows, model[n], i, j) /\ Before(rows, model[n], j, k) => Before(rows, model[n], i, k)
             /\ Tied(rows, model[n], i, j) /\ Before(rows, model[n], j, k) => Before(rows, model[n], i, k)
             /\ Before(rows, model[n], i, j) /\ Tied(rows, model[n], j, k) => Before(rows, model[n], i, k)
             /\ Tied(rows, model[n], i, j) /\ Tied(rows, model[n], j, k) => Tied(rows, model[n], i, k)
  BY ItemOrder
<1>2. ASSUME NEW n \in 1..N, NEW m \in 1..N,
             ByItem(rows, model, n, i, j), ByItem(rows, model, m, j, k)
      PROVE  ModelPrecedes(rows, model, i, k)
  <2>1. CASE n < m
    <3>1. n \in 1..(m - 1) /\ \A l \in 1..(n - 1) : l \in 1..(m - 1) /\ l \in 1..N
      BY <2>1
    <3>2. ByItem(rows, model, n, i, k)
      BY <1>1, <1>2, <3>1 DEF ByItem
    <3> QED
      BY <3>2, ModelCases
  <2>2. CASE n = m
    <3>1. \A l \in 1..(n - 1) : l \in 1..N
      OBVIOUS
    <3>2. ByItem(rows, model, n, i, k)
      BY <1>1, <1>2, <2>2, <3>1 DEF ByItem
    <3> QED
      BY <3>2, ModelCases
  <2>3. CASE m < n
    <3>1. m \in 1..(n - 1) /\ \A l \in 1..(m - 1) : l \in 1..(n - 1) /\ l \in 1..N
      BY <2>3
    <3>2. ByItem(rows, model, m, i, k)
      BY <1>1, <1>2, <3>1 DEF ByItem
    <3> QED
      BY <3>2, ModelCases
  <2> QED
    BY <2>1, <2>2, <2>3
<1>3. ASSUME NEW n \in 1..N, ByItem(rows, model, n, i, j), ByNone(rows, model, j, k)
      PROVE  ModelPrecedes(rows, model, i, k)
  <2>1. \A l \in 1..(n - 1) : l \in 1..N
    OBVIOUS
  <2>2. ByItem(rows, model, n, i, k)
    BY <1>1, <1>3, <2>1 DEF ByItem, ByNone
  <2> QED
    BY <2>2, ModelCases
<1>4. ASSUME NEW n \in 1..N, ByNone(rows, model, i, j), ByItem(rows, model, n, j, k)
      PROVE  ModelPrecedes(rows, model, i, k)
  <2>1. \A l \in 1..(n - 1) : l \in 1..N
    OBVIOUS
  <2>2. ByItem(rows, model, n, i, k)
    BY <1>1, <1>4, <2>1 DEF ByItem, ByNone
  <2> QED
    BY <2>2, ModelCases
<1>5. ASSUME ByNone(rows, model, i, j), ByNone(rows, model, j, k), i < j, j < k
      PROVE  ModelPrecedes(rows, model, i, k)
  <2>1. i < k
    BY <1>5 DEF TextRows
  <2>2. ByNone(rows, model, i, k)
    BY <1>1, <1>5 DEF ByNone
  <2> QED
    BY <2>1, <2>2, ModelCases
<1> QED
  BY <1>2, <1>3, <1>4, <1>5, ModelCases

LEMMA ModelTotal ==
  ASSUME NEW rows, TextRows(rows), NEW model, NEW N \in Nat, DOMAIN model = 1..N,
         NEW i \in DOMAIN rows, NEW j \in DOMAIN rows
  PROVE  /\ ~ModelPrecedes(rows, model, i, i)
         /\ i = j \/ ModelPrecedes(rows, model, i, j) \/ ModelPrecedes(rows, model, j, i)
<1>1. ASSUME NEW n \in 1..N
      PROVE  /\ ~Before(rows, model[n], i, i)
             /\ Tied(rows, model[n], i, j) <=> Tied(rows, model[n], j, i)
             /\ Tied(rows, model[n], i, j) \/ Before(rows, model[n], i, j)
                                           \/ Before(rows, model[n], j, i)
  BY ItemOrder
<1>2. ~ModelPrecedes(rows, model, i, i)
  <2>1. ~(i < i)
    BY DEF TextRows
  <2> QED
    BY <1>1, <2>1, ModelCases DEF ByItem
<1>3. CASE ByNone(rows, model, i, j)
  <2>1. ByNone(rows, model, j, i)
    BY <1>1, <1>3 DEF ByNone
  <2>2. i = j \/ i < j \/ j < i
    BY DEF TextRows
  <2> QED
    BY <1>2, <1>3, <2>1, <2>2, ModelCases
<1>4. CASE ~ByNone(rows, model, i, j)
  <2> DEFINE T == {n \in 1..N : ~Tied(rows, model[n], i, j)}
  <2>1. T # {} /\ T \in SUBSET Nat
    BY <1>4 DEF ByNone
  <2>2. PICK n \in T : \A m \in T : n <= m
    BY <2>1, SmallestElement
  <2>3. \A m \in 1..(n - 1) : m \in 1..N /\ m \notin T
    BY <2>2
  <2>4. \A m \in 1..(n - 1) : Tied(rows, model[m], i, j) /\ Tied(rows, model[m], j, i)
    BY <1>1, <2>3
  <2>5. n \in 1..N /\ (Before(rows, model[n], i, j) \/ Before(rows, model[n], j, i))
    BY <1>1, <2>2
  <2>6. ByItem(rows, model, n, i, j) \/ ByItem(rows, model, n, j, i)
    BY <2>4, <2>5 DEF ByItem
  <2> QED
    BY <1>2, <2>5, <2>6, ModelCases
<1> QED
  BY <1>3, <1>4

LEMMA OlderOrder ==
  ASSUME NEW rows, TextRows(rows),
         NEW i \in DOMAIN rows, NEW j \in DOMAIN rows, NEW k \in DOMAIN rows
  PROVE  /\ ~Older(rows, i, i)
         /\ Older(rows, i, j) /\ Older(rows, j, k) => Older(rows, i, k)
         /\ i = j \/ Older(rows, i, j) \/ Older(rows, j, i)
<1> DEFINE a == rows[i]["created_at"]
           b == rows[j]["created_at"]
           c == rows[k]["created_at"]
<1>1. /\ a \in Seq(Int) /\ b \in Seq(Int) /\ c \in Seq(Int)
      /\ i \in Int /\ j \in Int /\ k \in Int
  BY DEF TextRows, TextRow
<1>2. /\ Older(rows, i, i) <=> Less(a, a) \/ (a = a /\ i < i)
      /\ Older(rows, i, j) <=> Less(a, b) \/ (a = b /\ i < j)
      /\ Older(rows, j, i) <=> Less(b, a) \/ (b = a /\ j < i)
      /\ Older(rows, j, k) <=> Less(b, c) \/ (b = c /\ j < k)
      /\ Older(rows, i, k) <=> Less(a, c) \/ (a = c /\ i < k)
  BY DEF Older
<1> HIDE DEF a, b, c
<1>3. /\ ~Less(a, a)
      /\ Less(a, b) /\ Less(b, c) => Less(a, c)
      /\ a = b \/ Less(a, b) \/ Less(b, a)
  BY <1>1, LessIrreflexive, LessTransitive, LessTotal
<1> QED
  BY <1>1, <1>2, <1>3

(* The order of search() is strict and total: every row has its place. *)
LEMMA PrecedesOrder ==
  ASSUME NEW rows, TextRows(rows), NEW q, NEW N \in Nat, DOMAIN q.sort_model = 1..N
  PROVE  StrictOrder(DOMAIN rows, OrderOf(rows, q))
<1> DEFINE D == DOMAIN rows
<1>1. ASSUME NEW i \in D, NEW j \in D, NEW k \in D
      PROVE  /\ ~Precedes(rows, q, i, i)
             /\ Precedes(rows, q, i, j) /\ Precedes(rows, q, j, k) => Precedes(rows, q, i, k)
             /\ i = j \/ Precedes(rows, q, i, j) \/ Precedes(rows, q, j, i)
  <2>1. CASE q.sort_model # << >>
    BY <2>1, ModelTransitive, ModelTotal DEF Precedes
  <2>2. CASE q.sort_model = << >> /\ q.sort = "asc"
    BY <2>2, OlderOrder DEF Precedes
  <2>3. CASE q.sort_model = << >> /\ q.sort # "asc"
    BY <2>3, OlderOrder DEF Precedes
  <2> QED
    BY <2>1, <2>2, <2>3
<1> HIDE DEF D
<1>2. ASSUME NEW i \in D, NEW j \in D
      PROVE  <<i, j>> \in OrderOf(rows, q) <=> Precedes(rows, q, i, j)
  BY InOrder DEF OrderOf, D
<1>3. StrictOrder(D, OrderOf(rows, q))
  BY <1>1, <1>2 DEF StrictOrder
<1> QED
  BY <1>3 DEF D

-----------------------------------------------------------------------------
(* A list of rows, and the block of a search that the page of a range holds.  *)

BlockRows(rows, q, b) == Page(rows, q, (b - 1) * BlockSize, b * BlockSize).rows

LEMMA BlockRange ==
  ASSUME NEW b \in Nat \ {0}
  PROVE  /\ BlockSize \in Nat \ {0}
         /\ (b - 1) * BlockSize \in Nat /\ b * BlockSize \in Nat
         /\ b * BlockSize = (b - 1) * BlockSize + BlockSize
<1>1. BlockSize \in Nat \ {0} /\ b \in Nat
  BY GridAssumption, LimitAssumption
<1> QED
  BY <1>1

LEMMA BlockIsRange ==
  ASSUME NEW rows, IsFiniteSet(DOMAIN rows), NEW q, NEW b \in Nat \ {0}
  PROVE  BlockRows(rows, q, b)
           = SubSeq(Ordered(rows, q), (b - 1) * BlockSize + 1,
                    Least(b * BlockSize, Cardinality(Matching(rows, q))))
<1> DEFINE x == (b - 1) * BlockSize
           y == b * BlockSize
           order == Ordered(rows, q)
           N == Cardinality(Matching(rows, q))
<1>1. x \in Nat /\ y \in Nat /\ y = x + BlockSize /\ BlockSize \in Nat \ {0}
  BY BlockRange
<1>2. BlockSize <= PageLimit /\ PageLimit <= SearchLimit /\ PageLimit \in Nat /\ SearchLimit \in Nat
  BY GridAssumption, LimitAssumption
<1>3. Len(order) = N /\ N \in Nat
  BY OrderedLength
<1>4. BlockRows(rows, q, b)
        = Search(rows, q, Greatest(x, 0), Least(Greatest(y, Greatest(x, 0) + 1) - Greatest(x, 0), PageLimit))
  BY DEF BlockRows, Page
<1> HIDE DEF x, y, order, N
<1>5. Greatest(x, 0) = x
  BY <1>1 DEF Greatest
<1>6. Greatest(y, x + 1) = y
  BY <1>1 DEF Greatest
<1>7. Least(y - x, PageLimit) = BlockSize
  BY <1>1, <1>2 DEF Least
<1>8. Least(Greatest(BlockSize, 0), SearchLimit) = BlockSize
  BY <1>1, <1>2 DEF Greatest, Least
<1>9. BlockRows(rows, q, b) = Search(rows, q, x, BlockSize)
  BY <1>4, <1>5, <1>6, <1>7
<1>10. Search(rows, q, x, BlockSize) = SubSeq(order, x + 1, Least(x + BlockSize, N))
  BY <1>3, <1>5, <1>8 DEF Search, Sliced, order
<1>11. Least(x + BlockSize, N) = Least(y, N)
  BY <1>1
<1> QED
  BY <1>9, <1>10, <1>11 DEF x, y, order, N

LEMMA BlockPlaces ==
  ASSUME NEW rows, IsFiniteSet(DOMAIN rows), NEW q, NEW b \in Nat \ {0}
  PROVE  /\ DOMAIN BlockRows(rows, q, b)
              = 1..(Least(b * BlockSize, Cardinality(Matching(rows, q))) - (b - 1) * BlockSize)
         /\ \A n \in DOMAIN BlockRows(rows, q, b) :
              /\ (b - 1) * BlockSize + n \in 1..Cardinality(Matching(rows, q))
              /\ (b - 1) * BlockSize + n <= b * BlockSize
              /\ BlockRows(rows, q, b)[n] = Ordered(rows, q)[(b - 1) * BlockSize + n]
<1> DEFINE x == (b - 1) * BlockSize
           y == b * BlockSize
           order == Ordered(rows, q)
           N == Cardinality(Matching(rows, q))
           end == Least(y, N)
<1>1. x \in Nat /\ y \in Nat /\ N \in Nat
  BY BlockRange, OrderedLength
<1>2. BlockRows(rows, q, b) = SubSeq(order, x + 1, end)
  BY BlockIsRange
<1> HIDE DEF x, y, order, N
<1>3. end \in Nat /\ end <= y /\ end <= N
  BY <1>1 DEF Least
<1> HIDE DEF end
<1>4. SubSeq(order, x + 1, end) = [n \in 1..(end - x) |-> order[x + n]]
  <2>1. 1..(end - (x + 1) + 1) = 1..(end - x)
    BY <1>1, <1>3
  <2>2. \A n \in 1..(end - x) : (x + 1) + n - 1 = x + n
    BY <1>1, <1>3
  <2>3. SubSeq(order, x + 1, end)
          = [n \in 1..(end - (x + 1) + 1) |-> order[(x + 1) + n - 1]]
    BY <1>1, <1>3
  <2> QED
    BY <2>1, <2>2, <2>3
<1>5. ASSUME NEW n \in 1..(end - x)
      PROVE  x + n \in 1..N /\ x + n <= y
  BY <1>1, <1>3
<1>6. /\ DOMAIN BlockRows(rows, q, b) = 1..(end - x)
      /\ \A n \in DOMAIN BlockRows(rows, q, b) :
           x + n \in 1..N /\ x + n <= y /\ BlockRows(rows, q, b)[n] = order[x + n]
  BY <1>2, <1>4, <1>5
<1> QED
  BY <1>6 DEF x, y, order, N, end

(* A row is in a block when its place is in the range of the block. *)
InRange(rows, q, b, i) ==
  /\ i \in Matching(rows, q)
  /\ (b - 1) * BlockSize <= PlaceIn(rows, q, i)
  /\ PlaceIn(rows, q, i) < b * BlockSize

LEMMA BlockHolds ==
  ASSUME NEW rows, IsFiniteSet(DOMAIN rows), NEW q,
         StrictOrder(DOMAIN rows, OrderOf(rows, q)), NEW b \in Nat \ {0}
  PROVE  /\ \A n \in DOMAIN BlockRows(rows, q, b) :
              InRange(rows, q, b, BlockRows(rows, q, b)[n])
         /\ \A i : InRange(rows, q, b, i) =>
              \E n \in DOMAIN BlockRows(rows, q, b) : BlockRows(rows, q, b)[n] = i
<1> DEFINE x == (b - 1) * BlockSize
           y == b * BlockSize
           order == Ordered(rows, q)
           M == Matching(rows, q)
           N == Cardinality(M)
           P(i) == PlaceIn(rows, q, i)
           block == BlockRows(rows, q, b)
<1>1. x \in Nat /\ y \in Nat /\ N \in Nat
  BY BlockRange, OrderedLength
<1>2. /\ \A n \in 1..N : order[n] \in M /\ P(order[n]) = n - 1
      /\ \A i \in M : P(i) \in 0..(N - 1) /\ order[P(i) + 1] = i
  BY OrderedProperties
<1>3. /\ DOMAIN block = 1..(Least(y, N) - x)
      /\ \A n \in DOMAIN block : x + n \in 1..N /\ x + n <= y /\ block[n] = order[x + n]
  BY BlockPlaces
<1>4. \A i : InRange(rows, q, b, i) <=> i \in M /\ x <= P(i) /\ P(i) < y
  BY DEF InRange
<1> HIDE DEF x, y, order, M, N, P, block
<1>5. ASSUME NEW n \in DOMAIN block PROVE InRange(rows, q, b, block[n])
  <2>1. n \in Int /\ n >= 1 /\ x + n \in 1..N /\ x + n <= y /\ block[n] = order[x + n]
    BY <1>1, <1>3
  <2>2. block[n] \in M /\ P(block[n]) = x + n - 1
    <3> DEFINE m == x + n
    <3>1. m \in 1..N /\ block[n] = order[m]
      BY <2>1
    <3> HIDE DEF m
    <3>2. order[m] \in M /\ P(order[m]) = m - 1
      BY <1>2, <3>1
    <3>3. block[n] \in M /\ P(block[n]) = m - 1
      BY <3>1, <3>2
    <3> QED
      BY <1>1, <2>1, <3>3 DEF m
  <2> QED
    BY <1>1, <1>4, <2>1, <2>2
<1>6. ASSUME NEW i, InRange(rows, q, b, i)
      PROVE  \E n \in DOMAIN block : block[n] = i
  <2> DEFINE n == P(i) + 1 - x
  <2>1. i \in M /\ x <= P(i) /\ P(i) < y /\ P(i) \in 0..(N - 1) /\ order[P(i) + 1] = i
    BY <1>2, <1>4, <1>6
  <2>2. n \in 1..(Least(y, N) - x) /\ x + n = P(i) + 1
    BY <1>1, <2>1 DEF Least
  <2> HIDE DEF n
  <2>3. n \in DOMAIN block /\ block[n] = order[P(i) + 1]
    BY <1>3, <2>2
  <2> QED
    BY <2>1, <2>3
<1> QED
  BY <1>5, <1>6 DEF block

(* count() is the number of matching rows, as far as search() reaches. *)
LEMMA CountProperties ==
  ASSUME NEW S, NEW rows \in Seq(S), NEW q
  PROVE  /\ IsFiniteSet(DOMAIN rows)
         /\ Count(rows, q) = Least(Cardinality(Matching(rows, q)), SearchLimit)
<1> DEFINE N == Cardinality(Matching(rows, q))
           L == Len(rows)
           order == Ordered(rows, q)
<1>1. L \in Nat /\ DOMAIN rows = 1..L /\ IsFiniteSet(DOMAIN rows) /\ Cardinality(DOMAIN rows) = L
  <2>1. L \in Nat /\ DOMAIN rows = 1..L
    BY LenProperties
  <2>2. IsFiniteSet(1..L) /\ Cardinality(1..L) = IF 1 > L THEN 0 ELSE L - 1 + 1
    BY <2>1, FS_Interval
  <2> QED
    BY <2>1, <2>2
<1>2. N \in Nat /\ DOMAIN order = 1..N /\ Len(order) = N
  BY <1>1, OrderedLength
<1>3. N <= L
  <2>1. Matching(rows, q) \in SUBSET DOMAIN rows
    BY DEF Matching
  <2> QED
    BY <1>1, <2>1, FS_Subset
<1>4. SearchLimit \in Nat
  BY LimitAssumption
<1>5. Count(rows, q) = Len(SubSeq(order, Greatest(0, 0) + 1,
                      Least(Greatest(0, 0) + Least(Greatest(L, 0), SearchLimit), Len(order))))
  BY DEF Count, Search, Sliced
<1> HIDE DEF N, L, order
<1>6. Greatest(0, 0) = 0 /\ Greatest(L, 0) = L
  BY <1>1 DEF Greatest
<1> DEFINE end == Least(0 + Least(L, SearchLimit), N)
<1>7. end = Least(N, SearchLimit) /\ end \in Nat /\ end <= N
  BY <1>1, <1>2, <1>3, <1>4 DEF Least
<1>8. Count(rows, q) = Len(SubSeq(order, 0 + 1, end))
  BY <1>2, <1>5, <1>6
<1> HIDE DEF end
<1>9. SubSeq(order, 0 + 1, end) = [n \in 1..end |-> order[n]]
  <2>1. SubSeq(order, 0 + 1, end) = [n \in 1..(end - (0 + 1) + 1) |-> order[(0 + 1) + n - 1]]
    BY <1>7
  <2>2. 1..(end - (0 + 1) + 1) = 1..end /\ \A n \in 1..end : (0 + 1) + n - 1 = n
    BY <1>7
  <2> QED
    BY <2>1, <2>2
<1>10. Len(SubSeq(order, 0 + 1, end)) = end
  BY <1>7, <1>9
<1> QED
  BY <1>1, <1>7, <1>8, <1>10 DEF N

-----------------------------------------------------------------------------
(* The stream: rows with texts, each with an event_id of its own.             *)

Row == [Fields -> Seq(Int) \cup {None}]

Stream(rows, count) ==
  /\ rows \in Seq(Row) /\ count \in Nat
  /\ \A i \in 1..Len(rows) :
       /\ rows[i]["created_at"] \in Seq(Int)
       /\ \E n \in 0..(count - 1) : rows[i]["event_id"] = <<n>>
  /\ \A i, j \in 1..Len(rows) : rows[i]["event_id"] = rows[j]["event_id"] => i = j

LEMMA StreamRows ==
  ASSUME NEW rows, NEW count, Stream(rows, count)
  PROVE  /\ Len(rows) \in Nat /\ DOMAIN rows = 1..Len(rows) /\ IsFiniteSet(DOMAIN rows)
         /\ TextRows(rows)
<1>1. /\ Len(rows) \in Nat /\ DOMAIN rows = 1..Len(rows)
      /\ \A i \in 1..Len(rows) : rows[i] \in Row
  BY LenProperties, ElementOfSeq DEF Stream
<1>2. IsFiniteSet(DOMAIN rows)
  BY <1>1, FS_Interval
<1>3. ASSUME NEW row \in Row, NEW f \in Fields PROVE TextOf(row, f) \in Seq(Int)
  <2>1. row[f] \in Seq(Int) \cup {None} /\ << >> \in Seq(Int)
    BY <1>3, EmptySeq DEF Row
  <2> QED
    BY <2>1 DEF TextOf
<1> QED
  BY <1>1, <1>2, <1>3 DEF TextRows, TextRow, Stream

(* What log_event and a deletion make of it. *)
LEMMA LoggedRow ==
  ASSUME NEW row \in NewRows, NEW n \in Nat
  PROVE  /\ WithId(row, n) \in Row
         /\ WithId(row, n)["event_id"] = <<n>>
         /\ WithId(row, n)["created_at"] \in Seq(Int)
<1>1. /\ DOMAIN row = Fields \ {"event_id"}
      /\ row["created_at"] \in Seq(Int)
      /\ \A f \in DOMAIN row : row[f] = None \/ row[f] \in Seq(Int)
      /\ "event_id" \in Fields /\ "created_at" \in Fields
  BY RowAssumption, FieldAssumption
<1>2. <<n>> \in Seq(Int)
  OBVIOUS
<1>3. \A f \in Fields : WithId(row, n)[f] \in Seq(Int) \cup {None}
  BY <1>1, <1>2 DEF WithId
<1> QED
  BY <1>1, <1>3 DEF WithId, Row

LEMMA StreamGrows ==
  ASSUME NEW rows, NEW count, Stream(rows, count), NEW row \in NewRows
  PROVE  LET longer == Append(rows, WithId(row, count)) IN
         /\ Stream(longer, count + 1)
         /\ Len(longer) = Len(rows) + 1
         /\ \A i \in 1..Len(rows) : longer[i] = rows[i]
         /\ longer[Len(rows) + 1]["event_id"] = <<count>>
<1> DEFINE new == WithId(row, count)
           longer == Append(rows, new)
           N == Len(rows)
<1>1. count \in Nat /\ N \in Nat /\ rows \in Seq(Row)
  BY StreamRows DEF Stream
<1>2. new \in Row /\ new["event_id"] = <<count>> /\ new["created_at"] \in Seq(Int)
  BY <1>1, LoggedRow
<1> HIDE DEF new
<1>3. /\ longer \in Seq(Row) /\ Len(longer) = N + 1
      /\ longer[N + 1] = new /\ \A i \in 1..N : longer[i] = rows[i]
  BY <1>1, <1>2, AppendProperties
<1>4. /\ \A i \in 1..N : rows[i]["created_at"] \in Seq(Int)
      /\ \A i \in 1..N : \E n \in 0..(count - 1) : rows[i]["event_id"] = <<n>>
      /\ \A i, j \in 1..N : rows[i]["event_id"] = rows[j]["event_id"] => i = j
  BY DEF Stream
<1> HIDE DEF longer, N
<1>5. \A i \in 1..(N + 1) : i \in 1..N \/ i = N + 1
  BY <1>1
<1>6. \A i \in 1..N : rows[i]["event_id"] # <<count>>
  BY <1>1, <1>4
<1>7. ASSUME NEW i \in 1..(N + 1)
      PROVE  /\ longer[i]["created_at"] \in Seq(Int)
             /\ \E n \in 0..count : longer[i]["event_id"] = <<n>>
  <2>1. CASE i \in 1..N
    <3>1. PICK n \in 0..(count - 1) : rows[i]["event_id"] = <<n>>
      BY <1>4, <2>1
    <3>2. n \in 0..count
      BY <1>1
    <3> QED
      BY <1>3, <1>4, <2>1, <3>1, <3>2
  <2>2. CASE i = N + 1
    <3>1. count \in 0..count
      BY <1>1
    <3> QED
      BY <1>2, <1>3, <2>2, <3>1
  <2> QED
    BY <1>5, <2>1, <2>2
<1>8. \A i, j \in 1..(N + 1) : longer[i]["event_id"] = longer[j]["event_id"] => i = j
  BY <1>2, <1>3, <1>4, <1>5, <1>6
<1>9. Stream(longer, count + 1)
  <2>1. count + 1 \in Nat /\ (count + 1) - 1 = count
    BY <1>1
  <2> QED
    BY <1>3, <1>7, <1>8, <2>1 DEF Stream
<1> QED
  BY <1>2, <1>3, <1>9 DEF longer, N, new

LEMMA StreamShrinks ==
  ASSUME NEW rows, NEW count, Stream(rows, count), NEW d \in DOMAIN rows
  PROVE  /\ Stream(RemoveAt(rows, d), count)
         /\ \A i \in 1..Len(RemoveAt(rows, d)) :
              \E j \in 1..Len(rows) : RemoveAt(rows, d)[i] = rows[j]
<1> DEFINE N == Len(rows)
           rest == RemoveAt(rows, d)
           at(i) == IF i < d THEN i ELSE i + 1
<1>1. /\ N \in Nat /\ d \in 1..N /\ rows \in Seq(Row) /\ count \in Nat
      /\ \A i \in 1..N : rows[i] \in Row
  BY StreamRows, ElementOfSeq DEF Stream
<1>2. /\ rest \in Seq(Row) /\ Len(rest) = N - 1
      /\ \A i \in 1..(N - 1) : rest[i] = rows[at(i)]
  <2> DEFINE before == SubSeq(rows, 1, d - 1)
             after == SubSeq(rows, d + 1, N)
  <2>1. before \in Seq(Row) /\ Len(before) = d - 1 /\ \A i \in 1..(d - 1) : before[i] = rows[i]
    BY <1>1
  <2>2. after \in Seq(Row) /\ Len(after) = N - d /\ \A i \in 1..(N - d) : after[i] = rows[d + i]
    BY <1>1
  <2>3. rest = before \o after
    BY DEF RemoveAt
  <2> HIDE DEF before, after, rest, N
  <2>4. /\ rest \in Seq(Row) /\ Len(rest) = (d - 1) + (N - d)
        /\ \A i \in 1..((d - 1) + (N - d)) :
             rest[i] = IF i <= d - 1 THEN before[i] ELSE after[i - (d - 1)]
    BY <2>1, <2>2, <2>3, ConcatProperties
  <2>5. (d - 1) + (N - d) = N - 1
    BY <1>1
  <2>6. ASSUME NEW i \in 1..(N - 1) PROVE rest[i] = rows[at(i)]
    <3>1. CASE i < d
      BY <1>1, <2>1, <2>4, <2>5, <3>1, SMTT(30)
    <3>2. CASE ~(i < d)
      <4>1. i - (d - 1) \in 1..(N - d) /\ d + (i - (d - 1)) = i + 1 /\ ~(i <= d - 1)
        BY <1>1, <3>2
      <4> QED
        BY <2>2, <2>4, <2>5, <3>2, <4>1
    <3> QED
      BY <3>1, <3>2
  <2> QED
    BY <2>4, <2>5, <2>6
<1>3. /\ \A i \in 1..(N - 1) : at(i) \in 1..N
      /\ \A i, j \in 1..(N - 1) : at(i) = at(j) => i = j
  BY <1>1
<1>4. /\ \A i \in 1..N : rows[i]["created_at"] \in Seq(Int)
      /\ \A i \in 1..N : \E n \in 0..(count - 1) : rows[i]["event_id"] = <<n>>
      /\ \A i, j \in 1..N : rows[i]["event_id"] = rows[j]["event_id"] => i = j
  BY DEF Stream
<1> HIDE DEF at, N, rest
<1>5. /\ \A i \in 1..(N - 1) : rest[i]["created_at"] \in Seq(Int)
      /\ \A i \in 1..(N - 1) : \E n \in 0..(count - 1) : rest[i]["event_id"] = <<n>>
      /\ \A i, j \in 1..(N - 1) : rest[i]["event_id"] = rest[j]["event_id"] => i = j
  <2>1. ASSUME NEW i \in 1..(N - 1)
        PROVE  /\ rest[i]["created_at"] \in Seq(Int)
               /\ \E n \in 0..(count - 1) : rest[i]["event_id"] = <<n>>
    <3>1. at(i) \in 1..N /\ rest[i] = rows[at(i)]
      BY <1>2, <1>3
    <3> QED
      BY <1>4, <3>1
  <2>2. ASSUME NEW i \in 1..(N - 1), NEW j \in 1..(N - 1),
               rest[i]["event_id"] = rest[j]["event_id"]
        PROVE  i = j
    <3>1. /\ at(i) \in 1..N /\ rest[i] = rows[at(i)]
          /\ at(j) \in 1..N /\ rest[j] = rows[at(j)]
      BY <1>2, <1>3
    <3>2. at(i) = at(j)
      BY <1>4, <2>2, <3>1
    <3> QED
      BY <1>3, <3>2
  <2> QED
    BY <2>1, <2>2
<1>6. Stream(rest, count)
  BY <1>1, <1>2, <1>5 DEF Stream
<1>7. \A i \in 1..Len(rest) : \E j \in 1..N : rest[i] = rows[j]
  BY <1>2, <1>3
<1> QED
  BY <1>6, <1>7 DEF rest, N

-----------------------------------------------------------------------------
(* The inductive invariant.  A request that is under way, or was answered,    *)
(* since the last purge asked for the text that is in the search field.  An   *)
(* answer names rows that match its own text, and none that came later; as     *)
(* long as nothing was deleted, it is the block of what the stream then was.  *)

RequestOK(r) ==
  /\ r[1] \in 1..Blocks
  /\ r[2] \in 0..purges
  /\ r[2] = purges => r[3] = search

BlockOf(rows, a) ==
  BlockRows(SubSeq(rows, 1, a.seen), Query(a.request[3]), a.request[1])

FromPrefix(rows, a) ==
  /\ a.seen \in 0..Len(rows)
  /\ a.ids = [n \in DOMAIN BlockOf(rows, a) |-> rows[BlockOf(rows, a)[n]]["event_id"]]

Matches(rows, a) ==
  \A i \in 1..Len(rows), n \in DOMAIN a.ids :
    rows[i]["event_id"] = a.ids[n] => Accepts(Query(a.request[3]), rows[i])

Known(count, a) == \A n \in DOMAIN a.ids : \E m \in 0..(count - 1) : a.ids[n] = <<m>>

AnswerOK(a) ==
  /\ Known(logged, a)
  /\ Matches(log, a)
  /\ a.request[2] = purges /\ ~deleted => FromPrefix(log, a)

BlockOK(b) ==
  blocks[b] # None =>
    /\ blocks[b].request[1] = b
    /\ blocks[b].request[2] = purges
    /\ blocks[b].request[3] = search
    /\ AnswerOK(blocks[b])

GInv ==
  /\ Stream(log, logged)
  /\ purges \in Nat
  /\ \A r \in asked : RequestOK(r)
  /\ \A a \in served : RequestOK(a.request) /\ AnswerOK(a)
  /\ blocks = [b \in 1..Blocks |-> blocks[b]]
  /\ \A b \in 1..Blocks : BlockOK(b)

LEMMA SearchOrder ==
  ASSUME NEW rows, NEW count, Stream(rows, count), NEW text
  PROVE  StrictOrder(DOMAIN rows, OrderOf(rows, Query(text)))
<1>1. Query(text).sort_model = <<[colId |-> "created_at", sort |-> "desc"]>>
  BY DEF Query, Everything
<1>2. DOMAIN Query(text).sort_model = 1..1 /\ 1 \in Nat
  BY <1>1
<1> QED
  BY <1>2, StreamRows, PrecedesOrder

LEMMA PrefixStream ==
  ASSUME NEW rows, NEW count, Stream(rows, count), NEW n \in 0..Len(rows)
  PROVE  /\ Stream(SubSeq(rows, 1, n), count)
         /\ Len(SubSeq(rows, 1, n)) = n
         /\ \A i \in 1..n : SubSeq(rows, 1, n)[i] = rows[i]
<1> DEFINE first == SubSeq(rows, 1, n)
<1>1. /\ Len(rows) \in Nat /\ rows \in Seq(Row) /\ n \in Nat
      /\ \A i \in 1..Len(rows) : rows[i] \in Row
  BY StreamRows, ElementOfSeq DEF Stream
<1>2. /\ first \in Seq(Row) /\ Len(first) = n
      /\ \A i \in 1..n : i \in 1..Len(rows) /\ first[i] = rows[i]
  BY <1>1
<1> HIDE DEF first
<1>3. /\ count \in Nat
      /\ \A i \in 1..Len(rows) : rows[i]["created_at"] \in Seq(Int)
      /\ \A i \in 1..Len(rows) : \E m \in 0..(count - 1) : rows[i]["event_id"] = <<m>>
      /\ \A i, j \in 1..Len(rows) : rows[i]["event_id"] = rows[j]["event_id"] => i = j
  BY DEF Stream
<1>4. \A i \in 1..n : /\ first[i]["created_at"] \in Seq(Int)
                     /\ \E m \in 0..(count - 1) : first[i]["event_id"] = <<m>>
  BY <1>2, <1>3
<1>5. \A i, j \in 1..n : first[i]["event_id"] = first[j]["event_id"] => i = j
  BY <1>2, <1>3
<1>6. Stream(first, count)
  BY <1>2, <1>3, <1>4, <1>5 DEF Stream
<1> QED
  BY <1>2, <1>6 DEF first

(* The rows of a block are rows of what it was taken from. *)
LEMMA BlockOfPrefix ==
  ASSUME NEW rows, NEW count, Stream(rows, count), NEW a,
         a.seen \in 0..Len(rows), a.request[1] \in Nat \ {0}
  PROVE  \A n \in DOMAIN BlockOf(rows, a) : BlockOf(rows, a)[n] \in 1..a.seen
<1> DEFINE first == SubSeq(rows, 1, a.seen)
           q == Query(a.request[3])
<1>1. Stream(first, count) /\ Len(first) = a.seen
  BY PrefixStream
<1>2. /\ IsFiniteSet(DOMAIN first) /\ DOMAIN first = 1..a.seen
      /\ StrictOrder(DOMAIN first, OrderOf(first, q))
  BY <1>1, StreamRows, SearchOrder
<1>3. BlockOf(rows, a) = BlockRows(first, q, a.request[1])
  BY DEF BlockOf
<1> HIDE DEF first, q
<1>4. \A n \in DOMAIN BlockOf(rows, a) : InRange(first, q, a.request[1], BlockOf(rows, a)[n])
  BY <1>2, <1>3, BlockHolds
<1> QED
  BY <1>2, <1>4 DEF InRange, Matching

LEMMA AnswerGrows ==
  ASSUME NEW rows, NEW count, Stream(rows, count), NEW row \in NewRows, NEW a,
         Known(count, a), Matches(rows, a)
  PROVE  LET longer == Append(rows, WithId(row, count)) IN
         /\ Known(count + 1, a)
         /\ Matches(longer, a)
         /\ a.request[1] \in Nat \ {0} /\ FromPrefix(rows, a) => FromPrefix(longer, a)
<1> DEFINE longer == Append(rows, WithId(row, count))
           N == Len(rows)
<1>1. /\ N \in Nat /\ count \in Nat
      /\ Stream(longer, count + 1) /\ Len(longer) = N + 1
      /\ \A i \in 1..N : longer[i] = rows[i]
      /\ longer[N + 1]["event_id"] = <<count>>
  <2>1. N \in Nat /\ count \in Nat
    BY StreamRows DEF Stream
  <2>2. /\ Stream(longer, count + 1) /\ Len(longer) = N + 1
        /\ \A i \in 1..N : longer[i] = rows[i]
        /\ longer[N + 1]["event_id"] = <<count>>
    BY StreamGrows
  <2> QED
    BY <2>1, <2>2
<1> HIDE DEF longer, N
<1>2. Known(count + 1, a)
  <2>1. 0..(count - 1) \subseteq 0..((count + 1) - 1)
    BY <1>1
  <2> QED
    BY <2>1 DEF Known
<1>3. Matches(longer, a)
  <2> SUFFICES ASSUME NEW i \in 1..(N + 1), NEW n \in DOMAIN a.ids,
                      longer[i]["event_id"] = a.ids[n]
               PROVE  Accepts(Query(a.request[3]), longer[i])
    BY <1>1 DEF Matches
  <2>1. PICK m \in 0..(count - 1) : a.ids[n] = <<m>>
    BY DEF Known
  <2>2. <<m>> # <<count>>
    BY <1>1
  <2>3. i \in 1..N
    BY <1>1, <2>1, <2>2
  <2> QED
    BY <1>1, <2>3 DEF Matches, N
<1>4. ASSUME a.request[1] \in Nat \ {0}, FromPrefix(rows, a)
      PROVE  FromPrefix(longer, a)
  <2>1. /\ a.seen \in 0..N
        /\ a.ids = [n \in DOMAIN BlockOf(rows, a) |-> rows[BlockOf(rows, a)[n]]["event_id"]]
    BY <1>4 DEF FromPrefix, N
  <2>2. \A n \in DOMAIN BlockOf(rows, a) : BlockOf(rows, a)[n] \in 1..N
    BY <1>1, <1>4, <2>1, BlockOfPrefix DEF N
  <2>3. SubSeq(longer, 1, a.seen) = SubSeq(rows, 1, a.seen)
    <3>1. a.seen \in 0..Len(longer)
      BY <1>1, <2>1
    <3>2. /\ Stream(SubSeq(longer, 1, a.seen), count + 1)
          /\ Len(SubSeq(longer, 1, a.seen)) = a.seen
          /\ \A i \in 1..a.seen : SubSeq(longer, 1, a.seen)[i] = longer[i]
      BY <1>1, <3>1, PrefixStream
    <3>3. /\ Stream(SubSeq(rows, 1, a.seen), count)
          /\ Len(SubSeq(rows, 1, a.seen)) = a.seen
          /\ \A i \in 1..a.seen : SubSeq(rows, 1, a.seen)[i] = rows[i]
      BY <2>1, PrefixStream DEF N
    <3>4. \A i \in 1..a.seen : i \in 1..N
      BY <1>1, <2>1
    <3> DEFINE s == SubSeq(longer, 1, a.seen)
               t == SubSeq(rows, 1, a.seen)
    <3>5. /\ s \in Seq(Row) /\ t \in Seq(Row) /\ Len(s) = Len(t)
          /\ \A i \in 1..Len(s) : s[i] = t[i]
      BY <1>1, <3>2, <3>3, <3>4 DEF Stream
    <3> HIDE DEF s, t
    <3>6. s = t
      BY <3>5, SeqEqual
    <3> QED
      BY <3>6 DEF s, t
  <2>4. BlockOf(longer, a) = BlockOf(rows, a)
    BY <2>3 DEF BlockOf
  <2>5. a.seen \in 0..Len(longer)
    BY <1>1, <2>1
  <2>6. [n \in DOMAIN BlockOf(rows, a) |-> rows[BlockOf(rows, a)[n]]["event_id"]]
          = [n \in DOMAIN BlockOf(rows, a) |-> longer[BlockOf(rows, a)[n]]["event_id"]]
    BY <1>1, <2>2
  <2>7. a.ids = [n \in DOMAIN BlockOf(longer, a) |-> longer[BlockOf(longer, a)[n]]["event_id"]]
    BY <2>1, <2>4, <2>6
  <2> QED
    BY <2>5, <2>7 DEF FromPrefix
<1> QED
  BY <1>2, <1>3, <1>4 DEF longer

LEMMA AnswerShrinks ==
  ASSUME NEW rows, NEW count, Stream(rows, count), NEW d \in DOMAIN rows, NEW a,
         Matches(rows, a)
  PROVE  Matches(RemoveAt(rows, d), a)
BY StreamShrinks DEF Matches

(* An answer as it is served. *)
LEMMA AnswerServed ==
  ASSUME NEW rows, NEW count, Stream(rows, count), NEW a,
         a.request[1] \in Nat \ {0}, a.seen = Len(rows),
         LET block == BlockRows(rows, Query(a.request[3]), a.request[1]) IN
         a.ids = [n \in DOMAIN block |-> rows[block[n]]["event_id"]]
  PROVE  Known(count, a) /\ Matches(rows, a) /\ FromPrefix(rows, a)
<1> DEFINE q == Query(a.request[3])
           b == a.request[1]
           block == BlockRows(rows, q, b)
<1>1. /\ Len(rows) \in Nat /\ DOMAIN rows = 1..Len(rows) /\ IsFiniteSet(DOMAIN rows)
      /\ StrictOrder(DOMAIN rows, OrderOf(rows, q)) /\ rows \in Seq(Row)
  <2>1. Len(rows) \in Nat /\ DOMAIN rows = 1..Len(rows) /\ IsFiniteSet(DOMAIN rows)
    BY StreamRows
  <2>2. StrictOrder(DOMAIN rows, OrderOf(rows, q))
    BY SearchOrder
  <2>3. rows \in Seq(Row)
    BY DEF Stream
  <2> QED
    BY <2>1, <2>2, <2>3
<1>2. SubSeq(rows, 1, a.seen) = rows
  BY <1>1, SubSeqFull
<1>3. BlockOf(rows, a) = block
  BY <1>2 DEF BlockOf
<1>4. a.ids = [n \in DOMAIN block |-> rows[block[n]]["event_id"]]
  OBVIOUS
<1> HIDE DEF q, block, b
<1>5. \A n \in DOMAIN block : InRange(rows, q, b, block[n])
  BY <1>1, BlockHolds DEF block, b
<1>6. \A n \in DOMAIN block : block[n] \in 1..Len(rows) /\ Accepts(q, rows[block[n]])
  BY <1>1, <1>5 DEF InRange, Matching
<1>7. DOMAIN a.ids = DOMAIN block /\ \A n \in DOMAIN block : a.ids[n] = rows[block[n]]["event_id"]
  BY <1>4
<1>8. Known(count, a)
  <2>1. \A i \in 1..Len(rows) : \E m \in 0..(count - 1) : rows[i]["event_id"] = <<m>>
    BY DEF Stream
  <2>2. ASSUME NEW n \in DOMAIN a.ids PROVE \E m \in 0..(count - 1) : a.ids[n] = <<m>>
    <3>1. block[n] \in 1..Len(rows) /\ a.ids[n] = rows[block[n]]["event_id"]
      BY <1>6, <1>7
    <3>2. PICK m \in 0..(count - 1) : rows[block[n]]["event_id"] = <<m>>
      BY <2>1, <3>1
    <3> QED
      BY <3>1, <3>2
  <2> QED
    BY <2>2 DEF Known
<1>9. Matches(rows, a)
  <2> SUFFICES ASSUME NEW i \in 1..Len(rows), NEW n \in DOMAIN a.ids,
                      rows[i]["event_id"] = a.ids[n]
               PROVE  Accepts(q, rows[i])
    BY DEF Matches, q
  <2>1. block[n] \in 1..Len(rows) /\ Accepts(q, rows[block[n]])
        /\ rows[i]["event_id"] = rows[block[n]]["event_id"]
    BY <1>6, <1>7
  <2>2. i = block[n]
    BY <2>1 DEF Stream
  <2> QED
    BY <2>1, <2>2
<1>10. FromPrefix(rows, a)
  BY <1>1, <1>3, <1>4 DEF FromPrefix
<1> QED
  BY <1>8, <1>9, <1>10

-----------------------------------------------------------------------------
(* The invariant holds at the start, and every step keeps it.                *)

LEMMA GridStarts ==
  ASSUME Init
  PROVE  GInv
<1>1. Stream(<< >>, 0)
  <2>1. << >> \in Seq(Row) /\ Len(<< >>) = 0
    BY EmptySeq
  <2>2. 1..Len(<< >>) = {}
    BY <2>1
  <2> QED
    BY <2>1, <2>2 DEF Stream
<1>2. Stream(log, logged)
  BY <1>1 DEF Init
<1>3. \A b \in 1..Blocks : BlockOK(b)
  BY DEF Init, BlockOK
<1> QED
  BY <1>2, <1>3 DEF Init, GInv

(* What does not touch the stream, the purges or the history leaves what is    *)
(* said of an answer as it is.                                               *)
LEMMA AnswerStays ==
  ASSUME GInv, UNCHANGED <<log, logged, purges, deleted>>, NEW a, AnswerOK(a)
  PROVE  AnswerOK(a)'
BY DEF AnswerOK

LEMMA LogEventStep ==
  ASSUME GInv, NEW row \in NewRows, LogEvent(row)
  PROVE  GInv'
<1>1. /\ logged' = logged + 1 /\ log' = Append(log, WithId(row, logged))
      /\ search' = search /\ purges' = purges /\ blocks' = blocks /\ asked' = asked
      /\ served' = served /\ deleted' = deleted
  BY DEF LogEvent
<1>2. Stream(log, logged)
  BY DEF GInv
<1>3. Stream(log', logged')
  BY <1>1, <1>2, StreamGrows
<1>4. ASSUME NEW a, AnswerOK(a), a.request[1] \in Nat \ {0}
      PROVE  AnswerOK(a)'
  <2>1. Known(logged, a) /\ Matches(log, a)
    BY <1>4 DEF AnswerOK
  <2>2. /\ Known(logged + 1, a)
        /\ Matches(Append(log, WithId(row, logged)), a)
        /\ FromPrefix(log, a) => FromPrefix(Append(log, WithId(row, logged)), a)
    BY <1>2, <1>4, <2>1, AnswerGrows
  <2>3. Known(logged', a) /\ Matches(log', a) /\ (FromPrefix(log, a) => FromPrefix(log', a))
    BY <1>1, <2>2
  <2> QED
    BY <1>1, <1>4, <2>3 DEF AnswerOK
<1>5. \A b \in 1..Blocks : b \in Nat \ {0}
  BY GridAssumption
<1>6. \A r \in asked' : RequestOK(r)'
  BY <1>1 DEF GInv, RequestOK
<1>7. ASSUME NEW a \in served' PROVE RequestOK(a.request)' /\ AnswerOK(a)'
  <2>1. RequestOK(a.request) /\ AnswerOK(a)
    BY <1>1, <1>7 DEF GInv
  <2>2. a.request[1] \in Nat \ {0} /\ RequestOK(a.request)'
    BY <1>1, <1>5, <2>1 DEF RequestOK
  <2> QED
    BY <1>4, <2>1, <2>2
<1>8. ASSUME NEW b \in 1..Blocks PROVE BlockOK(b)'
  <2> SUFFICES ASSUME blocks'[b] # None
               PROVE  /\ blocks'[b].request[1] = b
                      /\ blocks'[b].request[2] = purges'
                      /\ blocks'[b].request[3] = search'
                      /\ AnswerOK(blocks[b])'
    BY DEF BlockOK
  <2>1. /\ blocks[b].request[1] = b /\ blocks[b].request[2] = purges
        /\ blocks[b].request[3] = search /\ AnswerOK(blocks[b])
    BY <1>1 DEF GInv, BlockOK
  <2> DEFINE a == blocks[b]
  <2>2. a.request[1] \in Nat \ {0} /\ AnswerOK(a) /\ blocks'[b] = a
    BY <1>1, <1>5, <2>1
  <2>3. Known(logged, a) /\ Matches(log, a)
    BY <2>2 DEF AnswerOK
  <2> HIDE DEF a
  <2>4. /\ Known(logged + 1, a)
        /\ Matches(Append(log, WithId(row, logged)), a)
        /\ FromPrefix(log, a) => FromPrefix(Append(log, WithId(row, logged)), a)
    BY <1>2, <2>2, <2>3, AnswerGrows
  <2>5. Known(logged', a) /\ Matches(log', a) /\ (FromPrefix(log, a) => FromPrefix(log', a))
    BY <1>1, <2>4
  <2>6. AnswerOK(blocks[b])'
    BY <1>1, <2>2, <2>5 DEF AnswerOK
  <2> QED
    BY <1>1, <2>1, <2>6
<1> QED
  BY <1>1, <1>3, <1>6, <1>7, <1>8 DEF GInv

LEMMA DeleteEventStep ==
  ASSUME GInv, NEW d \in DOMAIN log, DeleteEvent(d)
  PROVE  GInv'
<1>1. /\ log' = RemoveAt(log, d) /\ logged' = logged /\ deleted' = TRUE
      /\ search' = search /\ purges' = purges /\ blocks' = blocks /\ asked' = asked
      /\ served' = served
  BY DEF DeleteEvent
<1>2. Stream(log, logged)
  BY DEF GInv
<1>3. Stream(log', logged')
  BY <1>1, <1>2, StreamShrinks
<1>4. ASSUME NEW a, Known(logged, a), Matches(log, a)
      PROVE  Known(logged', a) /\ Matches(log', a) /\ deleted'
  BY <1>1, <1>2, <1>4, AnswerShrinks
<1>5. \A r \in asked' : RequestOK(r)'
  BY <1>1 DEF GInv, RequestOK
<1>6. ASSUME NEW a \in served' PROVE RequestOK(a.request)' /\ AnswerOK(a)'
  <2>1. RequestOK(a.request) /\ Known(logged, a) /\ Matches(log, a)
    BY <1>1, <1>6 DEF GInv, AnswerOK
  <2> QED
    BY <1>1, <1>4, <2>1 DEF RequestOK, AnswerOK
<1>7. ASSUME NEW b \in 1..Blocks PROVE BlockOK(b)'
  <2> SUFFICES ASSUME blocks'[b] # None
               PROVE  /\ blocks'[b].request[1] = b
                      /\ blocks'[b].request[2] = purges'
                      /\ blocks'[b].request[3] = search'
                      /\ AnswerOK(blocks[b])'
    BY DEF BlockOK
  <2>1. /\ blocks[b].request[1] = b /\ blocks[b].request[2] = purges
        /\ blocks[b].request[3] = search
        /\ Known(logged, blocks[b]) /\ Matches(log, blocks[b])
    BY <1>1 DEF GInv, BlockOK, AnswerOK
  <2>2. AnswerOK(blocks[b])'
    BY <1>1, <1>4, <2>1 DEF AnswerOK
  <2> QED
    BY <1>1, <2>1, <2>2
<1> QED
  BY <1>1, <1>3, <1>5, <1>6, <1>7 DEF GInv

LEMMA GetRowsStep ==
  ASSUME GInv, NEW b \in 1..Blocks, GetRows(b)
  PROVE  GInv'
<1>1. /\ asked' = asked \cup {<<b, purges, search>>}
      /\ log' = log /\ logged' = logged /\ search' = search /\ purges' = purges
      /\ blocks' = blocks /\ served' = served /\ deleted' = deleted
  BY DEF GetRows
<1>2. RequestOK(<<b, purges, search>>)
  BY DEF RequestOK, GInv
<1>3. \A r \in asked' : RequestOK(r)'
  BY <1>1, <1>2 DEF GInv, RequestOK
<1> QED
  BY <1>1, <1>3 DEF GInv, RequestOK, BlockOK, AnswerOK

LEMMA ServeStep ==
  ASSUME GInv, NEW r \in asked, Serve(r)
  PROVE  GInv'
<1> DEFINE block == BlockRows(log, Query(r[3]), r[1])
           new == [request |-> r, seen |-> Len(log),
                   ids |-> [n \in DOMAIN block |-> log[block[n]]["event_id"]]]
<1>1. /\ asked' = asked \ {r} /\ served' = served \cup {new}
      /\ log' = log /\ logged' = logged /\ search' = search /\ purges' = purges
      /\ blocks' = blocks /\ deleted' = deleted
  BY DEF Serve, PageOf, BlockRows
<1>2. RequestOK(r) /\ r[1] \in Nat \ {0} /\ Stream(log, logged)
  BY GridAssumption DEF GInv, RequestOK
<1>3. /\ new.request = r /\ new.seen = Len(log)
      /\ new.ids = [n \in DOMAIN block |-> log[block[n]]["event_id"]]
  OBVIOUS
<1>4. AnswerOK(new)
  <2> HIDE DEF new
  <2>1. Known(logged, new) /\ Matches(log, new) /\ FromPrefix(log, new)
    BY <1>2, <1>3, AnswerServed
  <2> QED
    BY <2>1 DEF AnswerOK
<1> HIDE DEF new
<1>5. \A a \in served' : RequestOK(a.request) /\ AnswerOK(a)
  BY <1>1, <1>2, <1>3, <1>4 DEF GInv
<1>6. \A a \in asked' : RequestOK(a)
  BY <1>1 DEF GInv
<1> QED
  BY <1>1, <1>5, <1>6 DEF GInv, RequestOK, BlockOK, AnswerOK

LEMMA SuccessStep ==
  ASSUME GInv, NEW a \in served, Success(a)
  PROVE  GInv'
<1>1. /\ served' = served \ {a}
      /\ blocks' = IF a.request[2] = purges
                   THEN [blocks EXCEPT ![a.request[1]] = a] ELSE blocks
      /\ log' = log /\ logged' = logged /\ search' = search /\ purges' = purges
      /\ asked' = asked /\ deleted' = deleted
  BY DEF Success
<1>2. RequestOK(a.request) /\ AnswerOK(a)
  BY DEF GInv
<1>3. blocks = [b \in 1..Blocks |-> blocks[b]] /\ \A b \in 1..Blocks : BlockOK(b)
  BY DEF GInv
<1>4. ASSUME NEW b \in 1..Blocks
      PROVE  \/ blocks'[b] = a /\ a.request[1] = b /\ a.request[2] = purges
             \/ blocks'[b] = blocks[b]
  BY <1>1, <1>3
<1>5. ASSUME NEW b \in 1..Blocks PROVE BlockOK(b)'
  <2>1. CASE blocks'[b] = a /\ a.request[1] = b /\ a.request[2] = purges
    <3>1. a.request[3] = search
      BY <1>2, <2>1 DEF RequestOK
    <3> QED
      BY <1>1, <1>2, <2>1, <3>1 DEF BlockOK, AnswerOK
  <2>2. CASE blocks'[b] = blocks[b]
    BY <1>1, <1>3, <2>2 DEF BlockOK, AnswerOK
  <2> QED
    BY <1>4, <2>1, <2>2
<1>6. blocks' = [b \in 1..Blocks |-> blocks'[b]]
  BY <1>1, <1>3
<1> QED
  BY <1>1, <1>5, <1>6 DEF GInv, RequestOK, AnswerOK

LEMMA InputStep ==
  ASSUME GInv, NEW text, Input(text)
  PROVE  GInv'
<1>1. /\ search' = text /\ purges' = purges + 1 /\ deleted' = FALSE
      /\ blocks' = [b \in 1..Blocks |-> None]
      /\ log' = log /\ logged' = logged /\ asked' = asked /\ served' = served
  BY DEF Input, RefreshServerRows
<1>2. purges \in Nat
  BY DEF GInv
<1>3. ASSUME NEW r, RequestOK(r) PROVE RequestOK(r)' /\ r[2] # purges'
  BY <1>1, <1>2, <1>3 DEF RequestOK
<1>4. \A r \in asked' : RequestOK(r)'
  BY <1>1, <1>3 DEF GInv
<1>5. ASSUME NEW a \in served' PROVE RequestOK(a.request)' /\ AnswerOK(a)'
  <2>1. RequestOK(a.request) /\ AnswerOK(a)
    BY <1>1, <1>5 DEF GInv
  <2>2. /\ a.request[1] \in 1..Blocks /\ a.request[2] \in 0..(purges + 1)
        /\ a.request[2] # purges + 1
    BY <1>2, <2>1 DEF RequestOK
  <2> QED
    BY <1>1, <2>1, <2>2 DEF RequestOK, AnswerOK
<1>6. \A b \in 1..Blocks : BlockOK(b)'
  BY <1>1 DEF BlockOK
<1>7. Stream(log', logged') /\ purges' \in Nat
  <2>1. Stream(log, logged)
    BY DEF GInv
  <2>2. Stream(log', logged')
    BY <1>1, <2>1
  <2>3. purges' \in Nat
    BY <1>1, <1>2
  <2> QED
    BY <2>2, <2>3
<1>8. blocks' = [b \in 1..Blocks |-> blocks'[b]]
  BY <1>1
<1> QED
  BY <1>4, <1>5, <1>6, <1>7, <1>8 DEF GInv

LEMMA GridStep ==
  ASSUME GInv, [Next]_vars
  PROVE  GInv'
<1>1. ASSUME NEW row \in NewRows, LogEvent(row) PROVE GInv'
  BY <1>1, LogEventStep
<1>2. ASSUME NEW i \in DOMAIN log, DeleteEvent(i) PROVE GInv'
  BY <1>2, DeleteEventStep
<1>3. ASSUME NEW b \in 1..Blocks, GetRows(b) PROVE GInv'
  BY <1>3, GetRowsStep
<1>4. ASSUME NEW r \in asked, Serve(r) PROVE GInv'
  BY <1>4, ServeStep
<1>5. ASSUME NEW r \in asked, Fail(r) PROVE GInv'
  BY <1>5 DEF Fail, GInv, RequestOK, BlockOK, AnswerOK
<1>6. ASSUME NEW a \in served, Success(a) PROVE GInv'
  BY <1>6, SuccessStep
<1>7. ASSUME NEW text \in Texts, Input(text) PROVE GInv'
  BY <1>7, InputStep
<1>8. CASE UNCHANGED vars
  BY <1>8 DEF vars, GInv, RequestOK, BlockOK, AnswerOK
<1> QED
  BY <1>1, <1>2, <1>3, <1>4, <1>5, <1>6, <1>7, <1>8 DEF Next

LEMMA GridAlways == Spec => []GInv
<1>1. Init => GInv
  BY GridStarts
<1>2. GInv /\ [Next]_vars => GInv'
  BY GridStep
<1> QED
  BY <1>1, <1>2, PTL DEF Spec

(* Every row that is shown matches the search text that is shown, whichever    *)
(* answers are late.                                                         *)
THEOREM ShownAlwaysMatchesSearch == Spec => []ShownMatchesSearch
<1>1. GInv => ShownMatchesSearch
  <2> SUFFICES ASSUME GInv, NEW b \in 1..Blocks, blocks[b] # None,
                      NEW i \in DOMAIN log, NEW n \in DOMAIN blocks[b].ids,
                      log[i]["event_id"] = blocks[b].ids[n]
               PROVE  Accepts(Query(search), log[i])
    BY DEF ShownMatchesSearch
  <2>1. blocks[b].request[3] = search /\ Matches(log, blocks[b])
    BY DEF GInv, BlockOK, AnswerOK
  <2>2. i \in 1..Len(log)
    BY StreamRows DEF GInv
  <2> QED
    BY <2>1, <2>2 DEF Matches
<1> QED
  BY <1>1, GridAlways, PTL

-----------------------------------------------------------------------------
(* Blocks of a stream that only grows: a row's place moves down, never up.    *)

LEMMA RowsAlike ==
  ASSUME NEW rows, NEW others, NEW q, NEW i, NEW j,
         rows[i] = others[i], rows[j] = others[j]
  PROVE  Precedes(rows, q, i, j) <=> Precedes(others, q, i, j)
<1>1. ASSUME NEW item
      PROVE  /\ Tied(rows, item, i, j) <=> Tied(others, item, i, j)
             /\ Before(rows, item, i, j) <=> Before(others, item, i, j)
  BY DEF Tied, Before
<1>2. Older(rows, i, j) <=> Older(others, i, j)
  BY DEF Older
<1>3. Older(rows, j, i) <=> Older(others, j, i)
  BY DEF Older
<1>4. ModelPrecedes(rows, q.sort_model, i, j) <=> ModelPrecedes(others, q.sort_model, i, j)
  BY <1>1 DEF ModelPrecedes
<1> QED
  BY <1>2, <1>3, <1>4 DEF Precedes

LEMMA PrefixPlace ==
  ASSUME NEW rows, NEW count, Stream(rows, count), NEW text,
         NEW l \in 0..Len(rows), NEW k \in 0..l,
         NEW i \in Matching(SubSeq(rows, 1, k), Query(text))
  PROVE  /\ i \in Matching(SubSeq(rows, 1, l), Query(text))
         /\ PlaceIn(SubSeq(rows, 1, k), Query(text), i)
              <= PlaceIn(SubSeq(rows, 1, l), Query(text), i)
<1> DEFINE fewer == SubSeq(rows, 1, k)
           more == SubSeq(rows, 1, l)
           q == Query(text)
<1>1. Len(rows) \in Nat /\ k \in 0..Len(rows) /\ \A j \in 1..k : j \in 1..l
  BY StreamRows
<1>2. /\ Stream(fewer, count) /\ Len(fewer) = k
      /\ \A j \in 1..k : fewer[j] = rows[j]
  BY <1>1, PrefixStream
<1>3. /\ Stream(more, count) /\ Len(more) = l
      /\ \A j \in 1..l : more[j] = rows[j]
  BY PrefixStream
<1>4. DOMAIN fewer = 1..k /\ DOMAIN more = 1..l /\ IsFiniteSet(DOMAIN more)
  BY <1>2, <1>3, StreamRows
<1> HIDE DEF fewer, more, q
<1>5. \A j \in 1..k : fewer[j] = more[j]
  BY <1>1, <1>2, <1>3
<1>6. \A j \in Matching(fewer, q) : j \in 1..k /\ j \in Matching(more, q)
  BY <1>1, <1>4, <1>5 DEF Matching
<1>7. i \in Matching(fewer, q)
  BY DEF fewer, q
<1>8. ASSUME NEW j \in Earlier(Matching(fewer, q), OrderOf(fewer, q), i)
      PROVE  j \in Earlier(Matching(more, q), OrderOf(more, q), i)
  <2>1. j \in Matching(fewer, q) /\ <<j, i>> \in OrderOf(fewer, q)
    BY <1>8 DEF Earlier
  <2>2. /\ i \in DOMAIN fewer /\ j \in DOMAIN fewer /\ i \in DOMAIN more /\ j \in DOMAIN more
        /\ j \in Matching(more, q) /\ fewer[i] = more[i] /\ fewer[j] = more[j]
    BY <1>1, <1>4, <1>5, <1>6, <1>7, <2>1
  <2>3. Precedes(fewer, q, j, i)
    BY <2>1, <2>2, InOrder DEF OrderOf
  <2>4. Precedes(more, q, j, i)
    BY <2>2, <2>3, RowsAlike
  <2>5. <<j, i>> \in OrderOf(more, q)
    BY <2>2, <2>4, InOrder DEF OrderOf
  <2> QED
    BY <2>2, <2>5 DEF Earlier
<1>9. IsFiniteSet(Earlier(Matching(more, q), OrderOf(more, q), i))
  <2>1. IsFiniteSet(Matching(more, q))
    BY <1>4, OrderedLength
  <2>2. Earlier(Matching(more, q), OrderOf(more, q), i) \in SUBSET Matching(more, q)
    BY DEF Earlier
  <2> QED
    BY <2>1, <2>2, FS_Subset
<1>10. PlaceIn(fewer, q, i) <= PlaceIn(more, q, i)
  <2>1. Earlier(Matching(fewer, q), OrderOf(fewer, q), i)
          \in SUBSET Earlier(Matching(more, q), OrderOf(more, q), i)
    BY <1>8
  <2> QED
    BY <1>9, <2>1, FS_Subset DEF PlaceIn, Place
<1> QED
  BY <1>6, <1>7, <1>10 DEF fewer, more, q

(* What an answer names is what is in the range of its block. *)
LEMMA IdsOfBlock ==
  ASSUME NEW rows, NEW count, Stream(rows, count), NEW a,
         a.request[1] \in Nat \ {0}, FromPrefix(rows, a), NEW i \in 1..Len(rows)
  PROVE  Contains(a.ids, rows[i]["event_id"])
           <=> InRange(SubSeq(rows, 1, a.seen), Query(a.request[3]), a.request[1], i)
<1> DEFINE first == SubSeq(rows, 1, a.seen)
           q == Query(a.request[3])
           b == a.request[1]
           block == BlockRows(first, q, b)
           K == Least(b * BlockSize, Cardinality(Matching(first, q))) - (b - 1) * BlockSize
<1>1. /\ a.seen \in 0..Len(rows)
      /\ a.ids = [n \in DOMAIN block |-> rows[block[n]]["event_id"]]
  BY DEF FromPrefix, BlockOf
<1>2. Stream(first, count)
  BY <1>1, PrefixStream
<1>3. IsFiniteSet(DOMAIN first) /\ StrictOrder(DOMAIN first, OrderOf(first, q))
  BY <1>2, StreamRows, SearchOrder
<1>4. DOMAIN block = 1..K /\ K \in Int
  <2>1. b \in Nat \ {0}
    OBVIOUS
  <2> HIDE DEF first, q, b
  <2>2. DOMAIN block = 1..K
    BY <1>3, <2>1, BlockPlaces
  <2>3. Cardinality(Matching(first, q)) \in Nat /\ b * BlockSize \in Nat /\ (b - 1) * BlockSize \in Nat
    BY <1>3, <2>1, OrderedLength, BlockRange
  <2>4. K \in Int
    BY <2>3 DEF Least
  <2> QED
    BY <2>2, <2>4
<1>5. \A n \in DOMAIN block : block[n] \in 1..Len(rows)
  <2>1. \A n \in DOMAIN BlockOf(rows, a) : BlockOf(rows, a)[n] \in 1..a.seen
    BY <1>1, BlockOfPrefix
  <2>2. \A j \in 1..a.seen : j \in 1..Len(rows)
    BY <1>1, StreamRows
  <2> QED
    BY <2>1, <2>2 DEF BlockOf
<1>6. /\ \A n \in DOMAIN block : InRange(first, q, b, block[n])
      /\ \A j : InRange(first, q, b, j) => \E n \in DOMAIN block : block[n] = j
  <2>1. b \in Nat \ {0}
    OBVIOUS
  <2> HIDE DEF first, q, b
  <2> QED
    BY <1>3, <2>1, BlockHolds
<1>7. \A j, k \in 1..Len(rows) : rows[j]["event_id"] = rows[k]["event_id"] => j = k
  BY DEF Stream
<1> HIDE DEF block, first, q, b, K
<1>8. DOMAIN a.ids = 1..Len(a.ids)
  <2>1. CASE K >= 0
    BY <1>1, <1>4, <2>1
  <2>2. CASE ~(K >= 0)
    <3>1. DOMAIN block = {}
      BY <1>4, <2>2
    <3>2. a.ids = << >>
      BY <1>1, <3>1
    <3> QED
      BY <3>2
  <2> QED
    BY <1>4, <2>1, <2>2
<1>9. Contains(a.ids, rows[i]["event_id"])
        <=> \E n \in DOMAIN block : rows[block[n]]["event_id"] = rows[i]["event_id"]
  BY <1>1, <1>8 DEF Contains
<1>10. (\E n \in DOMAIN block : rows[block[n]]["event_id"] = rows[i]["event_id"])
         <=> \E n \in DOMAIN block : block[n] = i
  BY <1>5, <1>7
<1>11. (\E n \in DOMAIN block : block[n] = i) <=> InRange(first, q, b, i)
  BY <1>6
<1> QED
  BY <1>9, <1>10, <1>11 DEF first, q, b

LEMMA SeenGrows ==
  ASSUME GInv, NEW n \in 1..Blocks, LoadedTo(n), ~deleted
  PROVE  \A b \in 1..n :
           /\ b \in 1..Blocks /\ b \in Nat \ {0}
           /\ blocks[b].request[1] = b /\ blocks[b].request[3] = search
           /\ FromPrefix(log, blocks[b])
           /\ blocks[b].seen \in 0..Len(log)
           /\ blocks[1].seen \in 0..blocks[b].seen
<1> DEFINE seen(b) == blocks[b].seen
<1>1. Blocks \in Nat \ {0} /\ Len(log) \in Nat
  BY GridAssumption, StreamRows DEF GInv
<1>2. ASSUME NEW b \in 1..n
      PROVE  /\ b \in 1..Blocks /\ b \in Nat \ {0}
             /\ blocks[b].request[1] = b /\ blocks[b].request[3] = search
             /\ FromPrefix(log, blocks[b])
             /\ seen(b) \in 0..Len(log)
  <2>1. b \in 1..Blocks /\ b \in Nat \ {0}
    BY <1>1
  <2>2. blocks[b] # None
    BY DEF LoadedTo
  <2>3. /\ blocks[b].request[1] = b /\ blocks[b].request[3] = search
        /\ FromPrefix(log, blocks[b])
    BY <2>1, <2>2 DEF GInv, BlockOK, AnswerOK
  <2> QED
    BY <2>1, <2>3 DEF FromPrefix
<1>3. \A b \in 1..n : b > 1 => seen(b - 1) <= seen(b)
  BY DEF LoadedTo
<1> HIDE DEF seen
<1>4. \A b \in 1..n : seen(1) <= seen(b)
  <2> DEFINE T == {b \in 1..n : ~(seen(1) <= seen(b))}
  <2>1. CASE T # {}
    <3>1. T \in SUBSET Nat
      BY <1>1
    <3>2. PICK b \in T : \A c \in T : b <= c
      BY <2>1, <3>1, SmallestElement
    <3>3. 1 \in 1..n /\ seen(1) \in Int /\ seen(b) \in Int
      BY <1>1, <1>2
    <3>4. b # 1 /\ b \in 1..n
      BY <3>2, <3>3
    <3>5. b - 1 \in 1..n /\ ~(b <= b - 1)
      BY <1>1, <3>4
    <3>6. b - 1 \notin T
      BY <3>2, <3>5
    <3>7. seen(1) <= seen(b - 1) /\ seen(b - 1) <= seen(b) /\ seen(b - 1) \in Int
      BY <1>1, <1>2, <1>3, <3>4, <3>5, <3>6
    <3> QED
      BY <3>2, <3>3, <3>7
  <2> QED
    BY <2>1
<1>5. 1 \in 1..n
  BY <1>1
<1> QED
  BY <1>2, <1>4, <1>5 DEF seen

(* Whatever arrived between the blocks, none of the rows that the first one    *)
(* was taken from is passed over: a row that comes before one that is shown    *)
(* is in the first block whose range its place has not left.                 *)
LEMMA NonePassedOver ==
  ASSUME GInv, NEW n \in 1..Blocks, LoadedTo(n), ~deleted,
         NEW x \in Matching(SubSeq(log, 1, blocks[1].seen), Query(search)),
         NEW y \in Matching(SubSeq(log, 1, blocks[1].seen), Query(search)),
         PlaceIn(SubSeq(log, 1, blocks[1].seen), Query(search), y)
           < PlaceIn(SubSeq(log, 1, blocks[1].seen), Query(search), x),
         NEW b \in 1..n, Contains(blocks[b].ids, log[x]["event_id"])
  PROVE  \E c \in 1..n : Contains(blocks[c].ids, log[y]["event_id"])
<1> DEFINE seen(c) == blocks[c].seen
           first(c) == SubSeq(log, 1, seen(c))
           q == Query(search)
           P(c, i) == PlaceIn(first(c), q, i)
<1>1. /\ Stream(log, logged) /\ Blocks \in Nat \ {0} /\ Len(log) \in Nat
      /\ BlockSize \in Nat \ {0}
  BY GridAssumption, LimitAssumption, StreamRows DEF GInv
<1>2. ASSUME NEW c \in 1..n
      PROVE  /\ c \in Nat \ {0} /\ seen(c) \in 0..Len(log) /\ seen(1) \in 0..seen(c)
             /\ blocks[c].request[1] = c /\ blocks[c].request[3] = search
             /\ FromPrefix(log, blocks[c])
  BY SeenGrows
<1>3. ASSUME NEW c \in 1..n
      PROVE  /\ IsFiniteSet(DOMAIN first(c)) /\ DOMAIN first(c) = 1..seen(c)
             /\ StrictOrder(DOMAIN first(c), OrderOf(first(c), q))
             /\ \A i \in 1..seen(c) : first(c)[i] = log[i]
  <2>1. /\ Stream(first(c), logged) /\ Len(first(c)) = seen(c)
        /\ \A i \in 1..seen(c) : first(c)[i] = log[i]
    BY <1>1, <1>2, PrefixStream
  <2> QED
    BY <2>1, StreamRows, SearchOrder
<1>4. 1 \in 1..n
  BY <1>1
<1>5. ASSUME NEW c \in 1..n, NEW i \in Matching(first(1), q)
      PROVE  /\ i \in Matching(first(c), q) /\ i \in 1..Len(log)
             /\ Contains(blocks[c].ids, log[i]["event_id"]) <=> InRange(first(c), q, c, i)
  <2>1. i \in Matching(first(c), q)
    BY <1>1, <1>2, <1>5, PrefixPlace
  <2>2. i \in 1..Len(log)
    BY <1>1, <1>2, <1>3, <2>1 DEF Matching
  <2>3. Contains(blocks[c].ids, log[i]["event_id"])
          <=> InRange(SubSeq(log, 1, blocks[c].seen), Query(blocks[c].request[3]),
                      blocks[c].request[1], i)
    <3>1. blocks[c].request[1] \in Nat \ {0} /\ FromPrefix(log, blocks[c])
      BY <1>2
    <3> QED
      BY <1>1, <2>2, <3>1, IdsOfBlock
  <2>4. blocks[c].request[1] = c /\ blocks[c].request[3] = search
    BY <1>2
  <2> QED
    BY <2>1, <2>2, <2>3, <2>4
<1>6. ASSUME NEW c \in 1..n, NEW i \in Matching(first(c), q)
      PROVE  P(c, i) \in Nat
  <2>1. Cardinality(Matching(first(c), q)) \in Nat
    BY <1>3, OrderedLength
  <2>2. P(c, i) \in 0..(Cardinality(Matching(first(c), q)) - 1)
    BY <1>3, <1>6, OrderedProperties
  <2> QED
    BY <2>1, <2>2
<1>7. P(b, y) < P(b, x)
  <2>1. Precedes(first(1), q, y, x)
    BY <1>3, <1>4, OrderedProperties
  <2>2. /\ x \in DOMAIN first(1) /\ y \in DOMAIN first(1)
        /\ x \in 1..seen(1) /\ y \in 1..seen(1)
    BY <1>3, <1>4 DEF Matching
  <2>3. x \in 1..seen(b) /\ y \in 1..seen(b)
    BY <1>2, <2>2
  <2>4. first(1)[x] = first(b)[x] /\ first(1)[y] = first(b)[y]
    BY <1>3, <1>4, <2>2, <2>3
  <2>5. Precedes(first(b), q, y, x)
    BY <2>1, <2>4, RowsAlike
  <2>6. x \in Matching(first(b), q) /\ y \in Matching(first(b), q)
    BY <1>5
  <2> QED
    BY <1>3, <2>5, <2>6, OrderedProperties
<1> DEFINE T == {c \in 1..n : P(c, y) < c * BlockSize}
<1>8. b \in T
  <2>1. InRange(first(b), q, b, x)
    BY <1>5
  <2>2. P(b, x) < b * BlockSize
    BY <2>1 DEF InRange
  <2>3. P(b, y) \in Nat /\ P(b, x) \in Nat /\ b * BlockSize \in Nat
    BY <1>2, <1>5, <1>6, BlockRange
  <2> HIDE DEF P
  <2>4. P(b, y) < b * BlockSize
    BY <1>7, <2>2, <2>3
  <2> QED
    BY <2>4
<1>9. PICK c \in T : \A d \in T : c <= d
  <2>1. T \in SUBSET Nat
    BY <1>1
  <2> HIDE DEF T
  <2> QED
    BY <1>8, <2>1, SmallestElement
<1>10. c \in 1..n /\ c \in Nat \ {0} /\ P(c, y) < c * BlockSize
  BY <1>2, <1>9
<1>11. (c - 1) * BlockSize <= P(c, y)
  <2>1. CASE c = 1
    <3>1. P(c, y) \in Nat
      BY <1>5, <1>6, <1>10
    <3>2. (c - 1) * BlockSize = 0
      <4>1. BlockSize \in Int /\ 0 * BlockSize = 0
        BY <1>1
      <4>2. c - 1 = 0
        BY <2>1
      <4> QED
        BY <4>1, <4>2
    <3> HIDE DEF P
    <3> QED
      BY <3>1, <3>2
  <2>2. CASE c # 1
    <3> DEFINE d == c - 1
    <3>1. d \in 1..n /\ ~(c <= d) /\ d \in Nat \ {0}
      BY <1>1, <1>10, <2>2
    <3>2. d \notin T
      BY <1>9, <3>1
    <3>3. blocks[d].seen <= blocks[c].seen
      BY <1>10, <2>2, <3>1 DEF LoadedTo
    <3> HIDE DEF d
    <3>4. seen(d) \in 0..seen(c) /\ y \in Matching(first(d), q) /\ y \in Matching(first(c), q)
      BY <1>2, <1>5, <1>10, <3>1, <3>3
    <3>5. P(d, y) <= P(c, y)
      BY <1>1, <1>2, <1>10, <3>4, PrefixPlace
    <3>6. ~(P(d, y) < d * BlockSize)
      BY <3>1, <3>2
    <3>7. P(d, y) \in Nat /\ P(c, y) \in Nat /\ d * BlockSize \in Nat
      BY <1>6, <1>10, <3>1, <3>4, BlockRange
    <3> HIDE DEF P
    <3>8. d * BlockSize <= P(c, y)
      BY <3>5, <3>6, <3>7
    <3> QED
      BY <3>8 DEF d
  <2> QED
    BY <2>1, <2>2
<1>12. InRange(first(c), q, c, y)
  BY <1>5, <1>10, <1>11 DEF InRange
<1> QED
  BY <1>5, <1>10, <1>12

(* As long as nothing is deleted and the blocks were served in their order,    *)
(* what they show of the rows the first one was taken from is a beginning of   *)
(* them, without a gap.                                                      *)
THEOREM ServedInOrderAlwaysNoGap == Spec => []ServedInOrderNoGap
<1>1. GInv => ServedInOrderNoGap
  <2> SUFFICES ASSUME GInv, NEW n \in 1..Blocks, LoadedTo(n), ~deleted
               PROVE  LET first == SubSeq(log, 1, blocks[1].seen)
                          order == Ordered(first, Query(search))
                          shown == {i \in DOMAIN order :
                                      \E b \in 1..n :
                                        Contains(blocks[b].ids, first[order[i]]["event_id"])}
                      IN \A i \in shown : 1..i \subseteq shown
    BY DEF ServedInOrderNoGap
  <2> DEFINE first == SubSeq(log, 1, blocks[1].seen)
             q == Query(search)
             order == Ordered(first, q)
             M == Matching(first, q)
             P(i) == PlaceIn(first, q, i)
             shown == {i \in DOMAIN order :
                         \E b \in 1..n :
                           Contains(blocks[b].ids, first[order[i]]["event_id"])}
  <2>1. Stream(log, logged) /\ 1 \in 1..n
    BY GridAssumption DEF GInv
  <2>2. blocks[1].seen \in 0..Len(log)
    BY <2>1, SeenGrows
  <2>3. /\ Stream(first, logged) /\ Len(first) = blocks[1].seen
        /\ \A i \in 1..blocks[1].seen : first[i] = log[i]
    BY <2>1, <2>2, PrefixStream
  <2>4. /\ IsFiniteSet(DOMAIN first) /\ DOMAIN first = 1..blocks[1].seen
        /\ StrictOrder(DOMAIN first, OrderOf(first, q))
    BY <2>3, StreamRows, SearchOrder
  <2>5. DOMAIN order = 1..Cardinality(M) /\ Cardinality(M) \in Nat
    BY <2>4, OrderedLength
  <2>6. \A i \in 1..Cardinality(M) : order[i] \in M /\ P(order[i]) = i - 1
    <3> HIDE DEF first, q
    <3> QED
      BY <2>4, OrderedProperties
  <2>7. \A i \in M : first[i] = log[i]
    BY <2>3, <2>4 DEF Matching
  <2>8. ASSUME NEW x \in M, NEW y \in M, P(y) < P(x),
               NEW b \in 1..n, Contains(blocks[b].ids, log[x]["event_id"])
        PROVE  \E c \in 1..n : Contains(blocks[c].ids, log[y]["event_id"])
    BY <2>8, NonePassedOver
  <2> HIDE DEF first, q, order, M, P
  <2>9. ASSUME NEW i \in shown, NEW k \in 1..i PROVE k \in shown
    <3>1. i \in 1..Cardinality(M) /\ k \in 1..Cardinality(M)
      BY <2>5
    <3>2. /\ order[i] \in M /\ P(order[i]) = i - 1
          /\ order[k] \in M /\ P(order[k]) = k - 1
      BY <2>6, <3>1
    <3>3. PICK b \in 1..n : Contains(blocks[b].ids, log[order[i]]["event_id"])
      BY <2>7, <3>2
    <3>4. CASE k = i
      BY <3>4
    <3>5. CASE k # i
      <4>1. P(order[k]) < P(order[i])
        BY <2>5, <3>1, <3>2, <3>5
      <4>2. \E c \in 1..n : Contains(blocks[c].ids, log[order[k]]["event_id"])
        BY <2>8, <3>2, <3>3, <4>1
      <4> QED
        BY <2>5, <2>7, <3>1, <3>2, <4>2
    <3> QED
      BY <3>4, <3>5
  <2>10. \A i \in shown : 1..i \subseteq shown
    BY <2>9
  <2> QED
    BY <2>10 DEF first, q, order
<1> QED
  BY <1>1, GridAlways, PTL

-----------------------------------------------------------------------------
(* The export, and the pages laid end to end.                                *)

LEMMA OrderedIsSequence ==
  ASSUME NEW rows, IsFiniteSet(DOMAIN rows), NEW q,
         StrictOrder(DOMAIN rows, OrderOf(rows, q))
  PROVE  Ordered(rows, q) \in Seq(DOMAIN rows)
<1> DEFINE N == Cardinality(Matching(rows, q))
<1>1. N \in Nat /\ DOMAIN Ordered(rows, q) = 1..N
  BY OrderedLength
<1>2. \A n \in 1..N : Ordered(rows, q)[n] \in DOMAIN rows
  BY OrderedProperties DEF Matching
<1>3. Ordered(rows, q) = [n \in 1..N |-> Ordered(rows, q)[n]]
  <2> DEFINE at(n) == CHOOSE i \in Matching(rows, q) :
                        Cardinality({j \in Matching(rows, q) : Precedes(rows, q, j, i)}) = n - 1
  <2>1. Ordered(rows, q) = [n \in 1..N |-> at(n)]
    BY DEF Ordered
  <2> HIDE DEF at, N
  <2> QED
    BY <2>1
<1> HIDE DEF N
<1> QED
  BY <1>1, <1>2, <1>3

LEMMA ExportRows ==
  ASSUME NEW rows, NEW count, Stream(rows, count), NEW max \in Nat
  PROVE  /\ StrictOrder(DOMAIN rows, OrderOf(rows, Everything))
         /\ Matching(rows, Everything) = 1..Len(rows)
         /\ Cardinality(1..Len(rows)) = Len(rows)
         /\ Least(Len(rows), Least(max, SearchLimit)) \in 0..Len(rows)
         /\ AuditExport(rows, max)
              = [n \in 1..Least(Len(rows), Least(max, SearchLimit)) |->
                   Ordered(rows, Everything)[n]]
<1> DEFINE N == Len(rows)
           order == Ordered(rows, Everything)
           end == Least(N, Least(max, SearchLimit))
<1>1. N \in Nat /\ DOMAIN rows = 1..N /\ IsFiniteSet(DOMAIN rows) /\ TextRows(rows)
  BY StreamRows
<1>2. /\ Everything.sort_model = << >> /\ Everything.exact = << >>
      /\ Everything.filter_model = << >> /\ Everything.quick = << >>
      /\ Everything.from = None /\ Everything.to = None
  BY DEF Everything
<1>3. DOMAIN << >> = 1..0 /\ DOMAIN << >> = {} /\ 0 \in Nat
  OBVIOUS
<1>4. StrictOrder(DOMAIN rows, OrderOf(rows, Everything))
  BY <1>1, <1>2, <1>3, PrecedesOrder
<1>5. Matching(rows, Everything) = 1..N
  BY <1>1, <1>2, <1>3 DEF Matching, Accepts
<1>6. Cardinality(1..N) = N
  <2> HIDE DEF N
  <2>1. Cardinality(1..N) = IF 1 > N THEN 0 ELSE N - 1 + 1
    BY <1>1, FS_Interval
  <2> QED
    BY <1>1, <2>1
<1>7. Len(order) = N /\ order \in Seq(1..N)
  BY <1>1, <1>4, <1>5, <1>6, OrderedLength, OrderedIsSequence
<1>8. AuditExport(rows, max)
        = SubSeq(order, Greatest(0, 0) + 1,
                 Least(Greatest(0, 0) + Least(Greatest(max, 0), SearchLimit), Len(order)))
  BY DEF AuditExport, ExportEvents, Search, Sliced
<1>9. SearchLimit \in Nat
  BY LimitAssumption
<1> HIDE DEF N, order
<1>10. /\ Greatest(0, 0) + 1 = 1 /\ end \in 0..N
       /\ Least(Greatest(0, 0) + Least(Greatest(max, 0), SearchLimit), N) = end
  BY <1>1, <1>9 DEF Greatest, Least
<1> HIDE DEF end
<1>11. AuditExport(rows, max) = SubSeq(order, 1, end)
  BY <1>7, <1>8, <1>10
<1>12. SubSeq(order, 1, end) = [n \in 1..end |-> order[n]]
  <2>1. SubSeq(order, 1, end) = [n \in 1..(end - 1 + 1) |-> order[1 + n - 1]]
    BY <1>1, <1>7, <1>10
  <2>2. 1..(end - 1 + 1) = 1..end /\ \A n \in 1..end : 1 + n - 1 = n
    BY <1>1, <1>10
  <2> QED
    BY <2>1, <2>2
<1> QED
  BY <1>4, <1>5, <1>6, <1>10, <1>11, <1>12 DEF N, order, end

(* An export is cut off at the limit of search() whatever it was asked for,    *)
(* but what it leaves out is older than all it has.                          *)
THEOREM ExportAlwaysKeepsNewest == Spec => []ExportKeepsNewest
<1>1. GInv => ExportKeepsNewest
  <2> SUFFICES ASSUME GInv, NEW max_rows \in 1..(MaxRows + 1)
               PROVE  LET exported == ToSet(AuditExport(log, max_rows)) IN
                      /\ Cardinality(exported) = Least(Len(log), Least(max_rows, SearchLimit))
                      /\ \A i \in exported, j \in DOMAIN log \ exported : Older(log, j, i)
    BY DEF ExportKeepsNewest
  <2> DEFINE exported == ToSet(AuditExport(log, max_rows))
             order == Ordered(log, Everything)
             N == Len(log)
             end == Least(N, Least(max_rows, SearchLimit))
             P(i) == PlaceIn(log, Everything, i)
  <2>1. /\ Stream(log, logged) /\ max_rows \in Nat
        /\ N \in Nat /\ DOMAIN log = 1..N /\ IsFiniteSet(DOMAIN log)
    BY GridAssumption, StreamRows DEF GInv
  <2>2. /\ StrictOrder(DOMAIN log, OrderOf(log, Everything))
        /\ Matching(log, Everything) = 1..N /\ Cardinality(1..N) = N
        /\ end \in 0..N
        /\ AuditExport(log, max_rows) = [n \in 1..end |-> order[n]]
    BY <2>1, ExportRows
  <2>3. /\ \A n \in 1..N : order[n] \in 1..N /\ P(order[n]) = n - 1
        /\ \A i \in 1..N : P(i) \in 0..(N - 1) /\ order[P(i) + 1] = i
        /\ \A i, j \in 1..N : P(i) < P(j) <=> Precedes(log, Everything, i, j)
    <3> DEFINE M == Matching(log, Everything)
    <3>1. /\ \A n \in 1..Cardinality(M) : order[n] \in M /\ P(order[n]) = n - 1
          /\ \A i \in M : P(i) \in 0..(Cardinality(M) - 1) /\ order[P(i) + 1] = i
          /\ \A i, j \in M : P(i) < P(j) <=> Precedes(log, Everything, i, j)
      BY <2>1, <2>2, OrderedProperties
    <3>2. M = 1..N /\ Cardinality(M) = N
      BY <2>2
    <3> HIDE DEF M, N, P, order
    <3> QED
      BY <3>1, <3>2
  <2>4. exported = {order[n] : n \in 1..end}
    BY <2>2 DEF ToSet
  <2>5. \A i, j : Precedes(log, Everything, i, j) <=> Older(log, j, i)
    BY DEF Precedes, Everything
  <2> HIDE DEF exported, order, N, P, end
  <2>6. \A n \in 1..end : n \in 1..N
    BY <2>1, <2>2
  <2>7. Cardinality(exported) = end
    <3> DEFINE f == [n \in 1..end |-> order[n]]
    <3>1. f \in [1..end -> exported] /\ \A i \in exported : \E n \in 1..end : f[n] = i
      BY <2>4
    <3>2. \A n, m \in 1..end : f[n] = f[m] => n = m
      <4> SUFFICES ASSUME NEW n \in 1..end, NEW m \in 1..end, order[n] = order[m]
                   PROVE  n = m
        OBVIOUS
      <4>1. P(order[n]) = n - 1 /\ P(order[m]) = m - 1
        BY <2>3, <2>6
      <4> QED
        BY <2>1, <2>2, <4>1
    <3>3. f \in Bijection(1..end, exported)
      BY <3>1, <3>2 DEF Bijection, Injection, Surjection, IsInjective
    <3>4. IsFiniteSet(1..end) /\ Cardinality(1..end) = end
      BY <2>1, <2>2, FS_Interval
    <3> QED
      BY <3>3, <3>4, FS_Bijection DEF ExistsBijection
  <2>8. ASSUME NEW i \in exported, NEW j \in DOMAIN log \ exported
        PROVE  Older(log, j, i)
    <3>1. PICK n \in 1..end : i = order[n]
      BY <2>4
    <3>2. i \in 1..N /\ P(i) = n - 1 /\ j \in 1..N
      BY <2>1, <2>3, <2>6, <3>1
    <3>3. P(j) \in 0..(N - 1) /\ order[P(j) + 1] = j
      BY <2>3, <3>2
    <3>4. P(j) + 1 \notin 1..end
      BY <2>4, <3>3
    <3>5. P(i) < P(j)
      BY <2>1, <2>2, <3>2, <3>3, <3>4
    <3> QED
      BY <2>3, <2>5, <3>2, <3>5
  <2> QED
    BY <2>7, <2>8 DEF exported, end, N
<1> QED
  BY <1>1, GridAlways, PTL

(* What FlattenSeq answers, from any way to add one sequence after the other.  *)
IsSum(sum, seqs, n) ==
  sum = [i \in 1..n |-> IF i = 1 THEN seqs[i] ELSE sum[i - 1] \o seqs[i]]

LEMMA FlattenIsSum ==
  ASSUME NEW n \in Nat \ {0}, NEW seqs, Len(seqs) = n, NEW sum, IsSum(sum, seqs, n)
  PROVE  FlattenSeq(seqs) = sum[n]
<1> DEFINE flatten == CHOOSE g : IsSum(g, seqs, n)
<1>1. FlattenSeq(seqs) = flatten[n]
  BY DEF FlattenSeq, IsSum
<1>2. IsSum(flatten, seqs, n)
  OBVIOUS
<1> HIDE DEF flatten
<1>3. /\ \A i \in 1..n : sum[i] = IF i = 1 THEN seqs[i] ELSE sum[i - 1] \o seqs[i]
      /\ \A i \in 1..n : flatten[i] = IF i = 1 THEN seqs[i] ELSE flatten[i - 1] \o seqs[i]
  BY <1>2 DEF IsSum
<1>4. 1 \in 1..n /\ n \in 1..n
  OBVIOUS
<1> DEFINE T == {i \in 1..n : flatten[i] # sum[i]}
<1>5. CASE T # {}
  <2>1. T \in SUBSET Nat
    OBVIOUS
  <2>2. PICK i \in T : \A j \in T : i <= j
    BY <1>5, <2>1, SmallestElement
  <2>3. i \in 1..n /\ flatten[i] # sum[i] /\ i # 1
    BY <1>3, <1>4, <2>2
  <2>4. i - 1 \in 1..n /\ ~(i <= i - 1)
    BY <2>3
  <2>5. flatten[i - 1] = sum[i - 1]
    BY <2>2, <2>4
  <2>6. sum[i] = sum[i - 1] \o seqs[i] /\ flatten[i] = flatten[i - 1] \o seqs[i]
    BY <1>3, <2>3
  <2> QED
    BY <2>3, <2>5, <2>6
<1>6. CASE T = {}
  BY <1>1, <1>4, <1>6
<1> QED
  BY <1>5, <1>6

LEMMA RangesFit ==
  ASSUME NEW S, NEW s \in Seq(S), NEW k \in Nat, NEW m \in Nat, k <= m
  PROVE  SubSeq(s, 1, Least(k, Len(s))) \o SubSeq(s, k + 1, Least(m, Len(s)))
           = SubSeq(s, 1, Least(m, Len(s)))
<1> DEFINE N == Len(s)
           a == Least(k, N)
           b == Least(m, N)
           left == SubSeq(s, 1, a)
           right == SubSeq(s, k + 1, b)
           both == SubSeq(s, 1, b)
<1>1. N \in Nat /\ \A i \in 1..N : s[i] \in S
  BY LenProperties, ElementOfSeq
<1> HIDE DEF N
<1>2. /\ a \in 0..N /\ b \in 0..N /\ a <= b
      /\ k <= N => a = k
      /\ ~(k <= N) => a = N /\ b = N
  BY <1>1 DEF Least
<1> HIDE DEF a, b
<1>3. left \in Seq(S) /\ Len(left) = a /\ \A i \in 1..a : left[i] = s[i]
  BY <1>1, <1>2 DEF N
<1>4. both \in Seq(S) /\ Len(both) = b /\ \A i \in 1..b : both[i] = s[i]
  BY <1>1, <1>2 DEF N
<1>5. right \in Seq(S) /\ Len(right) = b - a /\ \A i \in 1..(b - a) : right[i] = s[a + i]
  <2>1. CASE k <= N
    <3>1. a = k /\ k \in Nat
      BY <1>2, <2>1
    <3> QED
      BY <1>1, <1>2, <3>1 DEF N
  <2>2. CASE ~(k <= N)
    <3>1. b - a = 0 /\ b < k + 1
      BY <1>1, <1>2, <2>2
    <3>2. right = << >>
      BY <1>1, <1>2, <3>1
    <3> HIDE DEF right
    <3>3. right \in Seq(S) /\ Len(right) = 0
      BY <3>2, EmptySeq
    <3>4. 1..(b - a) = {}
      BY <3>1
    <3> QED
      BY <3>1, <3>3, <3>4
  <2> QED
    BY <2>1, <2>2
<1> HIDE DEF left, right, both
<1>6. /\ left \o right \in Seq(S) /\ Len(left \o right) = b
      /\ \A i \in 1..b : (left \o right)[i] = s[i]
  <2>1. /\ left \o right \in Seq(S) /\ Len(left \o right) = a + (b - a)
        /\ \A i \in 1..(a + (b - a)) :
             (left \o right)[i] = IF i <= a THEN left[i] ELSE right[i - a]
    <3>1. left \in Seq(S) /\ right \in Seq(S)
      BY <1>3, <1>5
    <3>2. /\ left \o right \in Seq(S) /\ Len(left \o right) = Len(left) + Len(right)
          /\ \A i \in 1..(Len(left) + Len(right)) :
               (left \o right)[i]
                 = IF i <= Len(left) THEN left[i] ELSE right[i - Len(left)]
      BY <3>1, ConcatProperties
    <3>3. Len(left) = a /\ Len(right) = b - a
      BY <1>3, <1>5
    <3> QED
      BY <3>2, <3>3
  <2>2. a + (b - a) = b
    BY <1>1, <1>2
  <2>3. ASSUME NEW i \in 1..b, ~(i <= a) PROVE i - a \in 1..(b - a) /\ a + (i - a) = i
    BY <1>1, <1>2, <2>3
  <2>4. ASSUME NEW i \in 1..b, i <= a PROVE i \in 1..a
    BY <1>1, <1>2, <2>4
  <2> QED
    BY <1>3, <1>5, <2>1, <2>2, <2>3, <2>4
<1>7. left \o right = both
  BY <1>4, <1>6, SeqEqual
<1> QED
  BY <1>7 DEF left, right, both, a, b, N

LEMMA PagesFit ==
  ASSUME NEW rows, IsFiniteSet(DOMAIN rows), NEW q,
         StrictOrder(DOMAIN rows, OrderOf(rows, q)), NEW pages \in Nat
  PROVE  FlattenSeq([b \in 1..pages |-> BlockRows(rows, q, b)])
           = SubSeq(Ordered(rows, q), 1, Least(pages * BlockSize, Cardinality(Matching(rows, q))))
<1> DEFINE order == Ordered(rows, q)
           N == Cardinality(Matching(rows, q))
           seqs == [b \in 1..pages |-> BlockRows(rows, q, b)]
           sum == [b \in 1..pages |-> SubSeq(order, 1, Least(b * BlockSize, N))]
<1>1. order \in Seq(DOMAIN rows) /\ Len(order) = N /\ N \in Nat
  BY OrderedIsSequence, OrderedLength
<1>2. ASSUME NEW b \in Nat \ {0}
      PROVE  /\ BlockRows(rows, q, b)
                  = SubSeq(order, (b - 1) * BlockSize + 1, Least(b * BlockSize, N))
             /\ (b - 1) * BlockSize \in Nat /\ b * BlockSize \in Nat
             /\ (b - 1) * BlockSize <= b * BlockSize
  <2>1. /\ (b - 1) * BlockSize \in Nat /\ b * BlockSize \in Nat
        /\ (b - 1) * BlockSize <= b * BlockSize
    <3> DEFINE x == (b - 1) * BlockSize
               y == b * BlockSize
    <3>1. x \in Nat /\ y \in Nat /\ y = x + BlockSize /\ BlockSize \in Nat
      BY BlockRange
    <3> HIDE DEF x, y
    <3>2. x <= y
      BY <3>1
    <3> QED
      BY <3>1, <3>2 DEF x, y
  <2> QED
    BY <2>1, BlockIsRange
<1>3. BlockSize \in Nat
  BY GridAssumption, LimitAssumption
<1> HIDE DEF order, N
<1>4. Len(seqs) = pages /\ DOMAIN seqs = 1..pages
  OBVIOUS
<1>5. CASE pages = 0
  <2>1. seqs = << >> /\ Len(seqs) = 0
    BY <1>5
  <2>2. FlattenSeq(seqs) = << >>
    BY <2>1 DEF FlattenSeq
  <2>3. Least(pages * BlockSize, N) = 0
    <3>1. pages * BlockSize = 0
      BY <1>3, <1>5
    <3> QED
      BY <1>1, <3>1 DEF Least
  <2>4. SubSeq(order, 1, 0) = << >>
    BY <1>1
  <2> QED
    BY <2>2, <2>3, <2>4 DEF order, N
<1>6. CASE pages # 0
  <2>1. ASSUME NEW b \in 1..pages
        PROVE  sum[b] = IF b = 1 THEN seqs[b] ELSE sum[b - 1] \o seqs[b]
    <3>1. /\ b \in Nat \ {0}
          /\ sum[b] = SubSeq(order, 1, Least(b * BlockSize, N))
          /\ seqs[b] = SubSeq(order, (b - 1) * BlockSize + 1, Least(b * BlockSize, N))
      <4>1. b \in Nat \ {0}
        OBVIOUS
      <4>2. sum[b] = SubSeq(order, 1, Least(b * BlockSize, N)) /\ seqs[b] = BlockRows(rows, q, b)
        OBVIOUS
      <4> HIDE DEF sum, seqs
      <4> QED
        BY <1>2, <4>1, <4>2
    <3>2. CASE b = 1
      <4>1. (b - 1) * BlockSize + 1 = 1
        <5>1. 0 * BlockSize = 0
          BY <1>3
        <5>2. b - 1 = 0
          BY <3>2
        <5> QED
          BY <5>1, <5>2
      <4> QED
        BY <3>1, <3>2, <4>1
    <3>3. CASE b # 1
      <4>1. b - 1 \in 1..pages
        BY <3>3
      <4>2. sum[b - 1] = SubSeq(order, 1, Least((b - 1) * BlockSize, N))
        BY <4>1
      <4> DEFINE x == (b - 1) * BlockSize
                 y == b * BlockSize
      <4>3. x \in Nat /\ y \in Nat /\ x <= y
        BY <1>2, <3>1
      <4> HIDE DEF x, y
      <4>4. SubSeq(order, 1, Least(x, Len(order))) \o SubSeq(order, x + 1, Least(y, Len(order)))
              = SubSeq(order, 1, Least(y, Len(order)))
        BY <1>1, <4>3, RangesFit
      <4>5. SubSeq(order, 1, Least(x, N)) \o SubSeq(order, x + 1, Least(y, N))
              = SubSeq(order, 1, Least(y, N))
        BY <1>1, <4>4
      <4>6. /\ sum[b] = SubSeq(order, 1, Least(y, N))
            /\ seqs[b] = SubSeq(order, x + 1, Least(y, N))
            /\ sum[b - 1] = SubSeq(order, 1, Least(x, N))
        BY <3>1, <4>2 DEF x, y
      <4> HIDE DEF sum, seqs
      <4> QED
        BY <3>3, <4>5, <4>6
    <3> HIDE DEF sum, seqs
    <3> QED
      BY <3>2, <3>3
  <2>2. sum = [b \in 1..pages |-> IF b = 1 THEN seqs[b] ELSE sum[b - 1] \o seqs[b]]
    <3>1. sum = [b \in 1..pages |-> sum[b]]
      OBVIOUS
    <3> HIDE DEF sum, seqs
    <3> QED
      BY <2>1, <3>1
  <2>3. pages \in Nat \ {0}
    BY <1>6
  <2>4. sum[pages] = SubSeq(order, 1, Least(pages * BlockSize, N))
    <3>1. pages \in 1..pages
      BY <2>3
    <3>2. \A b \in 1..pages : sum[b] = SubSeq(order, 1, Least(b * BlockSize, N))
      OBVIOUS
    <3> HIDE DEF sum
    <3> QED
      BY <3>1, <3>2
  <2> HIDE DEF sum, seqs
  <2>5. FlattenSeq(seqs) = sum[pages]
    <3>1. IsSum(sum, seqs, pages)
      BY <2>2 DEF IsSum
    <3> QED
      BY <1>4, <2>3, <3>1, FlattenIsSum
  <2> QED
    BY <2>4, <2>5 DEF seqs, order, N
<1> QED
  BY <1>5, <1>6

(* The pages of a search, each served on its own by its range, are the first   *)
(* rows of the whole answer when they are laid end to end up to the total, and *)
(* the total is the number of matching rows as far as search() reaches.       *)
THEOREM PagesAlwaysTile == Spec => []PagesTile
<1>1. GInv => PagesTile
  <2> SUFFICES ASSUME GInv, NEW text \in Texts, NEW filters \in FilterModels
               PROVE  LET q == [Query(text) EXCEPT !.filter_model = filters]
                          total == Count(log, q)
                          pages == (total + BlockSize - 1) \div BlockSize
                      IN /\ total = Least(Cardinality(Matching(log, q)), SearchLimit)
                         /\ FlattenSeq([b \in 1..pages |-> PageOf(b, q).rows])
                              = SubSeq(Ordered(log, q), 1,
                                       Least(pages * BlockSize, Cardinality(Matching(log, q))))
    BY DEF PagesTile
  <2> DEFINE q == [Query(text) EXCEPT !.filter_model = filters]
             total == Count(log, q)
             pages == (total + BlockSize - 1) \div BlockSize
  <2>1. Stream(log, logged) /\ log \in Seq(Row)
    BY DEF GInv, Stream
  <2>2. TextRows(log) /\ IsFiniteSet(DOMAIN log)
    BY <2>1, StreamRows
  <2>3. q.sort_model = <<[colId |-> "created_at", sort |-> "desc"]>>
    BY DEF Query, Everything
  <2>4. DOMAIN q.sort_model = 1..1 /\ 1 \in Nat
    BY <2>3
  <2> HIDE DEF q
  <2>5. StrictOrder(DOMAIN log, OrderOf(log, q))
    BY <2>2, <2>4, PrecedesOrder
  <2>6. total = Least(Cardinality(Matching(log, q)), SearchLimit)
    BY <2>1, CountProperties
  <2>7. total \in Nat
    <3>1. Cardinality(Matching(log, q)) \in Nat /\ SearchLimit \in Nat
      BY <2>2, OrderedLength, LimitAssumption
    <3> QED
      BY <2>6, <3>1 DEF Least
  <2>8. pages \in Nat
    <3>1. BlockSize \in Nat \ {0}
      BY GridAssumption, LimitAssumption
    <3>2. total + BlockSize - 1 \in Nat
      BY <2>7, <3>1
    <3> HIDE DEF total
    <3> QED
      BY <3>1, <3>2
  <2> HIDE DEF pages, total
  <2>9. FlattenSeq([b \in 1..pages |-> BlockRows(log, q, b)])
          = SubSeq(Ordered(log, q), 1, Least(pages * BlockSize, Cardinality(Matching(log, q))))
    BY <2>2, <2>5, <2>8, PagesFit
  <2>10. [b \in 1..pages |-> PageOf(b, q).rows] = [b \in 1..pages |-> BlockRows(log, q, b)]
    BY DEF PageOf, BlockRows
  <2> QED
    BY <2>6, <2>9, <2>10 DEF q, total, pages
<1> QED
  BY <1>1, GridAlways, PTL

-----------------------------------------------------------------------------
(* Sorting by a sort model in one order, and in the loop of search().        *)

Arranged(S, R) ==
  [n \in 1..Cardinality(S) |-> CHOOSE i \in S : Place(S, R, i) = n - 1]

LEMMA ArrangedProperties ==
  ASSUME NEW S, IsFiniteSet(S), NEW R, StrictOrder(S, R)
  PROVE  LET p == Arranged(S, R)
             N == Cardinality(S)
         IN /\ N \in Nat /\ DOMAIN p = 1..N
            /\ \A n \in 1..N : p[n] \in S /\ Place(S, R, p[n]) = n - 1
            /\ \A i \in S : \E n \in 1..N : p[n] = i
            /\ \A k, l \in 1..N : /\ k < l <=> <<p[k], p[l]>> \in R
                                  /\ p[k] = p[l] => k = l
<1> DEFINE p == Arranged(S, R)
           N == Cardinality(S)
<1>1. /\ N \in Nat
      /\ \A i \in S : Place(S, R, i) \in 0..(N - 1)
      /\ \A i, j \in S : Place(S, R, i) < Place(S, R, j) <=> <<i, j>> \in R
      /\ \A i, j \in S : Place(S, R, i) = Place(S, R, j) => i = j
      /\ \A n \in 0..(N - 1) : \E i \in S : Place(S, R, i) = n
  BY PlaceProperties
<1>2. DOMAIN p = 1..N /\ \A n \in 1..N : p[n] = CHOOSE i \in S : Place(S, R, i) = n - 1
  BY DEF Arranged
<1> HIDE DEF p, N
<1>3. ASSUME NEW n \in 1..N PROVE p[n] \in S /\ Place(S, R, p[n]) = n - 1
  <2>1. n - 1 \in 0..(N - 1)
    BY <1>1
  <2>2. \E i \in S : Place(S, R, i) = n - 1
    BY <1>1, <2>1
  <2> QED
    BY <1>2, <2>2
<1>4. ASSUME NEW i \in S PROVE \E n \in 1..N : p[n] = i
  <2> DEFINE n == Place(S, R, i) + 1
  <2>1. n \in 1..N /\ n - 1 = Place(S, R, i)
    BY <1>1
  <2>2. p[n] = i
    BY <1>1, <1>3, <2>1
  <2> QED
    BY <2>1, <2>2
<1>5. ASSUME NEW k \in 1..N, NEW l \in 1..N
      PROVE  /\ k < l <=> <<p[k], p[l]>> \in R
             /\ p[k] = p[l] => k = l
  <2>1. /\ p[k] \in S /\ p[l] \in S
        /\ Place(S, R, p[k]) = k - 1 /\ Place(S, R, p[l]) = l - 1
    BY <1>3
  <2>2. k - 1 < l - 1 <=> <<p[k], p[l]>> \in R
    BY <1>1, <2>1
  <2>3. p[k] = p[l] => k - 1 = l - 1
    BY <2>1
  <2> QED
    BY <2>2, <2>3
<1> QED
  BY <1>1, <1>2, <1>3, <1>4, <1>5 DEF p, N

(* A list with every member of S in its place is the only such list. *)
LEMMA ArrangedIs ==
  ASSUME NEW S, IsFiniteSet(S), NEW R, StrictOrder(S, R), NEW f,
         \A n \in 1..Cardinality(S) : f[n] \in S /\ Place(S, R, f[n]) = n - 1
  PROVE  Arranged(S, R) = [n \in 1..Cardinality(S) |-> f[n]]
<1>1. \A i, j \in S : Place(S, R, i) = Place(S, R, j) => i = j
  BY PlaceProperties
<1>2. ASSUME NEW n \in 1..Cardinality(S)
      PROVE  (CHOOSE i \in S : Place(S, R, i) = n - 1) = f[n]
  <2>1. f[n] \in S /\ Place(S, R, f[n]) = n - 1
    OBVIOUS
  <2>2. PICK c : c = CHOOSE i \in S : Place(S, R, i) = n - 1
    OBVIOUS
  <2>3. c \in S /\ Place(S, R, c) = n - 1
    BY <2>1, <2>2
  <2> QED
    BY <1>1, <2>1, <2>2, <2>3
<1> QED
  BY <1>2 DEF Arranged

(* By the item first, and in the order R what the item does not tell apart. *)
ItemFirst(S, rows, item, R) ==
  {p \in S \X S : \/ Before(rows, item, p[1], p[2])
                  \/ Tied(rows, item, p[1], p[2]) /\ p \in R}

LEMMA InItemFirst ==
  ASSUME NEW S, NEW rows, NEW item, NEW R, NEW i \in S, NEW j \in S
  PROVE  <<i, j>> \in ItemFirst(S, rows, item, R)
           <=> \/ Before(rows, item, i, j)
               \/ Tied(rows, item, i, j) /\ <<i, j>> \in R
BY DEF ItemFirst

LEMMA ItemFirstOrder ==
  ASSUME NEW rows, TextRows(rows), NEW S \in SUBSET DOMAIN rows,
         NEW R, StrictOrder(S, R), NEW item
  PROVE  StrictOrder(S, ItemFirst(S, rows, item, R))
<1> DEFINE F == ItemFirst(S, rows, item, R)
<1>1. ASSUME NEW i \in S, NEW j \in S
      PROVE  <<i, j>> \in F <=> \/ Before(rows, item, i, j)
                                \/ Tied(rows, item, i, j) /\ <<i, j>> \in R
  BY InItemFirst
<1>2. ASSUME NEW i \in S, NEW j \in S, NEW k \in S
      PROVE  /\ ~Before(rows, item, i, i) /\ Tied(rows, item, i, i)
             /\ Before(rows, item, i, j) /\ Before(rows, item, j, k) => Before(rows, item, i, k)
             /\ Tied(rows, item, i, j) /\ Before(rows, item, j, k) => Before(rows, item, i, k)
             /\ Before(rows, item, i, j) /\ Tied(rows, item, j, k) => Before(rows, item, i, k)
             /\ Tied(rows, item, i, j) /\ Tied(rows, item, j, k) => Tied(rows, item, i, k)
             /\ Tied(rows, item, i, j) <=> Tied(rows, item, j, i)
             /\ Tied(rows, item, i, j) \/ Before(rows, item, i, j) \/ Before(rows, item, j, i)
  <2>1. i \in DOMAIN rows /\ j \in DOMAIN rows /\ k \in DOMAIN rows
    OBVIOUS
  <2> QED
    BY <2>1, ItemOrder
<1>3. /\ \A i \in S : <<i, i>> \notin R
      /\ \A i, j, k \in S : <<i, j>> \in R /\ <<j, k>> \in R => <<i, k>> \in R
      /\ \A i, j \in S : i = j \/ <<i, j>> \in R \/ <<j, i>> \in R
  BY DEF StrictOrder
<1> HIDE DEF F
<1>4. \A i \in S : <<i, i>> \notin F
  BY <1>1, <1>2, <1>3
<1>5. ASSUME NEW i \in S, NEW j \in S, NEW k \in S, <<i, j>> \in F, <<j, k>> \in F
      PROVE  <<i, k>> \in F
  <2>1. <<i, j>> \in R /\ <<j, k>> \in R => <<i, k>> \in R
    BY <1>3
  <2>2. /\ Before(rows, item, i, j) \/ (Tied(rows, item, i, j) /\ <<i, j>> \in R)
        /\ Before(rows, item, j, k) \/ (Tied(rows, item, j, k) /\ <<j, k>> \in R)
    BY <1>1, <1>5
  <2>3. Before(rows, item, i, k) \/ (Tied(rows, item, i, k) /\ <<i, k>> \in R)
    BY <1>2, <2>1, <2>2
  <2> QED
    BY <1>1, <2>3
<1>6. ASSUME NEW i \in S, NEW j \in S
      PROVE  i = j \/ <<i, j>> \in F \/ <<j, i>> \in F
  BY <1>1, <1>2, <1>3
<1> QED
  BY <1>4, <1>5, <1>6 DEF StrictOrder, F

(* One rows.sort() of rows that were in the order R. *)
LEMMA StableSortArranges ==
  ASSUME NEW rows, TextRows(rows), NEW S \in SUBSET DOMAIN rows, IsFiniteSet(S),
         NEW R, StrictOrder(S, R), NEW item
  PROVE  StableSort(rows, Arranged(S, R), item)
           = Arranged(S, ItemFirst(S, rows, item, R))
<1> DEFINE p == Arranged(S, R)
           N == Cardinality(S)
           F == ItemFirst(S, rows, item, R)
           first(k, l) == \/ Before(rows, item, p[k], p[l])
                          \/ ~Before(rows, item, p[l], p[k]) /\ k < l
           before(k) == {l \in 1..N : first(l, k)}
           at(n) == CHOOSE k \in 1..N : Cardinality(before(k)) = n - 1
           sorted == [n \in 1..N |-> p[at(n)]]
<1>1. /\ N \in Nat /\ DOMAIN p = 1..N
      /\ \A n \in 1..N : p[n] \in S
      /\ \A i \in S : \E n \in 1..N : p[n] = i
      /\ \A k, l \in 1..N : /\ k < l <=> <<p[k], p[l]>> \in R
                            /\ p[k] = p[l] => k = l
  BY ArrangedProperties
<1>2. StrictOrder(S, F)
  BY ItemFirstOrder
<1>3. StableSort(rows, p, item) = sorted
  BY <1>1 DEF StableSort
<1>4. ASSUME NEW i \in S, NEW j \in S
      PROVE  <<i, j>> \in F <=> \/ Before(rows, item, i, j)
                                \/ Tied(rows, item, i, j) /\ <<i, j>> \in R
  BY InItemFirst
<1>5. ASSUME NEW i \in S, NEW j \in S
      PROVE  /\ ~(Before(rows, item, i, j) /\ Before(rows, item, j, i))
             /\ ~(Tied(rows, item, i, j) /\ Before(rows, item, j, i))
             /\ Tied(rows, item, i, j) \/ Before(rows, item, i, j) \/ Before(rows, item, j, i)
  <2>1. i \in DOMAIN rows /\ j \in DOMAIN rows
    OBVIOUS
  <2>2. /\ ~Before(rows, item, i, i)
        /\ Before(rows, item, i, j) /\ Before(rows, item, j, i) => Before(rows, item, i, i)
        /\ Tied(rows, item, i, j) /\ Before(rows, item, j, i) => Before(rows, item, i, i)
        /\ Tied(rows, item, i, j) \/ Before(rows, item, i, j) \/ Before(rows, item, j, i)
    BY <2>1, ItemOrder
  <2> QED
    BY <2>2
<1> HIDE DEF p, N, F, sorted
<1>6. ASSUME NEW k \in 1..N, NEW l \in 1..N
      PROVE  first(k, l) <=> <<p[k], p[l]>> \in F
  <2>1. p[k] \in S /\ p[l] \in S
    BY <1>1
  <2>2. k < l <=> <<p[k], p[l]>> \in R
    BY <1>1
  <2>3. /\ ~(Tied(rows, item, p[k], p[l]) /\ Before(rows, item, p[l], p[k]))
        /\ ~(Before(rows, item, p[k], p[l]) /\ Before(rows, item, p[l], p[k]))
        /\ \/ Tied(rows, item, p[k], p[l])
           \/ Before(rows, item, p[k], p[l]) \/ Before(rows, item, p[l], p[k])
    BY <1>5, <2>1
  <2>4. <<p[k], p[l]>> \in F
          <=> \/ Before(rows, item, p[k], p[l])
              \/ Tied(rows, item, p[k], p[l]) /\ <<p[k], p[l]>> \in R
    BY <1>4, <2>1
  <2> QED
    BY <2>2, <2>3, <2>4
<1> HIDE DEF first
<1>7. ASSUME NEW k \in 1..N PROVE Cardinality(before(k)) = Place(S, F, p[k])
  <2> DEFINE E == Earlier(S, F, p[k])
             g == [l \in before(k) |-> p[l]]
  <2>1. \A l \in before(k) : l \in 1..N /\ p[l] \in E
    BY <1>1, <1>6 DEF Earlier
  <2>2. \A i \in E : \E l \in before(k) : p[l] = i
    <3> SUFFICES ASSUME NEW i \in E PROVE \E l \in before(k) : p[l] = i
      OBVIOUS
    <3>1. i \in S /\ <<i, p[k]>> \in F
      BY DEF Earlier
    <3>2. PICK l \in 1..N : p[l] = i
      BY <1>1, <3>1
    <3>3. first(l, k)
      BY <1>6, <3>1, <3>2
    <3> QED
      BY <3>2, <3>3
  <2>3. IsFiniteSet(before(k))
    <3>1. IsFiniteSet(1..N)
      BY <1>1, FS_Interval
    <3>2. before(k) \in SUBSET (1..N)
      OBVIOUS
    <3> QED
      BY <3>1, <3>2, FS_Subset
  <2>4. g \in Bijection(before(k), E)
    <3> HIDE DEF E, before
    <3>1. g \in [before(k) -> E]
      BY <2>1
    <3>2. \A l, m \in before(k) : g[l] = g[m] => l = m
      BY <1>1, <2>1
    <3>3. \A i \in E : \E l \in before(k) : g[l] = i
      BY <2>2
    <3> HIDE DEF g
    <3> QED
      BY <3>1, <3>2, <3>3 DEF Bijection, Injection, Surjection, IsInjective
  <2>5. ExistsBijection(before(k), E)
    BY <2>4 DEF ExistsBijection
  <2>6. Cardinality(before(k)) = Cardinality(E)
    <3> HIDE DEF E, before
    <3> QED
      BY <2>3, <2>5, FS_Bijection
  <2> QED
    BY <2>6 DEF Place
<1> HIDE DEF before
<1>8. ASSUME NEW n \in 1..N PROVE p[at(n)] \in S /\ Place(S, F, p[at(n)]) = n - 1
  <2>1. n - 1 \in 0..(N - 1)
    BY <1>1
  <2>2. PICK i \in S : Place(S, F, i) = n - 1
    BY <1>2, <2>1, PlaceProperties DEF N
  <2>3. PICK k \in 1..N : p[k] = i
    BY <1>1
  <2>4. Cardinality(before(k)) = n - 1
    BY <1>7, <2>2, <2>3
  <2>5. at(n) \in 1..N /\ Cardinality(before(at(n))) = n - 1
    BY <2>4
  <2> HIDE DEF at
  <2> QED
    BY <1>1, <1>7, <2>5
<1> HIDE DEF at
<1>9. \A n \in 1..N : sorted[n] \in S /\ Place(S, F, sorted[n]) = n - 1
  BY <1>8 DEF sorted
<1>10. Arranged(S, F) = [n \in 1..N |-> sorted[n]]
  BY <1>2, <1>9, ArrangedIs DEF N
<1>11. sorted = [n \in 1..N |-> sorted[n]]
  BY DEF sorted
<1> QED
  BY <1>3, <1>10, <1>11 DEF p, F

(* The order after the loop has sorted by the last n items of the model. *)
LastItems(rows, model, N, n, i, j) ==
  \/ \E m \in (N - n + 1)..N :
       /\ Before(rows, model[m], i, j)
       /\ \A l \in (N - n + 1)..(m - 1) : Tied(rows, model[l], i, j)
  \/ (\A m \in (N - n + 1)..N : Tied(rows, model[m], i, j)) /\ i < j

SortedSoFar(S, rows, model, N, n) ==
  {p \in S \X S : LastItems(rows, model, N, n, p[1], p[2])}

LEMMA InSortedSoFar ==
  ASSUME NEW S, NEW rows, NEW model, NEW N, NEW n, NEW i \in S, NEW j \in S
  PROVE  <<i, j>> \in SortedSoFar(S, rows, model, N, n)
           <=> LastItems(rows, model, N, n, i, j)
BY DEF SortedSoFar

LEMMA OneMoreItem ==
  ASSUME NEW rows, NEW model, NEW N \in Nat, NEW n \in 1..N, NEW i, NEW j
  PROVE  LastItems(rows, model, N, n, i, j)
           <=> \/ Before(rows, model[N + 1 - n], i, j)
               \/ /\ Tied(rows, model[N + 1 - n], i, j)
                  /\ LastItems(rows, model, N, n - 1, i, j)
<1> DEFINE new == N + 1 - n
           B(m) == Before(rows, model[m], i, j)
           T(m) == Tied(rows, model[m], i, j)
<1>1. /\ new \in Int /\ new <= N /\ N - n + 1 = new /\ N - (n - 1) + 1 = new + 1
  OBVIOUS
<1>2. LastItems(rows, model, N, n, i, j)
        <=> \/ \E m \in new..N : B(m) /\ \A l \in new..(m - 1) : T(l)
            \/ (\A m \in new..N : T(m)) /\ i < j
  BY <1>1 DEF LastItems
<1>3. LastItems(rows, model, N, n - 1, i, j)
        <=> \/ \E m \in (new + 1)..N : B(m) /\ \A l \in (new + 1)..(m - 1) : T(l)
            \/ (\A m \in (new + 1)..N : T(m)) /\ i < j
  BY <1>1 DEF LastItems
<1> HIDE DEF new, B, T
<1>4. ASSUME NEW m \in Int, new <= m
      PROVE  (\A l \in new..m : T(l)) <=> T(new) /\ \A l \in (new + 1)..m : T(l)
  BY <1>1, <1>4
<1>5. (\E m \in new..N : B(m) /\ \A l \in new..(m - 1) : T(l))
        <=> \/ B(new)
            \/ T(new) /\ \E m \in (new + 1)..N : B(m) /\ \A l \in (new + 1)..(m - 1) : T(l)
  <2>1. ASSUME NEW m \in new..N, B(m), \A l \in new..(m - 1) : T(l), m # new
        PROVE  /\ T(new) /\ m \in (new + 1)..N
               /\ \A l \in (new + 1)..(m - 1) : T(l)
    <3>1. new <= m - 1 /\ m - 1 \in Int /\ m \in (new + 1)..N
      BY <1>1, <2>1
    <3> QED
      BY <1>4, <2>1, <3>1
  <2>2. ASSUME B(new)
        PROVE  \E m \in new..N : B(m) /\ \A l \in new..(m - 1) : T(l)
    <3>1. new \in new..N /\ new..(new - 1) = {}
      BY <1>1
    <3> QED
      BY <2>2, <3>1
  <2>3. ASSUME T(new), NEW m \in (new + 1)..N, B(m), \A l \in (new + 1)..(m - 1) : T(l)
        PROVE  \E k \in new..N : B(k) /\ \A l \in new..(k - 1) : T(l)
    <3>1. new <= m - 1 /\ m - 1 \in Int /\ m \in new..N
      BY <1>1
    <3>2. \A l \in new..(m - 1) : T(l)
      BY <1>4, <2>3, <3>1
    <3> QED
      BY <2>3, <3>1, <3>2
  <2> QED
    BY <2>1, <2>2, <2>3
<1>6. (\A m \in new..N : T(m)) <=> T(new) /\ \A m \in (new + 1)..N : T(m)
  BY <1>1, <1>4
<1>7. LastItems(rows, model, N, n, i, j)
        <=> B(new) \/ (T(new) /\ LastItems(rows, model, N, n - 1, i, j))
  BY <1>2, <1>3, <1>5, <1>6
<1> QED
  BY <1>7 DEF B, T, new

LEMMA SortedByOneMore ==
  ASSUME NEW rows, TextRows(rows), NEW S \in SUBSET DOMAIN rows,
         NEW model, NEW N \in Nat, NEW n \in 1..N
  PROVE  SortedSoFar(S, rows, model, N, n)
           = ItemFirst(S, rows, model[N + 1 - n], SortedSoFar(S, rows, model, N, n - 1))
<1> DEFINE before == SortedSoFar(S, rows, model, N, n - 1)
           item == model[N + 1 - n]
<1>1. ASSUME NEW i \in S, NEW j \in S
      PROVE  <<i, j>> \in SortedSoFar(S, rows, model, N, n)
               <=> <<i, j>> \in ItemFirst(S, rows, item, before)
  <2>1. <<i, j>> \in before <=> LastItems(rows, model, N, n - 1, i, j)
    BY InSortedSoFar
  <2>2. <<i, j>> \in SortedSoFar(S, rows, model, N, n)
          <=> LastItems(rows, model, N, n, i, j)
    BY InSortedSoFar
  <2>3. LastItems(rows, model, N, n, i, j)
          <=> \/ Before(rows, item, i, j)
              \/ Tied(rows, item, i, j) /\ LastItems(rows, model, N, n - 1, i, j)
    BY OneMoreItem
  <2> HIDE DEF before, item
  <2>4. <<i, j>> \in ItemFirst(S, rows, item, before)
          <=> \/ Before(rows, item, i, j)
              \/ Tied(rows, item, i, j) /\ <<i, j>> \in before
    BY InItemFirst
  <2> QED
    BY <2>1, <2>2, <2>3, <2>4
<1>2. /\ SortedSoFar(S, rows, model, N, n) \subseteq S \X S
      /\ ItemFirst(S, rows, item, before) \subseteq S \X S
  BY DEF SortedSoFar, ItemFirst
<1> HIDE DEF before, item
<1>3. ASSUME NEW p \in S \X S
      PROVE  p \in SortedSoFar(S, rows, model, N, n) <=> p \in ItemFirst(S, rows, item, before)
  <2>1. p[1] \in S /\ p[2] \in S /\ p = <<p[1], p[2]>>
    OBVIOUS
  <2> QED
    BY <1>1, <2>1
<1>4. SortedSoFar(S, rows, model, N, n) = ItemFirst(S, rows, item, before)
  BY <1>2, <1>3
<1> QED
  BY <1>4 DEF before, item

(* An item whose field cannot be sorted by changes nothing. *)
LEMMA UnsortableChangesNothing ==
  ASSUME NEW S, NEW rows, NEW item, ~Sortable(item), NEW R, R \subseteq S \X S
  PROVE  ItemFirst(S, rows, item, R) = R
<1>1. \A i, j : ~Before(rows, item, i, j) /\ Tied(rows, item, i, j)
  BY DEF Before, Tied
<1> QED
  BY <1>1 DEF ItemFirst

(* Before the loop the rows are in the order of the list. *)
LEMMA ListedIsArranged ==
  ASSUME NEW rows, NEW S, S \subseteq Int, NEW model, NEW N \in Nat
  PROVE  /\ StrictOrder(S, SortedSoFar(S, rows, model, N, 0))
         /\ Listed(S) = Arranged(S, SortedSoFar(S, rows, model, N, 0))
<1> DEFINE R == SortedSoFar(S, rows, model, N, 0)
<1>1. (N - 0 + 1)..N = {}
  OBVIOUS
<1>2. ASSUME NEW i \in S, NEW j \in S PROVE <<i, j>> \in R <=> i < j
  <2>1. LastItems(rows, model, N, 0, i, j) <=> i < j
    BY <1>1 DEF LastItems
  <2> QED
    BY <2>1, InSortedSoFar
<1> HIDE DEF R
<1>3. StrictOrder(S, R)
  <2>1. \A i, j, k \in S : /\ ~(i < i) /\ (i < j /\ j < k => i < k)
                           /\ (i = j \/ i < j \/ j < i)
    OBVIOUS
  <2> QED
    BY <1>2, <2>1 DEF StrictOrder
<1>4. \A i \in S : Place(S, R, i) = Cardinality({j \in S : j < i})
  <2>1. \A i \in S : Earlier(S, R, i) = {j \in S : j < i}
    BY <1>2 DEF Earlier
  <2> QED
    BY <2>1 DEF Place
<1> DEFINE placed(n) == CHOOSE i \in S : Place(S, R, i) = n - 1
           listed(n) == CHOOSE i \in S : Cardinality({j \in S : j < i}) = n - 1
<1>5. \A n : placed(n) = listed(n)
  BY <1>4
<1>6. Listed(S) = Arranged(S, R)
  <2>1. Listed(S) = [n \in 1..Cardinality(S) |-> listed(n)]
    BY DEF Listed
  <2>2. Arranged(S, R) = [n \in 1..Cardinality(S) |-> placed(n)]
    BY DEF Arranged
  <2> HIDE DEF placed, listed
  <2> QED
    BY <1>5, <2>1, <2>2
<1> QED
  BY <1>3, <1>6 DEF R

LEMMA SortedSoFarOrder ==
  ASSUME NEW rows, TextRows(rows), NEW S \in SUBSET DOMAIN rows,
         NEW model, NEW N \in Nat, NEW n \in 0..N
  PROVE  StrictOrder(S, SortedSoFar(S, rows, model, N, n))
<1> DEFINE R(m) == SortedSoFar(S, rows, model, N, m)
           T == {m \in 0..N : ~StrictOrder(S, R(m))}
<1> SUFFICES ASSUME T # {} PROVE FALSE
  OBVIOUS
<1>1. S \subseteq Int
  BY DEF TextRows
<1>2. T \in SUBSET Nat
  OBVIOUS
<1>3. PICK m \in T : \A k \in T : m <= k
  BY <1>2, SmallestElement
<1>4. m \in 0..N /\ ~StrictOrder(S, R(m))
  BY <1>3
<1>5. m # 0
  BY <1>1, <1>4, ListedIsArranged
<1>6. m \in 1..N /\ m - 1 \in 0..N /\ ~(m <= m - 1)
  BY <1>4, <1>5
<1>7. StrictOrder(S, R(m - 1))
  BY <1>3, <1>6
<1>8. R(m) = ItemFirst(S, rows, model[N + 1 - m], R(m - 1))
  BY <1>6, SortedByOneMore
<1> HIDE DEF R
<1> QED
  BY <1>4, <1>7, <1>8, ItemFirstOrder

LEMMA LoopStep ==
  ASSUME NEW rows, TextRows(rows), NEW S \in SUBSET DOMAIN rows, IsFiniteSet(S),
         NEW model, NEW N \in Nat, NEW n \in 1..N
  PROVE  LET item == model[N + 1 - n]
             before == Arranged(S, SortedSoFar(S, rows, model, N, n - 1))
         IN Arranged(S, SortedSoFar(S, rows, model, N, n))
              = IF Sortable(item) THEN StableSort(rows, before, item) ELSE before
<1> DEFINE item == model[N + 1 - n]
           R == SortedSoFar(S, rows, model, N, n - 1)
<1>1. SortedSoFar(S, rows, model, N, n) = ItemFirst(S, rows, item, R)
  BY SortedByOneMore
<1>2. n - 1 \in 0..N
  OBVIOUS
<1>3. StrictOrder(S, R) /\ R \subseteq S \X S
  <2>1. R \subseteq S \X S
    BY DEF SortedSoFar
  <2> QED
    BY <1>2, <2>1, SortedSoFarOrder
<1> HIDE DEF item, R
<1>4. StableSort(rows, Arranged(S, R), item) = Arranged(S, ItemFirst(S, rows, item, R))
  BY <1>3, StableSortArranges
<1>5. ~Sortable(item) => ItemFirst(S, rows, item, R) = R
  BY <1>3, UnsortableChangesNothing
<1> QED
  BY <1>1, <1>4, <1>5 DEF item, R

(* What search() answers with a sort model is what the loop ends with. *)
LEMMA SortLoopValue ==
  ASSUME NEW rows, TextRows(rows), IsFiniteSet(DOMAIN rows), NEW q,
         Len(q.sort_model) \in Nat, DOMAIN q.sort_model = 1..Len(q.sort_model),
         q.sort_model # << >>
  PROVE  Ordered(rows, q) = SortLoop(rows, q)
<1> DEFINE S == Matching(rows, q)
           model == q.sort_model
           N == Len(model)
           G == [n \in 0..N |-> Arranged(S, SortedSoFar(S, rows, model, N, n))]
           sorted == CHOOSE f : f = [n \in 0..N |->
                       IF n = 0 THEN Listed(S)
                       ELSE IF Sortable(model[N + 1 - n])
                       THEN StableSort(rows, f[n - 1], model[N + 1 - n])
                       ELSE f[n - 1]]
<1>1. N \in Nat /\ DOMAIN model = 1..N /\ model # << >>
  OBVIOUS
<1>2. S \in SUBSET DOMAIN rows /\ IsFiniteSet(S) /\ S \subseteq Int
  <2>1. S \in SUBSET DOMAIN rows
    BY DEF Matching
  <2> QED
    BY <2>1, OrderedLength DEF TextRows
<1>3. SortLoop(rows, q) = sorted[N]
  BY DEF SortLoop
<1>4. Ordered(rows, q) = Arranged(S, SortedSoFar(S, rows, model, N, N))
  <2> DEFINE R == SortedSoFar(S, rows, model, N, N)
             placed(n) == CHOOSE i \in S : Place(S, R, i) = n - 1
             found(n) == CHOOSE i \in S : Cardinality({j \in S : Precedes(rows, q, j, i)}) = n - 1
  <2> HIDE DEF S, model, N
  <2>1. N - N + 1 = 1
    BY <1>1
  <2>2. \A i, j : LastItems(rows, model, N, N, i, j) <=> ModelPrecedes(rows, model, i, j)
    BY <1>1, <2>1 DEF LastItems, ModelPrecedes
  <2>3. \A i, j : Precedes(rows, q, i, j) <=> ModelPrecedes(rows, model, i, j)
    BY <1>1 DEF Precedes, model
  <2>4. ASSUME NEW i \in S, NEW j \in S PROVE <<i, j>> \in R <=> Precedes(rows, q, i, j)
    BY <2>2, <2>3, InSortedSoFar
  <2> HIDE DEF R
  <2>5. \A i \in S : Earlier(S, R, i) = {j \in S : Precedes(rows, q, j, i)}
    BY <2>4 DEF Earlier
  <2>6. \A n : placed(n) = found(n)
    BY <2>5 DEF Place
  <2>7. Ordered(rows, q) = [n \in 1..Cardinality(S) |-> found(n)]
    BY DEF Ordered, S
  <2>8. Arranged(S, R) = [n \in 1..Cardinality(S) |-> placed(n)]
    BY DEF Arranged
  <2> HIDE DEF placed, found
  <2>9. Ordered(rows, q) = Arranged(S, R)
    BY <2>6, <2>7, <2>8
  <2> QED
    BY <2>9 DEF R
<1> HIDE DEF S, model
<1>5. ASSUME NEW n \in 0..N, n # 0
      PROVE  /\ n - 1 \in 0..N
             /\ Arranged(S, SortedSoFar(S, rows, model, N, n))
                  = IF Sortable(model[N + 1 - n])
                    THEN StableSort(rows, Arranged(S, SortedSoFar(S, rows, model, N, n - 1)),
                                    model[N + 1 - n])
                    ELSE Arranged(S, SortedSoFar(S, rows, model, N, n - 1))
  <2>1. n \in 1..N /\ n - 1 \in 0..N
    BY <1>1, <1>5
  <2> HIDE DEF N
  <2> QED
    BY <1>1, <1>2, <2>1, LoopStep
<1>6. Listed(S) = Arranged(S, SortedSoFar(S, rows, model, N, 0))
  BY <1>1, <1>2, ListedIsArranged
<1>7. G = [n \in 0..N |->
             IF n = 0 THEN Listed(S)
             ELSE IF Sortable(model[N + 1 - n])
             THEN StableSort(rows, G[n - 1], model[N + 1 - n])
             ELSE G[n - 1]]
  <2> HIDE DEF N
  <2> QED
    BY <1>1, <1>5, <1>6
<1> HIDE DEF G
<1>8. sorted = [n \in 0..N |->
                  IF n = 0 THEN Listed(S)
                  ELSE IF Sortable(model[N + 1 - n])
                  THEN StableSort(rows, sorted[n - 1], model[N + 1 - n])
                  ELSE sorted[n - 1]]
  BY <1>7
<1> HIDE DEF sorted, N
<1>9. \A n \in 0..N : sorted[n] = G[n]
  <2> SUFFICES ASSUME NEW k \in 0..N, sorted[k] # G[k] PROVE FALSE
    OBVIOUS
  <2> DEFINE T == {n \in 0..N : sorted[n] # G[n]}
  <2>1. T \in SUBSET Nat /\ T # {}
    BY <1>1
  <2>2. PICK m \in T : \A n \in T : m <= n
    BY <2>1, SmallestElement
  <2>3. m # 0
    BY <1>1, <1>7, <1>8, <2>2
  <2>4. m - 1 \in 0..N /\ m - 1 \notin T
    BY <1>1, <2>2, <2>3
  <2>5. sorted[m - 1] = G[m - 1]
    BY <2>4
  <2> DEFINE item == model[N + 1 - m]
  <2>6. /\ m \in 0..N /\ sorted[m] # G[m]
        /\ sorted[m] = IF Sortable(item) THEN StableSort(rows, sorted[m - 1], item)
                       ELSE sorted[m - 1]
    BY <1>8, <2>2, <2>3
  <2>7. G[m] = IF Sortable(item) THEN StableSort(rows, G[m - 1], item) ELSE G[m - 1]
    BY <1>7, <2>3, <2>6
  <2> HIDE DEF item
  <2> QED
    BY <2>5, <2>6, <2>7
<1>10. N \in 0..N
  BY <1>1
<1>11. sorted[N] = G[N]
  BY <1>9, <1>10
<1>12. G[N] = Arranged(S, SortedSoFar(S, rows, model, N, N))
  BY <1>10 DEF G
<1> QED
  BY <1>3, <1>4, <1>11, <1>12

(* For every stream, every filter and every sort model, skipped items         *)
(* included, search() answers in the order that its loop of stable sorts over  *)
(* the reversed sort model arrives at.                                       *)
THEOREM SortModelIsAlwaysTheLoop == Spec => []SortModelIsTheLoop
<1>1. GInv => SortModelIsTheLoop
  <2> SUFFICES ASSUME GInv, NEW filters \in FilterModels, NEW model \in SortModels
               PROVE  Ordered(log, SortedQuery(filters, model))
                        = SortLoop(log, SortedQuery(filters, model))
    BY DEF SortModelIsTheLoop
  <2> DEFINE q == SortedQuery(filters, model)
  <2>1. Stream(log, logged)
    BY DEF GInv
  <2>2. TextRows(log) /\ IsFiniteSet(DOMAIN log)
    BY <2>1, StreamRows
  <2>3. q.sort_model = model
    BY DEF SortedQuery, Query, Everything
  <2>4. Len(model) \in Nat \ {0} /\ DOMAIN model = 1..Len(model)
    BY SortAssumption
  <2>5. model # << >>
    BY <2>4
  <2> HIDE DEF q
  <2>6. Ordered(log, q) = SortLoop(log, q)
    BY <2>2, <2>3, <2>4, <2>5, SortLoopValue
  <2> QED
    BY <2>6 DEF q
<1> QED
  BY <1>1, GridAlways, PTL
=============================================================================
