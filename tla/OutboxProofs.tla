---------------------------- MODULE OutboxProofs ----------------------------
(***************************************************************************)
(* Theorems about Outbox, for any number of envelopes and of overlapping      *)
(* rounds of deliver().                                                      *)
(***************************************************************************)
EXTENDS Outbox, FiniteSetTheorems, SequenceTheorems, TLAPS

-----------------------------------------------------------------------------
(* The dict as a list of envelopes with one key each.                       *)

DistinctKeys(queue) ==
  \A i, j \in 1..Len(queue) : KeyOf[queue[i]] = KeyOf[queue[j]] => i = j

LEMMA RemovedAt ==
  ASSUME NEW S, NEW s \in Seq(S), NEW n \in 1..Len(s)
  PROVE  /\ RemoveAt(s, n) \in Seq(S)
         /\ Len(RemoveAt(s, n)) = Len(s) - 1
         /\ \A i \in 1..(Len(s) - 1) :
              RemoveAt(s, n)[i] = IF i < n THEN s[i] ELSE s[i + 1]
<1> DEFINE N == Len(s)
           before == SubSeq(s, 1, n - 1)
           after == SubSeq(s, n + 1, N)
<1>1. N \in Nat /\ n \in 1..N /\ \A i \in 1..N : s[i] \in S
  BY LenProperties, ElementOfSeq
<1> HIDE DEF N
<1>2. /\ before \in Seq(S) /\ Len(before) = n - 1
      /\ \A i \in 1..(n - 1) : before[i] = s[i]
  <2>1. /\ 1 \in Int /\ n - 1 \in Int /\ \A i \in 1..(n - 1) : s[i] \in S
        /\ (IF 1 <= n - 1 THEN n - 1 - 1 + 1 ELSE 0) = n - 1
        /\ 1..(n - 1 - 1 + 1) = 1..(n - 1)
        /\ \A i \in 1..(n - 1) : 1 + i - 1 = i
    BY <1>1
  <2> QED
    BY <2>1, SubSeqProperties
<1>3. /\ after \in Seq(S) /\ Len(after) = N - n
      /\ \A i \in 1..(N - n) : after[i] = s[n + i]
  <2>1. /\ n + 1 \in Int /\ N \in Int /\ \A i \in (n + 1)..N : s[i] \in S
        /\ (IF n + 1 <= N THEN N - (n + 1) + 1 ELSE 0) = N - n
        /\ 1..(N - (n + 1) + 1) = 1..(N - n)
        /\ \A i \in 1..(N - n) : n + 1 + i - 1 = n + i
    BY <1>1
  <2> QED
    BY <2>1, SubSeqProperties
<1> HIDE DEF before, after
<1>4. /\ before \o after \in Seq(S)
      /\ Len(before \o after) = (n - 1) + (N - n)
      /\ \A i \in 1..((n - 1) + (N - n)) :
           (before \o after)[i] =
             IF i <= n - 1 THEN before[i] ELSE after[i - (n - 1)]
  <2>1. /\ before \o after \in Seq(S)
        /\ Len(before \o after) = Len(before) + Len(after)
        /\ \A i \in 1..(Len(before) + Len(after)) :
             (before \o after)[i] =
               IF i <= Len(before) THEN before[i] ELSE after[i - Len(before)]
    BY <1>2, <1>3, ConcatProperties
  <2>2. Len(before) = n - 1 /\ Len(after) = N - n
    BY <1>2, <1>3
  <2> DEFINE joined == before \o after
  <2> HIDE DEF joined
  <2>3. /\ joined \in Seq(S) /\ Len(joined) = Len(before) + Len(after)
        /\ \A i \in 1..(Len(before) + Len(after)) :
             joined[i] = IF i <= Len(before) THEN before[i] ELSE after[i - Len(before)]
    BY <2>1 DEF joined
  <2>4. /\ joined \in Seq(S) /\ Len(joined) = (n - 1) + (N - n)
        /\ \A i \in 1..((n - 1) + (N - n)) :
             joined[i] = IF i <= n - 1 THEN before[i] ELSE after[i - (n - 1)]
    BY <2>2, <2>3
  <2> QED
    BY <2>4 DEF joined
<1>5. (n - 1) + (N - n) = N - 1
  BY <1>1
<1>6. ASSUME NEW i \in 1..(N - 1)
      PROVE  (before \o after)[i] = IF i < n THEN s[i] ELSE s[i + 1]
  <2>1. CASE i < n
    BY <1>1, <1>2, <1>4, <1>5, <2>1
  <2>2. CASE ~(i < n)
    <3>1. i - (n - 1) \in 1..(N - n) /\ n + (i - (n - 1)) = i + 1 /\ ~(i <= n - 1)
      BY <1>1, <2>2
    <3>2. after[i - (n - 1)] = s[i + 1]
      BY <1>3, <3>1
    <3> QED
      BY <1>4, <1>5, <2>2, <3>1, <3>2
  <2> QED
    BY <2>1, <2>2
<1> QED
  BY <1>4, <1>5, <1>6 DEF RemoveAt, before, after, N

LEMMA KeysOfQueue ==
  ASSUME NEW queue \in Seq(Envelopes)
  PROVE  /\ Len(queue) \in Nat
         /\ \A i \in 1..Len(queue) : queue[i] \in Envelopes
         /\ KeysIn(queue) = {KeyOf[queue[i]] : i \in 1..Len(queue)}
<1>1. Len(queue) \in Nat /\ DOMAIN queue = 1..Len(queue)
  BY LenProperties
<1> QED
  BY <1>1, ElementOfSeq DEF KeysIn

(* What `del' leaves. *)
LEMMA WithoutKeyProperties ==
  ASSUME NEW queue \in Seq(Envelopes), DistinctKeys(queue), NEW k
  PROVE  /\ WithoutKey(queue, k) \in Seq(Envelopes)
         /\ DistinctKeys(WithoutKey(queue, k))
         /\ KeysIn(WithoutKey(queue, k)) = KeysIn(queue) \ {k}
<1>1. CASE k \notin KeysIn(queue)
  BY <1>1 DEF WithoutKey
<1>2. CASE k \in KeysIn(queue)
  <2> DEFINE n == PlaceOf(queue, k)
             N == Len(queue)
             rest == RemoveAt(queue, n)
  <2>1. N \in Nat /\ KeysIn(queue) = {KeyOf[queue[i]] : i \in 1..N}
    BY KeysOfQueue
  <2>2. n \in 1..N /\ KeyOf[queue[n]] = k
    <3>1. DOMAIN queue = 1..N
      BY LenProperties
    <3> QED
      BY <1>2, <2>1, <3>1 DEF PlaceOf
  <2> HIDE DEF n
  <2>3. /\ rest \in Seq(Envelopes) /\ Len(rest) = N - 1
        /\ \A i \in 1..(N - 1) : rest[i] = IF i < n THEN queue[i] ELSE queue[i + 1]
    BY <2>2, RemovedAt
  <2>4. \A i \in 1..N : KeyOf[queue[i]] = k => i = n
    BY <2>2 DEF DistinctKeys
  <2>5. WithoutKey(queue, k) = rest
    BY <1>2 DEF WithoutKey, n
  <2> HIDE DEF rest, N
  <2>6. KeysIn(rest) = {KeyOf[rest[i]] : i \in 1..(N - 1)}
    BY <2>3, KeysOfQueue
  <2>7. ASSUME NEW i \in 1..(N - 1)
        PROVE  KeyOf[rest[i]] \in KeysIn(queue) /\ KeyOf[rest[i]] # k
    <3>1. CASE i < n
      BY <2>1, <2>2, <2>3, <2>4, <3>1
    <3>2. CASE ~(i < n)
      <4>1. i + 1 \in 1..N /\ i + 1 # n
        BY <2>1, <2>2, <3>2
      <4> QED
        BY <2>1, <2>3, <2>4, <3>2, <4>1
    <3> QED
      BY <3>1, <3>2
  <2>8. ASSUME NEW i \in 1..N, KeyOf[queue[i]] # k
        PROVE  KeyOf[queue[i]] \in KeysIn(rest)
    <3>1. CASE i < n
      <4>1. i \in 1..(N - 1) /\ rest[i] = queue[i]
        BY <2>1, <2>2, <2>3, <3>1
      <4> QED
        BY <2>6, <4>1
    <3>2. CASE ~(i < n)
      <4>1. i - 1 \in 1..(N - 1) /\ ~(i - 1 < n) /\ (i - 1) + 1 = i
        BY <2>1, <2>2, <2>8, <3>2
      <4>2. rest[i - 1] = queue[i]
        BY <2>3, <4>1
      <4> QED
        BY <2>6, <4>1, <4>2
    <3> QED
      BY <3>1, <3>2
  <2>9. KeysIn(rest) = KeysIn(queue) \ {k}
    BY <2>1, <2>6, <2>7, <2>8
  <2>10. DistinctKeys(rest)
    <3> SUFFICES ASSUME NEW i \in 1..(N - 1), NEW j \in 1..(N - 1),
                        KeyOf[rest[i]] = KeyOf[rest[j]]
                 PROVE  i = j
      BY <2>3 DEF DistinctKeys
    <3> DEFINE at(m) == IF m < n THEN m ELSE m + 1
    <3>1. \A m \in 1..(N - 1) : at(m) \in 1..N /\ rest[m] = queue[at(m)]
      BY <2>1, <2>2, <2>3
    <3>2. \A m, l \in 1..(N - 1) : at(m) = at(l) => m = l
      BY <2>1, <2>2
    <3> HIDE DEF at
    <3>3. at(i) = at(j)
      BY <3>1 DEF DistinctKeys, N
    <3> QED
      BY <3>2, <3>3
  <2> QED
    BY <2>3, <2>5, <2>9, <2>10
<1> QED
  BY <1>1, <1>2

LEMMA TailKeys ==
  ASSUME NEW queue \in Seq(Envelopes), queue # << >>, DistinctKeys(queue)
  PROVE  /\ Head(queue) \in Envelopes
         /\ Tail(queue) \in Seq(Envelopes)
         /\ DistinctKeys(Tail(queue))
         /\ KeyOf[Head(queue)] \in KeysIn(queue)
         /\ KeysIn(Tail(queue)) \subseteq KeysIn(queue) \ {KeyOf[Head(queue)]}
<1> DEFINE N == Len(queue)
           rest == Tail(queue)
<1>1. /\ N \in Nat \ {0}
      /\ Head(queue) \in Envelopes /\ Head(queue) = queue[1]
      /\ rest \in Seq(Envelopes) /\ Len(rest) = N - 1
      /\ \A i \in 1..(N - 1) : rest[i] = queue[i + 1]
  BY EmptySeq, HeadTailProperties
<1>2. /\ KeysIn(queue) = {KeyOf[queue[i]] : i \in 1..N}
      /\ KeysIn(rest) = {KeyOf[rest[i]] : i \in 1..(N - 1)}
  BY <1>1, KeysOfQueue
<1>3. \A i, j \in 1..N : KeyOf[queue[i]] = KeyOf[queue[j]] => i = j
  BY DEF DistinctKeys
<1> HIDE DEF N, rest
<1>4. DistinctKeys(rest)
  <2>1. \A i \in 1..(N - 1) : i + 1 \in 1..N
    BY <1>1
  <2>2. \A i, j \in 1..(N - 1) :
          KeyOf[queue[i + 1]] = KeyOf[queue[j + 1]] => i = j
    <3>1. \A i, j \in 1..(N - 1) : i + 1 = j + 1 => i = j
      BY <1>1
    <3> QED
      BY <1>3, <2>1, <3>1
  <2>3. \A i, j \in 1..(N - 1) : KeyOf[rest[i]] = KeyOf[rest[j]] => i = j
    BY <1>1, <2>2
  <2> QED
    BY <1>1, <2>3 DEF DistinctKeys
<1>5. KeyOf[Head(queue)] \in KeysIn(queue)
  BY <1>1, <1>2
<1>6. ASSUME NEW i \in 1..(N - 1)
      PROVE  KeyOf[rest[i]] \in KeysIn(queue) /\ KeyOf[rest[i]] # KeyOf[Head(queue)]
  <2>1. i + 1 \in 1..N /\ 1 \in 1..N /\ i + 1 # 1
    BY <1>1
  <2> QED
    BY <1>1, <1>2, <1>3, <2>1
<1> QED
  BY <1>1, <1>2, <1>4, <1>5, <1>6 DEF rest

LEMMA AppendKeys ==
  ASSUME NEW queue \in Seq(Envelopes), DistinctKeys(queue),
         NEW o \in Envelopes, KeyOf[o] \notin KeysIn(queue)
  PROVE  /\ Append(queue, o) \in Seq(Envelopes)
         /\ DistinctKeys(Append(queue, o))
         /\ KeysIn(Append(queue, o)) = KeysIn(queue) \cup {KeyOf[o]}
<1> DEFINE N == Len(queue)
           longer == Append(queue, o)
<1>1. /\ longer \in Seq(Envelopes) /\ Len(longer) = N + 1
      /\ longer[N + 1] = o /\ \A i \in 1..N : longer[i] = queue[i]
  BY AppendProperties
<1>2. /\ N \in Nat
      /\ KeysIn(queue) = {KeyOf[queue[i]] : i \in 1..N}
      /\ KeysIn(longer) = {KeyOf[longer[i]] : i \in 1..(N + 1)}
  BY <1>1, KeysOfQueue
<1>3. \A i, j \in 1..N : KeyOf[queue[i]] = KeyOf[queue[j]] => i = j
  BY DEF DistinctKeys
<1>4. /\ \A i \in 1..(N + 1) : i \in 1..N \/ i = N + 1
      /\ 1..N \subseteq 1..(N + 1) /\ N + 1 \in 1..(N + 1)
  BY <1>2
<1> HIDE DEF N, longer
<1>5. \A i, j \in 1..(N + 1) : KeyOf[longer[i]] = KeyOf[longer[j]] => i = j
  BY <1>1, <1>2, <1>3, <1>4
<1>6. DistinctKeys(longer)
  BY <1>1, <1>5 DEF DistinctKeys
<1>7. KeysIn(longer) = KeysIn(queue) \cup {KeyOf[o]}
  BY <1>1, <1>2, <1>4
<1> QED
  BY <1>1, <1>6, <1>7 DEF longer

-----------------------------------------------------------------------------
(* Types, and what a round holds: at most one envelope of each key.         *)

OInv ==
  /\ TypeOK
  /\ DistinctKeys(items)
  /\ \A r \in Rounds : DistinctKeys(todo[r])
  /\ \A r \in Rounds : sending[r] => todo[r] # << >>

Moved(r, rest) ==
  /\ todo' \in [Rounds -> Seq(Envelopes)]
  /\ sending' \in [Rounds -> BOOLEAN]
  /\ age' \in [Rounds -> 0..MaxAge]
  /\ todo'[r] = rest /\ ~sending'[r]
  /\ \A p \in Rounds : p # r => todo'[p] = todo[p] /\ (sending'[p] <=> sending[p])
  /\ \A p \in Rounds : DistinctKeys(todo'[p])
  /\ \A p \in Rounds : sending'[p] => todo'[p] # << >>

LEMMA Continued ==
  ASSUME OInv, NEW r \in Rounds, NEW rest \in Seq(Envelopes),
         DistinctKeys(rest), Continue(r, rest)
  PROVE  Moved(r, rest)
<1>1. /\ todo' = [todo EXCEPT ![r] = rest] /\ todo \in [Rounds -> Seq(Envelopes)]
      /\ sending' = [sending EXCEPT ![r] = FALSE] /\ sending \in [Rounds -> BOOLEAN]
      /\ age' = [age EXCEPT ![r] = 0] \/ age' = age
      /\ age \in [Rounds -> 0..MaxAge] /\ 0 \in 0..MaxAge
  BY LimitAssumption DEF Continue, OInv, TypeOK
<1>2. /\ todo' \in [Rounds -> Seq(Envelopes)]
      /\ todo'[r] = rest /\ \A p \in Rounds : p # r => todo'[p] = todo[p]
  BY <1>1
<1>3. /\ sending' \in [Rounds -> BOOLEAN]
      /\ ~sending'[r] /\ \A p \in Rounds : p # r => (sending'[p] <=> sending[p])
  BY <1>1
<1>4. age' \in [Rounds -> 0..MaxAge]
  BY <1>1
<1>5. \A p \in Rounds : DistinctKeys(todo'[p])
  BY <1>2 DEF OInv
<1>6. \A p \in Rounds : sending'[p] => todo'[p] # << >>
  BY <1>2, <1>3 DEF OInv
<1> QED
  BY <1>2, <1>3, <1>4, <1>5, <1>6 DEF Moved

(* The snapshot of a round that has an envelope before it. *)
LEMMA HeadOfRound ==
  ASSUME OInv, NEW r \in Rounds, todo[r] # << >>
  PROVE  /\ Head(todo[r]) \in Envelopes
         /\ KeyOf[Head(todo[r])] \in Keys
         /\ Tail(todo[r]) \in Seq(Envelopes)
         /\ DistinctKeys(Tail(todo[r]))
         /\ KeyOf[Head(todo[r])] \in KeysIn(todo[r])
         /\ KeysIn(Tail(todo[r])) \subseteq KeysIn(todo[r]) \ {KeyOf[Head(todo[r])]}
<1>1. todo[r] \in Seq(Envelopes) /\ DistinctKeys(todo[r])
  BY DEF OInv, TypeOK
<1>2. Head(todo[r]) \in Envelopes
  BY <1>1, TailKeys
<1> QED
  BY <1>1, <1>2, TailKeys, KeyAssumption

LEMMA EmptyQueue ==
  << >> \in Seq(Envelopes) /\ KeysIn(<< >>) = {} /\ DistinctKeys(<< >>)
BY EmptySeq DEF KeysIn, DistinctKeys

LEMMA SkipMoves == ASSUME OInv, NEW r \in Rounds, Skip(r) PROVE Moved(r, Tail(todo[r]))
BY HeadOfRound, Continued DEF Skip, At

LEMMA StartMoves == ASSUME OInv, NEW r \in Rounds, Start(r) PROVE Moved(r, items)
BY Continued DEF Start, OInv, TypeOK

LEMMA FailMoves == ASSUME OInv, NEW r \in Rounds, Fail(r) PROVE Moved(r, Tail(todo[r]))
BY HeadOfRound, Continued DEF Fail, OInv

Rest(r) == IF KeyOf[Head(todo[r])] \in KeysIn(items) THEN Tail(todo[r]) ELSE << >>

LEMMA ReturnMoves ==
  ASSUME OInv, NEW r \in Rounds, Return(r)
  PROVE  Moved(r, Rest(r)) /\ KeysIn(Rest(r)) \subseteq KeysIn(Tail(todo[r]))
<1>1. todo[r] # << >> /\ Continue(r, Rest(r))
  BY DEF Return, OInv, Rest
<1>2. /\ Rest(r) \in Seq(Envelopes) /\ DistinctKeys(Rest(r))
      /\ KeysIn(Rest(r)) \subseteq KeysIn(Tail(todo[r]))
  BY <1>1, HeadOfRound, EmptyQueue DEF Rest
<1> QED
  BY <1>1, <1>2, Continued

LEMMA DelayTyped ==
  ASSUME NEW n \in Nat
  PROVE  Delay(n) \in Int /\ Delay(n) <= MaxDelay
<1>1. 2 ^ n \in Int
  BY Z3
<1> QED
  BY <1>1, LimitAssumption DEF Delay

LEMMA InitTyped == Init => OInv
BY EmptyQueue, LimitAssumption DEF Init, OInv, TypeOK

LEMMA StepTyped == OInv /\ [Next]_vars => OInv'
<1> SUFFICES ASSUME OInv, [Next]_vars PROVE OInv'
  OBVIOUS
<1>1. CASE Tick
  <2>1. age' \in [Rounds -> 0..MaxAge]
    <3>1. \A r \in Rounds : age[r] \in 0..MaxAge /\ age[r] < MaxAge
      BY <1>1 DEF Tick, OInv, TypeOK
    <3>2. \A r \in Rounds : age[r] + 1 \in 0..MaxAge /\ 0 \in 0..MaxAge
      BY <3>1, LimitAssumption
    <3> QED
      BY <1>1, <3>2 DEF Tick
  <2>2. wait' \in [Envelopes -> {d \in Int : d <= MaxDelay}]
    <3>1. \A o \in Envelopes : wait[o] \in Int /\ wait[o] <= MaxDelay
      BY DEF OInv, TypeOK
    <3>2. \A o \in Envelopes : wait[o] - 1 \in Int /\ wait[o] - 1 <= MaxDelay
      BY <3>1, LimitAssumption
    <3> QED
      BY <1>1, <3>1, <3>2 DEF Tick
  <2> QED
    BY <1>1, <2>1, <2>2 DEF Tick, OInv, TypeOK
<1>2. ASSUME NEW o \in Envelopes, Enqueue(o) PROVE OInv'
  <2>1. /\ items' \in Seq(Envelopes) /\ DistinctKeys(items')
    BY <1>2, AppendKeys DEF Enqueue, OInv, TypeOK
  <2>2. KeyOf[o] \in Keys
    BY KeyAssumption
  <2>3. wait' \in [Envelopes -> {d \in Int : d <= MaxDelay}]
    BY <1>2, LimitAssumption DEF Enqueue, OInv, TypeOK
  <2> QED
    BY <1>2, <2>1, <2>2, <2>3 DEF Enqueue, OInv, TypeOK
<1>3. ASSUME NEW r \in Rounds, NEW rest, Moved(r, rest), UNCHANGED <<items, accepted>>,
             attempts' \in [Envelopes -> Nat], dead' \in [Envelopes -> BOOLEAN],
             wait' \in [Envelopes -> {d \in Int : d <= MaxDelay}],
             received' \subseteq Keys, returned' \in [Keys -> Nat]
      PROVE  OInv'
  BY <1>3 DEF Moved, OInv, TypeOK
<1>4. ASSUME NEW r \in Rounds, Start(r) PROVE OInv'
  BY <1>3, <1>4, StartMoves DEF Start, envelopes, OInv, TypeOK
<1>5. ASSUME NEW r \in Rounds, Skip(r) PROVE OInv'
  BY <1>3, <1>5, SkipMoves DEF Skip, envelopes, OInv, TypeOK
<1>6. ASSUME NEW r \in Rounds, Begin(r) PROVE OInv'
  <2>1. /\ sending' = [sending EXCEPT ![r] = TRUE] /\ todo[r] # << >>
        /\ UNCHANGED <<items, attempts, wait, dead, todo, age, received, accepted, returned>>
    BY <1>6 DEF Begin, At, envelopes
  <2>2. /\ sending' \in [Rounds -> BOOLEAN]
        /\ \A p \in Rounds : p # r => (sending'[p] <=> sending[p])
    BY <2>1 DEF OInv, TypeOK
  <2> QED
    BY <2>1, <2>2 DEF OInv, TypeOK
<1>7. ASSUME NEW r \in Rounds, Return(r) PROVE OInv'
  <2> DEFINE k == KeyOf[Head(todo[r])]
  <2>1. /\ todo[r] # << >>
        /\ received' = received \cup {k}
        /\ returned' = [returned EXCEPT ![k] = @ + 1]
        /\ items' = WithoutKey(items, k)
        /\ UNCHANGED <<attempts, wait, dead, accepted>>
    BY <1>7 DEF Return, Removed, envelopes, OInv
  <2>2. k \in Keys
    BY <2>1, HeadOfRound
  <2>3. items' \in Seq(Envelopes) /\ DistinctKeys(items')
    BY <2>1, WithoutKeyProperties DEF OInv, TypeOK
  <2>4. received' \subseteq Keys /\ returned' \in [Keys -> Nat]
    BY <2>1, <2>2 DEF OInv, TypeOK
  <2>5. Moved(r, Rest(r))
    BY <1>7, ReturnMoves
  <2> QED
    BY <2>1, <2>3, <2>4, <2>5 DEF Moved, OInv, TypeOK
<1>8. ASSUME NEW r \in Rounds, Fail(r) PROVE OInv'
  <2> DEFINE o == Head(todo[r])
             n == attempts[o] + 1
  <2>1. /\ todo[r] # << >> /\ MayHaveArrived(KeyOf[o])
        /\ attempts' = [attempts EXCEPT ![o] = n]
        /\ dead' = [dead EXCEPT ![o] = dead[o] \/ Exhausted(n)]
        /\ wait' = wait \/ wait' = [wait EXCEPT ![o] = Delay(n) - age[r]]
        /\ UNCHANGED <<items, accepted, returned>>
    BY <1>8 DEF Fail, Counted, OInv
  <2>2. o \in Envelopes /\ KeyOf[o] \in Keys /\ Moved(r, Tail(todo[r]))
    BY <1>8, <2>1, HeadOfRound, FailMoves
  <2>3. n \in Nat /\ age[r] \in Nat
    BY <2>2 DEF OInv, TypeOK
  <2>4. Delay(n) - age[r] \in Int /\ Delay(n) - age[r] <= MaxDelay
    BY <2>3, DelayTyped, LimitAssumption
  <2> HIDE DEF n, o
  <2>5. attempts' \in [Envelopes -> Nat] /\ dead' \in [Envelopes -> BOOLEAN]
    BY <2>1, <2>2, <2>3 DEF OInv, TypeOK, Exhausted
  <2>6. wait' \in [Envelopes -> {d \in Int : d <= MaxDelay}]
    BY <2>1, <2>2, <2>4 DEF OInv, TypeOK
  <2>7. received' \subseteq Keys
    BY <2>1, <2>2 DEF MayHaveArrived, OInv, TypeOK
  <2> QED
    BY <1>3, <2>1, <2>2, <2>5, <2>6, <2>7 DEF OInv, TypeOK
<1>9. CASE UNCHANGED vars
  BY <1>9 DEF vars, OInv, TypeOK
<1> QED
  BY <1>1, <1>2, <1>4, <1>5, <1>6, <1>7, <1>8, <1>9 DEF Next, Work

THEOREM OTypedAlways == Spec => []OInv
BY InitTyped, StepTyped, PTL DEF Spec

(* The outbox keeps its types, and no envelope waits longer than MaxDelay. *)
THEOREM OutboxTypeCorrect == Spec => []TypeOK
<1>1. OInv => TypeOK
  BY DEF OInv
<1> QED
  BY <1>1, OTypedAlways, PTL

-----------------------------------------------------------------------------
(* At least once.                                                           *)

LEMMA StepLosesNothing ==
  OInv /\ NothingLost /\ [Next]_vars => NothingLost'
<1> SUFFICES ASSUME OInv, NothingLost, [Next]_vars PROVE NothingLost'
  OBVIOUS
<1>1. ASSUME UNCHANGED <<items, accepted>>, received \subseteq received'
      PROVE  NothingLost'
  BY <1>1 DEF NothingLost
<1>2. CASE Tick
  BY <1>1, <1>2 DEF Tick
<1>3. ASSUME NEW o \in Envelopes, Enqueue(o) PROVE NothingLost'
  <2>1. KeysIn(items') = KeysIn(items) \cup {KeyOf[o]}
    BY <1>3, AppendKeys DEF Enqueue, OInv, TypeOK
  <2> QED
    BY <1>3, <2>1 DEF Enqueue, NothingLost
<1>4. ASSUME NEW r \in Rounds, Start(r) \/ Skip(r) \/ Begin(r) PROVE NothingLost'
  BY <1>1, <1>4 DEF Start, Skip, Begin
<1>5. ASSUME NEW r \in Rounds, Return(r) PROVE NothingLost'
  <2> DEFINE k == KeyOf[Head(todo[r])]
  <2>1. /\ received' = received \cup {k} /\ items' = WithoutKey(items, k)
        /\ accepted' = accepted
    BY <1>5 DEF Return, Removed
  <2>2. KeysIn(WithoutKey(items, k)) = KeysIn(items) \ {k}
    BY WithoutKeyProperties DEF OInv, TypeOK
  <2> QED
    BY <2>1, <2>2 DEF NothingLost
<1>6. ASSUME NEW r \in Rounds, Fail(r) PROVE NothingLost'
  BY <1>1, <1>6 DEF Fail, MayHaveArrived
<1>7. CASE UNCHANGED vars
  BY <1>1, <1>7 DEF vars
<1> QED
  BY <1>2, <1>3, <1>4, <1>5, <1>6, <1>7 DEF Next, Work

(* However many rounds overlap, and whether their sends fail after they took
   effect or a KeyError ends them early: a key that was enqueued is in the
   dict until the receiver has it. *)
THEOREM NothingEverLost == Spec => []NothingLost
<1>1. Init => NothingLost
  BY DEF Init, NothingLost
<1> QED
  BY <1>1, OTypedAlways, StepLosesNothing, PTL DEF Spec

-----------------------------------------------------------------------------
(* Attempts.  A round inside `send' has yet to count its attempt, so the      *)
(* sends under way are added to the attempts that were counted.              *)

Sending(o) == {r \in Rounds : sending[r] /\ Head(todo[r]) = o}

RetryOf(o) ==
  /\ dead[o] <=> attempts[o] >= MaxAttempts
  /\ attempts[o] + Cardinality(Sending(o)) < MaxAttempts + Cardinality(Rounds)

RInv == OInv /\ \A o \in Envelopes : RetryOf(o)

LEMMA RoundCount ==
  ASSUME NEW S, NEW T, S \subseteq T, T \subseteq Rounds
  PROVE  /\ Cardinality(S) \in Nat /\ Cardinality(T) \in Nat
         /\ Cardinality(Rounds) \in Nat
         /\ Cardinality(S) <= Cardinality(T)
         /\ Cardinality(T) <= Cardinality(Rounds)
         /\ \A r \in T \ S : Cardinality(S) + 1 <= Cardinality(T)
<1>1. IsFiniteSet(T) /\ IsFiniteSet(S)
  BY RoundsAssumption, FS_Subset
<1>2. /\ Cardinality(S) \in Nat /\ Cardinality(T) \in Nat
      /\ Cardinality(Rounds) \in Nat
      /\ Cardinality(S) <= Cardinality(T)
      /\ Cardinality(T) <= Cardinality(Rounds)
  BY <1>1, RoundsAssumption, FS_CardinalityType, FS_Subset
<1>3. ASSUME NEW r \in T \ S PROVE Cardinality(S) + 1 <= Cardinality(T)
  <2>1. Cardinality(S) # Cardinality(T)
    BY <1>1, <1>3, FS_Subset
  <2> QED
    BY <1>2, <2>1
<1> QED
  BY <1>2, <1>3

LEMMA RetryInit == Init => RInv
<1> SUFFICES ASSUME Init, NEW o \in Envelopes PROVE RetryOf(o)
  BY InitTyped DEF RInv
<1>1. Sending(o) \subseteq {}
  BY DEF Init, Sending
<1>2. Cardinality(Sending(o)) = 0 /\ Cardinality(Rounds) \in Nat
  BY <1>1, FS_EmptySet, RoundsAssumption, FS_CardinalityType
<1>3. attempts[o] = 0 /\ ~dead[o]
  BY DEF Init
<1> QED
  BY <1>2, <1>3, LimitAssumption DEF RetryOf

LEMMA RetryStep == RInv /\ [Next]_vars => RInv'
<1> SUFFICES ASSUME RInv, [Next]_vars, NEW o \in Envelopes PROVE RetryOf(o)'
  BY StepTyped DEF RInv
<1>0. /\ OInv /\ RetryOf(o) /\ attempts[o] \in Nat /\ MaxAttempts \in Nat \ {0}
      /\ MaxAttempts \in Int
  BY LimitAssumption DEF RInv, OInv, TypeOK
<1>1. Sending(o) \subseteq Rounds /\ Sending(o)' \subseteq Rounds
  BY DEF Sending
<1>2. ASSUME Sending(o)' \subseteq Sending(o), attempts'[o] = attempts[o],
             dead'[o] <=> dead[o]
      PROVE  RetryOf(o)'
  <2>1. /\ Cardinality(Sending(o)') <= Cardinality(Sending(o))
        /\ Cardinality(Sending(o)') \in Nat /\ Cardinality(Sending(o)) \in Nat
        /\ Cardinality(Rounds) \in Nat
    BY <1>1, <1>2, RoundCount
  <2> QED
    BY <1>0, <1>2, <2>1 DEF RetryOf
<1>3. ASSUME NEW r \in Rounds, NEW rest, Moved(r, rest)
      PROVE  Sending(o)' \subseteq Sending(o) \ {r}
  BY <1>3 DEF Moved, Sending
<1>4. CASE Tick
  BY <1>2, <1>4 DEF Tick, Sending
<1>5. ASSUME NEW e \in Envelopes, Enqueue(e) PROVE RetryOf(o)'
  <2>1. Sending(o)' = Sending(o)
    BY <1>5 DEF Enqueue, Sending
  <2>2. CASE e = o
    <3>1. attempts'[o] = 0 /\ ~dead'[o]
      BY <1>0, <1>5, <2>2 DEF Enqueue, OInv, TypeOK
    <3>2. /\ Cardinality(Sending(o)') <= Cardinality(Rounds)
          /\ Cardinality(Sending(o)') \in Nat /\ Cardinality(Rounds) \in Nat
      BY <1>1, RoundCount
    <3> QED
      BY <1>0, <3>1, <3>2 DEF RetryOf
  <2>3. CASE e # o
    <3>1. attempts'[o] = attempts[o] /\ dead'[o] = dead[o]
      BY <1>0, <1>5, <2>3 DEF Enqueue, OInv, TypeOK
    <3> QED
      BY <1>2, <2>1, <3>1
  <2> QED
    BY <2>2, <2>3
<1>6. ASSUME NEW r \in Rounds, Start(r) \/ Skip(r) \/ Return(r) PROVE RetryOf(o)'
  <2>1. Sending(o)' \subseteq Sending(o)
    BY <1>0, <1>3, <1>6, StartMoves, SkipMoves, ReturnMoves
  <2> QED
    BY <1>2, <1>6, <2>1 DEF Start, Skip, Return, envelopes
<1>7. ASSUME NEW r \in Rounds, Begin(r) PROVE RetryOf(o)'
  <2> DEFINE e == Head(todo[r])
  <2>1. /\ sending' = [sending EXCEPT ![r] = TRUE] /\ ~dead[e]
        /\ UNCHANGED <<attempts, dead, todo>>
    BY <1>7 DEF Begin, Skipped, envelopes
  <2>2. CASE e = o
    <3>1. attempts[o] < MaxAttempts
      BY <1>0, <2>1, <2>2 DEF RetryOf
    <3>2. /\ Cardinality(Sending(o)') <= Cardinality(Rounds)
          /\ Cardinality(Sending(o)') \in Nat /\ Cardinality(Rounds) \in Nat
      BY <1>1, RoundCount
    <3> QED
      BY <1>0, <2>1, <2>2, <3>1, <3>2 DEF RetryOf
  <2>3. CASE e # o
    <3>1. \A p \in Rounds : p # r => (sending'[p] <=> sending[p])
      BY <1>0, <2>1 DEF OInv, TypeOK
    <3>2. Sending(o)' \subseteq Sending(o)
      BY <2>1, <2>3, <3>1 DEF Sending
    <3> QED
      BY <1>2, <2>1, <3>2
  <2> QED
    BY <2>2, <2>3
<1>8. ASSUME NEW r \in Rounds, Fail(r) PROVE RetryOf(o)'
  <2> DEFINE e == Head(todo[r])
  <2>1. /\ sending[r] /\ todo[r] # << >>
        /\ attempts' = [attempts EXCEPT ![e] = attempts[e] + 1]
        /\ dead' = [dead EXCEPT ![e] = dead[e] \/ Exhausted(attempts[e] + 1)]
    BY <1>0, <1>8 DEF Fail, Counted, OInv
  <2>2. Sending(o)' \subseteq Sending(o) \ {r}
    BY <1>0, <1>3, <1>8, FailMoves
  <2>3. CASE e = o
    <3>1. /\ attempts'[o] = attempts[o] + 1
          /\ dead'[o] <=> dead[o] \/ attempts[o] + 1 >= MaxAttempts
      BY <1>0, <2>1, <2>3 DEF OInv, TypeOK, Exhausted
    <3>2. r \in Sending(o) /\ r \notin Sending(o)'
      BY <2>1, <2>2, <2>3 DEF Sending
    <3>3. /\ Cardinality(Sending(o)') + 1 <= Cardinality(Sending(o))
          /\ Cardinality(Sending(o)') \in Nat /\ Cardinality(Sending(o)) \in Nat
          /\ Cardinality(Rounds) \in Nat
      BY <1>1, <2>2, <3>2, RoundCount
    <3> QED
      BY <1>0, <3>1, <3>3 DEF RetryOf
  <2>4. CASE e # o
    <3>1. attempts'[o] = attempts[o] /\ dead'[o] = dead[o]
      BY <1>0, <2>1, <2>4 DEF OInv, TypeOK
    <3> QED
      BY <1>2, <2>2, <3>1
  <2> QED
    BY <2>3, <2>4
<1>9. CASE UNCHANGED vars
  BY <1>2, <1>9 DEF vars, Sending
<1> QED
  BY <1>4, <1>5, <1>6, <1>7, <1>8, <1>9 DEF Next, Work

(* Rounds that overlap share the attempt count: an envelope is a dead letter
   exactly when its attempts are used up, and is never tried more often than
   that plus once for each other round. *)
THEOREM RetriesAlwaysBounded == Spec => []RetriesBounded
<1>1. ASSUME RInv, NEW o \in Envelopes
      PROVE  /\ dead[o] <=> attempts[o] >= MaxAttempts
             /\ attempts[o] < MaxAttempts + Cardinality(Rounds)
  <2>1. Sending(o) \subseteq Rounds
    BY DEF Sending
  <2>2. Cardinality(Sending(o)) \in Nat /\ Cardinality(Rounds) \in Nat
    BY <2>1, RoundCount
  <2>3. attempts[o] \in Nat /\ MaxAttempts \in Nat
    BY <1>1, LimitAssumption DEF RInv, OInv, TypeOK
  <2> QED
    BY <1>1, <2>2, <2>3 DEF RInv, RetryOf
<1>2. RInv => RetriesBounded
  BY <1>1 DEF RetriesBounded
<1> QED
  BY <1>2, RetryInit, RetryStep, PTL DEF Spec

-----------------------------------------------------------------------------
(* Deliveries.  A round that holds a key may still deliver it, so those are   *)
(* added to the deliveries made.  A key is in the dict only while none of the *)
(* sends since it was enqueued has returned.                                 *)

Holding(k) == {r \in Rounds : k \in KeysIn(todo[r])}

DeliveryOf(k) ==
  /\ k \in KeysIn(items) => returned[k] = 0
  /\ returned[k] + Cardinality(Holding(k)) <= Cardinality(Rounds)

DInv == OInv /\ \A k \in Keys : DeliveryOf(k)

LEMMA DeliveryInit == Init => DInv
<1> SUFFICES ASSUME Init, NEW k \in Keys PROVE DeliveryOf(k)
  BY InitTyped DEF DInv
<1>1. Holding(k) \subseteq Rounds
  BY DEF Holding
<1>2. Cardinality(Holding(k)) <= Cardinality(Rounds) /\ Cardinality(Holding(k)) \in Nat
  BY <1>1, RoundCount
<1>3. returned[k] = 0
  BY DEF Init
<1> QED
  BY <1>2, <1>3 DEF DeliveryOf

LEMMA DeliveryStep == DInv /\ [Next]_vars => DInv'
<1> SUFFICES ASSUME DInv, [Next]_vars, NEW k \in Keys PROVE DeliveryOf(k)'
  BY StepTyped DEF DInv
<1>0. OInv /\ DeliveryOf(k) /\ returned[k] \in Nat
  BY DEF DInv, OInv, TypeOK
<1>1. Holding(k) \subseteq Rounds /\ Holding(k)' \subseteq Rounds
  BY DEF Holding
<1>2. ASSUME Holding(k)' \subseteq Holding(k), KeysIn(items') \subseteq KeysIn(items),
             returned'[k] = returned[k]
      PROVE  DeliveryOf(k)'
  <2>1. /\ Cardinality(Holding(k)') <= Cardinality(Holding(k))
        /\ Cardinality(Holding(k)') \in Nat /\ Cardinality(Holding(k)) \in Nat
        /\ Cardinality(Rounds) \in Nat
    BY <1>1, <1>2, RoundCount
  <2> QED
    BY <1>0, <1>2, <2>1 DEF DeliveryOf
<1>3. ASSUME returned'[k] = 0 PROVE DeliveryOf(k)'
  <2>1. Cardinality(Holding(k)') <= Cardinality(Rounds) /\ Cardinality(Holding(k)') \in Nat
    BY <1>1, RoundCount
  <2> QED
    BY <1>3, <2>1 DEF DeliveryOf
<1>4. ASSUME NEW r \in Rounds, NEW rest, Moved(r, rest),
             k \in KeysIn(rest) => k \in KeysIn(todo[r])
      PROVE  Holding(k)' \subseteq Holding(k)
  BY <1>4 DEF Moved, Holding
<1>5. CASE Tick
  BY <1>2, <1>5 DEF Tick, Holding
<1>6. ASSUME NEW o \in Envelopes, Enqueue(o) PROVE DeliveryOf(k)'
  <2>1. /\ returned' = [returned EXCEPT ![KeyOf[o]] = 0]
        /\ Holding(k)' = Holding(k)
    BY <1>6 DEF Enqueue, Holding
  <2>2. CASE KeyOf[o] = k
    BY <1>0, <1>3, <2>1, <2>2 DEF OInv, TypeOK
  <2>3. CASE KeyOf[o] # k
    <3>1. KeysIn(items') = KeysIn(items) \cup {KeyOf[o]}
      BY <1>0, <1>6, AppendKeys DEF Enqueue, OInv, TypeOK
    <3>2. returned'[k] = returned[k]
      BY <1>0, <2>1, <2>3 DEF OInv, TypeOK
    <3>3. k \in KeysIn(items') => k \in KeysIn(items)
      BY <2>3, <3>1
    <3> QED
      BY <1>0, <2>1, <3>2, <3>3 DEF DeliveryOf
  <2> QED
    BY <2>2, <2>3
<1>7. ASSUME NEW r \in Rounds, Start(r) PROVE DeliveryOf(k)'
  <2>1. Moved(r, items) /\ UNCHANGED <<items, returned>>
    BY <1>0, <1>7, StartMoves DEF Start
  <2>2. CASE k \in KeysIn(items)
    BY <1>0, <1>3, <2>1, <2>2 DEF DeliveryOf
  <2>3. CASE k \notin KeysIn(items)
    BY <1>2, <1>4, <2>1, <2>3
  <2> QED
    BY <2>2, <2>3
<1>8. ASSUME NEW r \in Rounds, Skip(r) \/ Fail(r) PROVE DeliveryOf(k)'
  <2>1. todo[r] # << >> /\ Moved(r, Tail(todo[r])) /\ UNCHANGED <<items, returned>>
    BY <1>0, <1>8, SkipMoves, FailMoves DEF Skip, Fail, At, OInv
  <2>2. KeysIn(Tail(todo[r])) \subseteq KeysIn(todo[r])
    BY <1>0, <2>1, HeadOfRound
  <2> QED
    BY <1>2, <1>4, <2>1, <2>2
<1>9. ASSUME NEW r \in Rounds, Begin(r) PROVE DeliveryOf(k)'
  BY <1>2, <1>9 DEF Begin, Holding
<1>10. ASSUME NEW r \in Rounds, Return(r) PROVE DeliveryOf(k)'
  <2> DEFINE sent == KeyOf[Head(todo[r])]
  <2>1. /\ todo[r] # << >> /\ Moved(r, Rest(r))
        /\ KeysIn(Rest(r)) \subseteq KeysIn(Tail(todo[r]))
        /\ items' = WithoutKey(items, sent)
        /\ returned' = [returned EXCEPT ![sent] = returned[sent] + 1]
    BY <1>0, <1>10, ReturnMoves DEF Return, Removed, OInv
  <2>2. /\ sent \in KeysIn(todo[r])
        /\ KeysIn(Rest(r)) \subseteq KeysIn(todo[r]) \ {sent}
    BY <1>0, <2>1, HeadOfRound
  <2>3. KeysIn(items') = KeysIn(items) \ {sent}
    BY <1>0, <2>1, WithoutKeyProperties DEF OInv, TypeOK
  <2>4. Holding(k)' \subseteq Holding(k)
    BY <1>4, <2>1, <2>2
  <2>5. CASE sent = k
    <3>1. returned'[k] = returned[k] + 1
      BY <1>0, <2>1, <2>5 DEF OInv, TypeOK
    <3>2. r \in Holding(k) /\ r \notin Holding(k)'
      BY <2>1, <2>2, <2>5 DEF Holding, Moved
    <3>3. /\ Cardinality(Holding(k)') + 1 <= Cardinality(Holding(k))
          /\ Cardinality(Holding(k)') \in Nat /\ Cardinality(Holding(k)) \in Nat
          /\ Cardinality(Rounds) \in Nat
      BY <1>1, <2>4, <3>2, RoundCount
    <3>4. k \notin KeysIn(items')
      BY <2>3, <2>5
    <3> QED
      BY <1>0, <3>1, <3>3, <3>4 DEF DeliveryOf
  <2>6. CASE sent # k
    <3>1. returned'[k] = returned[k]
      BY <1>0, <2>1, <2>6 DEF OInv, TypeOK
    <3> QED
      BY <1>2, <2>3, <2>4, <3>1
  <2> QED
    BY <2>5, <2>6
<1>11. CASE UNCHANGED vars
  BY <1>2, <1>11 DEF vars, Holding
<1> QED
  BY <1>5, <1>6, <1>7, <1>8, <1>9, <1>10, <1>11 DEF Next, Work

(* A round with an old snapshot may deliver an envelope again that another
   round has delivered and removed, but each round only once per enqueue. *)
THEOREM DeliveriesAlwaysBounded == Spec => []DeliveriesBounded
<1>1. ASSUME DInv, NEW k \in Keys PROVE returned[k] <= Cardinality(Rounds)
  <2>1. Holding(k) \subseteq Rounds
    BY DEF Holding
  <2>2. Cardinality(Holding(k)) \in Nat /\ Cardinality(Rounds) \in Nat
    BY <2>1, RoundCount
  <2> QED
    BY <1>1, <2>2 DEF DInv, DeliveryOf, OInv, TypeOK
<1>2. DInv => DeliveriesBounded
  BY <1>1 DEF DeliveriesBounded
<1> QED
  BY <1>2, DeliveryInit, DeliveryStep, PTL DEF Spec
=============================================================================
