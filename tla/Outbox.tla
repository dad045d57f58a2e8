------------------------------- MODULE Outbox -------------------------------
(***************************************************************************)
(* Outbox of outbox.py: envelopes that wait in a dict, keyed by idempotency  *)
(* key, and rounds of deliver() that hand them to a callback `send'.  Rounds *)
(* may overlap (two threads, or a callback that calls deliver again): each   *)
(* walks its own snapshot of the dict, and all share the Envelope objects.   *)
(*                                                                          *)
(* `send' is code of the caller.  It may take effect or not, and return or    *)
(* raise, but returns only when the receiver has the envelope; an            *)
(* IdempotentReplay of a receiver that has it already is one way to raise.    *)
(*                                                                          *)
(* Time is relative: wait[o] is next_attempt_at minus the present, a round's  *)
(* age is the present minus the `now' it has read when it started.            *)
(***************************************************************************)
EXTENDS Integers, Sequences, SequencesExt, FiniteSets

CONSTANTS
  Keys,         \* idempotency keys
  Envelopes,    \* Envelope objects
  KeyOf,        \* the key each of them was made with
  Rounds,       \* concurrent calls of deliver
  MaxAttempts,  \* max_attempts
  MaxDelay,     \* the 3600 seconds of the backoff
  MaxAge        \* bound: a round is over after this time

ASSUME KeyAssumption == KeyOf \in [Envelopes -> Keys]

ASSUME RoundsAssumption == IsFiniteSet(Rounds)

ASSUME LimitAssumption ==
  /\ MaxAttempts \in Nat \ {0}
  /\ MaxDelay \in Nat \ {0}
  /\ MaxAge \in Nat

VARIABLES
  items,     \* the dict, in insertion order
  attempts,  \* attempt_count of each envelope
  wait,      \* its next_attempt_at, relative to the present
  dead,      \* its dead_letter
  todo,      \* what is left of each round's snapshot, << >> between rounds
  sending,   \* whether the round is inside send(Head(todo))
  age,       \* time since the round has read `now'
  received,  \* keys that have reached the receiver
  accepted,  \* history: keys that were enqueued
  returned   \* history: sends of a key that returned since it was enqueued

vars == <<items, attempts, wait, dead, todo, sending, age,
          received, accepted, returned>>

envelopes == <<attempts, wait, dead>>

Init ==
  /\ items = << >>
  /\ attempts = [o \in Envelopes |-> 0]
  /\ wait = [o \in Envelopes |-> 0]
  /\ dead = [o \in Envelopes |-> FALSE]
  /\ todo = [r \in Rounds |-> << >>]
  /\ sending = [r \in Rounds |-> FALSE]
  /\ age = [r \in Rounds |-> 0]
  /\ received = {}
  /\ accepted = {}
  /\ returned = [k \in Keys |-> 0]

-----------------------------------------------------------------------------
KeysIn(queue) == {KeyOf[queue[i]] : i \in DOMAIN queue}

(* A new Envelope: not in use anywhere.  setdefault keeps the one that has
   the key already, and then nothing changes. *)
Fresh(o) ==
  /\ ~Contains(items, o)
  /\ \A r \in Rounds : ~Contains(todo[r], o)

Enqueue(o) ==
  /\ Fresh(o)
  /\ KeyOf[o] \notin KeysIn(items)
  /\ items' = Append(items, o)
  /\ attempts' = [attempts EXCEPT ![o] = 0]
  /\ wait' = [wait EXCEPT ![o] = 0]
  /\ dead' = [dead EXCEPT ![o] = FALSE]
  /\ accepted' = accepted \cup {KeyOf[o]}
  /\ returned' = [returned EXCEPT ![KeyOf[o]] = 0]
  /\ UNCHANGED <<todo, sending, age, received>>

-----------------------------------------------------------------------------
(* deliver(send)                                                            *)

(* The round goes on with `rest', or is over. *)
Continue(r, rest) ==
  /\ todo' = [todo EXCEPT ![r] = rest]
  /\ sending' = [sending EXCEPT ![r] = FALSE]
  /\ age' = IF rest = << >> THEN [age EXCEPT ![r] = 0] ELSE age

Start(r) ==
  /\ todo[r] = << >>
  /\ items # << >>
  /\ Continue(r, items)
  /\ UNCHANGED <<items, envelopes, received, accepted, returned>>

At(r) ==
  /\ todo[r] # << >>
  /\ ~sending[r]

Skipped(r, o) == dead[o] \/ wait[o] + age[r] > 0

Skip(r) ==
  /\ At(r)
  /\ Skipped(r, Head(todo[r]))
  /\ Continue(r, Tail(todo[r]))
  /\ UNCHANGED <<items, envelopes, received, accepted, returned>>

(* The one envelope that has the key is taken out of the dict. *)
PlaceOf(queue, k) == CHOOSE i \in DOMAIN queue : KeyOf[queue[i]] = k

WithoutKey(queue, k) ==
  IF k \in KeysIn(queue) THEN RemoveAt(queue, PlaceOf(queue, k)) ELSE queue

(* Slip: the envelope is taken out before it is sent. *)
BeginRemoving(r) ==
  /\ At(r)
  /\ ~Skipped(r, Head(todo[r]))
  /\ sending' = [sending EXCEPT ![r] = TRUE]
  /\ items' = WithoutKey(items, KeyOf[Head(todo[r])])
  /\ UNCHANGED <<envelopes, todo, age, received, accepted, returned>>

Begin(r) ==
  /\ At(r)
  /\ ~Skipped(r, Head(todo[r]))
  /\ sending' = [sending EXCEPT ![r] = TRUE]
  /\ UNCHANGED <<items, envelopes, todo, age, received, accepted, returned>>

(* Slip: the envelope stays in the dict. *)
Remaining(queue, k) == queue

Removed(queue, k) == WithoutKey(queue, k)

(* `del' raises KeyError, and the round is over, when another round has
   removed the key meanwhile. *)
Return(r) ==
  LET k == KeyOf[Head(todo[r])] IN
  /\ sending[r]
  /\ received' = received \cup {k}
  /\ returned' = [returned EXCEPT ![k] = @ + 1]
  /\ items' = Removed(items, k)
  /\ Continue(r, IF k \in KeysIn(items) THEN Tail(todo[r]) ELSE << >>)
  /\ UNCHANGED <<envelopes, accepted>>

MayHaveArrived(k) == received' \in {received, received \cup {k}}

(* Slip: the failed attempt is not counted. *)
Uncounted(n) == n

Counted(n) == n + 1

(* Slip: one attempt too many. *)
ExhaustedLate(n) == n > MaxAttempts

Exhausted(n) == n >= MaxAttempts

(* Slip: the delay grows without a limit. *)
Uncapped(n) == 2 ^ n

Delay(n) == IF 2 ^ n < MaxDelay THEN 2 ^ n ELSE MaxDelay

Fail(r) ==
  LET o == Head(todo[r])
      n == Counted(attempts[o])
  IN
  /\ sending[r]
  /\ MayHaveArrived(KeyOf[o])
  /\ attempts' = [attempts EXCEPT ![o] = n]
  /\ dead' = [dead EXCEPT ![o] = @ \/ Exhausted(n)]
  /\ wait' = IF Exhausted(n) THEN wait
             ELSE [wait EXCEPT ![o] = Delay(n) - age[r]]
  /\ Continue(r, Tail(todo[r]))
  /\ UNCHANGED <<items, accepted, returned>>

(* A second passes.  Nothing tells envelopes apart that are overdue by more
   than the age of any round. *)
Tick ==
  /\ \A r \in Rounds : age[r] < MaxAge
  /\ age' = [r \in Rounds |-> IF todo[r] = << >> THEN 0 ELSE age[r] + 1]
  /\ wait' = [o \in Envelopes |-> IF wait[o] > -MaxAge THEN wait[o] - 1
                                  ELSE wait[o]]
  /\ UNCHANGED <<items, attempts, dead, todo, sending, received, accepted,
                 returned>>

Work(r) == Skip(r) \/ Begin(r) \/ Return(r) \/ Fail(r)

Next ==
  \/ Tick
  \/ \E o \in Envelopes : Enqueue(o)
  \/ \E r \in Rounds : Start(r) \/ Work(r)

(* The caller runs deliver again and again, send ends, time passes. *)
Spec ==
  /\ Init /\ [][Next]_vars
  /\ WF_vars(Tick)
  /\ \A r \in Rounds : WF_vars(Start(r)) /\ WF_vars(Work(r))

-----------------------------------------------------------------------------
(* Types, and no envelope waits longer than MaxDelay. *)
TypeOK ==
  /\ items \in Seq(Envelopes)
  /\ attempts \in [Envelopes -> Nat]
  /\ wait \in [Envelopes -> {d \in Int : d <= MaxDelay}]
  /\ dead \in [Envelopes -> BOOLEAN]
  /\ todo \in [Rounds -> Seq(Envelopes)]
  /\ sending \in [Rounds -> BOOLEAN]
  /\ age \in [Rounds -> 0..MaxAge]
  /\ received \subseteq Keys
  /\ accepted \subseteq Keys
  /\ returned \in [Keys -> Nat]

(* At least once: however rounds overlap, fail or end early, the key of
   an accepted envelope stays in the outbox until the receiver has it.  This
   speaks of keys: of an envelope that is enqueued under a key the receiver has
   had before it says nothing. *)
NothingLost == accepted \subseteq KeysIn(items) \cup received

(* Overlapping rounds share the attempt count: an envelope is a dead letter
   exactly when it has used up its attempts, and the rounds that were sending
   it at that moment are all that can go beyond. *)
RetriesBounded ==
  \A o \in Envelopes :
    /\ dead[o] <=> attempts[o] >= MaxAttempts
    /\ attempts[o] < MaxAttempts + Cardinality(Rounds)

(* An envelope is delivered by each round at most once per enqueue: a round
   with an old snapshot may send it again after it was delivered and removed,
   the next snapshot does not hold it any more. *)
DeliveriesBounded == \A k \in Keys : returned[k] <= Cardinality(Rounds)

(* No envelope is retried for ever or forgotten behind others: it is delivered
   or becomes a dead letter, also when a KeyError ends rounds early. *)
Pending(o) == Contains(items, o) /\ ~dead[o]

EveryEnvelopeSettles == \A o \in Envelopes : Pending(o) ~> ~Pending(o)
=============================================================================
