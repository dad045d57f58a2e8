-------------------------- MODULE AuditRepository --------------------------
(***************************************************************************)
(* The functional core shared by every repository class of                 *)
(* zopyx.plone.persistentlogger: the state of one object's audit stream     *)
(* and what each method of MemoryRepository computes from it.  The state    *)
(* machines (MemoryRepository, ZODBRepository, SQLiteRepository) hold such   *)
(* states in memory, in transactions and in tables and apply these          *)
(* operators to them.                                                       *)
(*                                                                          *)
(* Abstractions of data:                                                    *)
(*  - everything of an event except its id and its time is one `body';       *)
(*  - SHA-256 is injective: a digest IS the evidence it hashes, which for a  *)
(*    row is the previous digest followed by the row's event and sequence;   *)
(*  - an instant is an integer, `days' and `seconds' share its unit;         *)
(*  - a preview's tuple of ids, and the digest of it, is the set of the ids. *)
(*                                                                          *)
(* A definition introduced by `Slip:' is a faulty variant of the one after  *)
(* it: a mistake the checks must notice.  Nothing else uses it.             *)
(***************************************************************************)
EXTENDS Integers, Sequences, FiniteSets

CONSTANTS
  EventIds,       \* UUIDs of events
  Bodies,         \* comment, actor, type, severity, details, ... of an event
  Times,          \* instants an event may carry as created_at
  ObjectUids,     \* identities of content objects
  ObjectUid,      \* the object whose stream this repository holds
  Actors,         \* principals
  HoldIds,        \* UUIDs of legal holds
  PreviewIds,     \* UUIDs of deletion previews
  Policies,       \* retention policies that may be configured
  DefaultPolicy,  \* RetentionPolicy()
  PreviewTTL,     \* ttl_seconds
  None            \* Python's None: no event, no hold, no preview

ASSUME TimesAssumption == Times \subseteq Int

ASSUME ScopeAssumption == ObjectUid \in ObjectUids

ASSUME PolicyAssumption ==
  /\ Policies \subseteq [enabled : BOOLEAN,
                         older_than_days : Nat \ {0},
                         max_entries : Nat \ {0}]
  /\ DefaultPolicy \in Policies
  /\ ~DefaultPolicy.enabled

ASSUME TTLAssumption == PreviewTTL \in Nat \ {0}

-----------------------------------------------------------------------------
(* The records a repository keeps.                                          *)

Event == [event_id : EventIds, body : Bodies, created_at : Times]

Digests == Seq(Event \X Nat)

NoDigest == << >>

Row == [event : Event, sequence : Nat,
        previous_digest : Digests, integrity_digest : Digests]

HoldTargets == EventIds \cup {None}  \* one event, or None: the whole object

Hold == [event_id : HoldTargets, actor : Actors, released : BOOLEAN]

Preview == [event_ids : SUBSET EventIds, actor : Actors, expires_at : Int]

ASSUME NoneAssumption == None \notin EventIds \cup Hold \cup Preview

PolicyEntry == [event_type : {"retention.policy.changed"}, actor : Actors,
                enabled : BOOLEAN, max_entries : Nat]

DeletionEntry == [event_type : {"retention.events.deleted"}, actor : Actors,
                  count : Nat, selection : SUBSET EventIds]

HoldEntry == [event_type : {"governance.hold.created"}, actor : Actors,
              hold_id : HoldIds, event_id : HoldTargets]

ReleaseEntry == [event_type : {"governance.hold.released"}, actor : Actors,
                 hold_id : HoldIds]

JournalEntry == PolicyEntry \cup DeletionEntry \cup HoldEntry \cup ReleaseEntry

Repository == [events : Seq(Row), policy : Policies,
               holds : [HoldIds -> Hold \cup {None}],
               previews : [PreviewIds -> Preview \cup {None}],
               governance : Seq(JournalEntry)]

EmptyRepository ==
  [events |-> << >>, policy |-> DefaultPolicy,
   holds |-> [h \in HoldIds |-> None],
   previews |-> [p \in PreviewIds |-> None],
   governance |-> << >>]

Journaled(r, entry) == [r EXCEPT !.governance = Append(@, entry)]

-----------------------------------------------------------------------------
(* The hash chain.                                                          *)

Digest(row) == Append(row.previous_digest, <<row.event, row.sequence>>)

RowOf(event, sequence, previous) ==
  [event |-> event, sequence |-> sequence, previous_digest |-> previous,
   integrity_digest |-> Append(previous, <<event, sequence>>)]

LastDigest(events) ==
  IF events = << >> THEN NoDigest ELSE events[Len(events)].integrity_digest

(* Slip: the link to the row before is not looked at. *)
MismatchUnlinked(events, i) == events[i].integrity_digest # Digest(events[i])

(* Slip: the link is compared with what is stored, nothing is recomputed. *)
MismatchStored(events, i) ==
  events[i].previous_digest
    # (IF i = 1 THEN NoDigest ELSE events[i - 1].integrity_digest)

(* verify() walks the rows and stops at the first whose stored digests are
   not the recomputed ones. *)
MismatchAt(events, i) ==
  \/ events[i].previous_digest
       # (IF i = 1 THEN NoDigest ELSE Digest(events[i - 1]))
  \/ events[i].integrity_digest # Digest(events[i])

Verifies(events) == \A i \in 1..Len(events) : ~MismatchAt(events, i)

Logged(events) == [i \in 1..Len(events) |-> events[i].event]

Ids(events) == {events[i].event.event_id : i \in 1..Len(events)}

(* The chain delete_preview's loop lays over a list of events: numbered from
   one, each row linked to the digest just computed for the row before. *)
Evidence(log, n) == [m \in 1..n |-> <<log[m], m>>]

(* Slip: enumerate() without its start of 1. *)
ChainFromZero(log) ==
  [n \in 1..Len(log) |-> RowOf(log[n], n - 1, Evidence(log, n - 1))]

Chain(log) == [n \in 1..Len(log) |-> RowOf(log[n], n, Evidence(log, n - 1))]

(* The list comprehension that filters the log: its n-th element is the n-th
   kept position. *)
Kept(log, selection) == {i \in 1..Len(log) : log[i].event_id \notin selection}

Nth(K, n) == CHOOSE i \in K : Cardinality({j \in K : j <= i}) = n

Survivors(log, selection) ==
  [n \in 1..Cardinality(Kept(log, selection)) |->
     log[Nth(Kept(log, selection), n)]]

-----------------------------------------------------------------------------
(* append(event): the candidate row is rebuilt at the place of the stored
   one, so that a replay compares equal wherever that row now stands.        *)

PositionOf(events, id) ==
  CHOOSE i \in 1..Len(events) :
    /\ events[i].event.event_id = id
    /\ \A j \in 1..(i - 1) : events[j].event.event_id # id

(* Slip: the candidate is built as a new row at the end of the chain. *)
AppendOutcomeAtEnd(r, uid, e) ==
  IF uid # ObjectUid THEN "ValueError"
  ELSE IF e.event_id \notin Ids(r.events) THEN "accepted"
  ELSE IF RowOf(e, Len(r.events) + 1, LastDigest(r.events))
            = r.events[PositionOf(r.events, e.event_id)]
       THEN "IdempotentReplay" ELSE "DuplicateEvent"

AppendOutcome(r, uid, e) ==
  LET stored == r.events[PositionOf(r.events, e.event_id)] IN
  IF uid # ObjectUid THEN "ValueError"
  ELSE IF e.event_id \notin Ids(r.events) THEN "accepted"
  ELSE IF RowOf(e, stored.sequence, stored.previous_digest) = stored
       THEN "IdempotentReplay" ELSE "DuplicateEvent"

NewRow(events, e) == RowOf(e, Len(events) + 1, LastDigest(events))

AfterAppend(r, uid, e) ==
  IF AppendOutcome(r, uid, e) = "accepted"
  THEN [r EXCEPT !.events = Append(@, NewRow(@, e))]
  ELSE r

-----------------------------------------------------------------------------
(* set_policy(policy, actor)                                                *)

AfterSetPolicy(r, policy, actor) ==
  Journaled([r EXCEPT !.policy = policy],
            [event_type |-> "retention.policy.changed", actor |-> actor,
             enabled |-> policy.enabled, max_entries |-> policy.max_entries])

-----------------------------------------------------------------------------
(* create_hold(hold), release_hold(hold_id, actor), list_holds(active_only).
   A hold is passed as its constructor makes it, unreleased: only
   release_hold sets released_at. *)

ActiveHolds(r) ==
  {h \in HoldIds : r.holds[h] # None /\ ~r.holds[h].released}

(* The set `held' of create_preview and delete_preview: holds on the whole
   object (event_id None) are filtered out of it. *)
Held(r) == {r.holds[h].event_id : h \in ActiveHolds(r)} \ {None}

CreateHoldOutcome(uid) == IF uid = ObjectUid THEN "created" ELSE "ValueError"

AfterCreateHold(r, uid, hold_id, event_id, actor) ==
  IF CreateHoldOutcome(uid) = "created"
  THEN Journaled([r EXCEPT !.holds[hold_id] =
                    [event_id |-> event_id, actor |-> actor, released |-> FALSE]],
                 [event_type |-> "governance.hold.created", actor |-> actor,
                  hold_id |-> hold_id, event_id |-> event_id])
  ELSE r

ReleaseHoldOutcome(r, hold_id) ==
  IF hold_id \in ActiveHolds(r) THEN "released" ELSE "KeyError"

(* Slip: the release is not journaled. *)
AfterReleaseHoldSilently(r, hold_id, actor) ==
  IF ReleaseHoldOutcome(r, hold_id) = "released"
  THEN [r EXCEPT !.holds[hold_id] = [@ EXCEPT !.released = TRUE]]
  ELSE r

AfterReleaseHold(r, hold_id, actor) ==
  IF ReleaseHoldOutcome(r, hold_id) = "released"
  THEN Journaled([r EXCEPT !.holds[hold_id] = [@ EXCEPT !.released = TRUE]],
                 [event_type |-> "governance.hold.released", actor |-> actor,
                  hold_id |-> hold_id])
  ELSE r

-----------------------------------------------------------------------------
(* create_preview(actor, now): `id' is the uuid4() drawn for it.             *)

Expired(policy, e, now) == e.created_at < now - policy.older_than_days

(* Slip: one event more than max_entries is kept. *)
OverflowShort(r) == 1..(Len(r.events) - r.policy.max_entries - 1)

Overflow(r) == 1..(Len(r.events) - r.policy.max_entries)

Selection(r, now) ==
  IF ~r.policy.enabled THEN {}
  ELSE LET candidates == {i \in 1..Len(r.events) :
                            \/ Expired(r.policy, r.events[i].event, now)
                            \/ i \in Overflow(r)}
       IN {r.events[i].event.event_id : i \in candidates} \ Held(r)

AfterCreatePreview(r, id, actor, now) ==
  [r EXCEPT !.previews[id] = [event_ids |-> Selection(r, now), actor |-> actor,
                              expires_at |-> now + PreviewTTL]]

-----------------------------------------------------------------------------
(* delete_preview(preview_id, actor, reason): `blank' says that the reason
   is empty or white space.                                                  *)

PreviewUsable(r, id, actor, blank, now) ==
  /\ r.previews[id] # None
  /\ now < r.previews[id].expires_at
  /\ r.previews[id].actor = actor
  /\ ~blank

(* Slip: holds are looked at when the preview is made and never again. *)
DeleteOutcomeUnheld(r, id, actor, blank, now) ==
  IF ~PreviewUsable(r, id, actor, blank, now) THEN "PreviewExpired" ELSE "deleted"

DeleteOutcome(r, id, actor, blank, now) ==
  IF ~PreviewUsable(r, id, actor, blank, now) THEN "PreviewExpired"
  ELSE IF r.previews[id].event_ids \cap Held(r) # {} THEN "HoldConflict"
  ELSE "deleted"

(* Slip: the preview stays after it was used. *)
WithPreview(r, id) == r

WithoutPreview(r, id) == [r EXCEPT !.previews[id] = None]

(* Slip: the rows are filtered and the chain is left as it was. *)
Filtered(events, selection) ==
  LET K == Kept(Logged(events), selection)
  IN [n \in 1..Cardinality(K) |-> events[Nth(K, n)]]

Resealed(events, selection) == Chain(Survivors(Logged(events), selection))

(* The same as the code has it: the comprehension over the rows, row by row, ... *)
FilterLoop(events, selection) ==
  LET done[n \in 0..Len(events)] ==
        IF n = 0 THEN << >>
        ELSE IF events[n].event.event_id \in selection THEN done[n - 1]
        ELSE Append(done[n - 1], events[n])
  IN done[Len(events)]

(* ... and the loop over enumerate(self._events, 1), whose `previous' is the
   digest of the row before. *)
ResealLoop(events) ==
  LET done[n \in 0..Len(events)] ==
        IF n = 0 THEN << >>
        ELSE Append(done[n - 1],
                    RowOf(events[n].event, n, LastDigest(done[n - 1])))
  IN done[Len(events)]

(* Slip: the difference is taken the wrong way round. *)
CountReversed(before, after) == Len(after) - Len(before)

DeletedCount(before, after) == Len(before) - Len(after)

AfterDelete(r, id, actor, blank, now) ==
  IF DeleteOutcome(r, id, actor, blank, now) = "deleted"
  THEN LET selection == r.previews[id].event_ids
           survivors == Resealed(r.events, selection)
       IN Journaled([WithoutPreview(r, id) EXCEPT !.events = survivors],
                    [event_type |-> "retention.events.deleted", actor |-> actor,
                     count |-> DeletedCount(r.events, survivors),
                     selection |-> selection])
  ELSE r

-----------------------------------------------------------------------------
(* Words for properties of a repository.                                    *)

OpenPreviews(r) == {p \in PreviewIds : r.previews[p] # None}

Deletions(r) ==
  {i \in 1..Len(r.governance) :
     r.governance[i].event_type = "retention.events.deleted"}

DistinctIds(log) ==
  \A i, j \in 1..Len(log) : log[i].event_id = log[j].event_id => i = j

(* Rows that are the chain over their own events, one per event id. *)
Sealed(events) ==
  /\ events \in Seq(Row)
  /\ events = Chain(Logged(events))
  /\ DistinctIds(Logged(events))

(* The states a repository keeps itself in: typed, one row per event id, and
   sealed as delete_preview's loop would seal the same events. *)
WellFormed(r) ==
  /\ r \in Repository
  /\ r.events = Chain(Logged(r.events))
  /\ DistinctIds(Logged(r.events))
=============================================================================
