--------------------------- MODULE ZODBRepository ---------------------------
(***************************************************************************)
(* ZODBRepository under Zope: every API call of a request makes a fresh      *)
(* ZODBRepository, which loads the annotation of the content object, applies *)
(* one MemoryRepository method to its private copy and assigns the whole     *)
(* state back.  The transaction commits when the request ends.  All of the   *)
(* state lives in one PersistentMapping, so two transactions that both       *)
(* wrote it conflict: the later one is aborted and the publisher runs the    *)
(* request again from its start, with new UUIDs, up to MaxAttempts times.    *)
(*                                                                          *)
(* Transactions, conflicts, retries and uuid4() belong to ZODB, Zope and     *)
(* Python; they are modelled as the code relies on them.                    *)
(***************************************************************************)
EXTENDS AuditRepository

CONSTANTS
  Requests,      \* concurrent requests, each making one API call
  Workloads,     \* which call each request makes: the assignments considered
  InitialStore,  \* the annotation when the requests arrive
  MaxAttempts,   \* executions of one request the publisher allows
  EventIdOf,     \* the uuid4() an attempt of a request draws for an event
  PreviewIdOf,   \* the uuid4() an attempt of a request draws for a preview
  MaxTime        \* bound: the clock stops here

Call ==
  [op : {"log_event"}, body : Bodies]
    \cup [op : {"set_policy"}, policy : Policies, actor : Actors]
    \cup [op : {"create_preview"}, actor : Actors]
    \cup [op : {"delete_preview"}, id : PreviewIds, actor : Actors, blank : BOOLEAN]
    \cup [op : {"create_hold"}, hold_id : HoldIds, event_id : HoldTargets,
          actor : Actors]
    \cup [op : {"release_hold"}, hold_id : HoldIds, actor : Actors]

Attempts == 1..MaxAttempts

ASSUME WorkloadAssumption == Workloads \subseteq [Requests -> Call]

ASSUME RequestsAssumption == IsFiniteSet(Requests)

(* Earlier requests have left the annotation as the methods leave it. *)
ASSUME StoreAssumption == WellFormed(InitialStore)

ASSUME AttemptAssumption == MaxAttempts \in Nat \ {0} /\ MaxTime \in Nat

ASSUME ClockAssumption == 0..MaxTime \subseteq Times

(* The event ids a repository holds, has offered for deletion or has deleted. *)
KnownIds(r) ==
  Ids(r.events)
    \cup (UNION {r.previews[p].event_ids : p \in OpenPreviews(r)})
    \cup (UNION {r.governance[i].selection : i \in Deletions(r)})

(* uuid4() never returns the same id twice, nor one the store knows. *)
ASSUME UuidAssumption ==
  /\ EventIdOf \in [Requests \X Attempts -> EventIds]
  /\ PreviewIdOf \in [Requests \X Attempts -> PreviewIds]
  /\ \A x, y \in Requests \X Attempts :
       /\ EventIdOf[x] = EventIdOf[y] => x = y
       /\ PreviewIdOf[x] = PreviewIdOf[y] => x = y
  /\ \A x \in Requests \X Attempts :
       /\ EventIdOf[x] \notin KnownIds(InitialStore)
       /\ InitialStore.previews[PreviewIdOf[x]] = None

VARIABLES
  store,    \* the committed annotation
  serial,   \* number of transactions committed to it
  call,     \* what each request asks for
  status,   \* where each request is
  attempt,  \* which execution of the request this is
  txn,      \* the running transaction: the serial it has read and its private
            \* copy of the state, None outside of one
  saved,    \* history: has the request's transaction been committed
  now       \* wall clock

vars == <<store, serial, call, status, attempt, txn, saved, now>>

Statuses == {"waiting", "executed", "committed",
             "answered", "refused", "conflict", "lost"}

Ended == {"answered", "refused", "conflict", "lost"}

-----------------------------------------------------------------------------
(* One API call on a loaded repository: the answer it ends with and the
   state it leaves, executed at `time'.  log_event builds the event itself,
   stamped with the time of this attempt. *)

NewEvent(q, time) == [event_id |-> EventIdOf[q, attempt[q]],
                      body |-> call[q].body, created_at |-> time]

Outcome(r, q, time) ==
  LET c == call[q] IN
  CASE c.op = "log_event" -> AppendOutcome(r, ObjectUid, NewEvent(q, time))
    [] c.op = "set_policy" -> "changed"
    [] c.op = "create_preview" -> "previewed"
    [] c.op = "delete_preview" -> DeleteOutcome(r, c.id, c.actor, c.blank, time)
    [] c.op = "create_hold" -> CreateHoldOutcome(ObjectUid)
    [] c.op = "release_hold" -> ReleaseHoldOutcome(r, c.hold_id)

After(r, q, time) ==
  LET c == call[q] IN
  CASE c.op = "log_event" -> AfterAppend(r, ObjectUid, NewEvent(q, time))
    [] c.op = "set_policy" -> AfterSetPolicy(r, c.policy, c.actor)
    [] c.op = "create_preview" ->
         AfterCreatePreview(r, PreviewIdOf[q, attempt[q]], c.actor, time)
    [] c.op = "delete_preview" -> AfterDelete(r, c.id, c.actor, c.blank, time)
    [] c.op = "create_hold" ->
         AfterCreateHold(r, ObjectUid, c.hold_id, c.event_id, c.actor)
    [] c.op = "release_hold" -> AfterReleaseHold(r, c.hold_id, c.actor)

Raised == {"DuplicateEvent", "IdempotentReplay", "ValueError", "KeyError",
           "PreviewExpired", "HoldConflict"}

-----------------------------------------------------------------------------
Init ==
  /\ store = InitialStore
  /\ serial = 0
  /\ call \in Workloads
  /\ status = [q \in Requests |-> "waiting"]
  /\ attempt = [q \in Requests |-> 1]
  /\ txn = [q \in Requests |-> None]
  /\ saved = [q \in Requests |-> FALSE]
  /\ now = 0

(* Begin a transaction, _load, run the method, _save into the private copy. *)
Execute(q) ==
  /\ status[q] = "waiting"
  /\ Outcome(store, q, now) \notin Raised
  /\ status' = [status EXCEPT ![q] = "executed"]
  /\ txn' = [txn EXCEPT ![q] = [read |-> serial, copy |-> After(store, q, now)]]
  /\ UNCHANGED <<store, serial, call, attempt, saved, now>>

(* The method raises: nothing is saved and the transaction is aborted. *)
Refuse(q) ==
  /\ status[q] = "waiting"
  /\ Outcome(store, q, now) \in Raised
  /\ status' = [status EXCEPT ![q] = "refused"]
  /\ UNCHANGED <<store, serial, call, attempt, txn, saved, now>>

(* Slip: what a transaction overwrites is not compared with what it read. *)
AssumedUnchanged(q) == TRUE

(* The annotation is as the transaction read it: the commit goes through. *)
Unchanged(q) == txn[q].read = serial

Commit(q) ==
  /\ status[q] = "executed"
  /\ Unchanged(q)
  /\ store' = txn[q].copy
  /\ serial' = serial + 1
  /\ saved' = [saved EXCEPT ![q] = TRUE]
  /\ status' = [status EXCEPT ![q] = "committed"]
  /\ txn' = [txn EXCEPT ![q] = None]
  /\ UNCHANGED <<call, attempt, now>>

(* Slip: the state is not loaded again for the next attempt. *)
ConflictOnStaleCopy(q) ==
  /\ status[q] = "executed"
  /\ ~Unchanged(q)
  /\ \/ /\ attempt[q] < MaxAttempts
        /\ attempt' = [attempt EXCEPT ![q] = @ + 1]
        /\ UNCHANGED status
     \/ /\ attempt[q] = MaxAttempts
        /\ status' = [status EXCEPT ![q] = "conflict"]
        /\ UNCHANGED attempt
  /\ UNCHANGED <<store, serial, call, txn, saved, now>>

(* Slip: the last attempt has no error path. *)
ConflictUnhandled(q) ==
  /\ status[q] = "executed"
  /\ ~Unchanged(q)
  /\ attempt[q] < MaxAttempts
  /\ txn' = [txn EXCEPT ![q] = None]
  /\ attempt' = [attempt EXCEPT ![q] = @ + 1]
  /\ status' = [status EXCEPT ![q] = "waiting"]
  /\ UNCHANGED <<store, serial, call, saved, now>>

(* Another transaction wrote the annotation first: ConflictError.  The
   publisher runs the request again or gives up. *)
Conflict(q) ==
  /\ status[q] = "executed"
  /\ ~Unchanged(q)
  /\ txn' = [txn EXCEPT ![q] = None]
  /\ \/ /\ attempt[q] < MaxAttempts
        /\ attempt' = [attempt EXCEPT ![q] = @ + 1]
        /\ status' = [status EXCEPT ![q] = "waiting"]
     \/ /\ attempt[q] = MaxAttempts
        /\ status' = [status EXCEPT ![q] = "conflict"]
        /\ UNCHANGED attempt
  /\ UNCHANGED <<store, serial, call, saved, now>>

Answer(q) ==
  /\ status[q] = "committed"
  /\ status' = [status EXCEPT ![q] = "answered"]
  /\ UNCHANGED <<store, serial, call, attempt, txn, saved, now>>

(* The process dies.  What was committed stays, the client hears nothing. *)
Crash(q) ==
  /\ status[q] \notin Ended
  /\ status' = [status EXCEPT ![q] = "lost"]
  /\ txn' = [txn EXCEPT ![q] = None]
  /\ UNCHANGED <<store, serial, call, attempt, saved, now>>

Tick ==
  /\ now < MaxTime
  /\ now' = now + 1
  /\ UNCHANGED <<store, serial, call, status, attempt, txn, saved>>

Serve(q) == Execute(q) \/ Refuse(q) \/ Commit(q) \/ Conflict(q) \/ Answer(q)

Next == Tick \/ \E q \in Requests : Serve(q) \/ Crash(q)

(* A worker thread that runs a request keeps running it. *)
Spec == Init /\ [][Next]_vars /\ \A q \in Requests : WF_vars(Serve(q))

-----------------------------------------------------------------------------
TypeOK ==
  /\ store \in Repository
  /\ serial \in 0..Cardinality(Requests)
  /\ call \in Workloads
  /\ status \in [Requests -> Statuses]
  /\ attempt \in [Requests -> Attempts]
  /\ txn \in [Requests -> [read : 0..serial, copy : Repository] \cup {None}]
  /\ saved \in [Requests -> BOOLEAN]
  /\ now \in 0..MaxTime

(* What is committed is always a chain verify() accepts: a transaction never
   appends to, or reseals, a chain another one has changed meanwhile. *)
StoredChainIntact ==
  /\ Verifies(store.events)
  /\ \A i \in 1..Len(store.events) : store.events[i].sequence = i

(* A retried log_event draws a new event id each time, so nothing in the
   repository recognises the repetition.  Still a request leaves one row if
   its transaction was committed, until a journaled deletion names it, and no
   row otherwise: not after conflicts, and not when it gives up. *)
RowsOf(q) == {i \in 1..Len(store.events) :
                \E n \in Attempts : store.events[i].event.event_id = EventIdOf[q, n]}

DeletedFor(q) ==
  \E i \in Deletions(store) :
    EventIdOf[q, attempt[q]] \in store.governance[i].selection

LoggedExactlyOnce ==
  \A q \in Requests : call[q].op = "log_event" =>
    Cardinality(RowsOf(q)) = IF saved[q] /\ ~DeletedFor(q) THEN 1 ELSE 0

(* The journal has one entry for every committed call that writes it, however
   often the request was executed, and none for the others. *)
Journaling == {"set_policy", "delete_preview", "create_hold", "release_hold"}

JournaledExactlyOnce ==
  Len(store.governance) =
    Len(InitialStore.governance)
      + Cardinality({q \in Requests : saved[q] /\ call[q].op \in Journaling})

(* Two confirmations of one preview, from two requests, delete once: the
   second is answered PreviewExpired or gives up. *)
ConfirmedOnce ==
  \A p \in PreviewIds :
    Cardinality({q \in Requests : /\ saved[q]
                                  /\ call[q].op = "delete_preview"
                                  /\ call[q].id = p}) <= 1

(* Conflicts do not waste work for nothing: a request that was executed again
   n times, or gave up, lost to as many commits of other requests. *)
ConflictMeansProgress ==
  \A q \in Requests :
    LET others == serial - (IF saved[q] THEN 1 ELSE 0)
    IN /\ attempt[q] - 1 <= others
       /\ status[q] = "conflict" => MaxAttempts <= others

(* The committed annotation implements the governed log: a deletion that was
   prepared before a concurrent hold on one of its events is never committed
   after it. *)
Governed == INSTANCE GovernedLog WITH
  log <- Logged(store.events),
  protected <- Held(store),
  journal <- store.governance

ImplementsGovernedLog == Governed!Spec

(* Every request ends: there is no livelock among requests that conflict. *)
EveryRequestEnds == \A q \in Requests : <>(status[q] \in Ended)
=============================================================================
