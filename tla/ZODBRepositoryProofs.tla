------------------------ MODULE ZODBRepositoryProofs ------------------------
(***************************************************************************)
(* Theorems about ZODBRepository, for every set of requests, every workload  *)
(* and every well-formed annotation they find.  The proofs look at a commit  *)
(* only: what a transaction writes is the effect of its call on the          *)
(* annotation it read, and it is written only where that is still there.     *)
(***************************************************************************)
EXTENDS ZODBRepository, AuditRepositoryProofs

-----------------------------------------------------------------------------
(* The effect of a call c that does not raise, from r to s, with e and p the
   UUIDs drawn for an event and for a preview. *)

LogsEvent(r, s, e) ==
  /\ e \notin Ids(r.events)
  /\ Ids(s.events) = Ids(r.events) \cup {e}
  /\ s.previews = r.previews
  /\ s.governance = r.governance

WritesEntry(r, s) ==
  /\ s.events = r.events
  /\ s.previews = r.previews
  /\ \E entry \in JournalEntry :
       /\ s.governance = Append(r.governance, entry)
       /\ entry.event_type # "retention.events.deleted"

MakesPreview(r, s, p) ==
  /\ s.events = r.events
  /\ s.governance = r.governance
  /\ \E preview \in Preview :
       /\ s.previews = [r.previews EXCEPT ![p] = preview]
       /\ preview.event_ids \subseteq Ids(r.events)

UsesPreview(r, s, p) ==
  /\ DeletedBy(r, s, p)
  /\ Ids(s.events) = Ids(r.events) \ r.previews[p].event_ids

Applied(r, s, c, e, p) ==
  /\ WellFormed(s)
  /\ GovernedStep(r, s)
  /\ \/ c.op = "log_event" /\ LogsEvent(r, s, e)
     \/ c.op \in {"set_policy", "create_hold", "release_hold"} /\ WritesEntry(r, s)
     \/ c.op = "create_preview" /\ MakesPreview(r, s, p)
     \/ c.op = "delete_preview" /\ UsesPreview(r, s, c.id)

LEMMA AppendApplied ==
  ASSUME NEW r, WellFormed(r), NEW e \in Event,
         AppendOutcome(r, ObjectUid, e) = "accepted"
  PROVE  LogsEvent(r, AfterAppend(r, ObjectUid, e), e.event_id)
BY AppendPreserves, AppendIds DEF LogsEvent

LEMMA SelectionIsKnown ==
  ASSUME NEW r, NEW t
  PROVE  Selection(r, t) \subseteq Ids(r.events)
BY DEF Selection, Ids

LEMMA PreviewApplied ==
  ASSUME NEW r, WellFormed(r), NEW id \in PreviewIds, NEW actor \in Actors,
         NEW t \in Int
  PROVE  MakesPreview(r, AfterCreatePreview(r, id, actor, t), id)
<1> DEFINE s == AfterCreatePreview(r, id, actor, t)
<1>1. /\ s.events = r.events /\ s.governance = r.governance
      /\ Previewed(r, s, id, Selection(r, t))
  BY CreatePreviewPreserves
<1> HIDE DEF s
<1>2. \E preview \in Preview :
        /\ s.previews = [r.previews EXCEPT ![id] = preview]
        /\ preview.event_ids \subseteq Ids(r.events)
  BY <1>1, SelectionIsKnown DEF Previewed
<1> QED
  BY <1>1, <1>2 DEF MakesPreview, s

LEMMA PolicyApplied ==
  ASSUME NEW r, WellFormed(r), NEW policy \in Policies, NEW actor \in Actors
  PROVE  WritesEntry(r, AfterSetPolicy(r, policy, actor))
<1> DEFINE s == AfterSetPolicy(r, policy, actor)
<1>1. s.events = r.events /\ s.previews = r.previews
  BY SetPolicyPreserves
<1>2. PICK entry \in JournalEntry :
        /\ s.governance = Append(r.governance, entry)
        /\ entry.event_type = "retention.policy.changed"
  BY SetPolicyPreserves
<1> HIDE DEF s
<1> QED
  BY <1>1, <1>2 DEF WritesEntry, s

LEMMA HoldApplied ==
  ASSUME NEW r, WellFormed(r), NEW hold_id \in HoldIds,
         NEW event_id \in HoldTargets, NEW actor \in Actors
  PROVE  WritesEntry(r, AfterCreateHold(r, ObjectUid, hold_id, event_id, actor))
<1> DEFINE s == AfterCreateHold(r, ObjectUid, hold_id, event_id, actor)
<1>1. CreateHoldOutcome(ObjectUid) = "created"
  BY DEF CreateHoldOutcome
<1>2. s.events = r.events /\ s.previews = r.previews /\ CreatedHold(r, s, hold_id)
  BY <1>1, CreateHoldPreserves
<1> HIDE DEF s
<1>3. \E entry \in JournalEntry :
        /\ s.governance = Append(r.governance, entry)
        /\ entry.event_type # "retention.events.deleted"
  BY <1>2 DEF CreatedHold
<1> QED
  BY <1>2, <1>3 DEF WritesEntry, s

LEMMA ReleaseApplied ==
  ASSUME NEW r, WellFormed(r), NEW hold_id \in HoldIds, NEW actor \in Actors,
         ReleaseHoldOutcome(r, hold_id) = "released"
  PROVE  WritesEntry(r, AfterReleaseHold(r, hold_id, actor))
<1> DEFINE s == AfterReleaseHold(r, hold_id, actor)
<1>1. s.events = r.events /\ s.previews = r.previews /\ ReleasedHold(r, s, hold_id)
  BY ReleaseHoldPreserves
<1> HIDE DEF s
<1>2. \E entry \in JournalEntry :
        /\ s.governance = Append(r.governance, entry)
        /\ entry.event_type # "retention.events.deleted"
  BY <1>1 DEF ReleasedHold
<1> QED
  BY <1>1, <1>2 DEF WritesEntry, s

LEMMA DeleteApplied ==
  ASSUME NEW r, WellFormed(r), NEW id \in PreviewIds, NEW actor \in Actors,
         NEW blank, NEW t, DeleteOutcome(r, id, actor, blank, t) = "deleted"
  PROVE  UsesPreview(r, AfterDelete(r, id, actor, blank, t), id)
<1> DEFINE s == AfterDelete(r, id, actor, blank, t)
<1>1. WellFormed(s) /\ DeletedBy(r, s, id)
  BY DeletePreserves
<1> HIDE DEF s
<1> QED
  BY <1>1, DeletedIds DEF UsesPreview, s

(* What a method leaves of the state a transaction loaded. *)
LEMMA MethodApplied ==
  ASSUME NEW r, WellFormed(r), NEW q \in Requests, NEW t \in 0..MaxTime,
         call \in [Requests -> Call], attempt \in [Requests -> Attempts],
         Outcome(r, q, t) \notin Raised
  PROVE  Applied(r, After(r, q, t), call[q],
                 EventIdOf[q, attempt[q]], PreviewIdOf[q, attempt[q]])
<1> DEFINE c == call[q]
           e == EventIdOf[q, attempt[q]]
           p == PreviewIdOf[q, attempt[q]]
<1>1. c \in Call /\ e \in EventIds /\ p \in PreviewIds /\ t \in Int /\ t \in Times
  <2>1. <<q, attempt[q]>> \in Requests \X Attempts
    OBVIOUS
  <2>2. e \in EventIds /\ p \in PreviewIds
    BY <2>1, UuidAssumption
  <2>3. t \in Int /\ t \in Times
    BY AttemptAssumption, ClockAssumption
  <2> QED
    BY <2>2, <2>3
<1>2. CASE c.op = "log_event"
  <2> DEFINE event == NewEvent(q, t)
             s == AfterAppend(r, ObjectUid, event)
  <2>1. c.body \in Bodies
    BY <1>1, <1>2 DEF Call
  <2>2. event \in Event /\ event.event_id = e
    BY <1>1, <2>1 DEF NewEvent, Event
  <2>3. AppendOutcome(r, ObjectUid, event) = "accepted"
    BY <1>2 DEF Outcome, Raised, AppendOutcome
  <2>4. After(r, q, t) = s
    BY <1>2 DEF After
  <2> HIDE DEF event
  <2>5. WellFormed(s) /\ GovernedStep(r, s) /\ LogsEvent(r, s, e)
    BY <2>2, <2>3, AppendPreserves, AppendGoverned, AppendApplied
  <2> QED
    BY <1>2, <2>4, <2>5 DEF Applied
<1>3. CASE c.op = "set_policy"
  <2> DEFINE s == AfterSetPolicy(r, c.policy, c.actor)
  <2>1. c.policy \in Policies /\ c.actor \in Actors
    BY <1>1, <1>3 DEF Call
  <2>2. After(r, q, t) = s
    BY <1>3 DEF After
  <2>3. WellFormed(s) /\ GovernedStep(r, s) /\ WritesEntry(r, s)
    BY <2>1, SetPolicyPreserves, SetPolicyGoverned, PolicyApplied
  <2> QED
    BY <1>3, <2>2, <2>3 DEF Applied
<1>4. CASE c.op = "create_preview"
  <2> DEFINE s == AfterCreatePreview(r, p, c.actor, t)
  <2>1. c.actor \in Actors
    BY <1>1, <1>4 DEF Call
  <2>2. After(r, q, t) = s
    BY <1>4 DEF After
  <2>3. WellFormed(s) /\ GovernedStep(r, s) /\ MakesPreview(r, s, p)
    BY <1>1, <2>1, CreatePreviewPreserves, CreatePreviewGoverned, PreviewApplied
  <2> QED
    BY <1>4, <2>2, <2>3 DEF Applied
<1>5. CASE c.op = "delete_preview"
  <2> DEFINE s == AfterDelete(r, c.id, c.actor, c.blank, t)
  <2>1. c.id \in PreviewIds /\ c.actor \in Actors
    BY <1>1, <1>5 DEF Call
  <2>2. After(r, q, t) = s
    BY <1>5 DEF After
  <2>3. DeleteOutcome(r, c.id, c.actor, c.blank, t) = "deleted"
    BY <1>5 DEF Outcome, Raised, DeleteOutcome
  <2>4. WellFormed(s) /\ GovernedStep(r, s) /\ UsesPreview(r, s, c.id)
    BY <2>1, <2>3, DeletePreserves, DeleteGoverned, DeleteApplied
  <2> QED
    BY <1>5, <2>2, <2>4 DEF Applied
<1>6. CASE c.op = "create_hold"
  <2> DEFINE s == AfterCreateHold(r, ObjectUid, c.hold_id, c.event_id, c.actor)
  <2>1. c.hold_id \in HoldIds /\ c.event_id \in HoldTargets /\ c.actor \in Actors
    BY <1>1, <1>6 DEF Call
  <2>2. After(r, q, t) = s
    BY <1>6 DEF After
  <2>3. WellFormed(s) /\ GovernedStep(r, s) /\ WritesEntry(r, s)
    BY <2>1, CreateHoldPreserves, CreateHoldGoverned, HoldApplied
  <2> QED
    BY <1>6, <2>2, <2>3 DEF Applied
<1>7. CASE c.op = "release_hold"
  <2> DEFINE s == AfterReleaseHold(r, c.hold_id, c.actor)
  <2>1. c.hold_id \in HoldIds /\ c.actor \in Actors
    BY <1>1, <1>7 DEF Call
  <2>2. After(r, q, t) = s
    BY <1>7 DEF After
  <2>3. ReleaseHoldOutcome(r, c.hold_id) = "released"
    BY <1>7 DEF Outcome, Raised, ReleaseHoldOutcome
  <2>4. WellFormed(s) /\ GovernedStep(r, s) /\ WritesEntry(r, s)
    BY <2>1, <2>3, ReleaseHoldPreserves, ReleaseHoldGoverned, ReleaseApplied
  <2> QED
    BY <1>7, <2>2, <2>4 DEF Applied
<1>8. c.op \in {"log_event", "set_policy", "create_preview", "delete_preview",
                "create_hold", "release_hold"}
  BY <1>1 DEF Call
<1> QED
  BY <1>2, <1>3, <1>4, <1>5, <1>6, <1>7, <1>8

-----------------------------------------------------------------------------
(* The inductive invariant: types, the annotation well formed, one serial per
   request saved, and a transaction that would commit holds the effect of its
   call on the annotation as it stands. *)

SavedRequests == {q \in Requests : saved[q]}

DrawnEvent(q) == EventIdOf[q, attempt[q]]
DrawnPreview(q) == PreviewIdOf[q, attempt[q]]

Executed(q) ==
  /\ txn[q] \in [read : 0..serial, copy : Repository]
  /\ Unchanged(q) =>
       Applied(store, txn[q].copy, call[q], DrawnEvent(q), DrawnPreview(q))

TInv ==
  /\ WellFormed(store)
  /\ serial = Cardinality(SavedRequests)
  /\ call \in Workloads
  /\ status \in [Requests -> Statuses]
  /\ attempt \in [Requests -> Attempts]
  /\ txn \in [Requests -> [read : 0..serial, copy : Repository] \cup {None}]
  /\ saved \in [Requests -> BOOLEAN]
  /\ now \in 0..MaxTime
  /\ \A q \in Requests : status[q] = "executed" => Executed(q)
  /\ \A q \in Requests :
       saved[q] => status[q] \in {"committed", "answered", "lost"}

LEMMA SavedCount ==
  /\ IsFiniteSet(SavedRequests)
  /\ Cardinality(SavedRequests) \in 0..Cardinality(Requests)
  /\ Cardinality(Requests) \in Nat
<1>1. SavedRequests \in SUBSET Requests
  BY DEF SavedRequests
<1> QED
  BY <1>1, RequestsAssumption, FS_Subset, FS_CardinalityType

LEMMA InitTyped == Init => TInv
<1> SUFFICES ASSUME Init PROVE TInv
  OBVIOUS
<1>1. SavedRequests = {}
  BY DEF Init, SavedRequests
<1>2. serial = Cardinality(SavedRequests)
  BY <1>1, FS_EmptySet DEF Init
<1>3. /\ attempt \in [Requests -> Attempts] /\ now \in 0..MaxTime
  BY AttemptAssumption DEF Init, Attempts
<1>4. WellFormed(store)
  BY StoreAssumption DEF Init
<1> QED
  BY <1>2, <1>3, <1>4 DEF Init, TInv, Statuses

(* What a commit does. *)
LEMMA CommitApplies ==
  ASSUME TInv, NEW q \in Requests, Commit(q)
  PROVE  /\ Applied(store, store', call[q], DrawnEvent(q), DrawnPreview(q))
         /\ ~saved[q]
         /\ saved' = [saved EXCEPT ![q] = TRUE]
         /\ SavedRequests' = SavedRequests \cup {q}
         /\ serial' = serial + 1
         /\ serial \in Nat /\ serial' \in 0..Cardinality(Requests)
         /\ UNCHANGED <<call, attempt>>
<1>1. /\ status[q] = "executed" /\ Executed(q) /\ Unchanged(q)
      /\ store' = txn[q].copy
      /\ saved' = [saved EXCEPT ![q] = TRUE]
      /\ serial' = serial + 1
      /\ UNCHANGED <<call, attempt>>
  BY DEF Commit, TInv
<1>2. Applied(store, store', call[q], DrawnEvent(q), DrawnPreview(q))
  BY <1>1 DEF Executed
<1>3. ~saved[q]
  BY <1>1 DEF TInv
<1>4. SavedRequests' = SavedRequests \cup {q}
  BY <1>1 DEF SavedRequests, TInv
<1>5. q \notin SavedRequests
  BY <1>3 DEF SavedRequests
<1>6. Cardinality(SavedRequests') = Cardinality(SavedRequests) + 1
  BY <1>4, <1>5, SavedCount, FS_AddElement
<1>7. /\ IsFiniteSet(Requests)
      /\ SavedRequests' \in SUBSET Requests
  BY <1>4, RequestsAssumption DEF SavedRequests
<1>8. Cardinality(SavedRequests') <= Cardinality(Requests)
  BY <1>7, FS_Subset
<1>9. serial \in Nat /\ serial' \in 0..Cardinality(Requests)
  BY <1>1, <1>6, <1>8, SavedCount DEF TInv
<1> QED
  BY <1>1, <1>2, <1>3, <1>4, <1>9

LEMMA StepTyped == TInv /\ [Next]_vars => TInv'
<1> SUFFICES ASSUME TInv, [Next]_vars PROVE TInv'
  OBVIOUS
<1>0. serial \in Nat
  BY SavedCount DEF TInv
<1>1. ASSUME NEW q \in Requests, Execute(q) PROVE TInv'
  <2>1. Applied(store, After(store, q, now), call[q], DrawnEvent(q), DrawnPreview(q))
    BY <1>1, MethodApplied, WorkloadAssumption DEF TInv, Execute, DrawnEvent, DrawnPreview
  <2>2. After(store, q, now) \in Repository
    BY <2>1 DEF Applied, WellFormed
  <2> DEFINE s == After(store, q, now)
             t == [read |-> serial, copy |-> s]
  <2>3. t \in [read : 0..serial, copy : Repository] /\ t.copy = s
    BY <1>0, <2>2
  <2>4. /\ UNCHANGED <<store, serial, call, attempt, saved, now>>
        /\ txn' = [txn EXCEPT ![q] = t]
        /\ status' = [status EXCEPT ![q] = "executed"]
        /\ status[q] = "waiting"
    BY <1>1 DEF Execute
  <2> HIDE DEF t, s
  <2>5. /\ txn'[q] = t
        /\ \A p \in Requests : p # q => txn'[p] = txn[p] /\ status'[p] = status[p]
    BY <2>4 DEF TInv
  <2>6. Executed(q)'
    BY <2>1, <2>3, <2>4, <2>5 DEF Executed, DrawnEvent, DrawnPreview, s
  <2>7. \A p \in Requests : status'[p] = "executed" => Executed(p)'
    <3> SUFFICES ASSUME NEW p \in Requests, p # q, status'[p] = "executed"
                 PROVE  Executed(p)'
      BY <2>6
    <3>1. Executed(p) /\ txn'[p] = txn[p]
      BY <2>5 DEF TInv
    <3> QED
      BY <2>4, <3>1 DEF Executed, Unchanged, DrawnEvent, DrawnPreview
  <2>8. txn' \in [Requests -> [read : 0..serial, copy : Repository] \cup {None}]
    BY <2>3, <2>4 DEF TInv
  <2> QED
    BY <2>4, <2>7, <2>8 DEF TInv, Statuses, SavedRequests
<1>2. ASSUME NEW q \in Requests, Commit(q) PROVE TInv'
  <2>1. /\ WellFormed(store')
        /\ saved' = [saved EXCEPT ![q] = TRUE]
        /\ serial' = serial + 1
        /\ SavedRequests' = SavedRequests \cup {q} /\ q \notin SavedRequests
    BY <1>2, CommitApplies DEF Applied, SavedRequests
  <2>2. serial' = Cardinality(SavedRequests)'
    BY <2>1, SavedCount, FS_AddElement DEF TInv
  <2>3. /\ UNCHANGED <<call, attempt, now>>
        /\ txn' = [txn EXCEPT ![q] = None]
        /\ status' = [status EXCEPT ![q] = "committed"]
    BY <1>2 DEF Commit
  <2>4. txn' \in [Requests -> [read : 0..serial', copy : Repository] \cup {None}]
    <3>1. 0..serial \subseteq 0..serial'
      BY <1>0, <2>1
    <3>2. txn \in [Requests -> [read : 0..serial', copy : Repository] \cup {None}]
      BY <3>1 DEF TInv
    <3> QED
      BY <2>3, <3>2
  <2>5. ASSUME NEW p \in Requests, status'[p] = "executed" PROVE Executed(p)'
    <3>1. p # q /\ status[p] = "executed" /\ txn'[p] = txn[p]
      BY <2>3, <2>5 DEF TInv
    <3>2. txn[p] \in [read : 0..serial, copy : Repository]
      BY <3>1 DEF TInv, Executed
    <3>3. txn'[p].read # serial' /\ txn'[p] \in [read : 0..serial', copy : Repository]
      <4>1. txn[p].read \in 0..serial /\ txn[p].copy \in Repository
        BY <3>2
      <4>2. txn[p].read \in 0..serial' /\ txn[p].read # serial'
        BY <1>0, <2>1, <4>1
      <4>3. txn[p] \in [read : 0..serial', copy : Repository]
        BY <3>2, <4>1, <4>2
      <4> QED
        BY <3>1, <4>2, <4>3
    <3> QED
      BY <3>3 DEF Executed, Unchanged
  <2> QED
    BY <2>1, <2>2, <2>3, <2>4, <2>5 DEF TInv, Statuses
<1>3. ASSUME NEW q \in Requests, UNCHANGED <<store, serial, call, saved, now>>,
             txn' = [txn EXCEPT ![q] = None] \/ txn' = txn,
             status' \in [Requests -> Statuses], attempt' \in [Requests -> Attempts],
             status'[q] # "executed",
             saved[q] => status'[q] \in {"committed", "answered", "lost"},
             \A p \in Requests : p # q => /\ status'[p] = status[p]
                                          /\ attempt'[p] = attempt[p]
      PROVE  TInv'
  <2>1. txn' \in [Requests -> [read : 0..serial, copy : Repository] \cup {None}]
    BY <1>3 DEF TInv
  <2>2. ASSUME NEW p \in Requests, status'[p] = "executed" PROVE Executed(p)'
    <3>1. p # q /\ Executed(p) /\ txn'[p] = txn[p] /\ attempt'[p] = attempt[p]
      BY <1>3, <2>2 DEF TInv
    <3> QED
      BY <1>3, <3>1 DEF Executed, Unchanged, DrawnEvent, DrawnPreview
  <2>3. \A p \in Requests :
          saved'[p] => status'[p] \in {"committed", "answered", "lost"}
    BY <1>3 DEF TInv
  <2> QED
    BY <1>3, <2>1, <2>2, <2>3 DEF TInv, SavedRequests
<1>4. ASSUME NEW q \in Requests, Refuse(q) PROVE TInv'
  BY <1>3, <1>4 DEF Refuse, TInv, Statuses
<1>5. ASSUME NEW q \in Requests, Conflict(q) PROVE TInv'
  <2>1. /\ status[q] = "executed" /\ ~saved[q]
        /\ txn' = [txn EXCEPT ![q] = None]
        /\ UNCHANGED <<store, serial, call, saved, now>>
    BY <1>5 DEF Conflict, TInv
  <2>2. /\ status' = [status EXCEPT ![q] = "waiting"]
           \/ status' = [status EXCEPT ![q] = "conflict"]
        /\ attempt' \in [Requests -> Attempts]
        /\ \A p \in Requests : p # q => attempt'[p] = attempt[p]
    <3>1. CASE attempt[q] < MaxAttempts /\ attempt' = [attempt EXCEPT ![q] = @ + 1]
      BY <1>5, <3>1, AttemptAssumption DEF Conflict, TInv, Attempts
    <3>2. CASE attempt' = attempt
      BY <1>5, <3>2 DEF Conflict, TInv
    <3> QED
      BY <1>5, <3>1, <3>2 DEF Conflict
  <2> QED
    BY <1>3, <2>1, <2>2 DEF TInv, Statuses
<1>6. ASSUME NEW q \in Requests, Answer(q) PROVE TInv'
  BY <1>3, <1>6 DEF Answer, TInv, Statuses
<1>7. ASSUME NEW q \in Requests, Crash(q) PROVE TInv'
  BY <1>3, <1>7 DEF Crash, TInv, Statuses
<1>8. ASSUME UNCHANGED <<store, serial, call, status, attempt, txn, saved>>,
             now' \in 0..MaxTime
      PROVE  TInv'
  BY <1>8 DEF TInv, Executed, Unchanged, DrawnEvent, DrawnPreview, SavedRequests
<1>9. CASE Tick
  BY <1>8, <1>9, AttemptAssumption DEF Tick, TInv
<1>10. CASE UNCHANGED vars
  BY <1>8, <1>10 DEF vars, TInv
<1> QED
  BY <1>1, <1>2, <1>4, <1>5, <1>6, <1>7, <1>9, <1>10 DEF Next, Serve

THEOREM TypedAlways == Spec => []TInv
BY InitTyped, StepTyped, PTL DEF Spec

(* The annotation, the running transactions and the clock keep their types,
   and no more transactions are committed than requests were made. *)
THEOREM ZODBTypeCorrect == Spec => []TypeOK
<1>1. TInv => TypeOK
  BY SavedCount DEF TInv, TypeOK, WellFormed
<1> QED
  BY <1>1, TypedAlways, PTL

(* However requests interleave, conflict, retry and die, what is committed is
   a chain verify() accepts, numbered by place. *)
THEOREM StoredChainAlwaysIntact == Spec => []StoredChainIntact
<1>1. TInv => StoredChainIntact
  <2> SUFFICES ASSUME TInv PROVE StoredChainIntact
    OBVIOUS
  <2> DEFINE log == Logged(store.events)
  <2>1. /\ store.events = Chain(log) /\ log \in Seq(Event)
        /\ Len(log) = Len(store.events)
    BY LoggedProperties DEF TInv, WellFormed, Repository
  <2> HIDE DEF log
  <2> QED
    BY <2>1, ChainProperties DEF StoredChainIntact
<1> QED
  BY <1>1, TypedAlways, PTL

-----------------------------------------------------------------------------
(* Conflicts mean progress.  Inductive with the serial a running attempt has
   read: it was not lower than the number of attempts already lost. *)

Others(q) == serial - (IF saved[q] THEN 1 ELSE 0)

Progress ==
  \A q \in Requests :
    /\ attempt[q] - 1 <= Others(q)
    /\ status[q] = "executed" => attempt[q] - 1 <= txn[q].read
    /\ status[q] = "conflict" => MaxAttempts <= Others(q)

LEMMA InitProgress == Init => Progress
BY DEF Init, Progress, Others

LEMMA StepProgress ==
  ASSUME TInv, Progress, [Next]_vars PROVE Progress'
<1>0. /\ serial \in Nat /\ MaxAttempts \in Nat
      /\ \A q \in Requests : attempt[q] \in Nat
      /\ \A q \in Requests : saved[q] \in BOOLEAN
  BY SavedCount, AttemptAssumption DEF TInv, Attempts
<1>1. ASSUME NEW q \in Requests, Execute(q) PROVE Progress'
  <2>1. /\ status[q] = "waiting"
        /\ status' = [status EXCEPT ![q] = "executed"]
        /\ txn' = [txn EXCEPT ![q] = [read |-> serial, copy |-> After(store, q, now)]]
        /\ UNCHANGED <<serial, attempt, saved>>
    BY <1>1 DEF Execute
  <2>2. ~saved[q]
    BY <2>1 DEF TInv
  <2>3. txn'[q].read = serial
    BY <2>1 DEF TInv
  <2>4. attempt[q] - 1 <= serial
    BY <1>0, <2>2 DEF Progress, Others
  <2>5. ASSUME NEW p \in Requests
        PROVE  /\ attempt[p] - 1 <= Others(p)
               /\ status'[p] = "executed" => attempt[p] - 1 <= txn'[p].read
               /\ status'[p] = "conflict" => MaxAttempts <= Others(p)
    <3>1. CASE p = q
      BY <2>1, <2>3, <2>4, <3>1 DEF Progress, TInv
    <3>2. CASE p # q
      BY <2>1, <3>2 DEF Progress, TInv
    <3> QED
      BY <3>1, <3>2
  <2> QED
    BY <2>1, <2>5 DEF Progress, Others
<1>2. ASSUME NEW q \in Requests, Commit(q) PROVE Progress'
  <2>1. /\ ~saved[q] /\ serial' = serial + 1
        /\ saved' = [saved EXCEPT ![q] = TRUE]
        /\ UNCHANGED attempt
        /\ status[q] = "executed" /\ txn[q].read = serial
        /\ status' = [status EXCEPT ![q] = "committed"]
        /\ txn' = [txn EXCEPT ![q] = None]
    BY <1>2, CommitApplies DEF Commit, Unchanged
  <2>2. attempt[q] - 1 <= serial
    BY <2>1 DEF Progress
  <2>3. Others(q)' = serial
    BY <1>0, <2>1 DEF Others, TInv
  <2>4. ASSUME NEW p \in Requests, p # q
        PROVE  /\ Others(p)' = Others(p) + 1 /\ Others(p) \in Int
               /\ status'[p] = status[p] /\ txn'[p] = txn[p]
    BY <1>0, <2>1, <2>4 DEF Others, TInv
  <2>5. ASSUME NEW p \in Requests
        PROVE  /\ attempt[p] - 1 <= Others(p)'
               /\ status'[p] = "executed" => attempt[p] - 1 <= txn'[p].read
               /\ status'[p] = "conflict" => MaxAttempts <= Others(p)'
    <3>1. CASE p = q
      BY <2>1, <2>2, <2>3, <3>1 DEF TInv
    <3>2. CASE p # q
      <4>1. /\ attempt[p] - 1 <= Others(p)
            /\ status[p] = "executed" => attempt[p] - 1 <= txn[p].read
            /\ status[p] = "conflict" => MaxAttempts <= Others(p)
        BY DEF Progress
      <4> QED
        BY <1>0, <2>4, <3>2, <4>1
    <3> QED
      BY <3>1, <3>2
  <2> QED
    BY <2>1, <2>5 DEF Progress
<1>3. ASSUME NEW q \in Requests, Conflict(q) PROVE Progress'
  <2>1. /\ status[q] = "executed" /\ ~saved[q] /\ txn[q].read # serial
        /\ UNCHANGED <<serial, saved>>
        /\ \A p \in Requests : p # q => txn'[p] = txn[p]
    BY <1>3 DEF Conflict, TInv, Unchanged
  <2>2. txn[q].read \in 0..serial /\ attempt[q] - 1 <= txn[q].read
    BY <2>1 DEF TInv, Executed, Progress
  <2>3. attempt[q] <= serial
    BY <1>0, <2>1, <2>2
  <2>4. Others(q)' = serial /\ \A p \in Requests : Others(p)' = Others(p)
    BY <1>0, <2>1 DEF Others
  <2>5. /\ attempt'[q] - 1 <= serial
        /\ status'[q] # "executed"
        /\ status'[q] = "conflict" => MaxAttempts <= serial
        /\ \A p \in Requests : p # q => /\ attempt'[p] = attempt[p]
                                        /\ status'[p] = status[p]
    <3>1. CASE /\ attempt' = [attempt EXCEPT ![q] = @ + 1]
               /\ status' = [status EXCEPT ![q] = "waiting"]
      BY <1>0, <2>3, <3>1 DEF TInv
    <3>2. CASE /\ attempt[q] = MaxAttempts /\ attempt' = attempt
               /\ status' = [status EXCEPT ![q] = "conflict"]
      BY <1>0, <2>3, <3>2 DEF TInv
    <3> QED
      BY <1>3, <3>1, <3>2 DEF Conflict
  <2>6. ASSUME NEW p \in Requests
        PROVE  /\ attempt'[p] - 1 <= Others(p)'
               /\ status'[p] = "executed" => attempt'[p] - 1 <= txn'[p].read
               /\ status'[p] = "conflict" => MaxAttempts <= Others(p)'
    <3>1. CASE p = q
      BY <2>4, <2>5, <3>1
    <3>2. CASE p # q
      BY <2>1, <2>4, <2>5, <3>2 DEF Progress
    <3> QED
      BY <3>1, <3>2
  <2> QED
    BY <2>6 DEF Progress
<1>4. ASSUME NEW q \in Requests, UNCHANGED <<serial, attempt, saved>>,
             status' = [status EXCEPT ![q] = status'[q]],
             status'[q] \notin {"executed", "conflict"},
             \A p \in Requests : p # q => txn'[p] = txn[p]
      PROVE  Progress'
  <2>1. \A p \in Requests : p # q => status'[p] = status[p]
    BY <1>4 DEF TInv
  <2>2. \A p \in Requests : Others(p)' = Others(p)
    BY <1>4 DEF Others
  <2> QED
    BY <1>4, <2>1, <2>2 DEF Progress
<1>5. ASSUME NEW q \in Requests, Refuse(q) PROVE Progress'
  BY <1>4, <1>5 DEF Refuse, TInv
<1>6. ASSUME NEW q \in Requests, Answer(q) PROVE Progress'
  BY <1>4, <1>6 DEF Answer, TInv
<1>7. ASSUME NEW q \in Requests, Crash(q) PROVE Progress'
  BY <1>4, <1>7 DEF Crash, TInv
<1>8. CASE Tick \/ UNCHANGED vars
  BY <1>8 DEF Tick, vars, Progress, Others
<1> QED
  BY <1>1, <1>2, <1>3, <1>5, <1>6, <1>7, <1>8 DEF Next, Serve

(* A request that was executed again n times, or gave up, lost to as many
   commits of other requests: conflicts cannot starve everyone. *)
THEOREM ConflictAlwaysMeansProgress == Spec => []ConflictMeansProgress
<1>1. TInv /\ Progress /\ [Next]_vars => Progress'
  BY StepProgress
<1>2. Progress => ConflictMeansProgress
  BY DEF Progress, Others, ConflictMeansProgress
<1> QED
  BY <1>1, <1>2, InitProgress, TypedAlways, PTL DEF Spec

-----------------------------------------------------------------------------
(* The other invariants change with a commit only. *)

LEMMA OnlyCommits ==
  ASSUME TInv, [Next]_vars
  PROVE  \/ \E q \in Requests : Commit(q)
         \/ /\ UNCHANGED <<store, saved, call>>
            /\ \A q \in Requests : saved[q] => attempt'[q] = attempt[q]
<1>1. ASSUME NEW q \in Requests, Serve(q) \/ Crash(q), ~Commit(q)
      PROVE  /\ UNCHANGED <<store, saved, call>>
             /\ \A p \in Requests : saved[p] => attempt'[p] = attempt[p]
  <2>1. CASE Conflict(q)
    BY <2>1 DEF Conflict, TInv
  <2>2. CASE ~Conflict(q)
    BY <1>1, <2>2 DEF Serve, Execute, Refuse, Answer, Crash
  <2> QED
    BY <2>1, <2>2
<1> QED
  BY <1>1 DEF Next, Tick, vars

(* One journal entry per committed call that writes the journal. *)
JournaledBy == {q \in Requests : saved[q] /\ call[q].op \in Journaling}

LEMMA JournaledCount ==
  /\ IsFiniteSet(JournaledBy)
  /\ Cardinality(JournaledBy) \in Nat
<1>1. JournaledBy \in SUBSET Requests
  BY DEF JournaledBy
<1> QED
  BY <1>1, RequestsAssumption, FS_Subset, FS_CardinalityType

LEMMA StepJournaled ==
  ASSUME TInv, JournaledExactlyOnce, [Next]_vars PROVE JournaledExactlyOnce'
<1>0. /\ Len(store.governance) = Len(InitialStore.governance) + Cardinality(JournaledBy)
      /\ store.governance \in Seq(JournalEntry)
      /\ Len(InitialStore.governance) \in Nat
  BY StoreAssumption, LenProperties
     DEF TInv, WellFormed, Repository, JournaledExactlyOnce, JournaledBy
<1>1. CASE UNCHANGED <<store, saved, call>>
  BY <1>1 DEF JournaledExactlyOnce
<1>2. ASSUME NEW q \in Requests, Commit(q)
      PROVE  Len(store'.governance)
               = Len(InitialStore.governance) + Cardinality(JournaledBy')
  <2>1. /\ Applied(store, store', call[q], DrawnEvent(q), DrawnPreview(q))
        /\ q \notin JournaledBy
        /\ JournaledBy' = IF call[q].op \in Journaling
                          THEN JournaledBy \cup {q} ELSE JournaledBy
    BY <1>2, CommitApplies DEF JournaledBy, TInv
  <2>2. CASE call[q].op \in Journaling
    <3>1. \E entry \in JournalEntry :
            store'.governance = Append(store.governance, entry)
      BY <2>1, <2>2 DEF Applied, Journaling, WritesEntry, UsesPreview, DeletedBy
    <3>2. Len(store'.governance) = Len(store.governance) + 1
      BY <1>0, <3>1, AppendedEntry
    <3>3. Cardinality(JournaledBy') = Cardinality(JournaledBy) + 1
      BY <2>1, <2>2, JournaledCount, FS_AddElement
    <3> QED
      BY <1>0, <3>2, <3>3, JournaledCount
  <2>3. CASE call[q].op \notin Journaling
    <3>1. store'.governance = store.governance
      BY <2>1, <2>3 DEF Applied, Journaling, LogsEvent, MakesPreview
    <3> QED
      BY <1>0, <2>1, <2>3, <3>1
  <2> QED
    BY <2>2, <2>3
<1> QED
  BY <1>1, <1>2, OnlyCommits DEF JournaledExactlyOnce, JournaledBy

(* However often requests are executed again, the journal has one entry per
   committed call that writes it and none for the others. *)
THEOREM JournaledAlwaysExactlyOnce == Spec => []JournaledExactlyOnce
<1>1. Init => JournaledExactlyOnce
  <2> SUFFICES ASSUME Init PROVE JournaledExactlyOnce
    OBVIOUS
  <2>1. JournaledBy = {} /\ store = InitialStore
    BY DEF Init, JournaledBy
  <2>2. Len(InitialStore.governance) \in Nat
    BY StoreAssumption, LenProperties DEF WellFormed, Repository
  <2>3. Cardinality(JournaledBy) = 0
    BY <2>1, FS_EmptySet
  <2> QED
    BY <2>1, <2>2, <2>3 DEF JournaledExactlyOnce, JournaledBy
<1>2. TInv /\ JournaledExactlyOnce /\ [Next]_vars => JournaledExactlyOnce'
  BY StepJournaled
<1> QED
  BY <1>1, <1>2, TypedAlways, PTL DEF Spec

-----------------------------------------------------------------------------
(* One confirmation per preview.  A preview a request drew is open only after
   that request was committed; once a committed deletion has used it, it is
   closed and whoever drew it has been committed, so nobody opens it again. *)

Deleter(q, p) == saved[q] /\ call[q].op = "delete_preview" /\ call[q].id = p

ConfirmedAt(p) ==
  /\ store.previews[p] # None =>
       \A r \in Requests, n \in Attempts : PreviewIdOf[r, n] = p => saved[r]
  /\ \A q \in Requests : Deleter(q, p) =>
       /\ store.previews[p] = None
       /\ \A r \in Requests, n \in Attempts : PreviewIdOf[r, n] = p => saved[r]
  /\ \A q, r \in Requests : Deleter(q, p) /\ Deleter(r, p) => q = r

Confirmations == \A p \in PreviewIds : ConfirmedAt(p)

LEMMA InitConfirmations == Init => Confirmations
<1> SUFFICES ASSUME Init PROVE Confirmations
  OBVIOUS
<1>1. ASSUME NEW r \in Requests, NEW n \in Attempts
      PROVE  store.previews[PreviewIdOf[r, n]] = None
  <2>1. <<r, n>> \in Requests \X Attempts
    OBVIOUS
  <2> QED
    BY <2>1, UuidAssumption DEF Init
<1>2. \A q \in Requests : ~saved[q]
  BY DEF Init
<1> QED
  BY <1>1, <1>2 DEF Confirmations, ConfirmedAt, Deleter

LEMMA StepConfirmations ==
  ASSUME TInv, Confirmations, [Next]_vars PROVE Confirmations'
<1>1. CASE UNCHANGED <<store, saved, call>>
  <2>1. store' = store /\ saved' = saved /\ call' = call
    BY <1>1
  <2>2. \A q, p : Deleter(q, p)' <=> Deleter(q, p)
    BY <2>1 DEF Deleter
  <2>3. ASSUME NEW p \in PreviewIds PROVE ConfirmedAt(p)'
    <3>1. ConfirmedAt(p)
      BY DEF Confirmations
    <3> QED
      BY <2>1, <2>2, <3>1 DEF ConfirmedAt
  <2> QED
    BY <2>3 DEF Confirmations
<1>2. ASSUME NEW q \in Requests, Commit(q) PROVE Confirmations'
  <2> DEFINE c == call[q]
             drawn == DrawnPreview(q)
  <2>1. /\ Applied(store, store', c, DrawnEvent(q), drawn)
        /\ ~saved[q] /\ saved' = [saved EXCEPT ![q] = TRUE]
        /\ call' = call
    BY <1>2, CommitApplies
  <2>2. \A r \in Requests : saved'[r] <=> saved[r] \/ r = q
    BY <2>1 DEF TInv
  <2>3. store.previews \in [PreviewIds -> Preview \cup {None}]
    BY DEF TInv, WellFormed, Repository
  <2>4. CASE c.op \in {"log_event", "set_policy", "create_hold", "release_hold"}
    <3>1. store'.previews = store.previews
      BY <2>1, <2>4 DEF Applied, LogsEvent, WritesEntry
    <3>2. \A r \in Requests, p \in PreviewIds : Deleter(r, p)' <=> Deleter(r, p)
      BY <2>1, <2>2, <2>4 DEF Deleter
    <3> QED
      BY <2>2, <3>1, <3>2 DEF Confirmations, ConfirmedAt
  <2>5. CASE c.op = "create_preview"
    <3>1. /\ drawn \in PreviewIds
          /\ \A r \in Requests, n \in Attempts : PreviewIdOf[r, n] = drawn => r = q
      <4>1. <<q, attempt[q]>> \in Requests \X Attempts
        BY DEF TInv
      <4>2. \A r \in Requests, n \in Attempts :
              /\ <<r, n>> \in Requests \X Attempts
              /\ <<r, n>> = <<q, attempt[q]>> => r = q
        OBVIOUS
      <4> QED
        BY <4>1, <4>2, UuidAssumption DEF DrawnPreview
    <3>2. \A p \in PreviewIds : p # drawn => store'.previews[p] = store.previews[p]
      BY <2>1, <2>3, <2>5 DEF Applied, MakesPreview
    <3>3. \A r \in Requests, p \in PreviewIds : Deleter(r, p)' <=> Deleter(r, p)
      BY <2>1, <2>2, <2>5 DEF Deleter
    <3>4. \A r \in Requests : ~Deleter(r, drawn)
      <4>1. PreviewIdOf[q, attempt[q]] = drawn /\ attempt[q] \in Attempts
        BY DEF DrawnPreview, TInv
      <4> QED
        BY <2>1, <3>1, <4>1 DEF Confirmations, ConfirmedAt
    <3> HIDE DEF drawn, c
    <3>5. ASSUME NEW p \in PreviewIds PROVE ConfirmedAt(p)'
      <4>1. ConfirmedAt(p)
        BY DEF Confirmations
      <4>2. CASE p = drawn
        BY <2>2, <3>1, <3>3, <3>4, <4>2 DEF ConfirmedAt
      <4>3. CASE p # drawn
        BY <2>2, <3>2, <3>3, <4>1, <4>3 DEF ConfirmedAt
      <4> QED
        BY <4>2, <4>3
    <3> QED
      BY <3>5 DEF Confirmations
  <2>6. CASE c.op = "delete_preview"
    <3>1. /\ store.previews[c.id] # None /\ c.id \in PreviewIds
          /\ store'.previews = [store.previews EXCEPT ![c.id] = None]
      <4>1. c \in Call
        BY WorkloadAssumption DEF TInv
      <4>2. c.id \in PreviewIds
        BY <2>6, <4>1 DEF Call
      <4> QED
        BY <2>1, <2>6, <4>2 DEF Applied, UsesPreview, DeletedBy
    <3>2. /\ store'.previews[c.id] = None
          /\ \A p \in PreviewIds : p # c.id => store'.previews[p] = store.previews[p]
      BY <2>3, <3>1
    <3>3. \A r \in Requests : ~Deleter(r, c.id)
      BY <3>1 DEF Confirmations, ConfirmedAt
    <3>4. \A r \in Requests, p \in PreviewIds :
            Deleter(r, p)' <=> Deleter(r, p) \/ (r = q /\ p = c.id)
      BY <2>1, <2>2, <2>6 DEF Deleter
    <3>5. \A r \in Requests, n \in Attempts : PreviewIdOf[r, n] = c.id => saved[r]
      BY <3>1 DEF Confirmations, ConfirmedAt
    <3> HIDE DEF c
    <3>6. ASSUME NEW p \in PreviewIds PROVE ConfirmedAt(p)'
      <4>1. ConfirmedAt(p)
        BY DEF Confirmations
      <4>2. CASE p = c.id
        BY <2>2, <3>2, <3>3, <3>4, <3>5, <4>2 DEF ConfirmedAt
      <4>3. CASE p # c.id
        BY <2>2, <3>2, <3>4, <4>1, <4>3 DEF ConfirmedAt
      <4> QED
        BY <4>2, <4>3
    <3> QED
      BY <3>6 DEF Confirmations
  <2>7. c.op \in {"log_event", "set_policy", "create_preview", "delete_preview",
                  "create_hold", "release_hold"}
    BY WorkloadAssumption DEF TInv, Call
  <2> QED
    BY <2>4, <2>5, <2>6, <2>7
<1> QED
  BY <1>1, <1>2, OnlyCommits

(* Two requests that confirm the same preview delete once, whatever attempts
   and conflicts they go through. *)
THEOREM ConfirmedAlwaysOnce == Spec => []ConfirmedOnce
<1>1. TInv /\ Confirmations /\ [Next]_vars => Confirmations'
  BY StepConfirmations
<1>2. Confirmations => ConfirmedOnce
  <2> SUFFICES ASSUME Confirmations, NEW p \in PreviewIds
               PROVE  Cardinality({q \in Requests : Deleter(q, p)}) <= 1
    BY DEF ConfirmedOnce, Deleter
  <2> DEFINE D == {q \in Requests : Deleter(q, p)}
  <2>1. \A q, r \in D : q = r
    BY DEF Confirmations, ConfirmedAt
  <2> HIDE DEF D
  <2>2. CASE D = {}
    BY <2>2, FS_EmptySet DEF D
  <2>3. CASE D # {}
    <3>1. PICK q \in D : TRUE
      BY <2>3
    <3>2. D = {q}
      BY <2>1, <3>1
    <3>3. Cardinality(D) = 1
      BY <3>2, FS_Singleton
    <3> QED
      BY <3>3 DEF D
  <2> QED
    BY <2>2, <2>3
<1> QED
  BY <1>1, <1>2, InitConfirmations, TypedAlways, PTL DEF Spec

-----------------------------------------------------------------------------
(* What the annotation knows of an event after a call. *)

(* The ids that deletions of the repository named. *)
DeletedEvents(r) == UNION {r.governance[i].selection : i \in Deletions(r)}

OfferedEvents(r) == UNION {r.previews[p].event_ids : p \in OpenPreviews(r)}

LEMMA DeletedEventsAppended ==
  ASSUME NEW r, WellFormed(r), NEW s, NEW entry \in JournalEntry,
         s.governance = Append(r.governance, entry)
  PROVE  DeletedEvents(s) =
           IF entry.event_type = "retention.events.deleted"
           THEN DeletedEvents(r) \cup entry.selection ELSE DeletedEvents(r)
<1> DEFINE g == r.governance
           n == Len(g)
<1>1. g \in Seq(JournalEntry)
  BY DEF WellFormed, Repository
<1>2. /\ s.governance[n + 1] = entry /\ n \in Nat
      /\ \A i \in 1..n : s.governance[i] = g[i]
  BY <1>1, AppendedEntry
<1>3. Deletions(r) \subseteq 1..n
  BY DEF Deletions
<1>4. Deletions(s) = IF entry.event_type = "retention.events.deleted"
                     THEN Deletions(r) \cup {n + 1} ELSE Deletions(r)
  BY <1>1, DeletionsAppended
<1>5. \A i \in Deletions(r) : s.governance[i].selection = r.governance[i].selection
  BY <1>2, <1>3
<1> HIDE DEF g, n
<1>6. CASE entry.event_type = "retention.events.deleted"
  <2>1. \A i : i \in Deletions(s) <=> i \in Deletions(r) \/ i = n + 1
    BY <1>4, <1>6
  <2>2. \A x : x \in DeletedEvents(s) <=>
                 \E i \in Deletions(s) : x \in s.governance[i].selection
    BY DEF DeletedEvents
  <2>3. \A x : x \in DeletedEvents(r) <=>
                 \E i \in Deletions(r) : x \in r.governance[i].selection
    BY DEF DeletedEvents
  <2>4. \A x : x \in DeletedEvents(s) <=>
                 x \in DeletedEvents(r) \/ x \in entry.selection
    BY <1>2, <1>5, <2>1, <2>2, <2>3
  <2> QED
    BY <1>6, <2>4
<1>7. CASE entry.event_type # "retention.events.deleted"
  BY <1>4, <1>5, <1>7 DEF DeletedEvents
<1> QED
  BY <1>6, <1>7

(* What the annotation knows after a call, and which events it names deleted. *)
LEMMA KnownAfter ==
  ASSUME NEW r, WellFormed(r), NEW s, NEW c, NEW e, NEW p \in PreviewIds,
         c.op = "delete_preview" => c.id \in PreviewIds,
         Applied(r, s, c, e, p)
  PROVE  /\ KnownIds(s) \subseteq
              KnownIds(r) \cup (IF c.op = "log_event" THEN {e} ELSE {})
         /\ c.op = "log_event" =>
              /\ Ids(s.events) = Ids(r.events) \cup {e}
              /\ DeletedEvents(s) = DeletedEvents(r)
         /\ c.op # "log_event" =>
              \E selection :
                /\ Ids(s.events) = Ids(r.events) \ selection
                /\ DeletedEvents(s) = DeletedEvents(r) \cup selection
<1>0. /\ r.previews \in [PreviewIds -> Preview \cup {None}]
      /\ KnownIds(r) = Ids(r.events) \cup OfferedEvents(r) \cup DeletedEvents(r)
      /\ KnownIds(s) = Ids(s.events) \cup OfferedEvents(s) \cup DeletedEvents(s)
  BY DEF WellFormed, Repository, KnownIds, OfferedEvents, DeletedEvents
<1>1. CASE c.op = "log_event"
  <2>1. LogsEvent(r, s, e)
    BY <1>1 DEF Applied
  <2>2. OfferedEvents(s) = OfferedEvents(r) /\ DeletedEvents(s) = DeletedEvents(r)
    BY <2>1 DEF LogsEvent, OfferedEvents, OpenPreviews, DeletedEvents, Deletions
  <2> QED
    BY <1>0, <1>1, <2>1, <2>2 DEF LogsEvent
<1>2. CASE c.op \in {"set_policy", "create_hold", "release_hold"}
  <2>1. WritesEntry(r, s)
    BY <1>2 DEF Applied
  <2>2. PICK entry \in JournalEntry :
          /\ s.governance = Append(r.governance, entry)
          /\ entry.event_type # "retention.events.deleted"
    BY <2>1 DEF WritesEntry
  <2>3. /\ DeletedEvents(s) = DeletedEvents(r)
        /\ OfferedEvents(s) = OfferedEvents(r)
        /\ Ids(s.events) = Ids(r.events)
    BY <2>1, <2>2, DeletedEventsAppended DEF WritesEntry, OfferedEvents, OpenPreviews
  <2>4. /\ Ids(s.events) = Ids(r.events) \ {}
        /\ DeletedEvents(s) = DeletedEvents(r) \cup {}
    BY <2>3
  <2> QED
    BY <1>0, <1>2, <2>3, <2>4
<1>3. CASE c.op = "create_preview"
  <2>1. MakesPreview(r, s, p)
    BY <1>3 DEF Applied
  <2>2. PICK preview \in Preview :
          /\ s.previews = [r.previews EXCEPT ![p] = preview]
          /\ preview.event_ids \subseteq Ids(r.events)
    BY <2>1 DEF MakesPreview
  <2>3. \A k \in PreviewIds : s.previews[k] = IF k = p THEN preview ELSE r.previews[k]
    BY <1>0, <2>2
  <2>4. OfferedEvents(s) \subseteq OfferedEvents(r) \cup Ids(r.events)
    BY <2>2, <2>3 DEF OfferedEvents, OpenPreviews
  <2>5. DeletedEvents(s) = DeletedEvents(r) /\ Ids(s.events) = Ids(r.events)
    BY <2>1 DEF MakesPreview, DeletedEvents, Deletions
  <2>6. /\ Ids(s.events) = Ids(r.events) \ {}
        /\ DeletedEvents(s) = DeletedEvents(r) \cup {}
    BY <2>5
  <2> QED
    BY <1>0, <1>3, <2>4, <2>5, <2>6
<1>4. CASE c.op = "delete_preview"
  <2> DEFINE selection == r.previews[c.id].event_ids
  <2>1. /\ DeletedBy(r, s, c.id)
        /\ Ids(s.events) = Ids(r.events) \ selection
    BY <1>4 DEF Applied, UsesPreview
  <2>2. /\ c.id \in OpenPreviews(r)
        /\ s.previews = [r.previews EXCEPT ![c.id] = None]
        /\ \E entry \in JournalEntry :
             /\ s.governance = Append(r.governance, entry)
             /\ entry.event_type = "retention.events.deleted"
             /\ entry.selection = selection
    BY <1>4, <2>1 DEF DeletedBy, OpenPreviews
  <2>3. \A k \in PreviewIds : s.previews[k] = IF k = c.id THEN None ELSE r.previews[k]
    BY <1>0, <2>2
  <2>4. OfferedEvents(s) \subseteq OfferedEvents(r)
    BY <2>3 DEF OfferedEvents, OpenPreviews
  <2>5. selection \subseteq OfferedEvents(r)
    BY <2>2 DEF OfferedEvents
  <2>6. DeletedEvents(s) = DeletedEvents(r) \cup selection
    BY <2>2, DeletedEventsAppended
  <2> HIDE DEF selection
  <2> QED
    BY <1>0, <1>4, <2>1, <2>4, <2>5, <2>6
<1> QED
  BY <1>1, <1>2, <1>3, <1>4 DEF Applied

-----------------------------------------------------------------------------
(* One row per committed log_event.  An event id a request may draw is known
   to the annotation only when that attempt was committed, and then it is in
   the log or in the selection of a deletion. *)

EventLogged ==
  \A q \in Requests :
    /\ \A n \in Attempts : EventIdOf[q, n] \in KnownIds(store) =>
         saved[q] /\ n = attempt[q] /\ call[q].op = "log_event"
    /\ saved[q] /\ call[q].op = "log_event" =>
         (DrawnEvent(q) \in Ids(store.events)
            <=> DrawnEvent(q) \notin DeletedEvents(store))

LEMMA InitEventLogged == Init => EventLogged
<1> SUFFICES ASSUME Init, NEW q \in Requests, NEW n \in Attempts
             PROVE  EventIdOf[q, n] \notin KnownIds(store)
  BY DEF Init, EventLogged
<1>1. <<q, n>> \in Requests \X Attempts
  OBVIOUS
<1> QED
  BY <1>1, UuidAssumption DEF Init

LEMMA StepEventLogged ==
  ASSUME TInv, EventLogged, [Next]_vars PROVE EventLogged'
<1>1. CASE /\ UNCHANGED <<store, saved, call>>
           /\ \A q \in Requests : saved[q] => attempt'[q] = attempt[q]
  BY <1>1 DEF EventLogged, DrawnEvent
<1>2. ASSUME NEW q \in Requests, Commit(q) PROVE EventLogged'
  <2> DEFINE c == call[q]
             e == DrawnEvent(q)
  <2>1. /\ Applied(store, store', c, e, DrawnPreview(q))
        /\ ~saved[q] /\ saved' = [saved EXCEPT ![q] = TRUE]
        /\ UNCHANGED <<call, attempt>>
    BY <1>2, CommitApplies
  <2>2. \A r \in Requests : saved'[r] <=> saved[r] \/ r = q
    BY <2>1 DEF TInv
  <2>3. /\ <<q, attempt[q]>> \in Requests \X Attempts
        /\ DrawnPreview(q) \in PreviewIds
    <3>1. <<q, attempt[q]>> \in Requests \X Attempts
      BY DEF TInv
    <3> QED
      BY <3>1, UuidAssumption DEF DrawnPreview
  <2>4. \A r \in Requests, n \in Attempts :
          EventIdOf[r, n] = e => r = q /\ n = attempt[q]
    <3> SUFFICES ASSUME NEW r \in Requests, NEW n \in Attempts, EventIdOf[r, n] = e
                 PROVE  r = q /\ n = attempt[q]
      OBVIOUS
    <3>1. <<r, n>> \in Requests \X Attempts
      OBVIOUS
    <3>2. <<r, n>> = <<q, attempt[q]>>
      BY <2>3, <3>1, UuidAssumption DEF DrawnEvent
    <3> QED
      BY <3>2
  <2>5. c.op = "delete_preview" => c.id \in PreviewIds
    <3>1. c \in Call
      BY WorkloadAssumption DEF TInv
    <3> QED
      BY <3>1 DEF Call
  <2>6. /\ KnownIds(store') \subseteq
             KnownIds(store) \cup (IF c.op = "log_event" THEN {e} ELSE {})
        /\ c.op = "log_event" =>
             /\ Ids(store'.events) = Ids(store.events) \cup {e}
             /\ DeletedEvents(store') = DeletedEvents(store)
        /\ c.op # "log_event" =>
             \E selection :
               /\ Ids(store'.events) = Ids(store.events) \ selection
               /\ DeletedEvents(store') = DeletedEvents(store) \cup selection
    <3>1. WellFormed(store)
      BY DEF TInv
    <3> HIDE DEF c, e
    <3> QED
      BY <2>1, <2>3, <2>5, <3>1, KnownAfter
  <2>7. DeletedEvents(store) \subseteq KnownIds(store)
    BY DEF DeletedEvents, KnownIds
  <2> HIDE DEF c, e
  <2>8. ASSUME NEW r \in Requests, NEW n \in Attempts,
               EventIdOf[r, n] \in KnownIds(store')
        PROVE  saved'[r] /\ n = attempt'[r] /\ call'[r].op = "log_event"
    <3>1. CASE EventIdOf[r, n] \in KnownIds(store)
      BY <2>1, <2>2, <3>1 DEF EventLogged
    <3>2. CASE EventIdOf[r, n] = e /\ c.op = "log_event"
      BY <2>1, <2>2, <2>4, <3>2 DEF c
    <3> QED
      BY <2>6, <2>8, <3>1, <3>2
  <2>9. ASSUME NEW r \in Requests, saved'[r], call'[r].op = "log_event"
        PROVE  DrawnEvent(r)' \in Ids(store'.events)
                 <=> DrawnEvent(r)' \notin DeletedEvents(store')
    <3>1. /\ DrawnEvent(r)' = DrawnEvent(r)
          /\ DrawnEvent(r) = EventIdOf[r, attempt[r]] /\ attempt[r] \in Attempts
      BY <2>1 DEF DrawnEvent, TInv
    <3>2. CASE r = q
      <4>1. e \notin KnownIds(store)
        BY <2>1, <3>1, <3>2 DEF EventLogged, e
      <4>2. c.op = "log_event"
        BY <2>1, <2>9, <3>2 DEF c
      <4> QED
        BY <2>6, <2>7, <3>1, <3>2, <4>1, <4>2 DEF e
    <3>3. CASE r # q
      <4>1. DrawnEvent(r) \in Ids(store.events)
              <=> DrawnEvent(r) \notin DeletedEvents(store)
        BY <2>1, <2>2, <2>9, <3>3 DEF EventLogged
      <4>2. DrawnEvent(r) # e
        BY <2>4, <3>1, <3>3
      <4> QED
        BY <2>6, <3>1, <4>1, <4>2
    <3> QED
      BY <3>2, <3>3
  <2> QED
    BY <2>8, <2>9 DEF EventLogged
<1> QED
  BY <1>1, <1>2, OnlyCommits

(* A log_event that is executed again and again, under new event ids, leaves
   one row once it was committed, until a journaled deletion names it, and
   no row before or when it gives up. *)
THEOREM LoggedAlwaysExactlyOnce == Spec => []LoggedExactlyOnce
<1>1. TInv /\ EventLogged /\ [Next]_vars => EventLogged'
  BY StepEventLogged
<1>2. TInv /\ EventLogged => LoggedExactlyOnce
  <2> SUFFICES ASSUME TInv, EventLogged, NEW q \in Requests,
                      call[q].op = "log_event"
               PROVE  Cardinality(RowsOf(q))
                        = IF saved[q] /\ ~DeletedFor(q) THEN 1 ELSE 0
    BY DEF LoggedExactlyOnce
  <2> DEFINE n == Len(store.events)
             id(i) == store.events[i].event.event_id
  <2>1. /\ \A i, j \in 1..n : id(i) = id(j) => i = j
        /\ Ids(store.events) = {id(i) : i \in 1..n}
    BY IdsOfLogged DEF TInv, DistinctIds, Ids
  <2>2. DeletedFor(q) <=> DrawnEvent(q) \in DeletedEvents(store)
    BY DEF DeletedFor, DeletedEvents, DrawnEvent
  <2>3. RowsOf(q) = {i \in 1..n : \E k \in Attempts : id(i) = EventIdOf[q, k]}
    BY DEF RowsOf
  <2>4. Ids(store.events) \subseteq KnownIds(store)
    BY DEF KnownIds
  <2>5. DrawnEvent(q) = EventIdOf[q, attempt[q]] /\ attempt[q] \in Attempts
    BY DEF DrawnEvent, TInv
  <2> HIDE DEF n, id
  <2>6. ASSUME NEW i \in RowsOf(q)
        PROVE  i \in 1..n /\ id(i) = DrawnEvent(q) /\ saved[q]
    <3>1. PICK k \in Attempts : id(i) = EventIdOf[q, k]
      BY <2>3
    <3>2. i \in 1..n /\ id(i) \in KnownIds(store)
      BY <2>1, <2>3, <2>4
    <3>3. saved[q] /\ k = attempt[q]
      BY <3>1, <3>2 DEF EventLogged
    <3> QED
      BY <2>5, <3>1, <3>2, <3>3
  <2>7. CASE saved[q] /\ ~DeletedFor(q)
    <3>1. DrawnEvent(q) \in Ids(store.events)
      BY <2>2, <2>7 DEF EventLogged
    <3>2. PICK i \in 1..n : id(i) = DrawnEvent(q)
      BY <2>1, <3>1
    <3>3. i \in RowsOf(q)
      BY <2>3, <2>5, <3>2
    <3>4. RowsOf(q) = {i}
      BY <2>1, <2>6, <3>2, <3>3
    <3> QED
      BY <2>7, <3>4, FS_Singleton
  <2>8. CASE ~(saved[q] /\ ~DeletedFor(q))
    <3>1. RowsOf(q) = {}
      <4> SUFFICES ASSUME NEW i \in RowsOf(q) PROVE FALSE
        OBVIOUS
      <4>1. i \in 1..n /\ id(i) = DrawnEvent(q) /\ saved[q]
        BY <2>6
      <4>2. DrawnEvent(q) \in Ids(store.events)
        BY <2>1, <4>1
      <4>3. ~DeletedFor(q)
        BY <2>2, <4>1, <4>2 DEF EventLogged
      <4> QED
        BY <2>8, <4>1, <4>3
    <3> QED
      BY <2>8, <3>1, FS_EmptySet
  <2> QED
    BY <2>7, <2>8
<1> QED
  BY <1>1, <1>2, InitEventLogged, TypedAlways, PTL DEF Spec

-----------------------------------------------------------------------------
(* The committed annotation implements GovernedLog.                         *)

LEMMA StoreStepImplements ==
  ASSUME GovernedStep(store, store')
  PROVE  [Governed!Next]_Governed!gvars
<1>1. CASE Recorded(store, store')
  BY <1>1 DEF Recorded, Governed!Next, Governed!Record, Governed!LogIds
<1>2. CASE Erased(store, store')
  BY <1>2 DEF Erased, Wrote, Remains, Governed!Next, Governed!Erase,
              Governed!Journal, Governed!RemainsOf
<1>3. CASE Ruled(store, store')
  BY <1>3 DEF Ruled, Wrote, Governed!Next, Governed!Govern, Governed!Journal, Logged
<1>4. CASE Unseen(store, store')
  BY <1>4 DEF Unseen, Governed!gvars, Logged
<1> QED
  BY <1>1, <1>2, <1>3, <1>4 DEF GovernedStep

(* What concurrent requests commit implements GovernedLog: no commit loses,
   changes, reorders or duplicates an event, except a journaled deletion of
   events that are not held when it is committed. *)
THEOREM ZODBImplementsGovernedLog == Spec => ImplementsGovernedLog
<1>1. Init => Governed!Init
  <2> SUFFICES ASSUME Init PROVE Governed!Init
    OBVIOUS
  <2> DEFINE log == Logged(store.events)
  <2>1. DistinctIds(log) /\ log \in Seq(Event)
    BY StoreAssumption, IdsOfLogged DEF Init
  <2> HIDE DEF log
  <2>2. DOMAIN log = 1..Len(log)
    BY <2>1
  <2> QED
    BY <2>1, <2>2 DEF Governed!Init, DistinctIds, log
<1>2. TInv /\ [Next]_vars => [Governed!Next]_Governed!gvars
  <2> SUFFICES ASSUME TInv, [Next]_vars
               PROVE  [Governed!Next]_Governed!gvars
    OBVIOUS
  <2>1. CASE UNCHANGED store
    BY <2>1 DEF Governed!gvars
  <2>2. ASSUME NEW q \in Requests, Commit(q)
        PROVE  [Governed!Next]_Governed!gvars
    BY <2>2, CommitApplies, StoreStepImplements DEF Applied
  <2> QED
    BY <2>1, <2>2, OnlyCommits
<1> QED
  BY <1>1, <1>2, TypedAlways, PTL DEF Spec, ImplementsGovernedLog, Governed!Spec
=============================================================================
