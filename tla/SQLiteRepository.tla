-------------------------- MODULE SQLiteRepository --------------------------
(***************************************************************************)
(* SQLiteRepository: a MemoryRepository whose rows are copied to the table   *)
(* audit_event of a database file after append and delete_preview.  Opening  *)
(* a repository loads the rows and nothing else: policy, holds, previews and *)
(* governance live in the instance and end with it.  Several instances may   *)
(* be open on the same file, each with a connection of its own.              *)
(*                                                                          *)
(* A save is DELETE, one INSERT per row, COMMIT.  It can fail at any of them  *)
(* (locked, full, I/O error): the call raises, and by then the instance has  *)
(* already changed its lists.  SQLite then keeps the transaction open, with   *)
(* its write lock, or has rolled it back; neither shows in the table.        *)
(*                                                                          *)
(* A call that raises before the save changes nothing and is no step.        *)
(***************************************************************************)
EXTENDS AuditRepository

CONSTANTS
  Connections,  \* instances of SQLiteRepository on one database file
  MaxTime,      \* bound: the clock stops here
  MaxJournal    \* bound: governance entries of one instance

ASSUME BoundsAssumption == MaxTime \in Nat /\ MaxJournal \in Nat

ASSUME ConnectionAssumption == None \notin Connections

VARIABLES
  table,   \* the committed rows of audit_event, ORDER BY sequence
  writer,  \* the connection whose write transaction is open, or None
  mem,     \* the inherited lists of each instance, None while it is closed
  drawn,   \* preview ids uuid4() has returned so far
  now,     \* wall clock
  told,    \* history: what callers know of each event from answered calls
  placed   \* history: holds placed and not released, with their event

vars == <<table, writer, mem, drawn, now, told, placed>>

Answers == {"absent", "present", "unknown"}

Init ==
  /\ table = << >>
  /\ writer = None
  /\ mem = [c \in Connections |-> None]
  /\ drawn = {}
  /\ now = 0
  /\ told = [e \in EventIds |-> "absent"]
  /\ placed = [h \in HoldIds |-> None]

-----------------------------------------------------------------------------
(* __init__ and _load; close, or the end of the process.                    *)

(* Slip: the rows are not loaded. *)
LoadedNothing == EmptyRepository

Loaded == [EmptyRepository EXCEPT !.events = table]

Open(c) ==
  /\ mem[c] = None
  /\ mem' = [mem EXCEPT ![c] = Loaded]
  /\ UNCHANGED <<table, writer, drawn, now, told, placed>>

Close(c) ==
  /\ mem[c] # None
  /\ mem' = [mem EXCEPT ![c] = None]
  /\ writer' = IF writer = c THEN None ELSE writer
  /\ UNCHANGED <<table, drawn, now, told, placed>>

-----------------------------------------------------------------------------
(* _persist_events.                                                         *)

(* Slip: no COMMIT after the statements. *)
SaveUncommitted(c, events) ==
  /\ writer \in {None, c}
  /\ writer' = c
  /\ UNCHANGED table

Save(c, events) ==
  /\ writer \in {None, c}
  /\ writer' = None
  /\ table' = events

SaveFails(c) ==
  /\ writer' \in IF writer \in {None, c} THEN {None, c} ELSE {writer}
  /\ UNCHANGED table

TellAll(ids, answer) == [e \in EventIds |-> IF e \in ids THEN answer ELSE told[e]]

(* The instance has changed; the call returns, or raises, after the save. *)
SaveAndTell(c, ids, answer) ==
  \/ Save(c, mem'[c].events) /\ told' = TellAll(ids, answer)
  \/ SaveFails(c) /\ told' = TellAll(ids, "unknown")

-----------------------------------------------------------------------------
JournalOpen(c) == Len(mem[c].governance) < MaxJournal

AppendEvent(c, e) ==
  /\ mem[c] # None
  /\ AppendOutcome(mem[c], ObjectUid, e) = "accepted"
  /\ mem' = [mem EXCEPT ![c] = AfterAppend(@, ObjectUid, e)]
  /\ SaveAndTell(c, {e.event_id}, "present")
  /\ UNCHANGED <<drawn, now, placed>>

DeletePreview(c, id, actor, blank) ==
  /\ mem[c] # None
  /\ JournalOpen(c)
  /\ DeleteOutcome(mem[c], id, actor, blank, now) = "deleted"
  /\ mem' = [mem EXCEPT ![c] = AfterDelete(@, id, actor, blank, now)]
  /\ SaveAndTell(c, mem[c].previews[id].event_ids, "absent")
  /\ UNCHANGED <<drawn, now, placed>>

(* The methods that are not overridden: nothing reaches the database. *)
SetPolicy(c, policy, actor) ==
  /\ mem[c] # None
  /\ JournalOpen(c)
  /\ mem' = [mem EXCEPT ![c] = AfterSetPolicy(@, policy, actor)]
  /\ UNCHANGED <<table, writer, drawn, now, told, placed>>

CreatePreview(c, id, actor) ==
  /\ mem[c] # None
  /\ id \notin drawn
  /\ mem' = [mem EXCEPT ![c] = AfterCreatePreview(@, id, actor, now)]
  /\ drawn' = drawn \cup {id}
  /\ UNCHANGED <<table, writer, now, told, placed>>

CreateHold(c, hold_id, event_id, actor) ==
  /\ mem[c] # None
  /\ JournalOpen(c)
  /\ mem' = [mem EXCEPT ![c] =
               AfterCreateHold(@, ObjectUid, hold_id, event_id, actor)]
  /\ placed' = [placed EXCEPT ![hold_id] = event_id]
  /\ UNCHANGED <<table, writer, drawn, now, told>>

ReleaseHold(c, hold_id, actor) ==
  /\ mem[c] # None
  /\ JournalOpen(c)
  /\ ReleaseHoldOutcome(mem[c], hold_id) = "released"
  /\ mem' = [mem EXCEPT ![c] = AfterReleaseHold(@, hold_id, actor)]
  /\ placed' = [placed EXCEPT ![hold_id] = None]
  /\ UNCHANGED <<table, writer, drawn, now, told>>

Tick ==
  /\ now < MaxTime
  /\ now' = now + 1
  /\ UNCHANGED <<table, writer, mem, drawn, told, placed>>

Call(c) ==
  \/ \E e \in Event : AppendEvent(c, e)
  \/ \E id \in PreviewIds, actor \in Actors, blank \in BOOLEAN :
       DeletePreview(c, id, actor, blank)
  \/ \E policy \in Policies, actor \in Actors : SetPolicy(c, policy, actor)
  \/ \E id \in PreviewIds, actor \in Actors : CreatePreview(c, id, actor)
  \/ \E hold_id \in HoldIds, event_id \in HoldTargets, actor \in Actors :
       CreateHold(c, hold_id, event_id, actor)
  \/ \E hold_id \in HoldIds, actor \in Actors : ReleaseHold(c, hold_id, actor)

Next == Tick \/ \E c \in Connections : Open(c) \/ Close(c) \/ Call(c)

Spec == Init /\ [][Next]_vars

-----------------------------------------------------------------------------
TypeOK ==
  /\ table \in Seq(Row)
  /\ writer \in Connections \cup {None}
  /\ mem \in [Connections -> Repository \cup {None}]
  /\ drawn \subseteq PreviewIds
  /\ now \in 0..MaxTime
  /\ told \in [EventIds -> Answers]
  /\ placed \in [HoldIds -> HoldTargets]

(* What the file holds is a whole chain after every call, failed save, close
   and crash: never the DELETE without its INSERTs, never rows of two saves,
   never two rows of one event. *)
TableVerifies ==
  /\ Verifies(table)
  /\ \A i, j \in 1..Len(table) :
       /\ table[i].sequence = i
       /\ table[i].event.event_id = table[j].event.event_id => i = j

(* An append or a deletion that was answered is in the file, whatever failed
   saves, closes and reopenings follow: a save that failed is made up for by
   the next one or forgotten, and takes no answered call with it. *)
AnsweredIsDurable ==
  \A e \in EventIds :
    /\ told[e] = "present" => e \in Ids(table)
    /\ told[e] = "absent" => e \notin Ids(table)

(* An event whose append was answered is recognised when it is sent again, by
   the instance that stored it and by one opened later on the file, wherever
   a deletion has moved its row meanwhile. *)
RetryRecognised ==
  \A c \in Connections, i \in 1..Len(table) :
    (mem[c] # None /\ told[table[i].event.event_id] = "present")
      => AppendOutcome(mem[c], ObjectUid, table[i].event) = "IdempotentReplay"

(* docs/API.md: active legal holds are excluded from previews and block
   deletion.  No answered deletion takes an event from under a hold that was
   placed on it and not released. *)
HoldsBlockDeletion ==
  [][\A h \in HoldIds :
       placed[h] # None /\ told[placed[h]] = "present"
         => told'[placed[h]] # "absent"]_vars

(* README.md: the integrity chain detects missing or changed records.  When
   an event whose append was answered, and that no call deleted, is missing
   from the table, verify() of a repository opened on it says so. *)
LossIsDetected ==
  (\E e \in EventIds : told[e] = "present" /\ e \notin Ids(table))
    => ~Verifies(table)
=============================================================================
