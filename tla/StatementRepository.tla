------------------------ MODULE StatementRepository ------------------------
(***************************************************************************)
(* PostgresRepository and DuckDBRepository, one instance at a time on its     *)
(* table, statement by statement.  Both are MemoryRepositories that copy      *)
(* their rows to audit_event after a call has changed them: DELETE, one       *)
(* INSERT per row, and they differ in what surrounds the statements:          *)
(*  - psycopg runs them in one transaction that commit() ends.  After an       *)
(*    error nothing rolls it back: what follows fails, or joins it;           *)
(*  - DuckDB commits each of them by itself, and delete_preview is not         *)
(*    overridden: a deletion changes the instance and saves nothing;          *)
(*  - PostgreSQL keeps details as JSONB, which gives some numbers back in      *)
(*    another form (1e16 as an integer, -0.0 as 0.0), next to the digest of    *)
(*    what was logged.  DuckDB keeps the text.                                *)
(* A crash, a lost connection or an error can come between any two.           *)
(* Expiry of previews is left to MemoryRepository: all calls are of one        *)
(* instant here.                                                             *)
(***************************************************************************)
EXTENDS AuditRepository

CONSTANTS
  Jsonb,       \* the body PostgreSQL gives back for a body
  Offered,     \* the events callers append
  MaxJournal   \* bound: governance entries of one instance

ASSUME JsonbAssumption == Jsonb \in [Bodies -> Bodies]

ASSUME OfferedAssumption == Offered \subseteq Event

ASSUME BoundsAssumption == MaxJournal \in Nat

(* Bodies that come back as they are, and as which no other comes back. *)
Plain == {b \in Bodies : \A c \in Bodies : Jsonb[c] = b <=> c = b}

(* A call that is in _persist_events: what it will tell of which events, and
   how far its statements have come. *)
Saving == [ids : SUBSET EventIds, answer : {"present", "absent"},
           deleted : BOOLEAN, inserted : Nat]

ASSUME AbsenceAssumption ==
  None \notin Repository /\ None \notin Seq(Row) /\ None \notin Saving

VARIABLES
  duckdb,  \* which of the two classes it is
  table,   \* the committed rows of audit_event as SELECT gives them back
  work,    \* the rows in the open psycopg transaction that has changed them
  failed,  \* psycopg: the transaction is aborted, or the connection is lost
  mem,     \* the inherited lists of the instance, None while there is none
  saving,  \* the call that is in _persist_events, or None
  drawn,   \* preview ids uuid4() has returned so far
  told,    \* history: what callers know of each event from answered calls
  unsaved, \* history: the last save of this instance did not complete
  cut      \* history: an instance has ended with such a save

vars == <<duckdb, table, work, failed, mem, saving, drawn, told, unsaved, cut>>

Now == 0

Init ==
  /\ duckdb \in BOOLEAN
  /\ table = << >>
  /\ work = None
  /\ failed = FALSE
  /\ mem = None
  /\ saving = None
  /\ drawn = {}
  /\ told = [e \in EventIds |-> "absent"]
  /\ unsaved = FALSE
  /\ cut = FALSE

-----------------------------------------------------------------------------
Open ==
  /\ mem = None
  /\ mem' = [EmptyRepository EXCEPT !.events = table]
  /\ UNCHANGED <<duckdb, table, work, failed, saving, drawn, told, unsaved, cut>>

(* close(), or the end of the process at any moment: what is not committed is
   rolled back. *)
Close ==
  /\ mem # None
  /\ mem' = None
  /\ work' = None
  /\ failed' = FALSE
  /\ saving' = None
  /\ cut' = (cut \/ unsaved)
  /\ unsaved' = FALSE
  /\ UNCHANGED <<duckdb, table, drawn, told>>

TellAll(ids, answer) == [e \in EventIds |-> IF e \in ids THEN answer ELSE told[e]]

(* The instance's lists have changed, the statements follow. *)
BeginSave(ids, answer) ==
  /\ saving' = [ids |-> ids, answer |-> answer, deleted |-> FALSE, inserted |-> 0]
  /\ told' = TellAll(ids, "unknown")
  /\ unsaved' = TRUE

(* Callers use an instance from one thread, one call after another. *)
Called == mem # None /\ saving = None

AppendEvent(e) ==
  /\ Called
  /\ AppendOutcome(mem, ObjectUid, e) = "accepted"
  /\ mem' = AfterAppend(mem, ObjectUid, e)
  /\ BeginSave({e.event_id}, "present")
  /\ UNCHANGED <<duckdb, table, work, failed, drawn, cut>>

DeletePreview(id, actor, blank) ==
  /\ Called
  /\ Len(mem.governance) < MaxJournal
  /\ DeleteOutcome(mem, id, actor, blank, Now) = "deleted"
  /\ mem' = AfterDelete(mem, id, actor, blank, Now)
  /\ LET ids == mem.previews[id].event_ids IN
     IF duckdb
     THEN /\ told' = TellAll(ids, "absent")
          /\ UNCHANGED <<saving, unsaved>>
     ELSE BeginSave(ids, "absent")
  /\ UNCHANGED <<duckdb, table, work, failed, drawn, cut>>

(* The methods that are not overridden. *)
Only(after) ==
  /\ mem' = after
  /\ UNCHANGED <<duckdb, table, work, failed, saving, told, unsaved, cut>>

SetPolicy(policy, actor) ==
  /\ Called
  /\ Len(mem.governance) < MaxJournal
  /\ Only(AfterSetPolicy(mem, policy, actor))
  /\ UNCHANGED drawn

CreatePreview(id, actor) ==
  /\ Called
  /\ id \notin drawn
  /\ Only(AfterCreatePreview(mem, id, actor, Now))
  /\ drawn' = drawn \cup {id}

CreateHold(hold_id, event_id, actor) ==
  /\ Called
  /\ Len(mem.governance) < MaxJournal
  /\ Only(AfterCreateHold(mem, ObjectUid, hold_id, event_id, actor))
  /\ UNCHANGED drawn

ReleaseHold(hold_id, actor) ==
  /\ Called
  /\ Len(mem.governance) < MaxJournal
  /\ ReleaseHoldOutcome(mem, hold_id) = "released"
  /\ Only(AfterReleaseHold(mem, hold_id, actor))
  /\ UNCHANGED drawn

-----------------------------------------------------------------------------
(* _persist_events, one statement at a time.                                *)

Visible == IF work = None THEN table ELSE work

(* What a statement does is committed at once, or waits for commit(). *)
Executed(rows) ==
  /\ ~failed
  /\ IF duckdb THEN table' = rows /\ UNCHANGED work
               ELSE work' = rows /\ UNCHANGED table

(* Slip: the old rows are not deleted. *)
DeleteNothing ==
  /\ saving # None /\ ~saving.deleted
  /\ Executed(Visible)
  /\ saving' = [saving EXCEPT !.deleted = TRUE]
  /\ UNCHANGED <<duckdb, failed, mem, drawn, told, unsaved, cut>>

DeleteRows ==
  /\ saving # None /\ ~saving.deleted
  /\ Executed(<< >>)
  /\ saving' = [saving EXCEPT !.deleted = TRUE]
  /\ UNCHANGED <<duckdb, failed, mem, drawn, told, unsaved, cut>>

Inserting ==
  saving # None /\ saving.deleted /\ saving.inserted < Len(mem.events)

(* Slip: the newest row is inserted first. *)
NextToInsertNewest == mem.events[Len(mem.events) - saving.inserted]

NextToInsert == mem.events[saving.inserted + 1]

AsStored(row) ==
  IF duckdb THEN row ELSE [row EXCEPT !.event.body = Jsonb[@]]

(* PRIMARY KEY (object_uid, event_id): a second row of one event is an error. *)
InsertRow ==
  /\ Inserting
  /\ Executed(Append(Visible, AsStored(NextToInsert)))
  /\ saving' = [saving EXCEPT !.inserted = @ + 1]
  /\ UNCHANGED <<duckdb, failed, mem, drawn, told, unsaved, cut>>

AllInserted ==
  saving # None /\ saving.deleted /\ saving.inserted = Len(mem.events)

(* Slip: no commit(). *)
NotCommitted == UNCHANGED <<table, work>>

(* commit() of psycopg; DuckDBRepository has nothing left to do. *)
Committed == table' = Visible /\ work' = None

(* The call returns. *)
Return ==
  /\ AllInserted
  /\ ~failed
  /\ Committed
  /\ told' = TellAll(saving.ids, saving.answer)
  /\ saving' = None
  /\ unsaved' = FALSE
  /\ UNCHANGED <<duckdb, failed, mem, drawn, cut>>

(* A value of the next row cannot be sent: psycopg raises, the transaction stays
   open with what it has done and the next call's statements join it. *)
NotSent == ~AllInserted /\ UNCHANGED <<table, work, failed>>

(* The server refuses a statement, the connection is lost, or one was before:
   nothing this instance sends will be committed any more.  A commit() that
   raises may have reached the server. *)
Aborted ==
  /\ work' = None
  /\ failed' = ~duckdb
  /\ \/ UNCHANGED table
     \/ AllInserted /\ ~failed /\ table' = Visible

(* The server refuses the commit and has rolled back. *)
NotCommittable ==
  /\ AllInserted /\ ~duckdb /\ ~failed
  /\ work' = None
  /\ UNCHANGED <<table, failed>>

(* A statement, or commit(), raises and the call with it. *)
Fail ==
  /\ saving # None
  /\ saving' = None
  /\ NotSent \/ Aborted \/ NotCommittable
  /\ UNCHANGED <<duckdb, mem, drawn, told, unsaved, cut>>

Next ==
  \/ Open \/ Close
  \/ \E e \in Offered : AppendEvent(e)
  \/ \E id \in PreviewIds, actor \in Actors :
       CreatePreview(id, actor) \/ \E blank \in BOOLEAN : DeletePreview(id, actor, blank)
  \/ \E policy \in Policies, actor \in Actors : SetPolicy(policy, actor)
  \/ \E hold_id \in HoldIds, actor \in Actors :
       \/ \E event_id \in HoldTargets : CreateHold(hold_id, event_id, actor)
       \/ ReleaseHold(hold_id, actor)
  \/ DeleteRows \/ InsertRow \/ Return \/ Fail

Spec == Init /\ [][Next]_vars

-----------------------------------------------------------------------------
(* What a list of rows is in the table, read back. *)
Written(rows) == [i \in 1..Len(rows) |-> AsStored(rows[i])]

FirstMismatch(rows, i) ==
  MismatchAt(rows, i) /\ \A j \in 1..(i - 1) : ~MismatchAt(rows, j)

(* Whatever a crash or an error leaves behind, in the middle of the statements
   too, is numbered, with one row per event, and verifies, except for what JSONB
   has done to it: a row verify() reports has details that JSONB gives back for
   others.  Such a row is reported from the next opening on although nobody has
   touched the table. *)
LeftoverVerifies ==
  /\ \A i \in 1..Len(table) :
       FirstMismatch(table, i) => ~duckdb /\ table[i].event.body \notin Plain
  /\ \A i, j \in 1..Len(table) :
       /\ table[i].sequence = i
       /\ table[i].event.event_id = table[j].event.event_id => i = j

(* An answered append is in the table.  With DuckDB it may be missing between
   the DELETE of a later save and its INSERT, and stays missing when that save
   is cut short; but the instance still has it, so that only the end of the
   instance before a save that completes loses it. *)
AnsweredIsKept ==
  \A e \in EventIds :
    told[e] = "present" =>
      \/ e \in Ids(table)
      \/ duckdb /\ unsaved /\ mem # None /\ e \in Ids(mem.events)
      \/ duckdb /\ cut

(* A deletion PostgreSQL has answered is not undone by anything later. *)
PostgresKeepsDeletions ==
  \A e \in EventIds : ~duckdb /\ told[e] = "absent" => e \notin Ids(table)

(* Whatever earlier saves have left in the table, a call that returns after
   its save leaves exactly the rows of the instance there, in PostgreSQL's
   spelling of their details: an error is made up for, or no later call of the
   instance returns. *)
AnswerMeansWholeList ==
  [][(unsaved /\ ~unsaved' /\ mem' # None) => table' = Written(mem'.events)]_vars

(* docs/USAGE.md: deletion is journaled and reseals the surviving local chain;
   docs/API.md: DuckDBRepository implements the RDBMS contract.  A repository
   never shows an event whose deletion was answered. *)
DeletionIsKept ==
  \A e \in EventIds :
    mem # None /\ told[e] = "absent" => e \notin Ids(mem.events)
=============================================================================
