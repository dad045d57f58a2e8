---------------------------- MODULE Subscribers ----------------------------
(***************************************************************************)
(* The lifecycle subscribers: what the requests that create and edit one       *)
(* content object, and publish notifications, leave in its audit stream and    *)
(* in that of the site, under the settings of the control panel.               *)
(*                                                                          *)
(* A request works on the database as it was at its begin and commits all of   *)
(* its changes or none.  _WRITING_AUDIT is a context variable: it belongs to   *)
(* the thread, which serves one request after the other.  Metadata snapshots   *)
(* are functions from field names to values; portal_type and id are those of   *)
(* the one object and left out, but for them no snapshot of it is empty.      *)
(***************************************************************************)
EXTENDS Integers, Sequences, FiniteSets, Functions

CONSTANTS
  Threads,
  PortalType,     \* of the object
  Metadata,       \* the snapshots the object may have
  CallerSnapshots, \* `snapshot_after' in the details of application events
  Forms,          \* bodies of AuditLoggingControlPanelSave
  BaselineLimit,  \* the 1000 rows of _previous_snapshot
  MaxClock,       \* bound: instants
  MaxRows,        \* bound: rows in the stream of the object
  MaxCalls,       \* bound: notifications, nested ones and application events
                  \* of a request
  MaxCommits,     \* bound: commits
  None

ASSUME BoundAssumption ==
  /\ BaselineLimit \in Nat \ {0}
  /\ MaxClock \in Nat /\ MaxRows \in Nat /\ MaxCalls \in Nat /\ MaxCommits \in Nat

ASSUME MetadataAssumption ==
  \A metadata \in Metadata :
    /\ metadata \notin {None, << >>}
    /\ metadata = [field \in DOMAIN metadata |-> metadata[field]]

(* None stands for details that have no dict there. *)
ASSUME CallersAssumption == CallerSnapshots \subseteq Metadata \cup {None, << >>}

VARIABLES
  settings,  \* the registry's ISettings
  database,  \* the object, its stream, the number of commits
  request,   \* per thread: None, or the request it serves
  writing,   \* per thread: _WRITING_AUDIT
  clock

vars == <<settings, database, request, writing, clock>>

-----------------------------------------------------------------------------
(* The control panel.  A key that the body lacks gets its default, None stands
   for a value of the wrong type. *)

Default(form, key, value) == IF key \in DOMAIN form THEN form[key] ELSE value

(* backend, transaction_mode and database_url are checked and stored alike and
   read by nothing here. *)
SettingsOf(form) ==
  [audit_logging_enabled |-> Default(form, "audit_logging_enabled", TRUE),
   detail_limit |-> Default(form, "detail_limit", 65536),
   enabled_content_types |-> Default(form, "enabled_content_types", {})]

DetailLimits == 1024..100000

(* Slip: the bounds of detail_limit are not checked. *)
ValidFormUnlimited(form) ==
  /\ SettingsOf(form).audit_logging_enabled \in BOOLEAN
  /\ SettingsOf(form).enabled_content_types # None

ValidForm(form) ==
  /\ SettingsOf(form).audit_logging_enabled \in BOOLEAN
  /\ SettingsOf(form).detail_limit \in DetailLimits
  /\ SettingsOf(form).enabled_content_types # None

SaveSettings(form) ==
  /\ ValidForm(form)
  /\ settings' = SettingsOf(form)
  /\ UNCHANGED <<database, request, writing, clock>>

LoggingEnabled(s) ==
  s.audit_logging_enabled /\ PortalType \in s.enabled_content_types

-----------------------------------------------------------------------------
(* Baselines and differences. *)

HasSnapshot(row) == row.snapshot_after # None

Newer(rows, i, j) ==
  \/ rows[i].created_at > rows[j].created_at
  \/ rows[i].created_at = rows[j].created_at /\ i > j

(* What search() answers: the first BaselineLimit rows, the newest first. *)
Newest(rows) ==
  {i \in DOMAIN rows : Cardinality({j \in DOMAIN rows : Newer(rows, j, i)}) < BaselineLimit}

(* Slip: the last snapshot found is taken. *)
OldestSnapshot(rows) ==
  LET found == {i \in Newest(rows) : HasSnapshot(rows[i])}
  IN IF found = {} THEN None
     ELSE rows[CHOOSE i \in found : \A j \in found : ~Newer(rows, i, j)].snapshot_after

PreviousSnapshot(rows) ==
  LET found == {i \in Newest(rows) : HasSnapshot(rows[i])}
  IN IF found = {} THEN None
     ELSE rows[CHOOSE i \in found : \A j \in found : ~Newer(rows, j, i)].snapshot_after

(* _historical_snapshot: what an earlier revision of the object had, which one
   is left open, or None when whatever goes wrong. *)
HistoricalSnapshots == Metadata \cup {None}

MetadataDiff(before, after) ==
  IF before = None
  THEN [baseline_available |-> FALSE, added |-> << >>, removed |-> << >>, changed |-> << >>]
  ELSE LET both == DOMAIN before \cap DOMAIN after IN
       [baseline_available |-> TRUE,
        added |-> Restrict(after, DOMAIN after \ DOMAIN before),
        removed |-> Restrict(before, DOMAIN before \ DOMAIN after),
        changed |-> [k \in {k \in both : before[k] # after[k]} |->
                       [before |-> before[k], after |-> after[k]]]]

(* `or': an empty dict is no baseline either. *)
Baselines(r, kind) ==
  IF kind # "modified" THEN {<< >>}
  ELSE IF PreviousSnapshot(r.rows) \notin {None, << >>} THEN {PreviousSnapshot(r.rows)}
  ELSE HistoricalSnapshots

(* History, for ChangesConnect: rows are numbered as they are written, and a
   modification keeps the number of the snapshot that stands before it, the
   last of the BaselineLimit rows before; 0 when there is none or when the
   rows do not stand in the order of their times. *)
NextNumber(rows) == IF rows = << >> THEN 1 ELSE rows[Len(rows)].number + 1

InOrder(rows) ==
  \A i, j \in DOMAIN rows : i <= j => rows[i].created_at <= rows[j].created_at

Preceding(rows) ==
  LET found == {i \in DOMAIN rows : Len(rows) - i < BaselineLimit /\ HasSnapshot(rows[i])}
  IN IF found = {} \/ ~InOrder(rows) THEN 0
     ELSE rows[CHOOSE i \in found : \A j \in found : j <= i].number

(* `type' tells the rows of the handlers from those of other code, which may
   give any event_type, time and details. *)
LifecycleRow(r, kind, before) ==
  [type |-> kind, created_at |-> clock,
   changes |-> MetadataDiff(before, r.content), snapshot_after |-> r.content,
   number |-> NextNumber(r.rows),
   follows |-> IF kind = "modified" THEN Preceding(r.rows) ELSE 0]

ApplicationRow(r, created_at, snapshot) ==
  [type |-> "application", created_at |-> created_at,
   changes |-> None, snapshot_after |-> snapshot,
   number |-> NextNumber(r.rows), follows |-> 0]

IsLifecycle(row) == row.type # "application"

-----------------------------------------------------------------------------
(* Requests.  `site' counts what a request adds to the stream of the site,
   `wrote' has the persistent objects it has changed and `stale' those that
   others have committed since its begin.  `told' lists the lifecycle events
   that came from outside a handler and have to be logged, `heard' counts the
   notifications, `owed' says that the object has changed since it was last
   told of, or that the row that told of it is deleted; all three are history. *)

Init ==
  /\ settings = SettingsOf(<< >>)
  /\ database = [content |-> None, rows |-> << >>, owed |-> FALSE, commits |-> 0]
  /\ request = [t \in Threads |-> None]
  /\ writing = [t \in Threads |-> FALSE]
  /\ clock = 0

Begin(t) ==
  /\ request[t] = None
  /\ request' = [request EXCEPT ![t] =
       [settings |-> settings, handler |-> None,
        isNew |-> database.content = None, first |-> Len(database.rows) + 1,
        content |-> database.content, rows |-> database.rows, site |-> 0,
        wrote |-> {}, stale |-> {}, calls |-> 0,
        told |-> << >>, heard |-> 0, owed |-> database.owed]]
  /\ UNCHANGED <<settings, database, writing, clock>>

(* Code of the request is running, outside of any handler. *)
Running(t) == request[t] # None /\ request[t].handler = None

Handling(t) == request[t] # None /\ request[t].handler # None

Edit(t, metadata) ==
  /\ Running(t)
  /\ metadata # request[t].content
  /\ request' = [request EXCEPT ![t].content = metadata, ![t].owed = TRUE,
                                  ![t].wrote = @ \cup {"content"}]
  /\ UNCHANGED <<settings, database, writing, clock>>

Called(r) == [r EXCEPT !.calls = @ + 1]

WithRow(r, row) == [r EXCEPT !.rows = Append(@, row), !.wrote = @ \cup {"rows"}]

Calls(t) == request[t].calls < MaxCalls /\ Len(request[t].rows) < MaxRows

LogApplication(t, created_at, snapshot) ==
  /\ Running(t) /\ Calls(t)
  /\ request[t].content # None
  /\ request' = [request EXCEPT ![t] =
       Called(WithRow(@, ApplicationRow(@, created_at, snapshot)))]
  /\ UNCHANGED <<settings, database, writing, clock>>

Admitted(t, kind) ==
  /\ kind = "notification" \/ LoggingEnabled(request[t].settings)
  /\ ~writing[t]

(* What docs/CONFIGURATION.md says of the settings. *)
Wanted(r, kind) ==
  \/ kind = "notification"
  \/ r.settings.audit_logging_enabled /\ PortalType \in r.settings.enabled_content_types

(* The request with what a notification sets in it. *)
Told(r, kind, admitted) ==
  LET wanted == Wanted(r, kind) IN
  [r EXCEPT !.handler = IF admitted THEN kind ELSE None,
            !.told = IF wanted /\ kind # "notification" THEN Append(@, kind) ELSE @,
            !.heard = IF kind = "notification" THEN @ + 1 ELSE @,
            !.owed = @ /\ (wanted => kind = "notification")]

(* log_added, log_modified and log_notification up to the write, called by
   the code of the request.  A site is always found; without one
   log_notification does nothing. *)
Notify(t, kind) ==
  /\ Running(t) /\ Calls(t)
  /\ kind # "notification" => request[t].content # None
  /\ kind = "created" => request[t].isNew
  /\ writing' = [writing EXCEPT ![t] = @ \/ Admitted(t, kind)]
  /\ request' = [request EXCEPT ![t] = Called(Told(@, kind, Admitted(t, kind)))]
  /\ UNCHANGED <<settings, database, clock>>

Stored(r, kind, before) ==
  IF kind = "notification" THEN [r EXCEPT !.site = @ + 1]
  ELSE WithRow(r, LifecycleRow(r, kind, before))

(* Whatever runs within log_event notifies in its turn, and that handler is
   run through before log_event goes on. *)
Nested(t, kind) ==
  /\ Handling(t) /\ Calls(t)
  /\ kind # "notification" => request[t].content # None
  /\ \E before \in Baselines(request[t], kind) :
       request' = [request EXCEPT ![t] =
         Called(IF Admitted(t, kind) THEN Stored(@, kind, before) ELSE @)]
  /\ UNCHANGED <<settings, database, writing, clock>>

(* The rest of a handler when log_event returns ... *)
LogEvent(t) ==
  /\ Handling(t)
  /\ \E before \in Baselines(request[t], request[t].handler) :
       request' = [request EXCEPT ![t] =
         [Stored(@, @.handler, before) EXCEPT !.handler = None]]
  /\ writing' = [writing EXCEPT ![t] = FALSE]
  /\ UNCHANGED <<settings, database, clock>>

(* Slip: the context variable is not reset when log_event raises. *)
LogRaisesForGood(t) ==
  /\ Handling(t)
  /\ request' = [request EXCEPT ![t] = None]
  /\ UNCHANGED <<settings, database, writing, clock>>

(* Slip: an error of log_event is swallowed. *)
LogRaisesUnheard(t) ==
  /\ Handling(t)
  /\ request' = [request EXCEPT ![t].handler = None]
  /\ writing' = [writing EXCEPT ![t] = FALSE]
  /\ UNCHANGED <<settings, database, clock>>

(* ... and when it raises, details over the size limit for one: the error ends
   the request, whose transaction is aborted. *)
LogRaises(t) ==
  /\ Handling(t)
  /\ request' = [request EXCEPT ![t] = None]
  /\ writing' = [writing EXCEPT ![t] = FALSE]
  /\ UNCHANGED <<settings, database, clock>>

-----------------------------------------------------------------------------
(* The database.  The object and its stream are persistent objects: a request
   keeps what others have committed to the one it left alone, and conflicts
   with what others have committed to one that it has written. *)

Outdated(r, parts) == IF r = None THEN None ELSE [r EXCEPT !.stale = @ \cup parts]

Commit(t) ==
  LET r == request[t]
      merged(part) == IF part \in r.wrote THEN r[part] ELSE database[part]
  IN /\ Running(t)
     /\ r.wrote \cap r.stale = {} /\ database.commits < MaxCommits
     /\ database' =
          [content |-> merged("content"), rows |-> merged("rows"),
           commits |-> database.commits + 1,
           owed |-> IF r.wrote # {} /\ "content" \notin r.stale
                    THEN r.owed ELSE database.owed]
     /\ request' = [u \in Threads |-> IF u = t THEN None ELSE Outdated(request[u], r.wrote)]
     /\ UNCHANGED <<settings, writing, clock>>

(* An error outside of the handlers, or a conflict. *)
Abort(t) ==
  /\ Running(t)
  /\ request' = [request EXCEPT ![t] = None]
  /\ UNCHANGED <<settings, database, writing, clock>>

(* What a request of another process commits: an edit that was logged, or one
   that nobody was notified of. *)
EditElsewhere(metadata, notified) ==
  LET r == [content |-> metadata, rows |-> database.rows, wrote |-> {}]
  IN /\ database.commits < MaxCommits
     /\ database.content \notin {None, metadata}
     /\ notified => LoggingEnabled(settings) /\ Len(database.rows) < MaxRows
     /\ \E before \in Baselines(r, "modified") :
          database' =
            [content |-> metadata, owed |-> ~notified, commits |-> database.commits + 1,
             rows |-> IF notified THEN Stored(r, "modified", before).rows ELSE r.rows]
     /\ request' = [t \in Threads |-> Outdated(request[t],
                      IF notified THEN {"content", "rows"} ELSE {"content"})]
     /\ UNCHANGED <<settings, writing, clock>>

(* delete_preview: age, overflow and holds choose the rows, so that any of them
   may go.  `stays' has the places of those that stay, in their order. *)
Ascending(size, length) ==
  {f \in [1..size -> 1..length] : \A m, n \in 1..size : m < n => f[m] < f[n]}

TellsLast(rows, i) ==
  IsLifecycle(rows[i]) /\ \A j \in (i + 1)..Len(rows) : ~IsLifecycle(rows[j])

DeletePreview(size, stays) ==
  LET rows == database.rows IN
  /\ database.commits < MaxCommits
  /\ database' =
       [database EXCEPT !.rows = [n \in 1..size |-> rows[stays[n]]],
                        !.commits = @ + 1,
                        !.owed = @ \/ \E i \in DOMAIN rows :
                                        TellsLast(rows, i) /\ \A n \in 1..size : stays[n] # i]
  /\ request' = [t \in Threads |-> Outdated(request[t], {"rows"})]
  /\ UNCHANGED <<settings, writing, clock>>

(* Bound: not while a request runs. *)
SetClock(instant) ==
  /\ \A t \in Threads : request[t] = None
  /\ instant # clock
  /\ clock' = instant
  /\ UNCHANGED <<settings, database, request, writing>>

Kinds == {"created", "modified", "notification"}

Next ==
  \/ \E form \in Forms : SaveSettings(form)
  \/ \E t \in Threads :
       \/ Begin(t)
       \/ \E metadata \in Metadata : Edit(t, metadata)
       \/ \E created_at \in 0..MaxClock, snapshot \in CallerSnapshots :
            LogApplication(t, created_at, snapshot)
       \/ \E kind \in Kinds : Notify(t, kind) \/ Nested(t, kind)
       \/ LogEvent(t) \/ LogRaises(t)
       \/ Commit(t) \/ Abort(t)
  \/ \E metadata \in Metadata, notified \in BOOLEAN : EditElsewhere(metadata, notified)
  \/ \E size \in 0..(Len(database.rows) - 1) :
       \E stays \in Ascending(size, Len(database.rows)) : DeletePreview(size, stays)
  \/ \E instant \in 0..MaxClock : SetClock(instant)

Spec == Init /\ [][Next]_vars

-----------------------------------------------------------------------------
Kept == Metadata \cup {None}

Changes ==
  {MetadataDiff(before, after) : before \in Kept \cup {<< >>}, after \in Metadata}

Row == [type : {"created", "modified", "application"}, created_at : 0..MaxClock,
        changes : Changes \cup {None}, snapshot_after : Kept \cup {<< >>},
        number : Nat \ {0}, follows : Nat]

Settings ==
  {s \in {SettingsOf(form) : form \in Forms \cup {<< >>}} :
     /\ s.audit_logging_enabled \in BOOLEAN
     /\ s.detail_limit \in DetailLimits
     /\ s.enabled_content_types # None}

Parts == {"content", "rows"}

Request == [settings : Settings, handler : Kinds \cup {None}, isNew : BOOLEAN,
            first : Nat \ {0}, content : Kept, rows : Seq(Row), site : Nat,
            wrote : SUBSET Parts, stale : SUBSET Parts, calls : 0..MaxCalls,
            told : Seq(Kinds), heard : Nat, owed : BOOLEAN]

ASSUME NoneAssumption == None \notin Kinds /\ None \notin Request /\ None # {}

Database == [content : Kept, rows : Seq(Row), owed : BOOLEAN, commits : 0..MaxCommits]

(* The settings are valid whatever bodies were sent, the rows are as the
   handlers make them, and requests hold what the code of a request holds. *)
TypeOK ==
  /\ settings \in Settings
  /\ database \in Database
  /\ request \in [Threads -> Request \cup {None}]
  /\ writing \in [Threads -> BOOLEAN]
  /\ clock \in 0..MaxClock

(* Each notification that the settings want logged is logged once, in its
   place, and nothing else is: what a write sets off in turn is not, and no
   thread is left mute by an error in an earlier request. *)
LoggedAsNotified ==
  \A t \in Threads : Running(t) =>
    LET r == request[t]
        new == {i \in r.first..Len(r.rows) : IsLifecycle(r.rows[i])}
    IN /\ Cardinality(new) = Len(r.told)
       /\ \A i \in new : r.rows[i].type = r.told[Cardinality({j \in new : j <= i})]
       /\ r.site = r.heard

LastSnapshotIs(rows, content) ==
  \A i \in DOMAIN rows : TellsLast(rows, i) => rows[i].snapshot_after = content

(* The object and its log are committed together: unless it was changed and
   nobody told, or the row that told of it is deleted, the last snapshot that
   the handlers have logged is the object as it is.  Requests, conflicts, edits
   elsewhere and deletions of any other rows do not matter. *)
LastSnapshotIsContent == ~database.owed => LastSnapshotIs(database.rows, database.content)

Applied(changes, before) ==
  [k \in (DOMAIN before \ DOMAIN changes.removed) \cup DOMAIN changes.added |->
     IF k \in DOMAIN changes.added THEN changes.added[k]
     ELSE IF k \in DOMAIN changes.changed THEN changes.changed[k].after
     ELSE before[k]]

Leads(changes, before, after) ==
  /\ changes.baseline_available
  /\ Applied(changes, before) = after
  /\ \A f \in DOMAIN changes.changed : changes.changed[f].before = before[f]

Connected(rows) ==
  \A j, k \in DOMAIN rows :
    rows[k].follows = rows[j].number /\ rows[j].snapshot_after # << >>
      => Leads(rows[k].changes, rows[j].snapshot_after, rows[k].snapshot_after)

(* The log of an object can be read as its history: the changes of each
   modification lead from the snapshot that stood before it to its own, if
   BaselineLimit rows reached that snapshot and the rows stood in the order of
   their times; and they still do after any deletion that leaves the two rows.
   A snapshot in the details of an application event counts as the code counts
   it. *)
ChangesConnect ==
  /\ Connected(database.rows)
  /\ \A t \in Threads : request[t] # None => Connected(request[t].rows)
=============================================================================
