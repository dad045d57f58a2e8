# A verification of zopyx.plone.persistentlogger

TLA+ modules, TLC runs and TLAPS proofs about the audit logger: the hash-chained
event stream of a content object, its retention and legal holds, and the
classes that store it. `PROJECT.json` lists components, runs, mutants, findings,
hazards and theorems, and maps each definition to the lines of the source it
stands for.

## The system

| component | state | operations | talks to |
|---|---|---|---|
| integrity check (repository.py:330-350) | none | verify | the stored rows, whatever has happened to them |
| `MemoryRepository` (repository.py:68-374) | rows of the stream, policy, holds, previews, governance journal | append, set_policy, create_preview, delete_preview, create_hold, release_hold, verify, search, count | base class of the others |
| `ZODBRepository` (repository.py:385-500) | the same, in one `PersistentMapping` annotation | each mutator: load on construction, super(), `_save` of the whole state | Zope transactions, conflicts, publisher retries |
| `SQLiteRepository` (rdbms.py:20-169) | the same in memory; rows also in `audit_event` | open, append and delete_preview with `_persist_events`, close | a database file, other instances on it |
| `PostgresRepository` (rdbms.py:172-286) | as SQLite, over psycopg | as SQLite | a server, READ COMMITTED |
| `DuckDBRepository` (rdbms.py:289-371) | as SQLite; every statement commits by itself | as SQLite, without a delete_preview of its own | a database file |
| API (api.py) | none | log_event, search, verify, set_retention_policy, export | a fresh `ZODBRepository` per call |
| `Outbox` (outbox.py) | envelopes with attempts, next time, dead-letter flag | enqueue, deliver | a `send` callback |
| search and grid (repository.py:105-188, browser.py:35-65, audit_log.js) | rows, blocks held by the grid | filter, sort, page, count | one request per block |
| subscribers, notifications (subscribers.py) | `_WRITING_AUDIT` context variable | log_added, log_modified, log_notification | Plone events, the API, database history |
| control panel (controlpanel.py) | registry settings | save, logging_enabled | subscribers |
| retention views (browser.py:123-162) | none | POST check, then one repository call | `ZODBRepository` |
| models, serialization | none | validation, redaction, canonical form, digest | all |

What is hard about it:

* **the chain and deletion**: a deletion takes rows out of the middle of a hash
  chain, renumbers and reseals the survivors; replays, earlier previews and
  holds refer to rows that have moved or gone;
* **time between a preview and its confirmation**: ids selected minutes ago,
  holds placed since, confirmation twice, by another actor, after expiry;
* **concurrent requests**: all state is one persistent object, loaded, copied
  and written back whole; requests conflict and are run again, and a repeated
  log_event draws a new event id;
* **saves that fail**: the SQL classes change their lists first and copy them
  to the database after;
* **restarts**: the SQL classes load rows and no holds, policy or journal;
* **two instances on one database**: each writes back what it once loaded;
* **a store that changes rows**: verify() sees only what is there, and must tell
  what was lost, changed or restored from digests alone;
* **statements that commit one by one**, or fail in a transaction that nobody
  rolls back: what a crash between them leaves is the next instance's log;
* **delivery**: rounds of the outbox overlap, share envelopes, and a send may
  take effect and fail; time passes while a round is sending;
* **pages of a stream that moves**: each block is a search of its own state,
  answers are late, the search text has changed meanwhile;
* **handlers in handlers**: a write may set off the subscribers again, an error
  leaves them in the middle, and a baseline is found by time stamps.

`PROJECT.json` lists these as hazards, each at its line.

Correct means, for the repository: `verify()` accepts every state the methods
reach; an event is stored once however often it is sent; a held event is not
deleted; every deletion and hold is in the journal; a preview authorises one
deletion; survivors keep content and order. For ZODB: that, for the committed
annotation, under any interleaving. For SQLite: that every answered call is in
the file after any failure. For the other SQL classes: that what is left
verifies, and that an answer means the whole list is stored. For the outbox: an
accepted envelope is kept until it has arrived, attempts are bounded, and it
settles. For the grid: what it shows matches the search, in order and without
gaps. For the subscribers: what the settings want logged is logged once, and the
log of an object reads as its history.

## Modules

* `AuditRepository` is the functional core: the records, the chain, and for
  each method of `MemoryRepository` what it answers (`...Outcome`) and the
  state it leaves (`After...`). It has no variables; the state machines below
  apply it to the state they keep in memory, in transactions or beside a
  table. Data is abstracted as its header says; above all SHA-256 is taken to
  be injective, so that a digest is the evidence it hashes.
* `GovernedLog` is the abstract specification: a log of events with distinct
  ids that grows at its end, except for deletions that spare protected events,
  keep the order of the rest and are journaled with selection and count. It
  knows no rows, digests, previews or policies.
* `MemoryRepository` is one repository object; one action per method, with any
  arguments, and a clock. `repo` is the five attributes of the object.
* `ZODBRepository` is the class under Zope: `store` is the committed
  annotation, `txn[q]` the private copy of a request's transaction with the
  serial it has read, `call[q]` what the request asks for. `Execute` is
  construction, `_load`, the method and `_save` (or `Refuse`, if the method
  raises); `Commit`, `Conflict`, `Answer`, `Crash` are Zope's and ZODB's.
* `SQLiteRepository` is the class on a database file: `table` is what is
  committed, `mem[c]` the inherited lists of each open instance, `writer` the
  connection that holds an open write transaction. `told` and `placed` are
  history: what callers have been told of events and holds.
* `StatementRepository` is `PostgresRepository` and `DuckDBRepository`, which
  differ in what surrounds the statements of `_persist_events`: `DeleteRows`,
  `InsertRow` and `Return` are one statement each, `work` is what an open
  psycopg transaction has made of `table`, and `Fail` or `Close` may come
  between any two. `Fail` is one of three: an error of the client, after which
  the transaction stays open (`NotSent`); an error of the server or of the
  connection, after which nothing is committed any more (`Aborted`); a commit
  that is refused (`NotCommittable`). `AsStored` is the way of a row into the
  table and back: DuckDB keeps the text of `details`, PostgreSQL's JSONB gives
  back `Jsonb[body]`, which may be another body than the one that was digested.
  It uses `AuditRepository` for the lists in memory.
* `ChainEvidence` is verify() over a store that loses, swaps, changes and
  restores rows behind the repository, which goes on appending and deleting
  from what it finds. `written` and `absorbed` are history: every list ever
  stored, and whether one was stored over rows that no call has left so. A
  deletion digests what it finds, so from then on the rows no longer tell what
  the store has done.
* `Outbox` is the class with concurrent calls of deliver: `items` is the dict,
  `todo[r]` what is left of a round's snapshot, `sending[r]` whether it is in
  the callback. Time is kept relative to the present.
* `LogSearch` has the reading side as operators: `Accepts` is the filter,
  `Precedes` the order, `Search`, `Count`, `Page` and `AuditExport` what is
  answered. Strings are sequences of codes, since case folding, prefixes and
  their order are what the filters are about.
* `AuditGrid` is audit_log.js, the AuditData view and the stream beside it:
  `GetRows`, `Serve`, `Fail` and `Success` are the four moments of a request,
  `Input` the search field. AG Grid itself is a library and marked external.
* `Subscribers` is the three event handlers, the context variable
  `_WRITING_AUDIT`, the control panel that configures them, and the requests
  they run in: `Notify` is a handler up to its write, `Nested` what the write
  sets off, `LogEvent` and `LogRaises` its two ends. `PreviousSnapshot` is the
  loop over a search, said of sets: of the `BaselineLimit` newest rows, the
  newest that has a snapshot. `LogApplication` is log_event called by other
  code, with any created_at and any `snapshot_after` in its details.
  `DeletePreview` takes any rows out of the stream, as age, overflow and holds
  may choose. `told`, `heard` and `owed` are history: which lifecycle events a
  request has to log, how many notifications, and whether the object has
  changed since it was last told of or the row that told of it is deleted. So
  are the fields `number` and `follows` of a row: its number in the order of
  writing, and the number of the snapshot that stood before it.
* Two closed forms that the models use stand beside the loops of the code they
  are for: `Resealed` and the loops of delete_preview (`FilterLoop`,
  `ResealLoop` in `AuditRepository`), `Precedes` and the stable sorts over the
  reversed sort model (`StableSort`, `SortLoop` in `LogSearch`). The loops are
  recursive functions over the number of steps done.
* A module `MC...` gives the constants of the module it is named after values
  for TLC.
* A module `...Proofs` holds the theorems about the module it is named after:
  `MemoryRepositoryProofs`, which has those about `ChainEvidence` too,
  `ZODBRepositoryProofs`, `SQLiteRepositoryProofs`, `StatementRepositoryProofs`,
  `OutboxProofs`, `AuditGridProofs` and `SubscribersProofs`.
  `AuditRepositoryProofs` has the lemmas about the methods that the first four
  rest on.

`ZODBRepository`, `SQLiteRepository`, `StatementRepository` and `ChainEvidence`
compose `AuditRepository` with what stores its rows; `AuditGrid` composes
`LogSearch` with the browser and a stream that moves.

A definition under a comment `Slip:` is a faulty variant of the one after it;
the mutants of `PROJECT.json` put it in that one's place and the property must
fail.

A call that raises before it changes anything leaves the state as it was: in
`MemoryRepository` it is a stuttering step, in `SQLiteRepository` no step, in
`ZODBRepository` it ends the request (`Refuse`). The log of `AuditGrid` and
`Subscribers` is reduced to rows that appear and go; how they are chained is
`AuditRepository`'s matter.

## Runs

| run | question | result |
|---|---|---|
| `memory` | do the methods, called in any order, keep chain, replays, holds, journal and previews consistent and implement `GovernedLog`? | yes |
| `zodb` | do concurrent requests with conflicts, retries and crashes act as if executed one after the other, each committed call once, and do all of them end? | yes |
| `sqlite` | with one instance at a time, is every answered append and deletion in the file through failing saves, closes and reopenings? | yes |
| `statements` | do PostgreSQL and DuckDB leave a table that verifies, keep what was answered, and answer only when the whole list is stored, through errors and crashes between statements? | yes, but for rows whose details JSONB rewrites: verify() reports those; for DuckDB an answered append may be lost with a save that is cut short, and answered deletions are no part of the claim |
| `evidence` | do verified rows have to be what the repository has written, and does a noted head pin the list? | yes, the first until the repository has stored over a change: a deletion seals what it finds; a missing end and an older stream pass without the head |
| `outbox` | is every accepted envelope kept until it has arrived, retried a bounded number of times, and settled, with rounds that overlap? | yes |
| `grid` | do pages fit together, and does the grid show matching rows in order, without gaps, beside a stream that changes? | yes |
| `subscribers` | is each notification logged once, and do records and object agree, through nested calls, errors, conflicts and edits elsewhere? | yes; also with rows of other code in the stream and after deletions of any rows |
| `duckdb_deletion_lost` | is a deletion, once answered, there to stay (docs/USAGE.md:82)? | no: DuckDBRepository saves no deletion |
| `total_capped` | is the total the number of matching rows (docs/USAGE.md:56-57)? | no: it is a search, which ends at 1000 |
| `sqlite_hold_lost` | does an active hold block deletion across reopening (docs/API.md:116)? | no: holds are not stored |
| `sqlite_lost_update` | does verify() detect that an answered event is missing (README.md:11 of the repository)? | no: a second instance replaces the table and the rest verifies |

**Bounds.** `memory`: three event ids (a deletion can take first, middle or
last, and leave one or two to reseal), two preview ids (one confirmed while
another is open), one hold id (created, released and created again), three
journal entries (hold, policy and deletion in any order), clock 0..2 with
expiry after 1, two creation times so that age and overflow select different
events, policies disabled and enabled with max_entries 1. `MaxTime` and
`MaxJournal` appear in guards only. Events and previews are symmetric.
`zodb`: three requests, the least number in which one can lose two attempts to
two others and give up with `MaxAttempts = 2`; every bag of six kinds of call;
the stream starts with two old events and an open preview on both, the state in
which deletion, hold, policy and append interfere. Requests are interchangeable,
so one assignment of calls is checked per bag; no symmetry is used there, as
the run checks liveness. Requests end, so this run alone does not check for
deadlock: `EveryRequestEnds` says more.
`sqlite`: three events, one instance (two for `sqlite_lost_update`), two
previews, one hold, two journal entries; saves may fail any number of times.
`statements` (and `duckdb_deletion_lost`): both classes, three events so that a
save can be cut before, between and after its rows, and one of which has
details that JSONB gives back in another form (the other two are
interchangeable); two previews, two journal entries; any number of errors,
crashes and reopenings.
`evidence`: three events, five writes and three faults. Three rows have a first,
a middle and a last; a mixture of two streams takes two writes of the middle
and a restored row; three faults allow a loss, a change and a restoration in
one trace.
`outbox`: two overlapping rounds, the least that can interfere; two keys, one of
which has two envelopes, so that it can be enqueued again while an old snapshot
still holds the first; two attempts, so that one failure is retried and the
next exhausts. `MaxAge` bounds how long a round lasts against the clock: it can
read a `now` that is one second old, which is what makes a delay count from
the past.
`grid` (and `total_capped`): blocks of one row, two of them, a search limit of
two that three rows exceed; two texts and two cases; one deletion, one purge;
rows of three kinds, of which two share a time and two an actor, so that the
second item of a sort model decides. `SortModelIsTheLoop` is checked on every log the run reaches,
for the sort models of `MCSortModels`.
More blocks repeat what two do: overlap, shift and lateness are between pairs.
The real constants are 25 rows per block (audit_log.js:159), at most 100 rows
per page and 1000 per search. The grid also forgets blocks beyond five
(`maxBlocksInCache`) and asks for them again; that is not modelled: a block,
once loaded, is kept until the next purge.
`subscribers`: one worker thread besides the requests of other processes, which
commit as one step; two commits, three rows, two calls beyond the outermost
handler, a baseline that looks two rows back where the code looks 1000, so that
a row with a snapshot can be out of its reach. The object has one of two
snapshots, of one and of two fields, so that a change adds, removes and alters
a field; rows of other code have no snapshot, an empty one or one of the
object's, and any created_at. The clock moves between requests, also back. Any rows
may be deleted at once, all of them too; a deletion is one of the commits.
`_historical_snapshot` may answer any earlier revision or none.

The runs `evidence`, `grid` and `subscribers` do not check for deadlock: their
bounds are used up and nothing is left to do.

**Fairness.** `ZODBRepository` states weak fairness of each request's
own steps. A worker thread that has taken a request runs it to its end; a crash
ends the request too, and nothing is assumed of crashes or of the clock. The
number of attempts is bounded by the publisher, so no stronger fairness is
needed. `Outbox` states weak fairness of the clock, of the start of a round and
of the work of a round, which says what its caller must do: deliver is a method
that a job calls again and again, and a send returns or raises in the end.
Nothing says that a send ever succeeds, nor that anything is enqueued.

**What the properties say**, beside a type invariant each: see the comment on
each of them. The ones with most content are `ImplementsGovernedLog` (a
refinement, for the memory repository and for the committed annotation),
`ReplayRecognised`, `PreviewReachesPolicy`, `JournalMatchesHolds`,
`LoggedExactlyOnce`, `ConfirmedOnce`, `AnsweredIsDurable`, `AnswerMeansWholeList`,
`VerifiedWasWritten`, `DeliveriesBounded`, `ServedInOrderNoGap`, `ChangesConnect`.

## Proofs

TLAPS proves the theorems below for all values of the constants that satisfy
the named assumptions of the modules. `PROJECT.json` says of each which property
of which run it states.

**Assumptions.** Times are integers, limits natural numbers, attempts, blocks
and page limits positive, and a page is no larger than a search
(`BlockSize <= PageLimit <= SearchLimit`). `None` is no id, hold, preview,
repository, list of rows, request or empty set: Python's None is none of them. For `ZODBRepository`,
the requests are finitely many, the annotation they find is one the methods have
left (`WellFormed(InitialStore)`), and UUIDs are drawn once and unknown to it.
For `Outbox`, the rounds are finitely many. For `AuditGrid`, each row has every
field and a created_at, and a sort model has at least one item. For `Subscribers`, each
snapshot of the object is a function, neither empty nor None, and a caller's
snapshot is one of these, the empty one or None. For `StatementRepository`,
`Jsonb` maps bodies to bodies, in any way, and `Offered` are events. Where an instance has to be alone on its file, the
theorem says so.

**MemoryRepository**: `TypeCorrect`, `ChainAlwaysIntact`,
`ReplayAlwaysRecognised`, `PreviewAlwaysReachesPolicy`,
`OneDeletionPerPreviewAlways`, `JournalAlwaysMatchesHolds`,
`ResealAlwaysTheLoop`, `MemoryImplementsGovernedLog`.

`ChainIntact` is not inductive: after a deletion nothing is known of the new
rows unless the old ones were exactly the chain over their events, and an
append keeps ids distinct only if they were. The inductive invariant `IInv` is
therefore the type invariant with *well-formedness*:
`events = Chain(Logged(events))`, and the ids of `Logged(events)` are distinct.
`AuditRepositoryProofs` shows that a chain verifies (`ChainProperties`), that a
new row extends it (`ChainAppend`), that filtering a log yields an
order-preserving embedding with exactly the kept events (`RankProperties`,
`NthProperties`, `SurvivorsProperties`, `SurvivorsDistinct`), and one
`...Preserves` lemma per method. The refinement uses the embedding of
`SurvivorsProperties` as the witness for `GovernedLog!RemainsOf`, and the guard
of `DeleteOutcome` for the protected events.
`PreviewReachesPolicy` follows from `IInv` alone, by counting what the policy
selects. The other two are inductive with what they speak of:
`PreviewCount` adds that open previews are among the finitely many drawn, so
that a confirmation closes one preview for the deletion it journals;
`HoldsMatch` adds that the last entry about a hold exists, so that each new
entry is the last about its own hold and no other.
`ResealAlwaysTheLoop` compares the closed form of a deletion with the code's
loops, for every log and selection. What a loop has done after n rows is the
closed form over the first n rows; a first n where this fails would be preceded
by one where it holds, and one turn of the loop leads from there to n. The same
argument by a first counterexample (`SmallestElement`) takes the place of
induction wherever a proof goes along a sequence.

**ZODBRepository**: `ZODBTypeCorrect`, `StoredChainAlwaysIntact`,
`ConflictAlwaysMeansProgress`, `JournaledAlwaysExactlyOnce`,
`ConfirmedAlwaysOnce`, `LoggedAlwaysExactlyOnce`, `ZODBImplementsGovernedLog`,
for any number of requests in any interleaving.

The invariant `TInv` says that the annotation is well formed, that its serial is
the number of requests saved, and (`Executed`) that a private copy whose
transaction would still commit is its call applied to the annotation *as it is
now*. So only commits matter, and each of them is one call on the annotation;
the refinement and the chain follow. The rest are invariants on top of it:
`Progress` relates a lost attempt to the serial it had read, `Confirmations`
says that a preview once deleted stays closed because whoever drew its id has
been committed, `EventLogged` that an event id drawn by an attempt is known to
the annotation only if that attempt was committed. The last two need that UUIDs
are drawn once: an attempt that was lost leaves nothing under its id.

**SQLiteRepository**: `SQLiteTypeCorrect` and `TableAlwaysVerifies` for any
number of instances on the file. `SInv` says that the table is sealed and every
open instance well formed: each save writes the whole list of a well-formed
instance, each opening makes one from the table. `AnsweredAlwaysDurable` and
`RetryAlwaysRecognised` hold if one instance is alone on the file;
`sqlite_lost_update` shows that the first needs this. `DInv` says that table and
instance both agree with what callers were told; it rests on what a call does to
the set of stored ids (`AppendIds`, `DeleteIds`). `AInv` adds that where both
have an answered event they have the same one, after a failed save too.

**StatementRepository**: `LeftoverAlwaysVerifies`,
`AnswerAlwaysMeansWholeList`, `AnsweredAlwaysKept`,
`PostgresAlwaysKeepsDeletions`. With JSONB neither the table nor an instance
that was loaded from it is sealed. What both keep is `Linked`: rows are
numbered, one per event, each holds the digest stored in the row before, and
its own digest vouches for it unless its body is one that JSONB gives back for
others (`Odd`). `SInv` says this of the committed table and of the instance,
and that the rows a running save sees are the first rows of the instance as
stored, as many as it has inserted (`InSave`): a beginning of such a list is
such a list (`FirstLinked`), it stays one on its way through the table
(`WrittenLinked`) and with a new row (`AppendLinked`), and a deletion seals
whatever it leaves. verify() then reports nothing but a row in `Odd`. `KInv`
relates what callers were told to the rows of the instance,
which the next save writes; for DuckDB only as long as no save was cut short.
`AnswerMeansWholeList` is an action property and follows from `SInv` by the
step that answers.

**ChainEvidence**, for any events and any number of faults and writes:
`HeadAlwaysPinsRows` and `VerifiedAlwaysWritten`. `VerifiedTrail` shows that as
far as verify() gets, each digest is the sequence of all events and numbers
up to its row; digests that are equal then have rows that are equal, field by
field (`HeadDeterminesRows`). This is an induction over the rows, done by
the first row that goes astray (`SmallestElement`). The invariant of the second
is `Authentic`: no fault computes a digest, so each stored digest is one the
repository has written, and the last one that verify() accepts is all that comes
before it; with `Faithful`: as long as nothing was stored over a change, every
list it has written verifies, so that the list whose row has that digest begins
with those rows. The first needs neither and holds after a change is sealed
too. Both rest on the abstraction that SHA-256 has no collisions.

**Outbox**, for any number of keys, envelopes and overlapping rounds:
`OutboxTypeCorrect`, `NothingEverLost`, `RetriesAlwaysBounded`,
`DeliveriesAlwaysBounded`. `OInv` says that the dict and each snapshot have one
envelope per key. Neither bound is inductive: a round that is inside `send` has
yet to count its attempt, and one that still holds a key may yet deliver it.
`RInv` therefore bounds the attempts together with the sends under way, `DInv`
the deliveries together with the rounds that hold the key.

**AuditGrid**: `PagesAlwaysTile`, `ShownAlwaysMatchesSearch`,
`ServedInOrderAlwaysNoGap`, `ExportAlwaysKeepsNewest`,
`SortModelIsAlwaysTheLoop`, for any texts, rows, limits and sizes of blocks. That `Precedes` is a strict total order on the rows
for every sort model (`PrecedesOrder`) gives each row a place, the number of
rows before it, and a page is the rows whose place is in a range
(`PlaceProperties`, `OrderedProperties`, `BlockHolds`): pages are ranges that
fit together (`PagesFit`), and an export is the first of them.
The invariant `GInv` says that requests since the last purge asked for the text
in the search field, that answers name rows that match their own text, and that,
as long as nothing was deleted, an answer is the block of what the stream was
when it was served, a prefix of what it is now. `NonePassedOver` is then: new
rows only push older ones to higher places (`PrefixPlace`), so a row the first
block was taken from, if it comes before a row that is shown, is in the first
block, in the order served, whose end it has not moved past.

`SortModelIsAlwaysTheLoop` is about the order itself: each turn of `SortLoop`
arranges the rows by one more item of the sort model and keeps what the turns
before it arranged where that item is equal, so that after the last turn the
rows are in the order `Precedes`, by which they have one arrangement only.

**Subscribers**, for any number of threads, any snapshots, settings and limit of
the baseline: `SubscribersTypeCorrect`, `LoggedAlwaysAsNotified`,
`LastSnapshotAlwaysContent`, `ChangesAlwaysConnect`. None of the three is
inductive, as each speaks of moments between handlers or commits. `IInv` says of
every request, whatever it is doing:
* `writing[t]` is set exactly while its thread is in a handler, so that nothing
  nested is admitted and no later request finds it set;
* `LogSoFar`: the rows with a snapshot that it has added are the events it was
  told of, in their order, but for the one a handler is about to write;
* `Owing`: unless it owes an entry, its rows end with its content as last
  snapshot, and a request that has written the object has written the log;
* `InStep`: content that neither it nor others have touched is still that of the
  database, and content that others have committed without a row is owed there.
  With conflicts on what both have written this covers each way of merging a
  commit (`CommitStep`): a request that added rows only, while the object was
  edited elsewhere, can be committed just if that edit is owed;
* `Linked`: rows are numbered in their order, each follows one that stood before,
  and the changes connect.

A row that a handler logs follows the snapshot that stands before it only if
the rows then stand in the order of their times; in such a list the newest
snapshot is the last one (`PreviousIsLast`), so it is the baseline, and
`DiffApplies` shows that a difference leads from one snapshot to the other
(`LinkedLogged`). Numbers go with the rows, so a deletion of any rows leaves
each pair of those that stay as it was (`LinkedRest`). A deletion of the row
that told of the content last is owed; any other leaves it the last
(`LastSnapshotOfRest`).

**Only model-checked:** liveness, which is out of the prover's reach:
`EveryRequestEnds` and `EveryEnvelopeSettles`. Every invariant, action property
and refinement of the passing runs is proved.

## Not modelled, and plan

Left out for good: HTML, style sheets, ZCML, profiles, demo and CI scripts;
authentication and permissions, which are Plone's; health(), which only reads.
The fields of an event other than id and time are one `body`. `now` and
`ttl_seconds` of create_preview are the clock and a constant, as in every call
of the package. The retention views check for POST and pass on one call that
`ZODBRepository` models. The envelopes of the outbox are in memory: a crash of
the process ends them with it, and is no state of the model.

Partly: of exports, which rows they hold, and neither format nor byte budget
nor the escaping of cells; of models and serialization, what rows and digests
are made of, and neither validation nor redaction; of PostgreSQL, one instance
at a time.

Where docs and code part without a run of its own:

* docs/USAGE.md:63 says that exports use the current search text. `AuditExport`
  (browser.py:111-114) passes on the format and no search; the model's
  `AuditExport` does the same.
* An export asks for 10,000 rows, the API allows 100,000, and search() answers
  1000 at most (repository.py:180): the cause of `total_capped`.
  `ExportKeepsNewest` says what an export then has.
* README.md:11 of the repository says that the chain detects missing or changed
  records. A stream without its last rows verifies, also after an append has
  gone on from there, and so does a whole older one. A change or a loss in the
  middle is detected only until the next deletion: delete_preview
  (repository.py:270-275) digests anew what it finds and verifies nothing, so
  that from then on the damaged stream verifies. `VerifiedWasWritten` says what
  is detected and ends where the repository stores over a change (`absorbed`);
  a head noted before excludes all of these (`HeadPinsRows`).
* docs/API.md:116-117 says that active legal holds are excluded from previews and
  block deletion. A hold may be placed on the whole object (`event_id` None,
  models.py:145); it is listed as active, and repository.py:216-225 and 256-258
  ask for holds with an event id only, so that it protects nothing. The models
  do the same: their protected events are those with an active hold of their
  own.
* PostgresRepository keeps details as JSONB (rdbms.py:205, 254), which gives
  some numbers back in another form: 1e16 as an integer, -0.0 as 0.0. After a
  reopening verify() reports such a row although nobody has touched it, and a
  retry of its append is a DuplicateEvent instead of an IdempotentReplay. DuckDB
  and SQLite keep the text. `LeftoverVerifies` says that this is all that is
  ever reported.
* `_historical_snapshot` is to read the last committed state
  (subscribers.py:87); it opens the database before the transaction that wrote
  it (subscribers.py:93), and any error there means no baseline.
* The control panel checks detail_limit, backend and transaction_mode, and no
  code reads what it stores; a body that lacks a setting resets it to its
  default (controlpanel.py:209).
* Rows of equal time are newest first by default and oldest first when the
  grid sorts by Recorded, as reversed sorts are stable.
* An answer to an earlier search text still sets the total in the status line
  (audit_log.js:125); the rows are dropped.
* enqueue for the key of a dead letter returns the dead letter
  (outbox.py:35): nothing is sent until it is removed.

Three hazards are in the code and under no property: the statements of a
SQLite save become visible together by SQLite's transaction, which is assumed
(`Save` is one step); a delivery round counts the next attempt from a `now`
that may be old, which the model has and no doc rules out; and a send that took
effect and raised is repeated, as often as there are attempts. `NothingLost` is
about keys: it says nothing of an envelope enqueued under a key the receiver
has had before.

In order:

1. Two PostgreSQL writers on one table: the row locks of DELETE under READ
   COMMITTED, and the empty table, on which they fork the chain.
2. Validation, redaction and size limits of models.py as operators; the formats
   of exports.
