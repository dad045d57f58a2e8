------------------------------ MODULE AuditGrid ------------------------------
(***************************************************************************)
(* The audit view: audit_log.js in the browser, AuditData on the server and   *)
(* the stream that grows and is deleted from meanwhile.  The grid asks for    *)
(* blocks of rows by their range in the sorted stream, several at a time; the  *)
(* answers come in any order and each is of the state that served it.  A       *)
(* change of the search text, or the refresh button, purges all blocks, and    *)
(* the grid then drops answers to what it asked before.                       *)
(*                                                                          *)
(* AG Grid is a library: when it asks for a block, what it keeps and what it   *)
(* drops is modelled from its options.  The `input' event of the search field  *)
(* and the purge it causes are one step of the browser's one thread.           *)
(***************************************************************************)
EXTENDS LogSearch

CONSTANTS
  Texts,       \* what may be typed into the search field
  FilterModels, \* what the column filters may be set to
  SortModels,  \* what the columns may be sorted by
  NewRows,     \* rows that may be logged, but for their event_id
  BlockSize,   \* cacheBlockSize
  Blocks,      \* bound: blocks the grid looks at
  MaxRows,     \* bound: rows logged
  MaxDeleted,  \* bound: rows deleted
  MaxPurges    \* bound: purges

ASSUME GridAssumption ==
  /\ BlockSize \in 1..PageLimit
  /\ Blocks \in Nat \ {0}
  /\ MaxRows \in Nat /\ MaxDeleted \in Nat
  /\ MaxPurges \in Nat

ASSUME RowAssumption ==
  \A row \in NewRows :
    /\ DOMAIN row = Fields \ {"event_id"}
    /\ row["created_at"] \in Seq(Int)
    /\ \A f \in DOMAIN row : row[f] = None \/ row[f] \in Seq(Int)

ASSUME SortAssumption ==
  \A model \in SortModels :
    Len(model) \in Nat \ {0} /\ DOMAIN model = 1..Len(model)

VARIABLES
  log,      \* the stored rows
  logged,   \* how many were ever logged: the event_id of the next
  search,   \* search.value
  purges,   \* purges so far
  blocks,   \* the grid's cache: None, or what params.success was given
  asked,    \* requests under way, as <<block, purges, text>>
  served,   \* answers under way, with the number of rows there were then
  deleted   \* history: rows were deleted since the last purge

vars == <<log, logged, search, purges, blocks, asked, served, deleted>>

Init ==
  /\ log = << >>
  /\ logged = 0
  /\ search = << >>
  /\ purges = 0
  /\ blocks = [b \in 1..Blocks |-> None]
  /\ asked = {}
  /\ served = {}
  /\ deleted = FALSE

-----------------------------------------------------------------------------
(* The stream. *)

WithId(row, n) == [f \in Fields |-> IF f = "event_id" THEN <<n>> ELSE row[f]]

LogEvent(row) ==
  /\ logged < MaxRows
  /\ logged' = logged + 1
  /\ log' = Append(log, WithId(row, logged))
  /\ UNCHANGED <<search, purges, blocks, asked, served, deleted>>

DeleteEvent(i) ==
  /\ logged - Len(log) < MaxDeleted
  /\ log' = RemoveAt(log, i)
  /\ deleted' = TRUE
  /\ UNCHANGED <<logged, search, purges, blocks, asked, served>>

-----------------------------------------------------------------------------
(* requestUrl: the range of the block, the text as it is now, and the order
   the Recorded column starts with. *)

Query(text) ==
  [Everything EXCEPT !.quick = text,
                     !.sort_model = <<[colId |-> "created_at", sort |-> "desc"]>>]

GetRows(b) ==
  /\ blocks[b] = None
  /\ \A r \in asked : r[1] # b \/ r[2] # purges
  /\ \A a \in served : a.request[1] # b \/ a.request[2] # purges
  /\ asked' = asked \cup {<<b, purges, search>>}
  /\ UNCHANGED <<log, logged, search, purges, blocks, served, deleted>>

(* Slip: the first row of the range is counted from one. *)
PageFromOne(b, q) ==
  Page(log, q, (b - 1) * BlockSize + 1, b * BlockSize)

PageOf(b, q) == Page(log, q, (b - 1) * BlockSize, b * BlockSize)

Serve(r) ==
  /\ asked' = asked \ {r}
  /\ LET page == PageOf(r[1], Query(r[3])) IN
     served' = served \cup
       {[request |-> r, seen |-> Len(log),
         ids |-> [n \in DOMAIN page.rows |-> log[page.rows[n]]["event_id"]]]}
  /\ UNCHANGED <<log, logged, search, purges, blocks, deleted>>

(* fetch rejects, or the answer is not ok: params.fail(). *)
Fail(r) ==
  /\ asked' = asked \ {r}
  /\ UNCHANGED <<log, logged, search, purges, blocks, served, deleted>>

Success(a) ==
  /\ served' = served \ {a}
  /\ blocks' = IF a.request[2] = purges
               THEN [blocks EXCEPT ![a.request[1]] = a] ELSE blocks
  /\ UNCHANGED <<log, logged, search, purges, asked, deleted>>

(* Slip: the rows that are shown stay. *)
NotPurged == UNCHANGED <<purges, blocks, deleted>>

RefreshServerRows ==
  /\ purges' = purges + 1
  /\ blocks' = [b \in 1..Blocks |-> None]
  /\ deleted' = FALSE

(* The input listener, or the refresh button with the text left as it is. *)
Input(text) ==
  /\ purges < MaxPurges
  /\ search' = text
  /\ RefreshServerRows
  /\ UNCHANGED <<log, logged, asked, served>>

Next ==
  \/ \E row \in NewRows : LogEvent(row)
  \/ \E i \in DOMAIN log : DeleteEvent(i)
  \/ \E b \in 1..Blocks : GetRows(b)
  \/ \E r \in asked : Serve(r) \/ Fail(r)
  \/ \E a \in served : Success(a)
  \/ \E text \in Texts : Input(text)

Spec == Init /\ [][Next]_vars

-----------------------------------------------------------------------------
(* Every log is met with the grid at rest, and it is enough to look then at
   what depends on the log alone. *)
Quiet == purges = 0 /\ asked = {} /\ served = {} /\ \A b \in 1..Blocks : blocks[b] = None

(* Pages are served by range, each search on its own, so the ranges must fit:
   laid end to end up to the total, they are the first rows of the whole
   answer, each once and in order, and the total is the number of matching
   rows as far as search() reaches. *)
PagesTile == Quiet =>
  \A text \in Texts, filters \in FilterModels :
    LET q == [Query(text) EXCEPT !.filter_model = filters]
        total == Count(log, q)
        pages == (total + BlockSize - 1) \div BlockSize
    IN /\ total = Least(Cardinality(Matching(log, q)), SearchLimit)
       /\ FlattenSeq([b \in 1..pages |-> PageOf(b, q).rows])
            = SubSeq(Ordered(log, q), 1,
                     Least(pages * BlockSize, Cardinality(Matching(log, q))))

(* Every row that is shown matches the search text that is shown, whichever
   answers are late: in the grid, rows of two searches are never mixed. *)
ShownMatchesSearch ==
  \A b \in 1..Blocks : blocks[b] # None =>
    \A i \in DOMAIN log, n \in DOMAIN blocks[b].ids :
      log[i]["event_id"] = blocks[b].ids[n] => Accepts(Query(search), log[i])

(* Rows logged between two blocks move the others down: a row may show up
   twice.  As long as nothing is deleted and the blocks were served in their
   order, none is passed over: what the blocks show of the rows the first one
   was taken from is a beginning of them, without a gap. *)
LoadedTo(n) ==
  \A b \in 1..n :
    /\ blocks[b] # None
    /\ b > 1 => blocks[b - 1].seen <= blocks[b].seen

ServedInOrderNoGap ==
  \A n \in 1..Blocks :
    LoadedTo(n) /\ ~deleted =>
      LET first == SubSeq(log, 1, blocks[1].seen)
          order == Ordered(first, Query(search))
          shown == {i \in DOMAIN order :
                      \E b \in 1..n :
                        Contains(blocks[b].ids, first[order[i]]["event_id"])}
      IN \A i \in shown : 1..i \subseteq shown

(* An export is cut off at the limit of search() whatever rows it was asked
   for, but what it leaves out is older than all it has. *)
ExportKeepsNewest == Quiet =>
  \A max_rows \in 1..(MaxRows + 1) :
    LET exported == ToSet(AuditExport(log, max_rows)) IN
    /\ Cardinality(exported) = Least(Len(log), Least(max_rows, SearchLimit))
    /\ \A i \in exported, j \in DOMAIN log \ exported : Older(log, j, i)

SortedQuery(filters, model) ==
  [Query(<< >>) EXCEPT !.filter_model = filters, !.sort_model = model]

(* The order by the items of a sort model is the one that sorting what was
   found by each of them in turn, the last one first, arrives at. *)
SortModelIsTheLoop == Quiet =>
  \A filters \in FilterModels, model \in SortModels :
    Ordered(log, SortedQuery(filters, model)) = SortLoop(log, SortedQuery(filters, model))

(* docs/USAGE.md: the endpoint returns rows and the total matching row count. *)
TotalIsMatching == Quiet =>
  \A text \in Texts :
    Count(log, Query(text)) = Cardinality(Matching(log, Query(text)))
=============================================================================
