------------------------------ MODULE LogSearch ------------------------------
(***************************************************************************)
(* Reading a stream: search() and count() of MemoryRepository, the page that  *)
(* AuditData answers, and export_events.  Pure operators on a list of rows.   *)
(*                                                                          *)
(* A text is a sequence of character codes.  A row is a function from the     *)
(* fields that can be searched to texts, None where Python has None; its      *)
(* sequence is its place in the list.  Instants are texts too: all stored     *)
(* created_at are isoformat() in UTC, which order like the instants.          *)
(***************************************************************************)
EXTENDS Integers, Sequences, FiniteSets, SequencesExt

CONSTANTS
  Fields,       \* SEARCH_FIELDS, without those that behave like another
  CasePairs,    \* <<upper, lower>> codes that casefold() maps
  SearchLimit,  \* the 1000 rows of search()
  PageLimit,    \* the 100 rows of AuditData
  None

ASSUME FieldAssumption == {"event_id", "created_at", "actor"} \subseteq Fields

ASSUME LimitAssumption == PageLimit \in Nat \ {0} /\ SearchLimit \in Nat /\ PageLimit <= SearchLimit

Least(a, b) == IF a < b THEN a ELSE b
Greatest(a, b) == IF a < b THEN b ELSE a

-----------------------------------------------------------------------------
(* Python's strings.                                                        *)

FoldCode(c) == IF \E p \in CasePairs : p[1] = c
               THEN (CHOOSE p \in CasePairs : p[1] = c)[2] ELSE c

Casefold(t) == [i \in DOMAIN t |-> FoldCode(t[i])]

Within(s, t) ==
  \E i \in 0..(Len(t) - Len(s)) : SubSeq(t, i + 1, i + Len(s)) = s

Less(s, t) ==
  \E n \in 1..Len(t) :
    /\ \A m \in 1..(n - 1) : m <= Len(s) /\ s[m] = t[m]
    /\ n > Len(s) \/ s[n] < t[n]

TextOf(row, field) == IF row[field] = None THEN << >> ELSE row[field]

-----------------------------------------------------------------------------
(* The filters.  A query holds what search() is called with; `exact' stands
   for the six equality filters, `quick' searches the actor, which stands for
   comment, actor and event type joined. *)

Entry(type, filter, values) == [type |-> type, filter |-> filter, values |-> values]

(* Any other type is taken as `contains', AG Grid's notContains among them. *)
OwnTypes ==
  {"blank", "notBlank", "set", "equals", "notEqual", "startsWith", "endsWith"}

EntryAccepts(current, entry) ==
  LET value == Casefold(current)
      needle == Casefold(entry.filter)
  IN \/ entry.type = "blank" /\ current = << >>
     \/ entry.type = "notBlank" /\ current # << >>
     \/ entry.type = "set" /\ current \in entry.values
     \/ entry.type = "equals" /\ value = needle
     \/ entry.type = "notEqual" /\ value # needle
     \/ entry.type = "startsWith" /\ IsPrefix(needle, value)
     \/ entry.type = "endsWith" /\ IsSuffix(needle, value)
     \/ entry.type \notin OwnTypes /\ Within(needle, value)

Accepts(q, row) ==
  /\ \A f \in DOMAIN q.exact : row[f] = q.exact[f]
  /\ q.from = None \/ ~Less(row["created_at"], q.from)
  /\ q.to = None \/ ~Less(q.to, row["created_at"])
  /\ q.quick = << >> \/ Within(Casefold(q.quick), Casefold(row["actor"]))
  /\ \A f \in DOMAIN q.filter_model \cap Fields :
       EntryAccepts(TextOf(row, f), q.filter_model[f])

Matching(rows, q) == {i \in DOMAIN rows : Accepts(q, rows[i])}

-----------------------------------------------------------------------------
(* The order.  sort() is stable, also with reverse=True, so that rows no item
   of the sort model tells apart stay in the order of the list. *)

Sortable(item) == item.colId \in Fields

Tied(rows, item, i, j) ==
  Sortable(item) => TextOf(rows[i], item.colId) = TextOf(rows[j], item.colId)

Before(rows, item, i, j) ==
  LET a == TextOf(rows[i], item.colId)
      b == TextOf(rows[j], item.colId)
  IN Sortable(item) /\ IF item.sort = "asc" THEN Less(a, b) ELSE Less(b, a)

(* Slip: the items are sorted by first to last, so that the last one counts most. *)
PrecedesByLastItem(rows, model, i, j) ==
  \/ \E n \in DOMAIN model :
       /\ Before(rows, model[n], i, j)
       /\ \A m \in (n + 1)..Len(model) : Tied(rows, model[m], i, j)
  \/ (\A n \in DOMAIN model : Tied(rows, model[n], i, j)) /\ i < j

ModelPrecedes(rows, model, i, j) ==
  \/ \E n \in DOMAIN model :
       /\ Before(rows, model[n], i, j)
       /\ \A m \in 1..(n - 1) : Tied(rows, model[m], i, j)
  \/ (\A n \in DOMAIN model : Tied(rows, model[n], i, j)) /\ i < j

Older(rows, i, j) ==
  LET a == rows[i]["created_at"]
      b == rows[j]["created_at"]
  IN Less(a, b) \/ (a = b /\ i < j)

Precedes(rows, q, i, j) ==
  IF q.sort_model # << >>
  THEN ModelPrecedes(rows, q.sort_model, i, j)
  ELSE IF q.sort = "asc" THEN Older(rows, i, j) ELSE Older(rows, j, i)

(* The places in the list of the matching rows, in their order: the n-th has
   n - 1 of them before it. *)
Ordered(rows, q) ==
  LET found == Matching(rows, q)
      before(i) == {j \in found : Precedes(rows, q, j, i)}
  IN [n \in 1..Cardinality(found) |->
        CHOOSE i \in found : Cardinality(before(i)) = n - 1]

(* The loop of search(): the rows found, in the order of the list, are sorted
   by each item of the sort model in turn, the last one first; an item whose
   field cannot be sorted by is skipped.  rows.sort(key, reverse) is stable. *)
Listed(found) ==
  [n \in 1..Cardinality(found) |->
     CHOOSE i \in found : Cardinality({j \in found : j < i}) = n - 1]

StableSort(rows, places, item) ==
  LET first(k, l) ==
        \/ Before(rows, item, places[k], places[l])
        \/ ~Before(rows, item, places[l], places[k]) /\ k < l
  IN [n \in DOMAIN places |->
        places[CHOOSE k \in DOMAIN places :
                 Cardinality({l \in DOMAIN places : first(l, k)}) = n - 1]]

SortLoop(rows, q) ==
  LET model == q.sort_model
      sorted[n \in 0..Len(model)] ==
        IF n = 0 THEN Listed(Matching(rows, q))
        ELSE IF Sortable(model[Len(model) + 1 - n])
        THEN StableSort(rows, sorted[n - 1], model[Len(model) + 1 - n])
        ELSE sorted[n - 1]
  IN sorted[Len(model)]

-----------------------------------------------------------------------------
(* search() and count(), which is the length of a search.                   *)

(* Slip: the first row of a page is left out, the page is one row longer. *)
SlicedLate(s, offset, limit) == SubSeq(s, offset + 2, Least(offset + limit, Len(s)))

Sliced(s, offset, limit) == SubSeq(s, offset + 1, Least(offset + limit, Len(s)))

Search(rows, q, offset, limit) ==
  Sliced(Ordered(rows, q), Greatest(offset, 0),
         Least(Greatest(limit, 0), SearchLimit))

Count(rows, q) == Len(Search(rows, q, 0, Len(rows)))

(* AuditData: both from one repository object, hence from one state. *)
Page(rows, q, startRow, endRow) ==
  LET start == Greatest(startRow, 0)
      end == Greatest(endRow, start + 1)
  IN [rows |-> Search(rows, q, start, Least(end - start, PageLimit)),
      total |-> Count(rows, q)]

-----------------------------------------------------------------------------
(* export_events.  AuditExport gives it the format and max_rows and none of
   the filters, whatever search text the page has put into the address. *)

Everything == [exact |-> << >>, from |-> None, to |-> None, quick |-> << >>,
               filter_model |-> << >>, sort_model |-> << >>, sort |-> "desc"]

ExportEvents(rows, q, max_rows) == Search(rows, q, 0, max_rows)

AuditExport(rows, max_rows) == ExportEvents(rows, Everything, max_rows)
=============================================================================
