----------------------------- MODULE MCAuditGrid -----------------------------
(***************************************************************************)
(* A small instance of AuditGrid: two texts in two cases, two instants,       *)
(* blocks of one row, a search limit that three rows exceed.                  *)
(***************************************************************************)
EXTENDS AuditGrid

A == 1
b == 4
a == 3

MCFields == {"event_id", "created_at", "actor"}

MCCasePairs == {<<1, 3>>, <<2, 4>>}

MCTexts == {<< >>, <<a>>}

MCNewRows ==
  {[created_at |-> <<1>>, actor |-> <<A, b>>],
   [created_at |-> <<2>>, actor |-> <<A, b>>],
   [created_at |-> <<2>>, actor |-> <<b>>]}

MCFilterModels ==
  {<< >>}
    \cup {[actor |-> Entry(type, <<b>>, {<<b>>})] :
             type \in {"contains", "startsWith", "endsWith", "notEqual", "set", "blank"}}

Item(colId, sort) == [colId |-> colId, sort |-> sort]

MCSortModels ==
  {<<Item("actor", s), Item("created_at", t)>> : s, t \in {"asc", "desc"}}
    \cup {<<Item("details", "asc"), Item("created_at", "desc")>>}
=============================================================================
