------------------------- MODULE MCSQLiteRepository -------------------------
(***************************************************************************)
(* Small instances of SQLiteRepository: one connection for what holds, two    *)
(* on the same file for what does not.                                       *)
(***************************************************************************)
EXTENDS SQLiteRepository, TLC

MCDefaultPolicy == [enabled |-> FALSE, older_than_days |-> 3, max_entries |-> 2]

(* One event is enough to overflow it by one when a second arrives. *)
MCPolicies ==
  {MCDefaultPolicy,
   [enabled |-> TRUE, older_than_days |-> 3, max_entries |-> 1]}

MCSymmetry == Permutations(EventIds) \cup Permutations(PreviewIds)
=============================================================================
