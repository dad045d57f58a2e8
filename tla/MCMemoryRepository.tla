------------------------- MODULE MCMemoryRepository -------------------------
(***************************************************************************)
(* A small instance of MemoryRepository for TLC.                            *)
(***************************************************************************)
EXTENDS MemoryRepository, TLC

(* Disabled, as by default, and enabled with limits the bounds can exceed:
   a log of three events overflows max_entries by two. *)
MCDefaultPolicy == [enabled |-> FALSE, older_than_days |-> 2, max_entries |-> 2]

MCPolicies ==
  {MCDefaultPolicy,
   [enabled |-> TRUE, older_than_days |-> 1, max_entries |-> 1]}

MCSymmetry == Permutations(EventIds) \cup Permutations(PreviewIds)
=============================================================================
