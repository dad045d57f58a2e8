--------------------------- MODULE MCChainEvidence ---------------------------
(* A small instance of ChainEvidence: up to three rows, three faults.       *)
EXTENDS ChainEvidence, TLC

MCDefaultPolicy == [enabled |-> FALSE, older_than_days |-> 1, max_entries |-> 1]

MCPolicies == {MCDefaultPolicy}

MCSymmetry == Permutations(EventIds)
=============================================================================
