----------------------- MODULE MCStatementRepository -----------------------
(* A small instance of StatementRepository: both classes, three events, one *)
(* with a number that JSONB gives back in another form.                       *)
EXTENDS StatementRepository, TLC

CONSTANTS e1, e2, e3

MCDefaultPolicy == [enabled |-> FALSE, older_than_days |-> 3, max_entries |-> 2]

MCPolicies ==
  {MCDefaultPolicy,
   [enabled |-> TRUE, older_than_days |-> 3, max_entries |-> 1]}

MCJsonb == [b \in Bodies |-> IF b = "float" THEN "integer" ELSE b]

MCOffered ==
  {[event_id |-> e1, body |-> "text", created_at |-> 0],
   [event_id |-> e2, body |-> "text", created_at |-> 0],
   [event_id |-> e3, body |-> "float", created_at |-> 0]}

MCSymmetry == Permutations({e1, e2}) \cup Permutations(PreviewIds)
=============================================================================
