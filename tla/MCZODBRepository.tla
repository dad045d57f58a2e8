-------------------------- MODULE MCZODBRepository --------------------------
(***************************************************************************)
(* Concurrent requests on an object whose stream has two events past their   *)
(* retention time and an open preview that selects both.                     *)
(***************************************************************************)
EXTENDS ZODBRepository, TLC

MCTimes == {-2, 0, 1}

MCIdOf == [x \in Requests \X (1..MaxAttempts) |-> x]

(* Drawn by an earlier request, number 0. *)
Old1 == <<0, 1>>
Old2 == <<0, 2>>
Open == <<0, 1>>

MCEventIds == {Old1, Old2} \cup (Requests \X (1..MaxAttempts))
MCPreviewIds == {Open} \cup (Requests \X (1..MaxAttempts))

MCDefaultPolicy == [enabled |-> FALSE, older_than_days |-> 1, max_entries |-> 5]
MCPolicy == [enabled |-> TRUE, older_than_days |-> 1, max_entries |-> 2]

MCPolicies == {MCDefaultPolicy, MCPolicy}

OldEvent(id) == [event_id |-> id, body |-> "old", created_at |-> -2]

(* Reached by two log_event calls, set_policy and create_preview. *)
MCInitialStore ==
  LET first == AfterAppend(EmptyRepository, ObjectUid, OldEvent(Old1))
      both == AfterAppend(first, ObjectUid, OldEvent(Old2))
  IN AfterCreatePreview(AfterSetPolicy(both, MCPolicy, "admin"),
                        Open, "admin", 0)

MCCalls ==
  <<[op |-> "log_event", body |-> "new"],
    [op |-> "set_policy", policy |-> MCDefaultPolicy, actor |-> "admin"],
    [op |-> "create_preview", actor |-> "admin"],
    [op |-> "delete_preview", id |-> Open, actor |-> "admin", blank |-> FALSE],
    [op |-> "create_hold", hold_id |-> "h1", event_id |-> Old2, actor |-> "admin"],
    [op |-> "release_hold", hold_id |-> "h1", actor |-> "admin"]>>

(* Requests differ by their calls only: one assignment for every bag of calls. *)
MCWorkloads ==
  {[q \in Requests |-> MCCalls[f[q]]] :
     f \in {f \in [Requests -> 1..Len(MCCalls)] :
             \A p, q \in Requests : p < q => f[p] <= f[q]}}
=============================================================================
