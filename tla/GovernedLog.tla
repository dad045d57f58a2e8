---------------------------- MODULE GovernedLog ----------------------------
(***************************************************************************)
(* What the audit logger promises for one object's stream, whatever class  *)
(* stores it: a log of events with distinct ids that only grows at its end, *)
(* except for governed deletions.  A deletion removes events that are not   *)
(* under legal hold, keeps every other event unchanged and in its order,    *)
(* and is written to a journal that itself only grows.                      *)
(***************************************************************************)
EXTENDS Integers, Sequences

VARIABLES
  log,        \* the sequence of recorded events
  protected,  \* ids of the events under an active legal hold
  journal     \* the governance journal

gvars == <<log, protected, journal>>

LogIds(l) == {l[i].event_id : i \in DOMAIN l}

(* `new' is `old' without the events of `erased': some order-preserving map
   embeds it in `old' and reaches exactly the events that stay. *)
RemainsOf(new, old, erased) ==
  \E f \in [DOMAIN new -> DOMAIN old] :
    /\ \A m, n \in DOMAIN new : m < n => f[m] < f[n]
    /\ \A n \in DOMAIN new : new[n] = old[f[n]]
    /\ {f[n] : n \in DOMAIN new} = {i \in DOMAIN old : old[i].event_id \notin erased}

Init == \A i, j \in DOMAIN log : log[i].event_id = log[j].event_id => i = j

(* One more event, with an id no event of the log has. *)
Record ==
  /\ Len(log') = Len(log) + 1
  /\ log' = Append(log, log'[Len(log) + 1])
  /\ log'[Len(log) + 1].event_id \notin LogIds(log)
  /\ UNCHANGED <<protected, journal>>

Journal(isDeletion) ==
  /\ Len(journal') = Len(journal) + 1
  /\ journal' = Append(journal, journal'[Len(journal) + 1])
  /\ (journal'[Len(journal) + 1].event_type = "retention.events.deleted")
       <=> isDeletion

(* A governed deletion: its journal entry names the ids and the number of
   events that went. *)
Erase ==
  /\ Journal(TRUE)
  /\ LET entry == journal'[Len(journal) + 1] IN
       /\ entry.selection \cap protected = {}
       /\ RemainsOf(log', log, entry.selection)
       /\ entry.count = Len(log) - Len(log')
  /\ UNCHANGED protected

(* Holds and policies change under the journal's eye and touch no event. *)
Govern ==
  /\ Journal(FALSE)
  /\ UNCHANGED log

Next == Record \/ Erase \/ Govern

Spec == Init /\ [][Next]_gvars
=============================================================================
