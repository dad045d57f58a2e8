-------------------------- MODULE MemoryRepository --------------------------
(***************************************************************************)
(* MemoryRepository: the reference repository, one live object whose        *)
(* methods are called one after the other.  Each action is one call, with   *)
(* any argument a caller may pass; a call that raises leaves the state as    *)
(* it was.  The wall clock `now' is the datetime.now(UTC) the methods read;  *)
(* it does not run backwards.                                               *)
(***************************************************************************)
EXTENDS AuditRepository

CONSTANTS
  MaxTime,    \* bound: the clock stops here
  MaxJournal  \* bound: governance entries

ASSUME BoundsAssumption == MaxTime \in Nat /\ MaxJournal \in Nat

VARIABLES
  repo,     \* _events, _policy, _holds, _previews, _governance
  now,      \* wall clock
  drawn     \* preview ids uuid4() has returned so far

vars == <<repo, now, drawn>>

JournalOpen == Len(repo.governance) < MaxJournal

Init ==
  /\ repo = EmptyRepository
  /\ now = 0
  /\ drawn = {}

AppendEvent(uid, e) ==
  /\ repo' = AfterAppend(repo, uid, e)
  /\ UNCHANGED <<now, drawn>>

SetPolicy(policy, actor) ==
  /\ JournalOpen
  /\ repo' = AfterSetPolicy(repo, policy, actor)
  /\ UNCHANGED <<now, drawn>>

CreatePreview(id, actor) ==
  /\ id \notin drawn
  /\ repo' = AfterCreatePreview(repo, id, actor, now)
  /\ drawn' = drawn \cup {id}
  /\ UNCHANGED now

DeletePreview(id, actor, blank) ==
  /\ JournalOpen
  /\ repo' = AfterDelete(repo, id, actor, blank, now)
  /\ UNCHANGED <<now, drawn>>

CreateHold(uid, hold_id, event_id, actor) ==
  /\ JournalOpen
  /\ repo' = AfterCreateHold(repo, uid, hold_id, event_id, actor)
  /\ UNCHANGED <<now, drawn>>

ReleaseHold(hold_id, actor) ==
  /\ JournalOpen
  /\ repo' = AfterReleaseHold(repo, hold_id, actor)
  /\ UNCHANGED <<now, drawn>>

Tick ==
  /\ now < MaxTime
  /\ now' = now + 1
  /\ UNCHANGED <<repo, drawn>>

Next ==
  \/ \E uid \in ObjectUids, e \in Event : AppendEvent(uid, e)
  \/ \E policy \in Policies, actor \in Actors : SetPolicy(policy, actor)
  \/ \E id \in PreviewIds, actor \in Actors : CreatePreview(id, actor)
  \/ \E id \in PreviewIds, actor \in Actors, blank \in BOOLEAN :
       DeletePreview(id, actor, blank)
  \/ \E uid \in ObjectUids, hold_id \in HoldIds,
        event_id \in HoldTargets, actor \in Actors :
       CreateHold(uid, hold_id, event_id, actor)
  \/ \E hold_id \in HoldIds, actor \in Actors : ReleaseHold(hold_id, actor)
  \/ Tick

Spec == Init /\ [][Next]_vars

-----------------------------------------------------------------------------
(* The state of the repository is made of rows, holds, previews and journal
   entries as the classes declare them. *)
TypeOK ==
  /\ repo \in Repository
  /\ now \in 0..MaxTime
  /\ drawn \subseteq PreviewIds

(* verify() answers ok in every state the methods can reach: append links to
   the last digest, and delete_preview renumbers and reseals what survives.
   The rows are numbered by their place. *)
ChainIntact ==
  /\ Verifies(repo.events)
  /\ \A i \in 1..Len(repo.events) : repo.events[i].sequence = i

(* A retried append is recognised for every stored event in every state, also
   after a deletion moved and resealed its row: the answer is IdempotentReplay,
   never DuplicateEvent, and never a second row. *)
ReplayRecognised ==
  \A i \in 1..Len(repo.events) :
    AppendOutcome(repo, ObjectUid, repo.events[i].event) = "IdempotentReplay"

(* Deleting what an enabled policy selects now would leave at most
   max_entries events besides those a hold protects, and none of the others
   older than the policy allows. *)
PreviewReachesPolicy ==
  repo.policy.enabled =>
    LET rest == Survivors(Logged(repo.events), Selection(repo, now))
        free == {i \in 1..Len(rest) : rest[i].event_id \notin Held(repo)}
    IN /\ Cardinality(free) <= repo.policy.max_entries
       /\ \A i \in free : ~Expired(repo.policy, rest[i], now)

(* The governance journal is enough to reconstruct the holds: a hold is
   active exactly when the last entry about it is its creation, and then it
   protects the event that entry names. *)
AboutHold(h) ==
  {i \in 1..Len(repo.governance) :
     /\ repo.governance[i].event_type
          \in {"governance.hold.created", "governance.hold.released"}
     /\ repo.governance[i].hold_id = h}

JournalMatchesHolds ==
  \A h \in HoldIds :
    LET last == repo.governance[CHOOSE i \in AboutHold(h) :
                                  \A j \in AboutHold(h) : j <= i]
    IN h \in ActiveHolds(repo) <=>
         /\ AboutHold(h) # {}
         /\ last.event_type = "governance.hold.created"
         /\ repo.holds[h] # None
         /\ last.event_id = repo.holds[h].event_id

(* What the methods are modelled by agrees with the loops of delete_preview,
   for every selection over the rows there are. *)
ResealIsTheLoop ==
  \A selection \in SUBSET EventIds :
    Resealed(repo.events, selection)
      = ResealLoop(FilterLoop(repo.events, selection))

(* A confirmed preview authorises one deletion: deletions and previews still
   open never outnumber the previews that were issued. *)
OneDeletionPerPreview ==
  Cardinality(Deletions(repo)) + Cardinality(OpenPreviews(repo)) <= Cardinality(drawn)

(* The repository implements the governed log: events under an active hold
   stay, deletions are journaled with their selection and count, survivors
   keep content and order, and the journal only grows. *)
Governed == INSTANCE GovernedLog WITH
  log <- Logged(repo.events),
  protected <- Held(repo),
  journal <- repo.governance

ImplementsGovernedLog == Governed!Spec
=============================================================================
