----------------------- MODULE MemoryRepositoryProofs -----------------------
(***************************************************************************)
(* Theorems about MemoryRepository, for every value of its constants, which  *)
(* rest on one inductive invariant: the repository is well formed             *)
(* (AuditRepositoryProofs), that is, it stores exactly the chain that         *)
(* sealing its events afresh would give, with one row per event id.  At the   *)
(* end, theorems about ChainEvidence: what a verified list of rows owes to    *)
(* its head alone, whatever has happened to the store.                       *)
(***************************************************************************)
EXTENDS MemoryRepository, ChainEvidence, AuditRepositoryProofs

IInv ==
  /\ WellFormed(repo)
  /\ now \in 0..MaxTime
  /\ drawn \subseteq PreviewIds

LEMMA InitWellFormed == Init => IInv
<1> SUFFICES ASSUME Init PROVE IInv
  OBVIOUS
<1>1. EmptyRepository \in Repository
  BY PolicyAssumption, EmptySeq DEF EmptyRepository, Repository
<1>2. repo.events = << >> /\ << >> \in Seq(Event) /\ Len(<< >>) = 0
  BY EmptySeq DEF Init, EmptyRepository
<1>3. Logged(<< >>) = << >>
  BY EmptySeq DEF Logged
<1>4. Chain(<< >>) = << >>
  BY EmptySeq DEF Chain
<1>5. DistinctIds(<< >>)
  BY EmptySeq DEF DistinctIds
<1>6. WellFormed(repo)
  BY <1>1, <1>2, <1>3, <1>4, <1>5 DEF Init, WellFormed
<1> QED
  BY <1>6, BoundsAssumption DEF Init, IInv

LEMMA StepWellFormed == IInv /\ [Next]_vars => IInv'
<1> SUFFICES ASSUME IInv, [Next]_vars PROVE IInv'
  OBVIOUS
<1>0. WellFormed(repo) /\ now \in Int
  BY BoundsAssumption DEF IInv
<1>1. ASSUME NEW uid \in ObjectUids, NEW e \in Event, AppendEvent(uid, e)
      PROVE  IInv'
  BY <1>0, <1>1, AppendPreserves DEF AppendEvent, IInv
<1>2. ASSUME NEW policy \in Policies, NEW actor \in Actors,
             SetPolicy(policy, actor)
      PROVE  IInv'
  BY <1>0, <1>2, SetPolicyPreserves DEF SetPolicy, IInv
<1>3. ASSUME NEW id \in PreviewIds, NEW actor \in Actors,
             CreatePreview(id, actor)
      PROVE  IInv'
  BY <1>0, <1>3, CreatePreviewPreserves DEF CreatePreview, IInv
<1>4. ASSUME NEW id \in PreviewIds, NEW actor \in Actors, NEW blank \in BOOLEAN,
             DeletePreview(id, actor, blank)
      PROVE  IInv'
  BY <1>0, <1>4, DeletePreserves DEF DeletePreview, IInv
<1>5. ASSUME NEW uid \in ObjectUids, NEW hold_id \in HoldIds,
             NEW event_id \in HoldTargets, NEW actor \in Actors,
             CreateHold(uid, hold_id, event_id, actor)
      PROVE  IInv'
  BY <1>0, <1>5, CreateHoldPreserves DEF CreateHold, IInv
<1>6. ASSUME NEW hold_id \in HoldIds, NEW actor \in Actors,
             ReleaseHold(hold_id, actor)
      PROVE  IInv'
  BY <1>0, <1>6, ReleaseHoldPreserves DEF ReleaseHold, IInv
<1>7. CASE Tick
  BY <1>7, BoundsAssumption DEF Tick, IInv
<1>8. CASE UNCHANGED vars
  BY <1>8 DEF vars, IInv
<1> QED
  BY <1>1, <1>2, <1>3, <1>4, <1>5, <1>6, <1>7, <1>8 DEF Next

THEOREM WellFormedAlways == Spec => []IInv
BY InitWellFormed, StepWellFormed, PTL DEF Spec

(* Rows, holds, previews and journal entries keep the shape the classes
   declare, whatever is called in whatever order. *)
THEOREM TypeCorrect == Spec => []TypeOK
<1>1. IInv => TypeOK
  BY DEF IInv, WellFormed, TypeOK
<1> QED
  BY <1>1, WellFormedAlways, PTL

(* verify() answers ok after any number of appends and governed deletions, and
   the rows are numbered by their place. *)
THEOREM ChainAlwaysIntact == Spec => []ChainIntact
<1>1. IInv => ChainIntact
  <2> SUFFICES ASSUME IInv PROVE ChainIntact
    OBVIOUS
  <2> DEFINE log == Logged(repo.events)
  <2>1. /\ repo.events = Chain(log) /\ log \in Seq(Event)
        /\ Len(log) = Len(repo.events)
    BY LoggedProperties DEF IInv, WellFormed, Repository
  <2> HIDE DEF log
  <2> QED
    BY <2>1, ChainProperties DEF ChainIntact
<1> QED
  BY <1>1, WellFormedAlways, PTL

(* A repeated append of a stored event is answered IdempotentReplay in every
   reachable state, however often the chain was resealed in between. *)
THEOREM ReplayAlwaysRecognised == Spec => []ReplayRecognised
<1>1. IInv => ReplayRecognised
  BY WellFormedRecognisesReplays DEF IInv, ReplayRecognised
<1> QED
  BY <1>1, WellFormedAlways, PTL

-----------------------------------------------------------------------------
(* The repository implements GovernedLog.                                   *)

LEMMA GovernedStepImplements ==
  ASSUME GovernedStep(repo, repo')
  PROVE  [Governed!Next]_Governed!gvars
<1>1. CASE Recorded(repo, repo')
  BY <1>1 DEF Recorded, Governed!Next, Governed!Record, Governed!LogIds
<1>2. CASE Erased(repo, repo')
  BY <1>2 DEF Erased, Wrote, Remains, Governed!Next, Governed!Erase,
              Governed!Journal, Governed!RemainsOf
<1>3. CASE Ruled(repo, repo')
  BY <1>3 DEF Ruled, Wrote, Governed!Next, Governed!Govern, Governed!Journal, Logged
<1>4. CASE Unseen(repo, repo')
  BY <1>4 DEF Unseen, Governed!gvars, Logged
<1> QED
  BY <1>1, <1>2, <1>3, <1>4 DEF GovernedStep

(* MemoryRepository implements GovernedLog: no step loses, changes, reorders
   or duplicates an event, except a journaled deletion of unheld events. *)
THEOREM MemoryImplementsGovernedLog == Spec => ImplementsGovernedLog
<1>1. Init => Governed!Init
  <2> SUFFICES ASSUME Init PROVE Governed!Init
    OBVIOUS
  <2>1. repo.events = << >> /\ Len(<< >>) = 0
    BY EmptySeq DEF Init, EmptyRepository
  <2> QED
    BY <2>1 DEF Governed!Init, Logged
<1>2. IInv /\ [Next]_vars => [Governed!Next]_Governed!gvars
  <2> SUFFICES ASSUME IInv, [Next]_vars
               PROVE  GovernedStep(repo, repo')
    BY GovernedStepImplements
  <2>0. WellFormed(repo) /\ now \in Int
    BY BoundsAssumption DEF IInv
  <2>1. ASSUME NEW uid \in ObjectUids, NEW e \in Event, AppendEvent(uid, e)
        PROVE  GovernedStep(repo, repo')
    BY <2>0, <2>1, AppendGoverned DEF AppendEvent
  <2>2. ASSUME NEW policy \in Policies, NEW actor \in Actors,
               SetPolicy(policy, actor)
        PROVE  GovernedStep(repo, repo')
    BY <2>0, <2>2, SetPolicyGoverned DEF SetPolicy
  <2>3. ASSUME NEW id \in PreviewIds, NEW actor \in Actors,
               CreatePreview(id, actor)
        PROVE  GovernedStep(repo, repo')
    BY <2>0, <2>3, CreatePreviewGoverned DEF CreatePreview
  <2>4. ASSUME NEW id \in PreviewIds, NEW actor \in Actors, NEW blank \in BOOLEAN,
               DeletePreview(id, actor, blank)
        PROVE  GovernedStep(repo, repo')
    BY <2>0, <2>4, DeleteGoverned DEF DeletePreview
  <2>5. ASSUME NEW uid \in ObjectUids, NEW hold_id \in HoldIds,
               NEW event_id \in HoldTargets, NEW actor \in Actors,
               CreateHold(uid, hold_id, event_id, actor)
        PROVE  GovernedStep(repo, repo')
    BY <2>0, <2>5, CreateHoldGoverned DEF CreateHold
  <2>6. ASSUME NEW hold_id \in HoldIds, NEW actor \in Actors,
               ReleaseHold(hold_id, actor)
        PROVE  GovernedStep(repo, repo')
    BY <2>0, <2>6, ReleaseHoldGoverned DEF ReleaseHold
  <2>7. CASE Tick \/ UNCHANGED vars
    BY <2>7 DEF Tick, vars, GovernedStep, Unseen
  <2> QED
    BY <2>1, <2>2, <2>3, <2>4, <2>5, <2>6, <2>7 DEF Next
<1> QED
  BY <1>1, <1>2, WellFormedAlways, PTL DEF Spec, ImplementsGovernedLog, Governed!Spec

-----------------------------------------------------------------------------
(* What an enabled policy asks for, a preview made now selects: at most
   max_entries events no hold protects would stay, none of them expired. *)
THEOREM PreviewAlwaysReachesPolicy == Spec => []PreviewReachesPolicy
<1>1. IInv => PreviewReachesPolicy
  <2> SUFFICES ASSUME IInv, repo.policy.enabled PROVE PreviewReachesPolicy
    BY DEF PreviewReachesPolicy
  <2>1. WellFormed(repo) /\ now \in Int
    BY BoundsAssumption DEF IInv
  <2> QED
    BY <2>1, SelectionReachesPolicy DEF PreviewReachesPolicy
<1> QED
  BY <1>1, WellFormedAlways, PTL

-----------------------------------------------------------------------------
(* For any selection and any rows, filtering and resealing in delete_preview's
   two loops is what the model takes it for: the chain over the survivors. *)
THEOREM ResealAlwaysTheLoop == Spec => []ResealIsTheLoop
<1>1. IInv => ResealIsTheLoop
  BY ResealedByLoop DEF IInv, WellFormed, Repository, ResealIsTheLoop
<1> QED
  BY <1>1, WellFormedAlways, PTL

-----------------------------------------------------------------------------
(* One deletion per preview.  Inductive with what it counts: the open previews
   are among those drawn, and only finitely many were. *)
PreviewCount ==
  /\ IsFiniteSet(drawn)
  /\ OpenPreviews(repo) \subseteq drawn
  /\ OneDeletionPerPreview

LEMMA PreviewCountStep ==
  ASSUME IInv, PreviewCount, [Next]_vars PROVE PreviewCount'
<1>1. /\ WellFormed(repo) /\ now \in Int
      /\ repo \in Repository /\ repo.governance \in Seq(JournalEntry)
      /\ repo.previews \in [PreviewIds -> Preview \cup {None}]
  BY BoundsAssumption DEF IInv, WellFormed, Repository
<1>2. /\ IsFiniteSet(Deletions(repo)) /\ Cardinality(Deletions(repo)) \in Nat
      /\ IsFiniteSet(OpenPreviews(repo)) /\ Cardinality(OpenPreviews(repo)) \in Nat
      /\ Cardinality(drawn) \in Nat
  BY <1>1, DeletionsFinite, FS_Subset, FS_CardinalityType DEF PreviewCount
<1>3. ASSUME repo'.previews = repo.previews, drawn' = drawn,
             Deletions(repo') = Deletions(repo)
      PROVE  PreviewCount'
  BY <1>3 DEF PreviewCount, OpenPreviews, OneDeletionPerPreview
<1>4. ASSUME NEW entry \in JournalEntry,
             repo'.governance = Append(repo.governance, entry),
             entry.event_type # "retention.events.deleted"
      PROVE  Deletions(repo') = Deletions(repo)
  BY <1>1, <1>4, DeletionsAppended
<1>5. ASSUME NEW uid \in ObjectUids, NEW e \in Event, AppendEvent(uid, e)
      PROVE  PreviewCount'
  <2>1. repo'.previews = repo.previews /\ repo'.governance = repo.governance
    BY <1>1, <1>5, AppendPreserves DEF AppendEvent
  <2> QED
    BY <1>3, <1>5, <2>1 DEF AppendEvent, Deletions
<1>6. ASSUME NEW policy \in Policies, NEW actor \in Actors,
             SetPolicy(policy, actor)
      PROVE  PreviewCount'
  <2>1. /\ repo'.previews = repo.previews
        /\ \E entry \in JournalEntry :
             /\ repo'.governance = Append(repo.governance, entry)
             /\ entry.event_type = "retention.policy.changed"
    BY <1>1, <1>6, SetPolicyPreserves DEF SetPolicy
  <2> QED
    BY <1>3, <1>4, <1>6, <2>1 DEF SetPolicy
<1>7. ASSUME NEW id \in PreviewIds, NEW actor \in Actors,
             CreatePreview(id, actor)
      PROVE  PreviewCount'
  <2>1. /\ repo'.governance = repo.governance
        /\ \E preview \in Preview :
             repo'.previews = [repo.previews EXCEPT ![id] = preview]
    BY <1>1, <1>7, CreatePreviewPreserves DEF CreatePreview, Previewed
  <2>2. id \notin drawn /\ drawn' = drawn \cup {id}
    BY <1>7 DEF CreatePreview
  <2>3. /\ OpenPreviews(repo') \subseteq OpenPreviews(repo) \cup {id}
        /\ Deletions(repo') = Deletions(repo)
    BY <1>1, <2>1 DEF OpenPreviews, Deletions
  <2>4. /\ IsFiniteSet(drawn') /\ Cardinality(drawn') = Cardinality(drawn) + 1
        /\ IsFiniteSet(OpenPreviews(repo) \cup {id})
        /\ Cardinality(OpenPreviews(repo) \cup {id})
             = Cardinality(OpenPreviews(repo)) + 1
    BY <1>2, <2>2, FS_AddElement DEF PreviewCount
  <2>5. /\ Cardinality(OpenPreviews(repo')) \in Nat
        /\ Cardinality(OpenPreviews(repo'))
             <= Cardinality(OpenPreviews(repo)) + 1
    BY <2>3, <2>4, FS_Subset, FS_CardinalityType
  <2>6. OneDeletionPerPreview'
    BY <1>2, <2>3, <2>4, <2>5 DEF PreviewCount, OneDeletionPerPreview
  <2> QED
    BY <2>2, <2>3, <2>4, <2>6 DEF PreviewCount
<1>8. ASSUME NEW id \in PreviewIds, NEW actor \in Actors, NEW blank \in BOOLEAN,
             DeletePreview(id, actor, blank)
      PROVE  PreviewCount'
  <2>1. drawn' = drawn /\ (repo' = repo \/ DeletedBy(repo, repo', id))
    BY <1>1, <1>8, DeletePreserves DEF DeletePreview
  <2>2. CASE repo' = repo
    BY <1>3, <2>1, <2>2
  <2>3. CASE DeletedBy(repo, repo', id)
    <3>1. /\ id \in OpenPreviews(repo)
          /\ repo'.previews = [repo.previews EXCEPT ![id] = None]
          /\ Deletions(repo')
               = Deletions(repo) \cup {Len(repo.governance) + 1}
      <4>1. PICK entry \in JournalEntry :
              /\ repo.previews[id] # None
              /\ repo'.previews = [repo.previews EXCEPT ![id] = None]
              /\ repo'.governance = Append(repo.governance, entry)
              /\ entry.event_type = "retention.events.deleted"
        BY <2>3 DEF DeletedBy
      <4>2. id \in OpenPreviews(repo)
        BY <4>1 DEF OpenPreviews
      <4>3. Deletions(repo')
              = Deletions(repo) \cup {Len(repo.governance) + 1}
        BY <1>1, <4>1, DeletionsAppended
      <4> QED
        BY <4>1, <4>2, <4>3
    <3>2. OpenPreviews(repo') = OpenPreviews(repo) \ {id}
      BY <1>1, <3>1 DEF OpenPreviews
    <3>3. Cardinality(OpenPreviews(repo')) = Cardinality(OpenPreviews(repo)) - 1
      BY <1>2, <3>1, <3>2, FS_RemoveElement
    <3>4. Cardinality(Deletions(repo')) = Cardinality(Deletions(repo)) + 1
      BY <1>1, <1>2, <3>1, DeletionsFinite, FS_AddElement
    <3>5. OneDeletionPerPreview'
      BY <1>2, <2>1, <3>3, <3>4 DEF PreviewCount, OneDeletionPerPreview
    <3> QED
      BY <2>1, <3>2, <3>5 DEF PreviewCount
  <2> QED
    BY <2>1, <2>2, <2>3
<1>9. ASSUME NEW uid \in ObjectUids, NEW hold_id \in HoldIds,
             NEW event_id \in HoldTargets, NEW actor \in Actors,
             CreateHold(uid, hold_id, event_id, actor)
      PROVE  PreviewCount'
  <2>1. /\ repo'.previews = repo.previews
        /\ repo' = repo \/ CreatedHold(repo, repo', hold_id)
    BY <1>1, <1>9, CreateHoldPreserves DEF CreateHold
  <2>2. Deletions(repo') = Deletions(repo)
    BY <1>4, <2>1 DEF CreatedHold
  <2> QED
    BY <1>3, <1>9, <2>1, <2>2 DEF CreateHold
<1>10. ASSUME NEW hold_id \in HoldIds, NEW actor \in Actors,
              ReleaseHold(hold_id, actor)
       PROVE  PreviewCount'
  <2>1. /\ repo'.previews = repo.previews
        /\ repo' = repo \/ ReleasedHold(repo, repo', hold_id)
    BY <1>1, <1>10, ReleaseHoldPreserves DEF ReleaseHold
  <2>2. Deletions(repo') = Deletions(repo)
    BY <1>4, <2>1 DEF ReleasedHold
  <2> QED
    BY <1>3, <1>10, <2>1, <2>2 DEF ReleaseHold
<1>11. CASE Tick \/ UNCHANGED vars
  BY <1>3, <1>11 DEF Tick, vars
<1> QED
  BY <1>5, <1>6, <1>7, <1>8, <1>9, <1>10, <1>11 DEF Next

(* A preview authorises one deletion: those done and those still open never
   outnumber the previews issued. *)
THEOREM OneDeletionPerPreviewAlways == Spec => []OneDeletionPerPreview
<1>1. Init => PreviewCount
  <2> SUFFICES ASSUME Init PROVE PreviewCount
    OBVIOUS
  <2>1. OpenPreviews(repo) = {} /\ Deletions(repo) = {} /\ drawn = {}
    BY EmptySeq DEF Init, EmptyRepository, OpenPreviews, Deletions
  <2> QED
    BY <2>1, FS_EmptySet DEF PreviewCount, OneDeletionPerPreview
<1>2. IInv /\ PreviewCount /\ [Next]_vars => PreviewCount'
  BY PreviewCountStep
<1>3. PreviewCount => OneDeletionPerPreview
  BY DEF PreviewCount
<1> QED
  BY <1>1, <1>2, <1>3, WellFormedAlways, PTL DEF Spec

-----------------------------------------------------------------------------
(* The journal reconstructs the holds.  Inductive with the existence of the
   entry JournalMatchesHolds chooses: the last one about a hold. *)
About(g, h) ==
  {i \in 1..Len(g) :
     /\ g[i].event_type \in {"governance.hold.created", "governance.hold.released"}
     /\ g[i].hold_id = h}

IsLast(S, i) == i \in S /\ \A j \in S : j <= i

LastAbout(g, h) == g[CHOOSE i \in About(g, h) : \A j \in About(g, h) : j <= i]

HoldMatches(r, h) ==
  /\ About(r.governance, h) # {} => \E i : IsLast(About(r.governance, h), i)
  /\ h \in ActiveHolds(r) <=>
       /\ About(r.governance, h) # {}
       /\ LastAbout(r.governance, h).event_type = "governance.hold.created"
       /\ r.holds[h] # None
       /\ LastAbout(r.governance, h).event_id = r.holds[h].event_id

LEMMA LastIsUnique ==
  ASSUME NEW g \in Seq(JournalEntry), NEW h, NEW i, IsLast(About(g, h), i)
  PROVE  LastAbout(g, h) = g[i]
<1> DEFINE A == About(g, h)
           c == CHOOSE k \in A : \A j \in A : j <= k
<1>1. A \subseteq Nat
  BY LenProperties DEF About
<1> HIDE DEF A
<1>2. i \in A /\ \A j \in A : j <= i
  BY DEF IsLast, A
<1>3. c \in A /\ \A j \in A : j <= c
  BY <1>2
<1>4. c = i
  <2> HIDE DEF c
  <2> QED
    BY <1>1, <1>2, <1>3
<1> QED
  BY <1>4 DEF LastAbout, A

(* An entry about something else leaves the last one about h. *)
LEMMA OtherEntry ==
  ASSUME NEW r \in Repository, NEW s, NEW h \in HoldIds,
         NEW entry \in JournalEntry,
         s.governance = Append(r.governance, entry),
         \/ entry.event_type \notin {"governance.hold.created",
                                     "governance.hold.released"}
         \/ entry.hold_id # h,
         s.holds[h] = r.holds[h],
         HoldMatches(r, h)
  PROVE  HoldMatches(s, h)
<1> DEFINE g == r.governance
           n == Len(g)
<1>1. g \in Seq(JournalEntry)
  BY DEF Repository
<1>2. /\ n \in Nat /\ Len(s.governance) = n + 1
      /\ s.governance[n + 1] = entry
      /\ \A i \in 1..n : s.governance[i] = g[i]
      /\ s.governance \in Seq(JournalEntry)
  BY <1>1, AppendedEntry, AppendProperties
<1>3. About(s.governance, h) = About(g, h)
  BY <1>2 DEF About
<1>4. ASSUME About(g, h) # {} PROVE LastAbout(s.governance, h) = LastAbout(g, h)
  <2>1. PICK i : IsLast(About(g, h), i)
    BY <1>4 DEF HoldMatches
  <2>2. i \in 1..n
    BY <2>1 DEF IsLast, About
  <2>3. LastAbout(g, h) = g[i] /\ LastAbout(s.governance, h) = s.governance[i]
    <3>1. LastAbout(g, h) = g[i]
      BY <1>1, <2>1, LastIsUnique
    <3>2. IsLast(About(s.governance, h), i)
      BY <1>3, <2>1
    <3>3. LastAbout(s.governance, h) = s.governance[i]
      BY <1>2, <3>2, LastIsUnique
    <3> QED
      BY <3>1, <3>3
  <2> QED
    BY <1>2, <2>2, <2>3
<1>5. h \in ActiveHolds(s) <=> h \in ActiveHolds(r)
  BY DEF ActiveHolds
<1> HIDE DEF g
<1> QED
  BY <1>3, <1>4, <1>5 DEF HoldMatches, g

(* An entry about h is the last one about it. *)
LEMMA OwnEntry ==
  ASSUME NEW r \in Repository, NEW s, NEW h \in HoldIds,
         NEW entry \in JournalEntry,
         s.governance = Append(r.governance, entry),
         entry.event_type \in {"governance.hold.created",
                               "governance.hold.released"},
         entry.hold_id = h
  PROVE  /\ IsLast(About(s.governance, h), Len(r.governance) + 1)
         /\ LastAbout(s.governance, h) = entry
<1> DEFINE g == r.governance
           n == Len(g)
<1>1. g \in Seq(JournalEntry)
  BY DEF Repository
<1>2. /\ n \in Nat /\ Len(s.governance) = n + 1
      /\ s.governance[n + 1] = entry
      /\ s.governance \in Seq(JournalEntry)
  BY <1>1, AppendedEntry, AppendProperties
<1>3. IsLast(About(s.governance, h), n + 1)
  BY <1>2 DEF About, IsLast
<1> QED
  BY <1>2, <1>3, LastIsUnique

LEMMA CreatedHoldMatches ==
  ASSUME NEW r \in Repository, NEW s, NEW id \in HoldIds,
         CreatedHold(r, s, id), \A h \in HoldIds : HoldMatches(r, h)
  PROVE  \A h \in HoldIds : HoldMatches(s, h)
<1>1. PICK hold \in Hold, entry \in JournalEntry :
        /\ s.holds = [r.holds EXCEPT ![id] = hold]
        /\ ~hold.released
        /\ s.governance = Append(r.governance, entry)
        /\ entry.event_type = "governance.hold.created"
        /\ entry.hold_id = id
        /\ entry.event_id = hold.event_id
  BY DEF CreatedHold
<1>2. DOMAIN r.holds = HoldIds
  BY DEF Repository
<1> SUFFICES ASSUME NEW h \in HoldIds PROVE HoldMatches(s, h)
  OBVIOUS
<1>3. CASE h # id
  <2>1. s.holds[h] = r.holds[h]
    BY <1>1, <1>3
  <2> QED
    BY <1>1, <1>3, <2>1, OtherEntry
<1>4. CASE h = id
  <2>1. s.holds[h] = hold /\ hold # None
    BY <1>1, <1>2, <1>4, NoneAssumption
  <2>2. /\ IsLast(About(s.governance, h), Len(r.governance) + 1)
        /\ LastAbout(s.governance, h) = entry
    <3>1. /\ s.governance = Append(r.governance, entry)
          /\ entry.event_type \in {"governance.hold.created",
                                   "governance.hold.released"}
          /\ entry.hold_id = h
      BY <1>1, <1>4
    <3> QED
      BY <3>1, OwnEntry
  <2>3. h \in ActiveHolds(s)
    BY <1>1, <2>1 DEF ActiveHolds
  <2> QED
    BY <1>1, <2>1, <2>2, <2>3 DEF HoldMatches, IsLast
<1> QED
  BY <1>3, <1>4

LEMMA ReleasedHoldMatches ==
  ASSUME NEW r \in Repository, NEW s, NEW id \in HoldIds,
         ReleasedHold(r, s, id), \A h \in HoldIds : HoldMatches(r, h)
  PROVE  \A h \in HoldIds : HoldMatches(s, h)
<1>1. PICK hold \in Hold, entry \in JournalEntry :
        /\ s.holds = [r.holds EXCEPT ![id] = hold]
        /\ hold.released
        /\ s.governance = Append(r.governance, entry)
        /\ entry.event_type = "governance.hold.released"
        /\ entry.hold_id = id
  BY DEF ReleasedHold
<1>2. DOMAIN r.holds = HoldIds
  BY DEF Repository
<1> SUFFICES ASSUME NEW h \in HoldIds PROVE HoldMatches(s, h)
  OBVIOUS
<1>3. CASE h # id
  <2>1. s.holds[h] = r.holds[h]
    BY <1>1, <1>3
  <2> QED
    BY <1>1, <1>3, <2>1, OtherEntry
<1>4. CASE h = id
  <2>1. s.holds[h] = hold
    BY <1>1, <1>2, <1>4
  <2>2. /\ IsLast(About(s.governance, h), Len(r.governance) + 1)
        /\ LastAbout(s.governance, h) = entry
    BY <1>1, <1>4, OwnEntry, ZenonT(30)
  <2>3. h \notin ActiveHolds(s)
    BY <1>1, <2>1 DEF ActiveHolds
  <2> QED
    BY <1>1, <2>2, <2>3 DEF HoldMatches, IsLast
<1> QED
  BY <1>3, <1>4

HoldsMatch == \A h \in HoldIds : HoldMatches(repo, h)

LEMMA HoldsMatchStep ==
  ASSUME IInv, HoldsMatch, [Next]_vars PROVE HoldsMatch'
<1>1. WellFormed(repo) /\ now \in Int /\ repo \in Repository
  BY BoundsAssumption DEF IInv, WellFormed
<1>2. ASSUME repo'.holds = repo.holds, repo'.governance = repo.governance
      PROVE  HoldsMatch'
  BY <1>2 DEF HoldsMatch, HoldMatches, ActiveHolds
<1>3. ASSUME NEW entry \in JournalEntry,
             repo'.holds = repo.holds,
             repo'.governance = Append(repo.governance, entry),
             entry.event_type \notin {"governance.hold.created",
                                      "governance.hold.released"}
      PROVE  HoldsMatch'
  BY <1>1, <1>3, OtherEntry DEF HoldsMatch
<1>4. ASSUME NEW uid \in ObjectUids, NEW e \in Event, AppendEvent(uid, e)
      PROVE  HoldsMatch'
  BY <1>1, <1>2, <1>4, AppendPreserves DEF AppendEvent
<1>5. ASSUME NEW policy \in Policies, NEW actor \in Actors,
             SetPolicy(policy, actor)
      PROVE  HoldsMatch'
  <2>1. /\ repo'.holds = repo.holds
        /\ \E entry \in JournalEntry :
             /\ repo'.governance = Append(repo.governance, entry)
             /\ entry.event_type = "retention.policy.changed"
    BY <1>1, <1>5, SetPolicyPreserves DEF SetPolicy
  <2> QED
    BY <1>3, <2>1
<1>6. ASSUME NEW id \in PreviewIds, NEW actor \in Actors,
             CreatePreview(id, actor)
      PROVE  HoldsMatch'
  <2>1. repo'.holds = repo.holds /\ repo'.governance = repo.governance
    BY <1>1, <1>6, CreatePreviewPreserves DEF CreatePreview
  <2> QED
    BY <1>2, <2>1
<1>7. ASSUME NEW id \in PreviewIds, NEW actor \in Actors, NEW blank \in BOOLEAN,
             DeletePreview(id, actor, blank)
      PROVE  HoldsMatch'
  <2>1. /\ repo'.holds = repo.holds
        /\ repo' = repo \/ DeletedBy(repo, repo', id)
    BY <1>1, <1>7, DeletePreserves DEF DeletePreview
  <2> QED
    BY <1>2, <1>3, <2>1 DEF DeletedBy
<1>8. ASSUME NEW uid \in ObjectUids, NEW hold_id \in HoldIds,
             NEW event_id \in HoldTargets, NEW actor \in Actors,
             CreateHold(uid, hold_id, event_id, actor)
      PROVE  HoldsMatch'
  <2>1. repo' = repo \/ CreatedHold(repo, repo', hold_id)
    BY <1>1, <1>8, CreateHoldPreserves DEF CreateHold
  <2> QED
    BY <1>1, <1>2, <2>1, CreatedHoldMatches DEF HoldsMatch
<1>9. ASSUME NEW hold_id \in HoldIds, NEW actor \in Actors,
             ReleaseHold(hold_id, actor)
      PROVE  HoldsMatch'
  <2>1. repo' = repo \/ ReleasedHold(repo, repo', hold_id)
    BY <1>1, <1>9, ReleaseHoldPreserves DEF ReleaseHold
  <2> QED
    BY <1>1, <1>2, <2>1, ReleasedHoldMatches DEF HoldsMatch
<1>10. CASE Tick \/ UNCHANGED vars
  BY <1>2, <1>10 DEF Tick, vars
<1> QED
  BY <1>4, <1>5, <1>6, <1>7, <1>8, <1>9, <1>10 DEF Next

(* The journal alone tells which holds are active and what they protect. *)
THEOREM JournalAlwaysMatchesHolds == Spec => []JournalMatchesHolds
<1>1. Init => HoldsMatch
  BY EmptySeq DEF Init, EmptyRepository, HoldsMatch, HoldMatches, About, ActiveHolds
<1>2. IInv /\ HoldsMatch /\ [Next]_vars => HoldsMatch'
  BY HoldsMatchStep
<1>3. HoldsMatch => JournalMatchesHolds
  BY DEF HoldsMatch, HoldMatches, LastAbout, About, JournalMatchesHolds, AboutHold
<1> QED
  BY <1>1, <1>2, <1>3, WellFormedAlways, PTL DEF Spec

-----------------------------------------------------------------------------
(* ChainEvidence.                                                           *)

(* What the first n rows contribute to the digests after them.              *)
Trail(events, n) == [i \in 1..n |-> <<events[i].event, events[i].sequence>>]

LEMMA RowFields ==
  ASSUME NEW row \in Row
  PROVE  /\ row.event \in Event
         /\ row.sequence \in Nat
         /\ row.previous_digest \in Digests
         /\ row.integrity_digest \in Digests
         /\ row = [event |-> row.event, sequence |-> row.sequence,
                   previous_digest |-> row.previous_digest,
                   integrity_digest |-> row.integrity_digest]
BY DEF Row

LEMMA TrailProperties ==
  ASSUME NEW events \in Seq(Row)
  PROVE  /\ \A n \in 0..Len(events) :
              Trail(events, n) \in Digests /\ Len(Trail(events, n)) = n
         /\ Trail(events, 0) = NoDigest
         /\ \A n \in 1..Len(events) :
              Append(Trail(events, n - 1), <<events[n].event, events[n].sequence>>)
                = Trail(events, n)
<1>0. /\ Len(events) \in Nat
      /\ \A n \in 1..Len(events) :
           <<events[n].event, events[n].sequence>> \in Event \X Nat
  BY LenProperties, ElementOfSeq, RowFields
<1>1. \A n \in 0..Len(events) :
        Trail(events, n) \in Digests /\ Len(Trail(events, n)) = n
  BY <1>0 DEF Trail, Digests
<1>2. Trail(events, 0) = NoDigest
  BY <1>0, <1>1, EmptySeq DEF NoDigest, Digests
<1>3. ASSUME NEW n \in 1..Len(events)
      PROVE  Append(Trail(events, n - 1), <<events[n].event, events[n].sequence>>)
               = Trail(events, n)
  <2> DEFINE s == Trail(events, n - 1)
             t == Trail(events, n)
             x == <<events[n].event, events[n].sequence>>
  <2>1. /\ s \in Digests /\ Len(s) = n - 1
        /\ t \in Digests /\ Len(t) = n
        /\ x \in Event \X Nat
    BY <1>0, <1>1
  <2>2. t[n] = x /\ \A i \in 1..(n - 1) : s[i] = t[i]
    BY DEF Trail
  <2> HIDE DEF s, t, x
  <2>3. /\ Append(s, x) \in Seq(Event \X Nat)
        /\ Len(Append(s, x)) = n
        /\ \A i \in 1..(n - 1) : Append(s, x)[i] = s[i]
        /\ Append(s, x)[n] = x
    BY <1>0, <2>1, AppendProperties DEF Digests
  <2>4. ASSUME NEW i \in 1..n PROVE Append(s, x)[i] = t[i]
    <3>1. i = n \/ i \in 1..(n - 1)
      BY <1>0
    <3> QED
      BY <2>2, <2>3, <3>1
  <2>5. Append(s, x) = t
    BY <2>1, <2>3, <2>4, SeqEqual DEF Digests
  <2> QED
    BY <2>5 DEF s, t, x
<1> QED
  BY <1>1, <1>2, <1>3

(* As far as verify() gets, each digest is the trail up to its row. *)
LEMMA VerifiedTrail ==
  ASSUME NEW events \in Seq(Row), NEW good \in 0..Len(events),
         \A i \in 1..good : ~MismatchAt(events, i)
  PROVE  \A n \in 1..good :
           /\ events[n].integrity_digest = Trail(events, n)
           /\ events[n].previous_digest = Trail(events, n - 1)
           /\ Digest(events[n]) = Trail(events, n)
<1>0. Len(events) \in Nat
  BY LenProperties
<1>1. \A n \in 1..good :
        /\ events[n].integrity_digest = Digest(events[n])
        /\ events[n].previous_digest
             = IF n = 1 THEN NoDigest ELSE events[n - 1].integrity_digest
  <2> SUFFICES ASSUME NEW n \in 1..good
               PROVE  /\ events[n].integrity_digest = Digest(events[n])
                      /\ events[n].previous_digest
                           = IF n = 1 THEN NoDigest
                             ELSE events[n - 1].integrity_digest
    OBVIOUS
  <2>1. ~MismatchAt(events, n) /\ (n # 1 => ~MismatchAt(events, n - 1))
    BY <1>0
  <2> QED
    BY <2>1 DEF MismatchAt
<1>2. ASSUME NEW n \in 1..good,
             events[n].previous_digest = Trail(events, n - 1)
      PROVE  events[n].integrity_digest = Trail(events, n)
  <2> DEFINE x == <<events[n].event, events[n].sequence>>
  <2>1. Append(Trail(events, n - 1), x) = Trail(events, n)
    BY TrailProperties
  <2>2. Digest(events[n]) = Append(Trail(events, n - 1), x)
    BY <1>2 DEF Digest
  <2> QED
    BY <1>1, <2>1, <2>2
<1> DEFINE Astray == {n \in 1..good :
                        events[n].previous_digest # Trail(events, n - 1)}
<1>3. Astray = {}
  <2> SUFFICES ASSUME Astray # {} PROVE FALSE
    OBVIOUS
  <2>1. PICK m \in Astray : \A n \in Astray : m <= n
    <3>1. Astray \in SUBSET Nat
      BY <1>0
    <3> HIDE DEF Astray
    <3> QED
      BY <3>1, SmallestElement
  <2>2. m \in 1..good /\ events[m].previous_digest # Trail(events, m - 1)
    OBVIOUS
  <2>3. CASE m = 1
    BY <1>1, <2>2, <2>3, TrailProperties
  <2>4. CASE m # 1
    <3>1. m - 1 \in 1..good /\ ~(m <= m - 1)
      BY <1>0, <2>2, <2>4
    <3>2. m - 1 \notin Astray
      BY <2>1, <3>1
    <3>3. events[m - 1].previous_digest = Trail(events, (m - 1) - 1)
      BY <3>1, <3>2
    <3>4. events[m - 1].integrity_digest = Trail(events, m - 1)
      BY <1>2, <3>1, <3>3
    <3> QED
      BY <1>1, <2>2, <2>4, <3>4
  <2> QED
    BY <2>3, <2>4
<1>4. \A n \in 1..good : events[n].previous_digest = Trail(events, n - 1)
  BY <1>3
<1> QED
  BY <1>1, <1>2, <1>4

(* A verified list has a head of its own. *)
LEMMA HeadDeterminesRows ==
  ASSUME NEW old \in Seq(Row), NEW new \in Seq(Row),
         Verifies(old), Verifies(new), HeadOf(old) = HeadOf(new)
  PROVE  old = new
<1> DEFINE N == Len(old)
<1>1. /\ Len(old) \in Nat /\ (old # << >> => Len(old) # 0)
      /\ Len(new) \in Nat /\ (new # << >> => Len(new) # 0)
      /\ Len(<< >>) = 0
  BY EmptySeq, LenProperties
<1>2. \A events \in Seq(Row) :
        Verifies(events) => HeadOf(events) = Trail(events, Len(events))
  <2> SUFFICES ASSUME NEW events \in Seq(Row), Verifies(events)
               PROVE  HeadOf(events) = Trail(events, Len(events))
    OBVIOUS
  <2>1. CASE events = << >>
    BY <2>1, <1>1, TrailProperties DEF HeadOf
  <2>2. CASE events # << >>
    <3>1. Len(events) \in 1..Len(events) /\ Len(events) \in 0..Len(events)
      BY <2>2, EmptySeq
    <3>2. Digest(events[Len(events)]) = Trail(events, Len(events))
      BY <3>1, VerifiedTrail DEF Verifies
    <3> QED
      BY <2>2, <3>2 DEF HeadOf
  <2> QED
    BY <2>1, <2>2
<1>3. Trail(old, N) = Trail(new, Len(new))
  BY <1>2
<1>4. Len(new) = N
  <2>1. Len(Trail(old, N)) = N /\ Len(Trail(new, Len(new))) = Len(new)
    BY <1>1, TrailProperties
  <2> QED
    BY <1>3, <2>1
<1>5. \A i \in 1..N : /\ old[i].event = new[i].event
                      /\ old[i].sequence = new[i].sequence
  <2> SUFFICES ASSUME NEW i \in 1..N
               PROVE  /\ old[i].event = new[i].event
                      /\ old[i].sequence = new[i].sequence
    OBVIOUS
  <2>1. /\ Trail(old, N)[i] = <<old[i].event, old[i].sequence>>
        /\ Trail(new, N)[i] = <<new[i].event, new[i].sequence>>
    BY DEF Trail
  <2> QED
    BY <1>3, <1>4, <2>1
<1>6. ASSUME NEW n \in 0..N PROVE Trail(old, n) = Trail(new, n)
  <2>1. \A i \in 1..n : i \in 1..N
    BY <1>1
  <2> QED
    BY <1>5, <2>1 DEF Trail
<1>7. ASSUME NEW i \in 1..N PROVE old[i] = new[i]
  <2>1. i \in 0..N /\ i - 1 \in 0..N /\ i \in 1..Len(new)
    BY <1>1, <1>4
  <2>2. /\ old[i].integrity_digest = new[i].integrity_digest
        /\ old[i].previous_digest = new[i].previous_digest
    BY <1>1, <1>4, <1>6, <2>1, VerifiedTrail DEF Verifies
  <2>3. old[i] \in Row /\ new[i] \in Row
    BY <2>1, ElementOfSeq
  <2> QED
    BY <1>5, <2>2, <2>3, RowFields
<1> QED
  BY <1>4, <1>7, SeqEqual

-----------------------------------------------------------------------------
(* Whatever is stored is a list of rows.                                     *)
Stored == rows \in Seq(Row) /\ written \in SUBSET Seq(Row) /\ << >> \in written

LEMMA AppendedRows ==
  ASSUME NEW events \in Seq(Row), NEW e \in Event
  PROVE  Append(events, NewRow(events, e)) \in Seq(Row)
<1>1. Len(events) \in Nat /\ Len(events) + 1 \in Nat
  BY LenProperties
<1>2. LastDigest(events) \in Digests
  <2>1. CASE events = << >>
    BY <2>1, EmptySeq DEF LastDigest, NoDigest, Digests
  <2>2. CASE events # << >>
    <3>1. Len(events) \in 1..Len(events)
      BY <2>2, EmptySeq
    <3>2. events[Len(events)] \in Row
      BY <3>1, ElementOfSeq
    <3> QED
      BY <2>2, <3>2, RowFields DEF LastDigest
  <2> QED
    BY <2>1, <2>2
<1>3. NewRow(events, e) \in Row
  BY <1>1, <1>2, RowOfProperties DEF NewRow
<1> QED
  BY <1>3, AppendProperties

LEMMA ResealedRows ==
  ASSUME NEW events \in Seq(Row), NEW selection
  PROVE  Resealed(events, selection) \in Seq(Row)
BY LoggedProperties, SurvivorsProperties, ChainProperties DEF Resealed

LEMMA RemovedRows ==
  ASSUME NEW events \in Seq(Row), NEW i \in 1..Len(events)
  PROVE  RemoveAt(events, i) \in Seq(Row)
<1>1. Len(events) \in Nat /\ \A j \in 1..Len(events) : events[j] \in Row
  BY LenProperties, ElementOfSeq
<1>2. SubSeq(events, 1, i - 1) \in Seq(Row)
  <2>1. \A j \in 1..(i - 1) : events[j] \in Row
    BY <1>1
  <2> QED
    BY <1>1, <2>1, SubSeqProperties
<1>3. SubSeq(events, i + 1, Len(events)) \in Seq(Row)
  <2>1. \A j \in (i + 1)..Len(events) : events[j] \in Row
    BY <1>1
  <2> QED
    BY <1>1, <2>1, SubSeqProperties
<1> QED
  BY <1>2, <1>3, ConcatProperties DEF RemoveAt

LEMMA StoredInit == EvidenceInit => Stored
BY EmptySeq DEF EvidenceInit, Stored

LEMMA StoredStep == Stored /\ [EvidenceNext]_evidenceVars => Stored'
<1> SUFFICES ASSUME Stored, [EvidenceNext]_evidenceVars PROVE Stored'
  OBVIOUS
<1>0. /\ rows \in Seq(Row) /\ DOMAIN rows = 1..Len(rows) /\ Len(rows) \in Nat
      /\ \A i \in 1..Len(rows) : rows[i] \in Row
  BY LenProperties, ElementOfSeq DEF Stored
<1>1. ASSUME NEW events \in Seq(Row), Store(events) PROVE Stored'
  BY <1>1 DEF Store, Stored
<1>2. ASSUME NEW events \in Seq(Row), Damage(events) PROVE Stored'
  BY <1>2 DEF Damage, Stored
<1>3. ASSUME NEW e \in Event, AppendRow(e) PROVE Stored'
  BY <1>0, <1>1, <1>3, AppendedRows DEF AppendRow
<1>4. ASSUME NEW selection \in SUBSET EventIds, DeleteEvents(selection) PROVE Stored'
  BY <1>0, <1>1, <1>4, ResealedRows DEF DeleteEvents
<1>5. ASSUME NEW i \in DOMAIN rows, LoseRow(i) PROVE Stored'
  BY <1>0, <1>2, <1>5, RemovedRows DEF LoseRow
<1>6. ASSUME NEW i \in DOMAIN rows, SwapRows(i) PROVE Stored'
  <2> DEFINE once == [rows EXCEPT ![i] = rows[i + 1]]
             twice == [once EXCEPT ![i + 1] = rows[i]]
  <2>1. i \in 1..Len(rows) /\ i + 1 \in 1..Len(rows)
    BY <1>0, <1>6 DEF SwapRows
  <2>2. once \in Seq(Row) /\ Len(once) = Len(rows)
    BY <1>0, <2>1, ExceptSeq
  <2>3. twice \in Seq(Row)
    <3> HIDE DEF once
    <3> QED
      BY <1>0, <2>1, <2>2, ExceptSeq
  <2>4. Damage(twice)
    BY <1>6 DEF SwapRows
  <2> QED
    BY <1>2, <2>3, <2>4
<1>7. ASSUME NEW i \in DOMAIN rows, NEW e \in Event, ChangeEvent(i, e) PROVE Stored'
  <2> DEFINE row == [rows[i] EXCEPT !.event = e]
  <2>1. row \in Row
    BY <1>0 DEF Row
  <2>2. [rows EXCEPT ![i] = row] \in Seq(Row)
    <3> HIDE DEF row
    <3> QED
      BY <1>0, <2>1, ExceptSeq
  <2>3. Damage([rows EXCEPT ![i] = row])
    BY <1>7 DEF ChangeEvent
  <2> QED
    BY <1>2, <2>2, <2>3
<1>8. ASSUME NEW i \in DOMAIN rows, NEW old \in written, RestoreRow(i, old)
      PROVE  Stored'
  <2>1. old \in Seq(Row) /\ i \in 1..Len(old)
    BY <1>8, LenProperties DEF Stored, RestoreRow
  <2>2. old[i] \in Row
    BY <2>1, ElementOfSeq
  <2>3. ReplaceAt(rows, i, old[i]) \in Seq(Row)
    BY <1>0, <2>2, ExceptSeq DEF ReplaceAt
  <2> QED
    BY <1>2, <1>8, <2>3 DEF RestoreRow
<1>9. CASE UNCHANGED evidenceVars
  BY <1>9 DEF evidenceVars, Stored
<1> QED
  BY <1>3, <1>4, <1>5, <1>6, <1>7, <1>8, <1>9 DEF EvidenceNext

(* Whoever finds a noted head in a later successful answer of verify() has the
   rows it was noted for, after any appends, deletions and faults. *)
THEOREM HeadAlwaysPinsRows == EvidenceSpec => []HeadPinsRows
<1>1. Stored => HeadPinsRows
  BY HeadDeterminesRows DEF Stored, HeadPinsRows
<1> QED
  BY <1>1, StoredInit, StoredStep, PTL DEF EvidenceSpec
-----------------------------------------------------------------------------
(* Where digests come from.  The store computes none: whatever it does to the
   rows, the digest each of them carries is one the repository has written. *)
Digested == UNION {{row.integrity_digest : row \in ToSet(old)} : old \in written}

Authentic == \A i \in 1..Len(rows) : rows[i].integrity_digest \in Digested

LEMMA DigestsOfWritten ==
  ASSUME NEW old \in written, old \in Seq(Row), NEW i \in 1..Len(old)
  PROVE  old[i].integrity_digest \in Digested
<1>1. old[i] \in ToSet(old)
  BY LenProperties DEF ToSet
<1> QED
  BY <1>1 DEF Digested

LEMMA DigestedGrows == [EvidenceNext]_evidenceVars => Digested \subseteq Digested'
<1> SUFFICES ASSUME [EvidenceNext]_evidenceVars PROVE Digested \subseteq Digested'
  OBVIOUS
<1>1. written \subseteq written'
  BY DEF EvidenceNext, evidenceVars, AppendRow, DeleteEvents, Store, LoseRow, SwapRows,
         ChangeEvent, RestoreRow, Damage
<1> QED
  BY <1>1 DEF Digested

(* Taking a row out leaves rows that were there. *)
LEMMA RemovedRowsAreOld ==
  ASSUME NEW events \in Seq(Row), NEW i \in 1..Len(events),
         NEW j \in 1..Len(RemoveAt(events, i))
  PROVE  \E k \in 1..Len(events) : RemoveAt(events, i)[j] = events[k]
<1> DEFINE a == SubSeq(events, 1, i - 1)
           b == SubSeq(events, i + 1, Len(events))
<1>1. Len(events) \in Nat /\ \A k \in 1..Len(events) : events[k] \in Row
  BY LenProperties, ElementOfSeq
<1>2. /\ a \in Seq(Row) /\ Len(a) = i - 1
      /\ \A k \in 1..(i - 1) : a[k] = events[k]
  <2>1. \A k \in 1..(i - 1) : events[k] \in Row
    BY <1>1
  <2>2. /\ a \in Seq(Row)
        /\ Len(a) = IF 1 <= i - 1 THEN (i - 1) - 1 + 1 ELSE 0
        /\ \A k \in 1..((i - 1) - 1 + 1) : a[k] = events[1 + k - 1]
    BY <1>1, <2>1, SubSeqProperties
  <2> HIDE DEF a
  <2> QED
    BY <1>1, <2>2
<1>3. /\ b \in Seq(Row) /\ Len(b) = Len(events) - i
      /\ \A k \in 1..(Len(events) - i) : b[k] = events[i + k]
  <2>1. \A k \in (i + 1)..Len(events) : events[k] \in Row
    BY <1>1
  <2>2. /\ b \in Seq(Row)
        /\ Len(b) = IF i + 1 <= Len(events) THEN Len(events) - (i + 1) + 1 ELSE 0
        /\ \A k \in 1..(Len(events) - (i + 1) + 1) : b[k] = events[(i + 1) + k - 1]
    BY <1>1, <2>1, SubSeqProperties
  <2> HIDE DEF b
  <2> QED
    BY <1>1, <2>2
<1>4. RemoveAt(events, i) = a \o b
  BY DEF RemoveAt
<1> HIDE DEF a, b
<1>5. /\ Len(a \o b) = Len(events) - 1
      /\ \A k \in 1..(Len(events) - 1) :
           (a \o b)[k] = IF k <= i - 1 THEN a[k] ELSE b[k - (i - 1)]
  <2>1. /\ Len(a \o b) = Len(a) + Len(b)
        /\ \A k \in 1..(Len(a) + Len(b)) :
             (a \o b)[k] = IF k <= Len(a) THEN a[k] ELSE b[k - Len(a)]
    BY <1>2, <1>3, ConcatProperties
  <2>2. Len(a) = i - 1 /\ Len(a) + Len(b) = Len(events) - 1
    BY <1>1, <1>2, <1>3
  <2> QED
    BY <2>1, <2>2
<1>6. j \in 1..(Len(events) - 1)
  BY <1>4, <1>5
<1>7. CASE j <= i - 1
  BY <1>1, <1>2, <1>4, <1>5, <1>6, <1>7
<1>8. CASE ~(j <= i - 1)
  <2>1. j - (i - 1) \in 1..(Len(events) - i) /\ i + (j - (i - 1)) = j + 1
        /\ j + 1 \in 1..Len(events)
    BY <1>1, <1>6, <1>8
  <2> QED
    BY <1>3, <1>4, <1>5, <1>6, <1>8, <2>1
<1> QED
  BY <1>7, <1>8

LEMMA AuthenticInit == EvidenceInit => Authentic
BY EmptySeq DEF EvidenceInit, Authentic

LEMMA AuthenticStep == Stored /\ Authentic /\ [EvidenceNext]_evidenceVars => Authentic'
<1> SUFFICES ASSUME Stored, Authentic, [EvidenceNext]_evidenceVars PROVE Authentic'
  OBVIOUS
<1>0. /\ rows \in Seq(Row) /\ DOMAIN rows = 1..Len(rows) /\ Len(rows) \in Nat
      /\ \A i \in 1..Len(rows) : rows[i] \in Row
      /\ Stored' /\ rows' \in Seq(Row)
  BY StoredStep, LenProperties, ElementOfSeq DEF Stored
<1>1. \A i \in 1..Len(rows) : rows[i].integrity_digest \in Digested'
  BY DigestedGrows DEF Authentic
<1>2. ASSUME NEW events, Store(events) PROVE Authentic'
  <2>1. rows' \in written' /\ rows' \in Seq(Row)
    BY <1>0, <1>2 DEF Store
  <2>2. \A i \in 1..Len(rows') : rows'[i] \in ToSet(rows')
    BY <2>1, LenProperties DEF ToSet
  <2>3. \A i \in 1..Len(rows') : rows'[i].integrity_digest \in Digested'
    BY <2>1, <2>2 DEF Digested
  <2> QED
    BY <2>3 DEF Authentic
<1>3. CASE \E e \in Event : AppendRow(e)
  BY <1>2, <1>3 DEF AppendRow
<1>4. CASE \E selection \in SUBSET EventIds : DeleteEvents(selection)
  BY <1>2, <1>4 DEF DeleteEvents
<1>5. ASSUME NEW i \in DOMAIN rows, LoseRow(i) PROVE Authentic'
  <2>1. rows' = RemoveAt(rows, i) /\ i \in 1..Len(rows)
    BY <1>0, <1>5 DEF LoseRow, Damage
  <2>2. \A j \in 1..Len(rows') : \E k \in 1..Len(rows) : rows'[j] = rows[k]
    BY <1>0, <2>1, RemovedRowsAreOld
  <2> QED
    BY <1>1, <2>2 DEF Authentic
<1>6. ASSUME NEW i \in DOMAIN rows, SwapRows(i) PROVE Authentic'
  <2>1. i \in 1..Len(rows) /\ i + 1 \in 1..Len(rows)
    BY <1>0, <1>6 DEF SwapRows
  <2>2. rows' = [rows EXCEPT ![i] = rows[i + 1], ![i + 1] = rows[i]]
    BY <1>6 DEF SwapRows, Damage
  <2>3. /\ Len(rows') = Len(rows)
        /\ \A j \in 1..Len(rows) : \E k \in 1..Len(rows) : rows'[j] = rows[k]
    BY <1>0, <2>1, <2>2, LenProperties
  <2> QED
    BY <1>1, <2>3 DEF Authentic
<1>7. ASSUME NEW i \in DOMAIN rows, NEW e \in Event, ChangeEvent(i, e)
      PROVE  Authentic'
  <2>1. rows' = [rows EXCEPT ![i] = [rows[i] EXCEPT !.event = e]]
    BY <1>7 DEF ChangeEvent, Damage
  <2>2. [rows[i] EXCEPT !.event = e].integrity_digest = rows[i].integrity_digest
    BY <1>0 DEF Row
  <2>3. /\ Len(rows') = Len(rows)
        /\ \A j \in 1..Len(rows) :
             rows'[j].integrity_digest = rows[j].integrity_digest
    BY <1>0, <2>1, <2>2, LenProperties
  <2> QED
    BY <1>1, <2>3 DEF Authentic
<1>8. ASSUME NEW i \in DOMAIN rows, NEW old \in written, RestoreRow(i, old)
      PROVE  Authentic'
  <2>1. old \in Seq(Row) /\ i \in 1..Len(old)
    BY <1>8, LenProperties DEF Stored, RestoreRow
  <2>2. old[i].integrity_digest \in Digested'
    BY <2>1, DigestsOfWritten, DigestedGrows
  <2>3. rows' = [rows EXCEPT ![i] = old[i]]
    BY <1>8 DEF RestoreRow, Damage, ReplaceAt
  <2>4. /\ Len(rows') = Len(rows)
        /\ \A j \in 1..Len(rows) : rows'[j] = rows[j] \/ rows'[j] = old[i]
    BY <1>0, <2>3, LenProperties
  <2> QED
    BY <1>1, <2>2, <2>4 DEF Authentic
<1>9. CASE UNCHANGED evidenceVars
  BY <1>9 DEF evidenceVars, Authentic, Digested
<1> QED
  BY <1>3, <1>4, <1>5, <1>6, <1>7, <1>8, <1>9 DEF EvidenceNext

(* The row that verify() reports is the first that does not match. *)
LEMMA BrokenAtProperties ==
  ASSUME NEW events \in Seq(Row)
  PROVE  /\ BrokenAt(events) \in 1..(Len(events) + 1)
         /\ \A j \in 1..(BrokenAt(events) - 1) : ~MismatchAt(events, j)
<1> DEFINE N == Len(events)
           Stops == {i \in 1..(N + 1) : i <= N => MismatchAt(events, i)}
<1>1. N \in Nat
  BY LenProperties
<1>2. Stops \in SUBSET Nat /\ N + 1 \in Stops
  BY <1>1
<1>3. PICK m \in Stops : \A n \in Stops : m <= n
  <2> HIDE DEF Stops
  <2> QED
    BY <1>2, SmallestElement
<1>4. m \in 1..(N + 1) /\ (m <= N => MismatchAt(events, m))
  OBVIOUS
<1>5. ASSUME NEW j \in 1..(m - 1) PROVE ~MismatchAt(events, j)
  <2>1. j \in 1..(N + 1) /\ ~(m <= j) /\ j <= N
    BY <1>1, <1>4
  <2>2. j \notin Stops
    BY <1>3, <2>1
  <2> QED
    BY <2>1, <2>2
<1> QED
  BY <1>4, <1>5 DEF BrokenAt

(* What the repository stores verifies, as long as it has found what it left. *)
Faithful == ~absorbed => \A old \in written : Verifies(old)

LEMMA PrefixRows ==
  ASSUME NEW s \in Seq(Row), NEW t \in Seq(Row)
  PROVE  IsPrefix(s, t) <=>
           Len(s) <= Len(t) /\ \A i \in 1..Len(s) : s[i] = t[i]
<1> DEFINE n == Len(s)
           a == SubSeq(s, 1, n)
           b == SubSeq(t, 1, n)
<1>1. /\ n \in Nat /\ Len(t) \in Nat
      /\ \A i \in 1..n : s[i] \in Row
      /\ \A i \in 1..Len(t) : t[i] \in Row
  BY LenProperties, ElementOfSeq
<1>2. a \in Seq(Row) /\ Len(a) = n /\ \A i \in 1..n : a[i] = s[i]
  <2>1. /\ a \in Seq(Row)
        /\ Len(a) = IF 1 <= n THEN n - 1 + 1 ELSE 0
        /\ \A i \in 1..(n - 1 + 1) : a[i] = s[1 + i - 1]
    BY <1>1, SubSeqProperties
  <2> HIDE DEF a, n
  <2> QED
    BY <1>1, <2>1
<1>3. ASSUME n <= Len(t)
      PROVE  b \in Seq(Row) /\ Len(b) = n /\ \A i \in 1..n : b[i] = t[i]
  <2>1. /\ b \in Seq(Row)
        /\ Len(b) = IF 1 <= n THEN n - 1 + 1 ELSE 0
        /\ \A i \in 1..(n - 1 + 1) : b[i] = t[1 + i - 1]
    <3>1. \A i \in 1..n : t[i] \in Row
      BY <1>1, <1>3
    <3> QED
      BY <1>1, <3>1, SubSeqProperties
  <2> HIDE DEF b, n
  <2> QED
    BY <1>1, <2>1
<1>4. IsPrefix(s, t) <=> n <= Len(t) /\ a = b
  BY DEF IsPrefix
<1> HIDE DEF a, b
<1>5. n <= Len(t) => (a = b <=> \A i \in 1..n : s[i] = t[i])
  BY <1>2, <1>3, SeqEqual
<1> QED
  BY <1>4, <1>5

LEMMA AppendVerifies ==
  ASSUME NEW events \in Seq(Row), Verifies(events), NEW e \in Event
  PROVE  Verifies(Append(events, NewRow(events, e)))
<1> DEFINE n == Len(events)
           row == NewRow(events, e)
           longer == Append(events, row)
<1>1. n \in Nat /\ n + 1 \in Nat /\ \A i \in 1..n : events[i] \in Row
  BY LenProperties, ElementOfSeq
<1>2. /\ LastDigest(events) \in Digests
      /\ LastDigest(events) = IF n + 1 = 1 THEN NoDigest ELSE Digest(events[n])
  <2>1. CASE events = << >>
    BY <2>1, EmptySeq DEF LastDigest, NoDigest, Digests
  <2>2. CASE events # << >>
    <3>1. n \in 1..n /\ n + 1 # 1
      BY <2>2, EmptySeq
    <3>2. events[n] \in Row /\ ~MismatchAt(events, n)
      BY <1>1, <3>1 DEF Verifies
    <3>3. events[n].integrity_digest = Digest(events[n])
      BY <3>2 DEF MismatchAt
    <3> QED
      BY <2>2, <3>1, <3>2, <3>3, RowFields DEF LastDigest
  <2> QED
    BY <2>1, <2>2
<1>3. /\ row \in Row /\ row.previous_digest = LastDigest(events)
      /\ row.integrity_digest = Digest(row)
  <2> DEFINE d == LastDigest(events)
  <2>1. d \in Digests
    BY <1>2
  <2>2. row = RowOf(e, n + 1, d)
    BY DEF NewRow
  <2> HIDE DEF d, n, row
  <2>3. /\ RowOf(e, n + 1, d) \in Row /\ RowOf(e, n + 1, d).previous_digest = d
        /\ RowOf(e, n + 1, d).integrity_digest = Append(d, <<e, n + 1>>)
        /\ Digest(RowOf(e, n + 1, d)) = Append(d, <<e, n + 1>>)
    BY <1>1, <2>1, RowOfProperties
  <2>4. row \in Row /\ row.previous_digest = d /\ row.integrity_digest = Digest(row)
    BY <2>2, <2>3
  <2> QED
    BY <2>4 DEF d
<1> HIDE DEF row
<1>4. /\ Len(longer) = n + 1 /\ longer[n + 1] = row
      /\ \A i \in 1..n : longer[i] = events[i]
  BY <1>3, AppendProperties
<1> HIDE DEF longer
<1>5. ASSUME NEW i \in 1..(n + 1) PROVE ~MismatchAt(longer, i)
  <2>1. CASE i = n + 1
    <3>1. n + 1 # 1 => longer[(n + 1) - 1] = events[n]
      BY <1>1, <1>4
    <3> QED
      BY <1>2, <1>3, <1>4, <2>1, <3>1 DEF MismatchAt
  <2>2. CASE i # n + 1
    <3>1. i \in 1..n /\ (i # 1 => i - 1 \in 1..n)
      BY <1>1, <2>2
    <3>2. longer[i] = events[i] /\ (i # 1 => longer[i - 1] = events[i - 1])
      BY <1>4, <3>1
    <3>3. ~MismatchAt(events, i)
      BY <3>1 DEF Verifies
    <3> QED
      BY <3>2, <3>3 DEF MismatchAt
  <2> QED
    BY <2>1, <2>2
<1>6. Verifies(longer)
  BY <1>4, <1>5 DEF Verifies
<1> QED
  BY <1>6 DEF longer, row

LEMMA PrefixVerifies ==
  ASSUME NEW s \in Seq(Row), NEW t \in Seq(Row), IsPrefix(s, t), Verifies(t)
  PROVE  Verifies(s)
<1>1. /\ Len(s) \in Nat /\ Len(t) \in Nat /\ Len(s) <= Len(t)
      /\ \A i \in 1..Len(s) : s[i] = t[i]
  BY LenProperties, PrefixRows
<1>2. ASSUME NEW i \in 1..Len(s) PROVE ~MismatchAt(s, i)
  <2>1. i \in 1..Len(t) /\ s[i] = t[i] /\ (i # 1 => s[i - 1] = t[i - 1])
    BY <1>1
  <2>2. ~MismatchAt(t, i)
    BY <2>1 DEF Verifies
  <2> QED
    BY <2>1, <2>2 DEF MismatchAt
<1> QED
  BY <1>2 DEF Verifies

LEMMA ResealVerifies ==
  ASSUME NEW events \in Seq(Row), NEW selection
  PROVE  Verifies(Resealed(events, selection))
BY LoggedProperties, SurvivorsProperties, ChainProperties DEF Resealed

LEMMA FaithfulInit == EvidenceInit => Faithful
<1>1. Len(<< >>) = 0
  BY EmptySeq
<1>2. Verifies(<< >>)
  BY <1>1 DEF Verifies
<1> QED
  BY <1>2 DEF EvidenceInit, Faithful

LEMMA FaithfulStep == Stored /\ Faithful /\ [EvidenceNext]_evidenceVars => Faithful'
<1> SUFFICES ASSUME Stored, Faithful, [EvidenceNext]_evidenceVars PROVE Faithful'
  OBVIOUS
<1>1. ASSUME NEW events, Store(events), ~absorbed' => Verifies(events) PROVE Faithful'
  BY <1>1 DEF Store, Faithful
<1>2. ASSUME NEW events, Store(events), ~absorbed' PROVE Verifies(rows)
  <2>1. ~absorbed /\ LeftSo
    BY <1>2 DEF Store
  <2>2. PICK old \in written : IsPrefix(rows, old)
    BY <2>1 DEF LeftSo
  <2> QED
    BY <2>1, <2>2, PrefixVerifies DEF Faithful, Stored
<1>3. ASSUME NEW e \in Event, AppendRow(e) PROVE Faithful'
  <2> DEFINE events == Append(rows, NewRow(rows, e))
  <2>1. Store(events)
    BY <1>3 DEF AppendRow
  <2>2. ASSUME ~absorbed' PROVE Verifies(events)
    <3>1. Verifies(rows)
      BY <1>2, <2>1, <2>2
    <3> QED
      BY <3>1, AppendVerifies DEF Stored
  <2> HIDE DEF events
  <2> QED
    BY <1>1, <2>1, <2>2
<1>4. ASSUME NEW selection \in SUBSET EventIds, DeleteEvents(selection) PROVE Faithful'
  BY <1>1, <1>4, ResealVerifies DEF DeleteEvents, Stored
<1>5. CASE UNCHANGED <<written, absorbed>>
  BY <1>5 DEF Faithful
<1>6. CASE \E i \in DOMAIN rows :
             \/ LoseRow(i) \/ SwapRows(i)
             \/ \E e \in Event : ChangeEvent(i, e)
             \/ \E old \in written : RestoreRow(i, old)
  BY <1>5, <1>6 DEF LoseRow, SwapRows, ChangeEvent, RestoreRow, Damage
<1> QED
  BY <1>3, <1>4, <1>5, <1>6 DEF EvidenceNext, evidenceVars

(* Unless the repository has stored over a change of the store, the rows before
   the one that verify() reports, all of them when it answers ok, are the first
   rows of a list the repository has stored. *)
THEOREM VerifiedAlwaysWritten == EvidenceSpec => []VerifiedWasWritten
<1>1. Stored /\ Authentic /\ Faithful => VerifiedWasWritten
  <2> SUFFICES ASSUME Stored, Authentic, Faithful, ~absorbed
               PROVE  \E old \in written : IsPrefix(SubSeq(rows, 1, BrokenAt(rows) - 1), old)
    BY DEF VerifiedWasWritten
  <2> DEFINE good == BrokenAt(rows) - 1
             part == SubSeq(rows, 1, good)
  <2>1. /\ rows \in Seq(Row) /\ Len(rows) \in Nat
        /\ good \in 0..Len(rows)
        /\ \A i \in 1..good : ~MismatchAt(rows, i)
        /\ \A i \in 1..Len(rows) : rows[i] \in Row
    <3>1. rows \in Seq(Row) /\ Len(rows) \in Nat
      BY LenProperties DEF Stored
    <3>2. /\ BrokenAt(rows) \in 1..(Len(rows) + 1)
          /\ \A j \in 1..(BrokenAt(rows) - 1) : ~MismatchAt(rows, j)
      BY <3>1, BrokenAtProperties
    <3> QED
      BY <3>1, <3>2, ElementOfSeq
  <2> HIDE DEF good
  <2>2. part \in Seq(Row) /\ Len(part) = good /\ \A i \in 1..good : part[i] = rows[i]
    <3>1. \A i \in 1..good : rows[i] \in Row
      BY <2>1
    <3>2. /\ part \in Seq(Row)
          /\ Len(part) = IF 1 <= good THEN good - 1 + 1 ELSE 0
          /\ \A i \in 1..(good - 1 + 1) : part[i] = rows[1 + i - 1]
      BY <2>1, <3>1, SubSeqProperties
    <3> HIDE DEF part
    <3> QED
      BY <2>1, <3>2
  <2> HIDE DEF part
  <2>3. ASSUME NEW old \in written, NEW k \in 1..Len(old),
               good # 0, rows[good].integrity_digest = old[k].integrity_digest
        PROVE  IsPrefix(part, old)
    <3>1. old \in Seq(Row) /\ Len(old) \in Nat /\ Verifies(old)
      BY LenProperties DEF Stored, Faithful
    <3>2. /\ \A i \in 1..Len(old) : old[i] \in Row /\ ~MismatchAt(old, i)
      BY <3>1, ElementOfSeq DEF Verifies
    <3>3. \A n \in 1..Len(old) : /\ old[n].integrity_digest = Trail(old, n)
                                  /\ old[n].previous_digest = Trail(old, n - 1)
      <4>1. Len(old) \in 0..Len(old)
        BY <3>1
      <4> QED
        BY <3>1, <3>2, <4>1, VerifiedTrail
    <3>4. \A n \in 1..good : /\ rows[n].integrity_digest = Trail(rows, n)
                              /\ rows[n].previous_digest = Trail(rows, n - 1)
      BY <2>1, VerifiedTrail
    <3>5. Trail(rows, good) = Trail(old, k) /\ good \in 1..good
      BY <2>1, <2>3, <3>3, <3>4
    <3>6. good = k
      <4>1. Len(Trail(rows, good)) = good /\ Len(Trail(old, k)) = k
        BY <2>1, <3>1, TrailProperties
      <4> QED
        BY <3>5, <4>1
    <3>7. \A i \in 1..good : /\ rows[i].event = old[i].event
                              /\ rows[i].sequence = old[i].sequence
      <4> SUFFICES ASSUME NEW i \in 1..good
                   PROVE  /\ rows[i].event = old[i].event
                          /\ rows[i].sequence = old[i].sequence
        OBVIOUS
      <4>1. /\ Trail(rows, good)[i] = <<rows[i].event, rows[i].sequence>>
            /\ Trail(old, good)[i] = <<old[i].event, old[i].sequence>>
        BY DEF Trail
      <4> QED
        BY <3>5, <3>6, <4>1
    <3>8. ASSUME NEW n \in 0..good PROVE Trail(rows, n) = Trail(old, n)
      <4>1. \A i \in 1..n : i \in 1..good
        BY <2>1
      <4> QED
        BY <3>7, <4>1 DEF Trail
    <3>9. ASSUME NEW i \in 1..good PROVE part[i] = old[i]
      <4>1. i \in 0..good /\ i - 1 \in 0..good /\ i \in 1..Len(old) /\ i \in 1..Len(rows)
        BY <2>1, <3>1, <3>6
      <4>2. /\ rows[i].integrity_digest = old[i].integrity_digest
            /\ rows[i].previous_digest = old[i].previous_digest
        BY <3>3, <3>4, <3>8, <4>1
      <4>3. rows[i] \in Row /\ old[i] \in Row
        BY <2>1, <3>2, <4>1
      <4>4. rows[i] = old[i]
        BY <3>7, <4>2, <4>3, RowFields
      <4> QED
        BY <2>2, <4>4
    <3> QED
      BY <2>2, <3>1, <3>6, <3>9, PrefixRows
  <2>4. CASE good = 0
    <3>1. PICK old \in written : old \in Seq(Row)
      BY DEF Stored
    <3>2. IsPrefix(part, old)
      <4>1. /\ part \in Seq(Row) /\ old \in Seq(Row) /\ Len(part) = 0 /\ Len(old) \in Nat
            /\ \A i \in 1..Len(part) : FALSE
        BY <2>2, <2>4, <3>1, LenProperties
      <4>2. Len(part) <= Len(old) /\ \A i \in 1..Len(part) : part[i] = old[i]
        BY <4>1
      <4> QED
        BY <4>1, <4>2, PrefixRows
    <3> QED
      BY <3>2 DEF part, good
  <2>5. CASE good # 0
    <3>1. good \in 1..Len(rows)
      BY <2>1, <2>5
    <3>2. PICK old \in written : rows[good].integrity_digest
                                   \in {row.integrity_digest : row \in ToSet(old)}
      BY <3>1 DEF Authentic, Digested
    <3>3. PICK k \in 1..Len(old) : rows[good].integrity_digest = old[k].integrity_digest
      <4>1. DOMAIN old = 1..Len(old)
        BY LenProperties DEF Stored
      <4> QED
        BY <3>2, <4>1 DEF ToSet
    <3>4. IsPrefix(part, old)
      BY <2>3, <2>5, <3>3
    <3> QED
      BY <3>4 DEF part, good
  <2> QED
    BY <2>4, <2>5
<1> QED
  BY <1>1, StoredInit, StoredStep, AuthenticInit, AuthenticStep, FaithfulInit, FaithfulStep,
     PTL DEF EvidenceSpec
=============================================================================
