----------------------- MODULE SQLiteRepositoryProofs -----------------------
(***************************************************************************)
(* Theorems about SQLiteRepository.  What the file holds is a sealed chain    *)
(* for any number of instances; that it holds every answered call needs an   *)
(* instance to be alone on the file, and is proved under that assumption.    *)
(***************************************************************************)
EXTENDS SQLiteRepository, AuditRepositoryProofs

LEMMA LoadedWellFormed ==
  ASSUME Sealed(table)
  PROVE  WellFormed(Loaded) /\ Loaded.events = table
BY LoadedSealed DEF Loaded

-----------------------------------------------------------------------------
SInv ==
  /\ TypeOK
  /\ Sealed(table)
  /\ \A c \in Connections : mem[c] # None => WellFormed(mem[c])

(* Only the instance that is called changes, into a well-formed one. *)
LEMMA InstanceStep ==
  ASSUME SInv, NEW c \in Connections, NEW s, WellFormed(s),
         mem' = [mem EXCEPT ![c] = s]
  PROVE  /\ mem' \in [Connections -> Repository \cup {None}]
         /\ mem'[c] = s
         /\ \A d \in Connections : mem'[d] # None => WellFormed(mem'[d])
BY DEF SInv, TypeOK, WellFormed

(* A save, failed or not, leaves a sealed table. *)
LEMMA SaveStep ==
  ASSUME SInv, NEW c \in Connections, WellFormed(mem'[c]),
         NEW ids, NEW answer \in Answers, SaveAndTell(c, ids, answer)
  PROVE  /\ Sealed(table')
         /\ writer' \in Connections \cup {None}
         /\ told' \in [EventIds -> Answers]
<1>1. told' \in [EventIds -> Answers]
  BY DEF SInv, TypeOK, SaveAndTell, TellAll, Answers
<1>2. writer' \in Connections \cup {None}
  BY DEF SInv, TypeOK, SaveAndTell, Save, SaveFails
<1>3. CASE Save(c, mem'[c].events)
  BY <1>1, <1>2, <1>3, SealedOfWellFormed DEF Save
<1>4. CASE SaveFails(c)
  BY <1>1, <1>2, <1>4 DEF SaveFails, SInv
<1> QED
  BY <1>3, <1>4 DEF SaveAndTell

LEMMA InitSealed == Init => SInv
<1> SUFFICES ASSUME Init PROVE SInv
  OBVIOUS
<1>1. Len(<< >>) = 0 /\ Logged(<< >>) = << >> /\ Chain(<< >>) = << >>
  BY EmptySeq DEF Logged, Chain
<1>2. Sealed(table)
  BY <1>1, EmptySeq DEF Init, Sealed, DistinctIds
<1>3. TypeOK
  BY <1>2, BoundsAssumption DEF Init, TypeOK, Answers, HoldTargets, Sealed
<1> QED
  BY <1>2, <1>3 DEF Init, SInv

LEMMA StepSealed == SInv /\ [Next]_vars => SInv'
<1> SUFFICES ASSUME SInv, [Next]_vars PROVE SInv'
  OBVIOUS
<1>0. now \in Int /\ MaxTime \in Nat
  BY BoundsAssumption DEF SInv, TypeOK
<1>1. ASSUME NEW c \in Connections, Open(c) PROVE SInv'
  <2>1. WellFormed(Loaded)
    BY LoadedWellFormed DEF SInv
  <2> QED
    BY <1>1, <2>1, InstanceStep DEF Open, SInv, TypeOK
<1>2. ASSUME NEW c \in Connections, Close(c) PROVE SInv'
  BY <1>2 DEF Close, SInv, TypeOK
<1>3. ASSUME NEW c \in Connections, NEW e \in Event, AppendEvent(c, e)
      PROVE  SInv'
  <2>1. WellFormed(AfterAppend(mem[c], ObjectUid, e))
    BY <1>3, AppendPreserves DEF AppendEvent, SInv
  <2>2. mem' = [mem EXCEPT ![c] = AfterAppend(mem[c], ObjectUid, e)]
    BY <1>3 DEF AppendEvent
  <2>3. /\ mem' \in [Connections -> Repository \cup {None}]
        /\ WellFormed(mem'[c])
        /\ \A d \in Connections : mem'[d] # None => WellFormed(mem'[d])
    BY <2>1, <2>2, InstanceStep
  <2>4. SaveAndTell(c, {e.event_id}, "present") /\ "present" \in Answers
    BY <1>3 DEF AppendEvent, Answers
  <2>5. /\ Sealed(table')
        /\ writer' \in Connections \cup {None}
        /\ told' \in [EventIds -> Answers]
    BY <2>3, <2>4, SaveStep
  <2> QED
    BY <1>3, <2>3, <2>5 DEF AppendEvent, SInv, TypeOK, Sealed
<1>4. ASSUME NEW c \in Connections, NEW id \in PreviewIds, NEW actor \in Actors,
             NEW blank \in BOOLEAN, DeletePreview(c, id, actor, blank)
      PROVE  SInv'
  <2>1. WellFormed(AfterDelete(mem[c], id, actor, blank, now))
    BY <1>4, DeletePreserves DEF DeletePreview, SInv
  <2>2. mem' = [mem EXCEPT ![c] = AfterDelete(mem[c], id, actor, blank, now)]
    BY <1>4 DEF DeletePreview
  <2>3. /\ mem' \in [Connections -> Repository \cup {None}]
        /\ WellFormed(mem'[c])
        /\ \A d \in Connections : mem'[d] # None => WellFormed(mem'[d])
    BY <2>1, <2>2, InstanceStep
  <2>4. /\ SaveAndTell(c, mem[c].previews[id].event_ids, "absent")
        /\ "absent" \in Answers
    BY <1>4 DEF DeletePreview, Answers
  <2>5. /\ Sealed(table')
        /\ writer' \in Connections \cup {None}
        /\ told' \in [EventIds -> Answers]
    BY <2>3, <2>4, SaveStep
  <2> QED
    BY <1>4, <2>3, <2>5 DEF DeletePreview, SInv, TypeOK, Sealed
<1>5. ASSUME NEW c \in Connections, NEW policy \in Policies, NEW actor \in Actors,
             SetPolicy(c, policy, actor)
      PROVE  SInv'
  <2>1. WellFormed(AfterSetPolicy(mem[c], policy, actor))
    BY <1>5, SetPolicyPreserves DEF SetPolicy, SInv
  <2> QED
    BY <1>5, <2>1, InstanceStep DEF SetPolicy, SInv, TypeOK
<1>6. ASSUME NEW c \in Connections, NEW id \in PreviewIds, NEW actor \in Actors,
             CreatePreview(c, id, actor)
      PROVE  SInv'
  <2>1. WellFormed(AfterCreatePreview(mem[c], id, actor, now))
    BY <1>0, <1>6, CreatePreviewPreserves DEF CreatePreview, SInv
  <2> QED
    BY <1>6, <2>1, InstanceStep DEF CreatePreview, SInv, TypeOK
<1>7. ASSUME NEW c \in Connections, NEW hold_id \in HoldIds,
             NEW event_id \in HoldTargets, NEW actor \in Actors,
             CreateHold(c, hold_id, event_id, actor)
      PROVE  SInv'
  <2>1. WellFormed(AfterCreateHold(mem[c], ObjectUid, hold_id, event_id, actor))
    BY <1>7, CreateHoldPreserves DEF CreateHold, SInv
  <2> QED
    BY <1>7, <2>1, InstanceStep DEF CreateHold, SInv, TypeOK
<1>8. ASSUME NEW c \in Connections, NEW hold_id \in HoldIds, NEW actor \in Actors,
             ReleaseHold(c, hold_id, actor)
      PROVE  SInv'
  <2>1. WellFormed(AfterReleaseHold(mem[c], hold_id, actor))
    BY <1>8, ReleaseHoldPreserves DEF ReleaseHold, SInv
  <2> QED
    BY <1>8, <2>1, InstanceStep DEF ReleaseHold, SInv, TypeOK, HoldTargets
<1>9. CASE Tick
  BY <1>0, <1>9 DEF Tick, SInv, TypeOK
<1>10. CASE UNCHANGED vars
  BY <1>10 DEF vars, SInv, TypeOK
<1> QED
  BY <1>1, <1>2, <1>3, <1>4, <1>5, <1>6, <1>7, <1>8, <1>9, <1>10 DEF Next, Call

THEOREM SealedAlways == Spec => []SInv
BY InitSealed, StepSealed, PTL DEF Spec

(* Tables, instances and histories keep their types for any number of
   instances on the file. *)
THEOREM SQLiteTypeCorrect == Spec => []TypeOK
<1>1. SInv => TypeOK
  BY DEF SInv
<1> QED
  BY <1>1, SealedAlways, PTL

(* Whatever instances are open on the file and whichever saves fail, the rows
   in it are numbered, chained and one per event. *)
THEOREM TableAlwaysVerifies == Spec => []TableVerifies
<1>1. SInv => TableVerifies
  <2> SUFFICES ASSUME SInv PROVE TableVerifies
    OBVIOUS
  <2> DEFINE log == Logged(table)
  <2>1. /\ table = Chain(log) /\ log \in Seq(Event) /\ Len(log) = Len(table)
        /\ DistinctIds(log)
        /\ \A i \in 1..Len(table) : log[i] = table[i].event
    BY LoggedProperties DEF SInv, Sealed
  <2> HIDE DEF log
  <2>2. Verifies(table) /\ \A i \in 1..Len(table) : table[i].sequence = i
    BY <2>1, ChainProperties
  <2> QED
    BY <2>1, <2>2 DEF TableVerifies, DistinctIds
<1> QED
  BY <1>1, SealedAlways, PTL

-----------------------------------------------------------------------------
(* Durability for an instance that is alone on its file.                    *)

(* What callers were told of an event is so in the file and in the instance. *)
HoldsTold(ids) ==
  \A x \in EventIds : /\ told[x] = "present" => x \in ids
                      /\ told[x] = "absent" => x \notin ids

DInv ==
  /\ HoldsTold(Ids(table))
  /\ \A c \in Connections : mem[c] # None => HoldsTold(Ids(mem[c].events))

(* A call on the only instance that changes no event and tells nothing. *)
LEMMA QuietStep ==
  ASSUME SInv, DInv, NEW c \in Connections, mem[c] # None,
         NEW s, s.events = mem[c].events, mem' = [mem EXCEPT ![c] = s],
         UNCHANGED <<table, told>>
  PROVE  DInv'
<1>1. \A d \in Connections : mem'[d] # None =>
         mem[d] # None /\ mem'[d].events = mem[d].events
  BY DEF SInv, TypeOK
<1> QED
  BY <1>1 DEF DInv, HoldsTold

LEMMA InitDurable == Init => DInv
<1> SUFFICES ASSUME Init PROVE DInv
  OBVIOUS
<1>1. Ids(<< >>) = {}
  BY EmptySeq DEF Ids
<1> QED
  BY <1>1 DEF Init, DInv, HoldsTold

LEMMA StepDurable ==
  ASSUME NEW c \in Connections, Connections = {c}, SInv, DInv, [Next]_vars
  PROVE  DInv'
<1>1. CASE Open(c)
  <2>1. mem' = [mem EXCEPT ![c] = Loaded] /\ UNCHANGED <<table, told>>
    BY <1>1 DEF Open
  <2>2. mem'[c] = Loaded /\ Loaded.events = table
    BY <2>1, LoadedWellFormed DEF SInv, TypeOK
  <2> QED
    BY <2>1, <2>2 DEF DInv, HoldsTold
<1>2. CASE Close(c)
  <2>1. mem'[c] = None /\ UNCHANGED <<table, told>>
    BY <1>2 DEF Close, SInv, TypeOK
  <2> QED
    BY <2>1 DEF DInv, HoldsTold
<1>3. ASSUME NEW e \in Event, AppendEvent(c, e) PROVE DInv'
  <2> DEFINE s == AfterAppend(mem[c], ObjectUid, e)
  <2>1. /\ mem[c] # None /\ WellFormed(mem[c])
        /\ mem' = [mem EXCEPT ![c] = s]
        /\ SaveAndTell(c, {e.event_id}, "present")
        /\ AppendOutcome(mem[c], ObjectUid, e) = "accepted"
    BY <1>3 DEF AppendEvent, SInv
  <2>2. mem'[c] = s /\ Ids(s.events) = Ids(mem[c].events) \cup {e.event_id}
    BY <2>1, AppendIds DEF SInv, TypeOK
  <2> HIDE DEF s
  <2>3. HoldsTold(Ids(mem[c].events)) /\ HoldsTold(Ids(table))
    BY <2>1 DEF DInv
  <2>4. CASE Save(c, mem'[c].events) /\ told' = TellAll({e.event_id}, "present")
    <3>1. table' = s.events
      BY <2>2, <2>4 DEF Save
    <3>2. \A x \in EventIds : told'[x] = IF x = e.event_id THEN "present" ELSE told[x]
      BY <2>4 DEF TellAll
    <3> QED
      BY <2>2, <2>3, <3>1, <3>2 DEF DInv, HoldsTold
  <2>5. CASE SaveFails(c) /\ told' = TellAll({e.event_id}, "unknown")
    <3>1. table' = table
      BY <2>5 DEF SaveFails
    <3>2. \A x \in EventIds : told'[x] = IF x = e.event_id THEN "unknown" ELSE told[x]
      BY <2>5 DEF TellAll
    <3> QED
      BY <2>2, <2>3, <3>1, <3>2 DEF DInv, HoldsTold
  <2> QED
    BY <2>1, <2>4, <2>5 DEF SaveAndTell
<1>4. ASSUME NEW id \in PreviewIds, NEW actor \in Actors, NEW blank \in BOOLEAN,
             DeletePreview(c, id, actor, blank)
      PROVE  DInv'
  <2> DEFINE s == AfterDelete(mem[c], id, actor, blank, now)
             selection == mem[c].previews[id].event_ids
  <2>1. /\ mem[c] # None /\ WellFormed(mem[c])
        /\ mem' = [mem EXCEPT ![c] = s]
        /\ SaveAndTell(c, selection, "absent")
        /\ DeleteOutcome(mem[c], id, actor, blank, now) = "deleted"
    BY <1>4 DEF DeletePreview, SInv
  <2>2. mem'[c] = s /\ Ids(s.events) = Ids(mem[c].events) \ selection
    <3>1. WellFormed(s) /\ DeletedBy(mem[c], s, id)
      BY <2>1, DeletePreserves
    <3> QED
      BY <2>1, <3>1, DeletedIds DEF SInv, TypeOK
  <2> HIDE DEF s, selection
  <2>3. HoldsTold(Ids(mem[c].events)) /\ HoldsTold(Ids(table))
    BY <2>1 DEF DInv
  <2>4. CASE Save(c, mem'[c].events) /\ told' = TellAll(selection, "absent")
    <3>1. table' = s.events
      BY <2>2, <2>4 DEF Save
    <3>2. \A x \in EventIds : told'[x] = IF x \in selection THEN "absent" ELSE told[x]
      BY <2>4 DEF TellAll
    <3> QED
      BY <2>2, <2>3, <3>1, <3>2 DEF DInv, HoldsTold
  <2>5. CASE SaveFails(c) /\ told' = TellAll(selection, "unknown")
    <3>1. table' = table
      BY <2>5 DEF SaveFails
    <3>2. \A x \in EventIds : told'[x] = IF x \in selection THEN "unknown" ELSE told[x]
      BY <2>5 DEF TellAll
    <3> QED
      BY <2>2, <2>3, <3>1, <3>2 DEF DInv, HoldsTold
  <2> QED
    BY <2>1, <2>4, <2>5 DEF SaveAndTell
<1>5. ASSUME NEW policy \in Policies, NEW actor \in Actors,
             SetPolicy(c, policy, actor)
      PROVE  DInv'
  <2>1. AfterSetPolicy(mem[c], policy, actor).events = mem[c].events
    BY <1>5, SetPolicyPreserves DEF SetPolicy, SInv
  <2> QED
    BY <1>5, <2>1, QuietStep DEF SetPolicy
<1>6. ASSUME NEW id \in PreviewIds, NEW actor \in Actors,
             CreatePreview(c, id, actor)
      PROVE  DInv'
  <2>1. now \in Int
    BY BoundsAssumption DEF SInv, TypeOK
  <2>2. AfterCreatePreview(mem[c], id, actor, now).events = mem[c].events
    BY <1>6, <2>1, CreatePreviewPreserves DEF CreatePreview, SInv
  <2> QED
    BY <1>6, <2>2, QuietStep DEF CreatePreview
<1>7. ASSUME NEW hold_id \in HoldIds, NEW event_id \in HoldTargets,
             NEW actor \in Actors, CreateHold(c, hold_id, event_id, actor)
      PROVE  DInv'
  <2>1. AfterCreateHold(mem[c], ObjectUid, hold_id, event_id, actor).events
          = mem[c].events
    BY <1>7, CreateHoldPreserves DEF CreateHold, SInv
  <2> QED
    BY <1>7, <2>1, QuietStep DEF CreateHold
<1>8. ASSUME NEW hold_id \in HoldIds, NEW actor \in Actors,
             ReleaseHold(c, hold_id, actor)
      PROVE  DInv'
  <2>1. AfterReleaseHold(mem[c], hold_id, actor).events = mem[c].events
    BY <1>8, ReleaseHoldPreserves DEF ReleaseHold, SInv
  <2> QED
    BY <1>8, <2>1, QuietStep DEF ReleaseHold
<1>9. CASE Tick
  BY <1>9 DEF Tick, DInv, HoldsTold
<1>10. CASE UNCHANGED vars
  BY <1>10 DEF vars, DInv, HoldsTold
<1> QED
  BY <1>1, <1>2, <1>3, <1>4, <1>5, <1>6, <1>7, <1>8, <1>9, <1>10 DEF Next, Call

(* With one instance on the file, an append that was answered is in the file
   and an event whose deletion was answered is not, whichever saves fail and
   however often the instance is closed, lost and opened again. *)
THEOREM AnsweredAlwaysDurable ==
  ASSUME NEW c \in Connections, Connections = {c}
  PROVE  Spec => []AnsweredIsDurable
<1>1. SInv /\ DInv /\ [Next]_vars => DInv'
  BY StepDurable
<1>2. DInv => AnsweredIsDurable
  BY DEF DInv, HoldsTold, AnsweredIsDurable
<1> QED
  BY <1>1, <1>2, InitDurable, SealedAlways, PTL DEF Spec

-----------------------------------------------------------------------------
(* Replays.  To be recognised, a stored event must be in the instance with
   the same content: an instance and its file may differ after a failed save,
   but not on an event whose append was answered. *)

EventsOf(rows) == {rows[i].event : i \in 1..Len(rows)}

LEMMA EventsOfLogged ==
  ASSUME NEW r, WellFormed(r)
  PROVE  /\ EventsOf(r.events) = {Logged(r.events)[i] : i \in 1..Len(Logged(r.events))}
         /\ Ids(r.events) = {e.event_id : e \in EventsOf(r.events)}
         /\ \A e, f \in EventsOf(r.events) : e.event_id = f.event_id => e = f
<1> DEFINE log == Logged(r.events)
           N == Len(r.events)
<1>1. /\ Len(log) = N /\ DistinctIds(log)
      /\ \A i \in 1..N : log[i] = r.events[i].event
  BY IdsOfLogged
<1> HIDE DEF log, N
<1>2. EventsOf(r.events) = {log[i] : i \in 1..N}
  BY <1>1 DEF EventsOf, N
<1>3. Ids(r.events) = {e.event_id : e \in EventsOf(r.events)}
  BY DEF Ids, EventsOf
<1>4. \A e, f \in EventsOf(r.events) : e.event_id = f.event_id => e = f
  BY <1>1, <1>2 DEF DistinctIds
<1> QED
  BY <1>1, <1>2, <1>3, <1>4 DEF log

LEMMA AppendedEvents ==
  ASSUME NEW r, WellFormed(r), NEW e \in Event,
         AppendOutcome(r, ObjectUid, e) = "accepted"
  PROVE  EventsOf(AfterAppend(r, ObjectUid, e).events) = EventsOf(r.events) \cup {e}
<1> DEFINE s == AfterAppend(r, ObjectUid, e)
           log == Logged(r.events)
           n == Len(log)
<1>1. WellFormed(s) /\ Logged(s.events) = Append(log, e)
  BY AppendPreserves
<1> HIDE DEF s
<1>2. log \in Seq(Event) /\ n \in Nat
  BY IdsOfLogged
<1>3. /\ Len(Append(log, e)) = n + 1 /\ Append(log, e)[n + 1] = e
      /\ \A i \in 1..n : Append(log, e)[i] = log[i]
  BY <1>2, AppendProperties
<1>4. /\ EventsOf(s.events) = {Append(log, e)[i] : i \in 1..(n + 1)}
      /\ EventsOf(r.events) = {log[i] : i \in 1..n}
  <2>1. EventsOf(s.events) =
          {Logged(s.events)[i] : i \in 1..Len(Logged(s.events))}
    BY <1>1, EventsOfLogged
  <2>2. EventsOf(r.events) = {log[i] : i \in 1..n}
    BY EventsOfLogged
  <2> QED
    BY <1>1, <1>3, <2>1, <2>2
<1>5. 1..(n + 1) = 1..n \cup {n + 1}
  BY <1>2
<1> HIDE DEF log, n
<1> QED
  BY <1>3, <1>4, <1>5 DEF s

LEMMA RemainingEvents ==
  ASSUME NEW r, WellFormed(r), NEW s, WellFormed(s), NEW id, DeletedBy(r, s, id)
  PROVE  EventsOf(s.events) \subseteq EventsOf(r.events)
<1> DEFINE log == Logged(r.events)
           selection == r.previews[id].event_ids
           rest == Survivors(log, selection)
<1>1. Logged(s.events) = rest
  BY DEF DeletedBy
<1>2. log \in Seq(Event)
  BY IdsOfLogged
<1>3. /\ EventsOf(s.events) = {rest[i] : i \in 1..Len(rest)}
      /\ EventsOf(r.events) = {log[i] : i \in 1..Len(log)}
  <2>1. EventsOf(s.events) =
          {Logged(s.events)[i] : i \in 1..Len(Logged(s.events))}
    BY EventsOfLogged
  <2>2. EventsOf(r.events) = {log[i] : i \in 1..Len(log)}
    BY EventsOfLogged
  <2> QED
    BY <1>1, <2>1, <2>2
<1> HIDE DEF log, selection
<1>4. \A n \in 1..Len(rest) : \E i \in 1..Len(log) : rest[n] = log[i]
  BY <1>2, SurvivorsProperties
<1> HIDE DEF rest
<1> QED
  BY <1>3, <1>4

Agreed(stored, held) ==
  \A e \in stored, f \in held :
    e.event_id = f.event_id /\ told[e.event_id] = "present" => e = f

AInv ==
  \A c \in Connections :
    mem[c] # None => Agreed(EventsOf(table), EventsOf(mem[c].events))

(* The instance is called and the outcome saved, or not and then unknown. *)
LEMMA SaveAgrees ==
  ASSUME NEW c \in Connections, Connections = {c}, WellFormed(mem'[c]),
         AInv, mem[c] # None, NEW ids, NEW answer, SaveAndTell(c, ids, answer),
         \A e \in EventsOf(mem'[c].events) :
           e \in EventsOf(mem[c].events) \/ e.event_id \in ids,
         \A e \in EventsOf(table) : e.event_id \in EventIds
  PROVE  AInv'
<1>1. CASE Save(c, mem'[c].events)
  <2>1. table' = mem'[c].events
    BY <1>1 DEF Save
  <2>2. \A e, f \in EventsOf(mem'[c].events) : e.event_id = f.event_id => e = f
    BY EventsOfLogged
  <2> QED
    BY <2>1, <2>2 DEF AInv, Agreed
<1>2. CASE SaveFails(c) /\ told' = TellAll(ids, "unknown")
  <2>1. table' = table
    BY <1>2 DEF SaveFails
  <2>2. \A x \in EventIds : told'[x] = IF x \in ids THEN "unknown" ELSE told[x]
    BY <1>2 DEF TellAll
  <2>3. ASSUME NEW e \in EventsOf(table), NEW f \in EventsOf(mem'[c].events),
               e.event_id = f.event_id, told'[e.event_id] = "present"
        PROVE  e = f
    <3>1. e.event_id \notin ids /\ told[e.event_id] = "present"
      BY <2>2, <2>3
    <3>2. f \in EventsOf(mem[c].events)
      BY <2>3, <3>1
    <3> QED
      BY <2>3, <3>1, <3>2 DEF AInv, Agreed
  <2> QED
    BY <2>1, <2>3 DEF AInv, Agreed
<1> QED
  BY <1>1, <1>2 DEF SaveAndTell

LEMMA QuietAgrees ==
  ASSUME SInv, AInv, NEW c \in Connections, mem[c] # None,
         NEW s, s.events = mem[c].events, mem' = [mem EXCEPT ![c] = s],
         UNCHANGED <<table, told>>
  PROVE  AInv'
<1>1. \A d \in Connections : mem'[d] # None =>
         mem[d] # None /\ mem'[d].events = mem[d].events
  BY DEF SInv, TypeOK
<1> QED
  BY <1>1 DEF AInv, Agreed

LEMMA StepAgrees ==
  ASSUME NEW c \in Connections, Connections = {c}, SInv, AInv, [Next]_vars
  PROVE  AInv'
<1>0. \A e \in EventsOf(table) : e.event_id \in EventIds
  <2>1. WellFormed(Loaded) /\ Loaded.events = table
    BY LoadedWellFormed DEF SInv
  <2> QED
    BY <2>1, IdsOfLogged, EventsOfLogged
<1>1. CASE Open(c)
  <2>1. mem' = [mem EXCEPT ![c] = Loaded] /\ UNCHANGED <<table, told>>
    BY <1>1 DEF Open
  <2>2. WellFormed(Loaded) /\ mem'[c] = Loaded /\ Loaded.events = table
    BY <2>1, LoadedWellFormed DEF SInv, TypeOK
  <2>3. \A e, f \in EventsOf(table) : e.event_id = f.event_id => e = f
    BY <2>2, EventsOfLogged
  <2> QED
    BY <2>1, <2>2, <2>3 DEF AInv, Agreed
<1>2. CASE Close(c)
  <2>1. mem'[c] = None
    BY <1>2 DEF Close, SInv, TypeOK
  <2> QED
    BY <2>1 DEF AInv
<1>3. ASSUME NEW e \in Event, AppendEvent(c, e) PROVE AInv'
  <2> DEFINE s == AfterAppend(mem[c], ObjectUid, e)
  <2>1. /\ mem[c] # None /\ WellFormed(mem[c])
        /\ mem' = [mem EXCEPT ![c] = s]
        /\ SaveAndTell(c, {e.event_id}, "present")
        /\ AppendOutcome(mem[c], ObjectUid, e) = "accepted"
    BY <1>3 DEF AppendEvent, SInv
  <2>2. WellFormed(s) /\ EventsOf(s.events) = EventsOf(mem[c].events) \cup {e}
    BY <2>1, AppendedEvents, AppendPreserves
  <2>3. mem'[c] = s
    BY <2>1 DEF SInv, TypeOK
  <2> HIDE DEF s
  <2>4. \A f \in EventsOf(mem'[c].events) :
          f \in EventsOf(mem[c].events) \/ f.event_id \in {e.event_id}
    BY <2>2, <2>3
  <2> QED
    BY <1>0, <2>1, <2>2, <2>3, <2>4, SaveAgrees
<1>4. ASSUME NEW id \in PreviewIds, NEW actor \in Actors, NEW blank \in BOOLEAN,
             DeletePreview(c, id, actor, blank)
      PROVE  AInv'
  <2> DEFINE s == AfterDelete(mem[c], id, actor, blank, now)
             selection == mem[c].previews[id].event_ids
  <2>1. /\ mem[c] # None /\ WellFormed(mem[c])
        /\ mem' = [mem EXCEPT ![c] = s]
        /\ SaveAndTell(c, selection, "absent")
        /\ DeleteOutcome(mem[c], id, actor, blank, now) = "deleted"
    BY <1>4 DEF DeletePreview, SInv
  <2>2. WellFormed(s) /\ DeletedBy(mem[c], s, id)
    BY <2>1, DeletePreserves
  <2>3. mem'[c] = s
    BY <2>1 DEF SInv, TypeOK
  <2> HIDE DEF s, selection
  <2>4. \A f \in EventsOf(mem'[c].events) :
          f \in EventsOf(mem[c].events) \/ f.event_id \in selection
    BY <2>1, <2>2, <2>3, RemainingEvents
  <2> QED
    BY <1>0, <2>1, <2>2, <2>3, <2>4, SaveAgrees
<1>5. ASSUME NEW policy \in Policies, NEW actor \in Actors,
             SetPolicy(c, policy, actor)
      PROVE  AInv'
  <2>1. AfterSetPolicy(mem[c], policy, actor).events = mem[c].events
    BY <1>5, SetPolicyPreserves DEF SetPolicy, SInv
  <2> QED
    BY <1>5, <2>1, QuietAgrees DEF SetPolicy
<1>6. ASSUME NEW id \in PreviewIds, NEW actor \in Actors,
             CreatePreview(c, id, actor)
      PROVE  AInv'
  <2>1. now \in Int
    BY BoundsAssumption DEF SInv, TypeOK
  <2>2. AfterCreatePreview(mem[c], id, actor, now).events = mem[c].events
    BY <1>6, <2>1, CreatePreviewPreserves DEF CreatePreview, SInv
  <2> QED
    BY <1>6, <2>2, QuietAgrees DEF CreatePreview
<1>7. ASSUME NEW hold_id \in HoldIds, NEW event_id \in HoldTargets,
             NEW actor \in Actors, CreateHold(c, hold_id, event_id, actor)
      PROVE  AInv'
  <2>1. AfterCreateHold(mem[c], ObjectUid, hold_id, event_id, actor).events
          = mem[c].events
    BY <1>7, CreateHoldPreserves DEF CreateHold, SInv
  <2> QED
    BY <1>7, <2>1, QuietAgrees DEF CreateHold
<1>8. ASSUME NEW hold_id \in HoldIds, NEW actor \in Actors,
             ReleaseHold(c, hold_id, actor)
      PROVE  AInv'
  <2>1. AfterReleaseHold(mem[c], hold_id, actor).events = mem[c].events
    BY <1>8, ReleaseHoldPreserves DEF ReleaseHold, SInv
  <2> QED
    BY <1>8, <2>1, QuietAgrees DEF ReleaseHold
<1>9. CASE Tick
  BY <1>9 DEF Tick, AInv, Agreed
<1>10. CASE UNCHANGED vars
  BY <1>10 DEF vars, AInv, Agreed
<1> QED
  BY <1>1, <1>2, <1>3, <1>4, <1>5, <1>6, <1>7, <1>8, <1>9, <1>10 DEF Next, Call

(* With one instance on the file, an event whose append was answered is
   recognised when it is sent again, through failed saves, deletions of other
   events, closing and opening. *)
THEOREM RetryAlwaysRecognised ==
  ASSUME NEW c \in Connections, Connections = {c}
  PROVE  Spec => []RetryRecognised
<1>1. SInv /\ DInv /\ [Next]_vars => DInv'
  BY StepDurable
<1>2. SInv /\ AInv /\ [Next]_vars => AInv'
  BY StepAgrees
<1>3. Init => AInv
  BY DEF Init, AInv
<1>4. SInv /\ DInv /\ AInv => RetryRecognised
  <2> SUFFICES ASSUME SInv, DInv, AInv, mem[c] # None, NEW i \in 1..Len(table),
                      told[table[i].event.event_id] = "present"
               PROVE  AppendOutcome(mem[c], ObjectUid, table[i].event)
                        = "IdempotentReplay"
    BY DEF RetryRecognised
  <2> DEFINE e == table[i].event
  <2>1. e \in EventsOf(table) /\ WellFormed(mem[c])
    BY DEF EventsOf, SInv
  <2>2. e.event_id \in EventIds
    <3>1. e.event_id \in Ids(table)
      BY DEF Ids
    <3>2. WellFormed(Loaded) /\ Loaded.events = table
      BY LoadedWellFormed DEF SInv
    <3>3. Ids(table) \subseteq EventIds
      BY <3>2, IdsOfLogged
    <3> QED
      BY <3>1, <3>3
  <2>3. e.event_id \in Ids(mem[c].events)
    BY <2>2 DEF DInv, HoldsTold
  <2> HIDE DEF e
  <2>4. PICK k \in 1..Len(mem[c].events) : mem[c].events[k].event.event_id = e.event_id
    BY <2>3 DEF Ids
  <2>5. mem[c].events[k].event = e
    BY <2>1, <2>4 DEF AInv, Agreed, EventsOf, e
  <2> QED
    BY <2>1, <2>5, WellFormedRecognisesReplays DEF e
<1> QED
  BY <1>1, <1>2, <1>3, <1>4, InitDurable, SealedAlways, PTL DEF Spec
=============================================================================
