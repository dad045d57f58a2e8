---------------------------- MODULE ChainEvidence ----------------------------
(***************************************************************************)
(* What verify() can tell of stored rows.  The repository appends and         *)
(* deletes; between its calls the store loses, changes, reorders or restores  *)
(* rows behind its back (an edited table, a partial backup), without          *)
(* computing digests.  The repository goes on with whatever it then finds:    *)
(* no method verifies before it writes, and a deletion digests every row it    *)
(* leaves anew, also one that the store has changed.                         *)
(***************************************************************************)
EXTENDS AuditRepository, SequencesExt

CONSTANTS
  MaxFaults,   \* bound: what happens to the store
  MaxWrites    \* bound: appends and deletions

ASSUME FaultsAssumption == MaxFaults \in Nat /\ MaxWrites \in Nat

VARIABLES
  rows,     \* the stored rows
  written,  \* history: every list of rows the repository has stored
  absorbed, \* history: it has stored over rows it could not have left so
  writes, faults

evidenceVars == <<rows, written, absorbed, writes, faults>>

EvidenceInit ==
  /\ rows = << >>
  /\ written = {<< >>}
  /\ absorbed = FALSE
  /\ writes = 0
  /\ faults = 0

-----------------------------------------------------------------------------
(* Whether some call has left these rows, or these and others after them. *)
LeftSo == \E old \in written : IsPrefix(rows, old)

Store(events) ==
  /\ writes < MaxWrites
  /\ writes' = writes + 1
  /\ rows' = events
  /\ written' = written \cup {events}
  /\ absorbed' = (absorbed \/ ~LeftSo)
  /\ UNCHANGED faults

AppendRow(e) ==
  /\ e.event_id \notin Ids(rows)
  /\ Store(Append(rows, NewRow(rows, e)))

DeleteEvents(selection) ==
  /\ selection \cap Ids(rows) # {}
  /\ Store(Resealed(rows, selection))

(* Faults of the store. *)
Damage(events) ==
  /\ faults < MaxFaults
  /\ faults' = faults + 1
  /\ rows' = events
  /\ UNCHANGED <<written, absorbed, writes>>

LoseRow(i) == Damage(RemoveAt(rows, i))

SwapRows(i) == i < Len(rows) /\ Damage([rows EXCEPT ![i] = rows[i + 1],
                                                    ![i + 1] = rows[i]])

ChangeEvent(i, e) == Damage([rows EXCEPT ![i].event = e])

RestoreRow(i, old) == i \in DOMAIN old /\ Damage(ReplaceAt(rows, i, old[i]))

EvidenceNext ==
  \/ \E e \in Event : AppendRow(e)
  \/ \E selection \in SUBSET EventIds : DeleteEvents(selection)
  \/ \E i \in DOMAIN rows :
       \/ LoseRow(i)
       \/ SwapRows(i)
       \/ \E e \in Event : ChangeEvent(i, e)
       \/ \E old \in written : RestoreRow(i, old)

EvidenceSpec == EvidenceInit /\ [][EvidenceNext]_evidenceVars

-----------------------------------------------------------------------------
(* verify(): the place of the row it reports as broken_event_id, one past the
   end when it answers ok; and the head of its answer, which is recomputed. *)
BrokenAt(events) ==
  CHOOSE i \in 1..(Len(events) + 1) :
    /\ i <= Len(events) => MismatchAt(events, i)
    /\ \A j \in 1..(i - 1) : ~MismatchAt(events, j)

HeadOf(events) ==
  IF events = << >> THEN NoDigest ELSE Digest(events[Len(events)])

(* README.md: the chain detects missing or changed records.  It does until the
   repository next stores over a change: the rows before the one that verify()
   reports, all of them when it answers ok, are the first rows, to the last
   field, of a list that the repository has stored, so that no change, mixture
   or reordering and no loss but that of an end passes.  What does pass: a lost
   end, also when an append has gone on from there; a whole older stream; and,
   from the next deletion on, whatever was changed or lost before it, because
   delete_preview digests what it finds.  An append over such rows ends the
   promise as well. *)
VerifiedWasWritten ==
  ~absorbed => \E old \in written : IsPrefix(SubSeq(rows, 1, BrokenAt(rows) - 1), old)

(* docs/USAGE.md: a successful result includes the chain head.  Whoever has
   noted the head of a stream and finds it in a later successful answer has
   the same stream, to the last field: that also excludes a missing tail. *)
HeadPinsRows ==
  \A old \in written :
    Verifies(old) /\ Verifies(rows) /\ HeadOf(old) = HeadOf(rows) => rows = old
=============================================================================
