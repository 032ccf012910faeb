-------------------------- MODULE IncidentsProofs --------------------------
(***************************************************************************)
(* The note of incidents, for any servers, services, requests, caps and    *)
(* bounds: it keeps its type, one entry per trouble, every trouble that    *)
(* stands in front of the operator, and every value it could not read.     *)
(***************************************************************************)
EXTENDS Incidents, FiniteSetTheorems, FunctionTheorems, TLAPS

\* What the outcomes of a route are, without the set that lists them.
LEMMA OutcomeFacts ==
  ASSUME NEW r \in Outcomes
  PROVE /\ r \in Result
        /\ r.route = "change" => r.status \in {"ok", "rolled_back", "rollback_failed"}
        /\ r.route # "change" => r.status \in {"ok"} \union Categories
<1>1. r.route \in Routes
  BY DEF Outcomes, Result
<1>2. CASE r.route = "change"
  BY <1>2 DEF Outcomes
<1>3. CASE r.route = "restore_api"
  BY <1>3 DEF Outcomes, Categories
<1>4. CASE r.route \in {"restore_file", "import_file"}
  BY <1>4 DEF Outcomes, Categories
<1>5. CASE r.route = "restart"
  BY <1>5 DEF Outcomes
<1>6. QED
  BY <1>1, <1>2, <1>3, <1>4, <1>5 DEF Outcomes, Routes

\* An entry for an outcome that is not a success is an incident, and it shows
\* the trouble the outcome left.
LEMMA EntryFacts ==
  ASSUME NEW r \in Result, r.status # "ok", clock \in Nat
  PROVE /\ Entry(r) \in Incident
        /\ \A o \in Leaves(r) : Shows(Entry(r), o)
BY DEF Entry, Incident, Result, Leaves, Shows, Statuses

\* Refreshing an entry loses no trouble: what it replaces said the same.
LEMMA RefreshKeeps ==
  ASSUME NEW n, NEW e, NEW o, OnRecord(n, o)
  PROVE OnRecord(Refreshed(n, e), o)
BY DEF OnRecord, Refreshed, SameTrouble, Shows

\* The soft cap evicts no entry that shows trouble.
LEMMA SoftCapKeeps ==
  ASSUME NEW n, NEW o \in Trouble, OnRecord(n, o)
  PROVE OnRecord(SoftCapped(n), o)
<1>1. PICK i \in n : Shows(i, o)
  BY DEF OnRecord
<1>2. i \notin Evictable(n)
  BY <1>1 DEF Evictable, Shows, IsAttention, Trouble
<1>3. i \in SoftCapped(n)
  BY <1>1, <1>2 DEF SoftCapped
<1>4. QED
  BY <1>1, <1>3 DEF OnRecord

\* What a note holds after a record: entries it held, and the new one.
LEMMA RecordedFrom ==
  ASSUME NEW n, NEW r \in Outcomes
  PROVE \/ Recorded(n, r) \subseteq n
        \/ r.status # "ok" /\ Recorded(n, r) \subseteq Refreshed(n, Entry(r))
<1>1. CASE r.route = "change"
  <2>1. Recorded(n, r) = OutcomeRecorded(n, r)
    BY <1>1 DEF Recorded
  <2>2. CASE r.status = "ok"
    BY <2>1, <2>2 DEF OutcomeRecorded
  <2>3. CASE r.status \in {"rolled_back", "rollback_failed"}
    BY <2>1, <2>3 DEF OutcomeRecorded, HardCapped, SoftCapped
  <2>4. QED
    BY <1>1, <2>2, <2>3, OutcomeFacts
<1>2. CASE r.route # "change" /\ r.status = "ok"
  BY <1>2 DEF Recorded, AttentionResolved
<1>3. CASE r.route # "change" /\ r.status # "ok"
  BY <1>3 DEF Recorded, AttentionRecorded
<1>4. QED
  BY <1>1, <1>2, <1>3

\* A record keeps the trouble of its own outcome, unless the ceiling is passed.
LEMMA RecordShowsItsOwn ==
  ASSUME NEW n, NEW r \in Outcomes, NEW o \in Leaves(r), o \in owed, clock \in Nat
  PROVE OnRecord(Recorded(n, r), o) \/ o \in OverCeiling(n, r)
<1>1. r \in Result /\ r.status \notin {"ok", "rolled_back"} /\ o \in Trouble
  BY OutcomeFacts DEF Leaves
<1>2. OnRecord(Refreshed(n, Entry(r)), o)
  BY <1>1, EntryFacts DEF OnRecord, Refreshed
<1>3. CASE r.route = "change"
  <2>1. r.status = "rollback_failed"
    BY <1>1, <1>3, OutcomeFacts
  <2>2. Recorded(n, r) = HardCapped(SoftCapped(Refreshed(n, Entry(r))))
    BY <1>3, <2>1 DEF Recorded, OutcomeRecorded
  <2>3. OnRecord(SoftCapped(Refreshed(n, Entry(r))), o)
    BY <1>1, <1>2, SoftCapKeeps
  <2>4. QED
    BY <1>1, <1>3, <2>2, <2>3 DEF OverCeiling
<1>4. CASE r.route # "change"
  BY <1>1, <1>2, <1>4 DEF Recorded, AttentionRecorded
<1>5. QED
  BY <1>3, <1>4

\* A record takes other trouble off the note only as what its operation
\* claims, or over the ceiling.
LEMMA RecordTakesOff ==
  ASSUME NEW r \in Outcomes, NEW o \in Trouble, o \in owed, OnRecord(note, o)
  PROVE \/ OnRecord(Recorded(note, r), o)
        \/ o \in OverCeiling(note, r)
        \/ o \in Lost(Recorded(note, r)) \intersect Claims(r)
<1> DEFINE new == Recorded(note, r)
<1>1. SUFFICES ASSUME ~ OnRecord(new, o), o \notin OverCeiling(note, r)
               PROVE o \in Claims(r)
  BY DEF Lost
<1>2. PICK i \in note : Shows(i, o)
  BY DEF OnRecord
<1>3. i \notin new
  BY <1>1, <1>2 DEF OnRecord
<1>4. OnRecord(Refreshed(note, Entry(r)), o)
  BY RefreshKeeps
<1>5. CASE r.route = "change" /\ r.status = "ok"
  <2>1. Cleared(i, r)
    BY <1>2, <1>3, <1>5 DEF Recorded, OutcomeRecorded
  <2>2. i.status = "rollback_failed"
    BY <1>2, <2>1 DEF Cleared, IsAttention, Shows, Trouble
  <2>3. o.what = "rollback_failed" /\ o.service = r.service /\ o.server \in r.servers
    BY <1>2, <2>1, <2>2 DEF Cleared, Shows
  <2>4. QED
    BY <1>5, <2>3 DEF Claims
<1>6. CASE r.route = "change" /\ r.status # "ok"
  <2>1. new = HardCapped(SoftCapped(Refreshed(note, Entry(r))))
    BY <1>6, OutcomeFacts DEF Recorded, OutcomeRecorded
  <2>2. OnRecord(SoftCapped(Refreshed(note, Entry(r))), o)
    BY <1>4, SoftCapKeeps
  <2>3. QED
    BY <1>1, <1>6, <2>1, <2>2 DEF OverCeiling
<1>7. CASE r.route # "change" /\ r.status = "ok"
  <2>1. new = AttentionResolved(note, r)
    BY <1>7 DEF Recorded
  <2>2. i.status \in Resolves(r.route) /\ i.service = r.service /\ i.servers \subseteq r.servers
    BY <1>2, <1>3, <2>1 DEF AttentionResolved
  <2>3. QED
    BY <1>2, <1>7, <2>2 DEF Claims, Shows
<1>8. CASE r.route # "change" /\ r.status # "ok"
  BY <1>1, <1>4, <1>8 DEF Recorded, AttentionRecorded
<1>9. QED
  BY <1>5, <1>6, <1>7, <1>8

-----------------------------------------------------------------------------
(* The hard ceiling.  A note cut by it has at most Ceiling entries when no  *)
(* two entries are of the same time: the number of later entries is then    *)
(* another one for each entry, and below the ceiling for every entry kept.  *)

\* An entry has strictly fewer later entries than an older one.
LEMMA FewerAreLater ==
  ASSUME NEW n, IsFiniteSet(n), \A i \in n : i.at \in Nat,
         NEW i \in n, NEW j \in n, i.at < j.at
  PROVE Cardinality({k \in n : k.at > j.at}) # Cardinality({k \in n : k.at > i.at})
<1> DEFINE Later(x) == {k \in n : k.at > x.at}
<1>1. Later(j) \in SUBSET Later(i)
  OBVIOUS
<1>2. j \in Later(i) /\ j \notin Later(j)
  OBVIOUS
<1>3. IsFiniteSet(Later(i))
  BY FS_Subset
<1>4. Cardinality(Later(i)) = Cardinality(Later(j)) => Later(i) = Later(j)
  BY <1>1, <1>3, FS_Subset
<1>5. QED
  BY <1>2, <1>4

\* A note cut at the ceiling has at most Ceiling entries.
LEMMA CeilingHolds ==
  ASSUME NEW n, IsFiniteSet(n), \A i \in n : i.at \in Nat,
         \A i, j \in n : i.at = j.at => i = j
  PROVE Cardinality(HardCapped(n)) <= Ceiling
<1> DEFINE Rank(i) == Cardinality({k \in n : k.at > i.at})
           Slots == 0 .. (Ceiling - 1)
           f == [i \in HardCapped(n) |-> Rank(i)]
<1>1. Ceiling \in Nat
  BY IncidentsAssumption
<1>2. IsFiniteSet(Slots) /\ Cardinality(Slots) = Ceiling
  BY <1>1, FS_Interval
<1>3. \A i \in HardCapped(n) : i \in n /\ Rank(i) \in Slots
  <2>1. SUFFICES ASSUME NEW i \in HardCapped(n)
                 PROVE i \in n /\ Rank(i) \in Slots
    OBVIOUS
  <2>2. i \in n /\ Rank(i) < Ceiling
    BY DEF HardCapped
  <2>3. Rank(i) \in Nat
    BY FS_Subset, FS_CardinalityType
  <2>4. QED
    BY <1>1, <2>2, <2>3
<1>4. \A i, j \in HardCapped(n) : i # j => Rank(i) # Rank(j)
  <2>1. SUFFICES ASSUME NEW i \in HardCapped(n), NEW j \in HardCapped(n), i # j
                 PROVE Rank(i) # Rank(j)
    OBVIOUS
  <2>2. i \in n /\ j \in n
    BY DEF HardCapped
  <2>3. i.at < j.at \/ j.at < i.at
    BY <2>1, <2>2
  <2>4. QED
    BY <2>2, <2>3, FewerAreLater
<1>5. f \in Injection(HardCapped(n), Slots)
  <2>1. f \in [HardCapped(n) -> Slots]
    BY <1>3
  <2>2. \A i, j \in HardCapped(n) : f[i] = f[j] => i = j
    BY <1>4
  <2>3. QED
    BY <2>1, <2>2, Fun_IsInj
<1>6. QED
  BY <1>2, <1>5, FS_Injection

\* The entries of changes: what the ceiling counts on.
OfChanges(n) == {i \in n : ~ IsAttention(i)}

\* A note that keeps entries of a bounded one is bounded.
LEMMA FewerAreBounded ==
  ASSUME NEW n, NEW m, IsFiniteSet(n), OfChanges(m) \subseteq OfChanges(n),
         Cardinality(OfChanges(n)) <= Ceiling
  PROVE Cardinality(OfChanges(m)) <= Ceiling
<1>1. IsFiniteSet(OfChanges(n)) /\ IsFiniteSet(OfChanges(m))
  BY FS_Subset DEF OfChanges
<1>2. Cardinality(OfChanges(m)) <= Cardinality(OfChanges(n))
  BY <1>1, FS_Subset
<1>3. QED
  BY <1>1, <1>2, FS_CardinalityType, IncidentsAssumption

-----------------------------------------------------------------------------
LEMMA NoResultIsResult == NoResult \in Result
BY IncidentsAssumption DEF NoResult, Result, Routes

LEMMA InitIInv == Init => IInv
<1> SUFFICES ASSUME Init PROVE IInv
  OBVIOUS
<1>1. TypeOK /\ RequestsOK
  BY NoResultIsResult DEF Init, TypeOK, RequestsOK
<1>2. NoteIsBounded
  <2>1. {i \in note : ~ IsAttention(i)} = {}
    BY DEF Init
  <2>2. QED
    BY <2>1, FS_EmptySet, IncidentsAssumption DEF Init, NoteIsBounded, OneEntryPerTrouble
<1>3. NoteInOrder /\ UnresolvedIsOnRecord
  BY FS_EmptySet DEF Init, NoteInOrder, UnresolvedIsOnRecord
<1>4. QED
  BY <1>1, <1>2, <1>3 DEF IInv

\* Type correctness is preserved by every action.
LEMMA TypeStep ==
  ASSUME TypeOK, RequestsOK, [Next]_vars
  PROVE TypeOK'
<1> USE DEF TypeOK
<1>1. ASSUME NEW w \in Workers, NEW r \in Outcomes, Ends(w, r)
      PROVE TypeOK'
  <2>1. r \in Result /\ Leaves(r) \subseteq Trouble
    BY OutcomeFacts DEF Leaves
  <2>2. QED
    BY <1>1, <2>1 DEF Ends
<1>2. ASSUME NEW w \in Workers, Records(w)
      PROVE TypeOK'
  <2>1. result[w] \in Outcomes /\ result[w] \in Result
    BY <1>2 DEF Records, RequestsOK
  <2>2. Recorded(note, result[w]) \subseteq Incident
    <3>1. CASE Recorded(note, result[w]) \subseteq note
      BY <3>1
    <3>2. CASE result[w].status # "ok"
               /\ Recorded(note, result[w]) \subseteq Refreshed(note, Entry(result[w]))
      BY <2>1, <3>2, EntryFacts DEF Refreshed
    <3>3. QED
      BY <2>1, <3>1, <3>2, RecordedFrom
  <2>3. Lost(Recorded(note, result[w])) \subseteq Trouble /\ OverCeiling(note, result[w]) \subseteq Trouble
    BY DEF Lost, OverCeiling
  <2>4. QED
    BY <1>2, <2>2, <2>3, NoResultIsResult DEF Records, Finished
<1>3. ASSUME NEW w \in Workers, RecordIsRefused(w)
      PROVE TypeOK'
  BY <1>3, NoResultIsResult DEF RecordIsRefused, Finished, history
<1>4. ASSUME NEW w \in Workers, RecordFails(w)
      PROVE TypeOK'
  <2>1. Leaves(result[w]) \subseteq Trouble
    BY DEF Leaves
  <2>2. QED
    BY <1>4, <2>1, NoResultIsResult DEF RecordFails, Finished
<1>5. ASSUME NEW w \in Workers, SetAsideReads(w)
      PROVE TypeOK'
  BY <1>5 DEF SetAsideReads, history
<1>6. ASSUME NEW w \in Workers, SetAsideCopies(w)
      PROVE TypeOK'
  BY <1>6 DEF SetAsideCopies, history
<1>7. ASSUME NEW w \in Workers, SetAsideClears(w)
      PROVE TypeOK'
  BY <1>7, NoResultIsResult DEF SetAsideClears, Finished
<1>8. ASSUME NEW w \in Workers, SetAsideFails(w)
      PROVE TypeOK'
  BY <1>8, NoResultIsResult DEF SetAsideFails, Finished, history
<1>9. ASSUME NEW new \in SUBSET note, LetsGo(new)
      PROVE TypeOK'
  BY <1>9 DEF LetsGo, Lost, requests
<1>10. CASE Dismiss
  <2>1. Dismissed(note) \in SUBSET note
    BY DEF Dismissed
  <2>2. QED
    BY <1>9, <1>10, <2>1 DEF Dismiss
<1>11. CASE Acknowledge
  <2>1. \A s, t, c : Acknowledged(note, s, t, c) \in SUBSET note
    BY DEF Acknowledged
  <2>2. QED
    BY <1>9, <1>11, <2>1 DEF Acknowledge
<1>12. CASE Garbled
  BY <1>12 DEF Garbled, requests, history
<1>13. CASE Crash
  BY <1>13, NoResultIsResult DEF Crash
<1>14. CASE UNCHANGED vars
  BY <1>14 DEF vars
<1>15. QED
  BY <1>1, <1>2, <1>3, <1>4, <1>5, <1>6, <1>7, <1>8, <1>10, <1>11, <1>12,
     <1>13, <1>14 DEF Next

\* What the requests are about to write stays what RequestsOK says.
LEMMA RequestsStep ==
  ASSUME TypeOK, RequestsOK, [Next]_vars
  PROVE RequestsOK'
<1> USE DEF TypeOK, RequestsOK
<1>1. ASSUME NEW w \in Workers, NEW r \in Outcomes, Ends(w, r)
      PROVE RequestsOK'
  BY <1>1, OutcomeFacts DEF Ends
<1>2. ASSUME NEW w \in Workers,
             Records(w) \/ RecordIsRefused(w) \/ RecordFails(w)
               \/ SetAsideClears(w) \/ SetAsideFails(w)
      PROVE RequestsOK'
  <2>1. Finished(w) /\ copies' = copies
    BY <1>2 DEF Records, RecordIsRefused, RecordFails, SetAsideClears, SetAsideFails
  <2>2. QED
    BY <2>1 DEF Finished
<1>3. ASSUME NEW w \in Workers, SetAsideReads(w)
      PROVE RequestsOK'
  BY <1>3 DEF SetAsideReads
<1>4. ASSUME NEW w \in Workers, SetAsideCopies(w)
      PROVE RequestsOK'
  BY <1>4 DEF SetAsideCopies
<1>5. CASE Dismiss \/ Acknowledge \/ Garbled \/ UNCHANGED vars
  BY <1>5 DEF Dismiss, Acknowledge, LetsGo, Garbled, requests, vars
<1>6. CASE Crash
  BY <1>6 DEF Crash
<1>7. QED
  BY <1>1, <1>2, <1>3, <1>4, <1>5, <1>6 DEF Next

\* No step gives the note two entries for one trouble.
LEMMA EntryStep ==
  ASSUME TypeOK, RequestsOK, OneEntryPerTrouble, [Next]_vars
  PROVE OneEntryPerTrouble'
<1>1. ASSUME note' \subseteq note
      PROVE OneEntryPerTrouble'
  BY <1>1 DEF OneEntryPerTrouble, SameTrouble
<1>2. ASSUME NEW e, note' \subseteq Refreshed(note, e)
      PROVE OneEntryPerTrouble'
  BY <1>2 DEF OneEntryPerTrouble, Refreshed, SameTrouble
<1>3. ASSUME NEW w \in Workers, Records(w)
      PROVE OneEntryPerTrouble'
  <2>1. result[w] \in Outcomes /\ note' = Recorded(note, result[w])
    BY <1>3 DEF Records, RequestsOK
  <2>2. QED
    BY <2>1, <1>1, <1>2, RecordedFrom
<1>4. ASSUME NEW w \in Workers, SetAsideClears(w)
      PROVE note' \subseteq note
  BY <1>4 DEF SetAsideClears
<1>5. CASE Dismiss \/ Acknowledge
  BY <1>1, <1>5 DEF Dismiss, Acknowledge, LetsGo, Dismissed, Acknowledged
<1>6. CASE Garbled
  BY <1>1, <1>6 DEF Garbled
<1>7. ASSUME UNCHANGED note
      PROVE OneEntryPerTrouble'
  BY <1>1, <1>7
<1>8. QED
  BY <1>1, <1>3, <1>4, <1>5, <1>6, <1>7
     DEF Next, vars, Ends, RecordIsRefused, RecordFails, SetAsideReads,
         SetAsideCopies, SetAsideFails, Crash

\* What a step makes of the note: entries it held, or the record of an outcome.
LEMMA NoteMoves ==
  ASSUME TypeOK, RequestsOK, [Next]_vars
  PROVE \/ note' \subseteq note /\ clock' = clock
        \/ \E r \in Outcomes : note' = Recorded(note, r) /\ clock' = clock + 1
<1>1. ASSUME NEW w \in Workers, Records(w)
      PROVE \E r \in Outcomes : note' = Recorded(note, r) /\ clock' = clock + 1
  <2>1. pc[w] = "record" /\ note' = Recorded(note, result[w]) /\ clock' = clock + 1
    BY <1>1 DEF Records
  <2>2. QED
    BY <2>1 DEF RequestsOK
<1>2. ASSUME NEW w \in Workers, SetAsideClears(w)
      PROVE note' \subseteq note /\ clock' = clock
  BY <1>2 DEF SetAsideClears
<1>3. CASE Dismiss \/ Acknowledge
  BY <1>3 DEF Dismiss, Acknowledge, LetsGo, Dismissed, Acknowledged
<1>4. CASE Garbled
  BY <1>4 DEF Garbled
<1>5. ASSUME UNCHANGED <<note, clock>>
      PROVE note' \subseteq note /\ clock' = clock
  BY <1>5
<1>6. QED
  BY <1>1, <1>2, <1>3, <1>4, <1>5
     DEF Next, vars, Ends, RecordIsRefused, RecordFails, SetAsideReads,
         SetAsideCopies, SetAsideFails, Crash

\* A refreshed note stays in order: its new entry is of the time of the record.
LEMMA RefreshKeepsOrder ==
  ASSUME TypeOK, NoteInOrder, NEW r \in Result
  PROVE LET n == Refreshed(note, Entry(r)) IN
        /\ IsFiniteSet(n)
        /\ \A i \in n : i.at \in Nat /\ i.at < clock + 1
        /\ \A i, j \in n : i.at = j.at => i = j
<1> DEFINE e == Entry(r)
           kept == {i \in note : ~ SameTrouble(i, e)}
<1>1. IsFiniteSet(kept)
  BY FS_Subset DEF NoteInOrder
<1>2. IsFiniteSet(kept \union {e})
  BY <1>1, FS_AddElement
<1>3. Refreshed(note, e) = kept \union {e} /\ e.at = clock /\ clock \in Nat
  BY DEF Refreshed, Entry, TypeOK
<1>4. \A i \in kept : i.at \in Nat /\ i.at < clock
  BY DEF TypeOK, NoteInOrder, Incident
<1>5. \A i, j \in kept : i.at = j.at => i = j
  BY DEF NoteInOrder
<1> HIDE DEF e, kept
<1>6. \A i \in kept \union {e} : i.at \in Nat /\ i.at < clock + 1
  BY <1>3, <1>4
<1>7. \A i, j \in kept \union {e} : i.at = j.at => i = j
  BY <1>3, <1>4, <1>5
<1>8. QED
  BY <1>2, <1>3, <1>6, <1>7 DEF e

\* No step takes the note out of order.
LEMMA OrderStep ==
  ASSUME TypeOK, RequestsOK, NoteInOrder, [Next]_vars
  PROVE NoteInOrder'
<1>1. CASE note' \subseteq note /\ clock' = clock
  BY <1>1, FS_Subset DEF NoteInOrder
<1>2. ASSUME NEW r \in Outcomes, note' = Recorded(note, r), clock' = clock + 1
      PROVE NoteInOrder'
  <2>1. CASE note' \subseteq note
    <3>1. IsFiniteSet(note')
      BY <2>1, FS_Subset DEF NoteInOrder
    <3>2. \A i \in note : i.at < clock + 1
      BY DEF NoteInOrder, TypeOK, Incident
    <3>3. QED
      BY <1>2, <2>1, <3>1, <3>2 DEF NoteInOrder
  <2>2. CASE note' \subseteq Refreshed(note, Entry(r))
    <3>1. r \in Result
      BY OutcomeFacts
    <3>2. IsFiniteSet(note')
      BY <2>2, <3>1, RefreshKeepsOrder, FS_Subset
    <3>3. QED
      BY <1>2, <2>2, <3>1, <3>2, RefreshKeepsOrder DEF NoteInOrder
  <2>3. QED
    BY <1>2, <2>1, <2>2, RecordedFrom
<1>3. QED
  BY <1>1, <1>2, NoteMoves

\* No step takes the entries of changes over the ceiling.
LEMMA CeilingStep ==
  ASSUME TypeOK, RequestsOK, NoteInOrder, NoteIsBounded, [Next]_vars
  PROVE Cardinality(OfChanges(note')) <= Ceiling
<1>1. IsFiniteSet(note) /\ Cardinality(OfChanges(note)) <= Ceiling
  BY DEF NoteInOrder, NoteIsBounded, OfChanges
<1>2. ASSUME OfChanges(note') \subseteq OfChanges(note)
      PROVE Cardinality(OfChanges(note')) <= Ceiling
  BY <1>1, <1>2, FewerAreBounded
<1>3. CASE note' \subseteq note
  BY <1>2, <1>3 DEF OfChanges
<1>4. ASSUME NEW r \in Outcomes, note' = Recorded(note, r), ~ note' \subseteq note
      PROVE Cardinality(OfChanges(note')) <= Ceiling
  <2>1. r.status # "ok" /\ r \in Result
    BY <1>4, RecordedFrom, OutcomeFacts
  <2>2. CASE r.route = "change"
    <3> DEFINE listed == SoftCapped(Refreshed(note, Entry(r)))
    <3>1. note' = HardCapped(listed)
      BY <1>4, <2>1, <2>2 DEF Recorded, OutcomeRecorded
    <3>2. listed \subseteq Refreshed(note, Entry(r))
      BY DEF SoftCapped
    <3>3. IsFiniteSet(listed)
      BY <2>1, <3>2, RefreshKeepsOrder, FS_Subset
    <3>4. Cardinality(HardCapped(listed)) <= Ceiling
      <4>1. \A i \in listed : i.at \in Nat
        BY <2>1, <3>2, RefreshKeepsOrder
      <4>2. \A i, j \in listed : i.at = j.at => i = j
        BY <2>1, <3>2, RefreshKeepsOrder
      <4> HIDE DEF listed
      <4>3. QED
        BY <3>3, <4>1, <4>2, CeilingHolds
    <3>5. IsFiniteSet(note')
      BY <3>1, <3>3, FS_Subset DEF HardCapped
    <3>6. Cardinality(OfChanges(note')) <= Cardinality(note') /\ IsFiniteSet(OfChanges(note'))
      BY <3>5, FS_Subset DEF OfChanges
    <3>7. QED
      BY <3>1, <3>4, <3>5, <3>6, FS_CardinalityType, IncidentsAssumption
  <2>3. CASE r.route # "change"
    <3>1. note' = Refreshed(note, Entry(r))
      BY <1>4, <2>1, <2>3 DEF Recorded, AttentionRecorded
    <3>2. IsAttention(Entry(r))
      BY <2>1, <2>3, OutcomeFacts DEF IsAttention, Entry
    <3>3. OfChanges(note') \subseteq OfChanges(note)
      BY <3>1, <3>2 DEF OfChanges, Refreshed
    <3>4. QED
      BY <1>2, <3>3
  <2>4. QED
    BY <2>2, <2>3
<1>5. QED
  BY <1>3, <1>4, NoteMoves

\* The note stays bounded: one entry for one trouble, and no more entries of
\* changes than the ceiling.
LEMMA BoundStep ==
  ASSUME TypeOK, RequestsOK, NoteInOrder, NoteIsBounded, [Next]_vars
  PROVE NoteIsBounded'
<1>1. OneEntryPerTrouble'
  BY EntryStep DEF NoteIsBounded
<1>2. Cardinality(OfChanges(note')) <= Ceiling
  BY CeilingStep
<1>3. QED
  BY <1>1, <1>2 DEF NoteIsBounded, OfChanges, IsAttention

\* Trouble that stands stays in front of the operator.
LEMMA VisibleStep ==
  ASSUME TypeOK, RequestsOK, UnresolvedIsOnRecord, [Next]_vars
  PROVE UnresolvedIsOnRecord'
<1> SUFFICES ASSUME NEW o \in owed'
             PROVE (o \in excused \/ o \in late \/ Visible(o))'
  BY DEF UnresolvedIsOnRecord
<1> USE DEF TypeOK
<1>1. ASSUME NEW w \in Workers, NEW r \in Outcomes, Ends(w, r)
      PROVE (o \in excused \/ o \in late \/ Visible(o))'
  <2>1. CASE o \in Leaves(r)
    BY <1>1, <2>1 DEF Ends, Visible, InFlight
  <2>2. CASE o \notin Leaves(r)
    <3>1. o \in owed /\ o \notin Proves(r)
      BY <1>1, <2>2 DEF Ends
    <3>2. CASE o \in excused \/ o \in late
      BY <1>1, <2>2, <3>1, <3>2 DEF Ends
    <3>3. CASE text # 0 \/ OnRecord(note, o)
      BY <1>1, <3>3 DEF Ends, Visible, OnRecord
    <3>4. CASE InFlight(o)
      <4>1. PICK v \in Workers : pc[v] = "record" /\ o \in Leaves(result[v])
        BY <3>4 DEF InFlight
      <4>2. v # w
        BY <1>1, <4>1 DEF Ends
      <4>3. pc'[v] = "record" /\ result'[v] = result[v]
        BY <1>1, <4>1, <4>2 DEF Ends
      <4>4. QED
        BY <4>1, <4>3 DEF Visible, InFlight
    <3>5. QED
      BY <3>1, <3>2, <3>3, <3>4 DEF UnresolvedIsOnRecord, Visible
  <2>3. QED
    BY <2>1, <2>2
\* what another request is about to record, it still is after w finished
<1>2. ASSUME NEW w \in Workers, Finished(w),
             NEW v \in Workers, v # w, pc[v] = "record", o \in Leaves(result[v])
      PROVE InFlight(o)'
  <2>1. pc'[v] = "record" /\ result'[v] = result[v]
    BY <1>2 DEF Finished
  <2>2. QED
    BY <1>2, <2>1 DEF InFlight
<1>3. ASSUME NEW w \in Workers, Records(w)
      PROVE (o \in excused \/ o \in late \/ Visible(o))'
  <2> DEFINE r == result[w]
  <2>1. r \in Outcomes /\ o \in owed /\ o \in Trouble /\ Finished(w) /\ text = 0
    BY <1>3 DEF Records, RequestsOK
  <2>2. CASE o \in excused \/ o \in late
    BY <1>3, <2>2 DEF Records
  <2>3. CASE OnRecord(note, o)
    <3>1. \/ OnRecord(Recorded(note, r), o)
          \/ o \in OverCeiling(note, r)
          \/ o \in Lost(Recorded(note, r)) \intersect Claims(r)
      BY <2>1, <2>3, RecordTakesOff
    <3>2. QED
      BY <1>3, <3>1 DEF Records, Visible, OnRecord
  <2>4. CASE InFlight(o)
    <3>1. PICK v \in Workers : pc[v] = "record" /\ o \in Leaves(result[v])
      BY <2>4 DEF InFlight
    <3>2. CASE v = w
      <4>1. OnRecord(Recorded(note, r), o) \/ o \in OverCeiling(note, r)
        BY <2>1, <3>1, <3>2, RecordShowsItsOwn
      <4>2. QED
        BY <1>3, <4>1 DEF Records, Visible, OnRecord
    <3>3. CASE v # w
      BY <1>2, <2>1, <3>1, <3>3 DEF Visible
    <3>4. QED
      BY <3>2, <3>3
  <2>5. QED
    BY <2>1, <2>2, <2>3, <2>4 DEF UnresolvedIsOnRecord, Visible
<1>4. ASSUME NEW w \in Workers, RecordIsRefused(w)
      PROVE (o \in excused \/ o \in late \/ Visible(o))'
  BY <1>4 DEF RecordIsRefused, Visible
<1>5. ASSUME NEW w \in Workers, RecordFails(w)
      PROVE (o \in excused \/ o \in late \/ Visible(o))'
  <2>1. o \in owed /\ Finished(w)
    BY <1>5 DEF RecordFails
  <2>2. CASE o \in excused \/ o \in late \/ text # 0 \/ OnRecord(note, o)
    BY <1>5, <2>2 DEF RecordFails, Visible, OnRecord
  <2>3. CASE InFlight(o)
    <3>1. PICK v \in Workers : pc[v] = "record" /\ o \in Leaves(result[v])
      BY <2>3 DEF InFlight
    <3>2. QED
      BY <1>2, <1>5, <2>1, <3>1 DEF RecordFails, Visible
  <2>4. QED
    BY <2>1, <2>2, <2>3 DEF UnresolvedIsOnRecord, Visible
<1>6. ASSUME NEW w \in Workers, SetAsideReads(w) \/ SetAsideCopies(w)
      PROVE (o \in excused \/ o \in late \/ Visible(o))'
  <2>1. o \in owed /\ UNCHANGED <<excused, late, text, note, result>>
    BY <1>6 DEF SetAsideReads, SetAsideCopies, history
  <2>2. \A v \in Workers : pc[v] = "record" => pc'[v] = "record"
    BY <1>6 DEF SetAsideReads, SetAsideCopies
  <2>3. InFlight(o) => InFlight(o)'
    BY <2>1, <2>2 DEF InFlight, Leaves
  <2>4. QED
    BY <2>1, <2>3 DEF UnresolvedIsOnRecord, Visible, OnRecord
<1>7. ASSUME NEW w \in Workers, SetAsideClears(w) \/ SetAsideFails(w)
      PROVE (o \in excused \/ o \in late \/ Visible(o))'
  <2>1. o \in owed /\ Finished(w) /\ pc[w] # "record" /\ late' = late
    BY <1>7 DEF SetAsideClears, SetAsideFails, history
  <2>2. CASE InFlight(o)
    <3>1. PICK v \in Workers : pc[v] = "record" /\ o \in Leaves(result[v])
      BY <2>2 DEF InFlight
    <3>2. QED
      BY <1>2, <2>1, <3>1 DEF Visible
  <2>3. CASE o \in excused \/ o \in late
    BY <1>7, <2>1, <2>3 DEF SetAsideClears, SetAsideFails, history
  <2>4. CASE ~ InFlight(o) /\ (text # 0 \/ OnRecord(note, o))
    <3>1. CASE UNCHANGED <<text, note>>
      BY <2>4, <3>1 DEF Visible, OnRecord
    <3>2. CASE ~ UNCHANGED <<text, note>>
      <4>1. SetAsideClears(w) /\ MayBeCleared(w)
        BY <1>7, <3>2 DEF SetAsideClears, SetAsideFails
      <4>2. text # 0 /\ text' = 0
        BY <4>1 DEF SetAsideClears, MayBeCleared, RequestsOK
      <4>3. QED
        BY <2>1, <2>4, <4>1, <4>2 DEF SetAsideClears
    <3>3. QED
      BY <3>1, <3>2
  <2>5. QED
    BY <2>1, <2>2, <2>3, <2>4 DEF UnresolvedIsOnRecord, Visible
<1>8. ASSUME NEW new, LetsGo(new)
      PROVE (o \in excused \/ o \in late \/ Visible(o))'
  <2>1. o \in owed /\ UNCHANGED <<late, text, pc, result>>
    BY <1>8 DEF LetsGo, requests
  <2>2. InFlight(o) => InFlight(o)'
    BY <2>1 DEF InFlight, Leaves
  <2>3. OnRecord(note, o) => OnRecord(note', o) \/ o \in excused'
    BY <1>8, <2>1 DEF LetsGo, Lost
  <2>4. o \in excused => o \in excused'
    BY <1>8 DEF LetsGo
  <2>5. QED
    BY <2>1, <2>2, <2>3, <2>4 DEF UnresolvedIsOnRecord, Visible, OnRecord
<1>9. CASE Garbled
  BY <1>9 DEF Garbled, Visible
<1>10. CASE Crash
  <2>1. o \in owed /\ UNCHANGED <<late, text, note>> /\ excused \subseteq excused'
    BY <1>10 DEF Crash
  <2>2. InFlight(o) => o \in excused'
    BY <1>10, <2>1 DEF Crash
  <2>3. QED
    BY <2>1, <2>2 DEF UnresolvedIsOnRecord, Visible, OnRecord
<1>11. CASE UNCHANGED vars
  BY <1>11 DEF vars, UnresolvedIsOnRecord, Visible, OnRecord, InFlight, Leaves
<1>12. QED
  BY <1>1, <1>3, <1>4, <1>5, <1>6, <1>7, <1>8, <1>9, <1>10, <1>11
     DEF Next, Dismiss, Acknowledge

LEMMA StepIInv == IInv /\ [Next]_vars => IInv'
BY TypeStep, RequestsStep, BoundStep, OrderStep, VisibleStep DEF IInv

\* Every behaviour of the note keeps the inductive invariant (record_outcome
\* and its siblings, kea_changeset.py:995-1376).
THEOREM IncidentsIInv == Spec => []IInv
BY InitIInv, StepIInv, PTL DEF Spec

\* The note, the requests and the history keep their types.
THEOREM NoteIsTyped == Spec => []TypeOK
<1>1. IInv => TypeOK
  BY DEF IInv
<1>2. QED
  BY <1>1, IncidentsIInv, PTL

\* Trouble that nobody proved over, was told of or let go is in front of the
\* operator, whatever other operations record (kea_changeset.py:839-844).
THEOREM TroubleStaysInFront == Spec => []UnresolvedIsOnRecord
<1>1. IInv => UnresolvedIsOnRecord
  BY DEF IInv
<1>2. QED
  BY <1>1, IncidentsIInv, PTL

\* The note has one entry for the same trouble (kea_changeset.py:1029-1033,
\* 1157-1178).
THEOREM TroubleIsListedOnce == Spec => []OneEntryPerTrouble
<1>1. IInv => OneEntryPerTrouble
  BY DEF IInv, NoteIsBounded
<1>2. QED
  BY <1>1, IncidentsIInv, PTL

\* The outcomes of changes never pass the hard ceiling, whatever else is
\* recorded, dismissed or acknowledged meanwhile (_INCIDENTS_HARD_CEILING in
\* record_outcome, kea_changeset.py:1034-1054).
THEOREM NoteStaysBounded == Spec => []NoteIsBounded
<1>1. IInv => NoteIsBounded
  BY DEF IInv
<1>2. QED
  BY <1>1, IncidentsIInv, PTL

\* An unreadable value leaves the row only once it is copied
\* (set_aside_unreadable_note, kea_changeset.py:1338-1376).
THEOREM UnreadableValuesAreKept == Spec => UnreadableIsKept
<1>1. ASSUME IInv, Next, text # 0, text' = 0
      PROVE text \in copies'
  <2>1. PICK w \in Workers : SetAsideClears(w)
    BY <1>1 DEF Next, Ends, Records, RecordIsRefused, RecordFails, SetAsideReads,
       SetAsideCopies, SetAsideFails, Dismiss, Acknowledge, LetsGo, Garbled,
       Crash, IInv, TypeOK
  <2>2. text = held[w] /\ pc[w] = "clear" /\ copies' = copies
    BY <1>1, <2>1 DEF SetAsideClears, MayBeCleared
  <2>3. QED
    BY <1>1, <2>2 DEF IInv, RequestsOK
<1>2. IInv /\ [Next]_vars => [text # 0 /\ text' = 0 => text \in copies']_vars
  BY <1>1 DEF vars
<1>3. QED
  BY <1>2, IncidentsIInv, PTL DEF Spec, UnreadableIsKept

=============================================================================
