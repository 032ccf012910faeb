---------------------------- MODULE AlertsProofs ----------------------------
(***************************************************************************)
(* Alerts: Jen's record of a condition says what its operator heard, for   *)
(* every backoff, every repetition and any number of failures.             *)
(***************************************************************************)
EXTENDS Alerts, TLAPS

\* What is notified is active, and a recovery is owed of what is not.
Sound(x) == (x.n => x.a) /\ (x.r => ~x.a)

\* The record x says what the operator heard; of a repeating condition it may be
\* that the reminder is due and not delivered yet.
Match(x) ==
  /\ x.n => x.a /\ heard = "warning" /\ (kind.repeats => x.d <= since)
  /\ x.r => ~x.a /\ kind.ok /\ heard = "warning"
  /\ heard = "warning" => x.n \/ x.r \/ (kind.repeats /\ x.a /\ since = RepeatAfter)

RowsSound == \A x \in {row, cache, memory} : x = NoState \/ Sound(x)
WorkSound ==
  Sound(s) /\ Sound(was) /\ (pc = "send" /\ saying = "warning" => s.a /\ ~s.n)

\* The record matches between two steps of the pass; within them it is the state
\* that was loaded, and the state worked on matches.
RecordMatches ==
  ~amnesia =>
    /\ pc \in {"idle", "load"} => Match(Known)
    /\ pc \in {"send", "store"} => was = Known /\ Match(s)
    /\ pc = "send" => Match(was)
    /\ pc = "send" /\ saying = "ok" => kind.ok /\ heard = "warning"

IInv == TypeOK /\ RowsSound /\ WorkSound /\ RecordMatches

-----------------------------------------------------------------------------
(* The operators.                                                          *)

\* The default of a state, and its absence.
LEMMA Absent ==
  /\ Inactive \in State /\ NoState \in State
  /\ Sound(Inactive) /\ ~Sound(NoState) /\ Inactive # NoState
  /\ ~Inactive.a /\ ~Inactive.n /\ ~Inactive.r /\ Inactive.d = 0
<1>1. Inactive \in State
  BY AlertsAssumption DEF Inactive, State
<1>2. /\ ~Inactive.a /\ ~Inactive.n /\ ~Inactive.r /\ Inactive.d = 0
  BY DEF Inactive
<1>3. NoState \in State /\ NoState.n /\ ~NoState.a
  BY <1>1, <1>2 DEF NoState, State
<1> QED
  BY <1>1, <1>2, <1>3 DEF Sound

\* Up counts the attempts to the last wait (notify_condition, c).
LEMMA UpType == ASSUME NEW c \in 0..Tries PROVE Up(c) \in 0..Tries
  BY AlertsAssumption DEF Up, Min2

\* Min2 stays below its bound.
LEMMA Min2Type ==
  ASSUME NEW b \in Nat, NEW i \in 0..b PROVE Min2(i + 1, b) \in 0..b /\ Min2(i + 1, b) >= i
  BY DEF Min2

\* What is read as a state is one, and sound.
LEMMA StoredSound ==
  ASSUME NEW x \in State, x = NoState \/ Sound(x)
  PROVE  Stored(x) \in State /\ Sound(Stored(x))
  BY Absent DEF Stored

\* Begun opens a condition or leaves it open.
LEMMA BegunIs ==
  ASSUME NEW v \in State, Sound(v), kind \in Kind
  PROVE  /\ Begun(v) \in State /\ Begun(v).a /\ ~Begun(v).r
         /\ Begun(v).n => (v.n \/ v.r) /\ (kind.repeats => v.r \/ Begun(v).d = v.d)
         /\ v.r => Begun(v).n
         /\ v.n /\ ~Begun(v).n => kind.repeats /\ v.d = RepeatAfter
         /\ v.a /\ ~v.n => ~Begun(v).n
<1> DEFINE b == Begun(v)
<1> USE AlertsAssumption
<1> v.a \in BOOLEAN /\ v.n \in BOOLEAN /\ v.r \in BOOLEAN
  BY DEF State
<1>0. Opened \in State /\ Opened.a /\ ~Opened.n /\ ~Opened.r
  BY Absent DEF Opened, State
<1>1. CASE v.r /\ ~v.a
  <2>1. b = [a |-> TRUE, n |-> TRUE, r |-> FALSE, c |-> 0, t |-> 0, d |-> v.d]
    BY <1>1 DEF Begun
  <2>2. b \in State /\ b.a /\ b.n /\ ~b.r
    BY <2>1 DEF State
  <2> QED
    BY <1>1, <2>2 DEF Sound
<1>2. CASE v.a /\ ~(v.n /\ kind.repeats /\ v.d = RepeatAfter)
  <2>1. b = v
    BY <1>2 DEF Begun
  <2> QED
    BY <1>2, <2>1 DEF Sound
<1>3. CASE (~v.a /\ ~v.r) \/ (v.a /\ v.n /\ kind.repeats /\ v.d = RepeatAfter)
  <2>1. b = Opened
    BY <1>3 DEF Begun
  <2> QED
    BY <1>0, <1>3, <2>1 DEF Sound
<1> QED
  BY <1>1, <1>2, <1>3

\* A state grows older: its waits and its reminder do, what it says does not change.
LEMMA OlderIs ==
  ASSUME NEW x \in State, x = NoState \/ Sound(x)
  PROVE  /\ Older(x) \in State
         /\ Older(x) = NoState <=> x = NoState
         /\ x = NoState \/ Sound(Older(x))
         /\ x # NoState =>
              /\ Older(x).a = x.a /\ Older(x).n = x.n /\ Older(x).r = x.r
              /\ Older(x).d = x.d \/ Older(x).d = Min2(x.d + 1, RepeatAfter)
<1> DEFINE t == IF x.c = 0 THEN x.t ELSE Min2(x.t + 1, MaxWait)
           d == IF kind.repeats /\ x.n THEN Min2(x.d + 1, RepeatAfter) ELSE x.d
<1>1. x.t \in 0..MaxWait /\ x.d \in 0..RepeatAfter /\ x.c \in 0..Tries
  BY DEF State
<1>2. t \in 0..MaxWait /\ d \in 0..RepeatAfter
  BY <1>1, Min2Type, AlertsAssumption
<1>3. CASE x = NoState
  BY <1>3, Absent DEF Older
<1>4. CASE x # NoState
  <2>1. Older(x) = [x EXCEPT !.t = t, !.d = d]
    BY <1>4 DEF Older
  <2> HIDE DEF t, d
  <2>2. /\ Older(x) \in State
        /\ Older(x).a = x.a /\ Older(x).n = x.n /\ Older(x).r = x.r /\ Older(x).d = d
    BY <2>1, <1>2 DEF State
  <2>3. Sound(Older(x))
    BY <2>2, <1>4 DEF Sound
  <2> QED
    BY <2>2, <2>3, <1>4, Absent DEF d
<1> QED
  BY <1>3, <1>4

\* A channel took the message: it is notified, or over.
LEMMA TakenIs ==
  ASSUME s \in State, Sound(s), saying \in {"warning", "ok"}
  PROVE  /\ Taken \in State
         /\ saying = "ok" => Taken = Inactive
         /\ saying = "warning" => Taken.n /\ Taken.a = s.a /\ Taken.r = s.r /\ Taken.d = 0
<1>1. CASE saying = "ok"
  BY <1>1, Absent DEF Taken
<1>2. CASE saying = "warning"
  <2>1. Taken = [a |-> s.a, n |-> TRUE, r |-> s.r, c |-> 0, t |-> 0, d |-> 0]
    BY <1>2 DEF Taken
  <2>2. Taken \in State /\ Taken.n /\ Taken.a = s.a /\ Taken.r = s.r /\ Taken.d = 0
    BY <2>1, AlertsAssumption DEF State
  <2> QED
    BY <1>2, <2>2
<1> QED
  BY <1>1, <1>2

\* None did: the recovery is owed, or the warning is still to be delivered.
LEMMA NotTakenIs ==
  ASSUME s \in State, Sound(s), saying \in {"warning", "ok"}
  PROVE  /\ NotTaken \in State
         /\ saying = "ok" => ~NotTaken.a /\ ~NotTaken.n /\ NotTaken.r
         /\ saying = "warning" =>
              NotTaken.a = s.a /\ NotTaken.n = s.n /\ NotTaken.r = s.r /\ NotTaken.d = s.d
<1>1. s.c \in 0..Tries /\ Up(s.c) \in 0..Tries /\ 1 \in 0..Tries /\ 0 \in 0..MaxWait
  BY UpType, AlertsAssumption DEF State
<1> QED
  BY <1>1 DEF NotTaken, State

\* _load_state answers a sound state, and the record, unless Jen forgot it.
LEMMA ReadIs ==
  ASSUME TypeOK, RowsSound, NEW v \in State, Read(v)
  PROVE  /\ Sound(v)
         /\ cache' \in State /\ (cache' = NoState \/ Sound(cache'))
         /\ amnesia' \in BOOLEAN /\ faults' \in 0..MaxFaults
         /\ ~amnesia' => ~amnesia /\ v = Known
<1>1. /\ row \in State /\ cache \in State /\ memory \in State /\ amnesia \in BOOLEAN
      /\ faults \in 0..MaxFaults
  BY DEF TypeOK
<1>2. \A x \in {row, cache, memory} : x = NoState \/ Sound(x)
  BY DEF RowsSound
<1>3. Sound(Stored(row)) /\ Sound(Stored(cache))
  BY <1>1, <1>2, StoredSound
<1>4. CASE memory # NoState /\ v = memory /\ UNCHANGED <<faults, cache, amnesia>>
  BY <1>1, <1>2, <1>4 DEF Known
<1>5. CASE memory = NoState /\ v = Stored(row) /\ cache' = row /\ UNCHANGED <<faults, amnesia>>
  BY <1>1, <1>2, <1>3, <1>5 DEF Known
<1>6. CASE /\ memory = NoState /\ v = Stored(cache) /\ Fault("reload")
           /\ cache' = cache /\ amnesia' = (amnesia \/ v # Stored(row))
  <2>1. faults' \in 0..MaxFaults
    BY <1>1, <1>6, AlertsAssumption DEF Fault
  <2> QED
    BY <1>1, <1>2, <1>3, <1>6, <2>1 DEF Known
<1> QED
  BY <1>4, <1>5, <1>6 DEF Read, Setting, Fine

\* What a channel took, or none, is sound.
LEMMA SentIsSound ==
  ASSUME s \in State, Sound(s), saying \in {"warning", "ok"},
         saying = "warning" => s.a /\ ~s.n
  PROVE  Sound(Taken) /\ Sound(NotTaken)
BY TakenIs, NotTakenIs, Absent DEF Sound

-----------------------------------------------------------------------------
(* The invariant.                                                          *)

\* A step that leaves the record, what was heard and the pass alone keeps it.
LEMMA NothingHeard ==
  ASSUME IInv, UNCHANGED <<kind, row, cache, memory, pc, s, was, saying, heard, since>>,
         ~amnesia' => ~amnesia
  PROVE  RowsSound' /\ WorkSound' /\ RecordMatches'
BY DEF IInv, RowsSound, WorkSound, Sound, RecordMatches, Match, Known, Stored

\* An instance with nothing told satisfies it.
LEMMA InitIInv == Init => IInv
<1> SUFFICES ASSUME Init PROVE IInv
  OBVIOUS
<1>1. TypeOK
  <2>1. Inactive \in State /\ NoState \in State
    BY Absent
  <2>2. /\ kind \in Kinds /\ row \in State /\ cache \in State /\ memory \in State
        /\ s \in State /\ was \in State
    BY <2>1 DEF Init
  <2>3. /\ level = "fine" /\ key = "judged" /\ pc = "idle" /\ active = FALSE
        /\ saying = "warning" /\ heard = "nothing" /\ amnesia = FALSE
    BY DEF Init
  <2>4. since \in 0..RepeatAfter /\ changes \in 0..MaxChanges /\ faults \in 0..MaxFaults
    BY AlertsAssumption DEF Init
  <2> QED
    BY <2>2, <2>3, <2>4 DEF TypeOK
<1>2. RowsSound /\ WorkSound
  BY Absent DEF Init, RowsSound, WorkSound
<1>3. RecordMatches
  BY Absent DEF Init, RecordMatches, Match, Known, Stored
<1> QED
  BY <1>1, <1>2, <1>3 DEF IInv

\* A judgement reads the state, and begins the pass.
LEMMA JudgeKeeps == ASSUME IInv, Judge PROVE IInv'
<1>1. /\ pc = "idle" /\ pc' = "load" /\ active' \in BOOLEAN
      /\ UNCHANGED <<kind, level, key, row, memory, s, was, saying, heard, since, changes>>
  BY DEF Judge, world
<1>2. /\ cache' \in State /\ (cache' = NoState \/ Sound(cache'))
      /\ amnesia' \in BOOLEAN /\ faults' \in 0..MaxFaults
      /\ ~amnesia' => ~amnesia
  <2>1. CASE Fine /\ UNCHANGED <<cache, amnesia>>
    BY <2>1 DEF IInv, TypeOK, RowsSound, Fine
  <2>2. CASE \E v \in State : Read(v)
    BY <2>2, ReadIs DEF IInv
  <2> QED
    BY <2>1, <2>2 DEF Judge
<1>3. TypeOK'
  BY <1>1, <1>2 DEF IInv, TypeOK
<1>4. RowsSound' /\ WorkSound'
  BY <1>1, <1>2 DEF IInv, RowsSound, WorkSound, Sound
<1>5. RecordMatches'
  BY <1>1, <1>2 DEF IInv, RecordMatches, Match, Known, Stored
<1> QED
  BY <1>3, <1>4, <1>5 DEF IInv

\* So does the end of a departed subnet's state.
LEMMA EndDepartedKeeps == ASSUME IInv, EndDeparted PROVE IInv'
<1>1. /\ pc = "idle" /\ pc' = "load" /\ active' \in BOOLEAN
      /\ UNCHANGED <<kind, level, key, row, memory, s, was, saying, heard, since, changes>>
  BY DEF EndDeparted, world
<1>2. /\ cache' \in State /\ (cache' = NoState \/ Sound(cache'))
      /\ amnesia' \in BOOLEAN /\ faults' \in 0..MaxFaults
      /\ ~amnesia' => ~amnesia
  BY ReadIs DEF IInv, EndDeparted
<1>3. TypeOK'
  BY <1>1, <1>2 DEF IInv, TypeOK
<1>4. RowsSound' /\ WorkSound'
  BY <1>1, <1>2 DEF IInv, RowsSound, WorkSound, Sound
<1>5. RecordMatches'
  BY <1>1, <1>2 DEF IInv, RecordMatches, Match, Known, Stored
<1> QED
  BY <1>3, <1>4, <1>5 DEF IInv

\* The cleanup ends the episode, unless something is in memory.
LEMMA CleanupKeeps == ASSUME IInv, Cleanup PROVE IInv'
<1>1. /\ pc = "idle" /\ row' = NoState /\ heard' = "nothing"
      /\ amnesia' = (amnesia \/ memory # NoState)
      /\ UNCHANGED <<kind, level, key, cache, memory, pc, active, s, was, saying, since,
                     changes, faults>>
  BY DEF Cleanup, world, pass
<1>2. TypeOK'
  BY <1>1, Absent DEF IInv, TypeOK
<1>3. RowsSound' /\ WorkSound'
  BY <1>1 DEF IInv, RowsSound, WorkSound, Sound
<1>4. ASSUME ~amnesia' PROVE Known' = Inactive
  BY <1>1, <1>4 DEF Known, Stored
<1>5. RecordMatches'
  BY <1>1, <1>4, Absent DEF RecordMatches, Match
<1> QED
  BY <1>2, <1>3, <1>5 DEF IInv

\* The load of a condition that holds: the record loaded says whether a warning is due.
LEMMA LoadHoldingKeeps ==
  ASSUME IInv, Load, NEW v \in State, Read(v), LoadHolding(v)
  PROVE  IInv'
<1>1. /\ pc = "load" /\ was' = v /\ s' = Begun(v)
      /\ UNCHANGED <<kind, level, key, row, memory, active, heard, since, changes>>
      /\ \/ pc' = "store" /\ saying' = saying
         \/ pc' = "send" /\ saying' = "warning" /\ ~Begun(v).n
  BY DEF Load, LoadHolding, world
<1>2. /\ Sound(v) /\ cache' \in State /\ (cache' = NoState \/ Sound(cache'))
      /\ amnesia' \in BOOLEAN /\ faults' \in 0..MaxFaults
      /\ ~amnesia' => ~amnesia /\ v = Known
  BY ReadIs DEF IInv
<1>3. kind \in Kind /\ (kind.repeats => ~kind.ok)
  BY AlertsAssumption DEF IInv, TypeOK
<1> DEFINE b == Begun(v)
<1>4. /\ b \in State /\ b.a /\ ~b.r
      /\ b.n => (v.n \/ v.r) /\ (kind.repeats => v.r \/ b.d = v.d)
      /\ v.r => b.n
      /\ v.n /\ ~b.n => kind.repeats /\ v.d = RepeatAfter
      /\ v.a /\ ~v.n => ~b.n
  BY <1>2, <1>3, BegunIs
<1> HIDE DEF b
<1>5. TypeOK'
  BY <1>1, <1>2, <1>4 DEF IInv, TypeOK, b
<1>6. RowsSound' /\ WorkSound'
  BY <1>1, <1>2, <1>4 DEF IInv, RowsSound, WorkSound, Sound, b
<1>7. ASSUME ~amnesia' PROVE Match(b)
  <2>1. Match(v) /\ since \in 0..RepeatAfter /\ v.d \in 0..RepeatAfter
    BY <1>1, <1>2, <1>7 DEF IInv, TypeOK, RecordMatches, State
  <2>2. b.n => heard = "warning" /\ (kind.repeats => b.d <= since)
    BY <2>1, <1>3, <1>4 DEF Match
  <2>3. heard = "warning" /\ ~b.n => kind.repeats /\ since = RepeatAfter
    BY <2>1, <1>3, <1>4 DEF Match
  <2> QED
    BY <2>2, <2>3, <1>4 DEF Match
<1>8. ~amnesia' => v = Known /\ Match(v)
  BY <1>1, <1>2 DEF IInv, RecordMatches
<1>9. RecordMatches'
  BY <1>1, <1>7, <1>8 DEF RecordMatches, Match, Known, Stored, b
<1> QED
  BY <1>5, <1>6, <1>9 DEF IInv

\* ... and of one that has ended: what is owed was warned of, what is not was not.
LEMMA LoadEndedKeeps ==
  ASSUME IInv, Load, NEW v \in State, Read(v), LoadEnded(v)
  PROVE  IInv'
<1>1. /\ pc = "load" /\ was' = v
      /\ UNCHANGED <<kind, level, key, row, memory, active, since, changes>>
      /\ \/ Owed(v) /\ s' = v /\ pc' = "send" /\ saying' = "ok" /\ heard' = heard
         \/ s' = v /\ pc' = "store" /\ saying' = saying /\ heard' = heard
         \/ /\ ~Owed(v) /\ s' = Inactive /\ pc' = "store" /\ saying' = saying
            /\ heard' = IF kind.ok THEN heard ELSE "nothing"
  BY DEF Load, LoadEnded, world
<1>2. /\ Sound(v) /\ cache' \in State /\ (cache' = NoState \/ Sound(cache'))
      /\ amnesia' \in BOOLEAN /\ faults' \in 0..MaxFaults
      /\ ~amnesia' => ~amnesia /\ v = Known
  BY ReadIs DEF IInv
<1>3. kind \in Kind /\ (kind.repeats => ~kind.ok)
  BY AlertsAssumption DEF IInv, TypeOK
<1>4. TypeOK'
  BY <1>1, <1>2, Absent DEF IInv, TypeOK
<1>5. RowsSound' /\ WorkSound'
  BY <1>1, <1>2, Absent DEF IInv, RowsSound, WorkSound, Sound
<1>6. ASSUME ~amnesia' PROVE Match(v) /\ v = Known
  BY <1>1, <1>2, <1>6 DEF IInv, RecordMatches
<1>7. ASSUME ~amnesia' PROVE Match(s)'
  <2>1. CASE s' = v /\ heard' = heard
    BY <2>1, <1>1, <1>6, <1>7 DEF Match
  <2>2. CASE ~Owed(v) /\ s' = Inactive /\ heard' = IF kind.ok THEN heard ELSE "nothing"
    <3>1. heard' # "warning"
      BY <2>2, <1>2, <1>3, <1>6, <1>7 DEF Owed, Match, Sound
    <3> QED
      BY <3>1, <2>2, Absent DEF Match
  <2> QED
    BY <2>1, <2>2, <1>1
<1>8. ASSUME ~amnesia', Owed(v) PROVE kind.ok /\ heard = "warning"
  BY <1>6, <1>8 DEF Owed, Match
<1>9. RecordMatches'
  <2>1. ~amnesia' => was' = Known' /\ Match(s)'
    BY <1>1, <1>6, <1>7 DEF Known, Stored
  <2>2. ~amnesia' /\ pc' = "send" => kind'.ok /\ heard' = "warning" /\ Match(was)'
    BY <1>1, <1>6, <1>8 DEF Match
  <2> QED
    BY <1>1, <2>1, <2>2 DEF RecordMatches
<1> QED
  BY <1>4, <1>5, <1>9 DEF IInv

\* A channel took the message or did not, and the record says which.
LEMMA SendKeeps == ASSUME IInv, Send PROVE IInv'
<1>1. /\ pc = "send" /\ pc' = "store"
      /\ UNCHANGED <<kind, level, key, row, cache, memory, active, was, saying, changes>>
  BY DEF Send, world
<1>2. /\ s \in State /\ saying \in {"warning", "ok"} /\ since \in 0..RepeatAfter
      /\ Sound(s) /\ (saying = "warning" => s.a /\ ~s.n)
  BY <1>1 DEF IInv, TypeOK, WorkSound
<1>3. /\ s' \in State /\ Sound(s')
      /\ \/ Fine /\ s' = Taken /\ heard' = saying /\ since' = 0 /\ amnesia' = amnesia
         \/ Fault("send") /\ s' = NotTaken /\ UNCHANGED <<heard, since, amnesia>>
         \/ Fault("answer") /\ s' = NotTaken /\ heard' = saying /\ since' = 0 /\ amnesia' = TRUE
  BY <1>2, TakenIs, NotTakenIs, SentIsSound DEF Send, told
<1>4. /\ faults' \in 0..MaxFaults /\ amnesia' \in BOOLEAN
      /\ heard' \in {"nothing", "warning", "ok"} /\ since' \in 0..RepeatAfter
  <2>1. faults \in 0..MaxFaults /\ amnesia \in BOOLEAN
        /\ heard \in {"nothing", "warning", "ok"}
    BY DEF IInv, TypeOK
  <2>2. faults' \in 0..MaxFaults
    BY <1>3, <2>1, AlertsAssumption DEF Fine, Fault
  <2>3. 0 \in 0..RepeatAfter
    BY AlertsAssumption
  <2> QED
    BY <1>2, <1>3, <2>1, <2>2, <2>3
<1>5. TypeOK'
  BY <1>1, <1>3, <1>4 DEF IInv, TypeOK
<1>6. RowsSound' /\ WorkSound'
  BY <1>1, <1>3 DEF IInv, RowsSound, WorkSound, Sound
<1>7. ASSUME ~amnesia' PROVE Match(s)'
  <2>1. /\ ~amnesia /\ Match(s)
        /\ saying = "ok" => kind.ok /\ heard = "warning"
    BY <1>1, <1>3, <1>7 DEF IInv, RecordMatches
  <2>2. CASE s' = Taken /\ heard' = saying /\ since' = 0
    BY <1>1, <1>2, <2>2, TakenIs, Absent DEF Match, Sound
  <2>3. CASE s' = NotTaken /\ heard' = heard /\ since' = since
    BY <1>1, <1>2, <2>1, <2>3, NotTakenIs DEF Match, Sound
  <2> QED
    BY <1>3, <1>7, <2>2, <2>3
<1>8. ASSUME ~amnesia' PROVE was' = Known'
  BY <1>1, <1>3, <1>8 DEF IInv, RecordMatches, Known, Stored
<1>9. RecordMatches'
  BY <1>1, <1>7, <1>8 DEF RecordMatches
<1> QED
  BY <1>5, <1>6, <1>9 DEF IInv

\* What the pass ended with is the record, in the table or in memory.
LEMMA StoreKeeps == ASSUME IInv, Store PROVE IInv'
<1>1. /\ pc = "store" /\ pc' = "idle"
      /\ UNCHANGED <<kind, level, key, cache, active, s, was, saying, heard, since, amnesia,
                     changes>>
  BY DEF Store, told, world
<1>2. \/ s = was /\ UNCHANGED <<faults, row, memory>>
      \/ UNCHANGED faults /\ row' = s /\ memory' = NoState
      \/ Fault("store") /\ row' \in {row, s} /\ memory' = s
  BY DEF Store, Fine, Unsaved
<1>3. s \in State /\ Sound(s) /\ row \in State /\ memory \in State
  BY DEF IInv, TypeOK, WorkSound
<1>4. faults' \in 0..MaxFaults
  BY <1>2, AlertsAssumption DEF Fault, IInv, TypeOK
<1>5. TypeOK'
  <2>1. row' \in State /\ memory' \in State
    BY <1>2, <1>3, Absent
  <2> QED
    BY <1>1, <1>4, <2>1 DEF IInv, TypeOK
<1>6. RowsSound' /\ WorkSound'
  BY <1>1, <1>2, <1>3 DEF IInv, RowsSound, WorkSound, Sound
<1>7. ASSUME ~amnesia' PROVE Known' = s
  <2>1. was = Known /\ s # NoState
    BY <1>1, <1>3, <1>7, Absent DEF IInv, RecordMatches
  <2> QED
    BY <1>2, <2>1 DEF Known, Stored
<1>8. ASSUME ~amnesia' PROVE Match(Known)'
  BY <1>1, <1>7, <1>8 DEF IInv, RecordMatches, Match
<1>9. RecordMatches'
  BY <1>1, <1>8 DEF RecordMatches
<1> QED
  BY <1>5, <1>6, <1>9 DEF IInv

\* A restart forgets what was in memory, and no more than that unless a result
\* was about to be stored.
LEMMA CrashKeeps == ASSUME IInv, Crash PROVE IInv'
<1>1. /\ pc' = "idle" /\ memory' = NoState /\ cache' = NoState /\ Fault("crash")
      /\ amnesia' = (amnesia \/ memory # NoState \/ (pc = "store" /\ s # was))
      /\ UNCHANGED <<kind, level, key, row, active, s, was, saying, heard, since, changes>>
  BY DEF Crash, world
<1>2. faults' \in 0..MaxFaults
  BY <1>1, AlertsAssumption DEF Fault, IInv, TypeOK
<1>3. TypeOK'
  BY <1>1, <1>2, Absent DEF IInv, TypeOK
<1>4. RowsSound' /\ WorkSound'
  BY <1>1 DEF IInv, RowsSound, WorkSound, Sound
<1>5. ASSUME ~amnesia' PROVE Known' = Known /\ Match(Known)
  <2>1. Known' = Known /\ ~amnesia
    BY <1>1, <1>5 DEF Known, Stored
  <2>2. CASE pc \in {"idle", "load"}
    BY <2>1, <2>2 DEF IInv, RecordMatches
  <2>3. CASE pc = "store"
    BY <1>1, <1>5, <2>1, <2>3 DEF IInv, RecordMatches
  <2>4. CASE pc = "send"
    BY <2>1, <2>4 DEF IInv, RecordMatches
  <2> QED
    BY <2>1, <2>2, <2>3, <2>4 DEF IInv, TypeOK
<1>6. RecordMatches'
  BY <1>1, <1>5 DEF RecordMatches, Match
<1> QED
  BY <1>3, <1>4, <1>6 DEF IInv

\* Time passes: the record says what it said, and the reminder keeps to its clock.
LEMMA TickKeeps == ASSUME IInv, Tick PROVE IInv'
<1>1. /\ pc = "idle" /\ row' = Older(row) /\ cache' = Older(cache)
      /\ memory' = Older(memory) /\ since' = Min2(since + 1, RepeatAfter)
      /\ UNCHANGED <<kind, level, key, pc, active, s, was, saying, heard, amnesia, changes,
                     faults>>
  BY DEF Tick, pass, world
<1>2. /\ row \in State /\ cache \in State /\ memory \in State
      /\ since \in 0..RepeatAfter
      /\ row = NoState \/ Sound(row)
      /\ cache = NoState \/ Sound(cache)
      /\ memory = NoState \/ Sound(memory)
  BY DEF IInv, TypeOK, RowsSound
<1>3. since' \in 0..RepeatAfter /\ since' >= since
  BY <1>1, <1>2, Min2Type, AlertsAssumption
<1>4. /\ row' \in State /\ cache' \in State /\ memory' \in State
      /\ row' = NoState \/ Sound(row')
      /\ cache' = NoState \/ Sound(cache')
      /\ memory' = NoState \/ Sound(memory')
  BY <1>1, <1>2, OlderIs
<1>5. TypeOK'
  BY <1>1, <1>3, <1>4 DEF IInv, TypeOK
<1>6. RowsSound' /\ WorkSound'
  BY <1>1, <1>4 DEF IInv, RowsSound, WorkSound, Sound
<1>7. ASSUME ~amnesia' PROVE Match(Known)'
  <2>1. Match(Known)
    BY <1>1, <1>7 DEF IInv, RecordMatches
  <2>2. \/ Known' = Inactive /\ Known = Inactive
        \/ \E x \in State : x # NoState /\ Sound(x) /\ Known = x /\ Known' = Older(x)
    BY <1>1, <1>2, OlderIs DEF Known, Stored
  <2>3. CASE Known' = Inactive /\ Known = Inactive
    BY <1>1, <1>2, <1>3, <2>1, <2>3, Absent DEF Match
  <2>4. ASSUME NEW x \in State, x # NoState, Sound(x), Known = x, Known' = Older(x)
        PROVE  Match(Known)'
    <3>1. /\ Known'.a = x.a /\ Known'.n = x.n /\ Known'.r = x.r
          /\ Known'.d = x.d \/ Known'.d = Min2(x.d + 1, RepeatAfter)
      BY <2>4, OlderIs
    <3>2. x.d \in 0..RepeatAfter
      BY DEF State
    <3>3. x.d <= since => Known'.d <= since'
      BY <1>1, <1>2, <3>1, <3>2, AlertsAssumption DEF Min2
    <3>4. since = RepeatAfter => since' = RepeatAfter
      BY <1>2, <1>3, AlertsAssumption
    <3> QED
      BY <1>1, <2>1, <2>4, <3>1, <3>3, <3>4 DEF Match
  <2> QED
    BY <2>2, <2>3, <2>4
<1>8. RecordMatches'
  BY <1>1, <1>7 DEF RecordMatches
<1> QED
  BY <1>5, <1>6, <1>8 DEF IInv

\* Every step keeps the invariant.
LEMMA NextKeeps == ASSUME IInv, [Next]_vars PROVE IInv'
<1>1. CASE Judge
  BY <1>1, JudgeKeeps
<1>2. CASE EndDeparted
  BY <1>2, EndDepartedKeeps
<1>3. CASE Cleanup
  BY <1>3, CleanupKeeps
<1>4. CASE Load
  <2>1. PICK v \in State : Read(v) /\ (LoadHolding(v) \/ LoadEnded(v))
    BY <1>4 DEF Load
  <2> QED
    BY <1>4, <2>1, LoadHoldingKeeps, LoadEndedKeeps
<1>5. CASE Send
  BY <1>5, SendKeeps
<1>6. CASE Store
  BY <1>6, StoreKeeps
<1>7. CASE Crash
  BY <1>7, CrashKeeps
<1>8. CASE LevelChanges \/ KeyChanges
  <2>1. /\ level' \in {"bad", "between", "fine"} /\ key' \in {"judged", "departed", "gone"}
        /\ changes' \in 0..MaxChanges
        /\ UNCHANGED <<kind, row, cache, memory, pc, active, s, was, saying, heard, since,
                       amnesia, faults>>
    BY <1>8, AlertsAssumption
       DEF LevelChanges, KeyChanges, pass, told, IInv, TypeOK
  <2>2. TypeOK'
    BY <2>1 DEF IInv, TypeOK
  <2> QED
    BY <2>1, <2>2, NothingHeard DEF IInv
<1>9. CASE Tick
  BY <1>9, TickKeeps
<1>10. CASE UNCHANGED vars
  <2>1. UNCHANGED <<kind, level, key, row, cache, memory, pc, active, s, was, saying, heard,
                    since, amnesia, changes, faults>>
    BY <1>10 DEF vars, pass, told, world
  <2>2. TypeOK'
    BY <2>1 DEF IInv, TypeOK
  <2> QED
    BY <2>1, <2>2, NothingHeard DEF IInv
<1> QED
  BY <1>1, <1>2, <1>3, <1>4, <1>5, <1>6, <1>7, <1>8, <1>9, <1>10 DEF Next, Pass

-----------------------------------------------------------------------------
(* The theorems.                                                           *)

\* Every reachable state satisfies the invariant.
THEOREM AlertInvariant == Spec => []IInv
<1>1. IInv /\ [Next]_vars => IInv'
  BY NextKeeps
<1> QED
  BY InitIInv, <1>1, PTL DEF Spec

\* Every variable keeps its type, for every backoff, repetition and bound.
THEOREM AlertTypeCorrect == Spec => []TypeOK
<1>1. IInv => TypeOK
  BY DEF IInv
<1> QED
  BY AlertInvariant, <1>1, PTL

\* Between two passes Jen's record says what the operator heard (notify_condition).
THEOREM RecordIsTrue == Spec => []RecordIsWhatWasHeard
<1>1. IInv => RecordIsWhatWasHeard
  BY DEF IInv, RecordMatches, Match, RecordIsWhatWasHeard
<1> QED
  BY AlertInvariant, <1>1, PTL

\* Nobody is warned twice in an episode, and no reminder comes early (notify_condition).
THEOREM NobodyIsWarnedTwice == Spec => []NoSecondWarning
<1>1. IInv => NoSecondWarning
  <2> SUFFICES ASSUME IInv, pc = "send", saying = "warning", heard = "warning", ~amnesia
               PROVE  kind.repeats /\ since = RepeatAfter
    BY DEF NoSecondWarning
  <2>1. Match(s) /\ s.a /\ ~s.n /\ Sound(s)
    BY DEF IInv, RecordMatches, WorkSound
  <2> QED
    BY <2>1 DEF Match, Sound
<1> QED
  BY AlertInvariant, <1>1, PTL

\* A recovery goes only to an operator whose last word was the warning.
THEOREM RecoveriesFollowWarnings == Spec => []AllClearFollowsWarning
<1>1. IInv => AllClearFollowsWarning
  BY DEF IInv, RecordMatches, AllClearFollowsWarning
<1> QED
  BY AlertInvariant, <1>1, PTL

=============================================================================
