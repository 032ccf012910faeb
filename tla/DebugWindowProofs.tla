------------------------- MODULE DebugWindowProofs -------------------------
(***************************************************************************)
(* A window of DEBUG logging, for every length of the clock, any number of *)
(* turn-ons, failures and acts by hand: the records of Jen and of the host *)
(* keep their types, the level put back is the one before the first of the *)
(* windows, a session that was promised stays on until its deadline - but  *)
(* for a tick that decided on an older record - and a window Jen forgets   *)
(* is over, in the file and in the daemon.                                 *)
(*                                                                         *)
(* The second is no fact of the file alone: the level put back is read     *)
(* from the marker, from the host's record or from an entry, and each of   *)
(* them is written from another.  The invariant says of all the copies at  *)
(* once that they are the original.  Nor is the third: SInv, in the second *)
(* half, follows the turn-on from its first step to its answer and has the *)
(* host, the file, Jen's entry and a change over the API agree afterwards; *)
(* the tick, which decides before it has the lock, has decided on another  *)
(* deadline than the one that is asked for, and so either finds the record *)
(* as it read it, which is not the session's, or overtakes the session.    *)
(* DInv, in the last part, says at each step what the steps ahead need to  *)
(* hold, down to the one that forgets the entry.                           *)
(***************************************************************************)
EXTENDS DebugWindow, TLAPS

(* The invariant.                                                          *)

\* A logger nobody but Jen and its host touched: at DEBUG under a marker that
\* keeps the level it had of its own, or at that level.
Ours(l) == IF Carries(l) THEN l.level = "debug" /\ l.was = "own" ELSE l.level = "own"
\* The loggers, entries and records there can be after h steps of a hand: with
\* none, they hold the level of its own and no other.
OurLoggers(h) == {l \in Logger : h = 0 => Ours(l)}
OurEntries(h) == {e \in Entry : h = 0 => e.was \in {"own", "none"}}
OurRecords(h) == {r \in Record : h = 0 => r.was = "own"}

\* The locals of the operation under way; only a turn-on begins a write.
Job == /\ pc \in Steps /\ w \in Work /\ w.next # "write"
       /\ pc = "write" => w.e.until \in 1..MaxTime
       /\ w.e \in OurEntries(hands) /\ w.held \in OurEntries(hands)
\* The steps an operation goes on to.
Resumed == Steps \ {"write"}

\* Every copy of the original level there is: in the file, the daemon and a
\* change under way, in the host's record and in every entry Jen holds.
IInv ==
  /\ TypeOK /\ Job
  /\ file \in OurLoggers(hands) /\ daemon \in OurLoggers(hands)
  /\ api # NoLogger => api \in OurLoggers(hands)
  /\ host \in OurRecords(hands) /\ found \in OurRecords(hands)
  /\ entry \in OurEntries(hands)

-----------------------------------------------------------------------------
(* Loggers, entries and records, as values.                               *)

\* A logger with no marker, at the level of its own, is untouched.
LEMMA LoggersAreTyped ==
  /\ NoLogger \in Logger
  /\ \A h, level : level = "own" => Plain(level) \in OurLoggers(h)
  /\ \A level \in Levels : Plain(level) \in Logger
BY WindowAssumption DEF NoLogger, Plain, OurLoggers, Ours, Carries, Logger, Levels, Times, EndTime

\* set_investigation_logging marks a logger with the level of its own, be the
\* marker new or an extension of one that is there.
LEMMA MarksKeepOriginals ==
  ASSUME NEW h, NEW l \in OurLoggers(h), NEW until \in 1..MaxTime
  PROVE  Marked(l, until) \in OurLoggers(h) /\ (h = 0 => Marked(l, until).was = "own")
         /\ Marked(l, until).was \in Levels
BY WindowAssumption
   DEF Marked, OurLoggers, Ours, Carries, Logger, Levels, Times, EndTime

\* clear_investigation_logging puts the level of its own back.
LEMMA ClearingPutsBack ==
  ASSUME NEW h, NEW l \in OurLoggers(h)
  PROVE  Cleared(l) \in OurLoggers(h)
BY WindowAssumption
   DEF Cleared, Plain, OurLoggers, Ours, Carries, Logger, Levels, Times, EndTime

\* _restore_logger, with the level of the host's record.
LEMMA HostPutsBack ==
  ASSUME NEW h, NEW l \in OurLoggers(h), NEW r \in OurRecords(h)
  PROVE  PutBack(l, r.was) \in OurLoggers(h)
BY WindowAssumption
   DEF PutBack, Plain, OurLoggers, OurRecords, Ours, Carries, Logger, Record, Levels,
       Times, EndTime

\* A new entry keeps the original it is made with.
LEMMA EntriesAreTyped ==
  ASSUME NEW h
  PROVE  /\ NoEntry \in OurEntries(h)
         /\ \A until \in Times, was \in Levels :
              (h = 0 => was \in {"own", "none"}) => EntryFor(until, was) \in OurEntries(h)
BY WindowAssumption DEF NoEntry, EntryFor, OurEntries, Entry, Levels, Times, EndTime

\* What Jen writes into an entry afterwards leaves its original alone.
LEMMA EntriesKeepOriginals ==
  ASSUME NEW h, NEW e \in OurEntries(h)
  PROVE  /\ \A what \in {"none", "reload", "restart"} : Owing(e, what) \in OurEntries(h)
         /\ StillOwing(e) \in OurEntries(h)
         /\ Back(e) \in OurEntries(h)
         /\ Refolded(e) \in OurEntries(h)
         /\ OffTheHost(e) \in OurEntries(h)
         /\ e.tries < ReloadTries => Counted(e) \in OurEntries(h)
<1> e \in Entry
  BY DEF OurEntries
<1>1. ASSUME NEW what \in {"none", "reload", "restart"}
      PROVE  Owing(e, what) \in OurEntries(h)
  BY DEF OurEntries, Entry, Owing
<1>2. StillOwing(e) \in OurEntries(h)
  BY <1>1 DEF StillOwing
<1>3. Back(e) \in OurEntries(h)
  BY DEF OurEntries, Entry, Back
<1>4. Refolded(e) \in OurEntries(h)
  BY DEF OurEntries, Entry, Refolded
<1>5. OffTheHost(e) \in OurEntries(h)
  <2>1. Owing(Back(e), "reload") \in OurEntries(h)
    BY DEF OurEntries, Entry, Owing, Back
  <2> QED
    BY <2>1 DEF OffTheHost, OurEntries, Entry
<1>6. ASSUME e.tries < ReloadTries
      PROVE  Counted(e) \in OurEntries(h)
  BY <1>6, WindowAssumption DEF OurEntries, Entry, Counted
<1> QED
  BY <1>1, <1>2, <1>3, <1>4, <1>5, <1>6

\* The locals of an operation that has not begun, and the times of a restore.
LEMMA WorkIsTyped == 
  /\ NoWork \in Work
  /\ Times \subseteq 0..Always /\ Always \in 0..Always
<1>1. NoEntry \in Entry
  BY EntriesAreTyped DEF OurEntries
<1> QED
  BY <1>1, WindowAssumption DEF NoWork, Work, Times, EndTime, Always, Steps

-----------------------------------------------------------------------------
(* The holder of Jen's lock.                                              *)

\* No step but the turn-on itself begins a write of the file.
LEMMA StepsAreResumed ==
  Steps = Resumed \cup {"write"} /\ \A step \in Resumed : step # "write"
BY DEF Steps, Resumed

\* How the holder of the lock goes on: any step that keeps an entry of ours.
LEMMA JobMoves ==
  ASSUME Job, UNCHANGED hands, pc' \in Resumed,
         w' \in Work, w'.e \in OurEntries(hands), w'.held = w.held, w'.next # "write"
  PROVE  Job'
BY StepsAreResumed DEF Job

\* ... to a next step, or to a write of the settings and then a next step,
LEMMA GoingOnKeeps ==
  ASSUME Job, UNCHANGED hands,
         NEW step \in Resumed, NEW e \in OurEntries(hands),
         Goto(step, e) \/ PutThen(step, e)
  PROVE  Job'
<1> e \in Entry /\ w \in Work /\ "put" \in Resumed /\ step # "write" /\ step \in Steps
  BY DEF OurEntries, Job, Steps, Resumed
<1>1. CASE Goto(step, e)
  <2>1. w' \in Work /\ w'.e = e /\ w'.held = w.held /\ w'.next = w.next
    BY <1>1 DEF Goto, Work
  <2> QED
    BY <1>1, <2>1, JobMoves DEF Goto, Job
<1>2. CASE PutThen(step, e)
  <2>1. w' \in Work /\ w'.e = e /\ w'.held = w.held /\ w'.next = step
    BY <1>2 DEF PutThen, Work
  <2> QED
    BY <1>2, <2>1, JobMoves DEF PutThen
<1> QED
  BY <1>1, <1>2

\* ... to a write of the settings, its last,
LEMMA PuttingKeeps ==
  ASSUME Job, UNCHANGED hands, NEW e \in OurEntries(hands), PutThen("idle", e)
  PROVE  Job'
BY GoingOnKeeps DEF Resumed, Steps

\* ... to a disarm of the host,
LEMMA CallingKeeps ==
  ASSUME Job, UNCHANGED hands, NEW next \in Resumed,
         pc' = "abandon", w' = [w EXCEPT !.next = next]
  PROVE  Job'
<1>1. w' \in Work /\ w'.e = w.e /\ w'.held = w.held /\ w'.next = next
  BY StepsAreResumed DEF Job, Work
<1>2. pc' \in Resumed /\ w.e \in OurEntries(hands) /\ next # "write"
  BY DEF Resumed, Steps, Job
<1> QED
  BY <1>1, <1>2, JobMoves

\* ... to nothing,
LEMMA StoppingKeeps ==
  ASSUME Job, UNCHANGED hands, Stop
  PROVE  Job'
BY WorkIsTyped, EntriesAreTyped DEF Job, Stop, NoWork, Steps

\* ... and to a restore.
LEMMA RestoringKeeps ==
  ASSUME Job, UNCHANGED hands, NEW e \in OurEntries(hands), NEW now \in 0..Always,
         RestoreAt(e, now)
  PROVE  Job'
BY DEF Job, RestoreAt, Work, OurEntries, Entry, Steps

\* What a look at the daemon adds to an entry is no original.
LEMMA ObservedIsOurs ==
  ASSUME NEW h, NEW e \in OurEntries(h), NEW seen \in Observable(e)
  PROVE  seen \in OurEntries(h)
BY DEF Observable, OurEntries, Entry

\* The failures are bounded.
LEMMA FaultsAreCounted ==
  ASSUME TypeOK, NEW kind, Fault(kind) \/ Fine
  PROVE  faults' \in 0..MaxFaults
BY WindowAssumption DEF TypeOK, Fault, Fine

\* A step of Jen inside an operation: what is left to show of it.
LEMMA StepsOfJen ==
  ASSUME IInv, UNCHANGED world, faults' \in 0..MaxFaults, Job',
         file' \in OurLoggers(hands), daemon' \in OurLoggers(hands),
         host' \in OurRecords(hands), timer' \in BOOLEAN,
         entry' \in OurEntries(hands), damaged' \in BOOLEAN, session' \in Times
  PROVE  IInv'
BY DEF IInv, TypeOK, world, ticking, bounds, Job, OurLoggers, OurRecords, OurEntries

\* A restart the host counts, or a record opened again, keeps the original.
LEMMA RestartsAreCounted ==
  ASSUME NEW h, NEW r \in OurRecords(h)
  PROVE  Spent(r) \in OurRecords(h) /\ Reopened(r) \in OurRecords(h)
<1>1. Spent(r) \in OurRecords(h)
  BY DEF Spent, OurRecords, Record
<1>2. /\ r \in Record /\ (h = 0 => r.was = "own")
      /\ Reopened(r) = [r EXCEPT !.done = FALSE, !.how = "none"]
  BY DEF OurRecords, Reopened
<1>3. Reopened(r) \in Record /\ Reopened(r).was = r.was
  BY <1>2 DEF Record
<1>4. Reopened(r) \in OurRecords(h)
  BY <1>2, <1>3 DEF OurRecords
<1> QED
  BY <1>1, <1>4

\* A look at the daemon fails at most once.
LEMMA ObservingCounts ==
  ASSUME TypeOK, NEW e, NEW seen, Observe(e, seen)
  PROVE  faults' \in 0..MaxFaults
BY FaultsAreCounted DEF Observe

\* _restore_locked, the host's restore: of the record's original, in every outcome.
LEMMA HostRestoresOurs ==
  ASSUME IInv, NEW ok, HostRestores(ok)
  PROVE  /\ file' \in OurLoggers(hands) /\ daemon' \in OurLoggers(hands)
         /\ host' \in OurRecords(hands) /\ faults' \in 0..MaxFaults
<1>1. faults' \in 0..MaxFaults
  BY FaultsAreCounted DEF HostRestores, IInv
<1>2. PutBack(file, host.was) \in OurLoggers(hands)
  BY HostPutsBack DEF IInv
<1>3. file' \in OurLoggers(hands) /\ daemon' \in OurLoggers(hands)
  BY <1>2 DEF HostRestores, IInv
<1>4. host' \in OurRecords(hands)
  <2>1. Done("reload") \in OurRecords(hands) /\ Done("restart") \in OurRecords(hands)
    BY DEF Done, IInv, OurRecords, Record
  <2>2. \A r \in OurRecords(hands) : Spent(r) \in OurRecords(hands)
    BY RestartsAreCounted
  <2> QED
    BY <2>1, <2>2 DEF HostRestores, IInv
<1> QED
  BY <1>1, <1>3, <1>4

\* investigation-disarm, in every outcome and whatever of it Jen hears.
LEMMA DisarmingOurs ==
  ASSUME IInv, NEW answer, DisarmAsked(answer)
  PROVE  /\ file' \in OurLoggers(hands) /\ daemon' \in OurLoggers(hands)
         /\ host' \in OurRecords(hands) /\ faults' \in 0..MaxFaults
<1>1. CASE \E ok \in BOOLEAN : HostRestores(ok)
  BY <1>1, HostRestoresOurs
<1>2. CASE ~\E ok \in BOOLEAN : HostRestores(ok)
  <2>1. faults' \in 0..MaxFaults
    BY <1>2, FaultsAreCounted DEF DisarmAsked, IInv
  <2>2. PutBack(file, host.was) \in OurLoggers(hands)
    BY HostPutsBack DEF IInv
  <2>3. file' \in OurLoggers(hands) /\ daemon' \in OurLoggers(hands)
    BY <1>2, <2>2 DEF DisarmAsked, IInv
  <2>4. host' \in OurRecords(hands)
    BY <1>2 DEF DisarmAsked, IInv, OurRecords, Record, Done
  <2> QED
    BY <2>1, <2>3, <2>4
<1> QED
  BY <1>1, <1>2

\* investigation-arm: the record the host writes has the original of the entry.
LEMMA ArmingOurs ==
  ASSUME IInv, NEW answer, ArmAsked(w.e.until, w.e.was, answer)
  PROVE  /\ host' \in OurRecords(hands) /\ timer' \in BOOLEAN
         /\ faults' \in 0..MaxFaults
<1>1. faults' \in 0..MaxFaults
  BY FaultsAreCounted DEF ArmAsked, IInv
<1>2. timer' \in BOOLEAN
  BY DEF ArmAsked, IInv, TypeOK
<1>3. ASSUME w.e.was # "none"
      PROVE  ArmedRecord(w.e.until, w.e.was) \in OurRecords(hands)
  BY <1>3 DEF ArmedRecord, IInv, Job, OurEntries, Entry, OurRecords, Record
<1>4. host' \in OurRecords(hands)
  BY <1>3 DEF ArmAsked, Accepts, IInv
<1> QED
  BY <1>1, <1>2, <1>4

-----------------------------------------------------------------------------
(* The invariant is inductive: the steps of Jen inside an operation.       *)

LEMMA PutKeeps == ASSUME IInv, Put PROVE IInv'
<1>1. faults' \in 0..MaxFaults
  BY FaultsAreCounted DEF IInv, Put
<1>2. entry' \in OurEntries(hands)
  BY DEF IInv, Job, Put
<1>3. Job'
  BY GoingOnKeeps, StoppingKeeps, StepsAreResumed DEF IInv, Put, Job, Work, world, bounds
<1> QED
  BY <1>1, <1>2, <1>3, StepsOfJen DEF IInv, TypeOK, Put

LEMMA AbandonKeeps == ASSUME IInv, Abandon PROVE IInv'
<1>1. /\ file' \in OurLoggers(hands) /\ daemon' \in OurLoggers(hands)
      /\ host' \in OurRecords(hands) /\ faults' \in 0..MaxFaults
  BY DisarmingOurs DEF Abandon
<1>2. Job'
  BY GoingOnKeeps, StoppingKeeps, StepsAreResumed DEF IInv, Abandon, Job, Work, world, bounds
<1> QED
  BY <1>1, <1>2, StepsOfJen DEF IInv, TypeOK, Abandon, store

LEMMA WriteKeeps == ASSUME IInv, Write PROVE IInv'
<1> DEFINE marked == Marked(file, w.e.until)
           e == EntryFor(w.e.until, marked.was)
<1> UNCHANGED hands /\ Job
  BY DEF Write, world, bounds, IInv
<1>1. faults' \in 0..MaxFaults
  BY FaultsAreCounted DEF IInv, Write
<1>2. /\ marked \in OurLoggers(hands) /\ marked.was \in Levels
      /\ hands = 0 => marked.was = "own"
      /\ w.e.until \in Times
  BY MarksKeepOriginals, WindowAssumption DEF Write, IInv, Job, Work, Entry, Times, EndTime
<1>3. e \in OurEntries(hands)
  BY <1>2, EntriesAreTyped
<1>4. /\ [e EXCEPT !.restarted = ~canReload] \in OurEntries(hands)
      /\ [e EXCEPT !.pending = "restart"] \in OurEntries(hands)
  BY <1>3 DEF OurEntries, Entry, IInv, TypeOK
<1>5. file' \in OurLoggers(hands) /\ daemon' \in OurLoggers(hands)
  BY <1>2 DEF Write, IInv
<1>6. \/ Stop
      \/ Goto("arm", [e EXCEPT !.restarted = ~canReload])
      \/ PutThen("idle", [e EXCEPT !.pending = "restart"])
  BY DEF Write, Owing
<1>7. Job'
  BY <1>4, <1>6, StoppingKeeps, PuttingKeeps, GoingOnKeeps, "arm" \in Resumed
     DEF Resumed, Steps
<1> QED
  BY <1>1, <1>5, <1>7, StepsOfJen DEF Write, IInv, TypeOK, store

LEMMA ArmKeeps == ASSUME IInv, Arm PROVE IInv'
<1> UNCHANGED hands /\ Job
  BY DEF Arm, world, bounds, IInv
<1>1. PICK answer : Arm!2!(answer)
  BY Zenon DEF Arm
<1>2. /\ host' \in OurRecords(hands) /\ timer' \in BOOLEAN
      /\ faults' \in 0..MaxFaults
  BY <1>1, ArmingOurs
<1>3. w.e \in OurEntries(hands) /\ [w.e EXCEPT !.armed = TRUE] \in OurEntries(hands)
  BY DEF Job, OurEntries, Entry
<1>4. Job'
  BY <1>1, <1>3, GoingOnKeeps, CallingKeeps,
     {"store", "lookOn", "revert"} \subseteq Resumed DEF Resumed, Steps
<1> QED
  BY <1>2, <1>4, StepsOfJen DEF Arm, IInv, TypeOK, store

LEMMA StoreKeeps == ASSUME IInv, Store PROVE IInv'
<1> UNCHANGED hands /\ Job
  BY DEF Store, world, bounds, IInv
<1>1. faults' \in 0..MaxFaults
  BY FaultsAreCounted DEF IInv, Store
<1>2. Owing(w.e, "reload") \in OurEntries(hands)
  BY EntriesKeepOriginals DEF Job
<1>3. Job'
  BY <1>2, GoingOnKeeps, JobMoves DEF Store, Job, Resumed, Steps
<1> QED
  BY <1>1, <1>2, <1>3, StepsOfJen DEF Store, IInv, TypeOK

LEMMA ReloadKeeps == ASSUME IInv, Reload PROVE IInv'
<1> UNCHANGED hands /\ Job
  BY DEF Reload, world, bounds, IInv
<1>1. faults' \in 0..MaxFaults
  BY FaultsAreCounted DEF IInv, Reload
<1>2. Job'
  BY GoingOnKeeps DEF Reload, Job, Resumed, Steps
<1> QED
  BY <1>1, <1>2, StepsOfJen DEF Reload, IInv, TypeOK, store

LEMMA LookOnKeeps == ASSUME IInv, LookOn PROVE IInv'
<1> UNCHANGED hands /\ Job
  BY DEF LookOn, world, bounds, IInv
<1>1. PICK seen \in Observable(w.e) : LookOn!2!(seen)
  BY Zenon DEF LookOn
<1>2. faults' \in 0..MaxFaults
  BY <1>1, ObservingCounts DEF IInv
<1>3. seen \in OurEntries(hands)
  BY ObservedIsOurs DEF Job
<1>4. \A what \in {"none", "reload"} : Owing(seen, what) \in OurEntries(hands)
  BY <1>3, EntriesKeepOriginals
<1>5. ASSUME pc' = "revert",
             w' = [w EXCEPT !.e = seen, !.contradiction = (seen.daemon = "restored")]
      PROVE  Job'
  <2>1. seen \in Entry
    BY <1>3 DEF OurEntries
  <2>2. w' \in Work /\ w'.e = seen /\ w'.held = w.held /\ w'.next # "write"
    BY <1>5, <2>1 DEF Job, Work
  <2> QED
    BY <1>3, <1>5, <2>2, JobMoves DEF Resumed, Steps
<1>6. Job'
  BY <1>1, <1>4, <1>5, GoingOnKeeps, "storeOn" \in Resumed DEF Resumed, Steps
<1> QED
  BY <1>2, <1>6, StepsOfJen DEF LookOn, IInv, TypeOK, store

LEMMA StoreOnKeeps == ASSUME IInv, StoreOn PROVE IInv'
<1> UNCHANGED hands /\ Job
  BY DEF StoreOn, world, bounds, IInv
<1>1. faults' \in 0..MaxFaults
  BY FaultsAreCounted DEF IInv, StoreOn
<1>2. Job'
  BY StoppingKeeps, RestoringKeeps, WorkIsTyped DEF StoreOn, Job
<1>3. session' \in Times
  BY WindowAssumption DEF StoreOn, Promise, Job, Work, Entry, IInv, TypeOK, Times, EndTime
<1> QED
  BY <1>1, <1>2, <1>3, StepsOfJen DEF StoreOn, IInv, TypeOK, Job

LEMMA RevertKeeps == ASSUME IInv, Revert PROVE IInv'
<1> UNCHANGED hands /\ Job
  BY DEF Revert, world, bounds, IInv
<1>1. faults' \in 0..MaxFaults
  BY FaultsAreCounted DEF IInv, Revert
<1>2. file' \in OurLoggers(hands)
  BY ClearingPutsBack DEF Revert, IInv
<1>3. w.e \in OurEntries(hands) /\ Back(w.e) \in OurEntries(hands)
  BY EntriesKeepOriginals DEF Job
<1>4. Job'
  BY <1>3, StoppingKeeps, GoingOnKeeps, "lookBack" \in Resumed DEF Revert, Resumed, Steps
<1> QED
  BY <1>1, <1>2, <1>4, StepsOfJen DEF Revert, IInv, TypeOK, store

LEMMA LookBackKeeps == ASSUME IInv, LookBack PROVE IInv'
<1> UNCHANGED hands /\ Job
  BY DEF LookBack, world, bounds, IInv
<1>1. PICK seen \in Observable(w.e) : LookBack!2!(seen)
  BY Zenon DEF LookBack
<1>2. faults' \in 0..MaxFaults
  BY <1>1, ObservingCounts DEF IInv
<1>3. seen \in OurEntries(hands) /\ seen \in Entry
  BY ObservedIsOurs DEF Job, OurEntries
<1>4. Told(seen) \in OurEntries(hands)
  BY <1>3 DEF Told, OurEntries, Entry
<1>5. Kept(seen) \in OurEntries(hands)
  BY <1>3 DEF Kept, OurEntries, Entry, Job
<1>6. /\ Owing(Told(seen), "reload") \in OurEntries(hands)
      /\ Owing(Told(seen), "none") \in OurEntries(hands)
      /\ \A what \in {"none", "reload"} : Owing(seen, what) \in OurEntries(hands)
  BY <1>3, <1>4, EntriesKeepOriginals
<1>7. ASSUME pc' = "dropOn", w' = [w EXCEPT !.e = seen, !.wasArmed = seen.armed]
      PROVE  Job'
  <2>1. seen.armed \in BOOLEAN
    BY <1>3 DEF Entry
  <2>2. w' \in Work /\ w'.e = seen /\ w'.held = w.held /\ w'.next # "write"
    BY <1>3, <1>7, <2>1 DEF Job, Work
  <2> QED
    BY <1>3, <1>7, <2>2, JobMoves DEF Resumed, Steps
<1>8. Job'
  BY <1>1, <1>5, <1>6, <1>7, PuttingKeeps
<1> QED
  BY <1>2, <1>8, StepsOfJen DEF LookBack, IInv, TypeOK, store

LEMMA DropKeeps == ASSUME IInv, Drop PROVE IInv'
<1> UNCHANGED hands /\ Job
  BY DEF Drop, world, bounds, IInv
<1>1. faults' \in 0..MaxFaults
  BY FaultsAreCounted DEF IInv, Drop
<1>2. entry' \in OurEntries(hands)
  BY EntriesAreTyped DEF Drop, IInv
<1>3. Job'
  BY StoppingKeeps, PuttingKeeps, CallingKeeps, "idle" \in Resumed
     DEF Drop, Job, Resumed, Steps
<1> QED
  BY <1>1, <1>2, <1>3, StepsOfJen DEF Drop, IInv, TypeOK

LEMMA DisarmKeeps == ASSUME IInv, Disarm PROVE IInv'
<1> UNCHANGED hands /\ Job
  BY DEF Disarm, world, bounds, IInv
<1>1. PICK answer : Disarm!2!(answer)
  BY Zenon DEF Disarm
<1>2. /\ file' \in OurLoggers(hands) /\ daemon' \in OurLoggers(hands)
      /\ host' \in OurRecords(hands) /\ faults' \in 0..MaxFaults
  BY <1>1, DisarmingOurs
<1> DEFINE e == IF host'.how = "restart" THEN Refolded(OffTheHost(w.e))
                ELSE OffTheHost(w.e)
<1>3. e \in OurEntries(hands) /\ e \in Entry
  <2>1. w.e \in OurEntries(hands)
    BY DEF Job
  <2>2. /\ OffTheHost(w.e) \in OurEntries(hands)
        /\ Refolded(OffTheHost(w.e)) \in OurEntries(hands)
    BY <2>1, EntriesKeepOriginals
  <2> QED
    BY <2>2 DEF OurEntries
<1>4. ASSUME pc' = "put",
             w' = [w EXCEPT !.e = e, !.wasArmed = FALSE, !.next = "settled"]
      PROVE  Job'
  <2> HIDE DEF e
  <2>1. w' \in Work /\ w'.e = e /\ w'.held = w.held /\ w'.next # "write"
    BY <1>3, <1>4 DEF Job, Work, Steps
  <2> QED
    BY <1>3, <1>4, <2>1, JobMoves DEF Resumed, Steps
<1>5. ASSUME Goto("clear", w.e)
      PROVE  Job'
  BY <1>5, GoingOnKeeps DEF Job, Resumed, Steps
<1>6. Job'
  BY <1>1, <1>4, <1>5
<1> QED
  BY <1>2, <1>6, StepsOfJen DEF Disarm, IInv, TypeOK, store

\* _finish
LEMMA FinishingKeeps ==
  ASSUME Job, UNCHANGED hands, NEW seen \in OurEntries(hands), Finish(seen)
  PROVE  Job'
<1>1. /\ \A what \in {"none", "reload"} : Owing(seen, what) \in OurEntries(hands)
      /\ StillOwing(seen) \in OurEntries(hands)
  BY EntriesKeepOriginals
<1> QED
  BY <1>1, PuttingKeeps, GoingOnKeeps, "drop" \in Resumed DEF Finish, Resumed, Steps

LEMMA SettledKeeps == ASSUME IInv, Settled PROVE IInv'
<1> UNCHANGED hands /\ Job
  BY DEF Settled, world, bounds, IInv
<1>1. PICK seen \in Observable(w.e) : Settled!2!(seen)
  BY Zenon DEF Settled
<1>2. faults' \in 0..MaxFaults
  BY <1>1, ObservingCounts DEF IInv
<1>3. seen \in OurEntries(hands) /\ seen \in Entry
  BY ObservedIsOurs DEF Job, OurEntries
<1>4. ASSUME pc' = "phase", w' = [w EXCEPT !.e = seen, !.fresh = TRUE]
      PROVE  Job'
  <2>1. w' \in Work /\ w'.e = seen /\ w'.held = w.held /\ w'.next # "write"
    BY <1>3, <1>4 DEF Job, Work
  <2> QED
    BY <1>3, <1>4, <2>1, JobMoves DEF Resumed, Steps
<1>5. Job'
  BY <1>1, <1>3, <1>4, FinishingKeeps
<1> QED
  BY <1>2, <1>5, StepsOfJen DEF Settled, IInv, TypeOK, store

\* An entry the sweep makes for what it found.
LEMMA IndexingKeeps ==
  ASSUME IInv, NEW e \in OurEntries(hands), NEW was \in Levels,
         hands = 0 => was \in {"own", "none"}, w.now # Always => w.now \in Times
  PROVE  Indexed(e, was) \in OurEntries(hands)
<1>1. CASE e.until # 0
  BY <1>1 DEF Indexed, OurEntries, Entry
<1>2. CASE e.until = 0
  BY <1>2, EntriesAreTyped DEF Indexed, BySweep, IInv, TypeOK
<1> QED
  BY <1>1, <1>2

\* A restore of the sweep has the time it began.
LEMMA NowIsATime ==
  ASSUME Job
  PROVE  w.now # Always => w.now \in Times
BY WindowAssumption DEF Job, Work, Always, Times, EndTime

\* A restore that failed.
LEMMA FailingKeeps ==
  ASSUME IInv, UNCHANGED hands, Failed(w.e)
  PROVE  Job'
<1>1. Indexed(w.e, "none") \in OurEntries(hands)
  BY IndexingKeeps, NowIsATime DEF IInv, Job, Levels
<1> QED
  BY <1>1, PuttingKeeps, StoppingKeeps DEF Failed, IInv

LEMMA ClearMarkedKeeps == ASSUME IInv, ClearMarked PROVE IInv'
<1> UNCHANGED hands /\ Job
  BY DEF ClearMarked, world, bounds, IInv
<1> DEFINE back == Back(Indexed(w.e, file.was))
<1>1. faults' \in 0..MaxFaults
  BY FaultsAreCounted DEF IInv, ClearMarked
<1>2. Indexed(w.e, file.was) \in OurEntries(hands)
  BY IndexingKeeps, NowIsATime DEF ClearMarked, IInv, Job, OurLoggers, Ours, Logger
<1>3. /\ Owing(back, "reload") \in OurEntries(hands)
      /\ Refolded(Owing(back, "none")) \in OurEntries(hands)
      /\ Refolded(w.e) \in OurEntries(hands)
  BY <1>2, EntriesKeepOriginals DEF Job
<1>4. Cleared(file) \in OurLoggers(hands)
  BY ClearingPutsBack DEF IInv
<1>5. file' \in OurLoggers(hands) /\ daemon' \in OurLoggers(hands)
  BY <1>4 DEF ClearMarked, IInv
<1>6. ASSUME pc' = "put",
             w' = [w EXCEPT !.e = Owing(back, "reload"), !.next = "phase", !.fresh = TRUE]
      PROVE  Job'
  <2>1. Owing(back, "reload") \in Entry
    BY <1>3 DEF OurEntries
  <2>2. /\ w' \in Work /\ w'.e = Owing(back, "reload")
        /\ w'.held = w.held /\ w'.next # "write"
    BY <1>6, <2>1 DEF Job, Work, Steps
  <2> QED
    BY <1>3, <1>6, <2>2, JobMoves DEF Resumed, Steps
<1>7. ASSUME Goto("lookAfter", Refolded(Owing(back, "none")))
      PROVE  Job'
  BY <1>3, <1>7, GoingOnKeeps DEF Resumed, Steps
<1>8. \/ pc' = "put" /\ w' = [w EXCEPT !.e = Owing(back, "reload"), !.next = "phase",
                                     !.fresh = TRUE]
      \/ Goto("lookAfter", Refolded(Owing(back, "none")))
      \/ Failed(w.e)
      \/ PutThen("idle", Refolded(w.e))
  BY Zenon DEF ClearMarked
<1>9. Job'
  BY <1>3, <1>6, <1>7, <1>8, FailingKeeps, PuttingKeeps
<1> QED
  BY <1>1, <1>5, <1>9, StepsOfJen DEF ClearMarked, IInv, TypeOK, store

LEMMA ClearNothingKeeps == ASSUME IInv, ClearNothing PROVE IInv'
<1> UNCHANGED hands /\ Job
  BY DEF ClearNothing, world, bounds, IInv
<1>1. faults' \in 0..MaxFaults
  BY FaultsAreCounted DEF IInv, ClearNothing
<1>2. Back(w.e) \in OurEntries(hands) /\ Owing(Back(w.e), "none") \in OurEntries(hands)
  BY EntriesKeepOriginals DEF Job
<1>3. Job'
  BY <1>2, StoppingKeeps, PuttingKeeps, GoingOnKeeps, FailingKeeps, "lookClean" \in Resumed
     DEF ClearNothing, Resumed, Steps
<1> QED
  BY <1>1, <1>3, StepsOfJen DEF ClearNothing, IInv, TypeOK, store

LEMMA LookCleanKeeps == ASSUME IInv, LookClean PROVE IInv'
<1> UNCHANGED hands /\ Job
  BY DEF LookClean, world, bounds, IInv
<1>1. PICK seen \in Observable(w.e) : LookClean!2!(seen)
  BY Zenon DEF LookClean
<1>2. faults' \in 0..MaxFaults
  BY <1>1, ObservingCounts DEF IInv
<1>3. seen \in OurEntries(hands)
  BY ObservedIsOurs DEF Job
<1>4. Owing(seen, "none") \in OurEntries(hands) /\ StillOwing(seen) \in OurEntries(hands)
  BY <1>3, EntriesKeepOriginals
<1>5. ASSUME pc' = "put",
             w' = [w EXCEPT !.e = StillOwing(seen), !.next = "phase", !.fresh = FALSE]
      PROVE  Job'
  <2>1. StillOwing(seen) \in Entry
    BY <1>4 DEF OurEntries
  <2>2. w' \in Work /\ w'.e = StillOwing(seen) /\ w'.held = w.held /\ w'.next # "write"
    BY <1>5, <2>1 DEF Job, Work, Steps
  <2> QED
    BY <1>4, <1>5, <2>2, JobMoves DEF Resumed, Steps
<1>6. Job'
  BY <1>1, <1>3, <1>4, <1>5, FinishingKeeps, PuttingKeeps
<1> QED
  BY <1>2, <1>6, StepsOfJen DEF LookClean, IInv, TypeOK, store

LEMMA PhaseKeeps == ASSUME IInv, Phase PROVE IInv'
<1> UNCHANGED hands /\ Job
  BY DEF Phase, world, bounds, IInv
<1>1. faults' \in 0..MaxFaults
  BY FaultsAreCounted DEF IInv, Phase
<1>2. Owing(w.e, "none") \in OurEntries(hands)
  BY EntriesKeepOriginals DEF Job
<1>3. MayReload(w.e) => Counted(w.e) \in OurEntries(hands)
  BY EntriesKeepOriginals DEF Job, MayReload
<1>4. ASSUME NEW owed \in {"reload", "restart"},
             pc' = "restart", w' = [w EXCEPT !.owed = owed]
      PROVE  Job'
  <2>1. w' \in Work /\ w'.e = w.e /\ w'.held = w.held /\ w'.next # "write"
    BY <1>4 DEF Job, Work
  <2> QED
    BY <1>4, <2>1, JobMoves DEF Job, Resumed, Steps
<1>5. Job'
  BY <1>2, <1>3, <1>4, PuttingKeeps, GoingOnKeeps,
     {"lookAfter", "verify"} \subseteq Resumed DEF Phase, Resumed, Steps
<1>6. daemon' \in OurLoggers(hands)
  BY DEF Phase, IInv
<1> QED
  BY <1>1, <1>5, <1>6, StepsOfJen DEF Phase, IInv, TypeOK, store

LEMMA VerifyKeeps == ASSUME IInv, Verify PROVE IInv'
<1> UNCHANGED hands /\ Job
  BY DEF Verify, world, bounds, IInv
<1>1. PICK seen \in Observable(w.e) : Verify!2!(seen)
  BY Zenon DEF Verify
<1>2. faults' \in 0..MaxFaults
  BY <1>1, ObservingCounts DEF IInv
<1>3. seen \in OurEntries(hands) /\ Owing(seen, "reload") \in OurEntries(hands)
  BY ObservedIsOurs, EntriesKeepOriginals DEF Job
<1>4. Job'
  BY <1>1, <1>3, GoingOnKeeps,
     {"lookAfter", "restartInstead", "lookFailed"} \subseteq Resumed DEF Resumed, Steps
<1> QED
  BY <1>2, <1>4, StepsOfJen DEF Verify, IInv, TypeOK, store

LEMMA LookFailedKeeps == ASSUME IInv, LookFailed PROVE IInv'
<1> UNCHANGED hands /\ Job
  BY DEF LookFailed, world, bounds, IInv
<1>1. PICK seen \in Observable(w.e) : Observe(w.e, seen) /\ PutThen("idle", seen)
  BY DEF LookFailed
<1>2. faults' \in 0..MaxFaults
  BY <1>1, ObservingCounts DEF IInv
<1>3. Job'
  BY <1>1, ObservedIsOurs, PuttingKeeps DEF Job
<1> QED
  BY <1>2, <1>3, StepsOfJen DEF LookFailed, IInv, TypeOK, store

LEMMA RestartKeaKeeps == ASSUME IInv, RestartKea PROVE IInv'
<1> UNCHANGED hands /\ Job
  BY DEF RestartKea, world, bounds, IInv
<1>1. faults' \in 0..MaxFaults
  BY FaultsAreCounted DEF IInv, RestartKea
<1>2. Owing(w.e, "reload") \in OurEntries(hands)
  BY EntriesKeepOriginals DEF Job
<1>3. /\ [w.e EXCEPT !.restarted = TRUE] \in OurEntries(hands)
      /\ [w.e EXCEPT !.restarted = TRUE, !.pending = w.owed] \in OurEntries(hands)
  BY DEF Job, Work, OurEntries, Entry
<1>4. \/ Goto("lookAfter", [w.e EXCEPT !.restarted = TRUE])
      \/ Goto("lookFailed", [w.e EXCEPT !.restarted = TRUE, !.pending = w.owed])
      \/ Goto("lookFailed", Owing(w.e, "reload"))
  BY DEF RestartKea
<1>5. Job'
  BY <1>2, <1>3, <1>4, GoingOnKeeps, {"lookAfter", "lookFailed"} \subseteq Resumed
     DEF Resumed, Steps
<1>6. daemon' \in OurLoggers(hands)
  BY DEF RestartKea, IInv
<1> QED
  BY <1>1, <1>5, <1>6, StepsOfJen DEF RestartKea, IInv, TypeOK, store

\* The recovery and the scan read the original from the marker.
LEMMA AdoptedIsOurs ==
  ASSUME IInv
  PROVE  Adopted \in OurEntries(hands)
<1>1. CASE Carries(file)
  <2>1. EntryFor(file.until, file.was) \in OurEntries(hands)
    BY <1>1, EntriesAreTyped DEF IInv, OurLoggers, Ours, Logger
  <2> QED
    BY <1>1, <2>1 DEF Adopted, OurEntries, Entry, Seen
<1>2. CASE ~Carries(file) /\ Carries(daemon) /\ daemon.level = "debug"
  <2>1. EntryFor(daemon.until, daemon.was) \in OurEntries(hands)
    BY <1>2, EntriesAreTyped DEF IInv, OurLoggers, Ours, Logger
  <2> QED
    BY <1>2, <2>1 DEF Adopted, OurEntries, Entry
<1>3. CASE ~Carries(file) /\ ~(Carries(daemon) /\ daemon.level = "debug")
  BY <1>3, EntriesAreTyped DEF Adopted
<1> QED
  BY <1>1, <1>2, <1>3

LEMMA ExamineKeeps == ASSUME IInv, Examine PROVE IInv'
<1> UNCHANGED hands /\ Job
  BY DEF Examine, world, bounds, IInv
<1>1. faults' \in 0..MaxFaults
  BY FaultsAreCounted DEF IInv, Examine
<1>2. Job'
  BY AdoptedIsOurs, StoppingKeeps, GoingOnKeeps DEF Examine, Resumed, Steps
<1> QED
  BY <1>1, <1>2, StepsOfJen DEF Examine, IInv, TypeOK, store

LEMMA RebuildKeeps == ASSUME IInv, Rebuild PROVE IInv'
<1> UNCHANGED hands /\ Job
  BY DEF Rebuild, world, bounds, IInv
<1>1. faults' \in 0..MaxFaults
  BY FaultsAreCounted DEF IInv, Rebuild
<1>2. Job'
  BY StoppingKeeps DEF Rebuild
<1> QED
  BY <1>1, <1>2, StepsOfJen DEF Rebuild, IInv, TypeOK, store, Job

\* What _host_phase stores of the host.
LEMMA ReportingKeeps ==
  ASSUME Job, UNCHANGED hands, NEW armed \in BOOLEAN, Reported(armed)
  PROVE  Job'
<1>1. w.e \in OurEntries(hands) /\ [w.e EXCEPT !.armed = armed] \in OurEntries(hands)
  BY DEF Job, OurEntries, Entry
<1> QED
  BY <1>1, GoingOnKeeps, "due" \in Resumed DEF Reported, Resumed, Steps

LEMMA StatusKeeps == ASSUME IInv, Status PROVE IInv'
<1> UNCHANGED hands /\ Job
  BY DEF Status, world, bounds, IInv
<1>1. faults' \in 0..MaxFaults
  BY FaultsAreCounted DEF IInv, Status
<1>2. w.e \in OurEntries(hands) /\ w.now \in 0..Always
  BY DEF Job, Work
<1>3. Job'
  BY <1>2, GoingOnKeeps, RestoringKeeps, ReportingKeeps,
     {"due", "rearm"} \subseteq Resumed DEF Status, Resumed, Steps
<1>4. timer' \in BOOLEAN
  BY DEF Status, IInv, TypeOK
<1> QED
  BY <1>1, <1>3, <1>4, StepsOfJen DEF Status, IInv, TypeOK, store

LEMMA RearmKeeps == ASSUME IInv, Rearm PROVE IInv'
<1> UNCHANGED hands /\ Job
  BY DEF Rearm, world, bounds, IInv
<1>1. PICK answer : Rearm!2!(answer)
  BY Zenon DEF Rearm
<1>2. /\ host' \in OurRecords(hands) /\ timer' \in BOOLEAN
      /\ faults' \in 0..MaxFaults
  BY <1>1, ArmingOurs
<1>3. ASSUME pc' = "abandon", w' = [w EXCEPT !.e.armed = FALSE, !.next = "disowned"]
      PROVE  Job'
  <2>1. [w.e EXCEPT !.armed = FALSE] \in OurEntries(hands)
    BY DEF Job, OurEntries, Entry
  <2>2. w'.e = [w.e EXCEPT !.armed = FALSE] /\ w'.held = w.held /\ w'.next # "write"
    BY <1>3 DEF Job, Work
  <2>3. w' \in Work
    BY <1>3, <2>1 DEF Job, Work, Entry, Steps
  <2> QED
    BY <1>3, <2>1, <2>2, <2>3, JobMoves DEF Resumed, Steps
<1>4. Job'
  BY <1>1, <1>3, ReportingKeeps
<1> QED
  BY <1>2, <1>4, StepsOfJen DEF Rearm, IInv, TypeOK, store

LEMMA DueKeeps == ASSUME IInv, Due PROVE IInv'
<1> UNCHANGED hands /\ Job
  BY DEF Due, world, bounds, IInv
<1>1. faults' \in 0..MaxFaults
  BY FaultsAreCounted DEF IInv, Due
<1>2. w.e \in OurEntries(hands) /\ w.now \in 0..Always
  BY DEF Job, Work
<1>3. Job'
  BY <1>2, GoingOnKeeps, RestoringKeeps, StoppingKeeps,
     {"due", "again", "scan"} \subseteq Resumed DEF Due, Resumed, Steps
<1> QED
  BY <1>1, <1>3, StepsOfJen DEF Due, IInv, TypeOK, store

LEMMA AgainKeeps == ASSUME IInv, Again PROVE IInv'
<1> UNCHANGED hands /\ Job
  BY DEF Again, world, bounds, IInv
<1>1. PICK seen \in Observable(w.e) : Again!2!(seen)
  BY Zenon DEF Again
<1>2. faults' \in 0..MaxFaults
  BY <1>1, ObservingCounts DEF IInv
<1>3. /\ seen \in OurEntries(hands) /\ Owing(seen, "none") \in OurEntries(hands)
      /\ StillOwing(Back(seen)) \in OurEntries(hands)
  BY ObservedIsOurs, EntriesKeepOriginals DEF Job
<1>4. Job'
  BY <1>1, <1>3, GoingOnKeeps, StoppingKeeps,
     {"scan", "idle"} \subseteq Resumed DEF Resumed, Steps
<1> QED
  BY <1>2, <1>4, StepsOfJen DEF Again, IInv, TypeOK, store

LEMMA ScanKeeps == ASSUME IInv, Scan PROVE IInv'
<1> UNCHANGED hands /\ Job
  BY DEF Scan, world, bounds, IInv
<1> DEFINE indexed == EntryFor(file.until, file.was)
<1>1. ASSUME Carries(file), NEW seen \in Observable(indexed)
      PROVE  \A what \in {"none", "reload"} : Owing(seen, what) \in OurEntries(hands)
  <2>1. indexed \in OurEntries(hands)
    BY <1>1, EntriesAreTyped DEF IInv, OurLoggers, Ours, Logger
  <2> HIDE DEF indexed
  <2> QED
    BY <1>1, <2>1, ObservedIsOurs, EntriesKeepOriginals
<1>2. faults' \in 0..MaxFaults
  BY FaultsAreCounted, ObservingCounts DEF IInv, Scan
<1>3. w.e \in OurEntries(hands) /\ w.now \in 0..Always
  BY DEF Job, Work
<1> HIDE DEF indexed
<1>4. \/ Stop
      \/ RestoreAt(w.e, w.now)
      \/ /\ Carries(file)
         /\ \E seen \in Observable(indexed) :
              PutThen("idle", Owing(seen, IF seen.daemon = "debug" THEN "none" ELSE "reload"))
      \/ PutThen("clear", Adopted)
  BY DEF Scan, indexed
<1>5. Job'
  BY <1>1, <1>3, <1>4, AdoptedIsOurs, StoppingKeeps, RestoringKeeps, PuttingKeeps,
     GoingOnKeeps, "clear" \in Resumed DEF Resumed, Steps
<1> QED
  BY <1>2, <1>5, StepsOfJen DEF Scan, IInv, TypeOK, store

-----------------------------------------------------------------------------
(* ... the operations' beginnings, the host, and what happens outside Jen. *)

LEMMA TurnOnKeeps ==
  ASSUME IInv, NEW until \in 1..MaxTime, TurnOn(until)
  PROVE  IInv'
<1> until \in Times
  BY WindowAssumption DEF Times, EndTime
<1>1. EntryFor(until, "own") \in OurEntries(hands) /\ EntryFor(until, "own").until = until
  BY EntriesAreTyped DEF EntryFor, Levels
<1>2. w' \in Work
  BY <1>1, WorkIsTyped DEF TurnOn, IInv, OurEntries, Work
<1>3. w'.e = EntryFor(until, "own") /\ w'.held = entry /\ w'.next = "idle"
  BY DEF TurnOn, NoWork
<1>4. Job'
  BY <1>1, <1>2, <1>3 DEF TurnOn, Job, IInv, Steps
<1>7. overtaken' \in BOOLEAN
  BY DEF TurnOn
<1>5. turns' \in 0..MaxTurns /\ session' \in Times
  BY WindowAssumption DEF TurnOn, IInv, TypeOK, Times, EndTime
<1>6. faults' \in 0..MaxFaults
  BY FaultsAreCounted DEF TurnOn, HelperGate, IInv
<1> QED
  BY <1>4, <1>5, <1>6, <1>7 DEF TurnOn, IInv, TypeOK, Job, kea, store

LEMMA TurnOffKeeps == ASSUME IInv, TurnOff PROVE IInv'
<1> UNCHANGED hands /\ Job
  BY DEF TurnOff, IInv
<1>1. Job'
  BY RestoringKeeps, WorkIsTyped DEF TurnOff, IInv
<1>2. offs' \in 0..MaxOffs /\ session' \in Times
  BY WindowAssumption DEF TurnOff, IInv, TypeOK, Times, EndTime
<1> QED
  BY <1>1, <1>2 DEF TurnOff, IInv, TypeOK, Job, kea, helper, ticking, store

LEMMA SweepKeeps == ASSUME IInv, Sweep PROVE IInv'
<1> DEFINE full == damaged \/ runs = 0
           begun == [NoWork EXCEPT !.e = entry, !.now = clock, !.full = full]
<1> UNCHANGED hands /\ Job
  BY DEF Sweep, bounds, IInv
<1>1. /\ begun \in Work /\ begun.e = entry /\ begun.held = NoEntry
      /\ begun.next = "idle"
  <2>1. full \in BOOLEAN /\ entry \in Entry /\ clock \in 0..Always
    BY WorkIsTyped DEF IInv, TypeOK
  <2> HIDE DEF full
  <2>2. NoWork \in Work /\ NoWork.next = "idle" /\ NoWork.held = NoEntry
    BY WorkIsTyped DEF NoWork
  <2> QED
    BY <2>1, <2>2 DEF Work
<1> HIDE DEF begun
<1>2. ASSUME w' = begun, pc' \in Resumed
      PROVE  Job'
  BY <1>1, <1>2, EntriesAreTyped, StepsAreResumed DEF Job, IInv
<1>3. \/ w' = begun /\ pc' \in Resumed
      \/ UNCHANGED job
  BY DEF Sweep, begun, Resumed, Steps
<1>4. Job'
  BY <1>2, <1>3 DEF Job, job
<1>5. runs' \in Nat
  BY WindowAssumption DEF Sweep, IInv, TypeOK
<1> QED
  BY <1>4, <1>5 DEF Sweep, IInv, TypeOK, Job, kea, helper, ticking, store, bounds

LEMMA ForgetKeeps == ASSUME IInv, Forget PROVE IInv'
<1>1. Job'
  BY DEF Forget, IInv, Job, job, world, bounds
<1>2. entry' \in OurEntries(hands)
  BY EntriesAreTyped DEF Forget
<1> QED
  BY <1>1, <1>2, StepsOfJen DEF Forget, IInv, TypeOK

LEMMA ApiKeeps == ASSUME IInv, ApiReads \/ ApiSets PROVE IInv'
<1>1. Job'
  BY DEF ApiReads, ApiSets, IInv, Job, job, bounds
<1>2. api' \in Logger
  BY LoggersAreTyped DEF ApiReads, ApiSets, IInv, TypeOK
<1>3. changes' \in 0..MaxChanges
  BY WindowAssumption DEF ApiReads, ApiSets, IInv, TypeOK, bounds
<1> QED
  BY <1>1, <1>2, <1>3 DEF ApiReads, ApiSets, IInv, TypeOK, kea, helper, ticking, store, bounds, Job

\* What the tick read or saved over the host's record is a record of ours.
LEMMA TicksAreOurs ==
  ASSUME IInv, HostTick
  PROVE  /\ file' \in OurLoggers(hands) /\ daemon' \in OurLoggers(hands)
         /\ host' \in OurRecords(hands) /\ found' \in OurRecords(hands)
         /\ faults' \in 0..MaxFaults
<1>1. NoRecord \in OurRecords(hands) /\ Reopened(found) \in OurRecords(hands)
  BY RestartsAreCounted, WindowAssumption
     DEF IInv, NoRecord, OurRecords, Record, Times, EndTime, Levels
<1>2. CASE TickReads \/ TickReopens
  <2>1. faults' \in 0..MaxFaults
    BY <1>2, FaultsAreCounted DEF TickReads, TickReopens, IInv, TypeOK
  <2> QED
    BY <1>1, <1>2, <2>1 DEF TickReads, TickReopens, TickEnds, IInv, kea
<1>3. CASE TickRestores
  <2>1. CASE \E ok \in BOOLEAN : HostRestores(ok)
    BY <1>1, <1>3, <2>1, HostRestoresOurs DEF TickRestores, TickEnds
  <2>2. CASE ~\E ok \in BOOLEAN : HostRestores(ok)
    <3>1. faults' \in 0..MaxFaults
      BY <1>3, <2>2, FaultsAreCounted DEF TickRestores, IInv
    <3> QED
      BY <1>1, <1>3, <2>2, <3>1 DEF TickRestores, TickEnds, IInv
  <2> QED
    BY <2>1, <2>2
<1> QED
  BY <1>2, <1>3 DEF HostTick

LEMMA HostTickKeeps == ASSUME IInv, HostTick PROVE IInv'
<1>1. UNCHANGED <<canReload, timer, store, job, api, alive, clock, runs, session, bounds>>
  BY DEF HostTick, TickReads, TickReopens, TickRestores, kea
<1>2. bad' \in BOOLEAN /\ tick' \in {"none", "reopen", "restore"} /\ overtaken' \in BOOLEAN
  BY DEF HostTick, TickReads, TickReopens, TickRestores, TickEnds, Overtakes, IInv, TypeOK
<1>3. Job'
  BY <1>1 DEF IInv, Job, job, bounds
<1>4. OurLoggers(hands) \subseteq Logger /\ OurRecords(hands) \subseteq Record
  BY DEF OurLoggers, OurRecords
<1> QED
  BY <1>1, <1>2, <1>3, <1>4, TicksAreOurs DEF IInv, TypeOK, Job, store, job, bounds

LEMMA HandKeeps == ASSUME IInv, Hand PROVE IInv'
<1>1. hands' \in 0..MaxHands /\ hands' # 0
  BY WindowAssumption DEF Hand, IInv, TypeOK
<1>2. file' \in Logger /\ daemon' \in Logger
  BY LoggersAreTyped DEF Hand, IInv, TypeOK, Levels, Logger
<1>3. host' \in Record /\ bad' \in BOOLEAN
  <2>1. NoRecord \in Record
    BY WindowAssumption DEF NoRecord, Record, Times, EndTime, Levels
  <2> QED
    BY <2>1 DEF Hand, IInv, TypeOK
<1>4. \A h : OurLoggers(h) \subseteq Logger /\ OurEntries(h) \subseteq Entry
  BY DEF OurLoggers, OurEntries
<1>5. /\ OurLoggers(hands') = Logger /\ OurRecords(hands') = Record
      /\ OurEntries(hands') = Entry
  BY <1>1 DEF OurLoggers, OurRecords, OurEntries
<1>6. UNCHANGED <<canReload, timer, tick, found, overtaken, entry, damaged, pc, w, api, alive,
                  clock, runs, session, turns, offs, changes, faults>>
  BY DEF Hand, ticking, store, job
<1> QED
  BY <1>1, <1>2, <1>3, <1>4, <1>5, <1>6 DEF IInv, TypeOK, Job

LEMMA HostBreaksKeeps == ASSUME IInv, HostBreaks PROVE IInv'
<1>1. faults' \in 0..MaxFaults
  BY FaultsAreCounted DEF HostBreaks, IInv
<1>2. timer' \in BOOLEAN /\ bad' \in BOOLEAN
  BY DEF HostBreaks, IInv, TypeOK
<1>3. Job'
  BY DEF HostBreaks, IInv, Job, job, bounds
<1> QED
  BY <1>1, <1>2, <1>3 DEF HostBreaks, IInv, TypeOK, kea, ticking, store, bounds, Job

LEMMA RecordRotsKeeps == ASSUME IInv, RecordRots PROVE IInv'
<1>1. faults' \in 0..MaxFaults
  BY FaultsAreCounted DEF RecordRots, IInv
<1>2. entry' \in OurEntries(hands) /\ entry' \in Entry
  BY EntriesAreTyped DEF RecordRots, OurEntries
<1>3. Job'
  BY DEF RecordRots, IInv, Job, job, bounds
<1> QED
  BY <1>1, <1>2, <1>3 DEF RecordRots, IInv, TypeOK, kea, helper, ticking, bounds, Job

LEMMA JenDiesKeeps == ASSUME IInv, Crash \/ Dies PROVE IInv'
<1>1. faults' \in 0..MaxFaults
  BY FaultsAreCounted DEF Crash, Dies, IInv
<1>2. Job'
  BY StoppingKeeps DEF Crash, Dies, IInv, Job, job, bounds
<1>3. api' = NoLogger /\ api' \in Logger /\ alive' \in BOOLEAN
  BY LoggersAreTyped DEF Crash, Dies, IInv, TypeOK
<1> QED
  BY <1>1, <1>2, <1>3 DEF Crash, Dies, IInv, TypeOK, kea, helper, ticking, store, bounds, Job

LEMMA TickKeeps == ASSUME IInv, Tick PROVE IInv'
<1>1. clock' \in Times
  BY WindowAssumption DEF Tick, IInv, TypeOK, Times, EndTime
<1>2. Job'
  BY DEF Tick, IInv, Job, job, bounds
<1> QED
  BY <1>1, <1>2 DEF Tick, IInv, TypeOK, kea, helper, ticking, store, bounds, Job

\* A Kea nobody has touched.
LEMMA InitKeeps == Init => IInv
<1> SUFFICES ASSUME Init
             PROVE  IInv
  OBVIOUS
<1>1. file \in OurLoggers(hands) /\ daemon \in OurLoggers(hands) /\ api = NoLogger
  BY LoggersAreTyped DEF Init
<1>2. host \in OurRecords(hands) /\ found \in OurRecords(hands)
  BY WindowAssumption DEF Init, NoRecord, OurRecords, Record, Times, EndTime, Levels
<1>3. entry \in OurEntries(hands)
  BY EntriesAreTyped DEF Init
<1>4. Job
  BY EntriesAreTyped, WorkIsTyped DEF Init, Job, NoWork, Steps
<1>5. /\ OurLoggers(hands) \subseteq Logger /\ OurRecords(hands) \subseteq Record
      /\ OurEntries(hands) \subseteq Entry
  BY DEF OurLoggers, OurRecords, OurEntries
<1>6. clock \in Times /\ session \in Times /\ runs \in Nat
  BY WindowAssumption DEF Init, Times, EndTime
<1>7. /\ turns \in 0..MaxTurns /\ offs \in 0..MaxOffs /\ changes \in 0..MaxChanges
      /\ hands \in 0..MaxHands /\ faults \in 0..MaxFaults
  BY WindowAssumption DEF Init
<1>8. canReload \in BOOLEAN /\ bad \in BOOLEAN /\ timer \in BOOLEAN /\ damaged \in BOOLEAN
      /\ alive \in BOOLEAN /\ tick \in {"none", "reopen", "restore"} /\ overtaken \in BOOLEAN
  BY WindowAssumption DEF Init
<1> QED
  BY <1>1, <1>2, <1>3, <1>4, <1>5, <1>6, <1>7, <1>8, LoggersAreTyped
     DEF IInv, TypeOK, Job

LEMMA StutteringKeeps == ASSUME IInv, UNCHANGED vars PROVE IInv'
<1>1. Job'
  BY DEF IInv, vars, Job, job, bounds
<1> QED
  BY <1>1 DEF IInv, vars, TypeOK, kea, helper, ticking, store, bounds, Job

\* Every step, by its action.
LEMMA NextKeeps == ASSUME IInv, [Next]_vars PROVE IInv'
<1>1. CASE Step
  BY <1>1, PutKeeps, AbandonKeeps, WriteKeeps, ArmKeeps, StoreKeeps, ReloadKeeps,
     LookOnKeeps, StoreOnKeeps, RevertKeeps, LookBackKeeps, DropKeeps, DisarmKeeps,
     SettledKeeps, ClearMarkedKeeps, ClearNothingKeeps, LookCleanKeeps, PhaseKeeps,
     VerifyKeeps, RestartKeaKeeps, LookFailedKeeps, ExamineKeeps, RebuildKeeps, StatusKeeps,
     RearmKeeps, DueKeeps, AgainKeeps, ScanKeeps
     DEF Step
<1>2. CASE \/ \E until \in 1..MaxTime : TurnOn(until)
           \/ TurnOff \/ Sweep \/ Forget
  BY <1>2, TurnOnKeeps, TurnOffKeeps, SweepKeeps, ForgetKeeps
<1>3. CASE ApiReads \/ ApiSets \/ HostTick \/ Tick
  BY <1>3, ApiKeeps, HostTickKeeps, TickKeeps
<1>4. CASE Hand \/ HostBreaks \/ RecordRots \/ Crash \/ Dies
  BY <1>4, HandKeeps, HostBreaksKeeps, RecordRotsKeeps, JenDiesKeeps
<1>5. CASE UNCHANGED vars
  BY <1>5, StutteringKeeps
<1> QED
  BY <1>1, <1>2, <1>3, <1>4, <1>5 DEF Next

-----------------------------------------------------------------------------
(* The theorems.                                                           *)

\* The invariant holds of every run: no turn-on, extension, restore or repair by
\* Jen, by the host's timer or by both at once loses the original level.
THEOREM WindowTypesAndOriginals == Spec => []IInv
<1>1. IInv /\ [Next]_vars => IInv'
  BY NextKeeps
<1> QED
  BY InitKeeps, <1>1, PTL DEF Spec

\* Every variable keeps its type, what Jen stores and what the host stores among
\* them, whatever fails between two steps.
THEOREM WindowTypeCorrect == Spec => []TypeOK
<1>1. IInv => TypeOK
  BY DEF IInv
<1> QED
  BY WindowTypesAndOriginals, <1>1, PTL

\* With no window open anywhere the file is at the level from before the first
\* window: set_investigation_logging and _arm_locked keep the first original,
\* and no restore takes it from anywhere else.
THEOREM OwnLevelAfterEveryWindow == Spec => []OwnLevelComesBack
<1>1. IInv => OwnLevelComesBack
  BY DEF IInv, OwnLevelComesBack, OurLoggers, Ours
<1> QED
  BY WindowTypesAndOriginals, <1>1, PTL

-----------------------------------------------------------------------------
(* A promised session.  HostKeepsSession says what holds of the host and   *)
(* of the file; it stays so because of what Jen's entry, its locals and a  *)
(* change under way say of the same session.                               *)

\* The steps of a turn-on up to its answer, and those of a sweep that finds
\* nothing to restore.
Pressing == {"write", "arm", "store", "reload", "lookOn", "storeOn"}
Marking == Pressing \ {"write"}
Armed == Marking \ {"arm"}
Stored == Armed \ {"store"}
Looking == {"status", "due", "again", "scan", "put", "examine", "rebuild"}

\* The entry of a session that is on.
IsOn(e, until) == e.until = until /\ e.file = "debug"

\* A turn-on is the only operation whose `now` is zero, and it ends before the
\* deadline it asks for; who promises, does so with its last step.
TurningOn ==
  /\ w.next \notin Pressing
  /\ pc \in Pressing => w.now = 0 /\ session = 0 /\ clock < w.e.until
  /\ clock >= 1
  /\ session # 0 /\ pc # "idle" => w.now # 0 /\ w.now <= clock

\* What the turn-on has written by now is of its own deadline.
IsMarking ==
  /\ pc \in Marking =>
       /\ w.e.file = "debug"
       /\ Carries(file) => file.until = w.e.until
       /\ Carries(api) => api.until = w.e.until
  /\ pc \in Armed /\ hands = 0 /\ ~overtaken => Unresolved /\ host.until = w.e.until
  /\ pc \in Stored /\ canReload => IsOn(entry, w.e.until)

\* A change over the API takes along the marker there is.
ApiCarriesAlong == api # NoLogger /\ Carries(file) => api = file

\* The deadline a turn-on asks for, or has promised.
Asked == IF pc \in Pressing THEN w.e.until ELSE session
\* Until then the tick has decided on no record of that deadline, nor is one restored.
TickFound ==
  clock < Asked /\ hands = 0 /\ ~overtaken =>
    found.until # Asked /\ (host.until = Asked => ~host.done)

\* A session that was promised and is not over.
Promised == session # 0 /\ clock < session /\ hands = 0 /\ ~overtaken

\* ... is on, for the host, in the file, for Jen, and for the sweep under way.
PromiseHolds ==
  Promised =>
    /\ Unresolved /\ host.until = session
    /\ Carries(file) /\ file.until = session
    /\ damaged \/ IsOn(entry, session)
    /\ pc \in Looking \cup {"idle"}
    /\ pc \in Looking \ {"examine"} => IsOn(w.e, session)
    /\ pc = "put" => w.next \in {"idle", "due", "scan"}

SInv == /\ IInv /\ TurningOn /\ IsMarking /\ ApiCarriesAlong /\ PromiseHolds
        /\ TickFound

\* How the holder of the lock goes on, field by field.
LEMMA GotoFacts ==
  ASSUME w \in Work, NEW step, NEW e, Goto(step, e)
  PROVE  pc' = step /\ w'.e = e /\ w'.now = w.now /\ w'.next = w.next
BY DEF Goto, Work

\* _put_entry keeps the entry it writes among the locals.
LEMMA PutFacts ==
  ASSUME w \in Work, NEW step, NEW e, PutThen(step, e)
  PROVE  pc' = "put" /\ w'.e = e /\ w'.now = w.now /\ w'.next = step
BY DEF PutThen, Work

\* restore_server begins with the entry it is given.
LEMMA RestoreFacts ==
  ASSUME w \in Work, NEW e, NEW now, RestoreAt(e, now)
  PROVE  pc' \in {"disarm", "clear"} /\ w'.e = e /\ w'.now = now /\ w'.next = w.next
BY DEF RestoreAt, Work

\* An operation goes on with anything but a turn-on, and in its own time.
KeepsTime ==
  /\ pc' \notin Pressing /\ w'.next \notin Pressing
  /\ pc' # "idle" => w'.now = w.now

LEMMA MovesKeepTime ==
  ASSUME w \in Work, w.next \notin Pressing
  PROVE  /\ Stop => KeepsTime
         /\ \A step, e : step \notin Pressing =>
              /\ Goto(step, e) => KeepsTime
              /\ PutThen(step, e) => KeepsTime
         /\ \A e : RestoreAt(e, w.now) => KeepsTime
<1>1. Stop => KeepsTime
  BY DEF Stop, NoWork, KeepsTime, Pressing
<1>2. ASSUME NEW step, NEW e, step \notin Pressing, Goto(step, e)
      PROVE  KeepsTime
  BY <1>2, GotoFacts DEF KeepsTime
<1>3. ASSUME NEW step, NEW e, step \notin Pressing, PutThen(step, e)
      PROVE  KeepsTime
  BY <1>3, PutFacts DEF KeepsTime, Pressing
<1>4. ASSUME NEW e, RestoreAt(e, w.now)
      PROVE  KeepsTime
  BY <1>4, RestoreFacts DEF KeepsTime, Pressing
<1> QED
  BY <1>1, <1>2, <1>3, <1>4

\* A restore that failed, one that is finished and a report go on so, too.
LEMMA EndingsKeepTime ==
  ASSUME w \in Work, w.next \notin Pressing
  PROVE  /\ \A e : Failed(e) => KeepsTime
         /\ \A seen : Finish(seen) => KeepsTime
         /\ \A armed : Reported(armed) => KeepsTime
BY MovesKeepTime DEF Failed, Finish, Reported, Pressing

\* A step of a turn-on: to its next step, about the same deadline, or out of it.
PressesOn ==
  /\ pc \in Pressing /\ pc' \in Marking
  /\ w'.now = w.now /\ w'.next = w.next /\ w'.e.until = w.e.until

\* Each step of a turn-on goes on to the next one, or it ends there.
LEMMA PressingGoesOn ==
  ASSUME IInv, w.next \notin Pressing, Write \/ Arm \/ Store \/ Reload \/ LookOn
  PROVE  PressesOn \/ KeepsTime
<1> w \in Work /\ w.e \in Entry
  BY DEF IInv, Job, OurEntries
<1>1. ASSUME NEW e, NEW step \in Marking, pc \in Pressing, Goto(step, e), e.until = w.e.until
      PROVE  PressesOn
  BY <1>1, GotoFacts DEF PressesOn
<1>2. CASE Write
  <2> DEFINE e == EntryFor(w.e.until, Marked(file, w.e.until).was)
  <2>1. [e EXCEPT !.restarted = ~canReload].until = w.e.until
    BY DEF EntryFor
  <2>2. \/ Stop \/ PutThen("idle", Owing(e, "restart"))
        \/ Goto("arm", [e EXCEPT !.restarted = ~canReload])
    BY <1>2 DEF Write
  <2> HIDE DEF e
  <2> QED
    BY <1>1, <1>2, <2>1, <2>2, MovesKeepTime DEF Write, Pressing, Marking
<1>3. CASE Arm
  <2>1. [w.e EXCEPT !.armed = TRUE].until = w.e.until
    BY DEF Entry
  <2>2. \/ Goto(IF canReload THEN "store" ELSE "lookOn", [w.e EXCEPT !.armed = TRUE])
        \/ pc' = "abandon" /\ w' = [w EXCEPT !.next = "revert"]
        \/ Goto("revert", w.e)
    BY <1>3 DEF Arm
  <2>3. ASSUME pc' = "abandon", w' = [w EXCEPT !.next = "revert"]
        PROVE  KeepsTime
    BY <2>3 DEF KeepsTime, Pressing, Work
  <2> QED
    BY <1>1, <1>3, <2>1, <2>2, <2>3, MovesKeepTime DEF Arm, Pressing, Marking
<1>4. CASE Store
  <2>1. Owing(w.e, "reload").until = w.e.until
    BY DEF Owing, Entry
  <2>2. Goto("reload", Owing(w.e, "reload")) \/ (pc' = "undo" /\ w' = w)
    BY <1>4 DEF Store
  <2> QED
    BY <1>1, <1>4, <2>1, <2>2 DEF Store, Pressing, Marking, KeepsTime
<1>5. CASE Reload
  BY <1>1, <1>5, MovesKeepTime DEF Reload, Pressing, Marking
<1>6. CASE LookOn
  <2>1. PICK seen \in Observable(w.e) : LookOn!2!(seen)
    BY <1>6, Zenon DEF LookOn
  <2>2. \A what : Owing(seen, what).until = w.e.until
    BY DEF Observable, Owing, Entry
  <2>3. ASSUME pc' = "revert",
               w' = [w EXCEPT !.e = seen, !.contradiction = (seen.daemon = "restored")]
        PROVE  KeepsTime
    BY <2>3 DEF KeepsTime, Pressing, Work
  <2> QED
    BY <1>1, <1>6, <2>1, <2>2, <2>3 DEF LookOn, Pressing, Marking
<1> QED
  BY <1>2, <1>3, <1>4, <1>5, <1>6

\* The other steps of Jen, the answer of a turn-on apart, are of no turn-on.
LEMMA OthersKeepTime ==
  ASSUME IInv, w.next \notin Pressing, Step,
         ~ (Write \/ Arm \/ Store \/ Reload \/ LookOn \/ StoreOn)
  PROVE  KeepsTime
<1> w \in Work
  BY DEF IInv, Job
<1> USE DEF Pressing
<1>1. CASE Put
  <2>1. Stop \/ Goto(w.next, w.e)
    BY <1>1 DEF Put
  <2> QED
    BY <2>1, MovesKeepTime
<1>2. CASE Abandon
  <2>1. Stop \/ Goto(w.next, w.e)
    BY <1>2 DEF Abandon
  <2> QED
    BY <2>1, MovesKeepTime
<1>3. CASE Revert
  <2>1. Stop \/ \E e : Goto("lookBack", e)
    BY <1>3 DEF Revert
  <2> QED
    BY <2>1, MovesKeepTime
<1>4. CASE LookBack
  <2>1. \/ \E e : PutThen("idle", e)
        \/ \E e, armed : pc' = "dropOn" /\ w' = [w EXCEPT !.e = e, !.wasArmed = armed]
    BY <1>4 DEF LookBack
  <2>2. ASSUME NEW e, NEW armed, pc' = "dropOn", w' = [w EXCEPT !.e = e, !.wasArmed = armed]
        PROVE  KeepsTime
    BY <2>2 DEF KeepsTime, Work
  <2> QED
    BY <2>1, <2>2, MovesKeepTime
<1>5. CASE Drop
  <2>1. \/ Stop \/ PutThen("idle", w.e)
        \/ pc' = "abandon" /\ w' = [w EXCEPT !.next = "idle"]
    BY <1>5 DEF Drop
  <2>2. ASSUME pc' = "abandon", w' = [w EXCEPT !.next = "idle"]
        PROVE  KeepsTime
    BY <2>2 DEF KeepsTime, Work
  <2> QED
    BY <2>1, <2>2, MovesKeepTime
<1>6. CASE Disarm
  <2>1. \/ \E e : pc' = "put" /\ w' = [w EXCEPT !.e = e, !.wasArmed = FALSE, !.next = "settled"]
        \/ Goto("clear", w.e)
    BY <1>6 DEF Disarm
  <2>2. ASSUME NEW e, pc' = "put",
               w' = [w EXCEPT !.e = e, !.wasArmed = FALSE, !.next = "settled"]
        PROVE  KeepsTime
    BY <2>2 DEF KeepsTime, Work
  <2> QED
    BY <2>1, <2>2, MovesKeepTime
<1>7. CASE Settled
  <2>1. \/ \E seen : Finish(seen)
        \/ \E seen : pc' = "phase" /\ w' = [w EXCEPT !.e = seen, !.fresh = TRUE]
    BY <1>7 DEF Settled
  <2>2. ASSUME NEW seen, pc' = "phase", w' = [w EXCEPT !.e = seen, !.fresh = TRUE]
        PROVE  KeepsTime
    BY <2>2 DEF KeepsTime, Work
  <2> QED
    BY <2>1, <2>2, EndingsKeepTime
<1>8. CASE ClearMarked
  <2>1. \/ \E e : pc' = "put" /\ w' = [w EXCEPT !.e = e, !.next = "phase", !.fresh = TRUE]
        \/ \E e : Goto("lookAfter", e)
        \/ Failed(w.e)
        \/ \E e : PutThen("idle", e)
    BY <1>8 DEF ClearMarked
  <2>2. ASSUME NEW e, pc' = "put", w' = [w EXCEPT !.e = e, !.next = "phase", !.fresh = TRUE]
        PROVE  KeepsTime
    BY <2>2 DEF KeepsTime, Work
  <2> QED
    BY <2>1, <2>2, MovesKeepTime, EndingsKeepTime
<1>9. CASE ClearNothing
  <2>1. Stop \/ Failed(w.e) \/ \E e : PutThen("idle", e) \/ Goto("lookClean", e)
    BY <1>9 DEF ClearNothing
  <2> QED
    BY <2>1, MovesKeepTime, EndingsKeepTime
<1>10. CASE LookClean
  <2>1. \/ \E seen : Finish(seen) \/ PutThen("idle", seen)
        \/ \E e : pc' = "put" /\ w' = [w EXCEPT !.e = e, !.next = "phase", !.fresh = FALSE]
    BY <1>10 DEF LookClean
  <2>2. ASSUME NEW e, pc' = "put", w' = [w EXCEPT !.e = e, !.next = "phase", !.fresh = FALSE]
        PROVE  KeepsTime
    BY <2>2 DEF KeepsTime, Work
  <2> QED
    BY <2>1, <2>2, MovesKeepTime, EndingsKeepTime
<1>11. CASE Phase
  <2>1. \/ \E e : Goto("lookAfter", e) \/ Goto("verify", e) \/ PutThen("idle", e)
        \/ \E owed : pc' = "restart" /\ w' = [w EXCEPT !.owed = owed]
    BY <1>11 DEF Phase
  <2>2. ASSUME NEW owed, pc' = "restart", w' = [w EXCEPT !.owed = owed]
        PROVE  KeepsTime
    BY <2>2 DEF KeepsTime, Work
  <2> QED
    BY <2>1, <2>2, MovesKeepTime
<1>12. CASE Verify \/ RestartKea \/ LookFailed
  <2>1. \E e : \/ Goto("lookAfter", e) \/ Goto("restartInstead", e)
               \/ Goto("lookFailed", e) \/ PutThen("idle", e)
    BY <1>12 DEF Verify, RestartKea, LookFailed
  <2> QED
    BY <2>1, MovesKeepTime
<1>13. CASE Examine \/ Rebuild
  <2>1. Stop \/ \E e : Goto("rebuild", e)
    BY <1>13 DEF Examine, Rebuild
  <2> QED
    BY <2>1, MovesKeepTime
<1>14. CASE Status
  <2>1. \/ Goto("due", w.e) \/ Goto("rearm", w.e) \/ RestoreAt(w.e, w.now)
        \/ \E armed : Reported(armed)
    BY <1>14 DEF Status
  <2> QED
    BY <2>1, MovesKeepTime, EndingsKeepTime
<1>15. CASE Rearm
  <2>1. \/ \E armed : Reported(armed)
        \/ pc' = "abandon" /\ w' = [w EXCEPT !.e.armed = FALSE, !.next = "disowned"]
    BY <1>15 DEF Rearm
  <2>2. ASSUME pc' = "abandon", w' = [w EXCEPT !.e.armed = FALSE, !.next = "disowned"]
        PROVE  KeepsTime
    BY <2>2 DEF KeepsTime, Work
  <2> QED
    BY <2>1, <2>2, EndingsKeepTime
<1>16. CASE Due
  <2>1. \/ PutThen("due", w.e) \/ RestoreAt(w.e, w.now) \/ Stop
        \/ Goto("again", w.e) \/ Goto("scan", w.e)
    BY <1>16 DEF Due
  <2> QED
    BY <2>1, MovesKeepTime
<1>17. CASE Again
  <2>1. Stop \/ \E e, step : /\ step \in {"scan", "idle"}
                             /\ Goto(step, e) \/ PutThen(step, e)
    BY <1>17 DEF Again
  <2> QED
    BY <2>1, MovesKeepTime
<1>18. CASE Scan
  <2>1. \/ Stop \/ RestoreAt(w.e, w.now)
        \/ \E e : PutThen("idle", e) \/ PutThen("clear", e)
    BY <1>18 DEF Scan
  <2> QED
    BY <2>1, MovesKeepTime
<1> QED
  BY <1>1, <1>2, <1>3, <1>4, <1>5, <1>6, <1>7, <1>8, <1>9, <1>10, <1>11, <1>12,
     <1>13, <1>14, <1>15, <1>16, <1>17, <1>18 DEF Step

\* A step of Jen inside an operation takes no time, and only the answer of a
\* turn-on promises.
LEMMA StepsPromiseLast ==
  ASSUME IInv, TurningOn, Step
  PROVE  /\ UNCHANGED <<clock, bad, api, hands, canReload, found, overtaken>>
         /\ session' = session \/ (pc = "storeOn" /\ pc' = "idle")
<1>1. StoreOn => UNCHANGED session \/ Stop
  BY DEF StoreOn
<1>2. StoreOn => pc = "storeOn"
  BY DEF StoreOn
<1>3. UNCHANGED world
  BY DEF Step, Put, Abandon, Write, Arm, Store, Reload, LookOn, StoreOn, Revert, LookBack,
     Drop, Disarm, Settled, ClearMarked, ClearNothing, LookClean, Phase, Verify,
     RestartKea, LookFailed, Examine, Rebuild, Status, Rearm, Due, Again, Scan
<1>4. StoreOn \/ UNCHANGED session
  BY DEF Step, Put, Abandon, Write, Arm, Store, Reload, LookOn, Revert, LookBack,
     Drop, Disarm, Settled, ClearMarked, ClearNothing, LookClean, Phase, Verify,
     RestartKea, LookFailed, Examine, Rebuild, Status, Rearm, Due, Again, Scan
<1>5. UNCHANGED <<clock, bad, api, hands, canReload, found, overtaken>>
  BY <1>3 DEF world, ticking, bounds
<1>6. session' = session \/ (pc = "storeOn" /\ pc' = "idle")
  BY <1>1, <1>2, <1>4 DEF Stop
<1> QED
  BY <1>5, <1>6


\* The answer of a turn-on is its last step, unless it is taken back.
LEMMA AnswerFacts ==
  ASSUME IInv, w.next \notin Pressing, StoreOn
  PROVE  /\ pc = "storeOn" /\ pc' \notin Pressing /\ w'.next \notin Pressing
         /\ pc' = "idle" \/ session' = session
<1> w \in Work
  BY DEF IInv, Job
<1>1. Stop \/ (session' = session /\ RestoreAt(w.e, Always))
  BY DEF StoreOn
<1>2. CASE Stop
  BY <1>2 DEF StoreOn, Stop, NoWork, Pressing
<1>3. CASE session' = session /\ RestoreAt(w.e, Always)
  BY <1>3, RestoreFacts DEF StoreOn, Pressing
<1> QED
  BY <1>1, <1>2, <1>3

\* The operations' beginnings.
LEMMA TurnOnFacts ==
  ASSUME NEW until, TurnOn(until)
  PROVE  /\ pc' = "write" /\ w'.now = 0 /\ w'.next = "idle" /\ w'.e.until = until
         /\ session' = 0 /\ until > clock /\ clock' = clock /\ ~damaged
BY DEF TurnOn, NoWork, EntryFor

\* A sweep begins with the entry it finds.
LEMMA SweepFacts ==
  ASSUME Sweep
  PROVE  /\ UNCHANGED <<session, clock, file, daemon, host, bad, entry, damaged, api, hands,
                         found, overtaken>>
         /\ \/ UNCHANGED <<pc, w>>
            \/ /\ w'.now = clock /\ w'.next = "idle" /\ w'.e = entry
               /\ \/ damaged /\ pc' = "examine"
                  \/ ~damaged /\ entry.until # 0 /\ entry.file = "debug" /\ pc' = "status"
                  \/ ~damaged /\ entry.file # "debug" /\ pc' = "due"
                  \/ ~damaged /\ entry.until = 0 /\ pc' = "scan"
<1>1. UNCHANGED <<session, clock, file, daemon, host, bad, entry, damaged, api, hands,
                  found, overtaken>>
  BY DEF Sweep, kea, helper, ticking, store, bounds
<1>2. \A d : LET begun == [NoWork EXCEPT !.e = entry, !.now = clock, !.full = d]
             IN  begun.now = clock /\ begun.next = "idle" /\ begun.e = entry
  BY DEF NoWork
<1> QED
  BY <1>1, <1>2 DEF Sweep, job

\* What happens outside Jen, and its own settings, leave its locals alone; what
\* stops it, ends them.
Outside == Forget \/ ApiReads \/ ApiSets \/ HostTick \/ Hand \/ HostBreaks \/ RecordRots

\* None of it moves Jen, its clock or what it promised.
LEMMA OutsideFacts ==
  ASSUME Outside
  PROVE  UNCHANGED <<pc, w, session, clock, canReload>>
BY DEF Outside, Forget, ApiReads, ApiSets, HostTick, TickReads, TickReopens, TickRestores, Hand,
       HostBreaks, RecordRots, job, kea, world, bounds

\* A hand is counted, and a tick that has overtaken a session stays remembered.
LEMMA OutsideBounds ==
  ASSUME IInv, Outside, hands' = 0, ~overtaken'
  PROVE  hands = 0 /\ ~overtaken /\ ~Hand
<1> hands \in Nat /\ overtaken \in BOOLEAN
  BY WindowAssumption DEF IInv, TypeOK
<1>1. ~Hand
  BY DEF Hand
<1> QED
  BY <1>1 DEF Outside, Forget, ApiReads, ApiSets, HostTick, TickReads, TickReopens, TickRestores,
     Overtakes, HostBreaks, RecordRots, world, ticking, bounds, helper

\* A Jen that stops has nothing under way; its file and the host stay.
LEMMA JenStops ==
  ASSUME Crash \/ Dies
  PROVE  /\ pc' = "idle" /\ UNCHANGED <<session, clock, file, daemon, host, bad, entry,
                                        damaged, hands, canReload, found, overtaken>>
         /\ api' = NoLogger /\ (w' = w \/ w' = NoWork)
BY DEF Crash, Dies, Stop, kea, helper, ticking, store, job, bounds

\* Time passes for a turn-on only while it has some left.
LEMMA TickFacts ==
  ASSUME Tick
  PROVE  /\ clock' = clock + 1 /\ Brief
         /\ UNCHANGED <<pc, w, session, file, daemon, host, bad, entry, damaged, api, hands,
                        canReload, found, overtaken>>
BY DEF Tick, kea, helper, ticking, store, job, bounds

\* Every step is one of these.
LEMMA StepKinds ==
  ASSUME [Next]_vars
  PROVE  \/ \E until \in 1..MaxTime : TurnOn(until)
         \/ TurnOff \/ Sweep \/ Step \/ Outside \/ Crash \/ Dies \/ Tick
         \/ UNCHANGED vars
BY DEF Next, Outside

\* A turn-off begins with the entry there is, and promises nothing.
LEMMA TurnOffFacts ==
  ASSUME IInv, TurnOff
  PROVE  pc' \in {"disarm", "clear"} /\ w'.next = w.next /\ session' = 0 /\ clock' = clock
<1> w \in Work
  BY DEF IInv, Job
<1> QED
  BY RestoreFacts DEF TurnOff

\* The first part of the invariant, by the kind of step.
LEMMA TurningOnStep ==
  ASSUME IInv, TurningOn, [Next]_vars
  PROVE  TurningOn'
<1> w.next \notin Pressing /\ clock \in Nat /\ session \in Nat
  BY WindowAssumption DEF TurningOn, IInv, TypeOK, Times, EndTime
<1>1. CASE Step
  <2>1. /\ UNCHANGED clock
        /\ session' = session \/ (pc = "storeOn" /\ pc' = "idle")
    BY <1>1, StepsPromiseLast
  <2>2. CASE PressesOn
    <3>1. pc' # "idle" /\ pc' \in Pressing
      BY <2>2 DEF PressesOn, Marking, Pressing
    <3> QED
      BY <2>1, <2>2, <3>1 DEF PressesOn, TurningOn
  <2>3. CASE KeepsTime
    <3>1. pc # "idle"
      BY <1>1 DEF Step, Put, Abandon, Write, Arm, Store, Reload, LookOn, StoreOn, Revert,
         LookBack, Drop, Disarm, Settled, ClearMarked, ClearNothing, LookClean, Phase,
         Verify, RestartKea, LookFailed, Examine, Rebuild, Status, Rearm, Due, Again, Scan
    <3> QED
      BY <2>1, <2>3, <3>1 DEF KeepsTime, TurningOn
  <2>4. CASE StoreOn
    <3>1. /\ pc = "storeOn" /\ pc' \notin Pressing /\ w'.next \notin Pressing
          /\ pc' = "idle" \/ session' = session
      BY <2>4, AnswerFacts
    <3>2. session = 0
      BY <3>1 DEF TurningOn, Pressing
    <3> QED
      BY <2>1, <3>1, <3>2 DEF TurningOn
  <2> QED
    BY <1>1, <2>2, <2>3, <2>4, PressingGoesOn, OthersKeepTime
<1>2. CASE \E until \in 1..MaxTime : TurnOn(until)
  BY <1>2, TurnOnFacts DEF TurningOn, Pressing
<1>3. CASE TurnOff
  BY <1>3, TurnOffFacts DEF TurningOn, Pressing
<1>4. CASE Sweep
  BY <1>4, SweepFacts DEF TurningOn, Pressing
<1>5. CASE Outside
  BY <1>5, OutsideFacts DEF TurningOn
<1>6. CASE Crash \/ Dies
  <2>1. w'.next \notin Pressing
    BY <1>6, JenStops DEF NoWork, Pressing
  <2> QED
    BY <1>6, <2>1, JenStops DEF TurningOn, Pressing
<1>7. CASE Tick
  <2>1. pc \in Pressing => clock + 1 < w.e.until
    BY <1>7, TickFacts DEF Brief, TurningOn, Pressing
  <2> QED
    BY <1>7, <2>1, TickFacts DEF TurningOn, IInv, Job, Work
<1>8. CASE UNCHANGED vars
  BY <1>8 DEF TurningOn, vars, job
<1> QED
  BY <1>1, <1>2, <1>3, <1>4, <1>5, <1>6, <1>7, <1>8, StepKinds

-----------------------------------------------------------------------------
(* The marker.                                                             *)

\* What puts the level back takes the marker off.
LEMMA PuttingBackUnmarks ==
  /\ \A l, was : ~ Carries(PutBack(l, was))
  /\ \A l : ~ Carries(Cleared(l))
  /\ \A level : ~ Carries(Plain(level))
  /\ ~ Carries(NoLogger)
BY DEF PutBack, Cleared, Plain, Carries, NoLogger

\* The host's own script marks nothing.
LEMMA HostUnmarks ==
  /\ \A ok : HostRestores(ok) => file' = file \/ ~ Carries(file')
  /\ HostTick => file' = file \/ ~ Carries(file')
  /\ \A answer : DisarmAsked(answer) => file' = file \/ ~ Carries(file')
<1>1. \A ok : HostRestores(ok) => file' = file \/ ~ Carries(file')
  BY PuttingBackUnmarks DEF HostRestores
<1>3. HostTick => file' = file \/ ~ Carries(file')
  BY <1>1 DEF HostTick, TickReads, TickReopens, TickRestores, kea
<1>2. ASSUME NEW answer, DisarmAsked(answer)
      PROVE  file' = file \/ ~ Carries(file')
  BY <1>1, <1>2, PuttingBackUnmarks DEF DisarmAsked
<1> QED
  BY <1>1, <1>2, <1>3

\* While a change over the API is under way nobody puts a marker into the file.
LEMMA FileMoves ==
  ASSUME Step
  PROVE  file' = file \/ ~ Carries(file') \/ api = NoLogger
<1>1. CASE Write \/ Revert \/ ClearMarked
  BY <1>1 DEF Write, Revert, ClearMarked
<1>2. CASE Abandon \/ Disarm
  BY <1>2, HostUnmarks DEF Abandon, Disarm
<1>3. CASE ~ (Write \/ Revert \/ ClearMarked \/ Abandon \/ Disarm)
  BY <1>3 DEF Step, Put, Arm, Store, Reload, LookOn, StoreOn, LookBack, Drop, Settled,
     ClearNothing, LookClean, Phase, Verify, RestartKea, LookFailed, Examine, Rebuild, Status,
     Rearm, Due, Again, Scan
<1> QED
  BY <1>1, <1>2, <1>3

\* ... nor does anything outside Jen, but for the change itself.
LEMMA FileMovesOutside ==
  ASSUME Outside
  PROVE  \/ api' = NoLogger
         \/ api' = daemon /\ file = daemon /\ file' = file
         \/ api' = api /\ (file' = file \/ ~ Carries(file'))
<1>1. CASE ApiReads \/ ApiSets
  BY <1>1 DEF ApiReads, ApiSets, kea
<1>2. CASE HostTick
  BY <1>2, HostUnmarks DEF HostTick, TickReads, TickReopens, TickRestores
<1>3. CASE Hand
  BY <1>3, PuttingBackUnmarks DEF Hand
<1>4. CASE Forget \/ HostBreaks \/ RecordRots
  BY <1>4 DEF Forget, HostBreaks, RecordRots, kea, world
<1> QED
  BY <1>1, <1>2, <1>3, <1>4 DEF Outside

\* So the change writes the marker that is there.
LEMMA ApiStep ==
  ASSUME IInv, TurningOn, ApiCarriesAlong, [Next]_vars
  PROVE  ApiCarriesAlong'
<1>1. CASE Step
  <2>1. api' = api
    BY <1>1, StepsPromiseLast
  <2> QED
    BY <1>1, <2>1, FileMoves DEF ApiCarriesAlong
<1>2. CASE Outside
  BY <1>2, FileMovesOutside DEF ApiCarriesAlong
<1>3. CASE Crash \/ Dies
  BY <1>3, JenStops DEF ApiCarriesAlong
<1>4. CASE Tick \/ Sweep
  <2>1. file' = file /\ api' = api
    BY <1>4, TickFacts, SweepFacts
  <2> QED
    BY <2>1 DEF ApiCarriesAlong
<1>5. CASE (\E until \in 1..MaxTime : TurnOn(until)) \/ TurnOff \/ UNCHANGED vars
  <2>1. file' = file /\ api' = api
    BY <1>5 DEF TurnOn, TurnOff, vars, kea
  <2> QED
    BY <2>1 DEF ApiCarriesAlong
<1> QED
  BY <1>1, <1>2, <1>3, <1>4, <1>5, StepKinds


\* What each step of a turn-on has written.
LEMMA PressingMarks ==
  ASSUME IInv, TurningOn, IsMarking, PressesOn, Write \/ Arm \/ Store \/ Reload \/ LookOn
  PROVE  IsMarking'
<1> DEFINE until == w.e.until
<1>1. /\ pc \in Pressing /\ clock < until /\ clock \in Nat /\ until \in Nat
      /\ w \in Work /\ w.e \in Entry /\ w'.e.until = until
  BY WindowAssumption DEF PressesOn, TurningOn, IInv, TypeOK, Job, Times, EndTime, OurEntries,
     Entry
<1>2. UNCHANGED <<overtaken, api, hands, canReload>>
  BY StepsPromiseLast DEF Step
<1>3. CASE Write
  <2> DEFINE e == EntryFor(until, Marked(file, until).was)
  <2>1. pc' = "arm" /\ w'.e = [e EXCEPT !.restarted = ~canReload] /\ file' = Marked(file, until)
        /\ api = NoLogger
    <3>1. pc' # "idle" /\ pc' # "put"
      BY DEF PressesOn, Marking, Pressing
    <3>2. file' = Marked(file, until) /\ Goto("arm", [e EXCEPT !.restarted = ~canReload])
          /\ api = NoLogger
      BY <1>3, <3>1 DEF Write, Stop, PutThen
    <3> QED
      BY <1>1, <3>2, GotoFacts
  <2>2. w'.e.file = "debug"
    BY <2>1 DEF EntryFor
  <2>3. file'.until = until
    BY <2>1 DEF Marked
  <2>4. ~ Carries(api')
    BY <1>2, <2>1, PuttingBackUnmarks
  <2> QED
    BY <1>1, <2>1, <2>2, <2>3, <2>4 DEF IsMarking, Marking, Armed, Stored, Pressing
<1>4. CASE Arm
  <2>1. PICK answer : Arm!2!(answer)
    BY <1>4, Zenon DEF Arm
  <2>2. answer = "armed" /\ w'.e = [w.e EXCEPT !.armed = TRUE]
      /\ pc' = IF canReload THEN "store" ELSE "lookOn"
    <3>1. pc' \notin {"abandon", "revert"}
      BY DEF PressesOn, Marking, Pressing
    <3> QED
      BY <1>1, <2>1, <3>1, GotoFacts DEF Goto
  <2>3. host' = ArmedRecord(until, w.e.was)
    BY <2>1, <2>2 DEF ArmAsked
  <2>4. Unresolved' /\ host'.until = until
    BY <1>1, <2>3 DEF ArmedRecord, Unresolved
  <2>5. w'.e.file = w.e.file
    BY <1>1, <2>2 DEF Entry
  <2>6. file' = file /\ pc = "arm"
    BY <1>4 DEF Arm
  <2> QED
    BY <1>1, <1>2, <2>2, <2>4, <2>5, <2>6
       DEF IsMarking, Marking, Armed, Stored, Pressing, Carries
<1>5. CASE Store
  <2> DEFINE e == Owing(w.e, "reload")
  <2>1. pc' = "reload" /\ entry' = e /\ w'.e = e
    <3>1. pc' # "undo"
      BY DEF PressesOn, Marking, Pressing
    <3>2. entry' = e /\ Goto("reload", e)
      BY <1>5, <3>1 DEF Store
    <3> QED
      BY <1>1, <3>2, GotoFacts
  <2>2. e.file = w.e.file /\ e.until = until
    BY <1>1 DEF Owing, Entry
  <2>3. file' = file /\ host' = host /\ pc = "store"
    BY <1>5 DEF Store
  <2> HIDE DEF e
  <2> QED
    BY <1>1, <1>2, <2>1, <2>2, <2>3
       DEF IsMarking, Marking, Armed, Stored, Pressing, Carries, Unresolved, IsOn
<1>6. CASE Reload
  <2>1. pc' = "lookOn" /\ w'.e = w.e
    <3>1. pc' # "revert"
      BY DEF PressesOn, Marking, Pressing
    <3>2. Goto("lookOn", w.e)
      BY <1>6, <3>1 DEF Reload, Goto
    <3> QED
      BY <1>1, <3>2, GotoFacts
  <2>2. file' = file /\ host' = host /\ entry' = entry /\ pc = "reload"
    BY <1>6 DEF Reload, store
  <2> QED
    BY <1>1, <1>2, <2>1, <2>2
       DEF IsMarking, Marking, Armed, Stored, Pressing, Carries, Unresolved, IsOn
<1>7. CASE LookOn
  <2>1. PICK seen \in Observable(w.e) : LookOn!2!(seen)
    BY <1>7, Zenon DEF LookOn
  <2>2. pc' = "storeOn" /\ \E what : w'.e = Owing(seen, what)
    <3>1. pc' # "revert"
      BY DEF PressesOn, Marking, Pressing
    <3>2. \E what : Goto("storeOn", Owing(seen, what))
      BY <2>1, <3>1
    <3> QED
      BY <1>1, <3>2, GotoFacts
  <2>3. w'.e.file = w.e.file
    BY <1>1, <2>2 DEF Observable, Owing, Entry
  <2>4. file' = file /\ host' = host /\ entry' = entry /\ pc = "lookOn"
    BY <1>7 DEF LookOn, store
  <2> QED
    BY <1>1, <1>2, <2>2, <2>3, <2>4
       DEF IsMarking, Marking, Armed, Stored, Pressing, Carries, Unresolved, IsOn
<1> QED
  BY <1>3, <1>4, <1>5, <1>6, <1>7

\* A host whose session is not over and not restored has nothing to restore, and a tick
\* that decided before that session was armed overtakes it.
LEMMA HostWaits ==
  ASSUME IInv, TickFound, Unresolved, host.until = Asked, clock < Asked, hands = 0,
         HostTick, ~overtaken'
  PROVE  UNCHANGED <<file, host>>
<1> clock \in Nat /\ host.until \in Nat /\ overtaken' \in BOOLEAN /\ overtaken \in BOOLEAN
  BY HostTickKeeps, WindowAssumption DEF IInv, TypeOK, Record, Times, EndTime
<1>1. ~overtaken
  BY DEF HostTick, TickReads, TickReopens, TickRestores, Overtakes
<1>2. ~Overtakes
  BY <1>1 DEF TickFound, Overtakes
<1>3. ~TickIsDue
  BY DEF TickIsDue, Unresolved
<1> QED
  BY <1>2, <1>3 DEF HostTick, TickReads, TickReopens, TickRestores, kea

\* What goes on outside Jen meanwhile.
LEMMA OutsideMarks ==
  ASSUME IInv, TurningOn, IsMarking, ApiCarriesAlong, TickFound, Outside
  PROVE  IsMarking'
<1>1. UNCHANGED <<pc, w, session, clock, canReload>>
  BY OutsideFacts
<1>2. SUFFICES ASSUME pc \in Marking
               PROVE  IsMarking'
  BY <1>1 DEF IsMarking, Armed, Stored, Marking
<1>3. pc # "idle" /\ clock < w.e.until /\ w.e.file = "debug" /\ pc \in Pressing
  BY <1>2 DEF Marking, Pressing, TurningOn, IsMarking
<1>4. entry' = entry
  BY <1>3 DEF Outside, Forget, ApiReads, ApiSets, HostTick, TickReads, TickReopens, TickRestores,
     Hand, HostBreaks, RecordRots, store
<1>5. /\ Carries(file') => file'.until = w.e.until
      /\ Carries(api') => api'.until = w.e.until
  <2>1. CASE ApiSets
    BY <1>2, <2>1, PuttingBackUnmarks DEF ApiSets, IsMarking
  <2>2. CASE ~ ApiSets
    <3>1. \/ api' = api /\ (file' = file \/ ~ Carries(file'))
          \/ api' = daemon /\ file = daemon /\ file' = file
          \/ api' = NoLogger /\ (file' = file \/ ~ Carries(file'))
      <4>1. CASE ApiReads
        BY <4>1 DEF ApiReads, kea
      <4>2. CASE HostTick
        BY <4>2, HostUnmarks DEF HostTick, TickReads, TickReopens, TickRestores
      <4>3. CASE Hand
        BY <4>3, PuttingBackUnmarks DEF Hand
      <4>4. CASE Forget \/ HostBreaks \/ RecordRots
        BY <4>4 DEF Forget, HostBreaks, RecordRots, kea, world
      <4> QED
        BY <2>2, <4>1, <4>2, <4>3, <4>4 DEF Outside
    <3> QED
      BY <1>2, <3>1, PuttingBackUnmarks DEF IsMarking
  <2> QED
    BY <2>1, <2>2
<1>6. ASSUME pc \in Armed, hands' = 0, ~overtaken'
      PROVE  Unresolved' /\ host'.until = w.e.until
  <2>1. hands = 0 /\ ~overtaken /\ ~Hand
    BY <1>6, OutsideBounds
  <2>2. Unresolved /\ host.until = w.e.until /\ w.e.until = Asked
    BY <1>3, <1>6, <2>1 DEF IsMarking, Asked
  <2>3. host' = host
    <3>1. CASE HostTick
      BY <1>3, <1>6, <2>1, <2>2, <3>1, HostWaits
    <3>2. CASE ~HostTick
      BY <2>1, <3>2 DEF Outside, Forget, ApiReads, ApiSets, HostBreaks, RecordRots, helper
    <3> QED
      BY <3>1, <3>2
  <2> QED
    BY <2>2, <2>3 DEF Unresolved
<1> QED
  BY <1>1, <1>3, <1>4, <1>5, <1>6 DEF IsMarking, IsOn

\* The second part of the invariant, by the kind of step.
LEMMA MarkingStep ==
  ASSUME IInv, TurningOn, IsMarking, ApiCarriesAlong, TickFound, [Next]_vars
  PROVE  IsMarking'
<1> w.next \notin Pressing
  BY DEF TurningOn
<1>1. ASSUME pc' \notin Marking
      PROVE  IsMarking'
  BY <1>1 DEF IsMarking, Armed, Stored
<1>2. CASE Step
  <2>1. CASE KeepsTime \/ StoreOn
    BY <1>1, <2>1, AnswerFacts DEF KeepsTime, Marking
  <2>2. CASE ~ (KeepsTime \/ StoreOn)
    BY <1>2, <2>2, PressingGoesOn, OthersKeepTime, PressingMarks
  <2> QED
    BY <2>1, <2>2
<1>3. CASE Outside
  BY <1>3, OutsideMarks
<1>4. CASE (\E until \in 1..MaxTime : TurnOn(until)) \/ TurnOff \/ Crash \/ Dies
  <2>1. pc' \in {"write", "disarm", "clear", "idle"}
    BY <1>4, TurnOnFacts, TurnOffFacts, JenStops
  <2> QED
    BY <1>1, <2>1 DEF Marking, Pressing
<1>5. CASE Sweep
  <2>1. pc' \notin Marking \/ pc = "idle"
    BY <1>5 DEF Sweep
  <2>2. pc' \notin Marking
    BY <1>5, <2>1, SweepFacts DEF Marking, Pressing
  <2> QED
    BY <1>1, <2>2
<1>6. CASE Tick \/ UNCHANGED vars
  <2>1. UNCHANGED <<pc, w, file, host, overtaken, entry, api, hands, canReload>>
    BY <1>6, TickFacts DEF vars, kea, helper, ticking, store, job, bounds
  <2> QED
    BY <2>1 DEF IsMarking, Carries, Unresolved, IsOn
<1> QED
  BY <1>2, <1>3, <1>4, <1>5, <1>6, StepKinds


-----------------------------------------------------------------------------
(* The promise.                                                            *)

\* The answer of a turn-on: it promises what it has written, armed and stored.
LEMMA AnswerPromises ==
  ASSUME IInv, TurningOn, IsMarking, StoreOn, Promised'
  PROVE  PromiseHolds'
<1>1. /\ pc = "storeOn" /\ pc \in Pressing /\ pc \in Marking /\ pc \in Armed /\ pc \in Stored
      /\ session = 0 /\ session' # 0
  BY DEF StoreOn, Promised, TurningOn, Pressing, Marking, Armed, Stored
<1>2. UNCHANGED <<file, host, overtaken, hands, damaged, canReload>>
  BY DEF StoreOn, world, ticking, bounds
<1>3. pc' = "idle" /\ Carries(file) /\ session' = w.e.until
  BY <1>1 DEF StoreOn, Promise, Stop
<1>4. entry' = w.e \/ (entry' = entry /\ canReload)
  BY <1>1 DEF StoreOn
<1>5. Unresolved /\ host.until = w.e.until /\ file.until = w.e.until /\ w.e.file = "debug"
  BY <1>1, <1>2, <1>3 DEF IsMarking, Promised
<1>6. IsOn(entry', w.e.until)
  BY <1>1, <1>4, <1>5 DEF IsMarking, IsOn
<1> QED
  BY <1>2, <1>3, <1>5, <1>6 DEF PromiseHolds, Unresolved, Carries, IsOn, Looking

\* A sweep that finds the session on leaves it on.
LEMMA SweepKeepsPromise ==
  ASSUME IInv, TurningOn, PromiseHolds, Promised, Promised', Sweep
  PROVE  PromiseHolds'
<1>1. UNCHANGED <<session, clock, file, host, overtaken, entry, damaged, hands>>
  BY SweepFacts
<1>2. \/ UNCHANGED <<pc, w>>
      \/ damaged /\ pc' = "examine"
      \/ pc' = "status" /\ IsOn(w'.e, session)
  BY SweepFacts DEF PromiseHolds, Promised, IsOn
<1> QED
  BY <1>1, <1>2 DEF PromiseHolds, Unresolved, Carries, IsOn, Looking

\* ... step by step.
LEMMA LookingKeepsPromise ==
  ASSUME IInv, TurningOn, PromiseHolds, Promised, Promised', Step, session' = session
  PROVE  PromiseHolds'
<1> DEFINE OnNow == /\ Unresolved /\ host.until = session
                    /\ Carries(file) /\ file.until = session
           Moved == /\ pc' \in Looking \cup {"idle"}
                    /\ pc' \in Looking \ {"examine"} => IsOn(w'.e, session)
                    /\ pc' = "put" => w'.next \in {"idle", "due", "scan"}
<1>1. /\ OnNow /\ pc \in Looking \cup {"idle"}
      /\ damaged \/ IsOn(entry, session)
      /\ session # 0 /\ clock < session /\ w \in Work /\ w.e \in Entry
  BY DEF PromiseHolds, Promised, IInv, Job, OurEntries
<1>2. pc \in Looking \ {"examine"} => IsOn(w.e, session)
  BY DEF PromiseHolds, Promised
<1>3. pc # "idle" => w.now <= clock
  BY <1>1 DEF TurningOn
<1>4. clock \in Nat /\ session \in Nat /\ (pc # "idle" => w.now \in Nat)
  BY WindowAssumption DEF IInv, TypeOK, Job, Work, Always, Times, EndTime
<1>5. \A e, step : /\ step \in Looking \cup {"idle"}
                   /\ IsOn(e, session)
                   /\ Goto(step, e) => step # "put"
                   /\ Goto(step, e) \/ (PutThen(step, e) /\ step \in {"idle", "due", "scan"})
                   => Moved
  BY <1>1, GotoFacts, PutFacts DEF Looking
<1>6. Stop => Moved
  BY DEF Stop, Looking
<1>7. ASSUME Moved, UNCHANGED <<file, host>>, damaged' \/ IsOn(entry', session)
      PROVE  PromiseHolds'
  BY <1>1, <1>7 DEF PromiseHolds, Unresolved, Carries, IsOn
<1> HIDE DEF Moved, OnNow
<1>8. CASE Put
  <2>1. w.next \in {"idle", "due", "scan"} /\ IsOn(w.e, session) /\ pc = "put"
    BY <1>2, <1>8 DEF Put, PromiseHolds, Promised, Looking
  <2>2. Stop \/ (Goto(w.next, w.e) /\ w.next # "put")
    BY <1>8, <2>1 DEF Put
  <2>3. Moved
    BY <1>5, <1>6, <2>1, <2>2 DEF Looking
  <2>4. UNCHANGED <<file, host, damaged>> /\ (entry' = w.e \/ entry' = entry)
    BY <1>8 DEF Put
  <2> QED
    BY <1>1, <1>7, <2>1, <2>3, <2>4
<1>9. CASE Status
  <2>1. IsOn(w.e, session)
    BY <1>2, <1>9 DEF Status, Looking
  <2>2. \A armed : IsOn([w.e EXCEPT !.armed = armed], session)
    BY <1>1, <2>1 DEF IsOn, Entry
  <2>3. Goto("due", w.e) \/ \E armed : Reported(armed)
    BY <1>1, <1>9 DEF Status, Unresolved, OnNow
  <2>4. \E e : IsOn(e, session) /\ (Goto("due", e) \/ PutThen("due", e))
    BY <2>1, <2>2, <2>3 DEF Reported
  <2>5. Moved
    BY <1>5, <2>4 DEF Looking
  <2> QED
    BY <1>1, <1>7, <1>9, <2>5 DEF Status, store
<1>10. CASE Due
  <2>1. pc = "due" /\ IsOn(w.e, session)
    BY <1>1, <1>2, <1>10 DEF Due, Looking
  <2>2. Goto("again", w.e) \/ Goto("scan", w.e) \/ Stop
    BY <1>1, <1>3, <1>4, <1>10, <2>1 DEF Due, IsOn
  <2>3. Moved
    BY <1>5, <1>6, <2>1, <2>2 DEF Looking
  <2> QED
    BY <1>1, <1>7, <1>10, <2>3 DEF Due, store
<1>11. CASE Again
  <2>1. PICK seen \in Observable(w.e) : Again!2!(seen)
    BY <1>11, Zenon DEF Again
  <2>2. IsOn(w.e, session) /\ Carries(file)
    BY <1>1, <1>2, <1>11 DEF Again, Looking, OnNow
  <2>3. IsOn(seen, session) /\ IsOn(Owing(seen, "none"), session)
    BY <1>1, <2>2 DEF IsOn, Observable, Owing, Entry
  <2>4. \E e, step : /\ IsOn(e, session) /\ step \in {"scan", "idle"}
                     /\ PutThen(step, e) \/ (step = "scan" /\ Goto(step, e)) \/ Stop
    BY <2>1, <2>2, <2>3
  <2>5. Moved
    BY <1>5, <1>6, <2>4 DEF Looking
  <2> QED
    BY <1>1, <1>7, <1>11, <2>5 DEF Again, store
<1>12. CASE Scan
  <2>1. IsOn(w.e, session) /\ Carries(file) /\ file.until = session
    BY <1>1, <1>2, <1>12 DEF Scan, Looking, OnNow
  <2>2. ~ (file.until <= w.now) /\ w.e.until # 0
    BY <1>1, <1>3, <1>4, <1>12, <2>1 DEF Scan, IsOn
  <2>3. Stop
    BY <1>12, <2>1, <2>2 DEF Scan
  <2> QED
    BY <1>1, <1>6, <1>7, <1>12, <2>3 DEF Scan, store
<1>13. CASE Examine
  <2>1. IsOn(Adopted, session)
    <3>1. Carries(file) /\ file.until = session
      BY <1>1 DEF OnNow
    <3> QED
      BY <3>1 DEF Adopted, IsOn, EntryFor
  <2>2. Stop \/ Goto("rebuild", Adopted)
    BY <1>13 DEF Examine
  <2>3. Moved
    BY <1>5, <1>6, <2>1, <2>2 DEF Looking
  <2> QED
    BY <1>1, <1>7, <1>13, <2>3 DEF Examine, store
<1>14. CASE Rebuild
  <2>1. IsOn(w.e, session)
    BY <1>2, <1>14 DEF Rebuild, Looking
  <2>2. UNCHANGED <<file, host>> /\ (damaged' \/ IsOn(entry', session))
    BY <1>1, <1>14, <2>1 DEF Rebuild, store
  <2> QED
    BY <1>6, <1>7, <1>14, <2>2 DEF Rebuild
<1>15. CASE ~ (Put \/ Status \/ Due \/ Again \/ Scan \/ Examine \/ Rebuild)
  BY <1>1, <1>15 DEF Step, Looking, Abandon, Write, Arm, Store, Reload, LookOn, StoreOn, Revert,
     LookBack, Drop, Disarm, Settled, ClearMarked, ClearNothing, LookClean, Phase, Verify,
     RestartKea, LookFailed, Rearm
<1> QED
  BY <1>8, <1>9, <1>10, <1>11, <1>12, <1>13, <1>14, <1>15

\* Nothing outside Jen ends it before its time, but a hand.
LEMMA OutsideKeepsPromise ==
  ASSUME IInv, TurningOn, ApiCarriesAlong, PromiseHolds, TickFound, Promised, Promised', Outside
  PROVE  PromiseHolds'
<1>1. UNCHANGED <<pc, w, session, clock>>
  BY OutsideFacts
<1>2. /\ Unresolved /\ host.until = session /\ clock < session
      /\ Carries(file) /\ file.until = session
      /\ damaged \/ IsOn(entry, session)
  BY DEF PromiseHolds, Promised
<1>3. ~Forget
  BY <1>2 DEF Forget, IsOn
<1>4. HostTick => UNCHANGED <<file, host, entry, damaged>>
  <2>1. pc \notin Pressing /\ Asked = session
    BY DEF TurningOn, Promised, Asked
  <2>2. HostTick => UNCHANGED <<file, host>>
    BY <1>2, <2>1, HostWaits DEF Promised
  <2> QED
    BY <2>2 DEF HostTick, TickReads, TickReopens, TickRestores, store
<1>5. ~Hand
  BY WindowAssumption DEF Hand, Promised, IInv, TypeOK
<1>6. file' = file /\ host' = host /\ (damaged' \/ IsOn(entry', session))
  <2>1. CASE ApiReads \/ HostBreaks
    BY <1>2, <2>1 DEF ApiReads, HostBreaks, kea, helper, store
  <2>2. CASE ApiSets
    BY <1>2, <2>2 DEF ApiSets, ApiCarriesAlong, helper, store
  <2>3. CASE RecordRots
    BY <2>3 DEF RecordRots, kea, helper
  <2> QED
    BY <1>2, <1>3, <1>4, <1>5, <2>1, <2>2, <2>3 DEF Outside
<1> QED
  BY <1>1, <1>2, <1>6 DEF PromiseHolds, Promised, Unresolved, Carries, IsOn

\* The last part of the invariant, by the kind of step.
LEMMA PromiseStep ==
  ASSUME IInv, TurningOn, IsMarking, ApiCarriesAlong, PromiseHolds, TickFound, [Next]_vars
  PROVE  PromiseHolds'
<1>1. SUFFICES ASSUME Promised'
               PROVE  PromiseHolds'
  BY DEF PromiseHolds
<1>2. CASE StoreOn
  BY <1>1, <1>2, AnswerPromises
<1>3. CASE Step /\ ~StoreOn
  <2>1. UNCHANGED <<clock, overtaken, hands, session>>
    BY <1>3, StepsPromiseLast
       DEF Step, Put, Abandon, Write, Arm, Store, Reload, LookOn, Revert, LookBack,
           Drop, Disarm, Settled, ClearMarked, ClearNothing, LookClean, Phase, Verify,
           RestartKea, LookFailed, Examine, Rebuild, Status, Rearm, Due, Again, Scan
  <2> QED
    BY <1>1, <1>3, <2>1, LookingKeepsPromise DEF Promised
<1>4. CASE (\E until \in 1..MaxTime : TurnOn(until)) \/ TurnOff
  BY <1>1, <1>4, TurnOnFacts, TurnOffFacts DEF Promised
<1>5. CASE Sweep
  BY <1>1, <1>5, SweepKeepsPromise, SweepFacts DEF Promised
<1>6. CASE Outside
  <2>1. hands = 0 /\ ~overtaken /\ UNCHANGED <<session, clock>>
    BY <1>1, <1>6, OutsideFacts, OutsideBounds DEF Promised
  <2> QED
    BY <1>1, <1>6, <2>1, OutsideKeepsPromise DEF Promised
<1>7. CASE Crash \/ Dies
  <2>1. Promised
    BY <1>1, <1>7, JenStops DEF Promised
  <2> QED
    BY <1>1, <1>7, <2>1, JenStops DEF PromiseHolds, Unresolved, Carries, IsOn, Looking
<1>8. CASE Tick
  <2>1. Promised
    <3>1. clock \in Nat /\ session \in Nat
      BY WindowAssumption DEF IInv, TypeOK, Times, EndTime
    <3> QED
      BY <1>1, <1>8, <3>1, TickFacts DEF Promised
  <2> QED
    BY <1>8, <2>1, TickFacts DEF PromiseHolds, Unresolved, Carries, IsOn
<1>9. CASE UNCHANGED vars
  BY <1>9 DEF vars, kea, helper, ticking, store, job, bounds, PromiseHolds, Promised, Unresolved,
     Carries, IsOn
<1> QED
  BY <1>2, <1>3, <1>4, <1>5, <1>6, <1>7, <1>8, <1>9, StepKinds

-----------------------------------------------------------------------------
(* What the tick decided on.                                               *)

\* A deadline that is asked for becomes the promised one, or is none any more.
LEMMA AskedStays ==
  ASSUME IInv, TurningOn, [Next]_vars, ~ \E until \in 1..MaxTime : TurnOn(until)
  PROVE  Asked' \in {Asked, 0} /\ clock <= clock'
<1> clock \in Nat /\ session \in Nat /\ w.next \notin Pressing
    /\ (pc \in Pressing => session = 0)
  BY WindowAssumption DEF TurningOn, IInv, TypeOK, Times, EndTime
<1>1. CASE Step /\ ~StoreOn
  <2>1. clock' = clock /\ session' = session
    BY <1>1, StepsPromiseLast
       DEF Step, Put, Abandon, Write, Arm, Store, Reload, LookOn, Revert, LookBack,
           Drop, Disarm, Settled, ClearMarked, ClearNothing, LookClean, Phase, Verify,
           RestartKea, LookFailed, Examine, Rebuild, Status, Rearm, Due, Again, Scan
  <2>2. CASE PressesOn
    BY <2>1, <2>2 DEF PressesOn, Marking, Asked
  <2>3. CASE KeepsTime
    BY <2>1, <2>3 DEF KeepsTime, Asked
  <2> QED
    BY <1>1, <2>2, <2>3, PressingGoesOn, OthersKeepTime
<1>2. CASE StoreOn
  <2>1. pc \in Pressing /\ pc' \notin Pressing /\ clock' = clock
    BY <1>2, AnswerFacts DEF StoreOn, world, Pressing
  <2>2. session' \in {w.e.until, 0, session}
    BY <1>2 DEF StoreOn, Promise
  <2> QED
    BY <2>1, <2>2 DEF Asked
<1>3. CASE TurnOff
  <2>1. pc' \notin Pressing /\ session' = 0 /\ clock' = clock
    BY <1>3, TurnOffFacts DEF Pressing
  <2> QED
    BY <2>1 DEF Asked
<1>4. CASE Sweep
  <2>1. pc \notin Pressing /\ pc' \notin Pressing
    BY <1>4, SweepFacts DEF Sweep, Pressing
  <2> QED
    BY <1>4, <2>1, SweepFacts DEF Asked
<1>5. CASE Outside \/ Tick
  BY <1>5, OutsideFacts, TickFacts DEF Asked
<1>6. CASE Crash \/ Dies
  <2>1. pc' \notin Pressing /\ session' = session /\ clock' = clock
    BY <1>6, JenStops DEF Pressing
  <2> QED
    BY <2>1 DEF Asked
<1>7. CASE UNCHANGED vars
  BY <1>7 DEF vars, job, Asked
<1> QED
  BY <1>1, <1>2, <1>3, <1>4, <1>5, <1>6, <1>7, StepKinds

\* No operation of Jen restores the record of the deadline that is asked for: a turn-on
\* only arms, and a sweep beside a promised session only looks.
LEMMA AskedIsArmed ==
  ASSUME IInv, TurningOn, PromiseHolds, Step, clock < Asked, hands = 0, ~overtaken
  PROVE  host' = host \/ ~host'.done
<1>1. CASE Abandon \/ Disarm \/ Rearm
  <2>1. pc \in {"abandon", "disarm", "rearm"}
    BY <1>1 DEF Abandon, Disarm, Rearm
  <2>2. pc \notin Pressing /\ clock >= 1
    BY <2>1 DEF Pressing, TurningOn
  <2>3. Promised
    BY <2>2, WindowAssumption DEF Promised, Asked, IInv, TypeOK, Times, EndTime
  <2> QED
    BY <2>1, <2>3 DEF PromiseHolds, Looking
<1>2. CASE Arm
  <2>1. \A until, was : ArmedRecord(until, was).done = FALSE
    BY DEF ArmedRecord
  <2>2. \/ host' = host
        \/ host' = ArmedRecord(w.e.until, w.e.was)
    BY <1>2 DEF Arm, ArmAsked
  <2> QED
    BY <2>1, <2>2
<1>3. CASE ~ (Abandon \/ Disarm \/ Rearm \/ Arm)
  BY <1>3 DEF Step, Put, Write, Store, Reload, LookOn, StoreOn, Revert, LookBack, Drop,
     Settled, ClearMarked, ClearNothing, LookClean, Phase, Verify, RestartKea, LookFailed,
     Examine, Rebuild, Status, Due, Again, Scan
<1> QED
  BY <1>1, <1>2, <1>3

\* The clock and the deadlines are numbers.
LEMMA TheTimes ==
  ASSUME IInv
  PROVE  clock \in Nat /\ session \in Nat /\ w.e.until \in Nat /\ host.until \in Nat
BY WindowAssumption DEF IInv, TypeOK, Job, OurEntries, Entry, Record, Times, EndTime

\* A step inside an operation is not the beginning of one.
LEMMA StepsAreNoTurnOn ==
  ASSUME Step
  PROVE  pc # "idle" /\ ~ \E until \in 1..MaxTime : TurnOn(until)
<1>1. pc # "idle"
  BY DEF Step, Put, Abandon, Write, Arm, Store, Reload, LookOn, StoreOn, Revert, LookBack,
     Drop, Disarm, Settled, ClearMarked, ClearNothing, LookClean, Phase, Verify, RestartKea,
     LookFailed, Examine, Rebuild, Status, Rearm, Due, Again, Scan
<1> QED
  BY <1>1 DEF TurnOn

\* A tick reads a record that is due, or restored, and neither is the one asked for; and
\* what it restores has the deadline it read, or it overtakes the session.
LEMMA TickFindsAnother ==
  ASSUME IInv, TickFound, clock < Asked, hands = 0, ~overtaken, HostTick, ~overtaken',
         Asked' = Asked
  PROVE  found'.until # Asked' /\ (host'.until = Asked' => ~host'.done)
<1> clock \in Nat /\ host.until \in Nat /\ found.until # Asked
    /\ (host.until = Asked => ~host.done)
  BY TheTimes DEF TickFound
<1>1. 0 # Asked /\ NoRecord.until = 0
  BY DEF NoRecord
<1>2. CASE TickReads
  <2>1. host.until # Asked
    BY <1>2 DEF TickReads, TickIsDue
  <2> QED
    BY <1>2, <2>1 DEF TickReads
<1>3. CASE TickReopens
  <2>1. found' \in {found, NoRecord} /\ (host' = host \/ ~host'.done)
    BY <1>3 DEF TickReopens, TickEnds, Reopened, IInv, TypeOK, Record
  <2> QED
    BY <1>1, <2>1
<1>4. CASE TickRestores
  <2>1. found' = NoRecord
    BY <1>4 DEF TickRestores, TickEnds
  <2>2. CASE Overtakes
    <3>1. host.until # Asked
      BY <2>2 DEF Overtakes
    <3>2. host'.until = host.until \/ ~host'.done
      BY <1>4 DEF TickRestores, HostRestores, Done, Spent, Reopened, IInv, TypeOK, Record
    <3> QED
      BY <1>1, <2>1, <3>1, <3>2
  <2>3. CASE ~Overtakes
    BY <1>1, <1>4, <2>1, <2>3 DEF TickRestores
  <2> QED
    BY <2>2, <2>3
<1> QED
  BY <1>2, <1>3, <1>4 DEF HostTick

\* The part of the invariant that is about the tick, by the kind of step.
LEMMA TickFoundStep ==
  ASSUME IInv, TurningOn, PromiseHolds, TickFound, [Next]_vars
  PROVE  TickFound'
<1>1. SUFFICES ASSUME clock' < Asked', hands' = 0, ~overtaken'
               PROVE  found'.until # Asked' /\ (host'.until = Asked' => ~host'.done)
  BY DEF TickFound
<1>2. CASE \E until \in 1..MaxTime : TurnOn(until)
  BY <1>2, TurnOnFacts DEF TurnOn, FreshDeadline, Asked, Pressing, kea
<1>3. ASSUME ~ \E until \in 1..MaxTime : TurnOn(until)
      PROVE  Asked' = Asked /\ clock < Asked
  <2>1. /\ clock \in Nat /\ clock' \in Nat /\ w.e.until \in Nat /\ session \in Nat
    <3>1. IInv'
      BY NextKeeps
    <3> QED
      BY <3>1, TheTimes, WindowAssumption DEF IInv, TypeOK, Times, EndTime
  <2>2. Asked \in Nat
    BY <2>1 DEF Asked
  <2> QED
    BY <1>1, <1>3, <2>1, <2>2, AskedStays
<1>4. ASSUME UNCHANGED <<found, overtaken>>, host' = host \/ ~host'.done, hands = 0,
             ~ \E until \in 1..MaxTime : TurnOn(until)
      PROVE  found'.until # Asked' /\ (host'.until = Asked' => ~host'.done)
  BY <1>1, <1>3, <1>4 DEF TickFound
<1>5. CASE Step
  <2>1. UNCHANGED <<found, overtaken, hands>> /\ ~ \E until \in 1..MaxTime : TurnOn(until)
    BY <1>5, StepsPromiseLast, StepsAreNoTurnOn
  <2> QED
    BY <1>1, <1>3, <1>4, <1>5, <2>1, AskedIsArmed
<1>6. CASE TurnOff \/ Sweep \/ Crash \/ Dies \/ Tick \/ UNCHANGED vars
  <2>1. UNCHANGED <<found, overtaken, hands, host, turns>>
    BY <1>6 DEF TurnOff, Sweep, Crash, Dies, Tick, vars, helper, ticking, bounds
  <2>2. ~ \E until \in 1..MaxTime : TurnOn(until)
    <3>1. turns \in Nat /\ turns' = turns
      BY <2>1, WindowAssumption DEF IInv, TypeOK
    <3>2. \A until \in 1..MaxTime : TurnOn(until) => turns' = turns + 1
      BY DEF TurnOn
    <3> QED
      BY <3>1, <3>2
  <2> QED
    BY <1>1, <1>4, <2>1, <2>2
<1>7. CASE Outside
  <2>1. hands = 0 /\ ~overtaken /\ ~Hand
    BY <1>1, <1>7, OutsideBounds
  <2>2. ~ \E until \in 1..MaxTime : TurnOn(until)
    BY <1>7, OutsideFacts DEF TurnOn, Outside
  <2>3. CASE HostTick
    BY <1>1, <1>3, <2>1, <2>2, <2>3, TickFindsAnother
  <2>4. CASE ~HostTick
    <3>1. UNCHANGED <<found, overtaken, host>>
      BY <1>7, <2>1, <2>4 DEF Outside, Forget, ApiReads, ApiSets, HostBreaks, RecordRots, helper,
         world, ticking
    <3> QED
      BY <1>4, <2>1, <2>2, <3>1
  <2> QED
    BY <2>3, <2>4
<1> QED
  BY <1>2, <1>5, <1>6, <1>7, StepKinds

\* Nobody has been promised anything.
LEMMA SessionInit == Init => SInv
<1> SUFFICES ASSUME Init
             PROVE  SInv
  OBVIOUS
<1>1. IInv
  BY InitKeeps
<1>2. TurningOn /\ IsMarking /\ ApiCarriesAlong /\ PromiseHolds /\ TickFound
  BY DEF Init, TurningOn, IsMarking, ApiCarriesAlong, PromiseHolds, Promised, NoWork,
     Pressing, Marking, Armed, Stored, TickFound, Asked
<1> QED
  BY <1>1, <1>2 DEF SInv

\* Every step, part by part.
LEMMA SessionStep == SInv /\ [Next]_vars => SInv'
BY NextKeeps, TurningOnStep, MarkingStep, ApiStep, PromiseStep, TickFoundStep DEF SInv

\* What a promised session rests on, in every run: the turn-on before it, the host's
\* record, the marker, a change over the API and Jen's own entry agree, and the tick has
\* decided on no record of it - until one acts on a record it had not decided on.
THEOREM SessionInvariant == Spec => []SInv
BY SessionInit, SessionStep, PTL DEF Spec

\* A window that Jen said is on stays on until the deadline it named, whatever sweeps,
\* changes over the API, crashes of Jen and ticks of the host come between (StoreOn of
\* turn_on, helper build 20): the one way to an early end is a tick of _self_restore that
\* tests the deadline of one record and, under the lock, restores or saves over another.
THEOREM HostKeepsItsSession == Spec => []HostKeepsSession
<1>1. SInv => HostKeepsSession
  <2> SUFFICES ASSUME SInv, Promised
               PROVE  Unresolved /\ host.until >= session /\ Carries(file)
    BY DEF HostKeepsSession, SessionHolds, Promised
  <2>1. Unresolved /\ host.until = session /\ Carries(file)
    BY DEF SInv, PromiseHolds
  <2>2. session \in Nat
    BY WindowAssumption DEF SInv, IInv, TypeOK, Times, EndTime
  <2> QED
    BY <2>1, <2>2
<1> QED
  BY <1>1, SessionInvariant, PTL

-----------------------------------------------------------------------------
(* A window forgotten.  Jen drops its entry for what one look at the       *)
(* daemon says, several steps after the file was put back; what it drops   *)
(* is gone from both as long as no marker of the same deadline comes back  *)
(* meanwhile.  A change over the API in flight brings one back, and        *)
(* DroppedWhenRestored speaks of runs without one.                         *)

\* No marker of the deadline is on the logger.
Off(l, until) == until # 0 => l.until # until

\* The steps of a sweep before it acts, and of a restore until the file is done
\* and after.
Sweeping == {"status", "rearm", "due", "disowned", "again"}
Restoring == {"disarm", "clear"}
FileDone == {"settled", "lookAfter", "lookClean", "phase", "verify", "restart",
             "restartInstead", "lookFailed", "drop"}
\* The step Jen is at, and the one it goes on to when its entry is stored, or the
\* host told off.
Ahead == {pc} \cup (IF pc \in {"put", "abandon"} THEN {w.next} ELSE {})

\* What an entry says of the file and of the host's record is so.
IsTrue(e, f, h) ==
  /\ e.until = 0 => ~e.armed /\ e.file = "debug"
  /\ e.file = "restored" \/ (e.armed /\ h.done) => Off(f, e.until)

\* A record that is done left no marker of its own, and none came back.
DoneIsOff == host.done => Off(file, host.until) /\ Off(daemon, host.until)
\* A marker is of a logger at DEBUG.
Markers == /\ Carries(file) => file.level = "debug"
           /\ Carries(daemon) => daemon.level = "debug"
\* A damaged record is rebuilt before anything else.
Damaged == damaged => entry.until = 0 /\ pc \in {"idle", "examine", "rebuild"}

\* A turn-on marks the file with a deadline that the host, its tick and the entry have
\* nothing of; what it takes back is off the file.
ReadyToMark(step) ==
  /\ step = "write" =>
       /\ w.e.until \notin {host.until, found.until, entry.until}
       /\ entry.file = "debug" /\ w.held = entry
  /\ step \in {"revert", "lookBack", "dropOn", "put"} => w.e.until # 0
  /\ step = "revert" => w.e.file = "debug"
  /\ step = "lookBack" /\ w.e.file = "restored" => ~Carries(file)
  /\ step = "dropOn" => ~Carries(file) /\ ~Carries(daemon)

\* A sweep is of the entry there is, or of a record that is damaged.
ReadyToSweep(step) ==
  /\ step \in {"examine", "rebuild"} => damaged
  /\ step \in Sweeping => w.e.until # 0
  /\ step \in Sweeping \cup {"scan"} =>
       w.e.until = entry.until /\ w.held.until = 0 /\ w.now # 0 /\ w.now # Always

\* What a restore passes over is off the file, or not due; what it has passed is off
\* the file; and what Jen forgets, off the daemon too.
ReadyToRestore(step) ==
  /\ step \in Restoring =>
       /\ w.now # 0
       /\ entry.until \in {0, w.e.until} \/ file.until \in {0, w.e.until}
       /\ BySweep => /\ entry.until \in {0, w.e.until}
                     /\ w.e.until <= w.now \/ file.until <= w.now \/ Off(file, w.e.until)
  /\ step = "disarm" => w.e.armed
  /\ step \in FileDone =>
       w.e.until # 0 /\ w.e.file = "restored" /\ Off(file, entry.until)
  /\ step = "drop" => pc = "drop" /\ Off(daemon, entry.until)

Ready(step) == ReadyToMark(step) /\ ReadyToSweep(step) /\ ReadyToRestore(step)

\* In a run without a change over the API.
Calm == /\ api = NoLogger
        /\ IsTrue(entry, file, host) /\ IsTrue(w.e, file, host)
        /\ IsTrue(w.held, file, host)
        /\ DoneIsOff /\ Markers /\ Damaged
        /\ \A step \in Ahead : Ready(step)

DInv == changes = 0 => Calm

-----------------------------------------------------------------------------
(* What happens to the file, the daemon and the host.                      *)

\* Markers only ever go off the file and the daemon, and the host's record stays, goes,
\* is opened again, perhaps as the tick had read it, or is restored.
Moves ==
  /\ file' = file \/ ~Carries(file')
  /\ daemon' = daemon \/ daemon' = file' \/ ~Carries(daemon')
  /\ \/ host' = host \/ host' = NoRecord
     \/ ~host'.done /\ host'.until \in {host.until, found.until}
     \/ host'.until = host.until /\ ~Carries(file') /\ ~Carries(daemon')
  /\ found'.until \in {found.until, host.until, 0}

\* _restore_locked, of a record that is not restored yet.
LEMMA HostRestoresMove ==
  ASSUME IInv, NEW ok, HostRestores(ok), Unresolved, found'.until \in {found.until, 0}
  PROVE  Moves /\ (ok => host'.done /\ ~Carries(file'))
<1>1. /\ file' = file \/ ~Carries(file')
      /\ daemon' = daemon \/ daemon' = file'
  BY PuttingBackUnmarks DEF HostRestores
<1>2. /\ \A how : Done(how).until = host.until /\ Done(how).done = TRUE
      /\ \A how : Spent(Done(how)).until = host.until /\ Spent(Done(how)).done = TRUE
      /\ Spent(host).until = host.until /\ Spent(host).done = FALSE /\ host.done = FALSE
  BY DEF Done, Spent, Unresolved, IInv, TypeOK, Record
<1>3. ok => host'.done /\ ~Carries(file')
  BY <1>2, PuttingBackUnmarks DEF HostRestores
<1>4. CASE host' = host \/ host' = Spent(host)
  BY <1>1, <1>2, <1>3, <1>4 DEF Moves
<1>5. CASE ~ (host' = host \/ host' = Spent(host))
  <2>1. /\ file' = PutBack(file, host.was) /\ daemon' = file'
        /\ host' = Done("reload") \/ host' = Spent(Done("restart"))
    BY <1>5 DEF HostRestores
  <2> QED
    BY <1>1, <1>2, <1>3, <2>1, PuttingBackUnmarks DEF Moves
<1> QED
  BY <1>3, <1>4, <1>5

\* investigation-disarm: "restored" says that a marker of the record is off the file.
LEMMA DisarmMoves ==
  ASSUME IInv, NEW answer, DisarmAsked(answer), found' = found
  PROVE  /\ Moves
         /\ answer = "restored" =>
              host'.done /\ (~Carries(file') \/ (file' = file /\ host' = host))
<1>1. CASE /\ Unresolved
           /\ \E ok \in BOOLEAN : HostRestores(ok)
                                /\ answer = IF ok THEN "restored" ELSE "failed"
  BY <1>1, HostRestoresMove
<1>2. CASE \/ UNCHANGED <<file, daemon, host>> /\ (answer = "restored" => host.done)
           \/ /\ Unresolved /\ answer = "failed" /\ file' = PutBack(file, host.was)
              /\ daemon' = file' /\ host' = Done("reload")
  <2>1. Done("reload").until = host.until
    BY DEF Done, IInv, TypeOK, Record
  <2> QED
    BY <1>2, <2>1, PuttingBackUnmarks DEF Moves
<1> QED
  BY <1>1, <1>2 DEF DisarmAsked

\* Every step but those that mark the file or arm the host.
LEMMA MostStepsMove ==
  ASSUME IInv, api = NoLogger, changes' = 0, [Next]_vars,
         ~ (Write \/ Arm \/ Rearm)
  PROVE  Moves
<1>1. CASE Step
  <2>1. CASE Abandon \/ Disarm
    BY <2>1, DisarmMoves DEF Abandon, Disarm, world, ticking
  <2>2. CASE ~ (Abandon \/ Disarm)
    <3>1. host' = host /\ found' = found
      BY <1>1, <2>2 DEF world, ticking, Step, Put, Store, Reload, LookOn, StoreOn, Revert,
         LookBack, Drop, Settled, ClearMarked, ClearNothing, LookClean, Phase, Verify,
         RestartKea, LookFailed, Examine, Rebuild, Status, Due, Again, Scan
    <3>2. file' = file \/ ~Carries(file')
      BY <1>1, <2>2, PuttingBackUnmarks
         DEF Step, Put, Store, Reload, LookOn, StoreOn, Revert, LookBack, Drop,
         Settled, ClearMarked, ClearNothing, LookClean, Phase, Verify, RestartKea, LookFailed,
         Examine, Rebuild, Status, Due, Again, Scan
    <3>3. daemon' = daemon \/ daemon' = file'
      BY <1>1, <2>2
         DEF Step, Put, Store, Reload, LookOn, StoreOn, Revert, LookBack, Drop,
         Settled, ClearMarked, ClearNothing, LookClean, Phase, Verify, RestartKea, LookFailed,
         Examine, Rebuild, Status, Due, Again, Scan
    <3> QED
      BY <3>1, <3>2, <3>3 DEF Moves
  <2> QED
    BY <2>1, <2>2
<1>2. CASE HostTick
  <2>1. /\ Reopened(found).until = found.until /\ Reopened(found).done = FALSE
        /\ NoRecord.until = 0
    BY DEF Reopened, NoRecord, IInv, TypeOK, Record
  <2>2. CASE TickReads
    BY <2>2 DEF TickReads, Moves, kea
  <2>3. CASE TickReopens
    BY <2>1, <2>3 DEF TickReopens, TickEnds, Moves, kea
  <2>4. CASE TickRestores
    <3>1. found' = NoRecord
      BY <2>4 DEF TickRestores, TickEnds
    <3>2. CASE Unresolved /\ \E ok \in BOOLEAN : HostRestores(ok)
      BY <2>1, <3>1, <3>2, HostRestoresMove
    <3>3. CASE /\ UNCHANGED <<file, daemon>>
               /\ host' = host \/ host' = Reopened(found)
      BY <2>1, <3>1, <3>3 DEF Moves
    <3> QED
      BY <2>4, <3>2, <3>3 DEF TickRestores
  <2> QED
    BY <1>2, <2>2, <2>3, <2>4 DEF HostTick
<1>3. CASE Hand
  BY <1>3, PuttingBackUnmarks DEF Hand, Moves, ticking, Carries, Plain
<1>4. CASE ApiReads \/ ApiSets
  BY <1>4 DEF ApiReads, ApiSets, IInv, TypeOK
<1>5. CASE ~ (Step \/ HostTick \/ Hand \/ ApiReads \/ ApiSets)
  <2>1. UNCHANGED <<file, daemon, host, found>>
    BY <1>5 DEF Next, TurnOn, TurnOff, Sweep, Forget, HostBreaks, RecordRots, Crash, Dies, Tick,
       vars, kea, helper, world, ticking
  <2> QED
    BY <2>1 DEF Moves
<1> QED
  BY <1>1, <1>2, <1>3, <1>4, <1>5

\* What an entry says stays true.
LEMMA TruthMoves ==
  ASSUME Moves, NEW e, IsTrue(e, file, host)
  PROVE  IsTrue(e, file', host')
BY DEF Moves, IsTrue, Off, Carries, Unresolved, NoRecord

\* What is written into it besides says nothing of the file or the host.
LEMMA TruthPasses ==
  ASSUME NEW e, NEW e2, NEW f, NEW h, IsTrue(e, f, h),
         e2.until = e.until, e2.file = e.file, e2.armed => e.armed
  PROVE  IsTrue(e2, f, h)
BY DEF IsTrue

\* A record that is done stays without markers of its own.
LEMMA DoneMoves ==
  ASSUME Moves, DoneIsOff, Markers
  PROVE  DoneIsOff' /\ Markers'
BY DEF Moves, DoneIsOff, Markers, Off, Carries, Unresolved, NoRecord

-----------------------------------------------------------------------------
(* How the holder of the lock goes on.                                     *)

\* The numbers there are.
LEMMA TheNumbers ==
  ASSUME IInv
  PROVE  /\ w \in Work /\ w.e \in Entry /\ w.held \in Entry /\ entry \in Entry
         /\ \A e \in Entry : e.until \in Nat /\ e.armed \in BOOLEAN
         /\ clock \in Nat /\ clock < Always /\ w.now \in Nat
         /\ file.until \in Nat /\ daemon.until \in Nat /\ host.until \in Nat
         /\ found.until \in Nat
         /\ Always # 0
BY WindowAssumption
   DEF IInv, TypeOK, Job, OurEntries, OurLoggers, OurRecords, Entry, Logger, Record, Work, Times,
       EndTime, Always

\* What Jen writes into an entry besides its deadline, arming and file.
LEMMA EntryFields ==
  ASSUME NEW e \in Entry
  PROVE  /\ \A what : /\ Owing(e, what).until = e.until /\ Owing(e, what).file = e.file
                      /\ Owing(e, what).armed = e.armed
         /\ StillOwing(e).until = e.until /\ StillOwing(e).file = e.file
         /\ StillOwing(e).armed = e.armed
         /\ Refolded(e).until = e.until /\ Refolded(e).file = e.file
         /\ Refolded(e).armed = e.armed
         /\ Counted(e).until = e.until /\ Counted(e).file = e.file
         /\ Counted(e).armed = e.armed
         /\ \A seen \in Observable(e) : /\ seen \in Entry /\ seen.until = e.until
                                        /\ seen.file = e.file /\ seen.armed = e.armed
         /\ Back(e) \in Entry /\ Back(e).until = e.until /\ Back(e).file = "restored"
         /\ Back(e).armed = e.armed
BY DEF Owing, StillOwing, Refolded, Counted, Observable, Back, Entry

\* A daemon seen to be restored carries no marker.
LEMMA SeenIsOff ==
  ASSUME NEW e \in Entry, NEW seen, Observe(e, seen), seen.daemon = "restored"
  PROVE  ~Carries(daemon)
BY DEF Observe, Seen, Entry

\* The steps nothing has to be ready for.
Easy == {"idle", "abandon", "store", "reload", "lookOn", "storeOn", "undo"}
\* They are ready whatever the state.
LEMMA EasySteps == \A step \in Easy : Ready(step)
BY DEF Easy, Ready, ReadyToMark, ReadyToSweep, ReadyToRestore, Sweeping, Restoring, FileDone

\* What is ready stays so while nobody but the host and a hand moves.
LEMMA ReadyMoves ==
  ASSUME IInv, TurningOn, Moves,
         NEW step, Ready(step), step \in {"write", "drop"} => pc = step,
         w' = w, entry' = entry, damaged' = damaged, step = "drop" => pc' = pc
  PROVE  Ready(step)'
<1>1. /\ file'.until = file.until \/ file'.until = 0
      /\ file' = file \/ ~Carries(file')
      /\ daemon' = daemon \/ daemon' = file' \/ ~Carries(daemon')
  BY DEF Moves, Carries
<1>2. ReadyToMark(step)'
  <2>1. CASE step = "write"
    <3>1. /\ w.e.until # 0 /\ w.e.until \notin {host.until, found.until, entry.until}
          /\ entry.file = "debug" /\ w.held = entry
      BY <2>1, TheNumbers DEF TurningOn, Pressing, Ready, ReadyToMark
    <3>2. host'.until \in {host.until, found.until, 0}
      BY DEF Moves, NoRecord
    <3>3. w.e.until \notin {host'.until, found'.until, entry'.until}
      BY <3>1, <3>2 DEF Moves
    <3> QED
      BY <2>1, <3>1, <3>3 DEF ReadyToMark
  <2>2. CASE step # "write"
    BY <1>1, <2>2 DEF Ready, ReadyToMark, Carries
  <2> QED
    BY <2>1, <2>2
<1>3. ReadyToSweep(step)'
  BY DEF Ready, ReadyToSweep
<1>4. ReadyToRestore(step)'
  BY <1>1, TheNumbers DEF Ready, ReadyToRestore, Off, BySweep, Carries, FileDone
<1> QED
  BY <1>2, <1>3, <1>4 DEF Ready

\* What Jen has in hand is true, and it is ready for its next steps.
Truths == IsTrue(w.e, file, host) /\ IsTrue(w.held, file, host)
Goes == Truths /\ \A step \in Ahead : Ready(step)

\* A new entry, and none, say nothing yet.
LEMMA NewEntriesAreTrue ==
  /\ \A f, h : IsTrue(NoEntry, f, h) /\ IsTrue(NoWork.e, f, h) /\ IsTrue(NoWork.held, f, h)
  /\ \A until, was : /\ EntryFor(until, was).until = until
                     /\ EntryFor(until, was).file = "debug"
                     /\ ~EntryFor(until, was).armed
                     /\ \A f, h : IsTrue(EntryFor(until, was), f, h)
BY DEF IsTrue, NoEntry, EntryFor, NoWork

\* A next step, and a write of the settings before it.
LEMMA GoingOn ==
  ASSUME w \in Work, IsTrue(w.held, file', host'),
         NEW step, NEW e, IsTrue(e, file', host'),
         (Goto(step, e) /\ step \notin {"put", "abandon"}) \/ PutThen(step, e)
  PROVE  /\ Truths' /\ Ahead' \subseteq {"put", step}
         /\ w'.e = e /\ w'.held = w.held /\ w'.now = w.now /\ pc' \in {"put", step}
         /\ Goto(step, e) => pc' = step /\ Ahead' = {step}
<1>1. w'.held = w.held
  BY DEF Goto, PutThen, Work
<1> QED
  BY <1>1, GotoFacts, PutFacts DEF Truths, Ahead

\* The end of an operation,
LEMMA Stopping ==
  ASSUME Stop
  PROVE  Goes'
BY NewEntriesAreTrue, EasySteps DEF Stop, Goes, Truths, Ahead, NoWork, Ready, ReadyToMark,
   ReadyToSweep, ReadyToRestore, Sweeping, Restoring, FileDone

\* ... with a write of the settings,
LEMMA PuttingLast ==
  ASSUME w \in Work, IsTrue(w.held, file', host'), NEW e, IsTrue(e, file', host'),
         e.until # 0, PutThen("idle", e)
  PROVE  Goes'
<1>1. Truths' /\ Ahead' \subseteq {"put", "idle"} /\ w'.e = e
  BY GoingOn
<1> QED
  BY <1>1 DEF Goes, Ready, ReadyToMark, ReadyToSweep, ReadyToRestore, Sweeping, Restoring,
     FileDone

\* ... a step nothing has to be ready for,
LEMMA GoingEasily ==
  ASSUME w \in Work, IsTrue(w.held, file', host'),
         NEW step \in Easy \ {"abandon"}, NEW e, IsTrue(e, file', host'), Goto(step, e)
  PROVE  Goes'
<1>1. Truths' /\ Ahead' = {step}
  BY GoingOn DEF Easy
<1> QED
  BY <1>1 DEF Goes, Easy, Ready, ReadyToMark, ReadyToSweep, ReadyToRestore, Sweeping,
     Restoring, FileDone

\* ... and a restore, of an entry that is due or off the file.
LEMMA GoingToRestore ==
  ASSUME w \in Work, IsTrue(w.held, file', host'), NEW e, IsTrue(e, file', host'),
         NEW now, now # 0, RestoreAt(e, now),
         entry'.until \in {0, e.until} \/ file'.until \in {0, e.until},
         now # Always => /\ entry'.until \in {0, e.until}
                         /\ e.until <= now \/ file'.until <= now \/ Off(file', e.until)
  PROVE  Goes'
<1>1. /\ pc' \in Restoring /\ (pc' = "disarm" => e.armed) /\ w'.e = e /\ w'.now = now
      /\ w'.held = w.held
  BY DEF RestoreAt, Work, Restoring
<1>2. Truths' /\ Ahead' = {pc'}
  BY <1>1 DEF Truths, Ahead, Restoring
<1> QED
  BY <1>1, <1>2 DEF Goes, Ready, ReadyToMark, ReadyToSweep, ReadyToRestore, Sweeping,
     Restoring, FileDone, BySweep

\* A step of Jen that neither marks the file nor arms the host: what it says and
\* what it stores stays true.
LEMMA StepsKeepTruth ==
  ASSUME IInv, TurningOn, Calm, changes' = 0, Step, ~ (Write \/ Arm \/ Rearm)
  PROVE  /\ Moves /\ DoneIsOff' /\ Markers' /\ Damaged' /\ api' = NoLogger
         /\ IsTrue(entry, file, host)'
         /\ \A e : IsTrue(e, file, host) => IsTrue(e, file', host')
<1>1. Moves /\ api' = NoLogger
  BY MostStepsMove, StepsPromiseLast DEF Calm, Next
<1>2. DoneIsOff' /\ Markers' /\ \A e : IsTrue(e, file, host) => IsTrue(e, file', host')
  BY <1>1, DoneMoves, TruthMoves DEF Calm
<1>3. IsTrue(entry', file, host)
  <2>1. CASE Store
    BY <2>1, TheNumbers, EntryFields, TruthPasses DEF Store, Calm
  <2>2. CASE Drop
    BY <2>2, NewEntriesAreTrue DEF Drop, Calm
  <2>3. CASE ~ (Store \/ Drop)
    <3>1. entry' = entry \/ entry' = w.e
      BY <2>3 DEF Step, Put, Abandon, Write, Arm, Reload, LookOn, StoreOn, Revert, LookBack,
         Disarm, Settled, ClearMarked, ClearNothing, LookClean, Phase, Verify, RestartKea,
         LookFailed, Examine, Rebuild, Status, Rearm, Due, Again, Scan, store
    <3> QED
      BY <3>1 DEF Calm
  <2> QED
    BY <2>1, <2>2, <2>3
<1>4. Damaged'
  <2>1. CASE Examine
    <3>1. pc' \in {"idle", "rebuild"} /\ damaged' = damaged /\ entry' = entry
      BY <2>1 DEF Examine, Stop, Goto, store
    <3> QED
      BY <3>1 DEF Damaged, Calm
  <2>2. CASE Rebuild
    <3>1. pc' = "idle" /\ (damaged' => UNCHANGED store)
      BY <2>2 DEF Rebuild, Stop
    <3> QED
      BY <3>1 DEF Damaged, Calm, store
  <2>3. CASE ~ (Examine \/ Rebuild)
    <3>1. pc \notin {"idle", "examine", "rebuild"} /\ damaged' = damaged
      BY <2>3 DEF Step, Put, Abandon, Write, Arm, Store, Reload, LookOn, StoreOn, Revert,
         LookBack, Drop, Disarm, Settled, ClearMarked, ClearNothing, LookClean, Phase, Verify,
         RestartKea, LookFailed, Status, Rearm, Due, Again, Scan, store
    <3> QED
      BY <3>1 DEF Calm, Damaged
  <2> QED
    BY <2>1, <2>2, <2>3
<1> QED
  BY <1>1, <1>2, <1>3, <1>4

-----------------------------------------------------------------------------
(* The steps of Jen, one by one.                                           *)

\* What the holder of the lock has in hand at such a step.
LEMMA InHand ==
  ASSUME IInv, TurningOn, Calm, changes' = 0, Step, ~ (Write \/ Arm \/ Rearm)
  PROVE  /\ w \in Work /\ w.e \in Entry /\ w.e.until \in Nat
         /\ \A step \in Ahead : Ready(step)
         /\ IsTrue(w.e, file, host) /\ IsTrue(w.e, file', host') /\ IsTrue(w.held, file', host')
         /\ \A e, e2 : /\ IsTrue(e, file', host')
                       /\ e2.until = e.until /\ e2.file = e.file /\ (e2.armed => e.armed)
                       => IsTrue(e2, file', host')
BY StepsKeepTruth, TheNumbers, TruthPasses DEF Calm

\* _put_entry stores what it was given, or Jen stays with the entry it had.
LEMMA PutGoes ==
  ASSUME IInv, TurningOn, Calm, changes' = 0, Put
  PROVE  Goes'
<1> Step /\ ~ (Write \/ Arm \/ Rearm)
  BY DEF Step, Put, Write, Arm, Rearm
<1>1. CASE Stop
  BY <1>1, Stopping
<1>2. CASE ~Stop
  <2>1. /\ pc = "put" /\ Goto(w.next, w.e) /\ w.next # "write"
        /\ UNCHANGED <<file, daemon, host, damaged>>
        /\ entry' = w.e \/ entry' = entry
    BY <1>2 DEF Put, IInv, Job
  <2>2. Ready(w.next) /\ Ready("put")
    BY <2>1 DEF Calm, Ahead
  <2>3. Truths' /\ Ahead' = {w.next} /\ w'.e = w.e /\ w'.held = w.held /\ w'.now = w.now
    BY <2>1, InHand, GotoFacts DEF Truths, Ahead, Goto, Work
  <2>4. Off(file, w.e.until) \/ w.next \notin FileDone
    BY <2>2 DEF Calm, IsTrue, Ready, ReadyToRestore
  <2>5. ASSUME NEW step, step = w.next
        PROVE  Ready(step)'
    <3>1. ReadyToMark(step)'
      BY <2>1, <2>2, <2>3, <2>5, TheNumbers DEF Ready, ReadyToMark, Carries
    <3>2. ReadyToSweep(step)'
      BY <2>1, <2>2, <2>3, <2>5 DEF Ready, ReadyToSweep
    <3>3. ReadyToRestore(step)'
      BY <2>1, <2>2, <2>3, <2>4, <2>5
         DEF Ready, ReadyToRestore, BySweep, FileDone, Restoring
    <3> QED
      BY <3>1, <3>2, <3>3 DEF Ready
  <2> QED
    BY <2>3, <2>5 DEF Goes
<1> QED
  BY <1>1, <1>2

\* The host is told off, and its record may end under the operation's feet.
LEMMA AbandonGoes ==
  ASSUME IInv, TurningOn, Calm, changes' = 0, Abandon
  PROVE  Goes'
<1> Step /\ ~ (Write \/ Arm \/ Rearm)
  BY DEF Step, Abandon, Write, Arm, Rearm
<1>1. CASE Stop
  BY <1>1, Stopping
<1>2. CASE ~Stop
  <2>1. /\ pc = "abandon" /\ Goto(w.next, w.e) /\ w.next # "write"
        /\ entry' = entry /\ damaged' = damaged
    BY <1>2 DEF Abandon, IInv, Job, store
  <2>2. Ready(w.next) /\ Moves
    BY <2>1, StepsKeepTruth DEF Calm, Ahead
  <2>3. Truths' /\ Ahead' = {w.next} /\ w'.e = w.e /\ w'.held = w.held /\ w'.now = w.now
    BY <2>1, InHand, GotoFacts DEF Truths, Ahead, Goto, Work
  <2>4. w.next # "drop"
    BY <2>1, <2>2 DEF Ready, ReadyToRestore
  <2>5. ASSUME NEW step, step = w.next
        PROVE  Ready(step)'
    <3>1. /\ file'.until = file.until \/ file'.until = 0
          /\ file' = file \/ ~Carries(file')
          /\ daemon' = daemon \/ daemon' = file' \/ ~Carries(daemon')
      BY <2>2 DEF Moves, Carries
    <3>2. ReadyToMark(step)'
      BY <2>1, <2>2, <2>3, <2>5, <3>1 DEF Ready, ReadyToMark, Carries
    <3>3. ReadyToSweep(step)'
      BY <2>1, <2>2, <2>3, <2>5 DEF Ready, ReadyToSweep
    <3>4. ReadyToRestore(step)'
      BY <2>1, <2>2, <2>3, <2>4, <2>5, <3>1, TheNumbers
         DEF Ready, ReadyToRestore, BySweep, FileDone, Restoring, Off
    <3> QED
      BY <3>2, <3>3, <3>4 DEF Ready
  <2> QED
    BY <2>3, <2>5 DEF Goes
<1> QED
  BY <1>1, <1>2

\* The entry of a turn-on is stored, or the turn-on is undone.
LEMMA StoreGoes ==
  ASSUME IInv, TurningOn, Calm, changes' = 0, Store
  PROVE  Goes'
<1> Step /\ ~ (Write \/ Arm \/ Rearm)
  BY DEF Step, Store, Write, Arm, Rearm
<1>1. CASE Goto("reload", Owing(w.e, "reload"))
  BY <1>1, InHand, EntryFields, GoingEasily DEF Easy
<1>2. CASE ~ Goto("reload", Owing(w.e, "reload"))
  <2>1. pc' = "undo" /\ w' = w
    BY <1>2 DEF Store
  <2>2. Ahead' = {"undo"} /\ Truths'
    BY <2>1, InHand DEF Ahead, Truths
  <2> QED
    BY <2>2 DEF Goes, Ready, ReadyToMark, ReadyToSweep, ReadyToRestore, Sweeping, Restoring,
       FileDone
<1> QED
  BY <1>1, <1>2

\* What a turn-on takes back.
LEMMA GoingBack ==
  ASSUME IInv, TurningOn, Calm, IsTrue(w.held, file', host'),
         pc \in Marking, IsMarking, NEW e, IsTrue(e, file', host'), w' \in Work,
         e.until = w.e.until, e.file = w.e.file,
         pc' = "revert" \/ (pc' = "abandon" /\ w'.next = "revert"),
         w'.e = e, w'.held = w.held
  PROVE  Goes'
<1>1. w.e.until # 0 /\ w.e.file = "debug"
  BY TheNumbers DEF TurningOn, IsMarking, Marking
<1>2. Ahead' \subseteq {"revert", "abandon"} /\ Truths'
  BY DEF Ahead, Truths
<1> QED
  BY <1>1, <1>2 DEF Goes, Ready, ReadyToMark, ReadyToSweep, ReadyToRestore, Sweeping, Restoring,
     FileDone

\* The daemon takes the marker, or the turn-on is taken back.
LEMMA ReloadGoes ==
  ASSUME IInv, TurningOn, IsMarking, Calm, changes' = 0, Reload
  PROVE  Goes'
<1> Step /\ ~ (Write \/ Arm \/ Rearm) /\ pc \in Marking
  BY DEF Step, Reload, Write, Arm, Rearm, Marking, Pressing
<1>1. CASE Goto("lookOn", w.e)
  BY <1>1, InHand, GoingEasily DEF Easy
<1>2. CASE Goto("revert", w.e)
  <2>1. pc' = "revert" /\ w' \in Work /\ w'.e = w.e /\ w'.held = w.held
    BY <1>2, InHand DEF Goto, Work
  <2> QED
    BY <2>1, InHand, GoingBack
<1> QED
  BY <1>1, <1>2 DEF Reload

\* A turn-on looks whether the daemon has it.
LEMMA LookOnGoes ==
  ASSUME IInv, TurningOn, IsMarking, Calm, changes' = 0, LookOn
  PROVE  Goes'
<1> Step /\ ~ (Write \/ Arm \/ Rearm) /\ pc \in Marking
  BY DEF Step, LookOn, Write, Arm, Rearm, Marking, Pressing
<1>1. PICK seen \in Observable(w.e) : LookOn!2!(seen)
  BY Zenon DEF LookOn
<1>2. /\ seen \in Entry /\ seen.until = w.e.until /\ seen.file = w.e.file
      /\ IsTrue(seen, file', host')
  BY InHand, EntryFields
<1>3. ASSUME NEW what, Goto("storeOn", Owing(seen, what))
      PROVE  Goes'
  <2>1. IsTrue(Owing(seen, what), file', host')
    <3>1. /\ Owing(seen, what).until = seen.until /\ Owing(seen, what).file = seen.file
          /\ Owing(seen, what).armed = seen.armed
      BY <1>2, EntryFields
    <3> QED
      BY <1>2, <3>1, TruthPasses
  <2> QED
    BY <1>3, <2>1, InHand, GoingEasily DEF Easy
<1>4. ASSUME pc' = "revert",
             w' = [w EXCEPT !.e = seen, !.contradiction = (seen.daemon = "restored")]
      PROVE  Goes'
  <2>1. w' \in Work /\ w'.e = seen /\ w'.held = w.held
    BY <1>2, <1>4, InHand DEF Work
  <2> QED
    BY <1>2, <1>4, <2>1, InHand, GoingBack
<1> QED
  BY <1>1, <1>3, <1>4

\* What it saw is stored; a write that fails puts its own window back at once.
LEMMA StoreOnGoes ==
  ASSUME IInv, TurningOn, IsMarking, Calm, changes' = 0, StoreOn
  PROVE  Goes'
<1> Step /\ ~ (Write \/ Arm \/ Rearm) /\ pc \in Marking
  BY DEF Step, StoreOn, Write, Arm, Rearm, Marking, Pressing
<1>1. CASE Stop
  BY <1>1, Stopping
<1>2. CASE RestoreAt(w.e, Always)
  <2>1. file' = file /\ file.until \in {0, w.e.until}
    BY DEF StoreOn, IsMarking, Carries
  <2> QED
    BY <1>2, <2>1, InHand, TheNumbers, GoingToRestore
<1> QED
  BY <1>1, <1>2 DEF StoreOn

\* The file is put back, or an entry that says DEBUG is kept.
LEMMA RevertGoes ==
  ASSUME IInv, TurningOn, Calm, changes' = 0, Revert
  PROVE  Goes'
<1> Step /\ ~ (Write \/ Arm \/ Rearm)
  BY DEF Step, Revert, Write, Arm, Rearm
<1>1. CASE Stop
  BY <1>1, Stopping
<1>2. CASE ~Stop
  <2>1. /\ pc = "revert"
        /\ \/ file' = Cleared(file) /\ Goto("lookBack", Back(w.e))
           \/ Goto("lookBack", w.e)
    BY <1>2 DEF Revert
  <2>2. w.e.until # 0 /\ w.e.file = "debug"
    BY <2>1, InHand DEF Ahead, Ready, ReadyToMark
  <2>3. \E e : /\ Goto("lookBack", e) /\ e.until # 0
               /\ IsTrue(e, file', host')
               /\ e.file = "restored" => ~Carries(file')
    <3>1. CASE Goto("lookBack", w.e)
      BY <2>2, <3>1, InHand
    <3>2. CASE file' = Cleared(file) /\ Goto("lookBack", Back(w.e))
      <4>1. IsTrue(Back(w.e), file', host')
        BY <2>2, <3>2, InHand, EntryFields, PuttingBackUnmarks DEF IsTrue, Off, Carries
      <4> QED
        BY <2>2, <3>2, <4>1, InHand, EntryFields, PuttingBackUnmarks
    <3> QED
      BY <2>1, <3>1, <3>2
  <2>4. Truths' /\ Ahead' = {"lookBack"} /\ w'.e.until # 0
        /\ (w'.e.file = "restored" => ~Carries(file'))
    BY <2>3, InHand, GoingOn
  <2> QED
    BY <2>4 DEF Goes, Ready, ReadyToMark, ReadyToSweep, ReadyToRestore, Sweeping, Restoring,
       FileDone, Carries
<1> QED
  BY <1>1, <1>2

\* The session of before that goes on is of the deadline the host was armed for.
LEMMA KeptIsTrue ==
  ASSUME NEW seen \in Entry, NEW held \in Entry, NEW f, NEW h,
         IsTrue(seen, f, h), IsTrue(held, f, h), ~Carries(f), seen.until # 0, held.until # 0
  PROVE  /\ IsTrue([held EXCEPT !.until = seen.until], f, h) \/ ~seen.armed
         /\ [held EXCEPT !.until = seen.until].until # 0
BY DEF IsTrue, Off, Carries, Entry

\* A turn-on taken back: nothing of it is left, or the entry there was is kept.
LEMMA LookBackGoes ==
  ASSUME IInv, TurningOn, Calm, changes' = 0, LookBack
  PROVE  Goes'
<1> Step /\ ~ (Write \/ Arm \/ Rearm) /\ pc = "lookBack"
  BY DEF Step, LookBack, Write, Arm, Rearm
<1>1. PICK seen \in Observable(w.e) : LookBack!2!(seen)
  BY Zenon DEF LookBack
<1>2. /\ seen \in Entry /\ seen.until = w.e.until /\ seen.file = w.e.file
      /\ IsTrue(seen, file', host') /\ seen.until # 0
      /\ UNCHANGED <<file, daemon, host>>
      /\ seen.file = "restored" => ~Carries(file')
      /\ w.held \in Entry
  <2>1. w.e.until # 0 /\ (w.e.file = "restored" => ~Carries(file))
    BY InHand DEF Ahead, Ready, ReadyToMark
  <2> QED
    BY <2>1, InHand, EntryFields, TheNumbers DEF LookBack
<1>3. ASSUME NEW e, PutThen("idle", e), e.until = seen.until, e.file = seen.file,
             e.armed = seen.armed
      PROVE  Goes'
  BY <1>2, <1>3, TruthPasses, InHand, PuttingLast
<1>4. \A what : /\ Owing(seen, what).until = seen.until /\ Owing(seen, what).file = seen.file
                /\ Owing(seen, what).armed = seen.armed
                /\ Owing(Told(seen), what).until = seen.until
                /\ Owing(Told(seen), what).file = seen.file
                /\ Owing(Told(seen), what).armed = seen.armed
  <2>1. /\ Told(seen) \in Entry /\ Told(seen).until = seen.until
        /\ Told(seen).file = seen.file /\ Told(seen).armed = seen.armed
    BY <1>2 DEF Told, Entry
  <2>2. \A e \in Entry : \A what : /\ Owing(e, what).until = e.until
                                   /\ Owing(e, what).file = e.file
                                   /\ Owing(e, what).armed = e.armed
    BY EntryFields
  <2> HIDE DEF Told
  <2> QED
    BY <1>2, <2>1, <2>2
<1>5. CASE \E e : /\ PutThen("idle", e) /\ e.until = seen.until /\ e.file = seen.file
                  /\ e.armed = seen.armed
  BY <1>3, <1>5
<1>6. CASE seen.file = "restored" /\ StillRunning(w.held) /\ PutThen("idle", Kept(seen))
  <2>1. IsTrue(Kept(seen), file', host') /\ Kept(seen).until # 0
    <3>1. w.held.until # 0 /\ IsTrue(w.held, file', host') /\ ~Carries(file')
      BY <1>2, <1>6, InHand DEF StillRunning
    <3> QED
      BY <1>2, <3>1, KeptIsTrue DEF Kept
  <2> QED
    BY <1>6, <2>1, InHand, PuttingLast
<1>7. CASE /\ seen.file = "restored" /\ seen.daemon = "restored" /\ pc' = "dropOn"
           /\ w' = [w EXCEPT !.e = seen, !.wasArmed = seen.armed]
  <2>1. w'.e = seen /\ w'.held = w.held
    BY <1>7, InHand DEF Work
  <2>2. ~Carries(file) /\ ~Carries(daemon)
    BY <1>1, <1>2, <1>7, InHand, SeenIsOff
  <2>3. Ahead' = {"dropOn"} /\ Truths'
    BY <1>2, <1>7, <2>1, InHand DEF Ahead, Truths
  <2> QED
    BY <1>2, <2>1, <2>2, <2>3 DEF Goes, Ready, ReadyToMark, ReadyToSweep, ReadyToRestore,
       Sweeping, Restoring, FileDone, Carries
<1> QED
  BY <1>1, <1>4, <1>5, <1>6, <1>7

\* An entry is forgotten: the operation ends.
LEMMA DropGoes ==
  ASSUME IInv, TurningOn, Calm, changes' = 0, Drop
  PROVE  Goes'
<1> Step /\ ~ (Write \/ Arm \/ Rearm)
  BY DEF Step, Drop, Write, Arm, Rearm
<1>1. CASE Stop
  BY <1>1, Stopping
<1>2. CASE pc' = "abandon" /\ w' = [w EXCEPT !.next = "idle"]
  <2>1. Truths' /\ Ahead' = {"abandon", "idle"}
    BY <1>2, InHand DEF Truths, Ahead, Work
  <2> QED
    BY <2>1 DEF Goes, Ready, ReadyToMark, ReadyToSweep, ReadyToRestore, Sweeping, Restoring,
       FileDone
<1>3. CASE pc = "dropOn" /\ PutThen("idle", w.e)
  <2>1. w.e.until # 0
    BY <1>3, InHand DEF Ahead, Ready, ReadyToMark
  <2> QED
    BY <1>3, <2>1, InHand, PuttingLast
<1> QED
  BY <1>1, <1>2, <1>3 DEF Drop

\* A restore after the file: its next steps are ready as long as the file is rid of
\* the deadlines of both the entry that is stored and the one in hand.
LEMMA GoingOnRestored ==
  ASSUME w \in Work, IsTrue(w.held, file', host'), NEW e, IsTrue(e, file', host'),
         e.until # 0, e.file = "restored", Off(file', entry'.until),
         NEW step \in (FileDone \ {"drop"}) \cup {"idle"},
         \/ Goto(step, e)
         \/ pc' = "put" /\ w'.e = e /\ w'.held = w.held /\ w'.next = step
  PROVE  Goes'
<1>1. Ahead' \subseteq {"put", step} /\ Truths' /\ w'.e = e
  <2>1. CASE Goto(step, e)
    BY <2>1, GoingOn DEF FileDone
  <2>2. CASE pc' = "put" /\ w'.e = e /\ w'.held = w.held /\ w'.next = step
    BY <2>2 DEF Ahead, Truths
  <2> QED
    BY <2>1, <2>2
<1> QED
  BY <1>1 DEF Goes, Ready, ReadyToMark, ReadyToSweep, ReadyToRestore, Sweeping, Restoring,
     FileDone

\* The host puts the file back itself, is told off, or is not heard of.
LEMMA DisarmGoes ==
  ASSUME IInv, TurningOn, Calm, changes' = 0, Disarm
  PROVE  Goes'
<1> Step /\ ~ (Write \/ Arm \/ Rearm) /\ pc = "disarm"
  BY DEF Step, Disarm, Write, Arm, Rearm
<1>1. PICK answer : Disarm!2!(answer)
  BY Zenon DEF Disarm
<1>2. /\ entry' = entry /\ damaged' = damaged
      /\ Moves /\ (answer = "restored" =>
                     host'.done /\ (~Carries(file') \/ (file' = file /\ host' = host)))
      /\ Ready("disarm") /\ w.e.armed /\ w.e.until # 0
  <2>1. Ready("disarm")
    BY InHand DEF Ahead
  <2>2. w.e.armed
    BY <2>1 DEF Ready, ReadyToRestore
  <2> QED
    BY <1>1, <2>1, <2>2, DisarmMoves, InHand DEF Disarm, world, ticking, store, IsTrue
<1>3. CASE answer = "restored"
  <2> DEFINE e == IF host'.how = "restart" THEN Refolded(OffTheHost(w.e))
                  ELSE OffTheHost(w.e)
  <2>1. /\ e.until = w.e.until /\ e.file = "restored" /\ e.armed = FALSE /\ e \in Entry
    <3>1. /\ OffTheHost(w.e).until = w.e.until /\ OffTheHost(w.e).file = "restored"
          /\ OffTheHost(w.e).armed = FALSE /\ OffTheHost(w.e) \in Entry
      <4>1. Owing(Back(w.e), "reload") \in Entry
        BY InHand DEF Owing, Back, Entry
      <4>2. /\ Owing(Back(w.e), "reload").until = w.e.until
            /\ Owing(Back(w.e), "reload").file = "restored"
        BY InHand, EntryFields
      <4> QED
        BY <4>1, <4>2 DEF OffTheHost, Entry
    <3>2. /\ Refolded(OffTheHost(w.e)).until = OffTheHost(w.e).until
          /\ Refolded(OffTheHost(w.e)).file = OffTheHost(w.e).file
          /\ Refolded(OffTheHost(w.e)).armed = OffTheHost(w.e).armed
          /\ Refolded(OffTheHost(w.e)) \in Entry
      BY <3>1, EntryFields DEF Refolded, Entry
    <3> QED
      BY <3>1, <3>2
  <2>2. Off(file', w.e.until) /\ Off(file', entry.until)
    <3>1. Off(file', w.e.until)
      BY <1>2, <1>3, InHand DEF IsTrue, Off, Carries
    <3>2. entry.until \in {0, w.e.until} \/ file.until \in {0, w.e.until}
      BY <1>2 DEF Ready, ReadyToRestore, Restoring
    <3> QED
      BY <1>2, <1>3, <3>1, <3>2 DEF Off, Carries
  <2>3. pc' = "put" /\ w'.e = e /\ w'.held = w.held /\ w'.next = "settled"
    <3>1. /\ pc' = "put"
          /\ w' = [w EXCEPT !.e = e, !.wasArmed = FALSE, !.next = "settled"]
      BY <1>1, <1>3
    <3> HIDE DEF e
    <3> QED
      BY <3>1, InHand DEF Work
  <2> HIDE DEF e
  <2>4. IsTrue(e, file', host')
    BY <1>2, <2>1, <2>2 DEF IsTrue
  <2> QED
    BY <1>2, <2>1, <2>2, <2>3, <2>4, InHand, GoingOnRestored DEF FileDone
<1>4. CASE Goto("clear", w.e)
  <2>1. /\ Truths' /\ Ahead' = {"clear"} /\ w'.e = w.e /\ w'.held = w.held /\ w'.now = w.now
    BY <1>4, InHand, GoingOn
  <2>2. /\ w.now # 0
        /\ entry.until \in {0, w.e.until} \/ file.until \in {0, w.e.until}
        /\ BySweep => /\ entry.until \in {0, w.e.until}
                      /\ w.e.until <= w.now \/ file.until <= w.now \/ Off(file, w.e.until)
    BY <1>2 DEF Ready, ReadyToRestore, Restoring
  <2>3. file'.until = file.until \/ file'.until = 0
    BY <1>2 DEF Moves, Carries
  <2> QED
    BY <1>2, <2>1, <2>2, <2>3, TheNumbers DEF Goes, Ready, ReadyToMark, ReadyToSweep,
       ReadyToRestore, Sweeping, Restoring, FileDone, BySweep, Off
<1> QED
  BY <1>1, <1>3, <1>4

\* A look at the daemon after the file is done.
LEMMA LookingRestored ==
  ASSUME IInv, TurningOn, Calm, changes' = 0, Step, ~ (Write \/ Arm \/ Rearm),
         pc \in FileDone, UNCHANGED <<file, daemon, entry>>, NEW seen \in Observable(w.e)
  PROVE  /\ seen \in Entry /\ seen.until # 0 /\ seen.file = "restored"
         /\ IsTrue(seen, file', host') /\ Off(file', entry'.until)
         /\ \A what : /\ Owing(seen, what).until # 0 /\ Owing(seen, what).file = "restored"
                      /\ IsTrue(Owing(seen, what), file', host')
         /\ StillOwing(seen).until # 0 /\ StillOwing(seen).file = "restored"
         /\ IsTrue(StillOwing(seen), file', host')
<1>1. w.e.until # 0 /\ w.e.file = "restored" /\ Off(file, entry.until)
  BY InHand DEF Ahead, Ready, ReadyToRestore
<1>2. /\ seen \in Entry /\ seen.until = w.e.until /\ seen.file = w.e.file
      /\ IsTrue(seen, file', host')
  BY InHand, EntryFields
<1>3. \A e : e.until = seen.until /\ e.file = seen.file /\ e.armed = seen.armed
             => IsTrue(e, file', host')
  BY <1>2, TruthPasses
<1> QED
  BY <1>1, <1>2, <1>3, EntryFields

\* _finish: what is dropped is off the daemon that was just seen.
LEMMA FinishGoes ==
  ASSUME IInv, TurningOn, Calm, changes' = 0, Step, ~ (Write \/ Arm \/ Rearm),
         pc \in FileDone, UNCHANGED <<file, daemon, entry>>,
         NEW seen \in Observable(w.e), Observe(w.e, seen), Finish(seen)
  PROVE  Goes'
<1>1. CASE \E what : PutThen("idle", Owing(seen, what))
  BY <1>1, LookingRestored, InHand, PuttingLast
<1>2. CASE PutThen("idle", StillOwing(seen))
  BY <1>2, LookingRestored, InHand, PuttingLast
<1>3. CASE SeenRestored(seen) /\ Goto("drop", seen)
  <2>1. ~Carries(daemon) /\ seen.until # 0 /\ seen.file = "restored" /\ Off(file', entry'.until)
    BY <1>3, InHand, SeenIsOff, LookingRestored DEF SeenRestored
  <2>2. Truths' /\ Ahead' = {"drop"} /\ w'.e = seen /\ pc' = "drop"
    BY <1>3, InHand, LookingRestored, GoingOn
  <2> QED
    BY <2>1, <2>2 DEF Goes, Ready, ReadyToMark, ReadyToSweep, ReadyToRestore, Sweeping,
       Restoring, FileDone, Carries, Off
<1> QED
  BY <1>1, <1>2, <1>3 DEF Finish

\* The host had put the file back: one look at the daemon.
LEMMA SettledGoes ==
  ASSUME IInv, TurningOn, Calm, changes' = 0, Settled
  PROVE  Goes'
<1> /\ Step /\ ~ (Write \/ Arm \/ Rearm) /\ pc \in FileDone
    /\ UNCHANGED <<file, daemon, entry>>
  BY DEF Step, Settled, Write, Arm, Rearm, FileDone, store
<1>1. PICK seen \in Observable(w.e) : Settled!2!(seen)
  BY Zenon DEF Settled
<1>2. CASE pc' = "phase" /\ w' = [w EXCEPT !.e = seen, !.fresh = TRUE]
  <2>1. Ahead' = {"phase"} /\ Truths' /\ w'.e = seen
    BY <1>2, InHand, LookingRestored DEF Ahead, Truths, Work
  <2> QED
    BY <2>1, LookingRestored DEF Goes, Ready, ReadyToMark, ReadyToSweep, ReadyToRestore,
       Sweeping, Restoring, FileDone
<1>3. CASE Finish(seen)
  BY <1>1, <1>3, FinishGoes
<1> QED
  BY <1>1, <1>2, <1>3

\* An entry the sweep makes for what it found, or the one there is.
LEMMA IndexedIsTrue ==
  ASSUME IInv, clock # 0, w.now # 0, NEW e \in Entry, NEW was \in Levels, NEW f, NEW h,
         IsTrue(e, f, h)
  PROVE  /\ Indexed(e, was).until # 0 /\ IsTrue(Indexed(e, was), f, h)
         /\ Indexed(e, was) \in Entry
<1>1. CASE e.until # 0
  BY <1>1 DEF Indexed, Entry, IsTrue
<1>2. CASE e.until = 0
  <2>1. Indexed(e, was) = EntryFor(IF BySweep THEN w.now ELSE clock, was)
    BY <1>2 DEF Indexed
  <2>2. (IF BySweep THEN w.now ELSE clock) \in Times \ {0}
    BY NowIsATime DEF BySweep, IInv, TypeOK
  <2>3. EntryFor(IF BySweep THEN w.now ELSE clock, was) \in Entry
    BY <2>2, WindowAssumption DEF EntryFor, Entry
  <2> QED
    BY <2>1, <2>2, <2>3, NewEntriesAreTrue
<1> QED
  BY <1>1, <1>2

\* A restore that failed.
LEMMA FailedGoes ==
  ASSUME IInv, TurningOn, Calm, changes' = 0, Step, ~ (Write \/ Arm \/ Rearm),
         w.now # 0, Failed(w.e)
  PROVE  Goes'
<1>1. CASE Stop
  BY <1>1, Stopping
<1>2. CASE PutThen("idle", Indexed(w.e, "none"))
  <2>1. clock # 0 /\ "none" \in Levels
    BY TheNumbers DEF TurningOn, Levels
  <2> QED
    BY <1>2, <2>1, InHand, IndexedIsTrue, PuttingLast
<1> QED
  BY <1>1, <1>2 DEF Failed

\* The marker of a window that is due is taken off the file.
LEMMA ClearMarkedGoes ==
  ASSUME IInv, TurningOn, Calm, changes' = 0, ClearMarked
  PROVE  Goes'
<1> Step /\ ~ (Write \/ Arm \/ Rearm) /\ pc = "clear"
  BY DEF Step, ClearMarked, Write, Arm, Rearm
<1> DEFINE made == Indexed(w.e, file.was)
           back == Back(made)
<1>1. w.now # 0 /\ clock # 0 /\ file.was \in Levels /\ entry' = entry
  <2>1. w.now # 0
    BY InHand DEF Ahead, Ready, ReadyToRestore, Restoring
  <2> QED
    BY <2>1, TheNumbers DEF TurningOn, IInv, TypeOK, Logger, ClearMarked, store
<1>2. \/ /\ file' = Cleared(file) /\ pc' = "put"
         /\ w' = [w EXCEPT !.e = Owing(back, "reload"), !.next = "phase", !.fresh = TRUE]
      \/ file' = Cleared(file) /\ Goto("lookAfter", Refolded(Owing(back, "none")))
      \/ Failed(w.e)
      \/ w.e.until # 0 /\ PutThen("idle", Refolded(w.e))
  BY Zenon DEF ClearMarked
<1>3. made \in Entry /\ made.until # 0
  BY <1>1, InHand, IndexedIsTrue
<1> HIDE DEF made
<1>4. \A e : e \in {Owing(back, "reload"), Refolded(Owing(back, "none"))} =>
        e.until = made.until /\ e.file = "restored" /\ e.armed = made.armed /\ e \in Entry
  <2>1. /\ back \in Entry /\ back.until = made.until /\ back.file = "restored"
        /\ back.armed = made.armed
    BY <1>3, EntryFields
  <2> HIDE DEF back
  <2>2. \A what \in {"none", "reload"} :
          /\ Owing(back, what) \in Entry /\ Owing(back, what).until = made.until
          /\ Owing(back, what).file = "restored" /\ Owing(back, what).armed = made.armed
    BY <2>1, EntryFields DEF Owing, Entry
  <2> DEFINE done == Owing(back, "none")
  <2>3. /\ done \in Entry /\ done.until = made.until
        /\ done.file = "restored" /\ done.armed = made.armed
    BY <2>2
  <2> HIDE DEF done
  <2>4. /\ Refolded(done) \in Entry /\ Refolded(done).until = made.until
        /\ Refolded(done).file = "restored" /\ Refolded(done).armed = made.armed
    BY <2>3, EntryFields DEF Refolded, Entry
  <2> QED
    BY <2>2, <2>4 DEF done
<1>5. ASSUME NEW e, e.until = made.until, e.file = "restored", e.armed = made.armed,
             file' = Cleared(file)
      PROVE  IsTrue(e, file', host') /\ Off(file', entry'.until) /\ e.until # 0
  <2>1. file'.until = 0
    BY <1>5, PuttingBackUnmarks DEF Carries
  <2>2. IsTrue(made, file', host')
    BY <1>1, InHand, IndexedIsTrue DEF made
  <2> QED
    BY <1>3, <1>5, <2>1, <2>2 DEF IsTrue, Off
<1> HIDE DEF back
<1>6. CASE /\ file' = Cleared(file) /\ pc' = "put"
           /\ w' = [w EXCEPT !.e = Owing(back, "reload"), !.next = "phase", !.fresh = TRUE]
  <2>1. w'.e = Owing(back, "reload") /\ w'.held = w.held /\ w'.next = "phase"
    BY <1>6, InHand DEF Work
  <2> QED
    BY <1>4, <1>5, <1>6, <2>1, InHand, GoingOnRestored DEF FileDone
<1>7. CASE file' = Cleared(file) /\ Goto("lookAfter", Refolded(Owing(back, "none")))
  BY <1>4, <1>5, <1>7, InHand, GoingOnRestored DEF FileDone
<1>8. CASE w.e.until # 0 /\ PutThen("idle", Refolded(w.e))
  BY <1>8, InHand, EntryFields, PuttingLast
<1> QED
  BY <1>1, <1>2, <1>6, <1>7, <1>8, FailedGoes

\* A file without a marker, or with one that is not due.
LEMMA ClearNothingGoes ==
  ASSUME IInv, TurningOn, Calm, changes' = 0, ClearNothing
  PROVE  Goes'
<1> Step /\ ~ (Write \/ Arm \/ Rearm) /\ pc = "clear"
  BY DEF Step, ClearNothing, Write, Arm, Rearm
<1>1. /\ w.now # 0 /\ UNCHANGED <<file, host, entry>>
      /\ entry.until \in {0, w.e.until} \/ file.until \in {0, w.e.until}
      /\ BySweep => /\ entry.until \in {0, w.e.until}
                    /\ w.e.until <= w.now \/ file.until <= w.now \/ Off(file, w.e.until)
  BY InHand DEF Ahead, Ready, ReadyToRestore, Restoring, ClearNothing, store
<1>2. /\ Back(w.e) \in Entry /\ Back(w.e).until = w.e.until /\ Back(w.e).file = "restored"
      /\ Back(w.e).armed = w.e.armed
  BY InHand, EntryFields
<1>3. Off(file', w.e.until) /\ Off(file', entry'.until)
  BY <1>1, TheNumbers DEF ClearNothing, Off, Carries
<1>4. w.e.until # 0 => IsTrue(Back(w.e), file', host')
  BY <1>2, <1>3, InHand DEF IsTrue
<1>5. CASE Stop
  BY <1>5, Stopping
<1>6. CASE w.e.until # 0 /\ PutThen("idle", Owing(Back(w.e), "none"))
  <2>1. /\ Owing(Back(w.e), "none").until = Back(w.e).until
        /\ Owing(Back(w.e), "none").file = Back(w.e).file
        /\ Owing(Back(w.e), "none").armed = Back(w.e).armed
    BY <1>2, EntryFields
  <2>2. IsTrue(Owing(Back(w.e), "none"), file', host')
    BY <1>4, <1>6, <2>1, TruthPasses
  <2> QED
    BY <1>2, <1>6, <2>1, <2>2, InHand, PuttingLast
<1>7. CASE w.e.until # 0 /\ Goto("lookClean", Back(w.e))
  BY <1>2, <1>3, <1>4, <1>7, InHand, GoingOnRestored DEF FileDone
<1>8. CASE Failed(w.e)
  BY <1>1, <1>8, FailedGoes
<1> QED
  BY <1>5, <1>6, <1>7, <1>8 DEF ClearNothing

\* A file that was clean already: one look at the daemon.
LEMMA LookCleanGoes ==
  ASSUME IInv, TurningOn, Calm, changes' = 0, LookClean
  PROVE  Goes'
<1> /\ Step /\ ~ (Write \/ Arm \/ Rearm) /\ pc \in FileDone
    /\ UNCHANGED <<file, daemon, entry>>
  BY DEF Step, LookClean, Write, Arm, Rearm, FileDone, store
<1>1. PICK seen \in Observable(w.e) : LookClean!2!(seen)
  BY Zenon DEF LookClean
<1>2. CASE Finish(seen)
  BY <1>1, <1>2, FinishGoes
<1>3. CASE PutThen("idle", Owing(seen, "none")) \/ PutThen("idle", StillOwing(seen))
  BY <1>3, LookingRestored, InHand, PuttingLast
<1>4. CASE /\ pc' = "put"
           /\ w' = [w EXCEPT !.e = StillOwing(seen), !.next = "phase", !.fresh = FALSE]
  <2>1. w'.e = StillOwing(seen) /\ w'.held = w.held /\ w'.next = "phase"
    BY <1>4, InHand DEF Work
  <2> QED
    BY <1>4, <2>1, LookingRestored, InHand, GoingOnRestored DEF FileDone
<1> QED
  BY <1>1, <1>2, <1>3, <1>4

\* The daemon was told to reload: one look whether it did.
LEMMA VerifyGoes ==
  ASSUME IInv, TurningOn, Calm, changes' = 0, Verify
  PROVE  Goes'
<1> /\ Step /\ ~ (Write \/ Arm \/ Rearm) /\ pc \in FileDone
    /\ UNCHANGED <<file, daemon, entry>>
  BY DEF Step, Verify, Write, Arm, Rearm, FileDone, store
<1>1. PICK seen \in Observable(w.e) : Verify!2!(seen)
  BY Zenon DEF Verify
<1>2. CASE Goto("lookAfter", seen) \/ Goto("restartInstead", seen)
  BY <1>2, LookingRestored, InHand, GoingOnRestored DEF FileDone
<1>3. CASE Goto("lookFailed", Owing(seen, "reload"))
  BY <1>3, LookingRestored, InHand, GoingOnRestored DEF FileDone
<1> QED
  BY <1>1, <1>2, <1>3

\* The daemon step failed: one look for the entry that is kept.
LEMMA LookFailedGoes ==
  ASSUME IInv, TurningOn, Calm, changes' = 0, LookFailed
  PROVE  Goes'
<1> /\ Step /\ ~ (Write \/ Arm \/ Rearm) /\ pc \in FileDone
    /\ UNCHANGED <<file, daemon, entry>>
  BY DEF Step, LookFailed, Write, Arm, Rearm, FileDone, store
<1>1. PICK seen \in Observable(w.e) : PutThen("idle", seen)
  BY DEF LookFailed
<1> QED
  BY <1>1, LookingRestored, InHand, PuttingLast

\* _daemon_phase and its restart write into the entry how often they tried.
LEMMA PhaseGoes ==
  ASSUME IInv, TurningOn, Calm, changes' = 0, Phase \/ RestartKea
  PROVE  Goes'
<1> /\ Step /\ ~ (Write \/ Arm \/ Rearm) /\ pc \in FileDone
    /\ UNCHANGED <<file, entry>>
  BY DEF Step, Phase, RestartKea, Write, Arm, Rearm, FileDone, store
<1>1. w.e.until # 0 /\ w.e.file = "restored" /\ Off(file', entry'.until)
  BY InHand DEF Ahead, Ready, ReadyToRestore
<1>2. \A e : e.until = w.e.until /\ e.file = w.e.file /\ e.armed = w.e.armed
             => IsTrue(e, file', host')
  BY InHand
<1>3. ASSUME NEW e, e.until = w.e.until, e.file = w.e.file, e.armed = w.e.armed,
             \/ PutThen("idle", e)
             \/ \E step \in FileDone \ {"drop"} : Goto(step, e)
      PROVE  Goes'
  BY <1>1, <1>2, <1>3, InHand, PuttingLast, GoingOnRestored
<1>4. CASE pc' = "restart" /\ \E owed : w' = [w EXCEPT !.owed = owed]
  <2>1. Ahead' = {"restart"} /\ Truths' /\ w'.e = w.e
    BY <1>4, InHand DEF Ahead, Truths, Work
  <2> QED
    BY <1>1, <2>1 DEF Goes, Ready, ReadyToMark, ReadyToSweep, ReadyToRestore,
       Sweeping, Restoring, FileDone
<1>5. CASE Goto("lookAfter", Counted(w.e)) \/ Goto("verify", Counted(w.e))
  BY <1>3, <1>5, InHand, EntryFields DEF FileDone
<1>6. CASE \E what : PutThen("idle", Owing(w.e, what)) \/ Goto("lookFailed", Owing(w.e, what))
  BY <1>3, <1>6, InHand, EntryFields DEF FileDone
<1>7. ASSUME NEW e, e = [w.e EXCEPT !.restarted = TRUE],
             Goto("lookAfter", e)
      PROVE  Goes'
  <2>1. e.until = w.e.until /\ e.file = w.e.file /\ e.armed = w.e.armed
    BY <1>7, InHand DEF Entry
  <2> QED
    BY <1>3, <1>7, <2>1 DEF FileDone
<1>8. ASSUME NEW e, e = [w.e EXCEPT !.restarted = TRUE, !.pending = w.owed],
             Goto("lookFailed", e)
      PROVE  Goes'
  <2>1. e.until = w.e.until /\ e.file = w.e.file /\ e.armed = w.e.armed
    BY <1>8, InHand DEF Entry
  <2> QED
    BY <1>3, <1>8, <2>1 DEF FileDone
<1>9. CASE Phase
  BY <1>4, <1>5, <1>6, <1>9 DEF Phase
<1>10. CASE RestartKea
  BY <1>6, <1>7, <1>8, <1>10 DEF RestartKea
<1> QED
  BY <1>9, <1>10

-----------------------------------------------------------------------------
(* The steps of a sweep.                                                   *)

\* What a sweep takes over: the marker of the file, or of the daemon alone.
LEMMA AdoptedIsTrue ==
  IsTrue(Adopted, file, host) /\ (Adopted # NoEntry => Adopted.until # 0)
<1>1. CASE Carries(file)
  <2> DEFINE e == [EntryFor(file.until, file.was) EXCEPT
                     !.daemon = Seen(daemon, file.was),
                     !.pending = IF Seen(daemon, file.was) = "debug" THEN "none"
                                 ELSE "reload"]
  <2>1. e.until = file.until /\ e.file = "debug" /\ e.armed = FALSE
    BY DEF EntryFor
  <2>2. Adopted = e
    BY <1>1 DEF Adopted
  <2> HIDE DEF e
  <2> QED
    BY <1>1, <2>1, <2>2 DEF IsTrue, Carries
<1>2. CASE ~Carries(file) /\ Carries(daemon) /\ daemon.level = "debug"
  <2>1. /\ Adopted.until = daemon.until /\ Adopted.file = "restored"
        /\ Adopted.armed = FALSE
    BY <1>2 DEF Adopted, EntryFor
  <2> QED
    BY <1>2, <2>1 DEF IsTrue, Off, Carries
<1>3. CASE ~Carries(file) /\ ~ (Carries(daemon) /\ daemon.level = "debug")
  BY <1>3, NewEntriesAreTrue DEF Adopted
<1> QED
  BY <1>1, <1>2, <1>3

\* A damaged record: the file alone says whether there is a window.
LEMMA ExamineGoes ==
  ASSUME IInv, TurningOn, Calm, changes' = 0, Examine
  PROVE  Goes'
<1> Step /\ ~ (Write \/ Arm \/ Rearm)
  BY DEF Step, Examine, Write, Arm, Rearm
<1>1. CASE Stop
  BY <1>1, Stopping
<1>2. CASE Goto("rebuild", Adopted)
  <2>1. IsTrue(Adopted, file', host') /\ damaged' = damaged /\ damaged
    <3>1. damaged /\ UNCHANGED <<file, host, damaged>>
      BY InHand DEF Examine, Ahead, Ready, ReadyToSweep, store
    <3>2. IsTrue(Adopted, file, host)
      BY AdoptedIsTrue
    <3> QED
      BY <3>1, <3>2
  <2>2. Truths' /\ Ahead' = {"rebuild"}
    BY <1>2, <2>1, InHand, GoingOn
  <2> QED
    BY <2>1, <2>2 DEF Goes, Ready, ReadyToMark, ReadyToSweep, ReadyToRestore, Sweeping,
       Restoring, FileDone
<1> QED
  BY <1>1, <1>2 DEF Examine

\* What the file says becomes the record.
LEMMA RebuildGoes ==
  ASSUME Rebuild
  PROVE  Goes'
BY Stopping DEF Rebuild

\* A sweep goes on to its next step, with the entry there is.
LEMMA SweepingOn ==
  ASSUME IInv, TurningOn, Calm, changes' = 0, Step, ~ (Write \/ Arm \/ Rearm),
         entry' = entry,
         pc \in Sweeping, NEW step \in Sweeping \cup {"scan"},
         NEW e, e.until = w.e.until, IsTrue(e, file', host'),
         Goto(step, e) \/ PutThen(step, e)
  PROVE  Goes'
<1>1. /\ w.e.until # 0 /\ w.e.until = entry.until /\ w.held.until = 0
      /\ w.now # 0 /\ w.now # Always
  BY InHand DEF Ahead, Ready, ReadyToSweep
<1>2. /\ Truths' /\ Ahead' \subseteq {"put", step} /\ w'.e = e /\ w'.held = w.held
      /\ w'.now = w.now
  BY InHand, GoingOn DEF Sweeping
<1> QED
  BY <1>1, <1>2 DEF Goes, Ready, ReadyToMark, ReadyToSweep, ReadyToRestore, Sweeping, Restoring,
     FileDone

\* ... or to a restore.
LEMMA SweepRestores ==
  ASSUME IInv, TurningOn, Calm, changes' = 0, Step, ~ (Write \/ Arm \/ Rearm),
         UNCHANGED <<entry, file>>,
         pc \in Sweeping \cup {"scan"}, RestoreAt(w.e, w.now),
         w.e.until <= w.now \/ file.until <= w.now \/ Off(file, w.e.until)
  PROVE  Goes'
<1>1. w.e.until = entry.until /\ w.now # 0
  BY InHand DEF Ahead, Ready, ReadyToSweep
<1> QED
  BY <1>1, InHand, GoingToRestore

\* A sweep asks the host for its record.
LEMMA StatusGoes ==
  ASSUME IInv, TurningOn, Calm, changes' = 0, Status
  PROVE  Goes'
<1> Step /\ ~ (Write \/ Arm \/ Rearm) /\ pc \in Sweeping
  BY DEF Step, Status, Write, Arm, Rearm, Sweeping
<1>1. UNCHANGED <<file, host, entry>>
  BY DEF Status, store
<1>2. ASSUME NEW armed \in BOOLEAN, Reported(armed),
             armed => Unresolved /\ host.until = w.e.until
      PROVE  Goes'
  <2>1. CASE Goto("due", w.e)
    BY <1>1, <2>1, InHand, SweepingOn DEF Sweeping
  <2>2. CASE PutThen("due", [w.e EXCEPT !.armed = armed])
    <3> DEFINE e == [w.e EXCEPT !.armed = armed]
    <3>1. e.until = w.e.until /\ e.armed = armed /\ e.file = w.e.file
      BY InHand DEF Entry
    <3> HIDE DEF e
    <3>2. w.e.until # 0
      BY InHand DEF Ahead, Ready, ReadyToSweep
    <3>3. IsTrue(e, file, host)
      BY <1>2, <3>1, <3>2, InHand DEF IsTrue, Unresolved
    <3>4. IsTrue(e, file', host')
      BY <1>1, <3>3
    <3> QED
      BY <1>1, <2>2, <3>1, <3>4, SweepingOn DEF e, Sweeping
  <2> QED
    BY <1>2, <2>1, <2>2 DEF Reported
<1>3. CASE Goto("due", w.e) \/ Goto("rearm", w.e)
  BY <1>1, <1>3, InHand, SweepingOn DEF Sweeping
<1>4. CASE IsMine /\ host.done /\ RestoreAt(w.e, w.now)
  <2>1. Off(file, w.e.until)
    BY <1>4 DEF IsMine, Calm, DoneIsOff
  <2> QED
    BY <1>1, <1>4, <2>1, SweepRestores
<1> QED
  BY <1>2, <1>3, <1>4 DEF Status, IsMine

\* A sweep restores an entry that is due, and reloads one that owes it.
LEMMA DueGoes ==
  ASSUME IInv, TurningOn, Calm, changes' = 0, Due
  PROVE  Goes'
<1> Step /\ ~ (Write \/ Arm \/ Rearm) /\ pc \in Sweeping
  BY DEF Step, Due, Write, Arm, Rearm, Sweeping
<1>1. UNCHANGED <<file, host, entry>>
  BY DEF Due, store
<1>2. CASE PutThen("due", w.e) \/ Goto("again", w.e) \/ Goto("scan", w.e)
  BY <1>1, <1>2, InHand, SweepingOn DEF Sweeping
<1>3. CASE (w.e.file = "restored" \/ w.e.until <= w.now) /\ RestoreAt(w.e, w.now)
  <2>1. w.e.until <= w.now \/ Off(file, w.e.until)
    BY <1>3, InHand DEF IsTrue
  <2> QED
    BY <1>1, <1>3, <2>1, SweepRestores
<1>4. CASE Stop
  BY <1>4, Stopping
<1> QED
  BY <1>2, <1>3, <1>4 DEF Due

\* A sweep tries a restore again.
LEMMA AgainGoes ==
  ASSUME IInv, TurningOn, Calm, changes' = 0, Again
  PROVE  Goes'
<1> Step /\ ~ (Write \/ Arm \/ Rearm) /\ pc \in Sweeping
  BY DEF Step, Again, Write, Arm, Rearm, Sweeping
<1>1. UNCHANGED <<file, host, entry>>
  BY DEF Again, store
<1>2. PICK seen \in Observable(w.e) : Again!2!(seen)
  BY Zenon DEF Again
<1> DEFINE e == IF ~Carries(file) THEN StillOwing(Back(seen))
                ELSE IF seen.daemon = "debug" THEN Owing(seen, "none") ELSE seen
<1>3. e.until = w.e.until /\ IsTrue(e, file', host') /\ w.e.until # 0
  <2>1. w.e.until # 0
    BY InHand DEF Ahead, Ready, ReadyToSweep
  <2>2. /\ seen \in Entry /\ seen.until = w.e.until /\ seen.file = w.e.file
        /\ seen.armed = w.e.armed /\ IsTrue(seen, file', host')
    BY InHand, EntryFields
  <2>3. /\ Owing(seen, "none").until = seen.until /\ Owing(seen, "none").file = seen.file
        /\ Owing(seen, "none").armed = seen.armed
        /\ Back(seen) \in Entry /\ Back(seen).until = seen.until
        /\ Back(seen).file = "restored" /\ Back(seen).armed = seen.armed
    BY <2>2, EntryFields
  <2>4. /\ StillOwing(Back(seen)).until = seen.until
        /\ StillOwing(Back(seen)).file = "restored"
        /\ StillOwing(Back(seen)).armed = seen.armed
    BY <2>3, EntryFields
  <2>5. ~Carries(file) => IsTrue(StillOwing(Back(seen)), file', host')
    BY <1>1, <2>1, <2>2, <2>4 DEF IsTrue, Off, Carries
  <2>6. IsTrue(Owing(seen, "none"), file', host')
    BY <2>2, <2>3, TruthPasses
  <2> QED
    BY <2>1, <2>2, <2>3, <2>4, <2>5, <2>6
<1>4. \/ PutThen("scan", e) \/ PutThen("idle", e) \/ Goto("scan", e) \/ Stop
  BY <1>2
<1> HIDE DEF e
<1> QED
  BY <1>1, <1>3, <1>4, InHand, Stopping, PuttingLast, SweepingOn

\* A sweep without an entry adopts the marker it finds.
LEMMA ScanGoes ==
  ASSUME IInv, TurningOn, Calm, changes' = 0, Scan
  PROVE  Goes'
<1> Step /\ ~ (Write \/ Arm \/ Rearm) /\ pc = "scan"
  BY DEF Step, Scan, Write, Arm, Rearm
<1>1. UNCHANGED <<file, host, entry>>
  BY DEF Scan, store
<1>2. CASE Stop
  BY <1>2, Stopping
<1>3. CASE file.until <= w.now /\ RestoreAt(w.e, w.now)
  BY <1>1, <1>3, SweepRestores
<1>4. CASE Carries(file) /\ \E seen \in Observable(EntryFor(file.until, file.was)) :
             \E what : PutThen("idle", Owing(seen, what))
  <2> DEFINE indexed == EntryFor(file.until, file.was)
  <2>1. PICK seen \in Observable(indexed) : \E what : PutThen("idle", Owing(seen, what))
    BY <1>4
  <2>2. indexed \in Entry /\ indexed.until # 0 /\ IsTrue(indexed, file', host')
    BY <1>4, NewEntriesAreTrue, WindowAssumption
       DEF EntryFor, Entry, IInv, TypeOK, Logger, Carries
  <2> HIDE DEF indexed
  <2>3. /\ seen \in Entry /\ seen.until = indexed.until /\ seen.file = indexed.file
        /\ seen.armed = indexed.armed
    BY <2>2, EntryFields
  <2>4. \A what : /\ Owing(seen, what).until = indexed.until
                  /\ Owing(seen, what).file = indexed.file
                  /\ Owing(seen, what).armed = indexed.armed
    BY <2>3, EntryFields
  <2>5. \A what : IsTrue(Owing(seen, what), file', host')
    BY <2>2, <2>4, TruthPasses
  <2> QED
    BY <2>1, <2>2, <2>4, <2>5, InHand, PuttingLast
<1>5. CASE ~Carries(file) /\ w.e.until = 0 /\ Adopted # NoEntry /\ PutThen("clear", Adopted)
  <2>1. IsTrue(Adopted, file', host') /\ Adopted.until # 0 /\ ~Carries(file')
    BY <1>1, <1>5, AdoptedIsTrue
  <2>2. entry.until = 0 /\ w.now # 0
    BY <1>5, InHand DEF Ahead, Ready, ReadyToSweep
  <2>3. Truths' /\ Ahead' \subseteq {"put", "clear"} /\ w'.e = Adopted /\ w'.now = w.now
    BY <1>5, <2>1, InHand, GoingOn
  <2> QED
    BY <1>1, <2>1, <2>2, <2>3 DEF Goes, Ready, ReadyToMark, ReadyToSweep, ReadyToRestore,
       Sweeping, Restoring, FileDone, Carries, Off
<1> QED
  BY <1>2, <1>3, <1>4, <1>5 DEF Scan

-----------------------------------------------------------------------------
(* The steps that mark the file or arm the host.                           *)

\* A new marker, of a deadline nobody else holds.
LEMMA WriteStaysCalm ==
  ASSUME IInv, TurningOn, Calm, changes' = 0, Write
  PROVE  Calm'
<1> DEFINE marked == Marked(file, w.e.until)
           e == EntryFor(w.e.until, marked.was)
<1> Step /\ w \in Work
  BY TheNumbers DEF Step, Write
<1>1. /\ pc = "write" /\ UNCHANGED <<host, entry, damaged>> /\ api' = NoLogger
      /\ Ready("write") /\ w.e.until # 0 /\ ~damaged
  BY TheNumbers, StepsPromiseLast
     DEF Write, store, Calm, Ahead, Damaged, TurningOn, Pressing
<1>2. /\ w.e.until # host.until /\ w.e.until # entry.until
      /\ entry.file = "debug" /\ w.held = entry
  BY <1>1 DEF Ready, ReadyToMark
<1>3. marked.until = w.e.until /\ marked.level = "debug"
  BY DEF Marked
<1>4. file' \in {file, marked} /\ daemon' \in {daemon, file'}
  BY DEF Write
<1> HIDE DEF marked
<1>5. IsTrue(entry, file', host')
  BY <1>1, <1>2, <1>3, <1>4 DEF Calm, IsTrue, Off
<1>6. DoneIsOff' /\ Markers'
  BY <1>1, <1>2, <1>3, <1>4 DEF Calm, DoneIsOff, Markers, Off, Carries
<1>7. \/ Stop
      \/ Goto("arm", [e EXCEPT !.restarted = ~canReload])
      \/ PutThen("idle", Owing(e, "restart"))
  BY DEF Write, marked
<1>8. \A x : x \in {[e EXCEPT !.restarted = ~canReload], Owing(e, "restart")} =>
        x.until = w.e.until /\ IsTrue(x, file', host')
  <2>1. \A x : x \in {[e EXCEPT !.restarted = ~canReload], Owing(e, "restart")} =>
          x.until = w.e.until /\ x.file = "debug" /\ x.armed = FALSE
    BY DEF EntryFor, Owing
  <2> HIDE DEF e
  <2> QED
    BY <1>1, <2>1 DEF IsTrue
<1> HIDE DEF e
<1>9. Goes'
  <2>1. CASE Stop
    BY <2>1, Stopping
  <2>2. CASE PutThen("idle", Owing(e, "restart"))
    BY <1>1, <1>2, <1>5, <1>8, <2>2, PuttingLast
  <2>3. CASE Goto("arm", [e EXCEPT !.restarted = ~canReload])
    <3>1. Truths' /\ Ahead' = {"arm"} /\ w'.e.until = w.e.until /\ w'.held = w.held
      BY <1>1, <1>2, <1>5, <1>8, <2>3, GoingOn
    <3> QED
      BY <1>1, <1>2, <3>1 DEF Goes, Ready, ReadyToMark, ReadyToSweep, ReadyToRestore, Sweeping,
         Restoring, FileDone
  <2> QED
    BY <1>7, <2>1, <2>2, <2>3
<1> QED
  BY <1>1, <1>5, <1>6, <1>9 DEF Calm, Goes, Truths, Damaged

\* investigation-arm: the host's record is the new one or the one there was.
LEMMA ArmedFacts ==
  ASSUME NEW until, NEW was, NEW answer, ArmAsked(until, was, answer)
  PROVE  /\ host' = host \/ (host'.until = until /\ ~host'.done)
         /\ answer = "armed" => host'.until = until /\ ~host'.done
<1>1. ArmedRecord(until, was).until = until /\ ArmedRecord(until, was).done = FALSE
  BY DEF ArmedRecord
<1>2. host' = host \/ host' = ArmedRecord(until, was)
  BY DEF ArmAsked
<1>3. answer = "armed" => host' = ArmedRecord(until, was)
  BY DEF ArmAsked
<1> QED
  BY <1>1, <1>2, <1>3

\* What arming the host leaves true.
LEMMA ArmingStaysTrue ==
  ASSUME IInv, UNCHANGED <<file, daemon>>, Calm,
         host' = host \/ (host'.until = w.e.until /\ ~host'.done)
  PROVE  /\ DoneIsOff' /\ Markers'
         /\ \A e : IsTrue(e, file, host) => IsTrue(e, file', host')
<1>1. DoneIsOff' /\ Markers'
  BY DEF Calm, DoneIsOff, Markers, Off, Carries
<1> QED
  BY <1>1 DEF IsTrue

\* A new record on the host.
LEMMA ArmStaysCalm ==
  ASSUME IInv, TurningOn, IsMarking, Calm, changes' = 0, Arm
  PROVE  Calm'
<1> Step
  BY DEF Step, Arm
<1>1. PICK answer : Arm!2!(answer)
  BY Zenon DEF Arm
<1>2. /\ pc = "arm" /\ pc \in Marking /\ UNCHANGED <<file, daemon, entry, damaged>>
      /\ api' = NoLogger /\ ~damaged /\ Ready("arm")
      /\ w \in Work /\ w.e \in Entry /\ w.held \in Entry /\ entry \in Entry
  BY TheNumbers, StepsPromiseLast
     DEF Arm, store, Calm, Ahead, Damaged, Marking, Pressing
<1>3. /\ host' = host \/ (host'.until = w.e.until /\ ~host'.done)
      /\ answer = "armed" => host'.until = w.e.until /\ ~host'.done
  BY <1>1, ArmedFacts
<1>4. w.e.until # 0
  BY <1>2, TheNumbers DEF TurningOn, Marking
<1>5. /\ DoneIsOff' /\ Markers' /\ IsTrue(entry, file', host')
      /\ IsTrue(w.held, file', host') /\ IsTrue(w.e, file', host')
  BY <1>2, <1>3, ArmingStaysTrue DEF Calm
<1>6. Goes'
  <2>1. CASE /\ answer = "armed"
             /\ Goto(IF canReload THEN "store" ELSE "lookOn", [w.e EXCEPT !.armed = TRUE])
    <3> DEFINE e == [w.e EXCEPT !.armed = TRUE]
    <3>1. e.until = w.e.until /\ e.file = w.e.file /\ w.e.file = "debug"
      BY <1>2 DEF Entry, IsMarking
    <3> HIDE DEF e
    <3>2. IsTrue(e, file', host')
      BY <1>3, <1>4, <2>1, <3>1, TheNumbers DEF IsTrue
    <3> QED
      BY <1>2, <1>5, <2>1, <3>2, GoingEasily DEF e, Easy
  <2>2. CASE pc' = "abandon" /\ w' = [w EXCEPT !.next = "revert"]
    <3>1. w' \in Work /\ w'.e = w.e /\ w'.held = w.held /\ w'.next = "revert"
      BY <1>2, <2>2 DEF Work, Steps
    <3> QED
      BY <1>2, <1>5, <2>2, <3>1, GoingBack
  <2>3. CASE Goto("revert", w.e)
    <3>1. w' \in Work /\ w'.e = w.e /\ w'.held = w.held /\ pc' = "revert"
      BY <1>2, <2>3 DEF Goto, Work
    <3> QED
      BY <1>2, <1>5, <3>1, GoingBack
  <2> QED
    BY <1>1, <2>1, <2>2, <2>3
<1> QED
  BY <1>2, <1>5, <1>6 DEF Calm, Goes, Truths, Damaged

\* The record of the entry there is, armed again by a sweep.
LEMMA RearmStaysCalm ==
  ASSUME IInv, TurningOn, Calm, changes' = 0, Rearm
  PROVE  Calm'
<1> Step
  BY DEF Step, Rearm
<1>1. PICK answer : Rearm!2!(answer)
  BY Zenon DEF Rearm
<1>2. /\ pc = "rearm" /\ UNCHANGED <<file, daemon, entry, damaged>>
      /\ api' = NoLogger /\ ~damaged /\ Ready("rearm")
      /\ w \in Work /\ w.e \in Entry /\ w.held \in Entry /\ entry \in Entry
  BY TheNumbers, StepsPromiseLast DEF Rearm, store, Calm, Ahead, Damaged
<1>3. /\ host' = host \/ (host'.until = w.e.until /\ ~host'.done)
      /\ answer = "armed" => host'.until = w.e.until /\ ~host'.done
  BY <1>1, ArmedFacts
<1>4. /\ w.e.until # 0 /\ w.e.until = entry.until /\ w.held.until = 0
      /\ w.now # 0 /\ w.now # Always
  BY <1>2 DEF Ready, ReadyToSweep, Sweeping
<1>5. /\ DoneIsOff' /\ Markers' /\ IsTrue(entry, file', host')
      /\ IsTrue(w.held, file', host') /\ IsTrue(w.e, file', host')
  BY <1>2, <1>3, ArmingStaysTrue DEF Calm
<1>6. ASSUME NEW e, e.until = w.e.until, IsTrue(e, file', host'),
             Goto("due", e) \/ PutThen("due", e)
      PROVE  Goes'
  <2>1. /\ Truths' /\ Ahead' \subseteq {"put", "due"} /\ w'.e = e /\ w'.held = w.held
        /\ w'.now = w.now
    BY <1>2, <1>5, <1>6, GoingOn
  <2> QED
    BY <1>2, <1>4, <1>6, <2>1 DEF Goes, Ready, ReadyToMark, ReadyToSweep, ReadyToRestore,
       Sweeping, Restoring, FileDone
<1>7. \A armed \in BOOLEAN : /\ [w.e EXCEPT !.armed = armed].until = w.e.until
                             /\ [w.e EXCEPT !.armed = armed].file = w.e.file
                             /\ [w.e EXCEPT !.armed = armed].armed = armed
  BY <1>2 DEF Entry
<1>8. ASSUME NEW armed \in BOOLEAN, Reported(armed), armed => answer = "armed"
      PROVE  Goes'
  <2> DEFINE e == [w.e EXCEPT !.armed = armed]
  <2>1. e.until = w.e.until /\ e.file = w.e.file /\ e.armed = armed
    BY <1>7
  <2>2. Goto("due", w.e) \/ PutThen("due", e)
    BY <1>8 DEF Reported
  <2> HIDE DEF e
  <2>3. IsTrue(e, file', host')
    BY <1>2, <1>3, <1>4, <1>5, <1>8, <2>1, TheNumbers DEF IsTrue
  <2> QED
    BY <1>5, <1>6, <2>1, <2>2, <2>3
<1>9. ASSUME pc' = "abandon", w' = [w EXCEPT !.e.armed = FALSE, !.next = "disowned"]
      PROVE  Goes'
  <2>1. /\ w'.e = [w.e EXCEPT !.armed = FALSE] /\ w'.held = w.held /\ w'.now = w.now
        /\ w'.next = "disowned"
    BY <1>2, <1>9 DEF Work
  <2>2. IsTrue([w.e EXCEPT !.armed = FALSE], file', host')
    BY <1>5, <1>7, TruthPasses
  <2>3. Truths' /\ Ahead' = {"abandon", "disowned"}
    BY <1>5, <1>9, <2>1, <2>2 DEF Truths, Ahead
  <2>4. w'.e.until = w.e.until
    BY <1>7, <2>1
  <2>5. /\ w'.e.until # 0 /\ w'.e.until = entry'.until /\ w'.held.until = 0
        /\ w'.now # 0 /\ w'.now # Always'
    BY <1>2, <1>4, <2>1, <2>4 DEF Always
  <2>6. \A step \in {"abandon", "disowned"} : Ready(step)'
    BY <2>5 DEF Ready, ReadyToMark, ReadyToSweep, ReadyToRestore, Sweeping, Restoring, FileDone
  <2> QED
    BY <2>3, <2>6 DEF Goes
<1>10. Goes'
  <2>1. \/ answer = "armed" /\ Reported(TRUE)
        \/ pc' = "abandon" /\ w' = [w EXCEPT !.e.armed = FALSE, !.next = "disowned"]
        \/ Reported(FALSE)
    BY <1>1
  <2>2. CASE answer = "armed" /\ Reported(TRUE)
    BY <1>8, <2>2
  <2>3. CASE Reported(FALSE)
    BY <1>8, <2>3
  <2>4. CASE pc' = "abandon" /\ w' = [w EXCEPT !.e.armed = FALSE, !.next = "disowned"]
    BY <1>9, <2>4
  <2> QED
    BY <2>1, <2>2, <2>3, <2>4
<1> QED
  BY <1>2, <1>5, <1>10 DEF Calm, Goes, Truths, Damaged

-----------------------------------------------------------------------------
(* The beginnings of an operation, and what happens outside Jen.           *)

\* An operation begins with the entry it finds, and with nothing done.
LEMMA BeginningsStayCalm ==
  ASSUME IInv, TurningOn, Calm, changes' = 0,
         (\E until \in 1..MaxTime : TurnOn(until)) \/ TurnOff \/ Sweep
  PROVE  Calm'
<1>1. /\ UNCHANGED <<file, daemon, host, entry, damaged, api>>
      /\ w \in Work /\ entry \in Entry /\ clock \in Nat /\ pc = "idle"
  BY TheNumbers DEF TurnOn, TurnOff, Sweep, kea, helper, store
<1>2. /\ DoneIsOff' /\ Markers' /\ api' = NoLogger /\ IsTrue(entry, file', host')
      /\ IsTrue(w.held, file', host')
  BY <1>1 DEF Calm, DoneIsOff, Markers, Off, Carries
<1>3. ASSUME NEW until \in 1..MaxTime, TurnOn(until)
      PROVE  Goes' /\ Damaged'
  <2>1. /\ w' = [NoWork EXCEPT !.held = entry, !.e = EntryFor(until, "own")]
        /\ pc' = "write" /\ ~damaged
        /\ until \notin {host.until, found.until, entry.until} /\ found' = found
        /\ entry.until # 0 => entry.file = "debug"
    BY <1>3 DEF TurnOn, FreshDeadline
  <2>2. w'.held = entry /\ w'.e.until = until /\ IsTrue(w'.e, file', host')
    BY <2>1, NewEntriesAreTrue DEF NoWork
  <2>3. until # 0 /\ entry.file = "debug"
    BY <1>1, <1>2, <2>1 DEF IsTrue
  <2>4. Truths' /\ Ahead' = {"write"}
    BY <1>1, <1>2, <2>1, <2>2 DEF Truths, Ahead
  <2> QED
    BY <1>1, <2>1, <2>2, <2>3, <2>4 DEF Goes, Damaged, Ready, ReadyToMark, ReadyToSweep,
       ReadyToRestore, Sweeping, Restoring, FileDone
<1>4. ASSUME TurnOff
      PROVE  Goes' /\ Damaged'
  <2>1. RestoreAt(entry, Always) /\ ~damaged
    BY <1>4 DEF TurnOff
  <2>2. Goes'
    BY <1>1, <1>2, <2>1, TheNumbers, GoingToRestore
  <2> QED
    BY <1>1, <2>1, <2>2 DEF Damaged
<1>5. ASSUME Sweep
      PROVE  Goes' /\ Damaged'
  <2>1. CASE UNCHANGED job
    BY <1>1, <1>2, <2>1 DEF job, Calm, Goes, Truths, Damaged, Ahead, Ready, ReadyToMark,
       ReadyToSweep, ReadyToRestore, Sweeping, Restoring, FileDone
  <2>2. CASE ~UNCHANGED job
    <3>1. /\ w' = [NoWork EXCEPT !.e = entry, !.now = clock, !.full = damaged \/ runs = 0]
          /\ \/ damaged /\ pc' = "examine"
             \/ ~damaged /\ entry.until # 0 /\ pc' \in {"status", "due"}
             \/ ~damaged /\ pc' = "scan"
      BY <1>5, <2>2 DEF Sweep
    <3>2. w'.e = entry /\ w'.held = NoEntry /\ w'.now = clock
      BY <3>1 DEF NoWork
    <3>3. clock # 0 /\ clock # Always
      BY <1>1, TheNumbers DEF TurningOn
    <3>4. Truths' /\ Ahead' = {pc'}
      BY <1>2, <3>1, <3>2, NewEntriesAreTrue DEF Truths, Ahead
    <3>5. NoEntry.until = 0
      BY DEF NoEntry, EntryFor
    <3>6. Damaged'
      BY <1>1, <3>1 DEF Calm, Damaged
    <3> QED
      BY <1>1, <3>1, <3>2, <3>3, <3>4, <3>5, <3>6 DEF Goes, Ready, ReadyToMark, ReadyToSweep,
         ReadyToRestore, Sweeping, Restoring, FileDone
  <2> QED
    BY <2>1, <2>2
<1> QED
  BY <1>2, <1>3, <1>4, <1>5, <1>1 DEF Calm, Goes, Truths

\* Jen's locals stay, or are gone: the entry is forgotten, its record rots, Jen dies,
\* time passes, and what the host and a hand do.
LEMMA OthersStayCalm ==
  ASSUME IInv, TurningOn, Calm, changes' = 0, [Next]_vars, ~Step,
         ~ ((\E until \in 1..MaxTime : TurnOn(until)) \/ TurnOff \/ Sweep)
  PROVE  Calm'
<1>1. /\ Moves /\ DoneIsOff' /\ Markers'
      /\ \A e : IsTrue(e, file, host) => IsTrue(e, file', host')
  <2>1. Moves
    BY MostStepsMove DEF Calm, Step
  <2> QED
    BY <2>1, DoneMoves, TruthMoves DEF Calm
<1>2. /\ api' = NoLogger
      /\ \/ UNCHANGED <<pc, w, entry, damaged>>
         \/ pc = "idle" /\ pc' = "idle" /\ w' = w /\ entry' = NoEntry
         \/ Stop /\ UNCHANGED <<entry, damaged>>
  <2>1. CASE Crash \/ Dies
    BY <2>1 DEF Crash, Dies, job, store
  <2>2. CASE Forget \/ RecordRots
    BY <2>2 DEF Forget, RecordRots, job, world, Calm
  <2>3. CASE ApiReads \/ ApiSets
    BY <2>3 DEF ApiReads, ApiSets, Calm, IInv, TypeOK
  <2>4. CASE HostTick \/ Hand \/ HostBreaks \/ Tick \/ UNCHANGED vars
    BY <2>4 DEF HostTick, TickReads, TickReopens, TickRestores, Hand, HostBreaks, Tick, vars,
       job, store, world, Calm
  <2> QED
    BY <2>1, <2>2, <2>3, <2>4 DEF Next
<1>3. CASE UNCHANGED <<pc, w, entry, damaged>>
  <2>1. Ahead' = Ahead /\ Damaged' /\ w'.next = w.next
    BY <1>3 DEF Ahead, Damaged, Calm
  <2>2. \A step \in Ahead : Ready(step)'
    <3> SUFFICES ASSUME NEW step \in Ahead
                 PROVE  Ready(step)'
      OBVIOUS
    <3>1. Ready(step) /\ (step \in {"write", "drop"} => pc = step)
      <4>1. Ready(step)
        BY DEF Calm
      <4>2. w.next # "write"
        BY DEF IInv, Job
      <4> QED
        BY <4>1, <4>2 DEF Ahead, Ready, ReadyToRestore
    <3> QED
      BY <1>1, <1>3, <3>1, ReadyMoves DEF Calm
  <2> QED
    BY <1>1, <1>2, <1>3, <2>1, <2>2 DEF Calm
<1>4. CASE pc = "idle" /\ pc' = "idle" /\ w' = w /\ entry' = NoEntry
  <2>1. Ahead' = {"idle"}
    BY <1>4 DEF Ahead
  <2>2. IsTrue(entry, file, host)' /\ Damaged'
    BY <1>4, NewEntriesAreTrue DEF Damaged, NoEntry, EntryFor
  <2> QED
    BY <1>1, <1>2, <1>4, <2>1, <2>2 DEF Calm, Ready, ReadyToMark, ReadyToSweep, ReadyToRestore,
       Sweeping, Restoring, FileDone
<1>5. CASE Stop /\ UNCHANGED <<entry, damaged>>
  <2>1. Goes'
    BY <1>5, Stopping
  <2>2. Damaged'
    BY <1>5 DEF Stop, Damaged, Calm
  <2> QED
    BY <1>1, <1>2, <1>5, <2>1, <2>2 DEF Calm, Goes, Truths
<1> QED
  BY <1>2, <1>3, <1>4, <1>5

-----------------------------------------------------------------------------
(* The theorem.                                                            *)

\* No marker, no entry, no record.
LEMMA CalmInit == Init => DInv
BY NewEntriesAreTrue
   DEF Init, DInv, Calm, NoEntry, NoRecord, Plain, Carries, EntryFor, DoneIsOff, Markers, Damaged,
       Ahead, Ready, ReadyToMark, ReadyToSweep, ReadyToRestore, Sweeping, Restoring, FileDone

\* Every step.
LEMMA CalmStep == SInv /\ DInv /\ [Next]_vars => DInv'
<1> SUFFICES ASSUME SInv, DInv, [Next]_vars, changes' = 0
             PROVE  Calm'
  BY DEF DInv, Calm
<1>1. IInv /\ TurningOn /\ IsMarking /\ changes = 0
  <2>1. changes' = changes \/ changes' = changes + 1
    BY DEF Next, Step, Put, Abandon, Write, Arm, Store, Reload, LookOn, StoreOn, Revert,
       LookBack, Drop, Disarm, Settled, ClearMarked, ClearNothing, LookClean, Phase, Verify,
       RestartKea, LookFailed, Examine, Rebuild, Status, Rearm, Due, Again, Scan, TurnOn,
       TurnOff, Sweep, Forget, ApiReads, ApiSets, HostTick, TickReads, TickReopens, TickRestores,
       Hand, HostBreaks, RecordRots, Crash, Dies, Tick, vars, world, bounds
  <2> QED
    BY <2>1 DEF SInv, IInv, TypeOK
<1>2. Calm
  BY <1>1 DEF DInv, Calm
<1>3. CASE Write \/ Arm \/ Rearm
  BY <1>1, <1>2, <1>3, WriteStaysCalm, ArmStaysCalm, RearmStaysCalm
<1>4. CASE Step /\ ~ (Write \/ Arm \/ Rearm)
  <2>1. Goes'
    BY <1>1, <1>2, <1>4, PutGoes, AbandonGoes, StoreGoes, ReloadGoes, LookOnGoes, StoreOnGoes,
       RevertGoes, LookBackGoes, DropGoes, DisarmGoes, SettledGoes, ClearMarkedGoes,
       ClearNothingGoes, LookCleanGoes, PhaseGoes, VerifyGoes, LookFailedGoes, ExamineGoes,
       RebuildGoes, StatusGoes, DueGoes, AgainGoes, ScanGoes
       DEF Step
  <2> QED
    BY <1>1, <1>2, <1>4, <2>1, StepsKeepTruth DEF Calm, Goes, Truths
<1>5. CASE (\E until \in 1..MaxTime : TurnOn(until)) \/ TurnOff \/ Sweep
  BY <1>1, <1>2, <1>5, BeginningsStayCalm
<1>6. CASE /\ ~Step
           /\ ~ ((\E until \in 1..MaxTime : TurnOn(until)) \/ TurnOff \/ Sweep)
  BY <1>1, <1>2, <1>6, OthersStayCalm
<1> QED
  BY <1>3, <1>4, <1>5, <1>6

\* A step that forgets an entry forgets what is off the file and off the daemon.
LEMMA DropsAreRestored ==
  ASSUME SInv, DInv, [Next]_vars, changes = 0,
         entry.until # 0, entry'.until = 0, ~damaged'
  PROVE  file.until # entry.until /\ daemon.until # entry.until
<1> IInv /\ TurningOn /\ Calm
  BY DEF SInv, DInv, Calm
<1>1. CASE Drop
  BY <1>1, TheNumbers
     DEF Drop, Calm, Ahead, Ready, ReadyToMark, ReadyToRestore, FileDone, Off, Carries
<1>2. CASE Forget
  BY <1>2 DEF Forget, Seen, Calm, Markers, Carries
<1>3. ASSUME ~Drop, ~Forget
      PROVE  FALSE
  <2>1. CASE Put
    BY <2>1 DEF Put, Calm, Ahead, Ready, ReadyToMark
  <2>2. CASE Store \/ StoreOn
    <3>1. w.e.until # 0
      BY <2>2, TheNumbers DEF Store, StoreOn, TurningOn, Pressing
    <3>2. Owing(w.e, "reload").until = w.e.until
      BY TheNumbers, EntryFields
    <3>3. entry' \in {w.e, Owing(w.e, "reload"), entry}
      BY <2>2 DEF Store, StoreOn
    <3> QED
      BY <3>1, <3>2, <3>3
  <2>3. CASE Rebuild
    BY <2>3 DEF Rebuild, store, Calm, Damaged, Ahead, Ready, ReadyToSweep
  <2>4. CASE RecordRots
    BY <2>4 DEF RecordRots
  <2>5. CASE ~ (Put \/ Store \/ StoreOn \/ Rebuild \/ RecordRots)
    BY <1>3, <2>5 DEF Next, Step, Abandon, Write, Arm, Reload, LookOn, Revert,
       LookBack, Disarm, Settled, ClearMarked, ClearNothing, LookClean, Phase, Verify,
       RestartKea, LookFailed, Examine, Status, Rearm, Due, Again, Scan, TurnOn, TurnOff, Sweep,
       ApiReads, ApiSets, HostTick, TickReads, TickReopens, TickRestores, Hand, HostBreaks,
       Crash, Dies, Tick, vars, store
  <2> QED
    BY <2>1, <2>2, <2>3, <2>4, <2>5
<1> QED
  BY <1>1, <1>2, <1>3

\* INV-003, for every run without a change over the API: when Jen forgets a window,
\* by a restore that saw the daemon clean (_finish), an attempt it took back
\* (_did_not_take) or a person's word (forget), no marker of that window is on the file
\* or on the daemon, whatever the host, a hand and any failures did since that look.
THEOREM ForgottenWindowsAreRestored == Spec => DroppedWhenRestored
<1>1. SInv /\ DInv /\ [Next]_vars =>
        [entry.until # 0 /\ entry'.until = 0 /\ ~damaged' /\ changes = 0 =>
           file.until # entry.until /\ daemon.until # entry.until]_vars
  BY DropsAreRestored
<1> QED
  BY <1>1, SessionInvariant, CalmInit, CalmStep, PTL DEF Spec, DroppedWhenRestored

=============================================================================
