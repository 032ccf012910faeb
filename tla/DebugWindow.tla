---------------------------- MODULE DebugWindow ----------------------------
(***************************************************************************)
(* Investigation logging (services/investigation_logging.py) and the dead- *)
(* man timer of the Kea host (jen-kea-helper): a window of DEBUG logging   *)
(* on one Kea, which Jen opens and which the button, Jen's sweep or the    *)
(* host's own timer closes.                                                *)
(*                                                                         *)
(* Two actors keep a record of the same window and neither sees the other: *)
(* Jen an entry in its settings, the host a state file.  Both change the   *)
(* logger in the file, and the daemon only when it takes the file.  Every  *)
(* action of Jen below is one remote call or one write of its settings; an *)
(* operation of the helper runs under the lock of the file and is one      *)
(* step.  The timer's tick decides before it has that lock, on the record  *)
(* it read, and so has steps of its own.                                   *)
(***************************************************************************)
EXTENDS Naturals, FiniteSets

CONSTANTS
  MaxTime,     \* bound: the deadline of every window, on a clock of 1, 2, ...
  Reverify,    \* _REVERIFY_WINDOW, in steps of the clock
  ReloadTries, \* RELOAD_TRIES
  FullScan,    \* FULL_SCAN_EVERY
  Reloads,     \* the daemons looked at: with config-reload, without
  MaxTurns,    \* bound: how often a person turns logging on
  MaxOffs,     \* bound: how often a person turns logging off
  MaxChanges,  \* bound: changes of other settings over Kea's API
  Hands,       \* what happens outside Jen: restart, set, unmark, forget
  MaxHands,    \* bound: how often
  Faults,      \* what may fail: store, damage, api, ssh, reload, restart, timer,
               \* stop, state, host, signal, unsaved, crash, death
  MaxFaults    \* bound: how often, the hands' steps included

ASSUME WindowAssumption ==
  /\ MaxTime \in Nat \ {0} /\ Reverify \in Nat
  /\ ReloadTries \in Nat /\ FullScan \in Nat \ {0}
  /\ Reloads \subseteq BOOLEAN
  /\ MaxTurns \in Nat /\ MaxOffs \in Nat /\ MaxChanges \in Nat
  /\ MaxHands \in Nat /\ MaxFaults \in Nat

EndTime == MaxTime + Reverify + 1
Times == 0..EndTime
\* "none": of no logger, or not recorded.
Levels == {"own", "debug", "other", "none"}

\* The kea-dhcp4 logger: its level, and the jen-investigation marker with the
\* deadline (0: there is no marker) and the level to put back.
Logger == [level : Levels, until : Times, was : Levels]
Plain(level) == [level |-> level, until |-> 0, was |-> "own"]
Carries(l) == l.until # 0
NoLogger == Plain("none")

\* Jen's entry; `until` 0: there is none.  `was` "none": it has no restore object.
Entry == [until : Times, was : Levels, armed : BOOLEAN,
          file : {"debug", "restored"},
          daemon : {"debug", "restored", "other", "unknown"},
          pending : {"none", "reload", "restart"}, tries : 0..ReloadTries,
          restarted : BOOLEAN, refolded : BOOLEAN, contradiction : BOOLEAN]
EntryFor(until, was) ==
  [until |-> until, was |-> was, armed |-> FALSE, file |-> "debug",
   daemon |-> "unknown", pending |-> "none", tries |-> 0,
   restarted |-> FALSE, refolded |-> FALSE, contradiction |-> FALSE]
NoEntry == EntryFor(0, "own")
\* What an entry says is left to do for the daemon, and that the file is done.
Owing(e, what) == [e EXCEPT !.pending = what]
StillOwing(e) == IF e.pending = "none" THEN Owing(e, "reload") ELSE e
Back(e) == [e EXCEPT !.file = "restored"]

\* The host's state file; `until` 0: there is none.
Record == [until : Times, was : Levels, done : BOOLEAN,
           how : {"none", "reload", "restart"}, restarts : 0..1]
NoRecord == [until |-> 0, was |-> "own", done |-> FALSE, how |-> "none",
             restarts |-> 0]

VARIABLES
  file,      \* the logger in the configuration file
  daemon,    \* the logger the daemon runs
  canReload, \* the daemon lists config-reload
  host,      \* the host's record of the session
  bad,       \* the host's state file exists and cannot be read
  timer,     \* the host's timer is active
  tick,      \* what the host's tick does next: reopen, restore, or it does not run
  found,     \* the record the tick read and decided on
  entry,     \* what Jen's settings say of the session
  damaged,   \* Jen's record cannot be read
  pc, w,     \* the holder of Jen's lock: its next step and its locals
  api,       \* the logger a change over the API is about to send, or NoLogger
  alive,     \* Jen runs
  clock,
  runs,      \* sweeps, modulo FULL_SCAN_EVERY
  session,   \* history: the deadline a turn-on that said ok has promised, where
             \* the marker was in the file by then (finding 6 of the README)
  overtaken, \* history: since the last turn-on began, a tick acted on a record with
             \* another deadline than the one it decided on
  turns, offs, changes, hands, faults

kea == <<file, daemon, canReload>>
ticking == <<tick, found, overtaken>>
helper == <<host, bad, timer, ticking>>
store == <<entry, damaged>>
job == <<pc, w>>
bounds == <<turns, offs, changes, hands>>
world == <<canReload, bad, ticking, api, alive, clock, runs, bounds>>
vars == <<kea, helper, store, job, api, alive, clock, runs, session, bounds,
          faults>>

\* Where the holder of Jen's lock is: before the remote call, or the write of the
\* settings, of that name.
Steps == {"idle", "put", "abandon", "write", "arm", "store", "reload", "lookOn",
          "storeOn", "revert", "undo", "lookBack", "drop", "dropOn", "disarm",
          "settled", "lookAfter", "clear", "lookClean", "phase", "verify",
          "restart", "restartInstead", "lookFailed", "examine", "rebuild", "status", "rearm",
          "due", "disowned", "again", "scan"}
\* `now` of a restore: the time its sweep began, or, of a person, any time.
Always == EndTime + 1
Work == [e : Entry, held : Entry, now : 0..Always, full : BOOLEAN,
         contradiction : BOOLEAN, wasArmed : BOOLEAN, fresh : BOOLEAN,
         owed : {"none", "reload", "restart"}, next : Steps]
NoWork == [e |-> NoEntry, held |-> NoEntry, now |-> 0, full |-> FALSE,
           contradiction |-> FALSE, wasArmed |-> FALSE, fresh |-> FALSE,
           owed |-> "none", next |-> "idle"]
BySweep == w.now # Always

-----------------------------------------------------------------------------
(* Failures, and how the holder of Jen's lock goes on.                     *)

Fault(kind) == /\ kind \in Faults
               /\ faults + hands < MaxFaults
               /\ faults' = faults + 1
Fine == UNCHANGED faults

Goto(step, e) == pc' = step /\ w' = [w EXCEPT !.e = e]
Stop == pc' = "idle" /\ w' = NoWork

\* _put, where the caller goes on whether or not it was stored.
PutThen(step, e) == pc' = "put" /\ w' = [w EXCEPT !.e = e, !.next = step]
Put == /\ pc = "put"
       /\ \/ Fine /\ entry' = w.e
          \/ Fault("store") /\ UNCHANGED entry
       /\ IF w.next = "idle" THEN Stop ELSE Goto(w.next, w.e)
       /\ UNCHANGED <<file, daemon, host, timer, damaged, session, world>>

\* What config-get shows, against the level recorded as the original one.
Seen(l, was) == IF Carries(l) /\ l.level = "debug" THEN "debug"
                ELSE IF ~Carries(l) /\ (IF was = "none" THEN l.level # "debug"
                                        ELSE l.level = was) THEN "restored"
                ELSE "other"
\* observe: the daemon is read, or did not answer.
Observable(e) == {[e EXCEPT !.daemon = d] : d \in {"debug", "restored", "other", "unknown"}}
Observe(e, seen) ==
  \/ Fine /\ seen = [e EXCEPT !.daemon = Seen(daemon, e.was)]
  \/ Fault("api") /\ seen = [e EXCEPT !.daemon = "unknown"]

\* Mutant: a clean file is taken for a restored daemon (INV-003, before Q158).
FileRestored(seen) == seen.file = "restored"
SeenRestored(seen) == seen.daemon = "restored"

\* Mutant: an extension records the level of the moment as the one to put back.
MarkedAfresh(l, until) == [level |-> "debug", until |-> until, was |-> l.level]
\* set_investigation_logging: the original of a marker that is there is kept.
Marked(l, until) == [level |-> "debug", until |-> until,
                     was |-> IF Carries(l) THEN l.was ELSE l.level]
\* clear_investigation_logging
Cleared(l) == IF Carries(l) THEN Plain(l.was) ELSE l

-----------------------------------------------------------------------------
(* The helper on the Kea host.                                             *)

Unresolved == host.until # 0 /\ ~host.done

\* _restore_logger: put back where the marker is, or the level is still DEBUG.
PutBack(l, was) == IF Carries(l) \/ l.level = "debug" THEN Plain(was) ELSE l

Done(how) == [host EXCEPT !.done = TRUE, !.how = how]
Reopened(record) == [record EXCEPT !.done = FALSE, !.how = "none"]
Spent(record) == [record EXCEPT !.restarts = 1]

\* _restore_locked, of an unresolved record: the file, then the daemon - a signal, or
\* the one restart a record has - and `done` only once the daemon was seen to run the
\* file.  A record whose end could not be saved is saved once more, as a failure.
HostRestores(ok) ==
  \/ Fault("host") /\ ~ok /\ UNCHANGED <<file, daemon, host>>
  \/ /\ file' = PutBack(file, host.was)
     /\ \/ Fine /\ ok /\ daemon' = file' /\ host' = Done("reload")
        \/ Fault("unsaved") /\ ~ok /\ daemon' = file' /\ host' \in {host, Done("reload")}
        \/ /\ daemon # file' /\ Fault("signal")
           /\ \/ host.restarts = 0 /\ ok /\ daemon' = file' /\ host' = Spent(Done("restart"))
              \/ /\ ~ok /\ daemon' \in {daemon, file'}
                 /\ host' \in {host, Spent(host)}

\* _marker_is_the_states
IsTheRecords(l) == Carries(l) /\ l.until = host.until

\* Mutant: a record that was restored is done with (helper build 18).
TickOfUnresolved == Unresolved /\ host.until <= clock
\* _self_restore, _reverify: a record whose deadline has passed, and a restored one, for
\* as long as its window lasts, whose marker is back.
TickIsDue ==
  \/ Unresolved /\ host.until <= clock
  \/ /\ host.done /\ clock <= host.until + Reverify
     /\ IsTheRecords(file) \/ IsTheRecords(daemon)

\* The timer's tick decides on the record as it reads it, without the lock.
TickReads ==
  /\ timer /\ ~bad /\ tick = "none" /\ TickIsDue
  /\ tick' = (IF host.done THEN "reopen" ELSE "restore") /\ found' = host
  /\ UNCHANGED <<kea, host, bad, timer, store, job, api, alive, clock, runs, session,
                 overtaken, bounds, faults>>

\* The tick acts on the record of the moment, or saves the one it read over it.
Overtakes == overtaken' = (overtaken \/ host.until # found.until)
TickEnds == tick' = "none" /\ found' = NoRecord

\* _reverify: the restored record is saved as unresolved, still without the lock.
TickReopens ==
  /\ tick = "reopen"
  /\ \/ /\ Fine /\ host' = Reopened(found) /\ bad' = FALSE /\ Overtakes
        /\ tick' = "restore" /\ UNCHANGED found
     \/ Fault("unsaved") /\ TickEnds /\ UNCHANGED <<host, bad, overtaken>>
  /\ UNCHANGED <<kea, timer, store, job, api, alive, clock, runs, session, bounds>>

\* _restore_state: under the lock the record is read again, for whether it is restored
\* and not for its deadline.  A tick that waits for the lock in vain saves the record
\* it read, with its failure.
TickRestores ==
  /\ tick = "restore" /\ TickEnds
  /\ \/ /\ ~bad /\ Unresolved /\ Overtakes
        /\ \E ok \in BOOLEAN : HostRestores(ok)
        /\ UNCHANGED bad
     \/ /\ bad \/ ~Unresolved
        /\ Fine /\ UNCHANGED <<file, daemon, host, bad, overtaken>>
     \/ /\ Fault("host") /\ host' = Reopened(found) /\ bad' = FALSE /\ Overtakes
        /\ UNCHANGED <<file, daemon>>
  /\ UNCHANGED <<canReload, timer, store, job, api, alive, clock, runs, session, bounds>>

HostTick == TickReads \/ TickReopens \/ TickRestores

\* _arm_host, _arm_locked: with a level to put back; an unresolved record takes
\* the same session again, or later.
Accepts(until, was) ==
  was # "none" /\ ~bad /\ (Unresolved => was = host.was /\ until >= host.until)
\* Mutant: an unresolved record keeps its deadline when the session is extended.
SameRecord(until, was) ==
  IF Unresolved THEN host
  ELSE [until |-> until, was |-> was, done |-> FALSE, how |-> "none", restarts |-> 0]
ArmedRecord(until, was) ==
  [until |-> until, was |-> was, done |-> FALSE, how |-> "none",
   restarts |-> IF Unresolved THEN host.restarts ELSE 0]

\* investigation-arm, asked by Jen: the answer is "armed", "no timer" (the
\* record is written and nothing will fire), "refused" or lost.
ArmAsked(until, was, answer) ==
  \/ /\ Accepts(until, was)
     /\ host' = ArmedRecord(until, was)
     /\ \/ Fine /\ timer' = TRUE /\ answer = "armed"
        \/ Fault("timer") /\ timer' = FALSE /\ answer = "no timer"
        \/ Fault("ssh") /\ timer' = TRUE /\ answer = "lost"
  \/ /\ ~Accepts(until, was) /\ Fine /\ answer = "refused"
     /\ UNCHANGED <<host, timer>>
  \/ Fault("ssh") /\ answer = "lost" /\ UNCHANGED <<host, timer>>

\* investigation-disarm: the same restore as the timer's, now.
DisarmAsked(answer) ==
  \/ /\ Unresolved /\ ~bad
     /\ \E ok \in BOOLEAN : HostRestores(ok) /\ answer = IF ok THEN "restored" ELSE "failed"
  \/ /\ host.done /\ ~bad
     /\ Fine /\ answer = "restored" /\ UNCHANGED <<file, daemon, host>>
  \/ /\ host.until = 0 \/ bad
     /\ Fine /\ answer = "failed" /\ UNCHANGED <<file, daemon, host>>
  \/ Fault("ssh") /\ answer = "failed" /\ UNCHANGED <<file, daemon, host>>
  \/ /\ Unresolved /\ ~bad
     /\ Fault("ssh") /\ answer = "failed"
     /\ file' = PutBack(file, host.was) /\ daemon' = file' /\ host' = Done("reload")

\* _abandon_host_arm: best effort, whatever it answers.
Abandon ==
  /\ pc = "abandon"
  /\ \E answer \in {"restored", "failed"} : DisarmAsked(answer)
  /\ IF w.next = "idle" THEN Stop ELSE Goto(w.next, w.e)
  /\ UNCHANGED <<timer, store, session, world>>

-----------------------------------------------------------------------------
(* Turning logging on.  The change lock keeps a write of the file and a    *)
(* change over the API apart.                                              *)

\* A deadline has seconds: no two turn-ons name the same one.
FreshDeadline(until) == until \notin {host.until, found.until, entry.until}

\* helper_gate: no other session on the host, as far as the host answers.
HelperGate ==
  \/ Fine /\ ~bad /\ (Unresolved => entry.until # 0 /\ entry.was = host.was)
  \/ Fault("ssh")

\* turn_on: only ever an extension.
TurnOn(until) ==
  /\ alive /\ pc = "idle" /\ ~damaged /\ turns < MaxTurns
  /\ until > clock /\ FreshDeadline(until)
  /\ entry.until # 0 =>
       entry.file = "debug" /\ ~entry.contradiction /\ entry.until <= until
  /\ HelperGate
  /\ turns' = turns + 1 /\ session' = 0 /\ overtaken' = FALSE
  /\ pc' = "write"
  /\ w' = [NoWork EXCEPT !.held = entry, !.e = EntryFor(until, "own")]
  /\ UNCHANGED <<kea, host, bad, timer, tick, found, store, api, alive, clock, runs,
                 offs, changes, hands>>

\* _change: a daemon without config-reload is restarted within the change set.
Write ==
  LET until == w.e.until
      marked == Marked(file, until)
      e == EntryFor(until, marked.was)
  IN
  /\ pc = "write" /\ api = NoLogger
  /\ \/ Fault("api") /\ Stop /\ UNCHANGED <<file, daemon>>
     \/ Fault("ssh") /\ Stop /\ file' \in {file, marked} /\ UNCHANGED daemon
     \/ /\ Fine /\ file' = marked
        /\ IF canReload THEN UNCHANGED daemon ELSE daemon' = marked
        /\ Goto("arm", [e EXCEPT !.restarted = ~canReload])
     \/ /\ ~canReload /\ Fault("restart")
        /\ \/ Stop /\ UNCHANGED <<file, daemon>>
           \/ /\ file' \in {file, marked} /\ daemon' \in {daemon, file'}
              /\ PutThen("idle", Owing(e, "restart"))
  /\ UNCHANGED <<host, timer, store, session, world>>

\* turn_on: the host is armed before the daemon is asked to read the file.
Arm ==
  /\ pc = "arm"
  /\ \E answer \in {"armed", "no timer", "refused", "lost"} :
       /\ ArmAsked(w.e.until, w.e.was, answer)
       /\ \/ /\ answer = "armed"
             /\ Goto(IF canReload THEN "store" ELSE "lookOn",
                     [w.e EXCEPT !.armed = TRUE])
          \/ /\ answer = "no timer"
             /\ pc' = "abandon" /\ w' = [w EXCEPT !.next = "revert"]
          \/ answer \in {"refused", "lost"} /\ Goto("revert", w.e)
  /\ UNCHANGED <<file, daemon, store, session, world>>

\* turn_on: the entry is stored before the daemon is asked, or it is not asked.
Store ==
  LET e == Owing(w.e, "reload") IN
  /\ pc = "store"
  /\ \/ Fine /\ entry' = e /\ Goto("reload", e)
     \/ /\ Fault("store") /\ UNCHANGED entry
        /\ pc' = "undo" /\ UNCHANGED w
  /\ UNCHANGED <<file, daemon, host, timer, damaged, session, world>>

\* _daemon_step, allow_restart=False: a reply that is lost may have been a reload.
Reload ==
  /\ pc = "reload"
  /\ \/ Fine /\ daemon' = file /\ Goto("lookOn", w.e)
     \/ Fault("reload") /\ daemon' \in {daemon, file} /\ Goto("revert", w.e)
  /\ UNCHANGED <<file, host, timer, store, session, world>>

\* turn_on: what the daemon shows after the reload, or after the restart.
LookOn ==
  /\ pc = "lookOn"
  /\ \E seen \in Observable(w.e) :
       /\ Observe(w.e, seen)
       /\ \/ /\ seen.daemon \in {"debug", "unknown"}
             /\ Goto("storeOn", Owing(seen,
                  IF ~canReload /\ seen.daemon = "unknown" THEN "reload" ELSE "none"))
          \/ /\ seen.daemon \in {"restored", "other"}
             /\ pc' = "revert"
             /\ w' = [w EXCEPT !.e = seen,
                               !.contradiction = (seen.daemon = "restored")]
  /\ UNCHANGED <<file, daemon, host, timer, store, session, world>>

\* _restore, of the entry in memory.
RestoreAt(e, now) ==
  /\ pc' = IF e.armed THEN "disarm" ELSE "clear"
  /\ w' = [w EXCEPT !.e = e, !.now = now, !.wasArmed = e.armed]

Promise == session' = IF Carries(file) THEN w.e.until ELSE 0

\* turn_on: said to be on, or, unstored, taken off again (_undo_activation) -
\* except where a confirmed reload was not read back.
StoreOn ==
  /\ pc = "storeOn"
  /\ \/ Fine /\ entry' = w.e /\ Promise /\ Stop
     \/ /\ Fault("store") /\ UNCHANGED entry
        /\ IF canReload /\ w.e.daemon = "unknown"
           THEN Promise /\ Stop
           ELSE UNCHANGED session /\ RestoreAt(w.e, Always)
  /\ UNCHANGED <<file, daemon, host, timer, damaged, world>>

\* _revert_file; of an entry that could not be stored nothing more is said.
Revert ==
  /\ pc \in {"revert", "undo"} /\ api = NoLogger
  /\ \/ /\ Fine /\ file' = Cleared(file)
        /\ IF pc = "undo" THEN Stop
           ELSE Goto("lookBack", Back(w.e))
     \/ /\ Fault("ssh") /\ file' \in {file, Cleared(file)}
        /\ IF pc = "undo" THEN Stop ELSE Goto("lookBack", w.e)
  /\ UNCHANGED <<daemon, host, timer, store, session, world>>

\* _still_running: the session that was on before this attempt.
StillRunning(held) ==
  /\ held.until # 0
  /\ \/ held.daemon = "debug"
     \/ held.daemon = "other" /\ held.file = "debug"

\* A daemon that ran the level from before at once, after it took the file.
Told(seen) ==
  IF w.contradiction THEN [seen EXCEPT !.daemon = "other", !.contradiction = TRUE]
  ELSE seen
\* The session of before goes on, to the deadline the host was armed for.
Kept(seen) ==
  IF seen.armed THEN [w.held EXCEPT !.until = seen.until] ELSE w.held

\* _did_not_take, after the file was put back, or was not.
LookBack ==
  /\ pc = "lookBack"
  /\ \E seen \in Observable(w.e) :
       /\ Observe(w.e, seen)
       /\ \/ /\ seen.file = "debug"
             /\ PutThen("idle", Owing(Told(seen), "reload"))
          \/ /\ seen.file = "restored" /\ w.contradiction
             /\ PutThen("idle", Owing(Told(seen), "none"))
          \/ /\ seen.file = "restored" /\ ~w.contradiction
             /\ seen.daemon = "restored"
             /\ IF StillRunning(w.held) THEN PutThen("idle", Kept(seen))
                ELSE /\ pc' = "dropOn"
                     /\ w' = [w EXCEPT !.e = seen, !.wasArmed = seen.armed]
          \/ /\ seen.file = "restored" /\ ~w.contradiction
             /\ seen.daemon # "restored"
             /\ PutThen("idle", Owing(seen,
                               IF seen.daemon = "other" THEN "none" ELSE "reload"))
  /\ UNCHANGED <<file, daemon, host, timer, store, session, world>>

\* _drop, then, where Jen restored what the host was armed for, _abandon_host_arm.
Drop ==
  /\ pc \in {"drop", "dropOn"}
  /\ \/ /\ Fine /\ entry' = NoEntry
        /\ IF w.wasArmed THEN pc' = "abandon" /\ w' = [w EXCEPT !.next = "idle"]
           ELSE Stop
     \/ /\ Fault("store") /\ UNCHANGED entry
        /\ IF pc = "dropOn" THEN PutThen("idle", w.e)
           ELSE IF w.wasArmed THEN pc' = "abandon" /\ w' = [w EXCEPT !.next = "idle"]
           ELSE Stop
  /\ UNCHANGED <<file, daemon, host, timer, damaged, session, world>>

-----------------------------------------------------------------------------
(* Putting the logger back: the button's restore, and the sweep's.         *)

TurnOff ==
  /\ alive /\ pc = "idle" /\ ~damaged /\ offs < MaxOffs
  /\ offs' = offs + 1 /\ session' = 0
  /\ RestoreAt(entry, Always)
  /\ UNCHANGED <<kea, helper, store, api, alive, clock, runs, turns,
                 changes, hands, faults>>

\* The one restart a restore may fold into its change of the file is spent.
Refolded(e) == [e EXCEPT !.restarted = TRUE, !.refolded = TRUE]
\* What the host answers for is done, but for the look at the daemon.
OffTheHost(e) == [Owing(Back(e), "reload") EXCEPT !.armed = FALSE]

\* _restore_via_host
Disarm ==
  /\ pc = "disarm"
  /\ \E answer \in {"restored", "failed"} :
       /\ DisarmAsked(answer)
       /\ \/ /\ answer = "restored"
             /\ pc' = "put"
             /\ w' = [w EXCEPT
                  !.e = IF host'.how = "restart" THEN Refolded(OffTheHost(w.e))
                        ELSE OffTheHost(w.e),
                  !.wasArmed = FALSE, !.next = "settled"]
          \/ answer = "failed" /\ Goto("clear", w.e)
  /\ UNCHANGED <<timer, store, session, world>>

\* _finish, of what the daemon was seen to run.
Finish(seen) ==
  \/ seen.contradiction /\ PutThen("idle", Owing(seen, "none"))
  \/ /\ ~seen.contradiction /\ SeenRestored(seen)
     /\ Goto("drop", seen)
  \/ /\ ~seen.contradiction /\ ~SeenRestored(seen)
     /\ PutThen("idle", IF seen.daemon = "other" THEN Owing(seen, "none")
                        ELSE StillOwing(seen))

\* _settled, and _finish or, at DEBUG still, the bounded daemon step.
Settled ==
  /\ pc \in {"settled", "lookAfter"}
  /\ \E seen \in Observable(w.e) :
       /\ Observe(w.e, seen)
       /\ IF pc = "settled" /\ seen.daemon = "debug"
          THEN pc' = "phase" /\ w' = [w EXCEPT !.e = seen, !.fresh = TRUE]
          ELSE Finish(seen)
  /\ UNCHANGED <<file, daemon, host, timer, store, session, world>>

\* An entry the sweep made for what it found with no entry.
Indexed(e, was) ==
  IF e.until # 0 THEN [e EXCEPT !.was = IF @ = "none" THEN was ELSE @]
  ELSE EntryFor(IF BySweep THEN w.now ELSE clock, was)

\* sweep, turn_off: of a restore that failed, the entry that was there or, of
\* the sweep, one made now.
Failed(e) == IF e.until # 0 \/ BySweep THEN PutThen("idle", Indexed(e, "none"))
             ELSE Stop

\* _restore_core: the marker goes out of the file - with a restart where there
\* is no config-reload, or Kea's API is silent, and the restore has one left.
ClearMarked ==
  LET e == Indexed(w.e, file.was)
      mayRestart == ~BySweep \/ ~w.e.refolded
      back == Back(e)
      Fresh == /\ pc' = "put"
               /\ w' = [w EXCEPT !.e = Owing(back, "reload"),
                                 !.next = "phase", !.fresh = TRUE]
      Folded == /\ daemon' = file'
                /\ Goto("lookAfter", Refolded(Owing(back, "none")))
  IN
  /\ pc = "clear" /\ api = NoLogger
  /\ Carries(file) /\ (BySweep => file.until <= w.now)
  /\ \/ /\ Fine /\ file' = Cleared(file)
        /\ IF canReload \/ ~mayRestart THEN Fresh /\ UNCHANGED daemon
           ELSE Folded
     \/ /\ canReload /\ Fault("api") /\ file' = Cleared(file)
        /\ IF mayRestart THEN Folded ELSE Fresh /\ UNCHANGED daemon
     \/ /\ mayRestart
        /\ IF canReload THEN "restart" \in Faults /\ Fault("api") ELSE Fault("restart")
        /\ file' \in {file, Cleared(file)} /\ daemon' \in {daemon, file'}
        /\ IF w.e.until = 0 THEN Failed(w.e)
           ELSE PutThen("idle", Refolded(w.e))
     \/ /\ Fault("ssh") /\ file' \in {file, Cleared(file)}
        /\ Failed(w.e) /\ UNCHANGED daemon
  /\ UNCHANGED <<host, timer, store, session, world>>

\* _restore_core, "nothing" to write: there is no marker, or it is not due.
ClearNothing ==
  /\ pc = "clear" /\ api = NoLogger
  /\ ~Carries(file) \/ (BySweep /\ file.until > w.now)
  /\ LET back == Back(w.e) IN
     \/ w.e.until = 0 /\ Fine /\ Stop
     \/ /\ w.e.until # 0 /\ w.e.contradiction /\ Fine
        /\ PutThen("idle", Owing(back, "none"))
     \/ w.e.until # 0 /\ ~w.e.contradiction /\ Fine /\ Goto("lookClean", back)
     \/ Fault("ssh") /\ Failed(w.e)
  /\ UNCHANGED <<file, daemon, host, timer, store, session, world>>

\* _restore_core: the file was clean; the daemon is looked at before it is asked.
LookClean ==
  /\ pc = "lookClean"
  /\ \E seen \in Observable(w.e) :
       /\ Observe(w.e, seen)
       /\ \/ SeenRestored(seen) /\ Finish(seen)
          \/ /\ seen.daemon = "other"
             /\ PutThen("idle", Owing(seen, "none"))
          \/ /\ seen.daemon = "unknown" /\ w.e.daemon # "debug" /\ BySweep
             /\ PutThen("idle", StillOwing(seen))
          \/ /\ \/ seen.daemon = "debug"
                \/ seen.daemon = "unknown" /\ (w.e.daemon = "debug" \/ ~BySweep)
             /\ pc' = "put"
             /\ w' = [w EXCEPT !.e = StillOwing(seen), !.next = "phase", !.fresh = FALSE]
  /\ UNCHANGED <<file, daemon, host, timer, store, session, world>>

\* Mutant: the sweep asks for a reload every minute, for ever (before fixup 4).
ReloadsForEver(e) == e.pending # "restart"
\* _daemon_phase
MayReload(e) == e.pending # "restart" /\ e.tries < ReloadTries
Counted(e) == [e EXCEPT !.tries = @ + 1]

\* _daemon_phase: at most RELOAD_TRIES reloads, then one restart, then nothing.
Phase ==
  LET Other(answers) ==
        IF w.e.restarted THEN PutThen("idle", Owing(w.e, "none"))
        ELSE /\ pc' = "restart"
             /\ w' = [w EXCEPT !.owed = IF canReload /\ answers THEN "reload"
                                        ELSE "restart"]
  IN
  /\ pc = "phase"
  /\ \/ /\ canReload /\ MayReload(w.e)
        /\ \/ Fine /\ daemon' = file /\ Goto("lookAfter", Counted(w.e))
           \/ /\ Fault("reload") /\ daemon' \in {daemon, file}
              /\ Goto("verify", Counted(w.e))
     \/ ~(canReload /\ MayReload(w.e)) /\ Fine /\ Other(TRUE) /\ UNCHANGED daemon
     \/ canReload /\ Fault("api") /\ Other(FALSE) /\ UNCHANGED daemon
  /\ UNCHANGED <<file, host, timer, store, session, world>>

\* _daemon_step: a reload that was refused, or whose reply was lost.
Verify ==
  /\ pc = "verify"
  /\ \E seen \in Observable(w.e) :
       /\ Observe(w.e, seen)
       /\ \/ SeenRestored(seen) /\ Goto("lookAfter", seen)
          \/ /\ ~SeenRestored(seen)
             /\ IF w.fresh /\ ~w.e.restarted THEN Goto("restartInstead", seen)
                ELSE Goto("lookFailed", Owing(seen, "reload"))
  /\ UNCHANGED <<file, daemon, host, timer, store, session, world>>

\* _daemon_step: the restart - of a reload refused, counted only when it worked.
RestartKea ==
  /\ pc \in {"restart", "restartInstead"}
  /\ \/ /\ Fine /\ daemon' = file
        /\ Goto("lookAfter", [w.e EXCEPT !.restarted = TRUE])
     \/ /\ Fault("restart") /\ daemon' \in {daemon, file}
        /\ Goto("lookFailed",
             IF pc = "restart"
             THEN [w.e EXCEPT !.restarted = TRUE, !.pending = w.owed]
             ELSE Owing(w.e, "reload"))
  /\ UNCHANGED <<file, host, timer, store, session, world>>

\* _daemon_phase: the daemon is looked at after a step that failed, too.
LookFailed ==
  /\ pc = "lookFailed"
  /\ \E seen \in Observable(w.e) : Observe(w.e, seen) /\ PutThen("idle", seen)
  /\ UNCHANGED <<file, daemon, host, timer, store, session, world>>

-----------------------------------------------------------------------------
(* The sweep of Jen's scheduler.                                           *)

\* run_sweep_job, sweep: every FULL_SCAN_EVERYth run reads the files too.
Sweep ==
  LET full == damaged \/ runs = 0
      begun == [NoWork EXCEPT !.e = entry, !.now = clock, !.full = full]
  IN
  /\ alive /\ pc = "idle"
  /\ runs' = (runs + 1) % FullScan
  /\ \/ damaged /\ pc' = "examine" /\ w' = begun
     \/ /\ ~damaged /\ entry.until # 0 /\ w' = begun
        /\ pc' = IF entry.file = "debug" THEN "status" ELSE "due"
     \/ ~damaged /\ entry.until = 0 /\ full /\ pc' = "scan" /\ w' = begun
     \/ ~damaged /\ entry.until = 0 /\ ~full /\ UNCHANGED job
  /\ UNCHANGED <<kea, helper, store, api, alive, clock, session, bounds, faults>>

\* Mutant: only the files are scanned (before Q158).
AdoptedFromFile ==
  IF Carries(file)
  THEN Owing(EntryFor(file.until, file.was), "reload")
  ELSE NoEntry
\* An entry for what the file and the daemon show, with nothing Jen remembers.
Adopted ==
  IF Carries(file)
  THEN LET seen == Seen(daemon, file.was) IN
       [EntryFor(file.until, file.was) EXCEPT
          !.daemon = seen, !.pending = IF seen = "debug" THEN "none" ELSE "reload"]
  ELSE IF Carries(daemon) /\ daemon.level = "debug"
  THEN [EntryFor(daemon.until, daemon.was) EXCEPT
          !.file = "restored", !.daemon = "debug", !.pending = "reload"]
  ELSE NoEntry

\* _recover, _recovery_candidates: nothing is written until all was read.
Examine ==
  /\ pc = "examine"
  /\ \/ Fine /\ Goto("rebuild", Adopted)
     \/ Fault("ssh") /\ Stop
     \/ Fault("api") /\ Stop
  /\ UNCHANGED <<file, daemon, host, timer, store, session, world>>
Rebuild ==
  /\ pc = "rebuild" /\ Stop
  /\ \/ Fine /\ entry' = w.e /\ damaged' = FALSE
     \/ Fault("store") /\ UNCHANGED store
  /\ UNCHANGED <<file, daemon, host, timer, session, world>>

\* _host_phase, what is stored only where it is news.
Reported(armed) ==
  IF armed = w.e.armed THEN Goto("due", w.e)
  ELSE PutThen("due", [w.e EXCEPT !.armed = armed])

IsMine == host.until = w.e.until /\ (w.e.was = "none" \/ host.was = w.e.was)

\* _host_phase: the host's report, and what the sweep makes of it.
Status ==
  /\ pc = "status"
  /\ \/ Fault("ssh") /\ Goto("due", w.e) /\ UNCHANGED timer
     \/ /\ Fine /\ bad
        /\ Reported(FALSE) /\ UNCHANGED timer
     \/ /\ Fine /\ ~bad /\ IsMine /\ host.done
        /\ RestoreAt(w.e, w.now) /\ UNCHANGED timer
     \/ /\ Fine /\ ~bad /\ IsMine /\ Unresolved
        /\ Reported(TRUE) /\ timer' = TRUE
     \/ /\ Fine /\ ~bad /\ ~IsMine /\ Unresolved
        /\ Reported(FALSE) /\ UNCHANGED timer
     \/ /\ Fine /\ ~bad /\ ~IsMine /\ ~Unresolved
        /\ Goto(IF w.e.until > w.now THEN "rearm" ELSE "due", w.e)
        /\ UNCHANGED timer
  /\ UNCHANGED <<file, daemon, host, store, session, world>>

\* _host_phase: an entry the host has nothing of is armed again.
Rearm ==
  /\ pc = "rearm"
  /\ \E answer \in {"armed", "no timer", "refused", "lost"} :
       /\ ArmAsked(w.e.until, w.e.was, answer)
       /\ \/ answer = "armed" /\ Reported(TRUE)
          \/ /\ answer = "no timer"
             /\ pc' = "abandon"
             /\ w' = [w EXCEPT !.e.armed = FALSE, !.next = "disowned"]
          \/ answer \in {"refused", "lost"} /\ Reported(FALSE)
  /\ UNCHANGED <<file, daemon, store, session, world>>

\* sweep: what is due is restored, what is not known is looked at.
Due ==
  /\ pc \in {"due", "disowned"} /\ Fine
  /\ IF pc = "disowned" /\ entry.armed THEN PutThen("due", w.e)
     ELSE IF w.e.file = "restored" \/ w.e.until <= w.now THEN RestoreAt(w.e, w.now)
     ELSE IF w.e.daemon \in {"unknown", "other"} THEN Goto("again", w.e)
     ELSE IF w.full THEN Goto("scan", w.e)
     ELSE Stop
  /\ UNCHANGED <<file, daemon, host, timer, store, session, world>>

\* sweep: the file is the truth of an entry whose daemon is not known.
Again ==
  /\ pc = "again"
  /\ \E seen \in Observable(w.e) :
       /\ Observe(w.e, seen)
       /\ LET e == IF ~Carries(file)
                   THEN StillOwing(Back(seen))
                   ELSE IF seen.daemon = "debug" THEN Owing(seen, "none")
                   ELSE seen
              step == IF w.full THEN "scan" ELSE "idle"
          IN IF e # w.e THEN PutThen(step, e)
             ELSE IF w.full THEN Goto(step, e) ELSE Stop
  /\ UNCHANGED <<file, daemon, host, timer, store, session, world>>

\* sweep, full: a marker nobody indexed, and a daemon left at DEBUG.
Scan ==
  /\ pc = "scan"
  /\ \/ Fault("ssh") /\ Stop
     \/ /\ Carries(file) /\ file.until <= w.now /\ Fine
        /\ RestoreAt(w.e, w.now)
     \/ /\ Carries(file) /\ file.until > w.now /\ w.e.until = 0
        /\ \E seen \in Observable(EntryFor(file.until, file.was)) :
             /\ Observe(EntryFor(file.until, file.was), seen)
             /\ PutThen("idle", Owing(seen, IF seen.daemon = "debug" THEN "none" ELSE "reload"))
     \/ /\ ~Carries(file) /\ w.e.until = 0 /\ Adopted # NoEntry /\ Fine
        /\ PutThen("clear", Adopted)
     \/ /\ \/ w.e.until # 0 /\ (~Carries(file) \/ file.until > w.now)
           \/ ~Carries(file) /\ Adopted = NoEntry
        /\ Fine /\ Stop
  /\ UNCHANGED <<file, daemon, host, timer, store, session, world>>

\* forget: a person put right what Jen saw at neither level.
Forget ==
  /\ alive /\ pc = "idle" /\ ~damaged
  /\ entry.until # 0 /\ entry.daemon = "other" /\ entry.file = "restored"
  /\ Seen(daemon, entry.was) # "debug" /\ ~Carries(file)
  /\ entry' = NoEntry
  /\ UNCHANGED <<file, daemon, host, timer, damaged, job, session, world, faults>>

-----------------------------------------------------------------------------
(* A change of other settings over Kea's API: it carries the logger along. *)

\* restore_window
OutsideTheWindow ==
  \/ entry.until = 0
  \/ entry.file = "restored" /\ entry.daemon # "debug"
  \/ clock < entry.until
\* file_write_refusal: the marker the entry says the file carries is kept.
KeepsTheMarker(l) ==
  entry.until # 0 /\ entry.file = "debug" =>
    /\ Carries(l) /\ l.until = entry.until
    /\ entry.was # "none" => l.was = entry.was

\* kea_api_config.apply: the file is proved to be the daemon's configuration.
ApiReads ==
  /\ alive /\ api = NoLogger /\ changes < MaxChanges /\ canReload
  /\ file = daemon /\ ~damaged
  /\ OutsideTheWindow /\ KeepsTheMarker(daemon)
  /\ api' = daemon /\ changes' = changes + 1
  /\ UNCHANGED <<kea, helper, store, job, alive, clock, runs, session, turns,
                 offs, hands, faults>>
\* config-set, config-write.
ApiSets ==
  /\ api # NoLogger /\ alive
  /\ daemon' = api /\ file' = api /\ api' = NoLogger
  /\ UNCHANGED <<canReload, helper, store, job, alive, clock, runs, session,
                 bounds, faults>>

-----------------------------------------------------------------------------
(* What happens outside Jen, and to it.                                    *)

Hand ==
  /\ hands < MaxHands /\ faults + hands < MaxFaults /\ hands' = hands + 1
  /\ \/ /\ "restart" \in Hands /\ daemon' = file
        /\ UNCHANGED <<file, host, bad>>
     \/ /\ "set" \in Hands /\ daemon' = Plain("other")
        /\ UNCHANGED <<file, host, bad>>
     \/ /\ "unmark" \in Hands /\ Carries(file) /\ file' = Plain(file.level)
        /\ UNCHANGED <<daemon, host, bad>>
     \/ /\ "forget" \in Hands /\ host.until # 0 /\ host' = NoRecord /\ bad' = FALSE
        /\ UNCHANGED <<file, daemon>>
  /\ UNCHANGED <<canReload, timer, ticking, store, job, api, alive, clock, runs, session,
                 turns, offs, changes, faults>>

\* A timer that was stopped, a state file nobody can read, a damaged record.
HostBreaks ==
  /\ \/ timer /\ Fault("stop") /\ timer' = FALSE /\ UNCHANGED bad
     \/ host.until # 0 /\ ~bad /\ Fault("state") /\ bad' = TRUE /\ UNCHANGED timer
  /\ UNCHANGED <<kea, host, ticking, store, job, api, alive, clock, runs, session, bounds>>
RecordRots ==
  /\ pc = "idle" /\ ~damaged /\ entry.until # 0 /\ Fault("damage")
  /\ damaged' = TRUE /\ entry' = NoEntry
  /\ UNCHANGED <<kea, helper, job, api, alive, clock, runs, session, bounds>>

\* Jen is killed, and comes back or stays away.
Crash ==
  /\ alive /\ (pc # "idle" \/ api # NoLogger)
  /\ \/ Fault("crash") /\ UNCHANGED alive
     \/ Fault("death") /\ alive' = FALSE
  /\ Stop /\ api' = NoLogger
  /\ UNCHANGED <<kea, helper, store, clock, runs, session, bounds>>
Dies ==
  /\ alive /\ pc = "idle" /\ Fault("death")
  /\ alive' = FALSE /\ api' = NoLogger
  /\ UNCHANGED <<kea, helper, store, job, clock, runs, session, bounds>>

\* A turn-on takes less than the shortest of DURATIONS, and a change over the
\* API less than the two sweep intervals restore_window keeps free.
\* The host's timer fires several times before _REVERIFY_WINDOW has passed.
Brief == /\ pc # "idle" /\ w.now = 0 => clock + 1 < w.e.until
         /\ api = NoLogger
         /\ host.done /\ timer /\ ~bad /\ clock = host.until + Reverify =>
              ~IsTheRecords(file) /\ ~IsTheRecords(daemon)
Tick ==
  /\ clock < EndTime /\ Brief
  /\ clock' = clock + 1
  /\ UNCHANGED <<kea, helper, store, job, api, alive, runs, session, bounds, faults>>

-----------------------------------------------------------------------------
Init ==
  /\ file = Plain("own") /\ daemon = Plain("own") /\ canReload \in Reloads
  /\ host = NoRecord /\ bad = FALSE /\ timer = FALSE
  /\ tick = "none" /\ found = NoRecord /\ overtaken = FALSE
  /\ entry = NoEntry /\ damaged = FALSE
  /\ pc = "idle" /\ w = NoWork /\ api = NoLogger /\ alive = TRUE
  /\ clock = 1 /\ runs = 0 /\ session = 0
  /\ turns = 0 /\ offs = 0 /\ changes = 0 /\ hands = 0 /\ faults = 0

\* The steps of Jen inside an operation.
Step == \/ Put \/ Abandon \/ Write \/ Arm \/ Store \/ Reload \/ LookOn \/ StoreOn
        \/ Revert \/ LookBack \/ Drop
        \/ Disarm \/ Settled \/ ClearMarked \/ ClearNothing \/ LookClean
        \/ Phase \/ Verify \/ RestartKea \/ LookFailed
        \/ Examine \/ Rebuild \/ Status \/ Rearm \/ Due \/ Again \/ Scan

Next == \/ \E until \in 1..MaxTime : TurnOn(until)
        \/ TurnOff \/ Sweep \/ Step \/ Forget
        \/ ApiReads \/ ApiSets
        \/ HostTick \/ Hand \/ HostBreaks \/ RecordRots
        \/ Crash \/ Dies \/ Tick

Spec == Init /\ [][Next]_vars

\* A thread of Jen goes on; its scheduler sweeps again and again; systemd runs
\* the host's timer every minute; and time passes.
FairSpec == /\ Spec
            /\ WF_vars(Step) /\ WF_vars(ApiSets)
            /\ WF_vars(Sweep) /\ WF_vars(HostTick) /\ WF_vars(Tick)

-----------------------------------------------------------------------------
(* Properties.                                                             *)

\* Every variable keeps its type: what Jen stores of a window is an entry that
\* _valid_entry accepts, and the host's state a record _read_state accepts.
TypeOK ==
  /\ file \in Logger /\ daemon \in Logger /\ canReload \in BOOLEAN
  /\ host \in Record /\ bad \in BOOLEAN /\ timer \in BOOLEAN
  /\ tick \in {"none", "reopen", "restore"} /\ found \in Record /\ overtaken \in BOOLEAN
  /\ entry \in Entry /\ damaged \in BOOLEAN
  /\ pc \in Steps /\ w \in Work
  /\ api \in Logger /\ alive \in BOOLEAN
  /\ clock \in Times /\ runs \in Nat /\ session \in Times
  /\ turns \in 0..MaxTurns /\ offs \in 0..MaxOffs /\ changes \in 0..MaxChanges
  /\ hands \in 0..MaxHands /\ faults \in 0..MaxFaults

\* Once nobody holds a window open - no entry, no unresolved record, no marker -
\* the logger in the file is at the level it had before the first of the windows,
\* however often the window was extended and whoever of the two put it back
\* (set_investigation_logging and _arm_locked keep the first original).
OwnLevelComesBack ==
  pc = "idle" /\ hands = 0 /\ entry.until = 0 /\ ~damaged /\ ~Unresolved
    /\ ~Carries(file)
  => file.level = "own"

\* The window Jen said is on is on, in the file and on the host, until the deadline
\* it named.
SessionHolds ==
  session # 0 /\ clock < session /\ hands = 0 /\ ~bad
  => Unresolved /\ host.until >= session /\ Carries(file)

\* A window that Jen said is on stays on until the deadline it named: neither a
\* finished session's timer nor a sweep takes the marker out of the file or the
\* record off the host before (the walk's I12, helper build 20) - but for a tick that
\* decided on an older record and acts on this one (SessionHolds says so).
HostKeepsSession == ~overtaken => SessionHolds

\* INV-003: Jen forgets a window only when its marker is off the file and off the
\* daemon (but for a change over the API that was in flight when the host restored;
\* the scan and the host's timer look for what that brings back).
DroppedWhenRestored ==
  [][ entry.until # 0 /\ entry'.until = 0 /\ ~damaged' /\ changes = 0 =>
        file.until # entry.until /\ daemon.until # entry.until ]_vars

\* INV-001: while its timer runs, the host takes its own session's DEBUG off the
\* daemon and keeps it off, whatever has become of Jen.
HostEndsIt ==
  <>[](Carries(daemon) /\ daemon.until = host.until => ~timer \/ bad)

\* A living Jen ends every window, its own or one it finds, or has told a person
\* what is left to do: the daemon does not take the file, or runs another level.
GaveUp == /\ entry.until # 0 /\ entry.file = "restored"
          /\ entry.restarted \/ entry.contradiction \/ entry.daemon = "other"
JenEndsIt ==
  <>[](alive => GaveUp \/ (entry.until = 0 /\ ~Carries(daemon) /\ ~Carries(file)))

\* The walk's I12, as it is written: from the arm of a session to its own deadline the
\* file carries its marker and the host is armed for it.
IsArmedFor == pc \in {"store", "reload", "lookOn", "storeOn"}
ArmedUntilItsDeadline ==
  /\ IsArmedFor /\ clock < w.e.until /\ hands = 0 /\ ~bad
     => Unresolved /\ host.until = w.e.until /\ Carries(file)
  /\ SessionHolds

=============================================================================
