------------------------------- MODULE Alerts -------------------------------
(***************************************************************************)
(* The delivery state of a threshold alert (services/alerts.py): one       *)
(* condition of one key - a subnet's pools, a server, a device, a forecast *)
(* - which Jen's alert loop judges on every pass, and what its operator    *)
(* has been told of it.                                                    *)
(*                                                                         *)
(* The state of a condition is one row of the settings table, read through *)
(* the settings cache, and kept in the process while it cannot be stored.  *)
(* The passes are made by one thread; between two of its steps the channel *)
(* or the database may fail, the condition may change and Jen may restart. *)
(* Times are ages, in steps of the clock.                                  *)
(***************************************************************************)
EXTENDS Naturals

CONSTANTS
  Kinds,       \* the kinds of condition looked at
  Tries,       \* how many attempts have a wait of their own
  Wait,        \* _BACKOFF_MINUTES: the wait after the i-th failed attempt
  MaxWait,     \* ... the longest of them
  RepeatAfter, \* repeat_after
  MaxChanges,  \* bound: changes of the condition and of its key
  Faults,      \* what may fail: send, answer, store, reload, crash
  MaxFaults    \* bound: how often

\* ok: it has an `_ok`; repeats: it is told again; hysteresis: what it is depends
\* on what it was; departs: it is ended when Kea's config loses its key; swept:
\* it is over when its row is cleaned up, and not judged before.
Kind == [ok : BOOLEAN, repeats : BOOLEAN, hysteresis : BOOLEAN,
         departs : BOOLEAN, swept : BOOLEAN]

ASSUME AlertsAssumption ==
  /\ Kinds \subseteq Kind
  /\ \A k \in Kinds : k.repeats \/ k.swept => ~k.ok
  /\ Tries \in Nat \ {0} /\ MaxWait \in Nat
  /\ Wait \in [1..Tries -> 1..MaxWait]
  /\ RepeatAfter \in Nat /\ MaxChanges \in Nat /\ MaxFaults \in Nat

\* active, notified, a recovery is owed; attempts that failed (past Tries they all
\* wait the same), the age of the last of them and of the notification.
State == [a : BOOLEAN, n : BOOLEAN, r : BOOLEAN, c : 0..Tries,
          t : 0..MaxWait, d : 0..RepeatAfter]
Inactive == [a |-> FALSE, n |-> FALSE, r |-> FALSE, c |-> 0, t |-> 0, d |-> 0]
\* No row, no state in memory, nothing read yet.
NoState == [Inactive EXCEPT !.n = TRUE, !.r = TRUE]

VARIABLES
  kind,
  level,   \* the condition itself: "bad", "fine" or, of a hysteresis, "between"
  key,     \* judged by the pass, departed from Kea's config, gone from Jen's own
  row,     \* the row of the settings table
  cache,   \* ... as the settings cache read it last
  memory,  \* _unsaved_states
  pc,      \* the pass: idle, load, send, store
  active,  \* its argument: whether the condition holds now
  s, was,  \* the state it works on, and the one it loaded
  saying,  \* what it is about to send
  heard,   \* history: the last thing the operator heard of this episode
  since,   \* history: how long ago that was
  amnesia, \* history: Jen forgot something it had known, at one of the places where
           \* it may (Read, Send, Crash and Cleanup say which)
  changes, faults

pass == <<pc, active, s, was, saying>>
told == <<heard, since, amnesia>>
world == <<kind, level, key, changes>>
vars == <<kind, level, key, row, cache, memory, pass, told, changes, faults>>

Fault(what) == what \in Faults /\ faults < MaxFaults /\ faults' = faults + 1
Fine == UNCHANGED faults

-----------------------------------------------------------------------------
(* The stored state.                                                       *)

Stored(x) == IF x = NoState THEN Inactive ELSE x

\* get_global_setting: the table's, or, when the table cannot be read, what was last
\* read of it, or the default.
Setting(v) ==
  \/ /\ v = Stored(row) /\ cache' = row
     /\ Fine /\ UNCHANGED amnesia
  \/ /\ v = Stored(cache) /\ UNCHANGED cache
     /\ Fault("reload") /\ amnesia' = (amnesia \/ v # Stored(row))
\* _load_state: the state that could not be stored, or the setting.
Read(v) ==
  \/ memory # NoState /\ v = memory /\ Fine /\ UNCHANGED <<cache, amnesia>>
  \/ memory = NoState /\ Setting(v)

\* Mutant: a state that could not be stored is forgotten (before Q172).
Forgotten(state) == NoState
\* _save_state, where the write failed.
Unsaved(state) == state

\* persist: only what changed is written.
Store ==
  /\ pc = "store" /\ pc' = "idle"
  /\ \/ s = was /\ Fine /\ UNCHANGED <<row, memory>>
     \/ s # was /\ Fine /\ row' = s /\ memory' = NoState
     \/ s # was /\ Fault("store") /\ row' \in {row, s} /\ memory' = Unsaved(s)
  /\ UNCHANGED <<cache, active, s, was, saying, told, world>>

-----------------------------------------------------------------------------
(* A pass.                                                                 *)

\* check_utilization_alerts, check_kea_status_alert, check_stale_reservation_alerts
\* and their like: the condition, of what is read of the world, and with hysteresis
\* of what is recorded.
Judge ==
  /\ pc = "idle" /\ key = "judged" /\ (kind.swept => level = "bad")
  /\ pc' = "load"
  /\ \/ /\ ~kind.hysteresis /\ Fine /\ UNCHANGED <<cache, amnesia>>
        /\ active' = (level = "bad")
     \/ /\ kind.hysteresis
        /\ \E v \in State : Read(v) /\ active' = (level = "bad" \/ (level = "between" /\ v.a))
  /\ UNCHANGED <<row, memory, s, was, saying, heard, since, world>>

\* _end_states_of_departed_subnets: the states that have a row.
EndDeparted ==
  /\ pc = "idle" /\ key = "departed" /\ row # NoState
  /\ \E v \in State :
       /\ Read(v) /\ (v.a \/ v.r)
       /\ pc' = "load" /\ active' = FALSE
  /\ UNCHANGED <<row, memory, s, was, saying, heard, since, world>>

\* _clear_orphan_states: the row goes, and what is in memory stays.
Cleanup ==
  /\ pc = "idle" /\ row # NoState
  /\ key = "gone" \/ (kind.swept /\ level # "bad")
  /\ row' = NoState
  /\ heard' = "nothing" /\ amnesia' = (amnesia \/ memory # NoState)
  /\ UNCHANGED <<cache, memory, pass, since, world, faults>>

Min2(i, j) == IF i < j THEN i ELSE j
\* notify_condition, backing_off
BackingOff(state) == state.c > 0 /\ state.t < Wait[state.c]

\* A warning is to be delivered, for the first time or again.
Opened == [Inactive EXCEPT !.a = TRUE]
\* Mutant: a condition that comes back while its recovery is owed begins anew.
BegunAnew(state) ==
  IF ~state.a \/ (state.n /\ kind.repeats /\ state.d = RepeatAfter) THEN Opened
  ELSE state
\* notify_condition, of a condition that holds: the warning of a recovery that was
\* never delivered stands, and a reminder is due after RepeatAfter.
Begun(state) ==
  IF state.r /\ ~state.a
  THEN [a |-> TRUE, n |-> TRUE, r |-> FALSE, c |-> 0, t |-> 0, d |-> state.d]
  ELSE IF ~state.a \/ (state.n /\ kind.repeats /\ state.d = RepeatAfter) THEN Opened
  ELSE state

\* Mutant: whatever ends is said to be over, the warning delivered or not.
OverIfActive(state) == kind.ok /\ (state.a \/ state.r)
\* notify_condition, of a condition that ended: a recovery is to be sent.
Owed(state) == kind.ok /\ ((state.a /\ state.n) \/ (~state.a /\ state.r))

\* notify_condition, of a condition that holds.
LoadHolding(v) ==
  LET begun == Begun(v) IN
  /\ active /\ was' = v /\ s' = begun
  /\ \/ /\ begun.n \/ BackingOff(begun)
        /\ pc' = "store" /\ UNCHANGED saying
     \/ /\ ~begun.n /\ ~BackingOff(begun)
        /\ pc' = "send" /\ saying' = "warning"
  /\ UNCHANGED heard
\* ... and of one that has ended: the recovery of a warning that was delivered is
\* owed until it is; there is none of any other.
LoadEnded(v) ==
  /\ ~active /\ was' = v
  /\ \/ /\ Owed(v) /\ (v.a \/ ~BackingOff(v))
        /\ s' = v /\ pc' = "send" /\ saying' = "ok" /\ UNCHANGED heard
     \/ /\ Owed(v) /\ ~v.a /\ BackingOff(v)
        /\ s' = v /\ pc' = "store" /\ UNCHANGED <<saying, heard>>
     \/ /\ ~Owed(v) /\ (v.a \/ v.r)
        /\ s' = Inactive /\ pc' = "store" /\ UNCHANGED saying
        /\ heard' = IF kind.ok THEN heard ELSE "nothing"
     \/ /\ ~v.a /\ ~v.r
        /\ s' = v /\ pc' = "store" /\ UNCHANGED <<saying, heard>>
Load ==
  /\ pc = "load"
  /\ \E v \in State : Read(v) /\ (LoadHolding(v) \/ LoadEnded(v))
  /\ UNCHANGED <<row, memory, active, since, world>>

\* Mutant: the attempts are counted past the last wait.
UpUncapped(c) == c + 1
Up(c) == Min2(c + 1, Tries)
\* notify_condition, once send_alert has answered.
Taken == IF saying = "ok" THEN Inactive
         ELSE [a |-> s.a, n |-> TRUE, r |-> s.r, c |-> 0, t |-> 0, d |-> 0]
\* Mutant: a recovery nobody took is not owed any more (before Q155).
RecoveryDropped == IF saying = "ok" THEN Inactive
                   ELSE [s EXCEPT !.c = Up(@), !.t = 0]
NotTaken == IF saying = "ok"
            THEN [s EXCEPT !.a = FALSE, !.n = FALSE, !.r = TRUE,
                           !.c = IF s.a THEN 1 ELSE Up(@), !.t = 0]
            ELSE [s EXCEPT !.c = Up(@), !.t = 0]

\* attempt: a channel took the message, none did, or one did and its answer was lost.
Send ==
  /\ pc = "send" /\ pc' = "store"
  /\ \/ /\ Fine /\ s' = Taken
        /\ heard' = saying /\ since' = 0 /\ UNCHANGED amnesia
     \/ Fault("send") /\ s' = NotTaken /\ UNCHANGED told
     \/ /\ Fault("answer") /\ s' = NotTaken
        /\ heard' = saying /\ since' = 0 /\ amnesia' = TRUE
  /\ UNCHANGED <<row, cache, memory, active, was, saying, world>>

-----------------------------------------------------------------------------
(* What happens to it.                                                     *)

Crash ==
  /\ Fault("crash")
  /\ pc' = "idle" /\ memory' = NoState /\ cache' = NoState
  /\ amnesia' = (amnesia \/ memory # NoState \/ (pc = "store" /\ s # was))
  /\ UNCHANGED <<row, active, s, was, saying, heard, since, world>>

LevelChanges ==
  /\ changes < MaxChanges /\ changes' = changes + 1
  /\ level' \in {"bad", "fine"} \cup (IF kind.hysteresis THEN {"between"} ELSE {})
  /\ level' # level
  /\ UNCHANGED <<kind, key, row, cache, memory, pass, told, faults>>
\* The applied configuration: it is not changed within a pass over the subnets.
KeyChanges ==
  /\ pc = "idle" /\ changes < MaxChanges /\ changes' = changes + 1
  /\ key' \in {"judged", "gone"} \cup (IF kind.departs THEN {"departed"} ELSE {})
  /\ key' # key
  /\ UNCHANGED <<kind, level, row, cache, memory, pass, told, faults>>

\* Time passes between two passes.
Older(state) ==
  IF state = NoState THEN state
  ELSE [state EXCEPT !.t = IF state.c = 0 THEN @ ELSE Min2(@ + 1, MaxWait),
                     !.d = IF kind.repeats /\ state.n THEN Min2(@ + 1, RepeatAfter)
                           ELSE @]
Tick ==
  /\ pc = "idle"
  /\ row' = Older(row) /\ cache' = Older(cache) /\ memory' = Older(memory)
  /\ since' = Min2(since + 1, RepeatAfter)
  /\ UNCHANGED <<pass, heard, amnesia, world, faults>>

-----------------------------------------------------------------------------
Init ==
  /\ kind \in Kinds /\ level = "fine" /\ key = "judged"
  /\ row = NoState /\ cache = NoState /\ memory = NoState
  /\ pc = "idle" /\ active = FALSE /\ s = Inactive /\ was = Inactive
  /\ saying = "warning"
  /\ heard = "nothing" /\ since = 0 /\ amnesia = FALSE
  /\ changes = 0 /\ faults = 0

Pass == Judge \/ EndDeparted \/ Cleanup \/ Load \/ Send \/ Store
Next == Pass \/ Crash \/ LevelChanges \/ KeyChanges \/ Tick
Spec == Init /\ [][Next]_vars

\* The alert loop makes pass after pass, and sleeps between two of them.
FairSpec == Spec /\ WF_vars(Pass) /\ SF_vars(Tick)

-----------------------------------------------------------------------------
(* Properties.                                                             *)

\* Every variable keeps its type.
TypeOK ==
  /\ kind \in Kinds /\ level \in {"bad", "between", "fine"}
  /\ key \in {"judged", "departed", "gone"}
  /\ row \in State /\ cache \in State /\ memory \in State
  /\ pc \in {"idle", "load", "send", "store"} /\ active \in BOOLEAN
  /\ s \in State /\ was \in State /\ saying \in {"warning", "ok"}
  /\ heard \in {"nothing", "warning", "ok"} /\ since \in 0..RepeatAfter
  /\ amnesia \in BOOLEAN /\ changes \in 0..MaxChanges /\ faults \in 0..MaxFaults

\* What the next pass will find of the last.
Known == IF memory # NoState THEN memory ELSE Stored(row)

\* Between two passes Jen's record says what the operator heard: "notified", or a
\* recovery owed, where a warning was the last word, and there only - but for the
\* reminder of a repeating condition, which is under way (notify_condition: a
\* condition is notified only when a channel took it, and a recovery is owed).
RecordIsWhatWasHeard ==
  pc = "idle" /\ ~amnesia =>
    /\ Known.n \/ Known.r => heard = "warning"
    /\ heard = "warning" /\ ~kind.repeats => Known.n \/ Known.r

\* Nobody is warned twice in an episode, whatever comes back while a recovery is
\* owed and whatever cannot be stored; a reminder comes no sooner than RepeatAfter.
NoSecondWarning ==
  pc = "send" /\ saying = "warning" /\ heard = "warning" /\ ~amnesia =>
    kind.repeats /\ since = RepeatAfter

\* "a recovery for a warning nobody got is noise": an all-clear goes only to an
\* operator whose last word was the warning.
AllClearFollowsWarning == pc = "send" /\ saying = "ok" /\ ~amnesia => heard = "warning"

\* Once the condition and its key stay as they are, the operator hears it, through
\* every delivery and every write that failed: warned of what is bad, and told that
\* what was bad is over.  A departed subnet's state is ended where it has a row.
OperatorHears ==
  <>[](~amnesia =>
         /\ key = "judged" /\ level = "bad" => heard = "warning"
         /\ kind.ok /\ heard = "warning" =>
              ~(key = "judged" /\ level = "fine") /\ ~(key = "departed" /\ row # NoState))

=============================================================================
