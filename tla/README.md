# Verification of Jen

Jen (`src/jen`, a Flask application) manages Kea DHCP servers: it reads what each daemon
runs, changes its configuration over one of two transports, keeps a history of what it
wrote, turns DEBUG logging on for a while, warns its operators, and tells a person what it
could not finish.  This directory holds TLA+ models of that core, the TLC configurations that
check them, and proofs that TLAPS checks.

    tlc -config <run>.cfg <module>.tla          # a run of the table below
    tlapm ChangeSetProofs.tla                   # the proofs: this module, Incidents-, DebugWindow-,
                                                # AlertsProofs, and KeaApi{Config,Record,Refusal,Ok}Proofs

`PROJECT.json` lists the components, the runs, for every definition the source lines it
models, for every property a plausible bug that breaks it (a mutant: an operator defined
just before the one it would replace), the hazards of the code and the findings.

## 1. The system

### 1.1 Parts, state and operations

| Part | State | Operations | What makes it correct |
|---|---|---|---|
| Change of one server over Kea's API (`services/kea_api_config.py`) | none of its own: the daemon's configuration and file are Kea's, the rows are the history's | `apply` (nine steps), `revert`, `settle_pending`, `pending_block`, `file_proof`, `read` with its capture | an `ok` is what daemon and file carry; a refusal changed nothing; what Jen made a daemon run is on record at every instant |
| Config history (`services/config_revisions.py`) | rows: `pending`, `damaged`, settled ones of kind `kea` and `raw`, source `rendering` | `record`, `finish`, `discard`, `mark_damaged`, `latest*`, `prune` | no file is replaced that it does not hold; "changed outside Jen" is said only of what Jen did not do |
| Multi-server change set (`services/kea_changeset.py:216-827`) | the change lock of the process; the result | `_run_change`: plan, preflight, commit, restart, finalize; `_put_everything_back` | all servers, or none, or the ones that are not are named (TXN-001) |
| Incident note (`services/kea_changeset.py:829-1443`) | one settings row, a list of incidents | `record_outcome`, `record_attention`, `resolve_attention`, `acknowledge_recovery`, `dismiss_rollback_notes`, `set_aside_unreadable_note`, `reconcile_rotation_pending` | trouble that nobody proved over stays in front of the operator |
| Files and services of a Kea host (`services/kea_host.py`, helper over SSH) | the host's files and units | `apply_config`, `remove_config`, `service_action`, `install_tls`, captures | an answer that is lost is not an answer |
| Switch of a server's transport (`services/kea_transport_switch.py`) | a setting per server | plan, switch | no switch over an unresolved change |
| Investigation logging (`services/investigation_logging.py`, `src/jen-kea-helper`) | Jen's entry of a window, the host's own state file and timer, a marker in the file and in the daemon | on, off, extend, sweep, forget; the helper's arm, disarm, status and tick | DEBUG always comes off, at the level of before; two actors never undo each other |
| TLS material and CA rotation (`services/kea_tls.py`, `routes/settings/infrastructure.py`) | files: CA, pairs, `.next`, `.prev`, markers | prepare, rotate, promote, discard, forget | every daemon answers Jen's live CA, or an incident names it |
| Alerts (`services/alerts.py`, `models/user.py`) | per condition a settings row, its cache, and what could not be stored | judge, deliver, retry, end, clean up | one warning and one recovery per episode, whatever was not delivered or not stored |
| Periodic jobs (`services/background.py`, `scheduler.py`) | running flags, schedules | start, run, finish | no job is stuck "running" |
| Provider budget (`services/provider_budget.py`) | slots and an executor | call, time out, configure | a slot returns exactly once |
| Configuration file (`config.py`) | one file, nested locks | read-modify-replace | no update is lost |
| Self-update, restore, migrations | directories and services of a host | stage, switch, roll back | one release runs, wholly |
| Log tails, sessions, pages | watermarks; sessions; none | parsing, checks, rendering | see the notes in `PROJECT.json` |

### 1.2 How they interact

A route calls `kea_changeset.apply_change`.  It takes the one change lock of the process
(`change_lock`; Jen runs one gunicorn worker, `src/run.py`), runs the five phases - for an API
target each commit and each revert is a whole `kea_api_config.apply`, for a file target an
`apply_config` and a `service_action` - releases the lock and *then* writes its outcome on
the incident note.  Restores and an import over the API take the same lock, call
`kea_api_config.apply` themselves and write `record_attention` / `resolve_attention` after
it; the restore into a file records before it lets go of the lock; the import into a file and
the Restart button take no lock at all.  Pages read daemons and capture what they see
*without* the lock.  Operators edit files, set daemons and restart them on the hosts at any
time, and Kea itself has neither a compare-and-set nor a transaction over its two stores.

Investigation logging holds a lock of its own, not the change lock: a change over the API that
read the daemon within a window sends the marker back after it.  `restore_window` and
`file_write_refusal` guard against that on Jen's side; the helper's timer knows of neither, and
decides what is due before it has the lock of the file.  The
alert loop is one thread; its state is shared with nobody but the settings cache that every
request reads.

### 1.3 What is hard here

Lost answers after the effect (`config-set`, `config-write`, helper calls); two stores of
one daemon that fail separately; a history that must be right although its own inserts fail;
crashes between any two of these; questions answered by inclusion, because Kea adds defaults
to what it is given; a file's modification time in whole seconds; readers without the lock;
hands on the host between two steps; a note that is written after the lock is released; two
records of one window that neither actor sees whole, one of them read before a lock and acted on under it; and a fact that was told and could not be
stored.
`PROJECT.json` lists each at its line with the properties that would catch it going wrong.

## 2. The modules

| Module | Models | Used by |
|---|---|---|
| `KeaApiConfig` | the change of one server over the API, step by step, with its history rows | `MCKeaApiConfig`, `KeaApiConfigProofs`, `KeaApiRecordProofs`, `KeaApiRefusalProofs`, `KeaApiOkProofs` |
| `ChangePromise` | abstract: what a multi-server change promises its caller | instantiated by `ChangeSet` |
| `ChangeSet` | the five phases over many servers and both transports | `MCChangeSet`, `ChangeSetProofs` |
| `Incidents` | the note of unresolved incidents and the gap before it is written | `MCIncidents`, `IncidentsProofs` |
| `DebugWindow` | a window of DEBUG logging on one Kea: Jen, the host's helper, and a change over the API | `MCDebugWindow`, `DebugWindowProofs` |
| `Alerts` | the delivery state of one condition | `MCAlerts`, `AlertsProofs` |

### 2.1 KeaApiConfig

A configuration is the set of settings it states (keys, and elements of lists); a digest is
the set itself.  `Kea(c)` adds the defaults Kea writes out, so "the daemon carries the
candidate" (`Carries`, `_walk`/`_carries`) is inclusion for keys and equality for list
elements, as in the code, and equality of digests is equality of sets.  A candidate of Jen's adds a
setting that is not there or removes one that is (`Candidates`); what Jen changes is never itself a
default Kea writes out (`ConfigAssumption`), so every change changes what the daemon runs.

State: `running` and `file` (the daemon's two stores), `newer` (the file's mtime against the
daemon's last load), the rows `pending`, `damaged`, `lastKea`, `lastRaw`, `rendering`, the
remembered refusal `refused`, and the locals `pc`, `w`, `result` of the one holder of the
change lock.  `known` and `author` are history variables.  One action is one remote call or
one statement on the store:

| Action | Code |
|---|---|
| `Begin`, `Read` | `apply`'s gate, and `read` with its capture (`_get`, `_capture`) |
| `Block`, `Settle`, `Reconcile`, `SettleAsk` ... `SettleRecord`, `Stale`, `Supersede` | `pending_block`, `settle_pending`, `_reconcile_pending`, `_stale_pending` |
| `Proof`, `Record`, `Compare` | `file_proof` before anything is sent, (3) the pending row, (4) the digest read again |
| `Set`, `AfterRefusal`, `AfterLost` | step (5), and the two questions after a set that was refused or not answered |
| `Ask`, `Write`, `Undo`, `UndoGet` | step (6): the question about the file, `config-write` with its retries, the undo of a refused one |
| `Verify`, `ReadBack`, `Finish`, `RecordFile`, `Drop` | steps (7) to (9), and the row dropped on the way out |
| `Revert` | the rollback that a change set asks for (`_restore_target`), as an `apply` whose `before` is the candidate |
| `ReaderGet`, `ReaderCapture` | a page reads the daemon and captures it, without the lock |
| `HandSet`, `HandEdit`, `Restart`, `RowRots`, `Age`, `ClearRefusal`, `Crash` | the world |

Failures are named (`lost`, `refused`, `store`, `capture`, `unread`, `crash`) and a run
chooses which may happen.  A lost call may have been executed or not.

Two steps stand for several reads that nothing of Jen's comes between: `file_proof` reads the file,
the history and the daemon in one step (`AskTheFile`), and a capture asks for a pending row, reads the newest
digest and inserts in one (`CaptureDaemon`, `ReaderCapture`).  What matters of either is the time between
it and what is done with its answer, and that is between two steps.

Left out: the recorded vectors of defaults, the API-only guard, the facts and consents of the
probe (only its remembered refusal is kept), the guard of investigation logging, rows of older
releases, retention of rows, and a daemon that stopped serving altogether.

### 2.2 ChangeSet and ChangePromise

Configurations are versions.  State per server: the version its `file` says, the one its
daemon `runs`, whether a restart left it `down`; and the locals of the change (`phase`,
`targets`, `asked`, `committed`, `back`, `failed`, `unproved`, `cause`) and its answer
(`status`, `needs`).  One action per remote call; `PlanServer`, `Preflight`, `Commit`,
`RestartNew`, `Revert`, `RestartBack` and `FinalizeChange` are the loops of
`_run_change_unlocked` and `_put_everything_back`, in their order: files before API targets
to commit, the reverse to put back.  The `...Ends` actions are the decisions after a loop.

A commit over the API is one action here.  Its outcomes are those KeaApiConfig allows:
done, refused with nothing changed, or unproved with any half of it done (`PutHalf`).  The
first is KeaApiConfig's `OkIsTrue`, the second its `RefusalChangesNothing`, which is how the
two modules compose.  A revert over the API has a fourth outcome, for which `OkIsTrue` is false in the code
(finding 1): its `config-set` is lost, it answers ok by inclusion, and the change stays in daemon and file
(`misled`).  The constant `Tellable` says that what Jen changes are elements of lists, of which there is no
such answer; it is `FALSE` in the runs.

No answer of a change set is true of every server.  `Excepted` names the three kinds it is not true
of: servers somebody else acted on (`touched`), file targets whose commit happened and was not answered
(`silent`, finding 3), and API targets whose revert said ok of a change that stayed (`misled`).
`StrictOutcome` excepts only `touched`, and is violated.
`remove_config` is folded into the revert.  Waiting for a busy lock is not modelled.

`ChangePromise` knows only an answer, whom the change is for, who carries it and who is named:
nothing is said early, the answer is honest when given, and it becomes false only by somebody
else's act.  `ChangeSet!KeepsPromise` is that specification under a refinement mapping.

### 2.3 Incidents

The note is a set of entries `[status, service, servers, at]`, or a value that does not read
as a note (`text`).  Each writer of the note is one transaction under a row lock
(`update_global_setting`, `_with_attention`), so each is one action.  What is *not* atomic is
the end of an operation and its record: `Ends` decides an outcome and releases the change lock,
`Records` writes it later, and other requests end, record, dismiss and acknowledge in between.
A file restore keeps `lock` until it recorded; file imports and the Restart button ignore it.
The whole run of an operation is inside `Ends`: nothing of the note is read before it.

`OutcomeRecorded`, `AttentionRecorded` and `AttentionResolved` are what `record_outcome`,
`record_attention` and `resolve_attention` make of the list, with the refresh of an equal
entry, the soft cap that evicts only `rolled_back` entries and the hard ceiling.
`SetAsideReads`, `SetAsideCopies`, `SetAsideClears` are the three steps of
`set_aside_unreadable_note`, which other requests may cut into.

Three history variables say what the note should show: `owed`, the trouble that no later
operation has *proved* over; `excused`, what of it a person dismissed, acknowledged, set aside
or was told of when the record failed, or what the hard ceiling dropped; and `late`, what a
clean run took off although it proved nothing about it (findings 4 and 5).

Left out: the eleven categories of certificates and sockets, `rotation-pending` with its
fingerprint, and `reconcile_rotation_pending`; they come with the CA rotation.

### 2.4 DebugWindow

A logger is `[level, until, was]`: its level, and the marker with its deadline and the level
to put back.  There is one in the file and one in the daemon; the daemon takes the file's on a
reload or a restart.  Jen keeps an `entry`, the host a record `host` with its `timer`; each says
when the window ends and what it was before, and what is left to do.  `pc` and `w` are the holder
of Jen's lock; `Steps` names the remote call or the write it is about to make.

| Action | Code |
|---|---|
| `TurnOn`, `Write`, `Arm`, `Store`, `Reload`, `LookOn`, `StoreOn`, `Revert`, `LookBack`, `Drop`, `Abandon` | `turn_on` with its early returns |
| `TurnOff`, `Sweep`, `Disarm`, `Settled`, `ClearMarked`, `ClearNothing`, `LookClean`, `Phase`, `Verify`, `RestartKea` | `turn_off`, and the restore a sweep shares with it |
| `Examine`, `Rebuild`, `Status`, `Rearm`, `Due`, `Again`, `Scan` | `sweep`: a damaged record, the host phase, expired entries, unfinished ones, the full scan |
| `Forget` | `forget` |
| `LookFailed` | the look at the daemon after a step of its phase that failed |
| `TickReads`, `TickReopens`, `TickRestores` (`HostTick`) | the helper's timer: `_self_restore` and `_reverify` decide on the record as they read it; `_restore_state` and `_restore_locked` act under the lock |
| `ApiReads`, `ApiSets` | a change of other settings, with the two guards of investigation logging |
| `Hand`, `HostBreaks`, `RecordRots`, `Crash`, `Dies`, `Tick` | the world |

Arm and disarm run wholly under the lock of the file and are one step each.  The timer's tick is not: it
reads the record and tests its deadline (`TickReads`, into `found`), or saves a restored record as
unresolved again (`TickReopens`), before it has the lock; under the lock it reads the record again, but asks
only whether it is restored (`TickRestores`).  Between these steps Jen may arm, disarm or extend.  A tick that
waits for the lock in vain saves the record it had read, with its failure.  A restore of the host has all its
endings: done by a signal or by the one restart of the record, a restart that worked and was not verified,
and a record that could not be saved.  `HelperGate` lets a turn-on go on when the host does not answer.

`session` is a history variable: the deadline a turn-on that answered ok promised.  `overtaken` is
another: since that turn-on began, a tick acted on a record with another deadline than the one it
decided on, or saved the one it read over it (finding 7).  The clock of the model is coarse, a
deadline of the code is a time in seconds: `FreshDeadline` says that no two turn-ons name the same one.

Left out: markers that cannot be read, servers that are removed or replaced (INV-005), more than
one server, `acknowledge_damaged` and the hour after which `forget` may go on unconfirmed, the socket
and log evidence from which the helper concludes that a daemon took its file (here it knows), the
wording of `timer_down` and `host_conflict`, and a settings table that cannot be read.

### 2.5 Alerts

The state of a condition is `[a, n, r, c, t, d]` as in the code, with times as ages.  It is in the
`row` of the settings table, in the `cache` of what was read of it, or in `memory`
(`_unsaved_states`) when it could not be stored.  A pass is `Judge` (the callers: what the condition
is now, with hysteresis of what is recorded), `Load` (`notify_condition` up to the send: `Begun` and
`Owed` say what is due), `Send` (at least one eligible channel took it, none did, or one did and its
answer was lost) and `Store`.  `EndDeparted` begins a pass for a subnet that left Kea's config,
`Cleanup` deletes the row of a key that is no longer configured.  A condition's kind says which
options its caller passes: an `_ok`, a reminder, hysteresis, an end when it departs, or
an end by cleanup alone.

`heard` is a history variable: the last thing the operator heard in this episode.  `amnesia` is
another: it is set where the code may forget what it knew and has nothing else to go by - a restart
with a state in memory or about to be stored, a stale cache, a channel that took the message and
said it had not, a cleanup beside a state in memory.

Left out: `cert_expiring` and `mark_notified`, values written by older releases, several channels (one
that takes the message is enough for the code), the daily summary, alerts of single events and drift.

## 3. The runs

Every run finishes; the sizes are distinct states.

| Run | Size | Question | Properties |
|---|---|---|---|
| `api_apply` | 322 k | changes, imports, restores and settlements of one server whose file Jen can read, against two failures and one act on the host between any two steps; and liveness | `TypeOK` `OkIsTrue` `RefusalChangesNothing` `JensChangesAreOnRecord` `ReplacedFilesAreInHistory` `ReplacedFilesWereLoaded` `RenderingsAreKeas` `OutsideRowsAreOutside` `FinishedWasTaken` `LockIsReleased` `WayOut` |
| `api_outside` | 7.3 M | changes, settlements and rollbacks of change sets, on servers whose file Jen can read and servers whose file it cannot, while pages read and capture without the lock, against two acts on the host and one failure, with files saved in the second of the load and a list element | `OkIsTrue` `RefusalChangesNothing` |
| `set_outcome` | 803 k | a change set with restarts and a finalizer over three servers, two by file and one by API | `TypeOK` `HonestOutcome` `FilesFirst` `KeepsPromise` `ChangeEnds` |
| `incidents` | 576 k | two requests and the note, with every writer of it between any two of their steps | `TypeOK` `UnresolvedIsOnRecord` `NoteIsBounded` `UnreadableIsKept` |
| `debug_window` | 7.8 M | a window, its extension and its end beside sweeps, the steps of the host's tick and a change over the API, against two failures or acts by hand | `TypeOK` `OwnLevelComesBack` `HostKeepsSession` `DroppedWhenRestored` |
| `debug_ends` | 1.4 M | liveness of one window, Jen's death included | `HostEndsIt` `JenEndsIt` |
| `alerts` | 290 k | a condition of each of five kinds, with three changes of it or its key and three failures; and liveness | `TypeOK` `RecordIsWhatWasHeard` `NoSecondWarning` `AllClearFollowsWarning` `OperatorHears` |
| `api_rollback_lost` | | finding 1 | violates `OkIsTrue` |
| `api_page_race` | | finding 2 | violates `OutsideRowsAreOutside` |
| `set_lost_commit` | | finding 3 | violates `StrictOutcome` |
| `incidents_cleared` | | findings 4 and 5 | violates `ClearedOnProof` |
| `debug_extended` | | findings 6 and 7 | violates `ArmedUntilItsDeadline` |

What the properties say is in the comment over each; the ones that carry the most:

- `OkIsTrue` (CFG-002): when a change says `ok` and nobody else touched the server meanwhile, the
  daemon runs exactly what the candidate becomes in Kea, the file says the same and no row is
  pending.  The code decides it from up to seven answers, any of which may be missing.
- `JensChangesAreOnRecord` (CFG-006): what a `config-set` of Jen made a daemon run is in a pending,
  damaged or newest settled row at every instant, so that a crash anywhere leaves it explained.
- `ReplacedFilesWereLoaded` and `ReplacedFilesAreInHistory` (CFG-004, CFG-005): the only thing a
  `config-write` may destroy is a file that the daemon has loaded and the history
  holds, but for the exceptions that the comments over them name.
- `WayOut` (CFG-007): no failure leaves a pending row that both of the operator's controls refuse.
- `HonestOutcome` (TXN-001) and `KeepsPromise`: the answer of a change set is true of every server
  but the three kinds `Excepted` names, whichever step of whichever phase failed.
- `FilesFirst`: no daemon runs a change while the file of a file target is still without it, on the way there
  and on the way back: the daemons are taken back before the files.
- `UnresolvedIsOnRecord`: trouble that no operation proved over is in front of the operator.
- `OwnLevelComesBack` (INV-001): with no window open, the file is at the level of before the first
  of the windows.  The level put back is read from the marker, the host's record or Jen's entry,
  and each of them is written from another of the three.
- `HostKeepsSession` and `HostEndsIt`: the host's timer neither ends a window early, but where the session was
  extended under a tick that had already decided (`overtaken`), nor fails to end it, and needs Jen for neither.
- `DroppedWhenRestored` (INV-003): Jen forgets a window only when file and daemon are rid of it.
- `RecordIsWhatWasHeard`, `NoSecondWarning` and `OperatorHears`: what Jen believes it has told and what the
  operator heard agree, and in the end the operator hears what is the case.

### Bounds, and why they are enough

- *Settings.*  `base` implies a default, `opt` implies another, `hand` is what only a person adds.
  That is the least for which inclusion and equality differ in both directions, for which a
  candidate and its rendering differ, and for which a hand's edit meets none, one or all of them.
  `Elements` makes `opt` a list element, where the code asks for equality.
- *Attempts.*  `WRITE_ATTEMPTS` is 3 in the code and 2 here: one retry, and a last one.
- *Failures and hands.*  Every branch of `apply` is reached by at most two failures; two show a
  failure of the answer to an earlier failure (a lost set and then a lost question about it).
  `api_outside` takes two acts and one failure, `api_apply` one act and two failures.
- *Servers.*  The one API target stands between two file targets in the configuration's order, so
  that order, the commit order and the revert order all differ, and a failure can be before,
  between and after them.  `MaxVersions` counts what is ever written, by Jen or by hand: two changes,
  or one and an edit or a set by hand.
- *The note.*  Caps of one and two, with three operations: the soft cap evicts, the hard ceiling
  drops, and both keep something.  There are two unreadable values, so that a set-aside meets
  another value than the one it read.  Servers and requests are symmetric.
- *The clock of a window.*  Deadlines are 1 to 3 in `debug_window` (one window in `debug_ends`: 1 to 2) and
  `Reverify` is 1: a second window may end before or after the first, and the host's record is reverified
  after either.  `RELOAD_TRIES` is 1
  here: one retry, and then the restart.  `FULL_SCAN_EVERY` is 1 in `debug_window`, where every sweep
  may do all that a sweep does, and 2 in `debug_ends`, where a sweep without a scan comes between two with one.
  `MaxFaults` counts failures and acts by hand together; two of them show a failure of the repair
  of an earlier one.  `Brief` states what the durations make impossible: a turn-on that is
  still arming when its own window ends (the shortest is minutes), and a change over the API that
  outlasts the two sweep intervals `restore_window` keeps free.
- *Alerts.*  Two waits of different length, so that the last one stands for all later; a reminder
  after three steps, longer than either.  Three changes: a condition comes, goes and comes back.
  Three failures: attempts are counted past the last wait, and a failed delivery meets a failed write.
- `CHECK_DEADLOCK FALSE` stands in the runs of `Incidents` and `DebugWindow` (when the operations are
  used up and the clock has ended, nothing is left to do) and of `Alerts`, which always has a
  next step, the clock's.

## 4. Fairness

`ChangeSet!FairSpec` is weak fairness of `Jen`, the thread that holds the change lock: each of its
remote calls has a timeout, and nothing in it waits for another thread.  Nothing is assumed of
the world, and a crash may end the change at any time.

`KeaApiConfig!FairSpec` adds, to the same assumption of `Writer`, that time passes (`Age`: a pending
row grows older than `PENDING_SETTLE_SECONDS`) and that an operator keeps pressing two
controls: Settle with the discard consent, and Restore.  Strong fairness is what "keeps pressing"
means, since the lock may be taken at the moment of any one press.  The operator's part is the
content of `WayOut`: it does not say that Jen settles by itself, which it does not, but that the
controls it offers suffice.

`DebugWindow!FairSpec` is weak fairness of `Step` (an operation of Jen goes on: each of its calls has
a timeout), of `ApiSets` (so does a change over the API), of `Sweep` (the scheduler calls it again and
again), of `HostTick` (systemd runs the host's timer every minute, and a tick that runs goes on) and of `Tick`.  `HostEndsIt` holds
with Jen dead at any instant; it says "or the timer is stopped or its state cannot be read".

`Alerts!FairSpec` is weak fairness of `Pass`, the loop of `check_alerts`, and strong fairness of `Tick`:
the clock moves only between two passes in the model, and the loop sleeps there.  No delivery is
assumed to succeed: the failures are bounded, and `OperatorHears` speaks of what holds when they end.

## 5. Proofs

`tlapm` checks every leaf; no axiom is used beyond the assumptions named here.

**ChangeSet** (`ChangeSetProofs`), for every set of servers in `Nat`, every split
between the transports, with and without restarts and finalizer, and every bound
(`ChangeSetAssumption`):

- `TypeCorrect`: `Spec => []TypeOK`.
- `IInvHolds`: `Spec => []IInv`.  `HonestOutcome` speaks of the end only, so it is not inductive; `IInv`
  adds what holds on the way.  `PhaseOK` says which locals may be set in which phase.  `CommitOK`
  is the loop invariant of the commits: of the servers that nobody else touched, those in `committed`
  have the change written and all others are as they were found.  `RestartOK` adds the daemons
  restarted so far, `FinalizeOK` says that every target is on it and nobody else is.  `RevertOK` is the
  loop invariant of the put-back: only servers in `committed` or `unproved` may differ from what was
  found, and those already put back, restarted and not failed are as before.  Without these, a
  `HonestOutcome` at the end says nothing of what the next step of a loop starts from.
- `OutcomeIsHonest` and `FilesGoFirst`: the two safety invariants of run `set_outcome`.  The first
  excepts the servers of `Excepted`.  `FilesFirst` rests on two more lemmas: a daemon comes to run the change
  in the commits only over the API (`OnlyByApi`), and one that still runs it is still owed its revert
  (`RunningIsOwed`).
- `ElementsAreHonest`: when the change is about elements of lists (`Tellable`), no revert says ok of a change
  that stays, so only the `silent` file targets are left to except (`OutcomeButFiles`).
- `PromiseIsKept`: `Spec => KeepsPromise`, that ChangeSet implements `ChangePromise`.  A step of a phase
  maps to `Work`, the one that ends the change to `Answer`, an act of the world after it to
  `Elsewhere`, and the return to `Over`; `AnswerStep` is where `IInv` is needed.

**KeaApiConfig**, for any settings, defaults and list elements, any number of attempts, failures and acts
outside Jen (`ConfigAssumption`), in four modules: `KeaApiConfigProofs`, `KeaApiRefusalProofs`,
`KeaApiOkProofs` and `KeaApiRecordProofs`, each extending the one before.

- `KeaApiConfigProofs`: `ApiTypeCorrect` (`TypeOK`).  Types alone are not inductive, because the steps use
  locals that are set earlier: `TypeInv` says at which steps there is a candidate (`Chosen`), a digest of the
  write (`Answered`), a row of the change's own and an attempt left.  `ChangeInv` adds that what the daemon
  runs is complete and that the change in hand does something, which is what tells "the daemon
  runs the state before" from "it runs the candidate" later on.
- `KeaApiRefusalProofs`: `RefusalsChangeNothing` (`RefusalChangesNothing`), without further
  assumptions: with rollbacks, pages, and servers of both kinds.  `ServerIsExpected` and `FileIsUntouched` say
  what the daemon runs and what the file says at each step of a change that is alone.  The case that
  needs care is the refused `config-write` after an attempt without an answer: that one may have written,
  and only `MaybeWritten` keeps the answer from being a plain refusal.
- `KeaApiOkProofs`: `OkInvariant`, and from it `OkIsSo` (`OkIsTrue`), under `Tellable`: nobody rolls back, or what Jen changes are
  elements of lists (`Managed \subseteq Elements`).  For a rollback of another setting finding 1 is the
  counterexample.  `ServerIsExpected` gives the daemon.  For the file, `FileIsWritten` says what is known after
  each attempt (an answer: the rendering; none: that or the file of before), and `PlannedIsFile` that the
  file before is the one planned over, which is what makes the read-back decide between the two.  A
  rollback has no file planned over.  There `Turned` follows the two configurations from the read
  that the change was built on, through its `ok`, into the rollback that swaps them, and `ElementsTell`
  says that neither carries the other, so that inclusion decides where the planned file does not.
- `KeaApiRecordProofs`: `JensChangesOnRecord` (`JensChangesAreOnRecord`), for servers no page reads
  (`Readers = FALSE`); finding 2 is the page that makes it false.  `RecordInv` says of a row that the daemon
  took what the daemon runs (`TakenRuns`), of each digest in hand that it still is what runs
  (`Remembered`), and of a row about to be dropped that the daemon never took it, or Jen undid it
  (`Untaken`): with these, none of the steps that take a row off can take the last trace of a change.
  `SettlementsFinishWhatWasTaken` (`FinishedWasTaken`) and `OutsideRowsComeFromOutside`
  (`OutsideRowsAreOutside`) need `Tellable`, too: finding 1 is a rollback that is finished without having
  been taken.  `AloneInv` adds what the row and the newest digest say of a server that nobody else
  touched; `AloneTells` is where an answer that was lost is told from one that never was.
  `ReplacedFilesAreHeld` (`ReplacedFilesAreInHistory`) is for servers with an SSH host and captures that are stored, the
  exception section 6 names; `FileInv` carries the capture from the question to the write.
  `RowInvariant` is the part of `RecordInv` that pages cannot disturb.
- Also there, `PlannedFilesWereLoaded` (`ReplacedFilesWereLoaded`), for servers with an SSH host
  (`SshHosts = {TRUE}`: Jen sees no other file) and no two saves in one second (`SameSecond = FALSE`, which
  the code documents as the resolution of its clock).  Rule (L) of `file_proof` concludes from a
  load younger than the file that the daemon loaded it, and is right when the load is one of the file
  (`LoadedFromFile`).  When it is a config-set of Jen's younger than a file the daemon never saw
  (`Overtaken`), only the pending row stands in the way, so `OvertakenOnRecord` says that this row is
  still there and taken, unless it was given up as damaged or the file is Kea's rendering again.  That
  in turn needs `OvertakenInHand`: after such a set the write goes on only over the rendering or the file
  planned over, and a change whose attempts were all lost does not reach `finish` unless the file
  is the rendering.  `RowMoves` says what each step may do to the row, and `HostMoves` what it does to
  the file and the load.  `AskedAbout` carries the answer of the question to the write.
- `RenderingsAreKeasOwn` (`RenderingsAreKeas`), when nobody saves a file between the question about it
  and the read-back (`"lateEdit" \notin Hands`), the exception section 6 names: `WrittenInv` says that what is
  read back was written by Kea, or else is the rendering or the file planned over and no attempt was
  answered, and in that case the read-back refuses the file planned over (`FileTook`).

**Incidents** (`IncidentsProofs`), for any servers, services, requests and caps
(`IncidentsAssumption`):

- `NoteIsTyped`, `TroubleStaysInFront` (`UnresolvedIsOnRecord`), `TroubleIsListedOnce`,
  `NoteStaysBounded` (`NoteIsBounded`) and `UnreadableValuesAreKept`.
- The invariant is `IInv == TypeOK /\ RequestsOK /\ NoteIsBounded /\ NoteInOrder /\ UnresolvedIsOnRecord`.
  `RequestsOK` says that a request about to record holds an outcome its route can come to, and that a
  set-aside about to clear has stored its copy: without it a `Records` could put
  anything on the note.  The argument is in four lemmas about the list: a refresh keeps every trouble
  (`RefreshKeeps`), the soft cap drops only `rolled_back` entries (`SoftCapKeeps`), a record shows its own
  trouble (`RecordShowsItsOwn`), and what a record takes off, it takes off by its rule of clearing
  or by the ceiling (`RecordTakesOff`).  `VisibleStep` then goes through the actions.
- The ceiling cuts the list by how many later entries an entry has, so it bounds the list only when no
  two entries are of the same time.  `NoteInOrder` says so, that the note is finite and that nothing on it is
  later than the clock.  Then the number of later entries is a different one below `Ceiling` for each entry kept
  (`FewerAreLater`), and `CeilingHolds` follows from the theorem on injections into a finite set.
  An attention entry is not counted and adds nothing to what is (`CeilingStep`).

**DebugWindow** (`DebugWindowProofs`), for every deadline, any number of turn-ons, changes over
the API, failures and acts by hand (`WindowAssumption`):

- `WindowTypeCorrect` (`TypeOK`) and `OwnLevelAfterEveryWindow` (`OwnLevelComesBack`).
- The invariant `IInv` of `WindowTypesAndOriginals` says of every copy of the original level - the
  marker in the file, in the daemon and in a change in flight, the host's record, Jen's entry, and the
  two entries an operation holds in its locals - that it is the original, as long as no hand touched the
  logger.  `OwnLevelComesBack` alone is not inductive: it says nothing of a state with a window open, and
  the level put back may come from any of the copies.  One lemma per operator says that it keeps
  originals (`MarksKeepOriginals`, `HostPutsBack` ...), then there is one per action.
- `HostKeepsItsSession` (`HostKeepsSession`), from `SInv` of `SessionInvariant`, which adds five parts
  to `IInv`.  `TurningOn`: of the operations only a turn-on has no time of its own (`w.now = 0`), and
  it ends before its deadline, which is where `Brief` is needed.  `IsMarking`: what it wrote into the
  file, armed on the host and stored is of its own deadline, as far as it has come.  `ApiCarriesAlong`: a
  change over the API that is under way holds the marker of the file, so it does not put an older
  one back.  `PromiseHolds`: from the promise to the deadline, with no hand and no failure of the host
  since, the host's record, the file, Jen's entry and the locals of any sweep say the same.  `TickFound` is of
  the tick that is under way: it has not decided on a record of the deadline that is `Asked` for, which the
  turn-on under way names or the last one promised.  All of it is said until a tick is `overtaken`, and with
  `TickFound` that is the only way left: a tick that acts on the asked record found another one.  It is the
  second part that the theorem turns on: a promise is made by the last of seven steps, from what the first
  six left behind.
- `ForgottenWindowsAreRestored` (`DroppedWhenRestored`), from `DInv`, for runs without a change over the
  API, as the property says.  Jen drops its entry after one look at the daemon, several steps after
  the file was put back, and anyone may move in between.  The argument is that a marker only ever goes
  off (`Moves`) except in the three steps that mark or arm, and that these bring a deadline which neither the
  host's record nor the one a tick has in hand nor Jen's entry had (`FreshDeadline`): so what was once off
  stays off (`DoneIsOff`, `IsTrue`: what an entry says of the file and of the host is so), also when a tick
  opens a restored record again or saves an old one over it.  `Ready` says of each step what it needs to find: `Ahead`
  are the step Jen is at and the one it goes on to after the write in between, and each lemma `...Goes`
  hands what one step has found over to the next.

**Alerts** (`AlertsProofs`), for every backoff, reminder, kind and bound (`AlertsAssumption`):

- `AlertTypeCorrect`, `RecordIsTrue` (`RecordIsWhatWasHeard`), `NobodyIsWarnedTwice` (`NoSecondWarning`) and
  `RecoveriesFollowWarnings` (`AllClearFollowsWarning`).
- The three properties speak of one step of the pass each.  `RecordMatches` carries the truth through all of
  it: between passes the record `Match`es what was heard; while a message is being sent or its result
  stored, the state that was loaded is still the record, and the state worked on matches too.
  `Match` ties the age of a notification to that of what was heard, which is what bounds reminders from
  below.  `Sound` (notified implies active, a recovery is owed only of what ended) is needed because
  `Begun` and `Owed` decide by combinations that only sound states tell apart.

## 6. Findings and known divergences

Findings with a run (`PROJECT.json` quotes the lines that the code disagrees with):

1. **A lost rollback is reported as done** (`api_rollback_lost`).  `_restore_target` passes the
   candidate as Jen built it where `apply` compares with what the daemon runs, defaults written out;
   the lost set is then taken for a done one by inclusion.  A list element is compared exactly and
   is not affected, which is why `api_outside` holds.  In a change set the revert of that server then
   counts as done: the change ends rolled back or aborted, nobody is named, and an untouched server still
   carries it.  `HonestOutcome` and `KeepsPromise` except those servers (`misled`); `ElementsAreHonest` says
   which changes it cannot happen to.
2. **A page records the past as an outside change** (`api_page_race`).
3. **A file write with a lost answer ends as aborted** (`set_lost_commit`).  `HonestOutcome` excepts
   those servers (`silent`), `StrictOutcome` does not.
4. **A clean change that restarts nothing clears the sign of a stopped daemon**
   (`incidents_cleared`).
5. **A late record clears a later incident** (`incidents_cleared`, too).  `UnresolvedIsOnRecord`
   excepts what 4 and 5 take off (`late`), `ClearedOnProof` does not.
6. **The old session's timer takes the new session's marker** (`debug_extended`).  An extension that
   writes its marker in the minute the old deadline passes loses it to the host's tick before
   the host is armed for it.  Jen reads the daemon at its original level, takes it for another Kea than the
   one it edited, and keeps a `contradiction` that only Forget ends; `session` therefore counts from
   where the marker is still in the file.
7. **A tick ends a session that was extended under it** (`debug_extended`, too).  It tests the deadline
   without the lock and restores under it without testing again, so a session that is extended while the
   tick waits for `investigation-arm` is over at once.  `HostKeepsSession` excepts it (`overtaken`),
   `SessionHolds` does not.  The counterexamples of 6 and 7 are equally short, and TLC reports the one it
   meets first.

Divergences seen while modelling that no run shows; the models contain the behaviour, and the
passing runs leave out the fault or the hand that leads to it, or name the exception:

- A config-set makes the daemon's load younger than an edit of the file it never saw, and with no row on
  record rule (L) takes that for a load of the file (`kea_api_config.py:640-649`, CFG-004).  There are
  three such sets: Jen's own undo of a refused `config-write` (1133-1143), a person's, and that of a change
  whose row was damaged and which a restore then superseded; they are the exceptions `author` and `damaged`
  of `ReplacedFilesWereLoaded`.
- A capture whose insert fails does not stop the `config-write` (`kea_host.py:808-865`, CFG-005): the
  failure `capture` is not in `api_apply`.
- A file that a hand saves right after Kea wrote it may be recorded as Kea's own rendering
  (`kea_api_config.py:749-762`, 1415-1448): the hand `lateEdit` is not in `api_apply`.
- A settlement asks by inclusion, so that a hand may make a change finished that the daemon never
  took (`kea_api_config.py:1013` against the docstring at 968): `FinishedWasTaken` speaks of servers
  nobody touched.
- `still_new_ids` does not hold a server whose revert happened and was not answered
  (`kea_changeset.py:121`, 626-632); `routes/settings/infrastructure.py:2540` reads it.
- The import into a file takes no change lock (`routes/subnets.py:2576`), which the comment at
  `servers.py:1118` says a restore shares with an import.
- Dismiss takes off incidents recorded after the page was loaded (`servers.py:315`).
- A restart between a delivered alert and its stored state forgets more than the comments at
  `alerts.py:1180` and 1181 say ("a restart may repeat this notification"): when it was the *recovery*
  that was delivered, the row still says notified, and the condition that returns is not warned of.
- `_clear_orphan_states` deletes the row and leaves `_unsaved_states` (`alerts.py:1184`): a state in memory
  outlives its key, and speaks again if the key comes back.
- `_state_keys` lists rows only (`alerts.py:1428`): the state of a departed subnet that was never stored is
  never ended; `OperatorHears` asks for a row.  The last three are what `amnesia` and that condition except.
- A restart of the daemon that fails inside `_daemon_step` of a fresh restore is not counted
  against the one restart an entry has (`investigation_logging.py:1368`, INV-006).
- `record_outcome` answers False when nothing was stored, and `apply_change` drops it
  (`kea_changeset.py:1384`).

## 7. What is only model-checked, and what is not modelled

Every safety invariant and every action property of the passing runs is proved, under the assumptions
section 5 names.  Model-checked and not proved is liveness (`LockIsReleased`, `WayOut`, `ChangeEnds`, `HostEndsIt`,
`JenEndsIt`, `OperatorHears`), since the prover has no rules for `ENABLED` and fairness.

Simplifications that a reader should have in mind:

- There is one writer of the daemon's configuration at a time.  The change lock is of the process,
  and Jen runs one worker process (`src/run.py`); operators and pages are separate actors.
- ChangeSet takes a change over the API as one step with the outcomes that KeaApiConfig allows, and
  leaves the settlement of earlier changes at plan time to KeaApiConfig.
- ChangeSet knows nothing of DebugWindow: the window of investigation logging and an empty list of servers are reasons to abort, folded into
  the `read` failure.
- A crash in the middle of a change set leaves no answer and no incident, so no property speaks of
  it: it is a hazard without a property in `PROJECT.json`.
- In Incidents, trouble whose record a crash or a failing store prevented counts as excused: the
  request's own page told it, or nobody could.

Parts without a model are listed in `PROJECT.json` with the reason.

## 8. Plan

In this order; each is a module of its own that states its promise first.

1. **CA rotation** (`CaRotation`, over `Incidents`): the `rotation-pending` note with its fingerprint,
   reconciliation before and after, distribute, restart, commit, the clearing in `finally`, a crash
   at each point, and promote and discard beside it.  Safety: the CA in use is one every daemon not
   named by an incident answers.  Proof: the invariant over note and files.
2. **Proofs about KeaApiConfig, further**: `FinishedWasTaken` while pages read, from the part of `AloneInv` that
   a page cannot disturb.
3. **Composition of ChangeSet and KeaApiConfig**: an abstract `ApiCommit` with the three outcomes that
   ChangeSet assumes, and KeaApiConfig shown to implement it.
4. **Provider budget** (`ProviderBudget`) and **periodic jobs** (`PeriodicJobs`): small machines with
   real races: a slot that returns once, a job that never stays running.
5. **DebugWindow, further**: damaged markers, a server that was replaced.  **Alerts, further**: the certificate's buckets and the daily summary.
6. **Transport switch** and **configuration file**: over the pending rows of KeaApiConfig, and the
   nested locks.
7. Self-update and restore, as far as their steps are decided by state and not by the host.
