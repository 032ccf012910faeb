---------------------------- MODULE KeaApiConfig ----------------------------
(***************************************************************************)
(* A change of one Kea server's configuration over the daemon's own API    *)
(* (src/jen/services/kea_api_config.py) with the rows it keeps in Config   *)
(* history (src/jen/services/config_revisions.py).                         *)
(*                                                                         *)
(* Kea has no compare-and-set and no transaction over its two stores - the *)
(* configuration the daemon runs and the file it starts from - so Jen      *)
(* compares, sets, writes, verifies and keeps a `pending` row that says    *)
(* what may be half done.  The writer below is one holder of the change    *)
(* lock; it makes at most one remote call, or one statement on the store,  *)
(* per step, and anything may happen between two of its steps: a lost      *)
(* request or reply, a refusal, a store that fails, a crash of Jen, a      *)
(* hand `config-set`, a hand edit of the file, a restart of the daemon, a  *)
(* page that reads.                                                        *)
(*                                                                         *)
(* A configuration is the set of settings it states: keys, and elements of *)
(* lists.  A daemon renders more than it is given - the defaults of every  *)
(* setting (Kea) - so "the daemon carries the candidate" is inclusion for  *)
(* keys and equality for the elements of lists; a digest, like the sha256  *)
(* of a file, is the set itself.                                           *)
(***************************************************************************)
EXTENDS Naturals, FiniteSets

CONSTANTS
  Keys,           \* every setting a configuration may state
  Implied,        \* the settings Kea writes out beside each one it is given
  Elements,       \* those that are elements of a list
  Managed,        \* the settings Jen's changes add or remove
  HandFiles,      \* what an operator may save over the file
  SshHosts,       \* the servers looked at: with an SSH host (a file Jen can read), without
  WriteAttempts,  \* WRITE_ATTEMPTS
  Ops,            \* the callers of this run: change, import, restore, rollback, settle
  Readers,        \* do pages read the daemon while a change runs?
  SameSecond,     \* may a file be saved in the second of the daemon's last load?
  Hands,          \* what happens outside Jen: set, edit, lateEdit, restart, rot
  MaxHands,       \* how often
  Faults,         \* what may fail: lost, refused, store, capture, unread, crash
  MaxFaults,      \* how often
  None            \* no value

Configs == SUBSET Keys
Kea(c) == c \cup UNION {Implied[k] : k \in c}
\* Mutant: lists are compared like keys, by inclusion.
CarriesAnyList(run, cand) == cand \subseteq run
\* _carries: every key with an equal value, lists of the same elements.
Carries(run, cand) == cand \subseteq run /\ run \cap Elements \subseteq cand

AllOps == {"change", "import", "restore", "rollback", "settle"}

ASSUME ConfigAssumption ==
  /\ Implied \in [Keys -> SUBSET Keys]
  /\ \A k \in Keys : \A d \in Implied[k] : Implied[d] = {}
  /\ Elements \subseteq Keys /\ \A k \in Keys : Implied[k] \cap Elements = {}
  /\ Managed \subseteq Keys /\ \A k \in Keys : Implied[k] \cap Managed = {}
  /\ \A c \in Configs : c # None
  /\ HandFiles \subseteq Configs
  /\ SshHosts \subseteq BOOLEAN /\ Readers \in BOOLEAN /\ SameSecond \in BOOLEAN
  /\ WriteAttempts \in Nat \ {0}
  /\ Ops \subseteq AllOps
  /\ Hands \subseteq {"set", "edit", "lateEdit", "restart", "rot"}
  /\ Faults \subseteq {"lost", "refused", "store", "capture", "unread", "crash"}
  /\ MaxHands \in Nat /\ MaxFaults \in Nat

VARIABLES
  running,    \* what the daemon runs
  file,       \* what the file on its host says
  newer,      \* the file's mtime is after the daemon's last commit
  known,      \* history variable: the daemon loaded this file, or rendered it
  author,     \* history variable: who chose what runs - file, hand, jen, undo
  hasSSH,     \* the server has an SSH host, through which Jen reads its file
  pending,    \* the row of source `pending`, or NoRow
  damaged,    \* a row was marked `damaged`
  lastKea,    \* digest of the newest settled row of kind `kea`
  lastRaw,    \* sha256 of the newest row of kind `raw`
  rendering,  \* sha256 of the newest row of source `rendering`
  refused,    \* the stored probe remembers a refused config-write
  pc, w,      \* the holder of the change lock: its next step and its locals
  result,     \* what apply / settle_pending returned
  reader,     \* what an unlocked read got from the daemon and has not captured
  hands, faults  \* how many outside events and failures happened so far

host == <<running, file, newer, known, author, hasSSH>>
store == <<pending, damaged, lastKea, lastRaw, rendering, refused>>
vars == <<running, file, newer, known, author, hasSSH, pending, damaged, lastKea,
          lastRaw, rendering, refused, pc, w, result, reader, hands, faults>>

NoRow == [state |-> "no row"]
\* young: less than PENDING_SETTLE_SECONDS old.  taken: history variable, the
\* daemon executed this row's config-set.
Row(cand, before, sha) ==
  [state |-> "live", cand |-> cand, before |-> before, sha |-> sha,
   young |-> TRUE, taken |-> FALSE]

NoWork == [op |-> "none", discard |-> FALSE, cand |-> None, before |-> None,
           expect |-> None, planned |-> None, h1 |-> None, seen |-> None,
           tries |-> 0, raw |-> None, file0 |-> None, hands0 |-> 0, asked |-> 0]
NoResult == [code |-> "none", needsHands |-> FALSE]

----------------------------------------------------------------------------
(* Failures.  Each may happen MaxFaults times in all.                      *)

Fault(kind) == /\ kind \in Faults
               /\ faults < MaxFaults
               /\ faults' = faults + 1
Fine == UNCHANGED faults
\* A question whose answer never came, whether or not it arrived.
NoAnswer == Fault("lost")

Goto(next) == pc' = next /\ UNCHANGED result
\* Mutant: a code that no caller knows.
EndInError(code, needsHands) ==
  /\ pc' = "done"
  /\ result' = [code |-> IF needsHands THEN "error" ELSE code, needsHands |-> needsHands]
End(code, needsHands) ==
  /\ pc' = "done"
  /\ result' = [code |-> code, needsHands |-> needsHands]

----------------------------------------------------------------------------
(* What the holder of the lock keeps for its later steps.                  *)

Commence(op, discard) == w' = [NoWork EXCEPT !.op = op, !.discard = discard]
\* The candidate c and the configuration it was built from.
Build(c) ==
  w' = [w EXCEPT !.cand = c, !.before = running, !.expect = running, !.hands0 = hands]
See == w' = [w EXCEPT !.seen = running]
KeepDigest(c) == w' = [w EXCEPT !.h1 = c]
KeepPlanned == w' = [w EXCEPT !.planned = file]
KeepReadBack == w' = [w EXCEPT !.raw = file]
CountAttempt == w' = [w EXCEPT !.tries = @ + 1]
\* History variables: the file at the row's insertion, and when it was asked about.
MarkRecorded == w' = [w EXCEPT !.file0 = file]
MarkAsked == w' = [w EXCEPT !.asked = hands]
\* revert: the digest the change's own write returned, and its two configurations
\* swapped.
TurnAround ==
  w' = [NoWork EXCEPT !.op = "rollback", !.cand = w.before, !.before = w.cand,
                      !.expect = w.h1, !.hands0 = w.hands0]

----------------------------------------------------------------------------
(* The store: config_revisions.                                            *)

\* discard(rev_id): False on a store error, and the row is still there.
DropRow == \/ Fine /\ pending' = NoRow
           \/ Fault("store") /\ UNCHANGED pending

\* Mutant: a capture made over a pending row.
CaptureOverPending(digest) ==
  IF lastKea # digest THEN Fine /\ lastKea' = digest ELSE Fine /\ UNCHANGED lastKea

\* _capture: a digest unlike the newest kea row's is a new row (baseline or
\* external), never over a pending row; a failed insert is logged and dropped.
CaptureDaemon(digest) ==
  IF pending = NoRow /\ lastKea # digest
  THEN \/ Fine /\ lastKea' = digest
       \/ Fault("capture") /\ UNCHANGED lastKea
  ELSE Fine /\ UNCHANGED lastKea

\* Mutant: the question about the file reads it without capturing.
CaptureNothing == Fine /\ UNCHANGED lastRaw

\* _capture_baseline_or_external_change, the same rule for the file.
CaptureFile ==
  IF lastRaw # file
  THEN \/ Fine /\ lastRaw' = file
       \/ Fault("capture") /\ UNCHANGED lastRaw
  ELSE Fine /\ UNCHANGED lastRaw

\* record_rendering_after_write of the file a read returned.
RecordRendering(sha) == rendering' = sha /\ lastRaw' = sha

----------------------------------------------------------------------------
(* file_proof: may a config-write replace the file?                        *)

\* Mutants: any planned file will do; a load is a load whoever made it.
IsAnyPlanned(sha) == sha # None
IsLoadedByJen == ~newer /\ Carries(running, file)

IsRendering == rendering = file
IsPlanned(sha) == sha # None /\ sha = file
IsLoaded == ~newer /\ pending = NoRow /\ Carries(running, file)
Proved(sha) == IsRendering \/ IsPlanned(sha) \/ IsLoaded

\* Mutant: the box beside Settle it now does not reach the sender.
MayReplaceProved(sha, discard) == Proved(sha)
MayReplace(sha, discard) == Proved(sha) \/ discard

\* _ask_the_file with its capturing read: a file that cannot be read is never
\* written over; `discard` is the operator's word on a file nothing proves.  A
\* daemon that does not answer leaves (L) unproved.
AskTheFile(sha, discard, Yes, No) ==
  \/ Fault("unread") /\ No /\ UNCHANGED lastRaw
  \/ /\ NoAnswer /\ lastRaw' = file
     /\ IF IsRendering \/ IsPlanned(sha) \/ discard THEN Yes ELSE No
  \/ /\ CaptureFile
     /\ IF MayReplace(sha, discard) THEN Yes ELSE No

----------------------------------------------------------------------------
(* The daemon.                                                             *)

Stamp == newer' \in IF SameSecond THEN BOOLEAN ELSE {TRUE}

\* The daemon executed config-set(c): the commit is its newest load.
Commit(c, who) ==
  /\ running' = Kea(c) /\ newer' = FALSE /\ author' = who
  /\ UNCHANGED <<file, known, hasSSH>>

\* The daemon executed config-write: its configuration replaces the file.
Render ==
  /\ file' = running /\ known' = TRUE /\ Stamp
  /\ UNCHANGED <<running, author, hasSSH>>

\* A command's answer was lost, and Kea did or did not execute it first.  It
\* executes commands one at a time, so the next question sees which.
Lost(Executed, notExecuted) == NoAnswer /\ (Executed \/ UNCHANGED notExecuted)

----------------------------------------------------------------------------
(* The start of an operation, under the change lock.                       *)

\* Jen adds a setting, or removes one with what Kea wrote out beside it.
Candidates(c) ==
  {c \cup {k} : k \in Managed \ c}
    \cup {c \ ({k} \cup Implied[k]) : k \in Managed \cap c}

\* probe_gate: a remembered refusal stops a change and an import only.
Begin(op, discard) ==
  /\ pc = "idle"
  /\ op \in Ops \ {"rollback"}
  /\ discard => op = "settle"
  /\ Commence(op, discard)
  /\ IF refused /\ op \in {"change", "import"}
     THEN End("guard", FALSE)
     ELSE Goto(IF op = "settle" THEN "settle" ELSE "read")
  /\ UNCHANGED <<host, store, reader, hands, faults>>

\* The read a change is built on.  A restore reads without capturing.
Read ==
  /\ pc = "read"
  /\ \/ NoAnswer /\ End("noanswer", FALSE) /\ UNCHANGED <<w, lastKea>>
     \/ /\ IF w.op = "restore" THEN Fine /\ UNCHANGED lastKea ELSE CaptureDaemon(running)
        /\ \E c \in Candidates(running) : Build(c)
        /\ Goto(IF w.op = "restore" THEN "stale" ELSE "block")
  /\ UNCHANGED <<host, pending, damaged, lastRaw, rendering, refused, reader, hands>>

----------------------------------------------------------------------------
(* An earlier change that is still on record: pending_block and            *)
(* settle_pending reconcile it by content; a restore supersedes a stale    *)
(* one (_stale_pending).                                                   *)

AfterBlock == IF hasSSH /\ w.op # "rollback" THEN "proof" ELSE "record"
Unsettled == IF w.op = "settle" THEN End("unsettled", FALSE) ELSE End("unverified", TRUE)
Settled == IF w.op = "settle" THEN End("settled", FALSE) ELSE Goto(AfterBlock)

\* pending_block.
Block ==
  /\ pc = "block"
  /\ \/ Fault("store") /\ End("unreadable", FALSE) /\ UNCHANGED w
     \/ pending = NoRow /\ Fine /\ Goto(AfterBlock) /\ UNCHANGED w
     \/ pending.state = "damaged" /\ Fine /\ Unsettled /\ UNCHANGED w
     \/ /\ pending.state = "live"
        /\ \/ NoAnswer /\ Unsettled /\ UNCHANGED w
           \/ Fine /\ Goto("reconcile") /\ See
  /\ UNCHANGED <<host, store, reader, hands>>

\* settle_pending: the operator's button, with or without the discard box.
Settle ==
  /\ pc = "settle"
  /\ \/ NoAnswer /\ Unsettled /\ UNCHANGED w
     \/ Fault("store") /\ End("unreadable", FALSE) /\ UNCHANGED w
     \/ pending = NoRow /\ Fine /\ Unsettled /\ UNCHANGED w
     \/ pending # NoRow /\ Fine /\ Goto("reconcile") /\ See
  /\ UNCHANGED <<host, store, reader, hands>>

\* Mutant: the damaged row is deleted, not kept.
DeleteDamaged == DropRow /\ UNCHANGED damaged

MarkDamaged == \/ Fine /\ pending' = NoRow /\ damaged' = TRUE
               \/ Fault("store") /\ UNCHANGED <<pending, damaged>>

\* Mutant: the candidate is asked about before the state before it.
NeverReachedByContent == w.seen = pending.before /\ ~Carries(w.seen, pending.cand)
\* The daemon still runs what it ran before the row's change.
NeverReached == w.seen = pending.before

\* _reconcile_pending up to the question about the file.
Reconcile ==
  /\ pc = "reconcile"
  /\ \/ /\ pending.state = "live" /\ pending.young
        /\ Fine /\ Unsettled /\ UNCHANGED <<pending, damaged>>
     \/ /\ pending.state = "damaged" \/ ~pending.young
        /\ NeverReached
        /\ DropRow /\ UNCHANGED damaged
        /\ IF pending' = NoRow THEN Settled ELSE Unsettled
     \/ /\ pending.state = "damaged" /\ ~NeverReached
        /\ MarkDamaged
        /\ IF pending' = NoRow THEN Settled ELSE Unsettled
     \/ /\ pending.state = "live" /\ ~pending.young /\ ~NeverReached
        /\ Fine /\ UNCHANGED <<pending, damaged>>
        /\ IF /\ Carries(w.seen, pending.cand)
              /\ ~hasSSH \/ pending.sha # None \/ w.discard
           THEN Goto(IF hasSSH THEN "settleAsk" ELSE "settleWrite")
           ELSE Unsettled
  /\ UNCHANGED <<host, lastKea, lastRaw, rendering, refused, w, reader, hands>>

\* write_file of a settlement: the file first, then one config-write.
SettleAsk ==
  /\ pc = "settleAsk"
  /\ AskTheFile(pending.sha, w.discard, Goto("settleWrite"), Unsettled)
  /\ MarkAsked
  /\ UNCHANGED <<host, pending, damaged, lastKea, rendering, refused, reader, hands>>

SettleWrite ==
  /\ pc = "settleWrite"
  /\ \/ Fine /\ Render /\ Goto("settleGet")
     \/ Fault("refused") /\ Unsettled /\ UNCHANGED host
     \/ Lost(Render, host) /\ Unsettled
  /\ UNCHANGED <<store, w, reader, hands>>

SettleGet ==
  /\ pc = "settleGet"
  /\ \/ NoAnswer /\ Unsettled /\ UNCHANGED w
     \/ Fine /\ Goto("settleFinish") /\ KeepDigest(running)
  /\ UNCHANGED <<host, store, reader, hands>>

\* finish(rev_id): the row becomes the newest settled row of kind kea.
FinishRow == \/ Fine /\ pending' = NoRow /\ lastKea' = w.h1
             \/ Fault("store") /\ UNCHANGED <<pending, lastKea>>

SettleFinish ==
  /\ pc = "settleFinish"
  /\ FinishRow
  /\ Goto("settleRecord")
  /\ UNCHANGED <<host, damaged, lastRaw, rendering, refused, w, reader, hands>>

\* record_rendering_after_write reads the file itself here.
SettleRecord ==
  /\ pc = "settleRecord"
  /\ \/ hasSSH /\ Fine /\ RecordRendering(file)
     \/ hasSSH /\ (Fault("unread") \/ Fault("store")) /\ UNCHANGED <<lastRaw, rendering>>
     \/ ~hasSSH /\ Fine /\ UNCHANGED <<lastRaw, rendering>>
  /\ IF pending = NoRow THEN Settled ELSE Unsettled
  /\ UNCHANGED <<host, pending, damaged, lastKea, refused, w, reader, hands>>

\* _stale_pending, asked by a restore instead of pending_block.
Stale ==
  /\ pc = "stale"
  /\ \/ Fault("store") /\ End("unreadable", FALSE) /\ UNCHANGED w
     \/ pending = NoRow /\ Fine /\ Goto(AfterBlock) /\ UNCHANGED w
     \/ pending.state = "damaged" /\ Fine /\ Goto("supersede") /\ UNCHANGED w
     \/ /\ pending.state = "live"
        /\ \/ NoAnswer /\ End("unverified", TRUE) /\ UNCHANGED w
           \/ /\ Fine
              /\ See
              /\ IF \/ pending.young
                    \/ running # pending.before /\ Carries(running, pending.cand)
                 THEN End("unverified", TRUE)
                 ELSE Goto("supersede")
  /\ UNCHANGED <<host, store, reader, hands>>

Supersede ==
  /\ pc = "supersede"
  /\ MarkDamaged
  /\ Goto(AfterBlock)
  /\ UNCHANGED <<host, lastKea, lastRaw, rendering, refused, w, reader, hands>>


----------------------------------------------------------------------------
(* apply: the nine steps, in this order and no other.                      *)

\* What apply returns when the change is half done: the row stays (_unproved).
EndOwing(code) == End(code, TRUE)

\* What apply returns after dropping its row: nothing is left half done.
EndDropping(code) ==
  /\ pc' = "drop"
  /\ result' = [code |-> code, needsHands |-> FALSE]

\* The file is proved before anything is sent: by the Plan of a change, by
\* apply itself for a restore and an import.
Proof ==
  /\ pc = "proof"
  /\ AskTheFile(None, FALSE, Goto("record") /\ KeepPlanned, End("guard", FALSE) /\ UNCHANGED w)
  /\ UNCHANGED <<host, pending, damaged, lastKea, rendering, refused, reader, hands>>

\* (3) The row precedes the send.  A rollback's row carries the file as it is.
Record ==
  /\ pc = "record"
  /\ \/ /\ pending # NoRow \/ "store" \in Faults
        /\ IF pending # NoRow THEN Fine ELSE Fault("store")
        /\ End("unreadable", FALSE) /\ UNCHANGED <<pending, w>>
     \/ /\ pending = NoRow
        /\ \E sha \in {w.planned, file, None} :
             /\ IF hasSSH /\ w.op = "rollback"
                THEN (sha = file /\ Fine) \/ (sha = None /\ Fault("unread"))
                ELSE sha = w.planned /\ Fine
             /\ pending' = Row(w.cand, w.expect, sha)
        /\ MarkRecorded
        /\ Goto("compare")
  /\ UNCHANGED <<host, damaged, lastKea, lastRaw, rendering, refused, reader, hands>>

\* (4) config-hash-get still answers the digest this change was built from.
Compare ==
  /\ pc = "compare"
  /\ \/ NoAnswer /\ EndDropping("noanswer")
     \/ Fine /\ running # w.expect /\ EndDropping("conflict")
     \/ Fine /\ running = w.expect /\ Goto("set")
  /\ UNCHANGED <<host, store, w, reader, hands>>

Take == /\ Commit(w.cand, "jen")
        /\ pending' = [pending EXCEPT !.taken = TRUE]

\* (5) config-set, whose answer carries the daemon's new digest (one that does
\* not is asked for: no digest at all is a person's to resolve).
Set ==
  /\ pc = "set"
  /\ \/ /\ Fine /\ Take
        /\ KeepDigest(Kea(w.cand))
        /\ Goto(IF hasSSH THEN "ask" ELSE "write")
     \/ NoAnswer /\ Take /\ EndOwing("unverified") /\ UNCHANGED w
     \/ Fault("refused") /\ Goto("afterRefusal") /\ UNCHANGED <<host, pending, w>>
     \/ Lost(Take, <<host, pending>>) /\ Goto("afterLost") /\ UNCHANGED w
  /\ UNCHANGED <<damaged, lastKea, lastRaw, rendering, refused, reader, hands>>

\* _after_a_set_failure: a refusal is asked about, never assumed.
AfterRefusal ==
  /\ pc = "afterRefusal"
  /\ \/ NoAnswer /\ EndOwing("noanswer")
     \/ Fine /\ running = w.expect /\ EndDropping("set-failed")
     \/ Fine /\ running # w.expect /\ EndOwing("unverified")
  /\ UNCHANGED <<host, store, w, reader, hands>>

\* Mutant: the state before is asked about by inclusion.
RunsBeforeByContent == w.before \subseteq running

RunsBefore == running = w.before
RunsCandidate == ~RunsBefore /\ Carries(running, w.cand)

\* _after_a_set_without_an_answer: whose configuration runs?  The one before
\* it, compared as it stands, is asked about first; then the candidate, by
\* inclusion.
AfterLost ==
  /\ pc = "afterLost"
  /\ \/ NoAnswer /\ EndOwing("noanswer") /\ UNCHANGED w
     \/ Fine /\ RunsBefore /\ EndDropping("set-failed") /\ UNCHANGED w
     \/ /\ Fine /\ RunsCandidate
        /\ KeepDigest(running)
        /\ Goto(IF hasSSH THEN "ask" ELSE "write")
     \/ /\ Fine /\ ~RunsBefore /\ ~RunsCandidate
        /\ EndOwing("unverified") /\ UNCHANGED w
  /\ UNCHANGED <<host, store, reader, hands>>

\* (6) The file is still the one proved, or Jen's rendering - else the change
\* is live, its file waits, and its row stays.
Ask ==
  /\ pc = "ask"
  /\ AskTheFile(w.planned, FALSE, Goto("write"), EndOwing("unverified"))
  /\ MarkAsked
  /\ UNCHANGED <<host, pending, damaged, lastKea, rendering, refused, reader, hands>>

IsLastAttempt == w.tries + 1 = WriteAttempts

\* (6) config-write, sent again when no answer came.
Write ==
  /\ pc = "write"
  /\ \/ Fine /\ Render /\ Goto("verify") /\ UNCHANGED <<refused, w>>
     \/ /\ Fault("refused") /\ refused' = TRUE
        /\ Goto("undo") /\ UNCHANGED <<host, w>>
     \/ /\ Lost(Render, host)
        /\ CountAttempt
        /\ Goto(IF IsLastAttempt THEN "verify" ELSE "write")
        /\ UNCHANGED refused
  /\ UNCHANGED <<pending, damaged, lastKea, lastRaw, rendering, reader, hands>>

\* No attempt was answered: the file may not carry this change.
Unwritten == w.tries = WriteAttempts
\* Mutant: only the last attempt's answer counts.
LastAnswerCounts == FALSE
\* An earlier attempt got no answer: it may have written.
MaybeWritten == w.tries > 0

\* _undo: the configuration before it is set again ...
Undo ==
  /\ pc = "undo"
  /\ \/ Fine /\ Commit(w.before, "undo") /\ Goto("undoGet")
     \/ Fault("refused") /\ EndOwing("write-failed") /\ UNCHANGED host
     \/ Lost(Commit(w.before, "undo"), host) /\ Goto("undoGet")
  /\ UNCHANGED <<store, w, reader, hands>>

\* ... and proved; an attempt that got no answer may have written the file.
UndoGet ==
  /\ pc = "undoGet"
  /\ \/ NoAnswer /\ EndOwing("write-failed")
     \/ Fine /\ running \notin {w.expect, w.before} /\ EndOwing("write-failed")
     \/ /\ Fine /\ running \in {w.expect, w.before}
        /\ IF MaybeWritten THEN EndOwing("write-failed") ELSE EndDropping("write-failed")
  /\ UNCHANGED <<host, store, w, reader, hands>>

\* (7) config-get carries the digest the set returned.
Verify ==
  /\ pc = "verify"
  /\ \/ NoAnswer /\ EndOwing("unverified")
     \/ Fine /\ running # w.h1 /\ EndOwing("unverified")
     \/ /\ Fine /\ running = w.h1
        /\ IF hasSSH THEN Goto("readBack")
           ELSE IF Unwritten THEN EndOwing("unverified") ELSE Goto("finish")
  /\ UNCHANGED <<host, store, w, reader, hands>>

\* Mutant: content alone says that the file took the change.
TookByContent == Carries(w.h1, file)
FileTook == Carries(w.h1, file) /\ ~(Unwritten /\ file = w.planned)

\* (8) The file carries what the daemon runs.  One that cannot be read back
\* is no difference when the write was answered.
ReadBack ==
  /\ pc = "readBack"
  /\ \/ /\ Fault("unread")
        /\ IF Unwritten THEN EndOwing("unverified") ELSE Goto("finish")
        /\ UNCHANGED w
     \/ /\ Fine
        /\ IF FileTook
           THEN Goto("finish") /\ KeepReadBack
           ELSE EndOwing("unverified") /\ UNCHANGED w
  /\ UNCHANGED <<host, store, reader, hands>>

\* (9) The row is finished in place before the change is `ok`.
Finish ==
  /\ pc = "finish"
  /\ FinishRow
  /\ Goto("recordFile")
  /\ UNCHANGED <<host, damaged, lastRaw, rendering, refused, w, reader, hands>>

RecordFile ==
  /\ pc = "recordFile"
  /\ \/ w.raw # None /\ Fine /\ RecordRendering(w.raw)
     \/ w.raw # None /\ Fault("store") /\ UNCHANGED <<lastRaw, rendering>>
     \/ w.raw = None /\ Fine /\ UNCHANGED <<lastRaw, rendering>>
  /\ IF pending = NoRow THEN End("ok", FALSE) ELSE EndOwing("unverified")
  /\ UNCHANGED <<host, pending, damaged, lastKea, refused, w, reader, hands>>

Drop ==
  /\ pc = "drop"
  /\ DropRow
  /\ pc' = "done"
  /\ UNCHANGED <<host, damaged, lastKea, lastRaw, rendering, refused, w, result, reader, hands>>

\* Mutant: the lock is kept on the way out of an error.
ReturnOnSuccess ==
  /\ pc = "done" /\ ~result.needsHands
  /\ pc' = "idle" /\ w' = NoWork /\ result' = NoResult
  /\ UNCHANGED <<host, store, reader, hands, faults>>

\* The caller has its answer and releases the change lock.
Return ==
  /\ pc = "done"
  /\ pc' = "idle" /\ w' = NoWork /\ result' = NoResult
  /\ UNCHANGED <<host, store, reader, hands, faults>>

\* A change set whose later target failed puts this one back (revert): the
\* configuration before, guarded by the digest its own write returned, and
\* the candidate as Jen built it in the place of "the configuration before".
Revert ==
  /\ pc = "done" /\ result.code = "ok" /\ w.op = "change"
  /\ "rollback" \in Ops
  /\ TurnAround
  /\ pc' = "block" /\ result' = NoResult
  /\ UNCHANGED <<host, store, reader, hands, faults>>

----------------------------------------------------------------------------
(* A page reads while the lock is held by someone else: config-get, then   *)
(* the capture, two steps with nothing between them but time.              *)

ReaderGet ==
  /\ Readers /\ reader = None
  /\ reader' = running
  /\ UNCHANGED <<host, store, pc, w, result, hands, faults>>

ReaderCapture ==
  /\ reader # None
  /\ CaptureDaemon(reader)
  /\ reader' = None
  /\ UNCHANGED <<host, pending, damaged, lastRaw, rendering, refused, pc, w, result, hands>>

----------------------------------------------------------------------------
(* What happens outside Jen.                                               *)

Outside(kind) == /\ kind \in Hands
                 /\ hands < MaxHands
                 /\ hands' = hands + 1

HandSet ==
  /\ Outside("set")
  /\ \E c \in HandFiles : Kea(c) # running /\ Commit(c, "hand")
  /\ UNCHANGED <<store, pc, w, result, reader, faults>>

\* Saved after the question about the file and before the read-back that
\* records what config-write rendered.
Late == pc \in {"write", "verify", "readBack",
                "settleWrite", "settleGet", "settleFinish", "settleRecord"}

HandEdit ==
  /\ Outside(IF Late THEN "lateEdit" ELSE "edit")
  /\ \E f \in HandFiles \ {file} : file' = f
  /\ known' = FALSE /\ Stamp
  /\ UNCHANGED <<running, author, hasSSH, store, pc, w, result, reader, faults>>

\* A restart, or config-reload: the daemon loads the file as it stands.
Restart ==
  /\ Outside("restart")
  /\ running' = Kea(file) /\ newer' = FALSE /\ known' = TRUE /\ author' = "file"
  /\ UNCHANGED <<file, hasSSH, store, pc, w, result, reader, faults>>

\* The body of the pending row can no longer be read as a configuration.
RowRots ==
  /\ Outside("rot")
  /\ pc = "idle" /\ pending.state = "live"
  /\ pending' = [pending EXCEPT !.state = "damaged"]
  /\ UNCHANGED <<host, damaged, lastKea, lastRaw, rendering, refused, pc, w, result, reader, faults>>

\* PENDING_SETTLE_SECONDS pass.
Age ==
  /\ pc = "idle" /\ pending.state = "live" /\ pending.young
  /\ pending' = [pending EXCEPT !.young = FALSE]
  /\ UNCHANGED <<host, damaged, lastKea, lastRaw, rendering, refused, pc, w, result, reader, hands, faults>>

\* Evidence (a probe) clears the remembered refusal.
ClearRefusal ==
  /\ pc = "idle" /\ refused
  /\ refused' = FALSE
  /\ UNCHANGED <<host, pending, damaged, lastKea, lastRaw, rendering, pc, w, result, reader, hands, faults>>

\* Jen's process dies: its locals are gone, the store and the host are not.
Crash ==
  /\ pc # "idle"
  /\ Fault("crash")
  /\ pc' = "idle" /\ w' = NoWork /\ result' = NoResult /\ reader' = None
  /\ UNCHANGED <<host, store, hands>>

----------------------------------------------------------------------------

Init ==
  /\ file \in HandFiles /\ running = Kea(file)
  /\ newer = FALSE /\ known = TRUE /\ author = "file" /\ hasSSH \in SshHosts
  /\ pending = NoRow /\ damaged = FALSE
  /\ lastKea = None /\ lastRaw = None /\ rendering = None /\ refused = FALSE
  /\ pc = "idle" /\ w = NoWork /\ result = NoResult
  /\ reader = None /\ hands = 0 /\ faults = 0

\* What the holder of the lock does next, once it has begun.
Writer ==
  \/ Read \/ Block \/ Settle \/ Reconcile \/ SettleAsk \/ SettleWrite
  \/ SettleGet \/ SettleFinish \/ SettleRecord \/ Stale \/ Supersede
  \/ Proof \/ Record \/ Compare \/ Set \/ AfterRefusal \/ AfterLost \/ Ask
  \/ Write \/ Undo \/ UndoGet \/ Verify \/ ReadBack \/ Finish \/ RecordFile
  \/ Drop \/ Return

Starts == \E op \in AllOps, discard \in BOOLEAN : Begin(op, discard)
World == HandSet \/ HandEdit \/ Restart \/ RowRots \/ Age \/ ClearRefusal \/ Crash

Next == Writer \/ Starts \/ Revert \/ ReaderGet \/ ReaderCapture \/ World

Spec == Init /\ [][Next]_vars

----------------------------------------------------------------------------
(* Properties.                                                             *)

Codes == {"none", "guard", "noanswer", "conflict", "unreadable", "unverified",
          "set-failed", "write-failed", "ok", "settled", "unsettled"}

\* Every value is of its kind, and every loop of apply is bounded.
TypeOK ==
  /\ running \in Configs /\ file \in Configs
  /\ newer \in BOOLEAN /\ known \in BOOLEAN /\ hasSSH \in SshHosts
  /\ author \in {"file", "hand", "jen", "undo"}
  /\ pending = NoRow \/
     pending \in [state : {"live", "damaged"}, cand : Configs, before : Configs,
                  sha : {None} \cup Configs, young : BOOLEAN, taken : BOOLEAN]
  /\ damaged \in BOOLEAN /\ refused \in BOOLEAN
  /\ {lastKea, lastRaw, rendering, reader} \subseteq {None} \cup Configs
  /\ w.op \in AllOps \cup {"none"} /\ w.discard \in BOOLEAN
  /\ {w.cand, w.before, w.expect, w.planned, w.h1, w.seen, w.raw, w.file0}
       \subseteq {None} \cup Configs
  /\ w.tries \in 0..WriteAttempts
  /\ result.code \in Codes /\ result.needsHands \in BOOLEAN
  /\ hands \in 0..MaxHands /\ faults \in 0..MaxFaults

\* Nobody touched the daemon or its file since this change read them.
Alone == hands = w.hands0

\* CFG-002: a change that is reported `ok` while nobody else touched the server
\* is what the daemon runs, is what its file carries, and owes nothing - however
\* many of its requests and answers were lost on the way.
OkIsTrue ==
  pc = "done" /\ result.code = "ok" /\ Alone =>
    /\ running = Kea(w.cand)
    /\ file = running
    /\ pending = NoRow

\* A change that is refused without asking for a person's hands left the server
\* as it was: what the daemon runs and what the file says are what they were
\* when the change was recorded.
RefusalChangesNothing ==
  pc = "done" /\ w.file0 # None /\ Alone
    /\ result.code # "ok" /\ ~result.needsHands =>
      running = w.expect /\ file = w.file0

\* CFG-006: whatever Jen's config-set made the daemon run is on record - the
\* pending (or damaged) row, or the newest settled row of the daemon's digests -
\* at every instant, across refusals, lost answers, failed writes and crashes.
JensChangesAreOnRecord ==
  author = "jen" => pending # NoRow \/ damaged \/ lastKea = running

\* The holder of the lock replaces the file in this step.
Renders == pc \in {"write", "settleWrite"} /\ file' # file /\ hands' = hands

\* CFG-005: a config-write never replaces a file that Config history does not
\* hold, unless it was saved after the question about it or is this change's
\* own rendering, replaced by the attempt after it.
ReplacedFilesAreInHistory ==
  [][Renders => file = lastRaw \/ hands > w.asked \/ w.tries > 0]_vars

\* CFG-004: the file a change is planned over is one the daemon has loaded or
\* rendered, or Kea's newest rendering byte for byte - unless the daemon's newest
\* load is a config-set younger than an edit it never saw: an operator's, Jen's own
\* undo of a refused config-write, or that of a change given up as damaged.  And a
\* config-write replaces only such a file or the one planned over, unless the
\* operator discarded it on this act, or it was saved after the question about it.
ReplacedFilesWereLoaded ==
  [][/\ pc = "proof" /\ pc' = "record" =>
          \/ known \/ file = rendering
          \/ author \in {"undo", "hand"} \/ (author = "jen" /\ damaged)
     /\ Renders => \/ known \/ file \in {rendering, pending.sha}
                   \/ w.discard \/ hands > w.asked]_vars

\* CFG-004 (R): the sha256 that Config history comes to keep as Kea's own rendering
\* is that of a file which, when it was read, the daemon had written or loaded.
RenderingsAreKeas ==
  [][/\ rendering' # rendering => known \/ rendering' = w.raw
     /\ w'.raw \notin {w.raw, None, rendering} => known]_vars

\* A row "changed outside Jen" is written only once something outside Jen has
\* happened: Jen's own config-set is never taken for somebody else's.
OutsideRowsAreOutside ==
  [][lastKea \notin {None, lastKea'} /\ pending' = pending => hands > 0]_vars

\* A settlement that says it finished an earlier change finishes one the daemon
\* took, unless somebody else acted on the server (its question is inclusion, and
\* a hand may give the daemon all the candidate says): a candidate that never
\* reached the daemon is not recorded as live.
FinishedWasTaken ==
  [][/\ pc \in {"settleFinish", "finish"} /\ ~pending.taken /\ hands = 0
     => UNCHANGED pending]_vars

----------------------------------------------------------------------------
(* Liveness.  The thread that holds the lock is scheduled (its remote calls *)
(* all have timeouts), time passes, and an operator keeps pressing the two  *)
(* controls that are the ways out of an unresolved change.                  *)

Operator == SF_vars(Begin("settle", TRUE)) /\ SF_vars(Begin("restore", FALSE))
FairSpec == Spec /\ WF_vars(Writer) /\ SF_vars(Age) /\ Operator

\* The change lock is always released.
LockIsReleased == pc # "idle" ~> pc = "idle"

\* CFG-007 (AE11): no control refuses in a circle - whatever state a failure
\* left the record, the daemon and the file in, one of the two controls ends it.
WayOut == pending # NoRow ~> pending = NoRow

=============================================================================
