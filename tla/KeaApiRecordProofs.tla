------------------------- MODULE KeaApiRecordProofs -------------------------
(***************************************************************************)
(* KeaApiConfig: what Config history says of the server - that whatever    *)
(* Jen made a daemon run is on record, that nothing else is, that no file  *)
(* is replaced which it does not hold - and which file a change is planned *)
(* over, replaces, and keeps as Kea's rendering.                           *)
(***************************************************************************)
EXTENDS KeaApiOkProofs

(* What Jen's config-set left running is on record.                        *)

\* What the daemon runs by Jen's word is what the row says it took.
TakenRuns ==
  pending # NoRow /\ pending.taken = TRUE /\ author = "jen" =>
    running = Kea(pending.cand) /\ running # pending.before

OnRecordOrSettled ==
  author = "jen" => damaged = TRUE \/ (pending # NoRow /\ pending.taken = TRUE) \/ lastKea = running

\* What the holder of the lock remembers of the daemon is still so.
Remembered ==
  /\ pc = "reconcile" /\ author = "jen" => w.seen = running
  /\ pc \in {"ask", "write", "verify", "readBack", "finish", "settleFinish"} /\ author = "jen"
       => w.h1 = running

Untaken ==
  /\ pc \in Unsent => pending.taken = FALSE
  /\ pc = "drop" /\ author = "jen" => pending.taken = FALSE

\* With pages that read or without, and, without, what history holds.
RowInv == TakenRuns /\ Remembered /\ Untaken
RecordInv == RowInv /\ OnRecordOrSettled /\ reader = None

-----------------------------------------------------------------------------
(* What holds while nobody else touches the server.                        *)

\* What the daemon runs is the state before the row or the one the row says it took.
AloneRow ==
  /\ pending = NoRow => lastKea \in {None, running}
  /\ pending # NoRow =>
       /\ pending.state = "live" /\ Kea(pending.before) = pending.before
       /\ lastKea \in {None, pending.before}
       /\ running = pending.before \/ (pending.taken = TRUE /\ running = Kea(pending.cand))
AloneWork ==
  /\ Chosen /\ pc \in Settling \cup Preparing => w.expect = running
  /\ pc = "reconcile" => w.seen = running
  /\ pc \in {"settleAsk", "settleWrite", "settleGet", "settleFinish"} \cup Sent => pending.taken = TRUE
  /\ pc \in {"ask", "write", "verify", "readBack", "finish", "settleFinish"} => w.h1 = running
  /\ pc \in {"supersede", "drop"} => running = pending.before
AloneInv == hands = 0 => AloneRow /\ AloneWork

-----------------------------------------------------------------------------
\* The file a config-write replaces was captured when it was asked about.
FileInv ==
  hasSSH /\ pc \in {"write", "settleWrite"} /\ hands = w.asked /\ w.tries = 0 => file = lastRaw

-----------------------------------------------------------------------------
(* The steps.                                                              *)

\* No page reads.
LEMMA ReaderStep ==
  ASSUME TypeInv, TypeInv', ChangeInv, RecordInv, Readers = FALSE, Next
  PROVE  reader' = None
<1> USE DEF RecordInv, RowInv
<1>1. CASE Read \/ Block \/ Settle \/ Reconcile \/ SettleAsk
  BY <1>1 DEF Read, Block, Settle, Reconcile, SettleAsk
<1>2. CASE SettleWrite \/ SettleGet \/ SettleFinish \/ SettleRecord \/ Stale
  BY <1>2 DEF SettleWrite, SettleGet, SettleFinish, SettleRecord, Stale
<1>3. CASE Supersede \/ Proof \/ Record \/ Compare \/ Set
  BY <1>3 DEF Supersede, Proof, Record, Compare, Set
<1>4. CASE AfterRefusal \/ AfterLost \/ Ask \/ Write \/ Undo
  BY <1>4 DEF AfterRefusal, AfterLost, Ask, Write, Undo
<1>5. CASE UndoGet \/ Verify \/ ReadBack \/ Finish \/ RecordFile
  BY <1>5 DEF UndoGet, Verify, ReadBack, Finish, RecordFile
<1>6. CASE Drop \/ Return \/ Starts \/ Revert \/ ReaderGet
  BY <1>6 DEF Drop, Return, Starts, Begin, Revert, ReaderGet
<1>7. CASE ReaderCapture \/ HandSet \/ HandEdit \/ Restart \/ RowRots
  BY <1>7 DEF ReaderCapture, HandSet, HandEdit, Restart, RowRots
<1>8. CASE Age \/ ClearRefusal \/ Crash
  BY <1>8 DEF Age, ClearRefusal, Crash
<1> QED
  BY <1>1, <1>2, <1>3, <1>4, <1>5, <1>6, <1>7, <1>8 DEF Next, Writer, World

\* What the daemon runs by Jen's word is what the row says it took.
LEMMA TakenStep ==
  ASSUME TypeInv, TypeInv', ChangeInv, RowInv, Next
  PROVE  TakenRuns'
<1> USE NoRowIs
        DEF ChangeInv, RowInv, TypeInv, RowOK, TakenRuns, ChangeChanges, DropRow, MarkDamaged, FinishRow,
            Lost, Commit, Render, Take, host, store, Chosen, OnRecord, Unsent, Untaken
<1>1. CASE Read \/ Block \/ Settle \/ Reconcile \/ SettleAsk
  BY <1>1 DEF Read, Block, Settle, Reconcile, SettleAsk
<1>2. CASE SettleWrite \/ SettleGet \/ SettleFinish \/ SettleRecord \/ Stale
  BY <1>2 DEF SettleWrite, SettleGet, SettleFinish, SettleRecord, Stale
<1>3. CASE Supersede \/ Proof \/ Compare \/ AfterRefusal \/ AfterLost
  BY <1>3 DEF Supersede, Proof, Compare, AfterRefusal, AfterLost
<1>4. CASE Record
  <2>1. UNCHANGED host /\ (UNCHANGED pending \/ pc' = "compare")
    BY <1>4 DEF Record, End, Goto
  <2> QED
    BY <1>4, <2>1, RecordIs
<1>5. CASE Set
  <2>1. pc = "set" /\ (Take \/ UNCHANGED <<host, pending>>)
    BY <1>5 DEF Set, Lost
  <2>2. CASE Take
    BY <2>1, <2>2, TakeIs
  <2>3. CASE UNCHANGED <<host, pending>>
    BY <2>3
  <2> QED
    BY <2>1, <2>2, <2>3
<1>6. CASE Ask \/ Write \/ Undo \/ UndoGet \/ Verify
  BY <1>6 DEF Ask, Write, Undo, UndoGet, Verify
<1>7. CASE ReadBack \/ Finish \/ RecordFile \/ Drop \/ Return
  BY <1>7 DEF ReadBack, Finish, RecordFile, Drop, Return
<1>8. CASE Starts \/ Revert \/ ReaderGet \/ ReaderCapture \/ HandSet
  BY <1>8 DEF Starts, Begin, Revert, ReaderGet, ReaderCapture, HandSet
<1>9. CASE HandEdit \/ Restart \/ ClearRefusal \/ Crash
  BY <1>9 DEF HandEdit, Restart, ClearRefusal, Crash
<1>10. CASE RowRots
  BY <1>10, RowRotsIs DEF RowRots
<1>11. CASE Age
  BY <1>11, AgeIs DEF Age
<1> QED
  BY <1>1, <1>2, <1>3, <1>4, <1>5, <1>6, <1>7, <1>8, <1>9, <1>10, <1>11 DEF Next, Writer, World

\* A row goes only when history holds what Jen made the daemon run (finish, discard,
\* mark_damaged).
LEMMA SettledStep ==
  ASSUME TypeInv, TypeInv', ChangeInv, RecordInv, Readers = FALSE, Next
  PROVE  OnRecordOrSettled'
<1> USE NoRowIs
        DEF RecordInv, RowInv, TypeInv, RowOK, TakenRuns, OnRecordOrSettled, Remembered, Untaken,
            CaptureDaemon, DropRow, MarkDamaged, FinishRow, Lost, Commit, Render, Take, host,
            store
<1>1. CASE Read \/ Block \/ Settle \/ SettleAsk \/ SettleWrite
  BY <1>1 DEF Read, Block, Settle, SettleAsk, SettleWrite
<1>2. CASE Reconcile
  <2>1. UNCHANGED <<host, lastKea>> /\ pc = "reconcile"
    BY <1>2 DEF Reconcile
  <2>2. CASE MarkDamaged
    BY <2>1, <2>2
  <2>3. CASE DropRow /\ UNCHANGED damaged /\ NeverReached
    BY <2>1, <2>3 DEF NeverReached
  <2>4. CASE UNCHANGED <<pending, damaged>>
    BY <2>1, <2>4
  <2> QED
    BY <1>2, <2>2, <2>3, <2>4 DEF Reconcile
<1>3. CASE SettleGet \/ SettleRecord \/ Stale \/ Supersede \/ Proof
  BY <1>3 DEF SettleGet, SettleRecord, Stale, Supersede, Proof
<1>4. CASE SettleFinish
  <2>1. (pending' = NoRow /\ lastKea' = w.h1) \/ UNCHANGED <<pending, lastKea>>
    BY <1>4 DEF SettleFinish
  <2>2. UNCHANGED <<host, damaged>> /\ (author = "jen" => w.h1 = running)
    BY <1>4 DEF SettleFinish
  <2> QED
    BY <2>1, <2>2
<1>5. CASE Record \/ Compare \/ AfterRefusal \/ AfterLost \/ Ask
  BY <1>5 DEF Record, Compare, AfterRefusal, AfterLost, Ask
<1>6. CASE Set
  <2>1. pc = "set" /\ (Take \/ UNCHANGED <<host, pending>>) /\ UNCHANGED <<damaged, lastKea>>
    BY <1>6 DEF Set, Lost
  <2>2. CASE Take
    BY <2>1, <2>2, TakeIs
  <2>3. CASE UNCHANGED <<host, pending>>
    BY <2>1, <2>3
  <2> QED
    BY <2>1, <2>2, <2>3
<1>7. CASE Write \/ Undo \/ UndoGet \/ Verify \/ ReadBack
  BY <1>7 DEF Write, Undo, UndoGet, Verify, ReadBack
<1>8. CASE Finish
  <2>1. (pending' = NoRow /\ lastKea' = w.h1) \/ UNCHANGED <<pending, lastKea>>
    BY <1>8 DEF Finish
  <2>2. UNCHANGED <<host, damaged>> /\ (author = "jen" => w.h1 = running)
    BY <1>8 DEF Finish
  <2> QED
    BY <2>1, <2>2
<1>9. CASE RecordFile \/ Drop \/ Return \/ Starts \/ Revert
  BY <1>9 DEF RecordFile, Drop, Return, Starts, Begin, Revert
<1>10. CASE ReaderGet \/ ReaderCapture \/ HandSet \/ HandEdit \/ Restart
  BY <1>10 DEF ReaderGet, ReaderCapture, HandSet, HandEdit, Restart
<1>11. CASE RowRots
  BY <1>11, RowRotsIs DEF RowRots
<1>12. CASE Age
  BY <1>12, AgeIs DEF Age
<1>13. CASE ClearRefusal \/ Crash
  BY <1>13 DEF ClearRefusal, Crash
<1> QED
  BY <1>1, <1>2, <1>3, <1>4, <1>5, <1>6, <1>7, <1>8, <1>9, <1>10, <1>11, <1>12, <1>13
     DEF Next, Writer, World

\* What was seen of the daemon is so until somebody acts on it.
LEMMA RememberStep ==
  ASSUME TypeInv, TypeInv', ChangeInv, RowInv, Next
  PROVE  Remembered'
<1> USE EndIs, EndDroppingIs, NoWorkIs, NoResultIs, CommenceIs, BuildIs, SeeIs, KeepDigestIs,
        KeepFileIs, MarkRecordedIs, CountAttemptIs, MarkAskedIs, TurnAroundIs
        DEF RowInv, TypeInv, HostOK, WorkOK, SameChange, Remembered, Codes, EndOwing, Goto,
            Unsettled, Settled, AfterBlock, AskTheFile, Lost, Commit, Render, Take, host
<1>1. CASE Read \/ Block \/ Settle \/ Reconcile \/ SettleAsk
  BY <1>1 DEF Read, Block, Settle, Reconcile, SettleAsk
<1>2. CASE SettleWrite \/ SettleGet \/ SettleFinish \/ SettleRecord \/ Stale
  BY <1>2 DEF SettleWrite, SettleGet, SettleFinish, SettleRecord, Stale
<1>3. CASE Supersede \/ Proof \/ Record \/ Compare \/ Set
  BY <1>3 DEF Supersede, Proof, Record, Compare, Set
<1>4. CASE AfterRefusal \/ AfterLost \/ Ask \/ Write \/ Undo
  BY <1>4 DEF AfterRefusal, AfterLost, Ask, Write, Undo
<1>5. CASE UndoGet \/ Verify \/ ReadBack \/ Finish \/ RecordFile
  BY <1>5 DEF UndoGet, Verify, ReadBack, Finish, RecordFile
<1>6. CASE Drop \/ Return \/ Starts \/ Revert \/ ReaderGet
  BY <1>6 DEF Drop, Return, Starts, Begin, Revert, ReaderGet
<1>7. CASE ReaderCapture \/ HandSet \/ HandEdit \/ Restart \/ RowRots
  BY <1>7 DEF ReaderCapture, HandSet, HandEdit, Restart, RowRots
<1>8. CASE Age \/ ClearRefusal \/ Crash
  BY <1>8 DEF Age, ClearRefusal, Crash
<1> QED
  BY <1>1, <1>2, <1>3, <1>4, <1>5, <1>6, <1>7, <1>8 DEF Next, Writer, World

\* A row that is dropped was never taken, or was undone (_drop_pending).
LEMMA UntakenStep ==
  ASSUME TypeInv, TypeInv', ChangeInv, RowInv, Next
  PROVE  Untaken'
<1> USE NoRowIs, EndIs, EndDroppingIs
        DEF ChangeInv, RowInv, TypeInv, RowOK, ChangeChanges, TakenRuns, Untaken, Unsent, Codes,
            EndOwing, Goto, Unsettled, Settled, AfterBlock, AskTheFile, DropRow, MarkDamaged,
            FinishRow, Lost, Commit, Render, Take, host, store
<1>1. CASE Read \/ Block \/ Settle \/ Reconcile \/ SettleAsk
  BY <1>1 DEF Read, Block, Settle, Reconcile, SettleAsk
<1>2. CASE SettleWrite \/ SettleGet \/ SettleFinish \/ SettleRecord \/ Stale
  BY <1>2 DEF SettleWrite, SettleGet, SettleFinish, SettleRecord, Stale
<1>3. CASE Supersede \/ Proof \/ Compare \/ Set \/ AfterRefusal
  BY <1>3 DEF Supersede, Proof, Compare, Set, AfterRefusal
<1>4. CASE Record
  <2>1. pc' \in {"compare", "done"}
    BY <1>4 DEF Record
  <2> QED
    BY <1>4, <2>1, RecordIs
<1>5. CASE AfterLost
  <2>1. UNCHANGED <<host, pending>> /\ pc' \notin Unsent /\ (pc' = "drop" => RunsBefore)
    BY <1>5 DEF AfterLost
  <2> QED
    BY <1>5, <2>1 DEF AfterLost, RunsBefore, Chosen, OnRecord, RowSet
<1>6. CASE Ask \/ Write \/ Undo \/ Verify \/ ReadBack
  BY <1>6 DEF Ask, Write, Undo, Verify, ReadBack
<1>7. CASE UndoGet
  <2>1. UNCHANGED <<host, pending>> /\ pc' \notin Unsent /\ (pc' = "drop" => running \in {w.expect, w.before})
    BY <1>7 DEF UndoGet
  <2> QED
    BY <1>7, <2>1 DEF UndoGet, Chosen, OnRecord, RowSet
<1>8. CASE Finish \/ RecordFile \/ Drop \/ Return \/ Starts
  BY <1>8 DEF Finish, RecordFile, Drop, Return, Starts, Begin
<1>9. CASE Revert \/ ReaderGet \/ ReaderCapture \/ HandSet \/ HandEdit
  BY <1>9 DEF Revert, ReaderGet, ReaderCapture, HandSet, HandEdit
<1>10. CASE Restart \/ RowRots \/ Age \/ ClearRefusal \/ Crash
  BY <1>10 DEF Restart, RowRots, Age, ClearRefusal, Crash
<1> QED
  BY <1>1, <1>2, <1>3, <1>4, <1>5, <1>6, <1>7, <1>8, <1>9, <1>10 DEF Next, Writer, World

\* On a server that nobody touched every change is alone.
LEMMA UntouchedIsAlone == ASSUME TypeInv, hands = 0 PROVE Alone
BY WorkIs DEF Alone, TypeInv, WorkOK

\* A change that is alone, and a rollback, tell the state before them from their own.
LEMMA AloneTells ==
  ASSUME Tellable, TypeInv, ChangeInv, RefusalInv, OkInv, hands = 0, pc \in OnRecord
  PROVE  /\ Kea(w.before) = w.expect
         /\ running \in {w.before, w.expect} => running = w.expect
         /\ RunsCandidate => running # w.expect
<1>1. Alone /\ Chosen
  BY UntouchedIsAlone DEF Chosen
<1>2. Kea(w.before) = w.expect /\ running \in {w.expect, Kea(w.cand)}
  BY <1>1 DEF RefusalInv, ServerIsExpected
<1>3. Kea(w.cand) \notin {w.expect, w.before}
  BY <1>1 DEF ChangeInv, ChangeChanges
<1>4. CASE w.op = "rollback"
  BY <1>1, <1>2, <1>3, <1>4, RollbacksTell DEF RunsCandidate
<1>5. CASE w.op # "rollback"
  BY <1>1, <1>2, <1>3, <1>5 DEF RefusalInv, RunsCandidate, RunsBefore
<1> QED
  BY <1>2, <1>3, <1>4, <1>5

\* The row and the newest digest describe what the daemon runs.
LEMMA AloneRowStep ==
  ASSUME Tellable, Readers = FALSE, TypeInv, TypeInv', ChangeInv, RefusalInv, OkInv,
         RecordInv, RecordInv', AloneInv, hands = 0, Next
  PROVE  hands' = 0 => AloneRow'
<1> USE NoRowIs, TakeIs, RecordIs, AgeIs
        DEF TypeInv, RowOK, ChangeInv, RecordInv, RowInv, AloneInv, AloneRow, AloneWork,
            CaptureDaemon, DropRow, MarkDamaged, FinishRow, Lost, Commit, Render, host, store, Sent, OnRecord, Unsent
<1>1. CASE Read \/ Block \/ Settle \/ SettleAsk \/ SettleWrite
  BY <1>1 DEF Read, Block, Settle, SettleAsk, SettleWrite
<1>2. CASE Reconcile
  <2>1. UNCHANGED <<host, lastKea>> /\ pc = "reconcile" /\ pending # NoRow
    BY <1>2 DEF Reconcile, Settling
  <2>2. CASE pending.state = "damaged"
    BY <2>1, <2>2
  <2>3. CASE DropRow /\ NeverReached
    BY <2>1, <2>3 DEF NeverReached
  <2>4. CASE UNCHANGED pending
    BY <2>1, <2>4
  <2> QED
    BY <1>2, <2>2, <2>3, <2>4 DEF Reconcile
<1>3. CASE SettleGet \/ SettleFinish \/ SettleRecord \/ Stale \/ Supersede
  BY <1>3 DEF SettleGet, SettleFinish, SettleRecord, Stale, Supersede
<1>4. CASE Proof \/ Compare \/ Set \/ AfterRefusal \/ AfterLost
  BY <1>4 DEF Proof, Compare, Set, AfterRefusal, AfterLost
<1>5. CASE Record
  <2>1. UNCHANGED <<host, lastKea>> /\ ((pc' = "done" /\ UNCHANGED pending) \/ pc' = "compare")
    BY <1>5 DEF Record, End, Goto
  <2>2. w.expect = running
    BY <1>5 DEF Record, Chosen, Preparing
  <2> QED
    BY <1>5, <2>1, <2>2, RecordIs
<1>6. CASE Ask \/ Write \/ UndoGet \/ Verify \/ ReadBack
  BY <1>6 DEF Ask, Write, UndoGet, Verify, ReadBack
<1>7. CASE Undo
  <2>1. UNCHANGED <<pending, lastKea>> /\ (running' = Kea(w.before) \/ UNCHANGED running)
    BY <1>7 DEF Undo
  <2>2. Kea(w.before) = pending.before /\ pending.taken = TRUE
    BY <1>7, AloneTells DEF Undo
  <2> QED
    BY <1>7, <2>1, <2>2 DEF Undo
<1>8. CASE Finish \/ RecordFile \/ Drop \/ Return \/ Starts
  BY <1>8 DEF Finish, RecordFile, Drop, Return, Starts, Begin
<1>9. CASE Revert \/ ReaderGet \/ ReaderCapture \/ Age \/ ClearRefusal
  BY <1>9 DEF Revert, ReaderGet, ReaderCapture, Age, ClearRefusal
<1>10. CASE HandSet
  BY <1>10, HandsCount
<1>11. CASE HandEdit
  BY <1>11, HandsCount
<1>12. CASE Restart
  BY <1>12, HandsCount
<1>13. CASE RowRots
  BY <1>13, HandsCount
<1>14. CASE Crash
  BY <1>14 DEF Crash
<1> QED
  BY <1>1, <1>2, <1>3, <1>4, <1>5, <1>6, <1>7, <1>8, <1>9, <1>10, <1>11, <1>12, <1>13, <1>14
     DEF Next, Writer, World

\* What the holder of the lock knows of the daemon is so.
LEMMA AloneWorkStep ==
  ASSUME Tellable, Readers = FALSE, TypeInv, TypeInv', ChangeInv, RefusalInv, OkInv,
         RecordInv, RecordInv', AloneInv, hands = 0, Next
  PROVE  hands' = 0 => AloneWork'
<1> USE NoRowIs, TakeIs, RecordIs, AgeIs, EndIs, EndDroppingIs, NoWorkIs, NoResultIs,
        CommenceIs, BuildIs, SeeIs, KeepDigestIs, KeepFileIs, MarkRecordedIs, CountAttemptIs,
        MarkAskedIs, TurnAroundIs
        DEF TypeInv, HostOK, WorkOK, RowOK, RecordInv, RowInv, AloneInv, AloneRow, AloneWork,
            SameChange, Codes, EndOwing, Goto, Unsettled, Settled, AfterBlock, AskTheFile,
            DropRow, MarkDamaged, FinishRow, Lost, Commit, Render, host, store, Sent, Chosen,
            Answered, Settling, Preparing, OnRecord, Unsent, Steps
<1>1. CASE Read \/ Block \/ Settle \/ SettleAsk \/ SettleWrite
  <2>1. CASE Read
    BY <2>1 DEF Read
  <2>2. CASE Block
    BY <2>2 DEF Block
  <2>3. CASE Settle
    BY <2>3 DEF Settle
  <2>4. CASE SettleAsk
    BY <2>4 DEF SettleAsk
  <2>5. CASE SettleWrite
    BY <2>5 DEF SettleWrite
  <2> QED
    BY <1>1, <2>1, <2>2, <2>3, <2>4, <2>5
<1>2. CASE Reconcile
  <2>1. UNCHANGED <<running, w>> /\ pc = "reconcile" /\ pending # NoRow
    BY <1>2 DEF Reconcile
  <2>2. CASE pc' \in {"settleAsk", "settleWrite"}
    <3>1. UNCHANGED pending /\ ~NeverReached /\ pc' \in Settling
      BY <1>2, <2>2 DEF Reconcile
    <3>2. Chosen' => Chosen
      BY <2>1, <2>2
    <3> QED
      BY <2>1, <2>2, <3>1, <3>2 DEF NeverReached
  <2>3. CASE pc' \notin {"settleAsk", "settleWrite"}
    <3>1. pc' \in {"done", "proof", "record"}
      BY <1>2, <2>3 DEF Reconcile
    <3> QED
      BY <2>1, <3>1
  <2> QED
    BY <2>2, <2>3
<1>3. CASE SettleGet \/ SettleFinish \/ SettleRecord \/ Supersede \/ Proof
  <2>1. CASE SettleGet
    BY <2>1 DEF SettleGet
  <2>2. CASE SettleFinish
    BY <2>2 DEF SettleFinish
  <2>3. CASE SettleRecord
    BY <2>3 DEF SettleRecord
  <2>4. CASE Supersede
    BY <2>4 DEF Supersede
  <2>5. CASE Proof
    BY <2>5 DEF Proof
  <2> QED
    BY <1>3, <2>1, <2>2, <2>3, <2>4, <2>5
<1>4. CASE Stale
  <2>1. UNCHANGED <<running, pending>> /\ pc = "stale" /\ pc' \in {"done", "proof", "record", "supersede"}
    BY <1>4 DEF Stale
  <2>2. w'.expect = w.expect
    BY <1>4 DEF Stale
  <2>3. ASSUME pc' = "supersede" PROVE running = pending.before
    <3>1. CASE pending.state = "damaged"
      BY <1>4, <2>3, <3>1 DEF Stale
    <3>2. CASE ~(running # pending.before /\ Carries(running, pending.cand)) /\ pending # NoRow
      <4>1. Carries(Kea(pending.cand), pending.cand)
        BY <3>2, KeaCarries DEF RowSet
      <4> QED
        BY <3>2, <4>1
    <3> QED
      BY <1>4, <2>3, <3>1, <3>2 DEF Stale
  <2> QED
    BY <2>1, <2>2, <2>3
<1>5. CASE Record
  BY <1>5 DEF Record
<1>6. CASE Compare
  <2>1. UNCHANGED <<running, w, pending>> /\ pc = "compare" /\ pc' \in {"drop", "set"}
    BY <1>6 DEF Compare
  <2>2. running = pending.before
    BY <2>1 DEF Untaken
  <2> QED
    BY <2>1, <2>2
<1>7. CASE Set
  BY <1>7 DEF Set
<1>8. CASE AfterRefusal
  BY <1>8 DEF AfterRefusal
<1>9. CASE AfterLost
  <2>1. UNCHANGED <<running, pending>> /\ pc = "afterLost" /\ pc' \in {"drop", "done", "ask", "write"}
    BY <1>9 DEF AfterLost
  <2>2. /\ running \in {w.before, w.expect} => running = pending.before
        /\ RunsCandidate => running # pending.before
    BY <2>1, AloneTells
  <2>3. CASE pc' = "drop"
    <3>1. running = w.before
      BY <1>9, <2>3 DEF AfterLost, RunsBefore
    <3> QED
      BY <2>1, <2>2, <2>3, <3>1
  <2>4. CASE pc' = "done"
    BY <1>9, <2>1, <2>4 DEF AfterLost
  <2>5. CASE pc' \in {"ask", "write"}
    <3>1. KeepDigest(running) /\ RunsCandidate
      BY <1>9, <2>5 DEF AfterLost
    <3>2. w'.h1 = running /\ pending.taken = TRUE
      BY <2>1, <2>2, <3>1
    <3> QED
      BY <2>1, <2>5, <3>2
  <2> QED
    BY <2>1, <2>3, <2>4, <2>5
<1>10. CASE Ask
  BY <1>10 DEF Ask
<1>11. CASE Write
  BY <1>11 DEF Write
<1>12. CASE Undo \/ UndoGet \/ Verify \/ ReadBack \/ Finish
  <2>1. CASE Undo
    BY <2>1 DEF Undo
  <2>2. CASE UndoGet
    <3>1. /\ UNCHANGED <<running, w, pending>> /\ pc = "undoGet" /\ pc' \in {"drop", "done"}
          /\ pc' = "drop" => running \in {w.expect, w.before}
          /\ pc' = "done" => result'.code # "ok"
      BY <2>2 DEF UndoGet
    <3>2. pc' = "drop" => running = pending.before
      BY <3>1, AloneTells
    <3> QED
      BY <3>1, <3>2
  <2>3. CASE Verify
    BY <2>3 DEF Verify
  <2>4. CASE ReadBack
    BY <2>4 DEF ReadBack
  <2>5. CASE Finish
    BY <2>5 DEF Finish
  <2> QED
    BY <1>12, <2>1, <2>2, <2>3, <2>4, <2>5
<1>13. CASE RecordFile \/ Drop \/ Return \/ Starts \/ Revert
  <2>1. CASE RecordFile
    BY <2>1 DEF RecordFile
  <2>2. CASE Drop
    BY <2>2 DEF Drop
  <2>3. CASE Return
    BY <2>3 DEF Return
  <2>4. CASE Starts
    BY <2>4 DEF Starts, Begin
  <2>5. CASE Revert
    <3>1. /\ UNCHANGED <<running, pending>> /\ pc = "done" /\ result.code = "ok"
          /\ pc' = "block" /\ w'.expect = w.h1
      BY <2>5 DEF Revert
    <3>2. Alone
      BY UntouchedIsAlone
    <3>3. running = w.h1
      BY <3>1, <3>2 DEF RefusalInv, ServerIsExpected
    <3> QED
      BY <3>1, <3>3
  <2> QED
    BY <1>13, <2>1, <2>2, <2>3, <2>4, <2>5
<1>14. CASE ReaderGet \/ ReaderCapture \/ Age \/ ClearRefusal \/ Crash
  BY <1>14 DEF ReaderGet, ReaderCapture, Age, ClearRefusal, Crash
<1>15. CASE HandSet
  BY <1>15, HandsCount
<1>16. CASE HandEdit
  BY <1>16, HandsCount
<1>17. CASE Restart
  BY <1>17, HandsCount
<1>18. CASE RowRots
  BY <1>18, HandsCount
<1> QED
  BY <1>1, <1>2, <1>3, <1>4, <1>5, <1>6, <1>7, <1>8, <1>9, <1>10, <1>11, <1>12, <1>13, <1>14,
     <1>15, <1>16, <1>17, <1>18
     DEF Next, Writer, World

\* A file that may be replaced was captured (_ask_the_file).
LEMMA FileStep == ASSUME TypeInv, FileInv, "capture" \notin Faults, Next PROVE FileInv'
<1> USE OutsideIs, WorkIs, EndIs, EndDroppingIs, NoWorkIs, NoResultIs, CommenceIs, BuildIs,
        SeeIs, KeepDigestIs, KeepFileIs, MarkRecordedIs, CountAttemptIs, MarkAskedIs,
        TurnAroundIs
        DEF TypeInv, CountsOK, WorkOK, FileInv, SameChange, Codes, EndOwing, Goto, Unsettled,
            Settled, AfterBlock, AskTheFile, CaptureFile, Fault, NoAnswer, host, store
<1>1. CASE Read \/ Block \/ Settle \/ Reconcile \/ SettleWrite
  BY <1>1 DEF Read, Block, Settle, Reconcile, SettleWrite
<1>2. CASE SettleAsk
  <2>1. pc' = "settleWrite" => lastRaw' = file
    BY <1>2 DEF SettleAsk
  <2>2. UNCHANGED file /\ pc' # "write"
    BY <1>2 DEF SettleAsk
  <2> QED
    BY <2>1, <2>2
<1>3. CASE SettleGet \/ SettleFinish \/ SettleRecord \/ Stale \/ Supersede
  BY <1>3 DEF SettleGet, SettleFinish, SettleRecord, Stale, Supersede
<1>4. CASE Proof \/ Record \/ Compare \/ AfterRefusal \/ AfterLost
  BY <1>4 DEF Proof, Record, Compare, AfterRefusal, AfterLost
<1>5. CASE Set
  <2>1. pc' = "write" => ~hasSSH'
    BY <1>5 DEF Set, Take, Commit
  <2>2. pc' # "settleWrite"
    BY <1>5 DEF Set
  <2> QED
    BY <2>1, <2>2
<1>6. CASE Ask
  <2>1. pc' = "write" => lastRaw' = file
    BY <1>6 DEF Ask
  <2>2. UNCHANGED file /\ pc' # "settleWrite"
    BY <1>6 DEF Ask
  <2> QED
    BY <2>1, <2>2
<1>7. CASE Write
  <2>1. CASE pc' = "write"
    <3>1. CountAttempt
      BY <1>7, <2>1 DEF Write
    <3> QED
      BY <2>1, <3>1
  <2>2. pc' # "settleWrite"
    BY <1>7 DEF Write
  <2> QED
    BY <2>1, <2>2
<1>8. CASE Undo \/ UndoGet \/ Verify \/ ReadBack \/ Finish
  BY <1>8 DEF Undo, UndoGet, Verify, ReadBack, Finish
<1>9. CASE RecordFile \/ Drop \/ Return \/ Starts \/ Revert
  BY <1>9 DEF RecordFile, Drop, Return, Starts, Begin, Revert
<1>10. CASE ReaderGet
  BY <1>10 DEF ReaderGet
<1>11. CASE ReaderCapture
  BY <1>11 DEF ReaderCapture
<1>12. CASE HandSet
  BY <1>12 DEF HandSet
<1>13. CASE HandEdit
  BY <1>13 DEF HandEdit
<1>14. CASE Restart
  BY <1>14 DEF Restart
<1>15. CASE RowRots \/ Age \/ ClearRefusal \/ Crash
  BY <1>15 DEF RowRots, Age, ClearRefusal, Crash
<1> QED
  BY <1>1, <1>2, <1>3, <1>4, <1>5, <1>6, <1>7, <1>8, <1>9, <1>10, <1>11, <1>12, <1>13, <1>14,
     <1>15
     DEF Next, Writer, World

-----------------------------------------------------------------------------
(* The theorems.                                                           *)

\* Every step keeps what the row says, and so does a stutter.
LEMMA RowKeeps ==
  ASSUME TypeInv, TypeInv', ChangeInv, RowInv, [Next]_vars
  PROVE  RowInv'
<1>1. CASE Next
  BY <1>1, TakenStep, RememberStep, UntakenStep DEF RowInv
<1>2. CASE UNCHANGED vars
  BY <1>2 DEF vars, RowInv, TakenRuns, Remembered, Untaken
<1> QED
  BY <1>1, <1>2

\* ... and, while no page reads, what history holds.
LEMMA RecordKeeps ==
  ASSUME Readers = FALSE, TypeInv, TypeInv', ChangeInv, RecordInv, [Next]_vars
  PROVE  RecordInv'
<1>1. RowInv'
  BY RowKeeps DEF RecordInv
<1>2. CASE Next
  BY <1>1, <1>2, ReaderStep, SettledStep DEF RecordInv
<1>3. CASE UNCHANGED vars
  BY <1>1, <1>3 DEF vars, RecordInv, OnRecordOrSettled
<1> QED
  BY <1>2, <1>3

\* So does the start: nothing was sent.
LEMMA RecordInit == Init => RecordInv
BY DEF Init, RecordInv, RowInv, TakenRuns, OnRecordOrSettled, Remembered, Untaken, Unsent

\* What the daemon runs by Jen's word is what the row says it took, and what the
\* holder of the lock remembers of it is so, whoever reads meanwhile.
THEOREM RowInvariant == Spec => []RowInv
<1>1. RowInv /\ (TypeInv /\ ChangeInv) /\ (TypeInv /\ ChangeInv)' /\ [Next]_vars => RowInv'
  BY RowKeeps
<1>2. Init => RowInv
  BY RecordInit DEF RecordInv
<1> QED
  BY <1>1, <1>2, ApiTypeInvariant, PTL DEF Spec

\* While no page reads, the record is true of the daemon.
THEOREM RecordInvariant == ASSUME Readers = FALSE PROVE Spec => []RecordInv
<1>1. RecordInv /\ (TypeInv /\ ChangeInv) /\ (TypeInv /\ ChangeInv)' /\ [Next]_vars => RecordInv'
  BY RecordKeeps
<1> QED
  BY RecordInit, <1>1, ApiTypeInvariant, PTL DEF Spec

\* CFG-006: whatever Jen's config-set made the daemon run is on record, across
\* refusals, lost answers, failed writes, undos, rollbacks, settlements and crashes
\* (record before the send, finish in place, discard of what was never taken).
THEOREM JensChangesOnRecord == ASSUME Readers = FALSE PROVE Spec => []JensChangesAreOnRecord
<1>1. RecordInv => JensChangesAreOnRecord
  BY DEF RecordInv, OnRecordOrSettled, JensChangesAreOnRecord
<1> QED
  BY RecordInvariant, <1>1, PTL

\* What happened outside Jen is never taken back.
LEMMA HandsStay == ASSUME TypeInv, Next PROVE hands' = 0 => hands = 0
<1>1. CASE Writer
  BY <1>1
     DEF Writer, Read, Block, Settle, Reconcile, SettleAsk, SettleWrite, SettleGet, SettleFinish,
         SettleRecord, Stale, Supersede, Proof, Record, Compare, Set, AfterRefusal, AfterLost, Ask,
         Write, Undo, UndoGet, Verify, ReadBack, Finish, RecordFile, Drop, Return
<1>2. CASE HandSet \/ HandEdit \/ Restart \/ RowRots
  <2>1. hands' = hands + 1 /\ hands \in Nat
    BY <1>2, OutsideIs DEF HandSet, HandEdit, Restart, RowRots, TypeInv, CountsOK
  <2> QED
    BY <2>1
<1>3. CASE Starts \/ Revert \/ ReaderGet \/ ReaderCapture \/ Age \/ ClearRefusal \/ Crash
  BY <1>3 DEF Starts, Begin, Revert, ReaderGet, ReaderCapture, Age, ClearRefusal, Crash
<1> QED
  BY <1>1, <1>2, <1>3 DEF Next, World

\* The newest digest of the daemon is written by a capture or a finish, and nowhere
\* else.
LEMMA LastKeaMoves ==
  ASSUME Next, lastKea' # lastKea
  PROVE  Read \/ SettleFinish \/ Finish \/ ReaderCapture
<1>1. CASE Writer
  BY <1>1
     DEF store, Writer, Block, Settle, Reconcile, SettleAsk, SettleWrite, SettleGet,
         SettleRecord, Stale, Supersede, Proof, Record, Compare, Set, AfterRefusal, AfterLost, Ask,
         Write, Undo, UndoGet, Verify, ReadBack, RecordFile, Drop, Return
<1>2. CASE Starts \/ Revert \/ ReaderGet \/ World
  BY <1>2
     DEF store, Starts, Begin, Revert, ReaderGet, World, HandSet, HandEdit, Restart, RowRots, Age,
         ClearRefusal, Crash
<1> QED
  BY <1>1, <1>2 DEF Next

\* Until somebody acts, every step leaves the row and the digest true.
LEMMA AloneKeeps ==
  ASSUME Readers = FALSE, Tellable, TypeInv, TypeInv', ChangeInv, RefusalInv, OkInv,
         RecordInv, RecordInv', AloneInv, [Next]_vars
  PROVE  AloneInv'
<1>1. CASE Next
  <2>1. hands' = 0 => hands = 0
    BY <1>1, HandsStay
  <2>2. hands = 0 => (hands' = 0 => AloneRow') /\ (hands' = 0 => AloneWork')
    BY <1>1, AloneRowStep, AloneWorkStep
  <2> QED
    BY <2>1, <2>2 DEF AloneInv
<1>2. CASE UNCHANGED vars
  BY <1>2 DEF vars, AloneInv, AloneRow, AloneWork, Chosen
<1> QED
  BY <1>1, <1>2

\* The start has neither.
LEMMA AloneInit == Init => AloneInv
<1> SUFFICES ASSUME Init PROVE AloneInv
  OBVIOUS
<1>1. ~Chosen
  BY NoResultIs DEF Init, Chosen, Settling, Preparing, OnRecord, Unsent
<1> QED
  BY <1>1 DEF Init, AloneInv, AloneRow, AloneWork, Sent

\* While nobody else touches the server, the row and the newest digest describe it -
\* unless a change set rolls back a setting that is no element of a list.
THEOREM AloneInvariant ==
  ASSUME Readers = FALSE, Tellable PROVE Spec => []AloneInv
<1>1. /\ AloneInv /\ RefusalInv /\ OkInv /\ RecordInv /\ RecordInv'
      /\ (TypeInv /\ ChangeInv) /\ (TypeInv /\ ChangeInv)' /\ [Next]_vars
      => AloneInv'
  BY AloneKeeps
<1> QED
  BY AloneInit, <1>1, ApiTypeInvariant, RefusalInvariant, OkInvariant, RecordInvariant, PTL
     DEF Spec

\* A settlement never records a candidate as live that the daemon did not take
\* (_reconcile_pending asks about the state before first), rollbacks of list elements
\* included.
THEOREM SettlementsFinishWhatWasTaken ==
  ASSUME Readers = FALSE, Tellable PROVE Spec => FinishedWasTaken
<1>1. AloneInv => (pc \in {"settleFinish", "finish"} /\ ~pending.taken /\ hands = 0 => UNCHANGED pending)
  BY DEF AloneInv, AloneWork, Sent
<1> QED
  BY AloneInvariant, <1>1, PTL DEF FinishedWasTaken

\* A row "changed outside Jen" is written only once something outside Jen happened
\* (_capture never takes Jen's own config-set for somebody else's).
THEOREM OutsideRowsComeFromOutside ==
  ASSUME Readers = FALSE, Tellable PROVE Spec => OutsideRowsAreOutside
<1>1. TypeInv /\ RecordInv /\ AloneInv /\ [Next]_vars
      => [lastKea \notin {None, lastKea'} /\ pending' = pending => hands > 0]_vars
  <2> SUFFICES ASSUME TypeInv, RecordInv, AloneInv, Next,
                      lastKea # None, lastKea' # lastKea, pending' = pending, hands = 0
               PROVE  FALSE
    BY WorkIs
  <2>1. pending = NoRow => lastKea = running
    BY DEF AloneInv, AloneRow
  <2>2. Read \/ SettleFinish \/ Finish \/ ReaderCapture
    BY LastKeaMoves
  <2>3. CASE Read
    BY <2>1, <2>3 DEF Read, CaptureDaemon
  <2>4. CASE SettleFinish \/ Finish
    BY <2>4, NoRowIs DEF SettleFinish, Finish, FinishRow, TypeInv, RowOK, Settling, OnRecord
  <2>5. CASE ReaderCapture
    BY <2>5 DEF ReaderCapture, RecordInv
  <2> QED
    BY <2>2, <2>3, <2>4, <2>5
<1> QED
  BY <1>1, ApiTypeInvariant, RecordInvariant, AloneInvariant, PTL DEF Spec, OutsideRowsAreOutside

\* Every step keeps the file that may be replaced a captured one.
LEMMA FileKeeps ==
  ASSUME "capture" \notin Faults, TypeInv, FileInv, [Next]_vars PROVE FileInv'
<1>1. CASE UNCHANGED vars
  BY <1>1 DEF vars, FileInv
<1> QED
  BY <1>1, FileStep

\* CFG-005: a config-write never replaces a file that Config history does not hold,
\* when captures are stored, on a server whose file Jen can read (_ask_the_file).
THEOREM ReplacedFilesAreHeld ==
  ASSUME SshHosts = {TRUE}, "capture" \notin Faults PROVE Spec => ReplacedFilesAreInHistory
<1>1. Init => FileInv
  BY DEF Init, FileInv
<1>2. FileInv /\ (TypeInv /\ ChangeInv) /\ [Next]_vars => FileInv'
  BY FileKeeps
<1>3. FileInv /\ TypeInv => (Renders => file = lastRaw \/ hands > w.asked \/ w.tries > 0)
  <2> SUFFICES ASSUME FileInv, TypeInv, Renders, ~(hands > w.asked), ~(w.tries > 0)
               PROVE  file = lastRaw
    OBVIOUS
  <2>1. hasSSH = TRUE
    BY DEF TypeInv, HostOK
  <2>2. hands = w.asked /\ w.tries = 0
    BY WorkIs DEF TypeInv, WorkOK
  <2> QED
    BY <2>1, <2>2 DEF FileInv, Renders
<1> QED
  BY <1>1, <1>2, <1>3, ApiTypeInvariant, PTL DEF Spec, ReplacedFilesAreInHistory

-----------------------------------------------------------------------------
(* Which file a change is planned over, replaces and records.              *)

\* The daemon's newest load is a config-set of Jen's, younger than a file it never saw.
Overtaken == author = "jen" /\ newer = FALSE /\ known = FALSE

\* A load of the file is younger than that file, or the file is newer.
LoadedFromFile == author = "file" /\ newer = FALSE => known = TRUE

\* Such a config-set is on record as taken,
OvertakenOnRecord ==
  hasSSH = TRUE /\ Overtaken /\ (pending # NoRow => pending.taken = FALSE) =>
    damaged = TRUE \/ file = rendering
\* ... and the file it is to be followed by a write of is the one asked about, as long
\* as no attempt was answered.
OvertakenInHand ==
  hasSSH = TRUE /\ Overtaken =>
    /\ pc \in {"write", "verify", "readBack"} => file \in {rendering, w.planned}
    /\ pc \in {"verify", "readBack"} => Unwritten
    /\ pc \in {"finish", "recordFile"} => file = rendering /\ w.raw = file
    /\ pc \notin {"settleGet", "settleFinish", "settleRecord"}

\* The row of a change names the file it was planned over; a rollback has none.
PlannedOnRecord ==
  /\ w.op = "rollback" => w.planned = None
  /\ pc = "proof" => w.op # "rollback"
  /\ pc \in OnRecord /\ w.planned # None => pending.sha = w.planned

\* The file about to be replaced is still the one the question was about.
AskedAbout ==
  hasSSH = TRUE /\ pc \in {"write", "settleWrite"} =>
    known = TRUE \/ file \in {rendering, pending.sha} \/ w.discard = TRUE \/ hands > w.asked

LoadedInv == LoadedFromFile /\ OvertakenOnRecord /\ OvertakenInHand /\ PlannedOnRecord /\ AskedAbout

\* What was written is in the file, or else the file is the one asked about.
WrittenInv ==
  /\ pc = "readBack" => hasSSH = TRUE
  /\ pc \in {"settleGet", "settleFinish", "settleRecord"} => known = TRUE
  /\ hasSSH = TRUE /\ pc \in {"write", "verify", "readBack"} =>
       known = TRUE \/ file \in {rendering, w.planned}
  /\ pc \in {"verify", "readBack"} => known = TRUE \/ Unwritten

\* What each note of the lock's holder leaves of the files in it.
SameFiles == w'.planned = w.planned /\ w'.raw = w.raw /\ w'.discard = w.discard
LEMMA FilesInHand ==
  ASSUME TypeInv
  PROVE  /\ See \/ MarkRecorded \/ MarkAsked \/ CountAttempt => SameFiles
         /\ \A c : KeepDigest(c) \/ Build(c) => SameFiles
         /\ KeepPlanned => w'.planned = file /\ w'.raw = w.raw
         /\ KeepReadBack => w'.raw = file /\ w'.planned = w.planned
         /\ \A op, d : Commence(op, d) => w'.planned = None /\ w'.raw = None
         /\ TurnAround => w'.planned = None /\ w'.raw = None
         /\ NoWork.planned = None /\ NoWork.raw = None /\ NoWork.op = "none"
<1>1. w \in Work
  BY DEF TypeInv, WorkOK
<1>2. See \/ MarkRecorded \/ MarkAsked \/ CountAttempt => SameFiles
  BY <1>1 DEF See, MarkRecorded, MarkAsked, CountAttempt, SameFiles, Work
<1>3. \A c : KeepDigest(c) \/ Build(c) => SameFiles
  BY <1>1 DEF KeepDigest, Build, SameFiles, Work
<1>4. /\ KeepPlanned => w'.planned = file /\ w'.raw = w.raw
      /\ KeepReadBack => w'.raw = file /\ w'.planned = w.planned
  BY <1>1 DEF KeepPlanned, KeepReadBack, Work
<1>5. /\ \A op, d : Commence(op, d) => w'.planned = None /\ w'.raw = None
      /\ TurnAround => w'.planned = None /\ w'.raw = None
      /\ NoWork.planned = None /\ NoWork.raw = None /\ NoWork.op = "none"
  BY DEF Commence, TurnAround, NoWork
<1> QED
  BY <1>2, <1>3, <1>4, <1>5

\* What a step does to the daemon's file and to who knows it, without two saves in a
\* second.
Unmoved == UNCHANGED <<file, newer, known, author, hasSSH>>
Written == /\ pc \in {"write", "settleWrite"}
           /\ known' = TRUE /\ newer' = TRUE /\ UNCHANGED <<author, hasSSH>>
Taken == /\ Set /\ pc = "set" /\ Take
         /\ author' = "jen" /\ newer' = FALSE /\ UNCHANGED <<file, known, hasSSH>>
SetByOthers == /\ author' \in {"undo", "hand"} /\ newer' = FALSE
               /\ UNCHANGED <<file, known, hasSSH>>
Saved == HandEdit /\ known' = FALSE /\ newer' = TRUE /\ UNCHANGED <<author, hasSSH>>
Reloaded == /\ known' = TRUE /\ newer' = FALSE /\ author' = "file"
            /\ UNCHANGED <<file, hasSSH>>

\* ... is one of these.
LEMMA HostMoves ==
  ASSUME SameSecond = FALSE, Next
  PROVE  Unmoved \/ Written \/ Taken \/ SetByOthers \/ Saved \/ Reloaded
<1>1. CASE Read \/ Block \/ Settle \/ Reconcile \/ SettleAsk
  BY <1>1 DEF Read, Block, Settle, Reconcile, SettleAsk, host, Unmoved
<1>2. CASE SettleWrite
  BY <1>2 DEF SettleWrite, Lost, Render, Stamp, host, Unmoved, Written
<1>3. CASE SettleGet \/ SettleFinish \/ SettleRecord \/ Stale
  BY <1>3 DEF SettleGet, SettleFinish, SettleRecord, Stale, host, Unmoved
<1>4. CASE Supersede \/ Proof \/ Record \/ Compare
  BY <1>4 DEF Supersede, Proof, Record, Compare, host, Unmoved
<1>5. CASE Set
  <2>1. pc = "set" /\ (Take \/ UNCHANGED <<host, pending>>)
    BY <1>5 DEF Set, Lost
  <2> QED
    BY <1>5, <2>1 DEF Take, Commit, host, Unmoved, Taken
<1>6. CASE AfterRefusal \/ AfterLost \/ Ask
  BY <1>6 DEF AfterRefusal, AfterLost, Ask, host, Unmoved
<1>7. CASE Write
  BY <1>7 DEF Write, Lost, Render, Stamp, host, Unmoved, Written
<1>8. CASE Undo
  BY <1>8 DEF Undo, Lost, Commit, host, Unmoved, SetByOthers
<1>9. CASE UndoGet \/ Verify \/ ReadBack \/ Finish \/ RecordFile
  BY <1>9 DEF UndoGet, Verify, ReadBack, Finish, RecordFile, host, Unmoved
<1>10. CASE Drop \/ Return \/ Starts \/ Revert \/ ReaderGet \/ ReaderCapture
  BY <1>10 DEF Drop, Return, Starts, Begin, Revert, ReaderGet, ReaderCapture, host, Unmoved
<1>11. CASE HandSet
  BY <1>11 DEF HandSet, Commit, SetByOthers
<1>12. CASE HandEdit
  BY <1>12 DEF HandEdit, Stamp, Saved
<1>13. CASE Restart
  BY <1>13 DEF Restart, Reloaded
<1>14. CASE RowRots \/ Age \/ ClearRefusal \/ Crash
  BY <1>14 DEF RowRots, Age, ClearRefusal, Crash, host, Unmoved
<1> QED
  BY <1>1, <1>2, <1>3, <1>4, <1>5, <1>6, <1>7, <1>8, <1>9, <1>10, <1>11, <1>12, <1>13, <1>14
     DEF Next, Writer, World

\* A load of the file knows it, and a later save shows.
LEMMA LoadedFromFileStep ==
  ASSUME LoadedFromFile, SameSecond = FALSE, Next
  PROVE  LoadedFromFile'
BY HostMoves DEF LoadedFromFile, Unmoved, Written, Taken, SetByOthers, Saved, Reloaded

\* What a step does to the row: it is the same one, a new one, a taken one, or is gone -
\* for nothing was taken, for it is damaged, or for the change is finished.
SameRow == \/ pending' = pending
           \/ pending # NoRow /\ pending' # NoRow /\ pending'.taken = pending.taken
NewRow == pending = NoRow /\ pending' # NoRow
TakenRow == pending' # NoRow /\ pending'.taken = TRUE
RowGone ==
  pending' = NoRow /\ (\/ author = "jen" => pending.taken = FALSE
                       \/ damaged' = TRUE
                       \/ pc \in {"finish", "settleFinish"})
LEMMA RowMoves ==
  ASSUME TypeInv, ChangeInv, RowInv, Next
  PROVE  SameRow \/ NewRow \/ TakenRow \/ RowGone
<1> USE DEF SameRow, NewRow, TakenRow, RowGone, DropRow, MarkDamaged, FinishRow, store
<1>1. CASE Read \/ Block \/ Settle \/ SettleAsk \/ SettleWrite
  BY <1>1 DEF Read, Block, Settle, SettleAsk, SettleWrite
<1>2. CASE Reconcile
  <2>1. pending # NoRow /\ w.seen = pending.before /\ author = "jen" => pending.taken = FALSE
    BY <1>2 DEF Reconcile, RowInv, Remembered, TakenRuns, TypeInv, RowOK, RowSet
  <2>2. pending # NoRow
    BY <1>2 DEF Reconcile, TypeInv, RowOK, Settling
  <2> QED
    BY <1>2, <2>1, <2>2 DEF Reconcile, NeverReached
<1>3. CASE SettleGet \/ SettleFinish \/ SettleRecord \/ Stale
  BY <1>3 DEF SettleGet, SettleFinish, SettleRecord, Stale
<1>4. CASE Supersede \/ Proof \/ Compare \/ AfterRefusal \/ AfterLost
  BY <1>4 DEF Supersede, Proof, Compare, AfterRefusal, AfterLost
<1>5. CASE Record
  <2>1. UNCHANGED pending \/ pc' = "compare"
    BY <1>5 DEF Record, End, Goto
  <2> QED
    BY <1>5, <2>1, RecordIs, NoRowIs
<1>6. CASE Set
  <2>1. pc = "set" /\ (Take \/ UNCHANGED <<host, pending>>)
    BY <1>6 DEF Set, Lost
  <2> QED
    BY <2>1, TakeIs, NoRowIs
<1>7. CASE Ask \/ Write \/ Undo \/ UndoGet \/ Verify
  BY <1>7 DEF Ask, Write, Undo, UndoGet, Verify
<1>8. CASE ReadBack \/ Finish \/ RecordFile
  BY <1>8 DEF ReadBack, Finish, RecordFile
<1>9. CASE Drop
  BY <1>9 DEF Drop, RowInv, Untaken
<1>10. CASE Return \/ Starts \/ Revert \/ ReaderGet \/ ReaderCapture
  BY <1>10 DEF Return, Starts, Begin, Revert, ReaderGet, ReaderCapture
<1>11. CASE HandSet \/ HandEdit \/ Restart \/ ClearRefusal \/ Crash
  BY <1>11 DEF HandSet, HandEdit, Restart, ClearRefusal, Crash
<1>12. CASE RowRots \/ Age
  BY <1>12, RowRotsIs, AgeIs, NoRowIs
<1> QED
  BY <1>1, <1>2, <1>3, <1>4, <1>5, <1>6, <1>7, <1>8, <1>9, <1>10, <1>11, <1>12
     DEF Next, Writer, World

\* A digest of the file becomes Kea's rendering at the end of a change or of a
\* settlement, and a damaged row stays one.
LEMMA RenderingMoves ==
  ASSUME Next
  PROVE  /\ \/ rendering' = rendering
            \/ pc = "settleRecord" /\ rendering' = file
            \/ pc = "recordFile" /\ rendering' = w.raw
         /\ damaged = TRUE => damaged' = TRUE
<1> USE DEF RecordRendering, MarkDamaged, store
<1>1. CASE Read \/ Block \/ Settle \/ Reconcile \/ SettleAsk
  BY <1>1 DEF Read, Block, Settle, Reconcile, SettleAsk
<1>2. CASE SettleWrite \/ SettleGet \/ SettleFinish \/ SettleRecord \/ Stale
  BY <1>2 DEF SettleWrite, SettleGet, SettleFinish, SettleRecord, Stale
<1>3. CASE Supersede \/ Proof \/ Record \/ Compare \/ Set
  BY <1>3 DEF Supersede, Proof, Record, Compare, Set
<1>4. CASE AfterRefusal \/ AfterLost \/ Ask \/ Write \/ Undo
  BY <1>4 DEF AfterRefusal, AfterLost, Ask, Write, Undo
<1>5. CASE UndoGet \/ Verify \/ ReadBack \/ Finish \/ RecordFile
  BY <1>5 DEF UndoGet, Verify, ReadBack, Finish, RecordFile
<1>6. CASE Drop \/ Return \/ Starts \/ Revert \/ ReaderGet
  BY <1>6 DEF Drop, Return, Starts, Begin, Revert, ReaderGet
<1>7. CASE ReaderCapture \/ HandSet \/ HandEdit \/ Restart \/ RowRots
  BY <1>7 DEF ReaderCapture, HandSet, HandEdit, Restart, RowRots
<1>8. CASE Age \/ ClearRefusal \/ Crash
  BY <1>8 DEF Age, ClearRefusal, Crash
<1> QED
  BY <1>1, <1>2, <1>3, <1>4, <1>5, <1>6, <1>7, <1>8 DEF Next, Writer, World

\* A row goes unproved only when the daemon's newest load is not its config-set.
LEMMA OvertakenOnRecordStep ==
  ASSUME TypeInv, ChangeInv, RowInv, OvertakenOnRecord, OvertakenInHand, SameSecond = FALSE, Next
  PROVE  OvertakenOnRecord'
<1> SUFFICES ASSUME hasSSH' = TRUE, Overtaken', pending' # NoRow => pending'.taken = FALSE
             PROVE  damaged' = TRUE \/ file' = rendering'
  BY DEF OvertakenOnRecord
<1>1. Taken \/ Unmoved
  BY HostMoves DEF Written, SetByOthers, Saved, Reloaded, Overtaken
<1>2. CASE Taken
  BY <1>2, TakeIs, NoRowIs DEF Taken
<1>3. CASE Unmoved
  <2>1. Overtaken /\ hasSSH = TRUE /\ file' = file
    BY <1>3 DEF Unmoved, Overtaken
  <2>2. file = rendering => file' = rendering'
    BY <2>1, RenderingMoves DEF OvertakenInHand
  <2>3. CASE damaged' = TRUE
    BY <2>3
  <2>4. CASE pc = "finish"
    BY <2>1, <2>2, <2>4 DEF OvertakenInHand
  <2>5. CASE pc # "finish" /\ damaged' # TRUE
    <3>1. pc # "settleFinish"
      BY <2>1 DEF OvertakenInHand
    <3>2. author = "jen"
      BY <2>1 DEF Overtaken
    <3>3. pending # NoRow => pending.taken = FALSE
      BY <2>5, <3>1, <3>2, RowMoves DEF SameRow, NewRow, TakenRow, RowGone
    <3>4. damaged = TRUE \/ file = rendering
      BY <2>1, <3>3 DEF OvertakenOnRecord
    <3> QED
      BY <2>2, <3>4, RenderingMoves
  <2> QED
    BY <2>3, <2>4, <2>5
<1> QED
  BY <1>1, <1>2, <1>3

\* What is written after a set is the file asked about, until an answer says it took.
LEMMA OvertakenInHandStep ==
  ASSUME TypeInv, OvertakenInHand, SameSecond = FALSE, Next
  PROVE  OvertakenInHand'
<1> USE EndIs, EndDroppingIs, FilesInHand
        DEF SameFiles, EndOwing, Codes, Goto, Unsettled, Settled, AfterBlock
<1> SUFFICES ASSUME hasSSH' = TRUE, Overtaken'
             PROVE  /\ pc' \in {"write", "verify", "readBack"} => file' \in {rendering', w'.planned}
                    /\ pc' \in {"verify", "readBack"} => Unwritten'
                    /\ pc' \in {"finish", "recordFile"} => file' = rendering' /\ w'.raw = file'
                    /\ pc' \notin {"settleGet", "settleFinish", "settleRecord"}
  BY DEF OvertakenInHand
<1>1. \/ Taken
      \/ Overtaken /\ hasSSH = TRUE /\ file' = file /\ ~Written
  BY HostMoves DEF Unmoved, Written, SetByOthers, Saved, Reloaded, Overtaken
<1>2. CASE Taken
  <2>1. Set /\ hasSSH = TRUE
    BY <1>2 DEF Taken
  <2> QED
    BY <2>1 DEF Set
<1>3. CASE Overtaken /\ hasSSH = TRUE /\ file' = file /\ ~Written
  <2>1. /\ pc \in {"write", "verify", "readBack"} => file \in {rendering, w.planned}
        /\ pc \in {"verify", "readBack"} => Unwritten
        /\ pc \in {"finish", "recordFile"} => file = rendering /\ w.raw = file
        /\ pc \notin {"settleGet", "settleFinish", "settleRecord"}
    BY <1>3 DEF OvertakenInHand
  <2>2. CASE Read \/ Block \/ Settle \/ Reconcile \/ SettleAsk
    BY <2>2 DEF Read, Block, Settle, Reconcile, SettleAsk, AskTheFile
  <2>3. CASE SettleWrite
    BY <1>3, <2>3 DEF SettleWrite, Written, Render, Lost, host, Stamp, Overtaken
  <2>4. CASE SettleGet \/ SettleFinish \/ SettleRecord \/ Stale \/ Supersede
    BY <2>1, <2>4 DEF SettleGet, SettleFinish, SettleRecord, Stale, Supersede
  <2>5. CASE Proof \/ Record \/ Compare \/ AfterRefusal
    BY <2>5 DEF Proof, Record, Compare, AfterRefusal, AskTheFile
  <2>6. CASE Set \/ AfterLost
    BY <1>3, <2>6 DEF Set, AfterLost
  <2>7. CASE Ask
    <3>1. pc' = "write" => file = rendering \/ file = w.planned
      <4>1. pending # NoRow
        BY <2>7 DEF Ask, TypeInv, RowOK, OnRecord
      <4> QED
        BY <2>7, <4>1 DEF Ask, AskTheFile, IsRendering, IsPlanned, MayReplace, Proved, IsLoaded
    <3>2. w'.planned = w.planned /\ rendering' = rendering /\ pc' \in {"write", "done"}
      BY <2>7 DEF Ask, AskTheFile
    <3> QED
      BY <1>3, <3>1, <3>2
  <2>8. CASE Write
    <3>1. ~Render
      BY DEF Render, Stamp, Overtaken
    <3>2. CASE pc' = "undo"
      BY <3>2
    <3>3. CASE CountAttempt /\ Goto(IF IsLastAttempt THEN "verify" ELSE "write")
      <4>1. /\ pc' \in {"verify", "write"} /\ (pc' = "verify" => IsLastAttempt)
            /\ w'.planned = w.planned /\ rendering' = rendering
        BY <2>8, <3>3 DEF Write
      <4>2. IsLastAttempt => Unwritten'
        BY <3>3, CountAttemptIs DEF IsLastAttempt, Unwritten
      <4> QED
        BY <1>3, <2>1, <2>8, <4>1, <4>2 DEF Write
    <3> QED
      BY <2>8, <3>1, <3>2, <3>3 DEF Write
  <2>9. CASE Undo \/ UndoGet \/ Verify
    BY <1>3, <2>1, <2>9 DEF Undo, UndoGet, Verify, Unwritten, store
  <2>10. CASE ReadBack
    <3>1. Unwritten /\ file \in {rendering, w.planned} /\ rendering' = rendering
      BY <2>1, <2>10 DEF ReadBack, store
    <3>2. pc' \in {"done", "finish"} /\ (pc' = "finish" => FileTook /\ KeepReadBack)
      BY <2>10, <3>1 DEF ReadBack
    <3> QED
      BY <1>3, <3>1, <3>2 DEF FileTook
  <2>11. CASE Finish \/ RecordFile
    BY <1>3, <2>1, <2>11 DEF Finish, RecordFile
  <2>12. CASE Drop \/ Return \/ Starts \/ Revert
    BY <2>12 DEF Drop, Return, Starts, Begin, Revert
  <2>13. CASE ReaderGet \/ ReaderCapture
    BY <1>3, <2>1, <2>13 DEF ReaderGet, ReaderCapture, Unwritten, store
  <2>14. CASE World
    <3>1. CASE HandSet \/ HandEdit \/ Restart
      BY <1>3, <2>1, <3>1 DEF HandSet, HandEdit, Restart, Unwritten, store
    <3>2. CASE RowRots \/ Age \/ ClearRefusal \/ Crash
      BY <3>2 DEF RowRots, Age, ClearRefusal, Crash
    <3> QED
      BY <2>14, <3>1, <3>2 DEF World
  <2> QED
    BY <2>2, <2>3, <2>4, <2>5, <2>6, <2>7, <2>8, <2>9, <2>10, <2>11, <2>12, <2>13, <2>14
       DEF Next, Writer
<1> QED
  BY <1>1, <1>2, <1>3

\* The row of a change is inserted with the file of its Plan, and keeps it.
LEMMA PlannedOnRecordStep ==
  ASSUME TypeInv, PlannedOnRecord, Next
  PROVE  PlannedOnRecord'
<1> USE EndIs, EndDroppingIs, FilesInHand, NoWorkIs, CommenceIs, BuildIs, SeeIs, KeepDigestIs,
        KeepFileIs, MarkRecordedIs, CountAttemptIs, MarkAskedIs, TurnAroundIs
        DEF PlannedOnRecord, SameChange, SameFiles, EndOwing, Codes, Goto, Unsettled, Settled,
            AfterBlock, OnRecord, Unsent
<1>1. CASE Read \/ Block \/ Settle \/ Reconcile
  BY <1>1 DEF Read, Block, Settle, Reconcile, store
<1>2. CASE SettleAsk
  BY <1>2 DEF SettleAsk, AskTheFile
<1>3. CASE SettleWrite \/ SettleFinish \/ SettleRecord \/ Stale \/ Supersede
  BY <1>3 DEF SettleWrite, SettleFinish, SettleRecord, Stale, Supersede, store
<1>4. CASE SettleGet
  BY <1>4 DEF SettleGet, TypeInv, HostOK
<1>5. CASE Proof
  BY <1>5 DEF Proof, AskTheFile
<1>6. CASE Record
  <2>1. /\ w'.planned = w.planned /\ w'.op = w.op /\ pc' \in {"compare", "done"}
    BY <1>6 DEF Record
  <2>2. ASSUME pc' = "compare", w.planned # None
        PROVE  pending'.sha = w.planned
    <3>1. w.op # "rollback"
      BY <2>2 
    <3>2. pending' = Row(w.cand, w.expect, w.planned)
      BY <1>6, <2>2, <3>1 DEF Record
    <3> QED
      BY <3>2 DEF Row
  <2> QED
    BY <2>1, <2>2
<1>7. CASE Compare \/ AfterRefusal \/ Undo \/ UndoGet \/ Verify
  BY <1>7 DEF Compare, AfterRefusal, Undo, UndoGet, Verify, store
<1>8. CASE Set
  <2>1. Kea(w.cand) \in Configs
    BY <1>8, KeaIs DEF Set, TypeInv, WorkOK, Chosen
  <2>2. w'.planned = w.planned /\ w'.op = w.op /\ pc' # "proof" /\ pc = "set"
    BY <1>8, <2>1 DEF Set
  <2>3. pending' = pending \/ pending' = [pending EXCEPT !.taken = TRUE]
    BY <1>8 DEF Set, Lost, Take
  <2>4. pending'.sha = pending.sha
    BY <2>2, <2>3 DEF TypeInv, RowOK, RowSet
  <2> QED
    BY <2>2, <2>4
<1>9. CASE AfterLost
  BY <1>9 DEF AfterLost, TypeInv, HostOK, store
<1>10. CASE Ask \/ Write
  BY <1>10 DEF Ask, Write, AskTheFile
<1>11. CASE ReadBack \/ Finish \/ RecordFile \/ Drop \/ Return
  BY <1>11 DEF ReadBack, Finish, RecordFile, Drop, Return, store
<1>12. CASE Starts
  BY <1>12 DEF Starts, Begin, store
<1>13. CASE Revert \/ ReaderGet \/ ReaderCapture
  BY <1>13 DEF Revert, ReaderGet, ReaderCapture, store
<1>14. CASE World
  BY <1>14 DEF World, HandSet, HandEdit, Restart, RowRots, Age, ClearRefusal, Crash, store
<1> QED
  BY <1>1, <1>2, <1>3, <1>4, <1>5, <1>6, <1>7, <1>8, <1>9, <1>10, <1>11, <1>12, <1>13, <1>14
     DEF Next, Writer

\* A question about the file is answered by what the file is, or by the operator.
LEMMA AnswersAreOfTheFile ==
  ASSUME TypeInv, PlannedOnRecord, (Ask /\ pc' = "write") \/ (SettleAsk /\ pc' = "settleWrite")
  PROVE  file \in {rendering, pending.sha} \/ w.discard = TRUE
<1>1. pending # NoRow
  BY DEF TypeInv, RowOK, OnRecord, Settling, Ask, SettleAsk
<1>2. CASE Ask /\ pc' = "write"
  <2>1. file = rendering \/ (w.planned # None /\ w.planned = file)
    BY <1>1, <1>2 DEF Ask, AskTheFile, IsRendering, IsPlanned, MayReplace, Proved, IsLoaded,
                      EndOwing, End, Goto
  <2> QED
    BY <1>2, <2>1 DEF PlannedOnRecord, OnRecord, Ask
<1>3. CASE SettleAsk /\ pc' = "settleWrite"
  <2>1. Unsettled => pc' = "done"
    BY DEF Unsettled, End
  <2> QED
    BY <1>1, <1>3, <2>1 DEF SettleAsk, AskTheFile, IsRendering, IsPlanned, MayReplace, Proved,
       IsLoaded, TypeInv, WorkOK, Work
<1> QED
  BY <1>2, <1>3

\* The file about to be replaced stays the one asked about until somebody saves one.
LEMMA AskedAboutStep ==
  ASSUME TypeInv, PlannedOnRecord, AskedAbout, SameSecond = FALSE, Next
  PROVE  AskedAbout'
<1> USE EndIs, EndDroppingIs, FilesInHand, WorkIs, MarkAskedIs, CountAttemptIs
        DEF SameFiles, EndOwing, Codes, Goto, Unsettled, Settled, AfterBlock
<1> SUFFICES ASSUME hasSSH' = TRUE, pc' \in {"write", "settleWrite"}
             PROVE  \/ known' = TRUE \/ file' \in {rendering', pending'.sha}
                    \/ w'.discard = TRUE \/ hands' > w'.asked
  BY DEF AskedAbout
<1>1. CASE Ask \/ SettleAsk
  <2>1. /\ UNCHANGED <<file, rendering, pending>> /\ w'.discard = w.discard
        /\ Ask => pc' # "settleWrite"
        /\ SettleAsk => pc' # "write"
    BY <1>1 DEF Ask, SettleAsk, AskTheFile, host
  <2> QED
    BY <1>1, <2>1, AnswersAreOfTheFile
<1>2. CASE Set \/ AfterLost
  BY <1>2 DEF Set, AfterLost, Take, Commit, Lost, host
<1>3. CASE Write \/ SettleWrite
  <2>1. (Render /\ UNCHANGED hands) \/ UNCHANGED host
    BY <1>3 DEF Write, SettleWrite, Lost
  <2>2. /\ UNCHANGED <<rendering, pending, hands>> /\ pc \in {"write", "settleWrite"}
        /\ w'.discard = w.discard /\ w'.asked = w.asked
    BY <1>3 DEF Write, SettleWrite, store, TypeInv, WorkOK
  <2> QED
    BY <2>1, <2>2 DEF AskedAbout, Render, host
<1>4. CASE HandSet \/ HandEdit
  <2>1. hands' = hands + 1 /\ w' = w /\ w.asked <= hands /\ hands \in Nat /\ w.asked \in Nat
    BY <1>4, OutsideIs DEF HandSet, HandEdit, TypeInv, WorkOK, Work, CountsOK
  <2> QED
    BY <2>1
<1>5. CASE Restart
  BY <1>5 DEF Restart
<1>6. CASE ReaderGet \/ ReaderCapture
  BY <1>6 DEF ReaderGet, ReaderCapture, AskedAbout, store, host
<1>7. CASE Read \/ Block \/ Settle
  BY <1>7 DEF Read, Block, Settle
<1>8. CASE Reconcile
  <2>1. hasSSH = TRUE
    BY <1>8 DEF Reconcile, host
  <2>2. Unsettled \/ Settled \/ Goto(IF hasSSH THEN "settleAsk" ELSE "settleWrite")
    BY <1>8 DEF Reconcile
  <2> QED
    BY <2>1, <2>2
<1>9. CASE SettleGet \/ SettleFinish \/ SettleRecord
  BY <1>9 DEF SettleGet, SettleFinish, SettleRecord
<1>10. CASE Stale \/ Supersede \/ Proof \/ Record \/ Compare \/ AfterRefusal
  BY <1>10 DEF Stale, Supersede, Proof, Record, Compare, AfterRefusal, AskTheFile
<1>11. CASE Undo \/ UndoGet \/ Verify \/ ReadBack \/ Finish \/ RecordFile
  BY <1>11 DEF Undo, UndoGet, Verify, ReadBack, Finish, RecordFile
<1>12. CASE Drop \/ Return \/ Starts \/ Revert
  BY <1>12 DEF Drop, Return, Starts, Begin, Revert
<1>13. CASE RowRots \/ Age \/ ClearRefusal \/ Crash
  BY <1>13 DEF RowRots, Age, ClearRefusal, Crash
<1> QED
  BY <1>1, <1>2, <1>3, <1>4, <1>5, <1>6, <1>7, <1>8, <1>9, <1>10, <1>11, <1>12, <1>13
     DEF Next, Writer, World


\* Until it is read back, what is in the file was written or is what was asked about:
\* nobody saves one in between.
LEMMA ReadBackStep ==
  ASSUME TypeInv, WrittenInv, "lateEdit" \notin Hands, Next
  PROVE  WrittenInv'
<1> USE EndIs, EndDroppingIs, FilesInHand
        DEF SameFiles, EndOwing, Codes, Goto, Unsettled, Settled, AfterBlock, WrittenInv
<1>1. CASE Read \/ Block \/ Settle
  BY <1>1 DEF Read, Block, Settle
<1>2. CASE Reconcile \/ SettleAsk
  <2>1. pc' \notin {"settleGet", "settleFinish", "settleRecord", "write", "verify", "readBack"}
    BY <1>2 DEF Reconcile, SettleAsk, AskTheFile
  <2> QED
    BY <2>1
<1>3. CASE SettleWrite
  BY <1>3 DEF SettleWrite, Lost, Render
<1>4. CASE SettleGet \/ SettleFinish
  BY <1>4 DEF SettleGet, SettleFinish, host
<1>5. CASE SettleRecord
  BY <1>5 DEF SettleRecord
<1>6. CASE Stale \/ Supersede \/ Proof \/ Record \/ Compare \/ AfterRefusal
  BY <1>6 DEF Stale, Supersede, Proof, Record, Compare, AfterRefusal, AskTheFile
<1>7. CASE Set \/ AfterLost
  <2>1. pc' = "write" => ~hasSSH
    BY <1>7 DEF Set, AfterLost
  <2>2. pc' \notin {"settleGet", "settleFinish", "settleRecord", "verify", "readBack"}
        /\ hasSSH' = hasSSH
    BY <1>7 DEF Set, AfterLost, Take, Commit, Lost, host
  <2> QED
    BY <2>1, <2>2
<1>8. CASE Ask
  <2>1. pc' = "write" => file = rendering \/ file = w.planned
    <3>1. pending # NoRow
      BY <1>8 DEF Ask, TypeInv, RowOK, OnRecord
    <3> QED
      BY <1>8, <3>1 DEF Ask, AskTheFile, IsRendering, IsPlanned, MayReplace, Proved, IsLoaded
  <2>2. w'.planned = w.planned /\ UNCHANGED <<file, rendering>> /\ pc' \in {"write", "done"}
    BY <1>8 DEF Ask, AskTheFile, host
  <2> QED
    BY <2>1, <2>2
<1>9. CASE Write
  <2>1. CASE Render
    BY <1>9, <2>1 DEF Write, Render
  <2>2. CASE UNCHANGED host /\ pc' = "undo"
    BY <2>2
  <2>3. CASE UNCHANGED host /\ CountAttempt /\ Goto(IF IsLastAttempt THEN "verify" ELSE "write")
    <3>1. /\ pc' \in {"verify", "write"} /\ (pc' = "verify" => IsLastAttempt)
          /\ w'.planned = w.planned /\ rendering' = rendering
      BY <1>9, <2>3 DEF Write
    <3>2. IsLastAttempt => Unwritten'
      BY <2>3, CountAttemptIs DEF IsLastAttempt, Unwritten
    <3> QED
      BY <1>9, <2>3, <3>1, <3>2 DEF Write, host
  <2> QED
    BY <1>9, <2>1, <2>2, <2>3 DEF Write, Lost
<1>10. CASE Verify
  BY <1>10 DEF Verify, Unwritten, host, store, TypeInv, HostOK
<1>11. CASE Undo \/ UndoGet \/ ReadBack \/ Finish \/ RecordFile
  BY <1>11 DEF Undo, UndoGet, ReadBack, Finish, RecordFile
<1>12. CASE Drop \/ Return \/ Starts \/ Revert
  BY <1>12 DEF Drop, Return, Starts, Begin, Revert
<1>13. CASE ReaderGet \/ ReaderCapture
  BY <1>13 DEF ReaderGet, ReaderCapture, Unwritten, host, store
<1>14. CASE HandSet \/ Restart
  BY <1>14 DEF HandSet, Restart, Commit, Unwritten, store
<1>15. CASE HandEdit
  BY <1>15 DEF HandEdit, Outside, Late
<1>16. CASE RowRots \/ Age \/ ClearRefusal \/ Crash
  BY <1>16 DEF RowRots, Age, ClearRefusal, Crash
<1> QED
  BY <1>1, <1>2, <1>3, <1>4, <1>5, <1>6, <1>7, <1>8, <1>9, <1>10, <1>11, <1>12, <1>13, <1>14,
     <1>15, <1>16
     DEF Next, Writer, World


\* Nothing was set, asked or written at the start.
LEMMA FilesInit == Init => LoadedInv /\ WrittenInv
<1> SUFFICES ASSUME Init PROVE LoadedInv /\ WrittenInv
  OBVIOUS
<1>1. w.planned = None /\ w.op = "none" /\ pc = "idle" /\ author = "file" /\ known = TRUE
  BY DEF Init, NoWork
<1> QED
  BY <1>1 DEF LoadedInv, LoadedFromFile, OvertakenOnRecord, OvertakenInHand, Overtaken,
              PlannedOnRecord, AskedAbout, WrittenInv, OnRecord, Unsent

\* Every step keeps what is known of the file that is replaced.
LEMMA LoadedKeeps ==
  ASSUME SameSecond = FALSE, TypeInv, ChangeInv, RowInv, LoadedInv, [Next]_vars
  PROVE  LoadedInv'
<1>1. CASE Next
  BY <1>1, LoadedFromFileStep, OvertakenOnRecordStep, OvertakenInHandStep, PlannedOnRecordStep,
     AskedAboutStep DEF LoadedInv
<1>2. CASE UNCHANGED vars
  BY <1>2 DEF vars, LoadedInv, LoadedFromFile, OvertakenOnRecord, OvertakenInHand, Overtaken,
              Unwritten, PlannedOnRecord, AskedAbout
<1> QED
  BY <1>1, <1>2

\* ... and of the file that is read back.
LEMMA WrittenKeeps ==
  ASSUME "lateEdit" \notin Hands, TypeInv, WrittenInv, [Next]_vars
  PROVE  WrittenInv'
<1>1. CASE UNCHANGED vars
  BY <1>1 DEF vars, WrittenInv, Unwritten
<1> QED
  BY <1>1, ReadBackStep

\* A change is planned over the file of the proof.
LEMMA OnlyProofPlans == ASSUME Next, pc = "proof", pc' = "record" PROVE Proof
<1>1. CASE Writer
  BY <1>1
     DEF Writer, Read, Block, Settle, Reconcile, SettleAsk, SettleWrite, SettleGet, SettleFinish,
         SettleRecord, Stale, Supersede, Record, Compare, Set, AfterRefusal, AfterLost, Ask, Write,
         Undo, UndoGet, Verify, ReadBack, Finish, RecordFile, Drop, Return
<1>2. CASE Starts \/ Revert \/ ReaderGet \/ ReaderCapture \/ World
  BY <1>2
     DEF Starts, Begin, Revert, ReaderGet, ReaderCapture, World, HandSet, HandEdit, Restart,
         RowRots, Age, ClearRefusal, Crash
<1> QED
  BY <1>1, <1>2 DEF Next

\* The file of the proof is Kea's rendering, or one the daemon loaded - unless the load
\* is a config-set younger than the file.
LEMMA ProvedWasLoaded ==
  ASSUME TypeInv, LoadedInv, hasSSH = TRUE, Proof, pc' = "record"
  PROVE  \/ known = TRUE \/ file = rendering
         \/ author \in {"undo", "hand"} \/ (author = "jen" /\ damaged = TRUE)
<1>1. file = rendering \/ IsLoaded
  BY DEF Proof, AskTheFile, MayReplace, Proved, IsRendering, IsPlanned, End
<1>2. CASE IsLoaded
  <2>1. newer = FALSE /\ pending = NoRow /\ author \in {"file", "hand", "jen", "undo"}
        /\ known \in BOOLEAN
    BY <1>2 DEF IsLoaded, TypeInv, HostOK
  <2>2. author = "file" => known = TRUE
    BY <2>1 DEF LoadedInv, LoadedFromFile
  <2>3. author = "jen" => known = TRUE \/ damaged = TRUE \/ file = rendering
    BY <2>1 DEF LoadedInv, OvertakenOnRecord, Overtaken
  <2> QED
    BY <2>1, <2>2, <2>3
<1> QED
  BY <1>1, <1>2

\* CFG-004: the file a change is planned over is one the daemon has loaded or rendered
\* (file_proof's rule L), and a config-write replaces only such a file, the one planned
\* over, one the operator discarded, or one saved after the question about it.
THEOREM PlannedFilesWereLoaded ==
  ASSUME SshHosts = {TRUE}, SameSecond = FALSE PROVE Spec => ReplacedFilesWereLoaded
<1>1. /\ LoadedInv /\ (TypeInv /\ ChangeInv) /\ RowInv /\ [Next]_vars
      => LoadedInv'
  BY LoadedKeeps
<1>2. TypeInv /\ LoadedInv /\ [Next]_vars
      => [/\ pc = "proof" /\ pc' = "record" =>
               \/ known \/ file = rendering
               \/ author \in {"undo", "hand"} \/ (author = "jen" /\ damaged)
          /\ Renders => \/ known \/ file \in {rendering, pending.sha}
                        \/ w.discard \/ hands > w.asked]_vars
  <2> SUFFICES ASSUME TypeInv, LoadedInv, Next
               PROVE  /\ pc = "proof" /\ pc' = "record" =>
                           \/ known \/ file = rendering
                           \/ author \in {"undo", "hand"} \/ (author = "jen" /\ damaged)
                      /\ Renders => \/ known \/ file \in {rendering, pending.sha}
                                    \/ w.discard \/ hands > w.asked
    OBVIOUS
  <2>1. hasSSH = TRUE
    BY DEF TypeInv, HostOK
  <2>2. pc = "proof" /\ pc' = "record" =>
          known = TRUE \/ file = rendering
          \/ author \in {"undo", "hand"} \/ (author = "jen" /\ damaged = TRUE)
    BY <2>1, OnlyProofPlans, ProvedWasLoaded
  <2>3. Renders => known = TRUE \/ file \in {rendering, pending.sha}
                   \/ w.discard = TRUE \/ hands > w.asked
    BY <2>1 DEF LoadedInv, AskedAbout, Renders
  <2> QED
    BY <2>2, <2>3
<1>3. Init => LoadedInv
  BY FilesInit
<1> QED
  BY <1>1, <1>2, <1>3, ApiTypeInvariant, RowInvariant, PTL DEF Spec, ReplacedFilesWereLoaded

\* What is read back is kept by the read-back alone.
LEMMA OnlyReadBackKeeps ==
  ASSUME TypeInv, Next
  PROVE  w'.raw \in {w.raw, None} \/ (ReadBack /\ FileTook /\ w'.raw = file)
<1> USE FilesInHand DEF SameFiles
<1>1. CASE Read \/ Block \/ Settle \/ Reconcile
  BY <1>1 DEF Read, Block, Settle, Reconcile
<1>2. CASE SettleAsk \/ SettleWrite \/ SettleFinish \/ SettleRecord \/ Stale \/ Supersede
  BY <1>2 DEF SettleAsk, SettleWrite, SettleFinish, SettleRecord, Stale, Supersede
<1>3. CASE SettleGet
  BY <1>3 DEF SettleGet
<1>4. CASE Proof
  BY <1>4 DEF Proof, AskTheFile
<1>5. CASE Record \/ Compare \/ Set
  BY <1>5 DEF Record, Compare, Set
<1>6. CASE AfterRefusal \/ AfterLost \/ Ask \/ Write
  BY <1>6 DEF AfterRefusal, AfterLost, Ask, Write
<1>7. CASE Undo \/ UndoGet \/ Verify
  BY <1>7 DEF Undo, UndoGet, Verify
<1>8. CASE ReadBack
  BY <1>8 DEF ReadBack
<1>9. CASE Finish \/ RecordFile \/ Drop \/ Return
  BY <1>9 DEF Finish, RecordFile, Drop, Return
<1>10. CASE Starts \/ Revert \/ ReaderGet \/ ReaderCapture
  BY <1>10 DEF Starts, Begin, Revert, ReaderGet, ReaderCapture
<1>11. CASE World
  BY <1>11 DEF World, HandSet, HandEdit, Restart, RowRots, Age, ClearRefusal, Crash
<1> QED
  BY <1>1, <1>2, <1>3, <1>4, <1>5, <1>6, <1>7, <1>8, <1>9, <1>10, <1>11 DEF Next, Writer

\* CFG-004 (R): the digest that Config history comes to keep as Kea's own rendering is
\* that of a file the daemon had written or loaded when it was read, if nobody saves one
\* between the question and the read-back (record_rendering_after_write).
THEOREM RenderingsAreKeasOwn ==
  ASSUME "lateEdit" \notin Hands PROVE Spec => RenderingsAreKeas
<1>1. /\ WrittenInv /\ (TypeInv /\ ChangeInv) /\ [Next]_vars
      => WrittenInv'
  BY WrittenKeeps
<1>2. TypeInv /\ WrittenInv /\ [Next]_vars
      => [/\ rendering' # rendering => known \/ rendering' = w.raw
          /\ w'.raw \notin {w.raw, None, rendering} => known]_vars
  <2> SUFFICES ASSUME TypeInv, WrittenInv, Next
               PROVE  /\ rendering' # rendering => known \/ rendering' = w.raw
                      /\ w'.raw \notin {w.raw, None, rendering} => known
    OBVIOUS
  <2>1. rendering' # rendering => known = TRUE \/ rendering' = w.raw
    BY RenderingMoves DEF WrittenInv
  <2>2. ASSUME w'.raw \notin {w.raw, None, rendering}
        PROVE  known = TRUE
    <3>1. pc = "readBack" /\ FileTook /\ w'.raw = file
      BY <2>2, OnlyReadBackKeeps DEF ReadBack
    <3> QED
      BY <2>2, <3>1 DEF WrittenInv, FileTook
  <2> QED
    BY <2>1, <2>2
<1>3. Init => WrittenInv
  BY FilesInit
<1> QED
  BY <1>1, <1>2, <1>3, ApiTypeInvariant, PTL DEF Spec, RenderingsAreKeas

=============================================================================
