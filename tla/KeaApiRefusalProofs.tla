------------------------- MODULE KeaApiRefusalProofs ------------------------
(***************************************************************************)
(* KeaApiConfig: a change that is refused without asking for a person's    *)
(* hands left the server as it was.                                        *)
(***************************************************************************)
EXTENDS KeaApiConfigProofs

\* What a change finds of the server while nobody else touches it.
Unrecorded == {"read", "settle"} \cup Settling \cup Preparing
ServerIsExpected ==
  /\ Chosen => Kea(w.before) = w.expect
  /\ Chosen /\ pc \in Settling \cup Preparing \cup Unsent \cup {"drop"} => running = w.expect
  /\ pc \in OnRecord => running \in {w.expect, Kea(w.cand)}
  /\ Answered /\ pc # "settleFinish" /\ w.op # "rollback" => w.h1 = Kea(w.cand)
  /\ pc \in {"readBack", "finish", "recordFile"} \/ (pc = "done" /\ result.code = "ok")
       => running = w.h1
FileIsUntouched ==
  \/ pc \in Unsent \cup {"afterLost", "ask", "drop"}
  \/ pc \in {"write", "undo", "undoGet"} /\ w.tries = 0
  => file = w.file0
RefusalInv ==
  /\ Chosen /\ w.op # "rollback" => w.before = w.expect
  /\ pc \in Unrecorded => w.file0 = None
  /\ Alone => ServerIsExpected /\ FileIsUntouched
  /\ RefusalChangesNothing

-----------------------------------------------------------------------------
(* The steps.                                                              *)

\* Before the row there is no mark of it.
LEMMA UnrecordedStep ==
  ASSUME TypeInv, TypeInv', ChangeInv, RefusalInv, Next
  PROVE  (Chosen /\ w.op # "rollback" => w.before = w.expect)' /\ (pc' \in Unrecorded => w'.file0 = None)
<1> USE EndIs, EndDroppingIs, NoWorkIs, NoResultIs, CommenceIs, BuildIs, SeeIs, KeepDigestIs,
        KeepFileIs, MarkRecordedIs, CountAttemptIs, MarkAskedIs, TurnAroundIs, NoRowIs,
        OutsideIs, WorkIs
        DEF TypeInv, HostOK, WorkOK, RowOK, ChangeInv, ChangeChanges, RefusalInv, Alone, SameChange, Codes,
            EndOwing, Goto, Unsettled, Settled, AfterBlock, AskTheFile, Lost, Commit, Render,
            Take, host, store, Chosen, Answered, Settling, Preparing, OnRecord, Unsent, Steps,
            Unrecorded
<1>1. CASE Read \/ Block \/ Settle \/ Reconcile \/ SettleAsk
  <2>1. CASE Read
    BY <2>1 DEF Read
  <2>2. CASE Block
    BY <2>2 DEF Block
  <2>3. CASE Settle
    BY <2>3 DEF Settle
  <2>4. CASE Reconcile
    BY <2>4 DEF Reconcile
  <2>5. CASE SettleAsk
    BY <2>5 DEF SettleAsk
  <2> QED
    BY <1>1, <2>1, <2>2, <2>3, <2>4, <2>5
<1>2. CASE SettleWrite \/ SettleGet \/ SettleFinish \/ SettleRecord \/ Stale
  BY <1>2 DEF SettleWrite, SettleGet, SettleFinish, SettleRecord, Stale
<1>3. CASE Supersede \/ Proof \/ Record \/ Compare \/ Set
  <2>1. CASE Supersede
    BY <2>1 DEF Supersede
  <2>2. CASE Proof
    BY <2>2 DEF Proof
  <2>3. CASE Record
    BY <2>3 DEF Record
  <2>4. CASE Compare
    BY <2>4 DEF Compare
  <2>5. CASE Set
    BY <2>5 DEF Set
  <2> QED
    BY <1>3, <2>1, <2>2, <2>3, <2>4, <2>5
<1>4. CASE AfterRefusal
  BY <1>4 DEF AfterRefusal
<1>5. CASE AfterLost
  BY <1>5 DEF AfterLost
<1>6. CASE Ask
  BY <1>6 DEF Ask
<1>7. CASE Write
  BY <1>7 DEF Write
<1>8. CASE Undo
  BY <1>8 DEF Undo
<1>9. CASE UndoGet \/ Verify \/ ReadBack \/ Finish \/ RecordFile
  <2>1. CASE UndoGet
    BY <2>1 DEF UndoGet
  <2>2. CASE Verify
    BY <2>2 DEF Verify
  <2>3. CASE ReadBack
    BY <2>3 DEF ReadBack
  <2>4. CASE Finish
    BY <2>4 DEF Finish
  <2>5. CASE RecordFile
    BY <2>5 DEF RecordFile
  <2> QED
    BY <1>9, <2>1, <2>2, <2>3, <2>4, <2>5
<1>10. CASE Drop
  BY <1>10 DEF Drop
<1>11. CASE Return
  BY <1>11 DEF Return
<1>12. CASE Starts
  BY <1>12 DEF Starts, Begin
<1>13. CASE Revert
  BY <1>13 DEF Revert
<1>14. CASE ReaderGet
  BY <1>14 DEF ReaderGet
<1>15. CASE ReaderCapture \/ HandSet \/ HandEdit \/ Restart \/ RowRots
  <2>1. CASE ReaderCapture
    BY <2>1 DEF ReaderCapture
  <2>2. CASE HandSet
    BY <2>2 DEF HandSet
  <2>3. CASE HandEdit
    BY <2>3 DEF HandEdit
  <2>4. CASE Restart
    BY <2>4 DEF Restart
  <2>5. CASE RowRots
    BY <2>5 DEF RowRots
  <2> QED
    BY <1>15, <2>1, <2>2, <2>3, <2>4, <2>5
<1>16. CASE Age \/ ClearRefusal \/ Crash
  BY <1>16 DEF Age, ClearRefusal, Crash
<1> QED
  BY <1>1, <1>2, <1>3, <1>4, <1>5, <1>6, <1>7, <1>8, <1>9, <1>10, <1>11, <1>12, <1>13, <1>14,
     <1>15, <1>16
     DEF Next, Writer, World

\* The server runs what the change expects, or the change.
LEMMA ExpectedStep ==
  ASSUME TypeInv, TypeInv', ChangeInv, RefusalInv, Next
  PROVE  Alone' => ServerIsExpected'
<1> USE EndIs, EndDroppingIs, NoWorkIs, NoResultIs, CommenceIs, BuildIs, SeeIs, KeepDigestIs,
        KeepFileIs, MarkRecordedIs, CountAttemptIs, MarkAskedIs, TurnAroundIs, NoRowIs,
        OutsideIs, WorkIs
        DEF TypeInv, HostOK, WorkOK, RowOK, ChangeInv, ChangeChanges, RefusalInv, Alone, SameChange, Codes,
            EndOwing, Goto, Unsettled, Settled, AfterBlock, AskTheFile, Lost, Commit, Render,
            Take, host, store, Chosen, Answered, Settling, Preparing, OnRecord, Unsent, Steps,
            ServerIsExpected
<1>1. CASE Read \/ Block \/ Settle \/ Reconcile \/ SettleAsk
  <2>1. CASE Read
    BY <2>1 DEF Read
  <2>2. CASE Block
    BY <2>2 DEF Block
  <2>3. CASE Settle
    BY <2>3 DEF Settle
  <2>4. CASE Reconcile
    BY <2>4 DEF Reconcile
  <2>5. CASE SettleAsk
    BY <2>5 DEF SettleAsk
  <2> QED
    BY <1>1, <2>1, <2>2, <2>3, <2>4, <2>5
<1>2. CASE SettleWrite \/ SettleGet \/ SettleFinish \/ SettleRecord \/ Stale
  <2>1. CASE SettleWrite
    BY <2>1 DEF SettleWrite
  <2>2. CASE SettleGet
    BY <2>2 DEF SettleGet
  <2>3. CASE SettleFinish
    BY <2>3 DEF SettleFinish
  <2>4. CASE SettleRecord
    BY <2>4 DEF SettleRecord
  <2>5. CASE Stale
    BY <2>5 DEF Stale
  <2> QED
    BY <1>2, <2>1, <2>2, <2>3, <2>4, <2>5
<1>3. CASE Supersede \/ Proof \/ Record \/ Compare \/ Set
  <2>1. CASE Supersede
    BY <2>1 DEF Supersede
  <2>2. CASE Proof
    BY <2>2 DEF Proof
  <2>3. CASE Record
    BY <2>3 DEF Record
  <2>4. CASE Compare
    BY <2>4 DEF Compare
  <2>5. CASE Set
    BY <2>5 DEF Set
  <2> QED
    BY <1>3, <2>1, <2>2, <2>3, <2>4, <2>5
<1>4. CASE AfterRefusal \/ Ask \/ Write \/ Undo \/ UndoGet
  <2>1. CASE AfterRefusal
    BY <2>1 DEF AfterRefusal
  <2>2. CASE Ask
    BY <2>2 DEF Ask
  <2>3. CASE Write
    BY <2>3 DEF Write
  <2>4. CASE Undo
    BY <2>4 DEF Undo
  <2>5. CASE UndoGet
    BY <2>5 DEF UndoGet
  <2> QED
    BY <1>4, <2>1, <2>2, <2>3, <2>4, <2>5
<1>5. CASE AfterLost
  <2>1. UNCHANGED <<running, hands>> /\ pc = "afterLost" /\ Chosen
    BY <1>5 DEF AfterLost
  <2>2. CASE UNCHANGED w /\ pc' = "drop" /\ RunsBefore
    BY <1>5, <2>1, <2>2 DEF AfterLost, RunsBefore
  <2>3. CASE UNCHANGED w /\ pc' = "done" /\ result'.code # "ok"
    BY <2>1, <2>3
  <2>4. CASE KeepDigest(running) /\ RunsCandidate /\ pc' \in {"ask", "write"}
    <3>1. SameChange /\ w'.h1 = running /\ w'.hands0 = w.hands0
      BY <2>4
    <3>2. Alone => running \in {w.expect, Kea(w.cand)} /\ Kea(w.before) = w.expect
      BY <2>1
    <3>3. running # w.before
      BY <2>4 DEF RunsCandidate, RunsBefore
    <3> QED
      BY <2>1, <2>4, <3>1, <3>2, <3>3
  <2> QED
    BY <1>5, <2>2, <2>3, <2>4 DEF AfterLost
<1>6. CASE Verify \/ ReadBack \/ Finish \/ RecordFile \/ Drop
  <2>1. CASE Verify
    BY <2>1 DEF Verify
  <2>2. CASE ReadBack
    BY <2>2 DEF ReadBack
  <2>3. CASE Finish
    BY <2>3 DEF Finish
  <2>4. CASE RecordFile
    BY <2>4 DEF RecordFile
  <2>5. CASE Drop
    BY <2>5 DEF Drop
  <2> QED
    BY <1>6, <2>1, <2>2, <2>3, <2>4, <2>5
<1>7. CASE Return \/ Starts \/ Revert \/ ReaderGet \/ ReaderCapture
  <2>1. CASE Return
    BY <2>1 DEF Return
  <2>2. CASE Starts
    BY <2>2 DEF Starts, Begin
  <2>3. CASE Revert
    BY <2>3 DEF Revert
  <2>4. CASE ReaderGet
    BY <2>4 DEF ReaderGet
  <2>5. CASE ReaderCapture
    BY <2>5 DEF ReaderCapture
  <2> QED
    BY <1>7, <2>1, <2>2, <2>3, <2>4, <2>5
<1>8. CASE HandSet
  BY <1>8, HandsEndAlone
<1>9. CASE HandEdit
  BY <1>9, HandsEndAlone
<1>10. CASE Restart
  BY <1>10, HandsEndAlone
<1>11. CASE RowRots \/ Age \/ ClearRefusal \/ Crash
  BY <1>11 DEF RowRots, Age, ClearRefusal, Crash
<1> QED
  BY <1>1, <1>2, <1>3, <1>4, <1>5, <1>6, <1>7, <1>8, <1>9, <1>10, <1>11 DEF Next, Writer, World

\* Until a config-write may have been executed the file is what it was.
LEMMA UntouchedStep ==
  ASSUME TypeInv, TypeInv', ChangeInv, RefusalInv, Next
  PROVE  Alone' => FileIsUntouched'
<1> USE EndIs, EndDroppingIs, NoWorkIs, NoResultIs, CommenceIs, BuildIs, SeeIs, KeepDigestIs,
        KeepFileIs, MarkRecordedIs, CountAttemptIs, MarkAskedIs, TurnAroundIs, NoRowIs,
        OutsideIs, WorkIs
        DEF TypeInv, HostOK, WorkOK, RowOK, ChangeInv, ChangeChanges, RefusalInv, Alone, SameChange, Codes,
            EndOwing, Goto, Unsettled, Settled, AfterBlock, AskTheFile, Lost, Commit, Render,
            Take, host, store, Chosen, Answered, Settling, Preparing, OnRecord, Unsent, Steps,
            FileIsUntouched
<1>1. CASE Read \/ Block \/ Settle \/ Reconcile \/ SettleAsk
  BY <1>1 DEF Read, Block, Settle, Reconcile, SettleAsk
<1>2. CASE SettleWrite \/ SettleGet \/ SettleFinish \/ SettleRecord \/ Stale
  BY <1>2 DEF SettleWrite, SettleGet, SettleFinish, SettleRecord, Stale
<1>3. CASE Supersede \/ Proof \/ Compare \/ Set \/ AfterRefusal
  BY <1>3 DEF Supersede, Proof, Compare, Set, AfterRefusal
<1>4. CASE Record
  <2>1. (pc' = "compare" /\ MarkRecorded) \/ (pc' = "done" /\ UNCHANGED w)
    BY <1>4 DEF Record
  <2> QED
    BY <1>4, <2>1 DEF Record
<1>5. CASE AfterLost \/ Ask \/ Undo \/ Verify \/ ReadBack
  BY <1>5 DEF AfterLost, Ask, Undo, Verify, ReadBack
<1>6. CASE Write
  <2>1. CASE CountAttempt /\ pc' \in {"verify", "write"}
    BY <2>1
  <2>2. CASE UNCHANGED <<w, host>> /\ pc' = "undo"
    BY <1>6, <2>2 DEF Write
  <2>3. CASE pc' = "verify"
    BY <2>3
  <2> QED
    BY <1>6, <2>1, <2>2, <2>3 DEF Write
<1>7. CASE UndoGet
  <2>1. pc' = "done" \/ (pc' = "drop" /\ ~MaybeWritten)
    BY <1>7 DEF UndoGet
  <2>2. ~MaybeWritten => w.tries = 0
    BY MaybeWrittenIs
  <2>3. UNCHANGED <<file, w, hands>> /\ pc = "undoGet"
    BY <1>7 DEF UndoGet
  <2> QED
    BY <2>1, <2>2, <2>3
<1>8. CASE Finish \/ RecordFile \/ Drop \/ Return \/ Starts
  <2>1. CASE Finish
    BY <2>1 DEF Finish
  <2>2. CASE RecordFile
    BY <2>2 DEF RecordFile
  <2>3. CASE Drop
    BY <2>3 DEF Drop
  <2>4. CASE Return
    BY <2>4 DEF Return
  <2>5. CASE Starts
    BY <2>5 DEF Starts, Begin
  <2> QED
    BY <1>8, <2>1, <2>2, <2>3, <2>4, <2>5
<1>9. CASE Revert \/ ReaderGet \/ ReaderCapture \/ RowRots \/ Age
  BY <1>9 DEF Revert, ReaderGet, ReaderCapture, RowRots, Age
<1>10. CASE HandSet
  BY <1>10, HandsEndAlone
<1>11. CASE HandEdit
  BY <1>11, HandsEndAlone
<1>12. CASE Restart
  BY <1>12, HandsEndAlone
<1>13. CASE ClearRefusal \/ Crash
  BY <1>13 DEF ClearRefusal, Crash
<1> QED
  BY <1>1, <1>2, <1>3, <1>4, <1>5, <1>6, <1>7, <1>8, <1>9, <1>10, <1>11, <1>12, <1>13
     DEF Next, Writer, World

\* A refusal comes with the daemon and the file as they were.
LEMMA RefusalStep == ASSUME TypeInv, TypeInv', ChangeInv, RefusalInv, Next PROVE RefusalChangesNothing'
<1> USE EndIs, EndDroppingIs, NoWorkIs, NoResultIs, CommenceIs, BuildIs, SeeIs, KeepDigestIs,
        KeepFileIs, MarkRecordedIs, CountAttemptIs, MarkAskedIs, TurnAroundIs, NoRowIs,
        EndOwingIs, OutsideIs, WorkIs
        DEF TypeInv, HostOK, WorkOK, RowOK, ChangeInv, ChangeChanges, RefusalInv, Alone, SameChange, Codes,
            Goto, Unsettled, Settled, AfterBlock, AskTheFile, Lost, Commit, Render, Take, host,
            store, Chosen, Answered, Settling, Preparing, OnRecord, Unsent, Steps,
            ServerIsExpected, FileIsUntouched, RefusalChangesNothing, Unrecorded
<1>1. CASE Read \/ Block \/ Settle \/ Reconcile \/ SettleAsk
  BY <1>1 DEF Read, Block, Settle, Reconcile, SettleAsk
<1>2. CASE SettleWrite \/ SettleGet \/ SettleFinish \/ SettleRecord \/ Stale
  BY <1>2 DEF SettleWrite, SettleGet, SettleFinish, SettleRecord, Stale
<1>3. CASE Supersede \/ Proof \/ Record \/ Compare \/ Set
  BY <1>3 DEF Supersede, Proof, Record, Compare, Set
<1>4. CASE AfterRefusal \/ AfterLost \/ Ask \/ Write \/ Undo
  BY <1>4 DEF AfterRefusal, AfterLost, Ask, Write, Undo
<1>5. CASE UndoGet \/ Verify \/ ReadBack \/ Finish \/ RecordFile
  BY <1>5 DEF UndoGet, Verify, ReadBack, Finish, RecordFile
<1>6. CASE Drop \/ Return \/ Starts \/ Revert \/ ReaderGet
  BY <1>6 DEF Drop, Return, Starts, Begin, Revert, ReaderGet
<1>7. CASE ReaderCapture \/ RowRots \/ Age \/ ClearRefusal \/ Crash
  BY <1>7 DEF ReaderCapture, RowRots, Age, ClearRefusal, Crash
<1>8. CASE HandSet
  BY <1>8, HandsEndAlone
<1>9. CASE HandEdit
  BY <1>9, HandsEndAlone
<1>10. CASE Restart
  BY <1>10, HandsEndAlone
<1> QED
  BY <1>1, <1>2, <1>3, <1>4, <1>5, <1>6, <1>7, <1>8, <1>9, <1>10 DEF Next, Writer, World

-----------------------------------------------------------------------------
(* The theorems.                                                           *)

\* Every step keeps what a refusal says true.
LEMMA RefusalKeeps ==
  ASSUME TypeInv, TypeInv', ChangeInv, RefusalInv, [Next]_vars PROVE RefusalInv'
<1>1. CASE Next
  BY <1>1, UnrecordedStep, ExpectedStep, UntouchedStep, RefusalStep DEF RefusalInv
<1>2. CASE UNCHANGED vars
  BY <1>2 DEF vars, RefusalInv, ServerIsExpected, FileIsUntouched, RefusalChangesNothing,
              Alone, Chosen, Answered
<1> QED
  BY <1>1, <1>2

\* Nothing was refused yet.
LEMMA RefusalInit == Init => RefusalInv
<1> SUFFICES ASSUME Init PROVE RefusalInv
  OBVIOUS
<1>1. ~Chosen /\ ~Answered /\ pc = "idle"
  BY NoResultIs DEF Init, Chosen, Answered, Settling, Preparing, OnRecord, Unsent
<1> QED
  BY <1>1
     DEF RefusalInv, ServerIsExpected, FileIsUntouched, RefusalChangesNothing, Unrecorded,
         Settling, Preparing, OnRecord, Unsent

\* While a change is alone, the daemon runs what it expects or what it makes, and
\* the file is untouched until a config-write may have been executed.
THEOREM RefusalInvariant == Spec => []RefusalInv
<1>1. RefusalInv /\ (TypeInv /\ ChangeInv) /\ (TypeInv /\ ChangeInv)' /\ [Next]_vars => RefusalInv'
  BY RefusalKeeps
<1> QED
  BY RefusalInit, <1>1, ApiTypeInvariant, PTL DEF Spec

\* A change that is refused without asking for a person's hands left the server as
\* it was: what the daemon runs and what the file says are what they were when the
\* change was recorded - for changes, imports, restores and rollbacks, with and
\* without an SSH host (_after_a_set_failure, _after_a_set_without_an_answer, _undo).
THEOREM RefusalsChangeNothing == Spec => []RefusalChangesNothing
<1>1. RefusalInv => RefusalChangesNothing
  BY DEF RefusalInv
<1> QED
  BY RefusalInvariant, <1>1, PTL

=============================================================================
