--------------------------- MODULE KeaApiOkProofs ---------------------------
(***************************************************************************)
(* KeaApiConfig: a change that is reported `ok` is what the daemon runs    *)
(* and what its file carries, and owes nothing - a rollback too, when what *)
(* it puts back is an element of a list.                                   *)
(***************************************************************************)
EXTENDS KeaApiRefusalProofs

\* The file the change was planned over is the one its row was inserted over.
PlannedIsFile ==
  hasSSH /\ Alone /\ w.op # "rollback" =>
    /\ pc = "record" => w.planned = file
    /\ pc \in OnRecord => w.planned = w.file0

\* A rollback swaps the two configurations of a change that was `ok`, finds no row, and
\* its own row is inserted over the file that the change wrote.
Turned ==
  /\ Chosen /\ w.op = "change" => w.cand \in Candidates(w.before)
  /\ w.op = "rollback" =>
       /\ Chosen => w.before \in Candidates(w.cand) /\ Kea(w.cand) = w.cand
       /\ pc \notin Settling \cup {"read", "settle", "stale", "supersede", "proof"}
       /\ pc = "block" => pending = NoRow
TurnedAlone ==
  Alone /\ w.op = "rollback" =>
    /\ pc \in {"block", "record"} => file = w.expect
    /\ pc \in OnRecord => w.file0 = w.expect
    /\ Answered => w.h1 = Kea(w.cand)

\* Inclusion tells a rollback's two configurations apart: they differ in an element of
\* a list - or there is no rollback.
Tellable == "rollback" \in Ops => Managed \subseteq Elements

\* Without an SSH host no file is read back.
ReadsAFile == pc = "readBack" => hasSSH

\* What config-write made of the file: its answer says so, or only that it may have.
FileIsWritten ==
  Alone =>
    /\ pc = "write" => file \in {w.file0, running}
    /\ pc \in {"verify", "readBack"} => file = running \/ (Unwritten /\ file = w.file0)
    /\ pc \in {"finish", "recordFile"} \/ (pc = "done" /\ result.code = "ok") => file = running

OwesNothing == pc = "done" /\ result.code = "ok" => pending = NoRow

OkInv ==
  /\ w.op = "rollback" => "rollback" \in Ops
  /\ PlannedIsFile /\ Turned /\ TurnedAlone /\ ReadsAFile /\ FileIsWritten /\ OwesNothing

-----------------------------------------------------------------------------
(* The operators.                                                          *)

\* The planned file is kept once.
LEMMA PlannedIs == ASSUME TypeInv, KeepPlanned PROVE w'.planned = file
BY DEF KeepPlanned, TypeInv, WorkOK, Work

\* No other note of the lock's holder touches it.
LEMMA PlannedStays ==
  ASSUME TypeInv, See \/ KeepReadBack \/ CountAttempt \/ MarkRecorded \/ MarkAsked
  PROVE  w'.planned = w.planned
BY DEF See, KeepReadBack, CountAttempt, MarkRecorded, MarkAsked, TypeInv, WorkOK, Work

\* Nor does the digest of the write.
LEMMA PlannedStaysWithDigest ==
  ASSUME TypeInv, NEW c, KeepDigest(c)
  PROVE  w'.planned = w.planned
BY DEF KeepDigest, TypeInv, WorkOK, Work

\* A configuration and one that Jen makes of it by an element of a list carry neither
\* the other.
LEMMA ElementsTell ==
  ASSUME Managed \subseteq Elements, NEW r \in Configs, NEW c \in Candidates(r)
  PROVE  ~Carries(Kea(c), r) /\ ~Carries(r, Kea(c))
<1> USE ConfigAssumption DEF Carries
<1>1. c \in Configs
  BY DEF Candidates, Configs
<1>2. CASE \E k \in Managed \ r : c = r \cup {k}
  BY <1>1, <1>2, KeaIs
<1>3. CASE \E k \in Managed \cap r : c = r \ ({k} \cup Implied[k])
  <2>1. PICK k \in Managed \cap r : c = r \ ({k} \cup Implied[k])
    BY <1>3
  <2>2. k \notin Kea(c)
    BY <2>1, <1>1 DEF Kea, Configs
  <2> QED
    BY <2>1, <2>2
<1> QED
  BY <1>2, <1>3 DEF Candidates

\* So what a rollback expects to find and what it makes of it carry neither the other.
LEMMA RollbacksTell ==
  ASSUME Tellable, TypeInv, RefusalInv, OkInv, Alone, Chosen, w.op = "rollback"
  PROVE  ~Carries(w.expect, w.cand) /\ ~Carries(Kea(w.cand), w.expect)
<1>1. w.cand \in Configs /\ w.before \in Candidates(w.cand) /\ Kea(w.cand) = w.cand
  BY DEF TypeInv, WorkOK, OkInv, Turned
<1>2. w.expect = Kea(w.before)
  BY DEF RefusalInv, ServerIsExpected
<1>3. Managed \subseteq Elements
  BY DEF Tellable, OkInv
<1> QED
  BY <1>1, <1>2, <1>3, ElementsTell

\* A file that took the change carries it, though no attempt was answered.
LEMMA TookIs ==
  ASSUME FileTook, Unwritten, file = running \/ file = w.planned
  PROVE  file = running
BY DEF FileTook

-----------------------------------------------------------------------------
(* The steps.                                                              *)

\* Only a change set begins a rollback.
LEMMA OpStep ==
  ASSUME TypeInv, w.op = "rollback" => "rollback" \in Ops, Next
  PROVE  w'.op = "rollback" => "rollback" \in Ops
<1> USE EndIs, EndDroppingIs, NoWorkIs, CommenceIs, BuildIs, SeeIs, KeepDigestIs, KeepFileIs,
        MarkRecordedIs, CountAttemptIs, MarkAskedIs
        DEF SameChange, HostOK, WorkOK, AskTheFile, Chosen, Answered, OnRecord, Unsent
<1>0. NoWork.op = "none"
  BY DEF NoWork
<1>1. CASE Read
  BY <1>1 DEF Read
<1>2. CASE Block \/ Settle \/ Reconcile \/ SettleAsk \/ SettleWrite
  BY <1>2 DEF Block, Settle, Reconcile, SettleAsk, SettleWrite
<1>3. CASE SettleGet
  BY <1>3 DEF SettleGet, TypeInv
<1>4. CASE SettleFinish \/ SettleRecord \/ Stale \/ Supersede \/ Proof \/ Record
  BY <1>4 DEF SettleFinish, SettleRecord, Stale, Supersede, Proof, Record
<1>5. CASE Set
  <2>1. Kea(w.cand) \in Configs
    BY <1>5, KeaIs DEF Set, TypeInv
  <2> QED
    BY <1>5, <2>1 DEF Set
<1>6. CASE AfterLost
  BY <1>6 DEF AfterLost, TypeInv
<1>7. CASE Compare \/ AfterRefusal \/ Ask \/ Write \/ Undo \/ UndoGet
  BY <1>7 DEF Compare, AfterRefusal, Ask, Write, Undo, UndoGet
<1>8. CASE Verify \/ ReadBack \/ Finish \/ RecordFile \/ Drop
  BY <1>8 DEF Verify, ReadBack, Finish, RecordFile, Drop
<1>9. CASE Return \/ Crash
  BY <1>0, <1>9 DEF Return, Crash
<1>10. CASE Starts
  BY <1>10 DEF Starts, Begin
<1>11. CASE Revert
  BY <1>11 DEF Revert
<1>12. CASE ReaderGet \/ ReaderCapture \/ HandSet \/ HandEdit \/ Restart \/ RowRots \/ Age
            \/ ClearRefusal
  BY <1>12 DEF ReaderGet, ReaderCapture, HandSet, HandEdit, Restart, RowRots, Age, ClearRefusal
<1> QED
  BY <1>1, <1>2, <1>3, <1>4, <1>5, <1>6, <1>7, <1>8, <1>9, <1>10, <1>11, <1>12
     DEF Next, Writer, World

\* The proof of the file and the insertion of the row see the same file (apply).
LEMMA PlannedStep ==
  ASSUME TypeInv, TypeInv', PlannedIsFile, Next
  PROVE  PlannedIsFile'
<1> USE EndIs, EndDroppingIs, SeeIs, KeepDigestIs, KeepFileIs, MarkRecordedIs, CountAttemptIs,
        MarkAskedIs, PlannedIs, PlannedStays, PlannedStaysWithDigest
        DEF SameChange, PlannedIsFile, Alone, Codes, EndOwing, Goto, Unsettled, Settled, AfterBlock,
            AskTheFile, Lost, Commit, Render, Take, host, OnRecord, Unsent
<1>1. CASE Read \/ Settle \/ SettleGet \/ SettleFinish
  BY <1>1 DEF Read, Settle, SettleGet, SettleFinish
<1>2. CASE Block
  BY <1>2 DEF Block
<1>3. CASE Reconcile \/ SettleAsk \/ SettleWrite \/ SettleRecord
  BY <1>3 DEF Reconcile, SettleAsk, SettleWrite, SettleRecord
<1>4. CASE Stale \/ Supersede
  BY <1>4 DEF Stale, Supersede
<1>5. CASE Proof
  <2>1. UNCHANGED <<file, hands, hasSSH>> /\ ((pc' = "record" /\ KeepPlanned) \/ pc' = "done")
    BY <1>5 DEF Proof
  <2> QED
    BY <2>1
<1>6. CASE Record
  <2>1. /\ UNCHANGED <<file, hands, hasSSH>> /\ pc = "record"
        /\ (pc' = "compare" /\ MarkRecorded) \/ pc' = "done"
    BY <1>6 DEF Record
  <2> QED
    BY <2>1
<1>7. CASE Compare \/ AfterRefusal \/ Undo \/ UndoGet \/ Verify
  BY <1>7 DEF Compare, AfterRefusal, Undo, UndoGet, Verify
<1>8. CASE Set
  <2>1. /\ UNCHANGED <<hands, hasSSH>> /\ pc = "set"
        /\ UNCHANGED w \/ (KeepDigest(Kea(w.cand)) /\ w.cand \in Configs)
    BY <1>8 DEF Set, TypeInv, WorkOK, Chosen
  <2>2. /\ w'.planned = w.planned /\ w'.file0 = w.file0 /\ w'.hands0 = w.hands0
        /\ w'.op = w.op /\ pc' # "record"
    BY <1>8, <2>1, KeaIs DEF Set
  <2> QED
    BY <2>1, <2>2
<1>9. CASE AfterLost
  <2>1. running \in Configs
    BY DEF TypeInv, HostOK
  <2> QED
    BY <1>9, <2>1 DEF AfterLost
<1>10. CASE Ask \/ Write
  BY <1>10 DEF Ask, Write
<1>11. CASE ReadBack \/ Finish \/ RecordFile \/ Drop
  BY <1>11 DEF ReadBack, Finish, RecordFile, Drop
<1>12. CASE Return \/ Starts \/ Revert \/ Crash
  BY <1>12 DEF Return, Starts, Begin, Revert, Crash
<1>13. CASE ReaderGet \/ ReaderCapture \/ RowRots \/ Age \/ ClearRefusal
  BY <1>13 DEF ReaderGet, ReaderCapture, RowRots, Age, ClearRefusal
<1>14. CASE HandSet \/ HandEdit \/ Restart
  BY <1>14, HandsEndAlone
<1> QED
  BY <1>1, <1>2, <1>3, <1>4, <1>5, <1>6, <1>7, <1>8, <1>9, <1>10, <1>11, <1>12, <1>13, <1>14
     DEF Next, Writer, World

\* The two configurations stay as they were built, and no row is in a rollback's way.
LEMMA TurnedStep ==
  ASSUME TypeInv, TypeInv', ChangeInv, Turned, OwesNothing, Next
  PROVE  Turned'
<1> USE EndIs, EndDroppingIs, NoWorkIs, NoResultIs, CommenceIs, BuildIs, SeeIs, KeepDigestIs,
        KeepFileIs, MarkRecordedIs, CountAttemptIs, MarkAskedIs
        DEF TypeInv, WorkOK, Turned, SameChange, Codes, EndOwing, Goto, Unsettled, Settled,
            AfterBlock, AskTheFile, Chosen, Settling, Preparing, OnRecord, Unsent
<1>1. CASE Read
  BY <1>1 DEF Read
<1>2. CASE Block
  BY <1>2, NoRowIs DEF Block, RowOK, store
<1>3. CASE Settle \/ Reconcile \/ SettleAsk
  BY <1>3 DEF Settle, Reconcile, SettleAsk
<1>4. CASE SettleWrite \/ SettleFinish \/ SettleRecord \/ Stale \/ Supersede
  BY <1>4 DEF SettleWrite, SettleFinish, SettleRecord, Stale, Supersede
<1>5. CASE SettleGet
  BY <1>5 DEF SettleGet, HostOK
<1>6. CASE Proof \/ Record \/ Compare \/ AfterRefusal \/ Ask
  BY <1>6 DEF Proof, Record, Compare, AfterRefusal, Ask
<1>7. CASE Set
  <2>1. Kea(w.cand) \in Configs
    BY <1>7, KeaIs DEF Set
  <2>2. (SameChange \/ UNCHANGED w) /\ pc' \in {"ask", "write", "done", "afterRefusal", "afterLost"}
    BY <1>7, <2>1 DEF Set
  <2> QED
    BY <1>7, <2>2 DEF Set
<1>8. CASE AfterLost
  BY <1>8 DEF AfterLost, HostOK
<1>9. CASE Write \/ Undo \/ UndoGet \/ Verify \/ ReadBack
  BY <1>9 DEF Write, Undo, UndoGet, Verify, ReadBack
<1>10. CASE Finish \/ RecordFile \/ Drop
  BY <1>10 DEF Finish, RecordFile, Drop
<1>11. CASE Return \/ Crash
  <2>1. w'.op = "none"
    BY <1>11 DEF Return, Crash, NoWork
  <2> QED
    BY <2>1
<1>12. CASE Starts
  <2>1. w'.op # "rollback" /\ pc' \in {"done", "settle", "read"}
        /\ (pc' = "done" => result'.code # "ok")
    BY <1>12 DEF Starts, Begin
  <2> QED
    BY <2>1
<1>13. CASE Revert
  <2>1. /\ w.cand \in Candidates(w.before) /\ Kea(w.before) = w.before /\ pending = NoRow
        /\ w'.op = "rollback" /\ w'.cand = w.before /\ w'.before = w.cand
        /\ pc' = "block" /\ pending' = pending
    BY <1>13, TurnAroundIs DEF Revert, ChangeInv, ChangeChanges, OwesNothing, store
  <2> QED
    BY <2>1
<1>14. CASE ReaderGet \/ ReaderCapture
  BY <1>14 DEF ReaderGet, ReaderCapture, store
<1>15. CASE HandSet \/ HandEdit \/ Restart
  BY <1>15 DEF HandSet, HandEdit, Restart, store
<1>16. CASE RowRots \/ Age \/ ClearRefusal
  BY <1>16 DEF RowRots, Age, ClearRefusal
<1> QED
  BY <1>1, <1>2, <1>3, <1>4, <1>5, <1>6, <1>7, <1>8, <1>9, <1>10, <1>11, <1>12, <1>13, <1>14,
     <1>15, <1>16
     DEF Next, Writer, World

\* A rollback that is alone starts over the file of its change, and takes nothing else for
\* its own configuration.
LEMMA TurnedAloneStep ==
  ASSUME Tellable, TypeInv, TypeInv', RefusalInv, OkInv, Next
  PROVE  TurnedAlone'
<1> USE EndIs, EndDroppingIs, NoWorkIs, NoResultIs, CommenceIs, BuildIs, SeeIs, KeepDigestIs,
        KeepFileIs, MarkRecordedIs, CountAttemptIs, MarkAskedIs
        DEF TurnedAlone, Alone, SameChange, Codes, EndOwing, Goto, Unsettled, Settled,
            AfterBlock, AskTheFile, Answered, OnRecord, Unsent, host
<1>0. w.op = "rollback" => pc \notin Settling \cup {"read", "settle", "stale", "supersede", "proof"}
  BY DEF OkInv, Turned
<1>1. CASE Read \/ Settle
  BY <1>0, <1>1 DEF Read, Settle, OkInv
<1>2. CASE Block
  <2>1. w.op = "rollback" => pending = NoRow
    BY <1>2 DEF Block, OkInv, Turned
  <2> QED
    BY <1>2, <2>1, NoRowIs DEF Block, OkInv
<1>3. CASE Reconcile \/ SettleAsk \/ SettleWrite \/ SettleFinish \/ SettleRecord
  BY <1>0, <1>3 DEF Settling, Reconcile, SettleAsk, SettleWrite, SettleFinish, SettleRecord
<1>4. CASE SettleGet
  BY <1>0, <1>4 DEF Settling, SettleGet, TypeInv, HostOK
<1>5. CASE Stale \/ Supersede \/ Proof
  BY <1>0, <1>5 DEF Stale, Supersede, Proof
<1>6. CASE Record
  BY <1>6 DEF Record, OkInv
<1>7. CASE Compare \/ AfterRefusal \/ Ask
  BY <1>7 DEF Compare, AfterRefusal, Ask, OkInv
<1>8. CASE Set
  <2>1. Kea(w.cand) \in Configs
    BY <1>8, KeaIs DEF Set, TypeInv, WorkOK, Chosen
  <2>2. /\ (KeepDigest(Kea(w.cand)) /\ pc' \in {"ask", "write"})
           \/ (UNCHANGED w /\ pc' \in {"done", "afterRefusal", "afterLost"})
        /\ (pc' = "done" => result'.code # "ok") /\ UNCHANGED hands /\ pc = "set"
    BY <1>8 DEF Set
  <2> QED
    BY <2>1, <2>2 DEF OkInv
<1>9. CASE AfterLost
  <2>1. /\ (KeepDigest(running) /\ RunsCandidate /\ pc' \in {"ask", "write"})
           \/ (UNCHANGED w /\ pc' \in {"done", "drop"})
        /\ (pc' = "done" => result'.code # "ok") /\ UNCHANGED hands
        /\ pc = "afterLost" /\ running \in Configs
    BY <1>9 DEF AfterLost, TypeInv, HostOK
  <2>2. Alone /\ w.op = "rollback" /\ RunsCandidate => running = Kea(w.cand)
    <3>1. pc = "afterLost" /\ Chosen
      BY <2>1 DEF Chosen
    <3> QED
      BY <3>1, RollbacksTell DEF RefusalInv, ServerIsExpected, RunsCandidate
  <2> QED
    BY <2>1, <2>2 DEF OkInv
<1>10. CASE Write \/ Undo \/ UndoGet
  BY <1>10 DEF Write, Undo, UndoGet, OkInv
<1>11. CASE Verify \/ ReadBack \/ Finish \/ RecordFile
  BY <1>11 DEF Verify, ReadBack, Finish, RecordFile, OkInv
<1>12. CASE Drop
  BY <1>12 DEF Drop, TypeInv, WorkOK
<1>13. CASE Return \/ Crash
  <2>1. w'.op = "none"
    BY <1>13 DEF Return, Crash, NoWork
  <2> QED
    BY <2>1
<1>14. CASE Starts
  <2>1. w'.op # "rollback"
    BY <1>14 DEF Starts, Begin
  <2> QED
    BY <2>1
<1>15. CASE Revert
  <2>1. /\ pc = "done" /\ result.code = "ok" /\ pc' = "block" /\ UNCHANGED <<file, running, hands>>
        /\ w'.expect = w.h1 /\ w'.hands0 = w.hands0
    BY <1>15, TurnAroundIs DEF Revert
  <2>2. Alone => file = running /\ running = w.h1
    BY <2>1 DEF OkInv, FileIsWritten, RefusalInv, ServerIsExpected
  <2> QED
    BY <2>1, <2>2
<1>16. CASE ReaderGet \/ ReaderCapture
  BY <1>16 DEF ReaderGet, ReaderCapture, OkInv
<1>17. CASE HandSet \/ HandEdit \/ Restart
  BY <1>17, HandsEndAlone
<1>18. CASE RowRots \/ Age \/ ClearRefusal
  BY <1>18 DEF RowRots, Age, ClearRefusal
<1> QED
  BY <1>1, <1>2, <1>3, <1>4, <1>5, <1>6, <1>7, <1>8, <1>9, <1>10, <1>11, <1>12, <1>13, <1>14,
     <1>15, <1>16, <1>17, <1>18
     DEF Next, Writer, World

\* The file is read back where there is an SSH host (step (8) of apply).
LEMMA ReadsStep == ASSUME ReadsAFile, Next PROVE ReadsAFile'
<1> USE DEF ReadsAFile, Goto, End, EndOwing, EndDropping, Unsettled, Settled, AfterBlock, AskTheFile,
            Lost, Commit, Render, Take, host
<1>1. CASE Read \/ Block \/ Settle \/ Reconcile \/ SettleAsk
  BY <1>1 DEF Read, Block, Settle, Reconcile, SettleAsk
<1>2. CASE SettleWrite \/ SettleGet \/ SettleFinish \/ SettleRecord \/ Stale
  BY <1>2 DEF SettleWrite, SettleGet, SettleFinish, SettleRecord, Stale
<1>3. CASE Supersede \/ Proof \/ Record \/ Compare \/ Set
  BY <1>3 DEF Supersede, Proof, Record, Compare, Set
<1>4. CASE AfterRefusal \/ AfterLost \/ Ask \/ Write \/ Undo
  BY <1>4 DEF AfterRefusal, AfterLost, Ask, Write, Undo
<1>5. CASE UndoGet \/ Verify \/ ReadBack \/ Finish \/ RecordFile
  BY <1>5 DEF UndoGet, Verify, ReadBack, Finish, RecordFile
<1>6. CASE Drop \/ Return \/ Starts \/ Revert \/ ReaderGet
  BY <1>6 DEF Drop, Return, Starts, Begin, Revert, ReaderGet
<1>7. CASE ReaderCapture \/ HandSet \/ HandEdit \/ Restart \/ RowRots
  BY <1>7 DEF ReaderCapture, HandSet, HandEdit, Restart, RowRots
<1>8. CASE Age \/ ClearRefusal \/ Crash
  BY <1>8 DEF Age, ClearRefusal, Crash
<1> QED
  BY <1>1, <1>2, <1>3, <1>4, <1>5, <1>6, <1>7, <1>8 DEF Next, Writer, World

\* An attempt that was answered wrote what runs; one that was not, did or did not;
\* and the read-back tells which.
LEMMA WrittenStep ==
  ASSUME TypeInv, TypeInv', RefusalInv, OkInv, Tellable, Next
  PROVE  FileIsWritten'
<1> USE WorkIs
        DEF OkInv, SameChange, FileIsWritten, Alone, Goto, Unsettled, Settled, AfterBlock, AskTheFile,
            Lost, Render, host
<1>1. CASE Read \/ Block \/ Settle \/ Reconcile \/ SettleAsk
  BY <1>1, EndIs DEF Read, Block, Settle, Reconcile, SettleAsk, Codes
<1>2. CASE SettleWrite \/ SettleGet \/ SettleFinish \/ SettleRecord \/ Stale
  BY <1>2, EndIs DEF SettleWrite, SettleGet, SettleFinish, SettleRecord, Stale, Codes
<1>3. CASE Supersede \/ Proof \/ Record \/ Compare \/ AfterRefusal
  BY <1>3, EndIs, EndDroppingIs, EndOwingIs
     DEF Supersede, Proof, Record, Compare, AfterRefusal, Codes, EndOwing
<1>4. CASE Set \/ AfterLost \/ Ask
  <2>1. Alone => file = w.file0
    BY <1>4 DEF RefusalInv, FileIsUntouched, Unsent, Set, AfterLost, Ask
  <2>2. UNCHANGED <<file, hands>>
    BY <1>4 DEF Set, AfterLost, Ask, Take, Commit
  <2>3. w'.file0 = w.file0 /\ w'.hands0 = w.hands0
    <3>1. w.cand \in Configs => Kea(w.cand) \in Configs
      BY KeaIs
    <3>2. CASE Set
      BY <3>1, <3>2, KeepDigestIs DEF Set, TypeInv, WorkOK, Chosen, OnRecord, Unsent
    <3>3. CASE AfterLost
      BY <3>3, KeepDigestIs DEF AfterLost, TypeInv, HostOK
    <3>4. CASE Ask
      BY <3>4, MarkAskedIs DEF Ask
    <3> QED
      BY <1>4, <3>2, <3>3, <3>4
  <2>4. pc' \notin {"verify", "readBack", "finish", "recordFile"} /\ (pc' = "done" => result'.code # "ok")
    BY <1>4, EndIs, EndDroppingIs, EndOwingIs DEF Set, AfterLost, Ask, Codes
  <2> QED
    BY <2>1, <2>2, <2>3, <2>4
<1>5. CASE Write
  <2>1. CASE Fine /\ Render /\ pc' = "verify" /\ UNCHANGED <<hands, w>>
    BY <2>1
  <2>2. CASE pc' = "undo"
    BY <2>2
  <2>3. CASE (Render \/ UNCHANGED host) /\ CountAttempt /\ UNCHANGED hands /\ pc = "write"
             /\ pc' = IF IsLastAttempt THEN "verify" ELSE "write"
    <3>1. w'.file0 = w.file0 /\ w'.hands0 = w.hands0 /\ w'.tries = w.tries + 1
      BY <2>3, CountAttemptIs
    <3>2. Alone => file' \in {w.file0, running'}
      BY <2>3
    <3>3. pc' = "verify" => Unwritten'
      BY <2>3, <3>1 DEF IsLastAttempt, Unwritten
    <3> QED
      BY <2>3, <3>1, <3>2, <3>3
  <2> QED
    BY <1>5, <2>1, <2>2, <2>3 DEF Write
<1>6. CASE Undo \/ UndoGet
  BY <1>6, EndDroppingIs, EndOwingIs DEF Undo, UndoGet, Codes
<1>7. CASE Verify
  <2>1. UNCHANGED <<running, file, w, hands>> /\ pc = "verify"
    BY <1>7 DEF Verify
  <2>2. \/ pc' = "readBack" \/ (pc' = "finish" /\ ~Unwritten)
        \/ pc' = "done" /\ result'.code # "ok"
    BY <1>7, EndOwingIs DEF Verify, Codes
  <2> QED
    BY <2>1, <2>2 DEF Unwritten
<1>8. CASE ReadBack
  <2>1. UNCHANGED <<running, file, hands>> /\ pc = "readBack"
    BY <1>8 DEF ReadBack
  <2>2. w'.file0 = w.file0 /\ w'.hands0 = w.hands0
    BY <1>8, KeepFileIs DEF ReadBack
  <2>3. \/ pc' = "finish" /\ (~Unwritten \/ FileTook)
        \/ pc' = "done" /\ result'.code # "ok"
    BY <1>8, EndOwingIs DEF ReadBack, Codes
  <2>4. hasSSH
    BY <2>1 DEF ReadsAFile
  <2>5. Alone /\ w.op # "rollback" => w.planned = w.file0
    BY <2>1, <2>4 DEF PlannedIsFile, OnRecord
  <2>6. Alone /\ w.op = "rollback" => ~Carries(w.h1, w.file0)
    BY <2>1, RollbacksTell DEF OnRecord, Answered, TurnedAlone, Chosen
  <2> QED
    BY <2>1, <2>2, <2>3, <2>5, <2>6, TookIs DEF FileTook
<1>9. CASE Finish \/ RecordFile
  <2>1. UNCHANGED <<running, file, w, hands>> /\ pc \in {"finish", "recordFile"}
    BY <1>9 DEF Finish, RecordFile
  <2>2. pc' \in {"recordFile", "done"}
    BY <1>9 DEF Finish, RecordFile, End, EndOwing
  <2> QED
    BY <2>1, <2>2
<1>10. CASE Drop
  BY <1>10 DEF Drop, TypeInv, WorkOK
<1>11. CASE Return \/ Starts \/ Revert \/ Crash
  BY <1>11, NoResultIs, EndIs DEF Return, Starts, Begin, Revert, Crash, Codes
<1>12. CASE ReaderGet \/ ReaderCapture \/ RowRots \/ Age \/ ClearRefusal
  BY <1>12 DEF ReaderGet, ReaderCapture, RowRots, Age, ClearRefusal, Unwritten
<1>13. CASE HandSet \/ HandEdit \/ Restart
  BY <1>13, HandsEndAlone
<1> QED
  BY <1>1, <1>2, <1>3, <1>4, <1>5, <1>6, <1>7, <1>8, <1>9, <1>10, <1>11, <1>12, <1>13
     DEF Next, Writer, World

\* `ok` is said only once the row is finished.
LEMMA OwesStep == ASSUME TypeInv, OwesNothing, Next PROVE OwesNothing'
<1> USE DEF OwesNothing, Goto, Unsettled, Settled, AfterBlock, AskTheFile, store
<1>1. CASE Read \/ Block \/ Settle \/ Reconcile \/ SettleAsk
  BY <1>1, EndIs DEF Read, Block, Settle, Reconcile, SettleAsk, Codes
<1>2. CASE SettleWrite \/ SettleGet \/ SettleFinish \/ SettleRecord \/ Stale
  BY <1>2, EndIs DEF SettleWrite, SettleGet, SettleFinish, SettleRecord, Stale, Codes
<1>3. CASE Supersede \/ Proof \/ Record \/ Compare \/ AfterRefusal
  BY <1>3, EndIs, EndDroppingIs, EndOwingIs
     DEF Supersede, Proof, Record, Compare, AfterRefusal, Codes, EndOwing
<1>4. CASE Set \/ AfterLost \/ Ask \/ Write \/ Undo
  BY <1>4, EndDroppingIs, EndOwingIs DEF Set, AfterLost, Ask, Write, Undo, Codes
<1>5. CASE UndoGet \/ Verify \/ ReadBack \/ Finish
  BY <1>5, EndDroppingIs, EndOwingIs DEF UndoGet, Verify, ReadBack, Finish, Codes
<1>6. CASE RecordFile
  BY <1>6, EndOwingIs DEF RecordFile, Codes
<1>7. CASE Drop
  BY <1>7 DEF Drop, TypeInv, WorkOK
<1>8. CASE Return \/ Starts \/ Revert \/ Crash
  BY <1>8, NoResultIs, EndIs DEF Return, Starts, Begin, Revert, Crash, Codes
<1>9. CASE ReaderGet \/ ReaderCapture \/ RowRots \/ Age \/ ClearRefusal
  BY <1>9 DEF ReaderGet, ReaderCapture, RowRots, Age, ClearRefusal
<1>10. CASE HandSet \/ HandEdit \/ Restart
  BY <1>10 DEF HandSet, HandEdit, Restart
<1> QED
  BY <1>1, <1>2, <1>3, <1>4, <1>5, <1>6, <1>7, <1>8, <1>9, <1>10 DEF Next, Writer, World

-----------------------------------------------------------------------------
(* The theorems.                                                           *)

\* Every step keeps what `ok` will say true.
LEMMA OkKeeps ==
  ASSUME Tellable, TypeInv, TypeInv', ChangeInv, RefusalInv, OkInv, [Next]_vars
  PROVE  OkInv'
<1>1. CASE Next
  BY <1>1, OpStep, PlannedStep, TurnedStep, TurnedAloneStep, ReadsStep, WrittenStep, OwesStep
     DEF OkInv
<1>2. CASE UNCHANGED vars
  BY <1>2 DEF vars, OkInv, PlannedIsFile, Turned, TurnedAlone, ReadsAFile, FileIsWritten,
              OwesNothing, Alone, Unwritten, Chosen, Answered
<1> QED
  BY <1>1, <1>2

\* Nothing was written yet.
LEMMA OkInit == Init => OkInv
<1> SUFFICES ASSUME Init PROVE OkInv
  OBVIOUS
<1>1. w.op = "none" /\ pc = "idle"
  BY DEF Init, NoWork
<1> QED
  BY <1>1 DEF OkInv, PlannedIsFile, Turned, TurnedAlone, ReadsAFile, FileIsWritten, OwesNothing,
              OnRecord, Unsent

\* What a change that is alone has written so far is in the file, and a rollback knows its
\* own configuration from the one it puts back.
THEOREM OkInvariant == ASSUME Tellable PROVE Spec => []OkInv
<1>1. /\ OkInv /\ RefusalInv /\ (TypeInv /\ ChangeInv) /\ (TypeInv /\ ChangeInv)' /\ [Next]_vars
      => OkInv'
  BY OkKeeps
<1> QED
  BY OkInit, <1>1, RefusalInvariant, ApiTypeInvariant, PTL DEF Spec

\* CFG-002: a change that is reported `ok` and was alone is what the daemon runs and
\* what its file carries, and owes nothing - however many of its requests and answers
\* were lost on the way (apply, steps (5) to (9)) - when no change set rolls back, or what
\* Jen changes are elements of lists, which _carries compares exactly.
THEOREM OkIsSo == ASSUME Tellable PROVE Spec => []OkIsTrue
<1>1. RefusalInv /\ OkInv => OkIsTrue
  BY DEF RefusalInv, ServerIsExpected, Answered, OkInv, TurnedAlone, FileIsWritten, OwesNothing,
         OkIsTrue
<1> QED
  BY <1>1, OkInvariant, RefusalInvariant, PTL

=============================================================================
