------------------------- MODULE KeaApiConfigProofs -------------------------
(***************************************************************************)
(* KeaApiConfig: its types, and the locals of the change in hand at every  *)
(* step, for every set of settings and defaults, any number of attempts,   *)
(* failures and acts outside Jen.                                          *)
(***************************************************************************)
EXTENDS KeaApiConfig, TLAPS

Maybe == {None} \cup Configs

Work == [op : AllOps \cup {"none"}, discard : BOOLEAN, cand : Maybe, before : Maybe,
         expect : Maybe, planned : Maybe, h1 : Maybe, seen : Maybe, tries : Nat,
         raw : Maybe, file0 : Maybe, hands0 : Nat, asked : Nat]

RowSet == [state : {"live", "damaged"}, cand : Configs, before : Configs,
           sha : Maybe, young : BOOLEAN, taken : BOOLEAN]

\* The steps that deal with an earlier change, those on the way to a row of this
\* change's own, those with one, and those past the set.
Settling == {"reconcile", "settleAsk", "settleWrite", "settleGet", "settleFinish", "settleRecord"}
Preparing == {"block", "stale", "supersede", "proof", "record"}
Unsent == {"compare", "set", "afterRefusal"}
OnRecord == Unsent \cup
  {"afterLost", "ask", "write", "undo", "undoGet", "verify", "readBack", "finish", "drop"}
Sent == {"ask", "write", "undo", "undoGet", "verify", "readBack", "finish"}
Steps == {"idle", "read", "settle", "done", "recordFile"} \cup Settling \cup Preparing \cup OnRecord

\* The change in hand has been built: what it writes and what it was built from.
Chosen ==
  \/ pc \in Preparing \cup OnRecord \cup {"recordFile"}
  \/ pc \in Settling /\ w.op # "settle"
  \/ pc = "done" /\ result.code = "ok"

\* A digest of what the daemon runs after the write is at hand.
Answered ==
  \/ pc \in {"settleFinish", "ask", "write", "undo", "undoGet", "verify", "readBack",
             "finish", "recordFile"}
  \/ pc = "done" /\ result.code = "ok"

\* The locals of the lock's holder are of their kind where the steps use them.
WorkOK ==
  /\ pc \in Steps /\ w \in Work /\ w.tries <= WriteAttempts
  /\ pc \in Settling => w.op # "none"
  /\ Chosen => /\ w.op \notin {"settle", "none"}
               /\ w.cand \in Configs /\ w.before \in Configs /\ w.expect \in Configs
  /\ Answered => w.h1 \in Configs
  /\ pc = "settle" => w.op = "settle"
  /\ pc = "read" => w.op \notin {"settle", "none"}
  /\ pc = "write" => w.tries < WriteAttempts
  /\ pc \in Steps \ {"write", "undo", "undoGet", "verify", "readBack", "finish",
                    "recordFile", "drop", "done"} => w.tries = 0
  /\ pc = "drop" => result.code # "ok"
  /\ w.hands0 <= hands /\ w.asked <= hands
RowOK ==
  /\ pending = NoRow \/ pending \in RowSet
  /\ pc \in (Settling \ {"settleRecord"}) \cup {"supersede"} => pending # NoRow
  /\ pc \in OnRecord =>
       pending # NoRow /\ pending.cand = w.cand /\ pending.before = w.expect

\* The rest of TypeOK.
HostOK ==
  /\ running \in Configs /\ file \in Configs
  /\ newer \in BOOLEAN /\ known \in BOOLEAN /\ hasSSH \in SshHosts
  /\ author \in {"file", "hand", "jen", "undo"}
DigestsOK ==
  /\ damaged \in BOOLEAN /\ refused \in BOOLEAN
  /\ lastKea \in Maybe /\ lastRaw \in Maybe /\ rendering \in Maybe /\ reader \in Maybe
ResultOK == result.code \in Codes /\ result.needsHands \in BOOLEAN
CountsOK == hands \in 0..MaxHands /\ faults \in 0..MaxFaults

TypeInv == HostOK /\ DigestsOK /\ ResultOK /\ CountsOK /\ WorkOK /\ RowOK

-----------------------------------------------------------------------------
\* The change in hand does something: neither the configuration it expects nor
\* the one an undo sets is the one it makes the daemon run.
ChangeChanges ==
  /\ Chosen => Kea(w.cand) # w.expect /\ Kea(w.cand) # w.before
  /\ Chosen /\ w.op = "change" => Kea(w.before) = w.before /\ w.cand # w.before
  /\ Answered /\ pc # "settleFinish" /\ w.op = "change" => w.h1 # w.before

ChangeInv == Kea(running) = running /\ ChangeChanges

\* What each note of the lock's holder leaves as it was.
SameChange ==
  /\ w' \in Work /\ w'.op = w.op /\ w'.hands0 = w.hands0
  /\ w'.cand = w.cand /\ w'.before = w.before /\ w'.expect = w.expect

-----------------------------------------------------------------------------
(* The operators.                                                          *)

\* What Kea makes of a configuration is one, and complete.
LEMMA KeaIs ==
  ASSUME NEW c \in Configs
  PROVE  Kea(c) \in Configs /\ Kea(Kea(c)) = Kea(c) /\ c \subseteq Kea(c)
<1>1. Implied \in [Keys -> SUBSET Keys] /\ \A k \in Keys : \A d \in Implied[k] : Implied[d] = {}
  BY ConfigAssumption
<1>2. \A d : d \in Kea(c) <=> d \in c \/ \E k \in c : d \in Implied[k]
  BY DEF Kea
<1>3. Kea(c) \in Configs
  BY <1>1, <1>2 DEF Configs
<1>4. \A d : d \in Kea(Kea(c)) <=> d \in Kea(c) \/ \E k \in Kea(c) : d \in Implied[k]
  BY DEF Kea
<1>5. \A d : d \in Kea(Kea(c)) <=> d \in Kea(c)
  BY <1>1, <1>2, <1>3, <1>4 DEF Configs
<1> QED
  BY <1>2, <1>3, <1>5

\* The daemon carries what it was given: a default is no element of a list.
LEMMA KeaCarries == ASSUME NEW c \in Configs PROVE Carries(Kea(c), c)
<1>1. \A k \in Keys : Implied[k] \cap Elements = {}
  BY ConfigAssumption
<1> QED
  BY <1>1 DEF Carries, Kea, Configs

\* Every change Jen builds is a change of what the daemon will run.
LEMMA CandidatesChange ==
  ASSUME NEW r \in Configs, Kea(r) = r, NEW c \in Candidates(r)
  PROVE  c \in Configs /\ c # r /\ Kea(c) # r
<1> USE ConfigAssumption
<1>1. c \in Configs
  BY DEF Candidates, Configs
<1>2. CASE \E k \in Managed \ r : c = r \cup {k}
  BY <1>1, <1>2, KeaIs
<1>3. CASE \E k \in Managed \cap r : c = r \ ({k} \cup Implied[k])
  <2>1. PICK k \in Managed \cap r : c = r \ ({k} \cup Implied[k])
    BY <1>3
  <2>2. k \notin Kea(c)
    BY <2>1, <1>1 DEF Kea, Configs
  <2> QED
    BY <1>1, <2>1, <2>2
<1> QED
  BY <1>2, <1>3 DEF Candidates

\* The absent row is not a row.
LEMMA NoRowIs == NoRow.state = "no row" /\ \A r \in RowSet : r # NoRow
<1>1. NoRow.state = "no row"
  BY DEF NoRow
<1>2. \A r \in RowSet : r.state # "no row"
  BY DEF RowSet
<1> QED
  BY <1>1, <1>2

\* What apply answers (_result).
LEMMA EndIs ==
  ASSUME NEW c \in Codes, NEW b \in BOOLEAN, End(c, b)
  PROVE  ResultOK' /\ pc' = "done" /\ result'.code = c
<1>1. pc' = "done" /\ result'.code = c
  BY DEF End
<1>2. result'.needsHands = b
  BY DEF End
<1> QED
  BY <1>1, <1>2 DEF ResultOK

\* The answer of a change whose row goes (_drop_pending).
LEMMA EndDroppingIs ==
  ASSUME NEW c \in Codes, EndDropping(c)
  PROVE  ResultOK' /\ pc' = "drop" /\ result'.code = c
<1>1. pc' = "drop" /\ result'.code = c
  BY DEF EndDropping
<1>2. result'.needsHands = FALSE
  BY DEF EndDropping
<1> QED
  BY <1>1, <1>2 DEF ResultOK

\* The answer of a change that is half done (_unproved).
LEMMA EndOwingIs ==
  ASSUME NEW c \in Codes, EndOwing(c)
  PROVE  pc' = "done" /\ result'.code = c /\ result'.needsHands = TRUE
<1>1. pc' = "done" /\ result'.code = c
  BY DEF EndOwing, End
<1>2. result'.needsHands = TRUE
  BY DEF EndOwing, End
<1> QED
  BY <1>1, <1>2

\* Before an answer.
LEMMA NoResultIs == NoResult.code = "none" /\ NoResult.needsHands = FALSE
BY DEF NoResult

\* Failures stay within their bound.
LEMMA FaultIs ==
  ASSUME faults \in 0..MaxFaults, NEW kind, Fault(kind)
  PROVE  faults' \in 0..MaxFaults
BY ConfigAssumption DEF Fault

\* So do acts outside Jen.
LEMMA OutsideIs ==
  ASSUME hands \in 0..MaxHands, NEW kind, Outside(kind)
  PROVE  hands' \in 0..MaxHands /\ hands' = hands + 1
BY ConfigAssumption DEF Outside

\* An operation begins with nothing in hand.
LEMMA CommenceIs ==
  ASSUME NEW op \in AllOps, NEW d \in BOOLEAN, Commence(op, d)
  PROVE  w' \in Work /\ w'.op = op /\ w'.tries = 0 /\ w'.hands0 = 0 /\ w'.asked = 0
         /\ w'.file0 = None
BY DEF Commence, NoWork, Work, Maybe

\* Nothing in hand.
LEMMA NoWorkIs ==
  NoWork \in Work /\ NoWork.tries = 0 /\ NoWork.hands0 = 0 /\ NoWork.asked = 0 /\ NoWork.file0 = None
BY DEF NoWork, Work, Maybe

\* The read a change is built on.
LEMMA BuildIs ==
  ASSUME TypeInv, NEW c \in Candidates(running), Build(c)
  PROVE  /\ w' \in Work /\ w'.op = w.op /\ w'.tries = w.tries /\ w'.asked = w.asked /\ w'.file0 = w.file0
         /\ w'.hands0 = hands /\ w'.cand = c /\ w'.before = running /\ w'.expect = running
         /\ c \in Configs
<1>1. c \in Configs
  BY ConfigAssumption DEF TypeInv, HostOK, Candidates, Configs
<1>2. w \in Work /\ c \in Maybe /\ running \in Maybe /\ hands \in Nat
  BY <1>1, ConfigAssumption DEF TypeInv, HostOK, CountsOK, WorkOK, Maybe
<1> QED
  BY <1>1, <1>2 DEF Build, Work

\* A look at the daemon.
LEMMA SeeIs ==
  ASSUME TypeInv, See
  PROVE  SameChange /\ w'.h1 = w.h1 /\ w'.tries = w.tries /\ w'.asked = w.asked
         /\ w'.seen = running /\ w'.file0 = w.file0
<1>1. w \in Work /\ running \in Maybe
  BY DEF TypeInv, HostOK, WorkOK, Maybe
<1> QED
  BY <1>1 DEF See, Work, SameChange

\* A digest kept.
LEMMA KeepDigestIs ==
  ASSUME TypeInv, NEW c \in Configs, KeepDigest(c)
  PROVE  SameChange /\ w'.h1 = c /\ w'.tries = w.tries /\ w'.asked = w.asked /\ w'.file0 = w.file0
<1>1. w \in Work /\ c \in Maybe
  BY DEF TypeInv, WorkOK, Maybe
<1> QED
  BY <1>1 DEF KeepDigest, Work, SameChange

\* A reading of the file kept.
LEMMA KeepFileIs ==
  ASSUME TypeInv, KeepPlanned \/ KeepReadBack
  PROVE  /\ SameChange /\ w'.h1 = w.h1 /\ w'.tries = w.tries /\ w'.asked = w.asked
         /\ w'.file0 = w.file0
<1>1. w \in Work /\ file \in Maybe
  BY DEF TypeInv, HostOK, WorkOK, Maybe
<1>2. CASE KeepPlanned
  BY <1>1, <1>2 DEF KeepPlanned, Work, SameChange
<1>3. CASE KeepReadBack
  BY <1>1, <1>3 DEF KeepReadBack, Work, SameChange
<1> QED
  BY <1>2, <1>3

\* The mark of the row's insertion.
LEMMA MarkRecordedIs ==
  ASSUME TypeInv, MarkRecorded
  PROVE  /\ SameChange /\ w'.h1 = w.h1 /\ w'.tries = w.tries /\ w'.asked = w.asked
         /\ w'.file0 = file
<1>1. w \in Work /\ file \in Maybe
  BY DEF TypeInv, HostOK, WorkOK, Maybe
<1> QED
  BY <1>1 DEF MarkRecorded, Work, SameChange

\* One more attempt of config-write.
LEMMA CountAttemptIs ==
  ASSUME TypeInv, CountAttempt
  PROVE  SameChange /\ w'.h1 = w.h1 /\ w'.tries = w.tries + 1 /\ w'.tries # 0 /\ w'.asked = w.asked
         /\ w'.file0 = w.file0
<1>1. w \in Work
  BY DEF TypeInv, WorkOK
<1>2. SameChange /\ w'.h1 = w.h1 /\ w'.tries = w.tries + 1 /\ w'.asked = w.asked /\ w'.file0 = w.file0
  BY <1>1 DEF CountAttempt, Work, SameChange
<1>3. w.tries \in Nat
  BY <1>1 DEF Work
<1> QED
  BY <1>2, <1>3

\* Only an attempt without an answer may have written.
LEMMA MaybeWrittenIs == ASSUME TypeInv, ~MaybeWritten PROVE w.tries = 0
<1>1. w.tries \in Nat
  BY DEF TypeInv, WorkOK, Work
<1> QED
  BY <1>1 DEF MaybeWritten

\* The mark of the question about the file.
LEMMA MarkAskedIs ==
  ASSUME TypeInv, MarkAsked
  PROVE  SameChange /\ w'.h1 = w.h1 /\ w'.tries = w.tries /\ w'.asked = hands /\ w'.file0 = w.file0
<1>1. w \in Work /\ hands \in Nat
  BY ConfigAssumption DEF TypeInv, WorkOK, CountsOK
<1> QED
  BY <1>1 DEF MarkAsked, Work, SameChange

\* The rollback of a change (revert).
LEMMA TurnAroundIs ==
  ASSUME TypeInv, TurnAround
  PROVE  /\ w' \in Work /\ w'.op = "rollback" /\ w'.tries = 0 /\ w'.asked = 0
         /\ w'.cand = w.before /\ w'.before = w.cand /\ w'.expect = w.h1 /\ w'.hands0 = w.hands0
         /\ w'.file0 = None
<1>1. w \in Work
  BY DEF TypeInv, WorkOK
<1> QED
  BY <1>1 DEF TurnAround, NoWork, Work, AllOps, Maybe

\* Whoever acts outside Jen is counted.
LEMMA HandsCount ==
  ASSUME TypeInv, HandSet \/ HandEdit \/ Restart \/ RowRots
  PROVE  hands' # 0
BY ConfigAssumption DEF TypeInv, CountsOK, HandSet, HandEdit, Restart, RowRots, Outside

\* Whoever acts outside Jen during a change leaves it not alone.
LEMMA HandsEndAlone == ASSUME TypeInv, HandSet \/ HandEdit \/ Restart PROVE ~Alone'
BY ConfigAssumption
   DEF TypeInv, WorkOK, Work, CountsOK, HandSet, HandEdit, Restart, Outside, Alone

\* The numbers among the locals.
LEMMA WorkIs ==
  ASSUME TypeInv
  PROVE  w.tries \in Nat /\ w.hands0 \in Nat /\ w.asked \in Nat /\ hands \in Nat
BY ConfigAssumption DEF TypeInv, WorkOK, Work, CountsOK

\* A row that rots is the same row.
LEMMA RowRotsIs ==
  ASSUME TypeInv, RowRots
  PROVE  /\ pending \in RowSet /\ pending' \in RowSet /\ pending'.cand = pending.cand
         /\ pending'.before = pending.before /\ pending'.taken = pending.taken
<1>1. pending \in RowSet
  BY NoRowIs DEF TypeInv, RowOK, RowRots
<1>2. pending' = [pending EXCEPT !.state = "damaged"]
  BY DEF RowRots
<1> QED
  BY <1>1, <1>2 DEF RowSet

\* So is one that ages.
LEMMA AgeIs ==
  ASSUME TypeInv, Age
  PROVE  /\ pending \in RowSet /\ pending' \in RowSet /\ pending'.cand = pending.cand
         /\ pending'.before = pending.before /\ pending'.taken = pending.taken
         /\ pending'.state = pending.state
<1>1. pending \in RowSet
  BY NoRowIs DEF TypeInv, RowOK, Age
<1>2. pending' = [pending EXCEPT !.young = FALSE]
  BY DEF Age
<1> QED
  BY <1>1, <1>2 DEF RowSet

\* The daemon takes the change in hand.
LEMMA TakeIs ==
  ASSUME TypeInv, pc = "set", Take
  PROVE  /\ pending' \in RowSet /\ pending'.cand = w.cand /\ pending'.before = w.expect
         /\ pending'.taken = TRUE /\ pending'.state = pending.state
         /\ running' = Kea(w.cand) /\ author' = "jen"
<1>1. pending \in RowSet /\ pending.cand = w.cand /\ pending.before = w.expect
  BY DEF TypeInv, RowOK, OnRecord, Unsent
<1>2. pending' = [pending EXCEPT !.taken = TRUE]
  BY DEF Take
<1>3. running' = Kea(w.cand) /\ author' = "jen"
  BY DEF Take, Commit
<1> QED
  BY <1>1, <1>2, <1>3 DEF RowSet

\* Step (3) inserts a row of the change in hand.
LEMMA RecordIs ==
  ASSUME TypeInv, Record, pc' = "compare"
  PROVE  /\ pending = NoRow /\ pending' \in RowSet /\ pending'.cand = w.cand
         /\ pending'.before = w.expect /\ pending'.taken = FALSE /\ pending'.state = "live"
<1>1. PICK sha \in {w.planned, file, None} : pending' = Row(w.cand, w.expect, sha)
  BY DEF Record, End
<1>2. w.cand \in Configs /\ w.expect \in Configs /\ sha \in Maybe
  BY DEF Record, TypeInv, HostOK, WorkOK, Chosen, Preparing, Maybe, Work
<1>3. pending = NoRow
  BY DEF Record, End
<1> QED
  BY <1>1, <1>2, <1>3 DEF Row, RowSet

-----------------------------------------------------------------------------
(* The steps.                                                              *)

\* The daemon, its file and who chose them keep their types.
LEMMA HostStep == ASSUME TypeInv, Next PROVE HostOK'
<1> USE DEF TypeInv, HostOK, host
<1>1. CASE Read \/ Block \/ Settle \/ Reconcile \/ SettleAsk
  BY <1>1 DEF Read, Block, Settle, Reconcile, SettleAsk
<1>2. CASE SettleWrite
  BY <1>2 DEF SettleWrite, Lost, Render, Stamp
<1>3. CASE SettleGet \/ SettleFinish \/ SettleRecord \/ Stale \/ Supersede
  BY <1>3 DEF SettleGet, SettleFinish, SettleRecord, Stale, Supersede
<1>4. CASE Proof \/ Record \/ Compare \/ AfterRefusal \/ AfterLost
  BY <1>4 DEF Proof, Record, Compare, AfterRefusal, AfterLost
<1>5. CASE Set
  BY <1>5, KeaIs DEF Set, Lost, Take, Commit, WorkOK, Chosen, OnRecord, Unsent
<1>6. CASE Ask \/ UndoGet \/ Verify \/ ReadBack \/ Finish
  BY <1>6 DEF Ask, UndoGet, Verify, ReadBack, Finish
<1>7. CASE Write
  BY <1>7 DEF Write, Lost, Render, Stamp
<1>8. CASE Undo
  BY <1>8, KeaIs DEF Undo, Lost, Commit, WorkOK, Chosen, OnRecord, Unsent
<1>9. CASE RecordFile \/ Drop \/ Return \/ Starts \/ Revert
  BY <1>9 DEF RecordFile, Drop, Return, Starts, Begin, Revert
<1>10. CASE ReaderGet \/ ReaderCapture \/ RowRots \/ Age \/ ClearRefusal
  BY <1>10 DEF ReaderGet, ReaderCapture, RowRots, Age, ClearRefusal
<1>11. CASE HandSet
  BY <1>11, KeaIs, ConfigAssumption DEF HandSet, Commit
<1>12. CASE HandEdit
  BY <1>12, ConfigAssumption DEF HandEdit, Stamp
<1>13. CASE Restart
  BY <1>13, KeaIs DEF Restart
<1>14. CASE Crash
  BY <1>14 DEF Crash
<1> QED
  BY <1>1, <1>2, <1>3, <1>4, <1>5, <1>6, <1>7, <1>8, <1>9, <1>10, <1>11, <1>12, <1>13, <1>14
     DEF Next, Writer, World

\* The digests of Config history keep their types.
LEMMA DigestStep == ASSUME TypeInv, Next PROVE DigestsOK'
<1> USE DEF TypeInv, DigestsOK, store
<1>1. CASE Read
  BY <1>1
     DEF Read, HostOK, Steps, WorkOK, RowOK, Maybe, Work, CaptureDaemon, CaptureFile,
         AskTheFile, RecordRendering, DropRow, MarkDamaged, FinishRow, Answered
<1>2. CASE Block \/ Settle \/ SettleWrite \/ SettleGet \/ Stale
  BY <1>2 DEF Block, Settle, SettleWrite, SettleGet, Stale
<1>3. CASE Reconcile
  BY <1>3
     DEF Reconcile, HostOK, Steps, WorkOK, RowOK, Maybe, Work, CaptureDaemon, CaptureFile,
         AskTheFile, RecordRendering, DropRow, MarkDamaged, FinishRow, Answered
<1>4. CASE SettleAsk
  BY <1>4
     DEF SettleAsk, HostOK, Steps, WorkOK, RowOK, Maybe, Work, CaptureDaemon, CaptureFile,
         AskTheFile, RecordRendering, DropRow, MarkDamaged, FinishRow, Answered
<1>5. CASE SettleFinish
  BY <1>5
     DEF SettleFinish, HostOK, Steps, WorkOK, RowOK, Maybe, Work, CaptureDaemon, CaptureFile,
         AskTheFile, RecordRendering, DropRow, MarkDamaged, FinishRow, Answered
<1>6. CASE SettleRecord
  BY <1>6
     DEF SettleRecord, HostOK, Steps, WorkOK, RowOK, Maybe, Work, CaptureDaemon, CaptureFile,
         AskTheFile, RecordRendering, DropRow, MarkDamaged, FinishRow, Answered
<1>7. CASE Supersede
  BY <1>7
     DEF Supersede, HostOK, Steps, WorkOK, RowOK, Maybe, Work, CaptureDaemon, CaptureFile,
         AskTheFile, RecordRendering, DropRow, MarkDamaged, FinishRow, Answered
<1>8. CASE Proof
  BY <1>8
     DEF Proof, HostOK, Steps, WorkOK, RowOK, Maybe, Work, CaptureDaemon, CaptureFile,
         AskTheFile, RecordRendering, DropRow, MarkDamaged, FinishRow, Answered
<1>9. CASE Record \/ Compare \/ Set \/ AfterRefusal \/ AfterLost
  BY <1>9 DEF Record, Compare, Set, AfterRefusal, AfterLost
<1>10. CASE Ask
  BY <1>10
     DEF Ask, HostOK, Steps, WorkOK, RowOK, Maybe, Work, CaptureDaemon, CaptureFile,
         AskTheFile, RecordRendering, DropRow, MarkDamaged, FinishRow, Answered
<1>11. CASE Write
  BY <1>11
     DEF Write, HostOK, Steps, WorkOK, RowOK, Maybe, Work, CaptureDaemon, CaptureFile,
         AskTheFile, RecordRendering, DropRow, MarkDamaged, FinishRow, Answered
<1>12. CASE Undo \/ UndoGet \/ Verify \/ ReadBack \/ Drop
  BY <1>12 DEF Undo, UndoGet, Verify, ReadBack, Drop
<1>13. CASE Finish
  BY <1>13
     DEF Finish, HostOK, Steps, WorkOK, RowOK, Maybe, Work, CaptureDaemon, CaptureFile,
         AskTheFile, RecordRendering, DropRow, MarkDamaged, FinishRow, Answered
<1>14. CASE RecordFile
  BY <1>14
     DEF RecordFile, HostOK, Steps, WorkOK, RowOK, Maybe, Work, CaptureDaemon, CaptureFile,
         AskTheFile, RecordRendering, DropRow, MarkDamaged, FinishRow, Answered
<1>15. CASE Return \/ Starts \/ Revert \/ HandSet \/ HandEdit
  BY <1>15 DEF Return, Starts, Begin, Revert, HandSet, HandEdit
<1>16. CASE ReaderGet
  BY <1>16
     DEF ReaderGet, HostOK, Steps, WorkOK, RowOK, Maybe, Work, CaptureDaemon, CaptureFile,
         AskTheFile, RecordRendering, DropRow, MarkDamaged, FinishRow, Answered
<1>17. CASE ReaderCapture
  BY <1>17
     DEF ReaderCapture, HostOK, Steps, WorkOK, RowOK, Maybe, Work, CaptureDaemon, CaptureFile,
         AskTheFile, RecordRendering, DropRow, MarkDamaged, FinishRow, Answered
<1>18. CASE Restart \/ RowRots \/ Age
  BY <1>18 DEF Restart, RowRots, Age
<1>19. CASE ClearRefusal
  BY <1>19
     DEF ClearRefusal, HostOK, Steps, WorkOK, RowOK, Maybe, Work, CaptureDaemon, CaptureFile,
         AskTheFile, RecordRendering, DropRow, MarkDamaged, FinishRow, Answered
<1>20. CASE Crash
  BY <1>20
     DEF Crash, HostOK, Steps, WorkOK, RowOK, Maybe, Work, CaptureDaemon, CaptureFile,
         AskTheFile, RecordRendering, DropRow, MarkDamaged, FinishRow, Answered
<1> QED
  BY <1>1, <1>2, <1>3, <1>4, <1>5, <1>6, <1>7, <1>8, <1>9, <1>10, <1>11, <1>12, <1>13, <1>14,
     <1>15, <1>16, <1>17, <1>18, <1>19, <1>20
     DEF Next, Writer, World

\* Every answer has a known code.
LEMMA ResultStep == ASSUME TypeInv, Next PROVE ResultOK'
<1> USE EndIs, EndDroppingIs, NoResultIs
        DEF TypeInv, ResultOK, Codes, EndOwing, Goto, Unsettled, Settled, AskTheFile
<1>1. CASE Read \/ Block \/ Settle \/ Reconcile \/ SettleAsk
  BY <1>1 DEF Read, Block, Settle, Reconcile, SettleAsk
<1>2. CASE SettleWrite \/ SettleGet \/ SettleFinish \/ SettleRecord \/ Stale
  BY <1>2 DEF SettleWrite, SettleGet, SettleFinish, SettleRecord, Stale
<1>3. CASE Supersede \/ Proof \/ Record \/ Compare \/ Set
  BY <1>3 DEF Supersede, Proof, Record, Compare, Set
<1>4. CASE AfterRefusal \/ AfterLost \/ Ask \/ Write \/ Undo
  BY <1>4 DEF AfterRefusal, AfterLost, Ask, Write, Undo
<1>5. CASE UndoGet \/ Verify \/ ReadBack \/ Finish \/ RecordFile
  BY <1>5 DEF UndoGet, Verify, ReadBack, Finish, RecordFile
<1>6. CASE Drop \/ Return \/ Starts \/ Revert \/ ReaderGet
  BY <1>6 DEF Drop, Return, Starts, Begin, Revert, ReaderGet
<1>7. CASE ReaderCapture \/ HandSet \/ HandEdit \/ Restart \/ RowRots
  BY <1>7 DEF ReaderCapture, HandSet, HandEdit, Restart, RowRots
<1>8. CASE Age \/ ClearRefusal \/ Crash
  BY <1>8 DEF Age, ClearRefusal, Crash
<1> QED
  BY <1>1, <1>2, <1>3, <1>4, <1>5, <1>6, <1>7, <1>8 DEF Next, Writer, World

\* The counters stay within their bounds.
LEMMA CountStep == ASSUME TypeInv, Next PROVE CountsOK'
<1> USE FaultIs, OutsideIs
        DEF TypeInv, CountsOK, Fine, NoAnswer, AskTheFile, CaptureDaemon, CaptureFile, DropRow,
            MarkDamaged, FinishRow, Lost
<1>1. CASE Read \/ Block \/ Settle \/ Reconcile \/ SettleAsk
  BY <1>1 DEF Read, Block, Settle, Reconcile, SettleAsk
<1>2. CASE SettleWrite \/ SettleGet \/ SettleFinish \/ SettleRecord \/ Stale
  BY <1>2 DEF SettleWrite, SettleGet, SettleFinish, SettleRecord, Stale
<1>3. CASE Supersede \/ Proof \/ Record \/ Compare \/ Set
  BY <1>3 DEF Supersede, Proof, Record, Compare, Set
<1>4. CASE AfterRefusal \/ AfterLost \/ Ask \/ Write \/ Undo
  BY <1>4 DEF AfterRefusal, AfterLost, Ask, Write, Undo
<1>5. CASE UndoGet \/ Verify \/ ReadBack \/ Finish \/ RecordFile
  BY <1>5 DEF UndoGet, Verify, ReadBack, Finish, RecordFile
<1>6. CASE Drop \/ Return \/ Starts \/ Revert \/ ReaderGet
  BY <1>6 DEF Drop, Return, Starts, Begin, Revert, ReaderGet
<1>7. CASE ReaderCapture \/ HandSet \/ HandEdit \/ Restart \/ RowRots
  BY <1>7 DEF ReaderCapture, HandSet, HandEdit, Restart, RowRots
<1>8. CASE Age \/ ClearRefusal \/ Crash
  BY <1>8 DEF Age, ClearRefusal, Crash
<1> QED
  BY <1>1, <1>2, <1>3, <1>4, <1>5, <1>6, <1>7, <1>8 DEF Next, Writer, World

\* The locals of the lock's holder keep their kind at every step of apply, revert and
\* settle_pending.
LEMMA WorkStep == ASSUME TypeInv, Next PROVE WorkOK'
<1> USE EndIs, EndDroppingIs, OutsideIs, NoWorkIs, NoResultIs, CommenceIs, BuildIs, SeeIs,
        KeepDigestIs, KeepFileIs, MarkRecordedIs, CountAttemptIs, MarkAskedIs, TurnAroundIs,
        WorkIs, KeaIs, ConfigAssumption
        DEF TypeInv, AllOps, HostOK, CountsOK, WorkOK, SameChange, Codes, EndOwing, Goto,
            Unsettled, Settled, AfterBlock, AskTheFile, IsLastAttempt, Chosen, Answered,
            Settling, Preparing, OnRecord, Unsent, Steps
<1>1. CASE Read
  <2>1. Chosen' => pc' \in {"block", "stale"}
    BY <1>1, EndIs
       DEF Read, TypeInv, WorkOK, Goto, Codes, Chosen, Settling, Preparing, OnRecord, Unsent
  <2>2. CASE End("noanswer", FALSE) /\ UNCHANGED w
    BY <1>1, <2>1, <2>2 DEF Read
  <2>3. CASE \E c \in Candidates(running) : Build(c)
    <3>1. PICK c \in Candidates(running) : Build(c)
      BY <2>3
    <3>2. /\ w' \in Work /\ w'.op = w.op /\ w'.tries = w.tries /\ w'.asked = w.asked /\ w'.file0 = w.file0
          /\ w'.hands0 = hands /\ {w'.cand, w'.before, w'.expect} \subseteq Configs
      BY <3>1, BuildIs DEF TypeInv, HostOK
    <3>3. pc' \in {"block", "stale", "done"} /\ hands' = hands /\ (pc' = "done" => result'.code = "noanswer")
      BY <1>1 DEF Read
    <3> QED
      BY <1>1, <3>2, <3>3, <2>1 DEF Read
  <2> QED
    BY <1>1, <2>2, <2>3 DEF Read
<1>2. CASE Block \/ Settle \/ Reconcile \/ SettleWrite \/ SettleGet
  <2>1. CASE Block
    BY <2>1 DEF Block
  <2>2. CASE Settle
    BY <2>2 DEF Settle
  <2>3. CASE Reconcile
    BY <2>3 DEF Reconcile
  <2>4. CASE SettleWrite
    BY <2>4 DEF SettleWrite
  <2>5. CASE SettleGet
    BY <2>5 DEF SettleGet
  <2> QED
    BY <1>2, <2>1, <2>2, <2>3, <2>4, <2>5
<1>3. CASE SettleAsk
  <2>1. SameChange /\ w'.h1 = w.h1 /\ w'.tries = w.tries /\ w'.asked = hands
    BY <1>3 DEF SettleAsk
  <2>2. hands' = hands /\ (pc' = "settleWrite" \/ Unsettled)
    BY <1>3 DEF SettleAsk
  <2>3. pc' = "settleWrite" \/ (pc' = "done" /\ result'.code # "ok")
    BY <2>2, EndIs
  <2>4. pc = "settleAsk"
    BY <1>3 DEF SettleAsk
  <2> QED
    BY <2>1, <2>2, <2>3, <2>4
<1>4. CASE SettleFinish \/ SettleRecord \/ Stale \/ Supersede \/ Proof
  <2>1. CASE SettleFinish
    BY <2>1 DEF SettleFinish
  <2>2. CASE SettleRecord
    BY <2>2 DEF SettleRecord
  <2>3. CASE Stale
    BY <2>3 DEF Stale
  <2>4. CASE Supersede
    BY <2>4 DEF Supersede
  <2>5. CASE Proof
    BY <2>5 DEF Proof
  <2> QED
    BY <1>4, <2>1, <2>2, <2>3, <2>4, <2>5
<1>5. CASE Record
  BY <1>5 DEF Record
<1>6. CASE Compare
  BY <1>6 DEF Compare
<1>7. CASE Set
  <2>1. Kea(w.cand) \in Configs
    BY <1>7 DEF Set
  <2>2. CASE UNCHANGED w
    <3>1. \/ pc' \in {"afterRefusal", "afterLost"}
          \/ pc' = "done" /\ result'.code = "unverified"
          \/ pc' \in {"ask", "write"} /\ KeepDigest(Kea(w.cand))
      BY <1>7 DEF Set
    <3>2. UNCHANGED hands /\ pc = "set"
      BY <1>7 DEF Set
    <3> QED
      BY <2>1, <2>2, <3>1, <3>2
  <2>3. CASE KeepDigest(Kea(w.cand)) /\ pc' \in {"ask", "write"} /\ UNCHANGED <<hands, result>>
    BY <1>7, <2>1, <2>3 DEF Set
  <2> QED
    BY <1>7, <2>2, <2>3 DEF Set
<1>8. CASE AfterRefusal
  BY <1>8 DEF AfterRefusal
<1>9. CASE AfterLost
  <2>1. CASE UNCHANGED w
    <3>1. \/ pc' = "drop" /\ result'.code = "set-failed"
          \/ pc' = "done" /\ result'.code \in {"noanswer", "unverified"}
          \/ pc' \in {"ask", "write"} /\ KeepDigest(running)
      BY <1>9 DEF AfterLost
    <3>2. UNCHANGED hands /\ pc = "afterLost"
      BY <1>9 DEF AfterLost
    <3> QED
      BY <2>1, <3>1, <3>2
  <2>2. CASE KeepDigest(running) /\ pc' \in {"ask", "write"} /\ UNCHANGED <<hands, result>>
    BY <1>9, <2>2 DEF AfterLost
  <2> QED
    BY <1>9, <2>1, <2>2 DEF AfterLost
<1>10. CASE Ask
  <2>1. SameChange /\ w'.h1 = w.h1 /\ w'.tries = w.tries /\ w'.asked = hands
    BY <1>10 DEF Ask
  <2>2. hands' = hands /\ (pc' = "write" \/ EndOwing("unverified"))
    BY <1>10 DEF Ask
  <2>3. pc' = "write" \/ (pc' = "done" /\ result'.code # "ok")
    BY <2>2, EndIs
  <2>4. pc = "ask"
    BY <1>10 DEF Ask
  <2> QED
    BY <2>1, <2>2, <2>3, <2>4
<1>11. CASE Write
  BY <1>11 DEF Write
<1>12. CASE Undo
  BY <1>12 DEF Undo
<1>13. CASE UndoGet \/ Verify \/ ReadBack \/ Finish \/ RecordFile
  <2>1. CASE UndoGet
    BY <2>1 DEF UndoGet
  <2>2. CASE Verify
    BY <2>2 DEF Verify
  <2>3. CASE ReadBack
    BY <2>3 DEF ReadBack
  <2>4. CASE Finish
    BY <2>4 DEF Finish
  <2>5. CASE RecordFile
    BY <2>5 DEF RecordFile
  <2> QED
    BY <1>13, <2>1, <2>2, <2>3, <2>4, <2>5
<1>14. CASE Drop \/ Return \/ Revert \/ ReaderGet \/ ReaderCapture
  BY <1>14 DEF Drop, Return, Revert, ReaderGet, ReaderCapture
<1>15. CASE Starts
  <2>1. PICK op \in AllOps, discard \in BOOLEAN : Begin(op, discard)
    BY <1>15 DEF Starts
  <2>2. w' \in Work /\ w'.op = op /\ w'.tries = 0 /\ w'.hands0 = 0 /\ w'.asked = 0
    BY <2>1 DEF Begin
  <2>3. hands' = hands
    BY <2>1 DEF Begin
  <2>4. \/ pc' = "done" /\ result'.code = "guard"
        \/ pc' = "settle" /\ op = "settle"
        \/ pc' = "read" /\ op # "settle"
    BY <2>1 DEF Begin
  <2> QED
    BY <2>2, <2>3, <2>4
<1>16. CASE HandSet \/ HandEdit \/ Restart \/ RowRots \/ Age
  BY <1>16 DEF HandSet, HandEdit, Restart, RowRots, Age
<1>17. CASE ClearRefusal \/ Crash
  BY <1>17 DEF ClearRefusal, Crash
<1> QED
  BY <1>1, <1>2, <1>3, <1>4, <1>5, <1>6, <1>7, <1>8, <1>9, <1>10, <1>11, <1>12, <1>13, <1>14,
     <1>15, <1>16, <1>17
     DEF Next, Writer, World

\* The row keeps its type, and is the row of the change in hand.
LEMMA RowStep == ASSUME TypeInv, Next PROVE RowOK'
<1> USE NoRowIs, EndIs, EndDroppingIs, NoWorkIs, NoResultIs, CommenceIs, BuildIs, SeeIs,
        KeepDigestIs, KeepFileIs, MarkRecordedIs, CountAttemptIs, MarkAskedIs, TurnAroundIs
        DEF TypeInv, RowOK, WorkOK, SameChange, Codes, EndOwing, Goto, Unsettled, Settled,
            AfterBlock, AskTheFile, DropRow, MarkDamaged, FinishRow, store, Chosen, Answered,
            Settling, Preparing, OnRecord, Unsent, Steps
<1>1. CASE Read \/ Block \/ Settle \/ Reconcile \/ SettleAsk
  BY <1>1 DEF Read, Block, Settle, Reconcile, SettleAsk
<1>2. CASE SettleWrite \/ SettleGet \/ SettleFinish \/ SettleRecord \/ Stale
  BY <1>2 DEF SettleWrite, SettleGet, SettleFinish, SettleRecord, Stale
<1>3. CASE Supersede \/ Proof \/ Compare \/ AfterRefusal \/ Ask
  BY <1>3 DEF Supersede, Proof, Compare, AfterRefusal, Ask
<1>4. CASE Record
  <2>1. SameChange \/ UNCHANGED w
    BY <1>4 DEF Record
  <2>2. (pc' = "done" /\ UNCHANGED pending) \/ pc' = "compare"
    BY <1>4 DEF Record
  <2>3. CASE pc' = "compare"
    BY <1>4, <2>1, <2>3, RecordIs
  <2> QED
    BY <2>2, <2>3
<1>5. CASE Set
  <2>1. Kea(w.cand) \in Configs
    BY <1>5, KeaIs DEF Set
  <2>2. SameChange \/ UNCHANGED w
    BY <1>5, <2>1 DEF Set
  <2>3. pc = "set" /\ (Take \/ UNCHANGED pending)
    BY <1>5 DEF Set, Lost
  <2>4. pc' \in OnRecord \cup {"done"}
    BY <1>5 DEF Set
  <2> QED
    BY <2>2, <2>3, <2>4, TakeIs
<1>6. CASE AfterLost
  <2>1. SameChange \/ UNCHANGED w
    BY <1>6 DEF AfterLost, HostOK
  <2>2. UNCHANGED pending /\ pc' \in OnRecord \cup {"done"}
    BY <1>6 DEF AfterLost
  <2> QED
    BY <1>6, <2>1, <2>2 DEF AfterLost
<1>7. CASE Write \/ Undo \/ UndoGet \/ Verify \/ ReadBack
  BY <1>7 DEF Write, Undo, UndoGet, Verify, ReadBack
<1>8. CASE Finish \/ RecordFile \/ Drop \/ Return \/ Starts
  BY <1>8 DEF Finish, RecordFile, Drop, Return, Starts, Begin
<1>9. CASE Revert \/ ReaderGet \/ ReaderCapture \/ HandSet \/ HandEdit
  BY <1>9 DEF Revert, ReaderGet, ReaderCapture, HandSet, HandEdit
<1>10. CASE Restart \/ ClearRefusal \/ Crash
  BY <1>10 DEF Restart, ClearRefusal, Crash
<1>11. CASE RowRots
  BY <1>11, RowRotsIs DEF RowRots
<1>12. CASE Age
  BY <1>12, AgeIs DEF Age
<1> QED
  BY <1>1, <1>2, <1>3, <1>4, <1>5, <1>6, <1>7, <1>8, <1>9, <1>10, <1>11, <1>12
     DEF Next, Writer, World

\* The daemon runs a configuration with its defaults written out.
LEMMA ClosedStep == ASSUME TypeInv, TypeInv', ChangeInv, Next PROVE Kea(running') = running'
<1> USE DEF ChangeInv, host
<1>1. CASE Read \/ Block \/ Settle \/ Reconcile \/ SettleAsk
  BY <1>1 DEF Read, Block, Settle, Reconcile, SettleAsk
<1>2. CASE SettleWrite \/ Write
  BY <1>2 DEF SettleWrite, Write, Lost, Render
<1>3. CASE SettleGet \/ SettleFinish \/ SettleRecord \/ Stale \/ Supersede
  BY <1>3 DEF SettleGet, SettleFinish, SettleRecord, Stale, Supersede
<1>4. CASE Proof \/ Record \/ Compare \/ AfterRefusal \/ AfterLost
  BY <1>4 DEF Proof, Record, Compare, AfterRefusal, AfterLost
<1>5. CASE Set
  BY <1>5, KeaIs DEF Set, Lost, Take, Commit, TypeInv, WorkOK, Chosen, OnRecord, Unsent
<1>6. CASE Ask \/ UndoGet \/ Verify \/ ReadBack \/ Finish
  BY <1>6 DEF Ask, UndoGet, Verify, ReadBack, Finish
<1>7. CASE Undo
  BY <1>7, KeaIs DEF Undo, Lost, Commit, TypeInv, WorkOK, Chosen, OnRecord, Unsent
<1>8. CASE RecordFile \/ Drop \/ Return \/ Starts \/ Revert
  BY <1>8 DEF RecordFile, Drop, Return, Starts, Begin, Revert
<1>9. CASE ReaderGet \/ ReaderCapture \/ RowRots \/ Age \/ ClearRefusal
  BY <1>9 DEF ReaderGet, ReaderCapture, RowRots, Age, ClearRefusal
<1>10. CASE HandSet
  BY <1>10, KeaIs, ConfigAssumption DEF HandSet, Commit
<1>11. CASE Restart
  BY <1>11, KeaIs DEF Restart, TypeInv, HostOK
<1>12. CASE Crash \/ HandEdit
  BY <1>12 DEF Crash, HandEdit
<1> QED
  BY <1>1, <1>2, <1>3, <1>4, <1>5, <1>6, <1>7, <1>8, <1>9, <1>10, <1>11, <1>12
     DEF Next, Writer, World

\* A change stays a change, also when it is turned around.
LEMMA ChangeStep == ASSUME TypeInv, TypeInv', ChangeInv, Next PROVE ChangeChanges'
<1> USE EndIs, EndDroppingIs, NoWorkIs, NoResultIs, CommenceIs, BuildIs, SeeIs, KeepDigestIs,
        KeepFileIs, MarkRecordedIs, CountAttemptIs, MarkAskedIs, TurnAroundIs, KeaIs,
        CandidatesChange
        DEF ChangeInv, TypeInv, HostOK, WorkOK, SameChange, ChangeChanges, Codes, EndOwing, Goto,
            Unsettled, Settled, AfterBlock, AskTheFile, Chosen, Answered, Settling, Preparing,
            OnRecord, Unsent, Steps
<1>1. CASE Read
  <2>1. Chosen' => pc' \in {"block", "stale"}
    BY <1>1 DEF Read, Chosen, Settling, Preparing, OnRecord, Unsent
  <2>2. ~Answered'
    BY <1>1 DEF Read, Answered
  <2>3. CASE End("noanswer", FALSE)
    BY <2>2, <2>3 DEF Chosen, Settling, Preparing, OnRecord, Unsent
  <2>4. CASE \E c \in Candidates(running) : Build(c)
    <3>1. PICK c \in Candidates(running) : Build(c)
      BY <2>4
    <3>2. w'.cand = c /\ w'.before = running /\ w'.expect = running
      BY <3>1, BuildIs
    <3>3. c # running /\ Kea(c) # running
      BY <3>1, CandidatesChange DEF HostOK
    <3> QED
      BY <2>2, <3>2, <3>3
  <2> QED
    BY <1>1, <2>3, <2>4 DEF Read
<1>2. CASE Block \/ Settle \/ Reconcile \/ SettleAsk \/ SettleWrite
  <2>1. CASE Block
    BY <2>1 DEF Block
  <2>2. CASE Settle
    BY <2>2 DEF Settle
  <2>3. CASE Reconcile
    BY <2>3 DEF Reconcile
  <2>4. CASE SettleAsk
    BY <2>4 DEF SettleAsk
  <2>5. CASE SettleWrite
    BY <2>5 DEF SettleWrite
  <2> QED
    BY <1>2, <2>1, <2>2, <2>3, <2>4, <2>5
<1>3. CASE SettleGet \/ SettleFinish \/ SettleRecord \/ Stale \/ Supersede
  <2>1. CASE SettleGet
    BY <2>1 DEF SettleGet
  <2>2. CASE SettleFinish
    BY <2>2 DEF SettleFinish
  <2>3. CASE SettleRecord
    BY <2>3 DEF SettleRecord
  <2>4. CASE Stale
    BY <2>4 DEF Stale
  <2>5. CASE Supersede
    BY <2>5 DEF Supersede
  <2> QED
    BY <1>3, <2>1, <2>2, <2>3, <2>4, <2>5
<1>4. CASE Proof \/ Record \/ Compare \/ Set \/ AfterRefusal
  <2>1. CASE Proof
    BY <2>1 DEF Proof
  <2>2. CASE Record
    BY <2>2 DEF Record
  <2>3. CASE Set
    BY <2>3 DEF Set
  <2>4. CASE Compare \/ AfterRefusal
    BY <2>4 DEF Compare, AfterRefusal
  <2> QED
    BY <1>4, <2>1, <2>2, <2>3, <2>4
<1>5. CASE AfterLost
  <2>1. Chosen /\ ~(pc' = "done" /\ result'.code = "ok")
    BY <1>5 DEF AfterLost, Chosen, OnRecord
  <2>2. CASE UNCHANGED w /\ pc' \in {"drop", "done"}
    BY <2>1, <2>2 DEF Chosen, Answered
  <2>3. CASE KeepDigest(running) /\ RunsCandidate
    BY <2>1, <2>3 DEF RunsCandidate, RunsBefore
  <2> QED
    BY <1>5, <2>2, <2>3 DEF AfterLost
<1>6. CASE Ask \/ Write \/ Undo \/ UndoGet \/ Verify
  BY <1>6 DEF Ask, Write, Undo, UndoGet, Verify
<1>7. CASE ReadBack \/ Finish \/ RecordFile \/ Drop \/ Return
  <2>1. CASE ReadBack
    BY <2>1 DEF ReadBack
  <2>2. CASE Finish
    BY <2>2 DEF Finish
  <2>3. CASE RecordFile
    BY <2>3 DEF RecordFile
  <2>4. CASE Drop
    BY <2>4 DEF Drop
  <2>5. CASE Return
    BY <2>5 DEF Return
  <2> QED
    BY <1>7, <2>1, <2>2, <2>3, <2>4, <2>5
<1>8. CASE Starts
  BY <1>8 DEF Starts, Begin
<1>9. CASE Revert
  BY <1>9 DEF Revert
<1>10. CASE ReaderGet
  BY <1>10 DEF ReaderGet
<1>11. CASE ReaderCapture
  BY <1>11 DEF ReaderCapture
<1>12. CASE HandSet
  BY <1>12 DEF HandSet
<1>13. CASE HandEdit \/ Restart \/ RowRots \/ Age \/ ClearRefusal
  BY <1>13 DEF HandEdit, Restart, RowRots, Age, ClearRefusal
<1>14. CASE Crash
  BY <1>14 DEF Crash
<1> QED
  BY <1>1, <1>2, <1>3, <1>4, <1>5, <1>6, <1>7, <1>8, <1>9, <1>10, <1>11, <1>12, <1>13, <1>14
     DEF Next, Writer, World

-----------------------------------------------------------------------------
(* The theorems.                                                           *)

\* What Jen starts from is typed.
LEMMA InitTyped == Init => TypeInv /\ ChangeInv
<1> SUFFICES ASSUME Init PROVE TypeInv /\ ChangeInv
  OBVIOUS
<1>1. file \in Configs /\ running = Kea(file) /\ running \in Configs /\ Kea(running) = running
  BY KeaIs, ConfigAssumption DEF Init
<1>2. HostOK
  BY <1>1 DEF Init, HostOK
<1>3. DigestsOK
  BY DEF Init, DigestsOK, Maybe
<1>4. ResultOK /\ result.code = "none"
  BY NoResultIs DEF Init, ResultOK, Codes
<1>5. CountsOK
  BY ConfigAssumption DEF Init, CountsOK
<1>6. pc = "idle" /\ w = NoWork /\ pending = NoRow /\ hands = 0
  BY DEF Init
<1>7. ~Chosen /\ ~Answered
  BY <1>6 DEF Chosen, Answered, Settling, Preparing, OnRecord, Unsent
<1>8. WorkOK
  BY <1>6, <1>7, NoWorkIs, ConfigAssumption DEF WorkOK, Steps, Settling
<1>9. RowOK
  BY <1>6 DEF RowOK, Settling, OnRecord, Unsent
<1> QED
  BY <1>1, <1>2, <1>3, <1>4, <1>5, <1>7, <1>8, <1>9 DEF TypeInv, ChangeInv, ChangeChanges

\* A stutter changes no type.
LEMMA StutterTyped == ASSUME TypeInv, ChangeInv, UNCHANGED vars PROVE TypeInv' /\ ChangeInv'
<1>1. HostOK' /\ DigestsOK' /\ ResultOK' /\ CountsOK'
  BY DEF TypeInv, vars, HostOK, DigestsOK, ResultOK, CountsOK
<1>2. WorkOK' /\ RowOK'
  BY DEF TypeInv, vars, WorkOK, RowOK, Chosen, Answered
<1>3. ChangeInv'
  BY DEF ChangeInv, ChangeChanges, Chosen, Answered, vars
<1> QED
  BY <1>1, <1>2, <1>3 DEF TypeInv

\* The types are inductive.
LEMMA StepTyped == ASSUME TypeInv, ChangeInv, [Next]_vars PROVE TypeInv' /\ ChangeInv'
<1>1. CASE Next
  <2>1. TypeInv'
    BY <1>1, HostStep, DigestStep, ResultStep, CountStep, WorkStep, RowStep DEF TypeInv
  <2> QED
    BY <1>1, <2>1, ClosedStep, ChangeStep DEF ChangeInv
<1> QED
  BY <1>1, StutterTyped

\* Every step of apply, revert and settle_pending has in hand what it uses: the
\* candidate, the configuration before it, the digest its write returned, its row.
THEOREM ApiTypeInvariant == Spec => [](TypeInv /\ ChangeInv)
<1>1. TypeInv /\ ChangeInv /\ [Next]_vars => (TypeInv /\ ChangeInv)'
  BY StepTyped
<1> QED
  BY InitTyped, <1>1, PTL DEF Spec

\* Every variable keeps its type, and config-write is sent WRITE_ATTEMPTS times at
\* most (_send_write), for every configuration, whatever fails.
THEOREM ApiTypeCorrect == Spec => []TypeOK
<1>1. TypeInv => TypeOK
  <2> SUFFICES ASSUME TypeInv PROVE TypeOK
    OBVIOUS
  <2>1. w \in Work /\ w.tries <= WriteAttempts
    BY DEF TypeInv, WorkOK
  <2>2. /\ w.op \in AllOps \cup {"none"} /\ w.discard \in BOOLEAN /\ w.tries \in 0..WriteAttempts
        /\ {w.cand, w.before, w.expect, w.planned, w.h1, w.seen, w.raw, w.file0}
             \subseteq {None} \cup Configs
    BY <2>1, ConfigAssumption DEF Work, Maybe
  <2>3. {lastKea, lastRaw, rendering, reader} \subseteq {None} \cup Configs
    BY DEF TypeInv, DigestsOK, Maybe
  <2> QED
    BY <2>2, <2>3
       DEF TypeInv, TypeOK, HostOK, DigestsOK, ResultOK, CountsOK, RowOK, RowSet, Maybe
<1> QED
  BY ApiTypeInvariant, <1>1, PTL

=============================================================================
