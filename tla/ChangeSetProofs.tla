-------------------------- MODULE ChangeSetProofs ---------------------------
(***************************************************************************)
(* Proofs about ChangeSet, for any set of servers, any split of them       *)
(* between the two transports, with and without a restart, and any number  *)
(* of failures, hand edits and crashes.                                    *)
(*                                                                         *)
(*   TypeCorrect     every state is well typed;                            *)
(*   IInvHolds       the inductive invariant, phase by phase;              *)
(*   OutcomeIsHonest HonestOutcome, which it implies;                      *)
(*   ElementsAreHonest  the same, of changes that inclusion tells apart;   *)
(*   FilesGoFirst    FilesFirst, from the same invariant;                  *)
(*   PromiseIsKept   the change set implements ChangePromise.              *)
(***************************************************************************)
EXTENDS ChangeSet, TLAPS

----------------------------------------------------------------------------
(* Types.                                                                  *)

\* A failure stays within the bound on failures.
LEMMA FaultsBounded ==
  ASSUME TypeOK, NEW kind, Fine \/ Fault(kind)
  PROVE  faults' \in 0..MaxFaults
  BY ChangeSetAssumption DEF TypeOK, Fine, Fault

\* What a write leaves in the file and the daemon is a version there was.
LEMMA PutTyped ==
  ASSUME TypeOK, NEW s \in Servers, NEW v \in 0..clock, Put(s, v) \/ PutHalf(s, v)
  PROVE  file' \in [Servers -> 0..clock] /\ runs' \in [Servers -> 0..clock]
  BY DEF TypeOK, Put, PutHalf

\* What a restart leaves: a daemon that runs a version there was.
LEMMA RestartTyped ==
  ASSUME TypeOK, NEW s \in Servers, RestartServer(s)
  PROVE  /\ runs' \in [Servers -> 0..clock] /\ down' \subseteq Servers
         /\ failed' \subseteq Servers /\ faults' \in 0..MaxFaults
<1>1. faults' \in 0..MaxFaults
  BY FaultsBounded DEF RestartServer
<1>2. failed' \subseteq Servers
  BY DEF TypeOK, RestartServer
<1>3. runs' \in [Servers -> 0..clock] /\ down' \subseteq Servers
  BY DEF TypeOK, RestartServer, Loads, Stops
<1> QED
  BY <1>1, <1>2, <1>3

LEMMA TypeStep == TypeOK /\ [Next]_vars => TypeOK'
<1> SUFFICES ASSUME TypeOK, [Next]_vars PROVE TypeOK'
  OBVIOUS
<1> USE ChangeSetAssumption
<1> USE DEF TypeOK, Phases, Statuses, Files, host, plan, hushed, call, answer
<1>1. CASE UNCHANGED vars
  BY <1>1 DEF vars
<1>2. CASE Begin
  BY <1>2 DEF Begin
<1>3. CASE PlanEnds \/ PreflightEnds
  BY <1>3 DEF PlanEnds, PreflightEnds, End
<1>4. CASE CommitEnds \/ RestartEnds
  BY <1>4 DEF CommitEnds, RestartEnds, PutBack
<1>5. CASE RevertEnds \/ Return
  BY <1>5 DEF RevertEnds, Return, End
<1>6. CASE FinalizeChange
  <2>1. faults' \in 0..MaxFaults
    BY <1>6, FaultsBounded DEF FinalizeChange
  <2> QED
    BY <1>6, <2>1 DEF FinalizeChange, End, PutBack
<1>7. ASSUME NEW s \in Servers, PlanServer(s) PROVE TypeOK'
  <2>1. faults' \in 0..MaxFaults
    BY <1>7, FaultsBounded DEF PlanServer
  <2> QED
    BY <1>7, <2>1 DEF PlanServer, End
<1>8. ASSUME NEW s \in Servers, Preflight(s) PROVE TypeOK'
  <2>1. faults' \in 0..MaxFaults
    BY <1>8, FaultsBounded DEF Preflight
  <2> QED
    BY <1>8, <2>1 DEF Preflight
<1>9. ASSUME NEW s \in Servers, Commit(s) PROVE TypeOK'
  <2>1. faults' \in 0..MaxFaults
    BY <1>9, FaultsBounded DEF Commit, Unproved
  <2>2. file' \in [Servers -> 0..clock] /\ runs' \in [Servers -> 0..clock]
    BY <1>9, PutTyped DEF Commit
  <2> QED
    BY <1>9, <2>1, <2>2 DEF Commit, PutBack
<1>10. ASSUME NEW s \in Servers, Revert(s) PROVE TypeOK'
  <2>1. faults' \in 0..MaxFaults
    BY <1>10, FaultsBounded DEF Revert, Unproved
  <2>2. file' \in [Servers -> 0..clock] /\ runs' \in [Servers -> 0..clock]
    BY <1>10, PutTyped DEF Revert
  <2> QED
    BY <1>10, <2>1, <2>2 DEF Revert
<1>11. ASSUME NEW s \in Servers, RestartBack(s) \/ RestartNew(s) PROVE TypeOK'
  <2>1. RestartServer(s)
    BY <1>11 DEF RestartBack, RestartNew
  <2> QED
    BY <1>11, <2>1, RestartTyped DEF RestartBack, RestartNew
<1>12. ASSUME NEW s \in Servers, HandEdit(s) \/ HandSet(s) PROVE TypeOK'
  <2>1. clock' = clock + 1 /\ clock' \in 0..MaxVersions /\ 0..clock \subseteq 0..clock'
    BY <1>12 DEF HandEdit, HandSet
  <2>2. file' \in [Servers -> 0..clock'] /\ runs' \in [Servers -> 0..clock']
    BY <1>12, <2>1 DEF HandEdit, HandSet
  <2> QED
    BY <1>12, <2>1, <2>2 DEF HandEdit, HandSet, Outside
<1>13. ASSUME NEW s \in Servers, HandRestart(s) PROVE TypeOK'
  BY <1>13 DEF HandRestart, Outside, Loads
<1>14. CASE Crash
  <2>1. faults' \in 0..MaxFaults
    BY <1>14, FaultsBounded DEF Crash
  <2> QED
    BY <1>14, <2>1 DEF Crash
<1> QED
  BY <1>1, <1>2, <1>3, <1>4, <1>5, <1>6, <1>7, <1>8, <1>9, <1>10, <1>11, <1>12,
     <1>13, <1>14 DEF Next, Jen, World

\* Every state of the change set, of the hosts and of the answer is well typed.
THEOREM TypeCorrect == Spec => []TypeOK
<1>1. Init => TypeOK
  BY ChangeSetAssumption DEF Init, TypeOK, Phases, Statuses
<1> QED
  BY <1>1, TypeStep, PTL DEF Spec

----------------------------------------------------------------------------
(* The inductive invariant, one lemma per phase.  Each is about the parts  *)
(* of IInv beside the types, which TypeStep carries.                       *)

Parts == PhaseOK /\ CommitOK /\ RestartOK /\ FinalizeOK /\ RevertOK /\ HonestOutcome

\* A change begins with a version no server has.
LEMMA BeginStep == ASSUME IInv, Begin PROVE Parts'
<1>1. change' = clock + 1 /\ phase' = "plan" /\ down0' = down /\ UNCHANGED <<file, runs>>
  BY DEF Begin, host
<1>2. \A s \in Servers : ~Carries(s)' /\ (s \in down => s \in down0)'
  BY <1>1 DEF Begin, Carries, IInv, TypeOK
<1> QED
  BY <1>1, <1>2 DEF Begin, IInv, TypeOK, Parts, PhaseOK, CommitOK, RestartOK, FinalizeOK,
     RevertOK, HonestOutcome, OutcomeOn

\* Nothing is written before the commit: every server is as it was found.
LEMMA PlanStep ==
  ASSUME IInv, PlanEnds \/ PreflightEnds
               \/ (\E s \in Servers : PlanServer(s) \/ Preflight(s))
  PROVE  Parts'
<1> USE DEF IInv, Parts, PhaseOK, CommitOK, RestartOK, FinalizeOK, RevertOK, HonestOutcome,
            OutcomeOn, OffBut, Off, Mine, Excepted, Carries, host, plan, hushed, answer
<1>1. CASE PlanEnds
  BY <1>1 DEF PlanEnds, End
<1>2. CASE PreflightEnds
  BY <1>2 DEF PreflightEnds, End
<1>3. ASSUME NEW s \in Servers, PlanServer(s) PROVE Parts'
  BY <1>3 DEF PlanServer, End, TypeOK
<1>4. ASSUME NEW s \in Servers, Preflight(s) PROVE Parts'
  BY <1>4 DEF Preflight
<1> QED
  BY <1>1, <1>2, <1>3, <1>4

\* A commit changes its own server, and only the committed ones carry it.
LEMMA CommitStep == ASSUME IInv, NEW s \in Servers, Commit(s) PROVE Parts'
<1> USE DEF IInv, Mine, Excepted, Carries, Off, Written, Files
<1>1. /\ s \in targets /\ s \notin committed /\ phase = "commit"
      /\ phase' = "commit" \/ phase' = "revert"
      /\ UNCHANGED <<down, clock, change, before, targets, down0, back, needs, status, touched>>
      /\ silent \subseteq silent' /\ misled' = misled
  BY DEF Commit, FirstToCommit, PutBack, plan, hushed, answer
<1>2. \A t \in Servers \ {s} : file'[t] = file[t] /\ runs'[t] = runs[t]
  BY DEF Commit, Put, PutHalf, TypeOK
<1>3. PhaseOK'
  BY <1>1 DEF Commit, PhaseOK, PutBack
<1>4. OffBut(committed \cup {s})'
  BY <1>1, <1>2 DEF Commit, OffBut, CommitOK
<1>5. \A t \in committed : Mine(t)' => Written(t)'
  BY <1>1, <1>2 DEF CommitOK, PhaseOK, TypeOK
<1>6. CASE phase' = "commit"
  <2>1. committed' = committed \cup {s} /\ Put(s, change)
    BY <1>1, <1>6 DEF Commit, PutBack
  <2>2. Mine(s)' => Written(s)'
    BY <1>1, <2>1 DEF Put, CommitOK, OffBut, TypeOK
  <2> QED
    BY <1>3, <1>4, <1>5, <1>6, <2>1, <2>2
    DEF Parts, CommitOK, RestartOK, FinalizeOK, RevertOK, HonestOutcome, OutcomeOn
<1>7. CASE phase' = "revert"
  <2>1. committed' = committed /\ asked' = {} /\ failed' = {} /\ back' = {}
    BY <1>1, <1>7 DEF Commit, PutBack, PhaseOK
  <2>2. unproved' = {s} \/ UNCHANGED <<file, runs>> \/ s \in silent'
    BY <1>1, <1>7 DEF Commit
  <2>3. OffBut(committed \cup unproved)'
    BY <1>1, <1>4, <2>1, <2>2 DEF OffBut, CommitOK
  <2>4. committed' \cap silent' = {}
    BY <1>1, <2>1 DEF Commit, PhaseOK
  <2>5. RevertOK'
    BY <1>5, <1>7, <2>1, <2>3, <2>4 DEF RevertOK, Waiting
  <2> QED
    BY <1>3, <1>7, <2>5 DEF Parts, CommitOK, RestartOK, FinalizeOK, HonestOutcome, OutcomeOn
<1> QED
  BY <1>1, <1>6, <1>7

\* Every target is committed: the restarts and the finalize.
LEMMA CommitEndsStep == ASSUME IInv, CommitEnds PROVE Parts'
<1> USE DEF Mine, Excepted, Carries, Off, On, Written, Files, host, plan, hushed, call, answer
<1>1. \A s \in Servers : Mine(s) => IF s \in targets THEN Written(s) ELSE Off(s)
  BY DEF CommitEnds, IInv, CommitOK, OffBut
<1>2. asked = {} /\ PhaseOK'
  BY DEF CommitEnds, IInv, PhaseOK
<1>3. CASE phase' = "restart"
  BY <1>1, <1>2, <1>3
  DEF CommitEnds, IInv, CommitOK, Parts, RestartOK, FinalizeOK, RevertOK, HonestOutcome, OutcomeOn, OffBut
<1>4. CASE phase' = "finalize"
  <2>1. ASSUME NEW s \in targets, Mine(s), Written(s) PROVE On(s)
    BY <1>4, <2>1 DEF CommitEnds
  <2> QED
    BY <1>1, <1>2, <1>4, <2>1
    DEF CommitEnds, Parts, CommitOK, RestartOK, FinalizeOK, RevertOK, HonestOutcome, OutcomeOn
<1> QED
  BY <1>3, <1>4 DEF CommitEnds

\* A daemon restarted on its new file runs the change.
LEMMA RestartStep ==
  ASSUME IInv, RestartEnds \/ FinalizeChange \/ (\E s \in Servers : RestartNew(s))
  PROVE  Parts'
<1> USE DEF IInv, Mine, Excepted, Carries, Off, On, Written, Files, Parts, PhaseOK, CommitOK,
            RestartOK, FinalizeOK, RevertOK, HonestOutcome, OutcomeOn, OffBut, Waiting
<1>1. CASE RestartEnds
  BY <1>1 DEF RestartEnds, PutBack, host, plan, hushed, answer
<1>2. CASE FinalizeChange
  BY <1>2 DEF FinalizeChange, PutBack, End, host, plan, hushed, answer
<1>3. ASSUME NEW s \in Servers, RestartNew(s) PROVE Parts'
  BY <1>3 DEF RestartNew, RestartServer, Loads, Stops, FirstPlanned, plan, hushed, answer, TypeOK
<1> QED
  BY <1>1, <1>2, <1>3

\* A server is put back by its own calls only, and one whose call failed is
\* among those a person is sent to.
LEMMA RevertStep == ASSUME IInv, NEW s \in Servers, Revert(s) PROVE Parts'
<1> USE DEF IInv, Mine, Excepted, Carries, Off, Written, Files
<1>1. /\ s \in committed /\ s \notin asked /\ s \notin back /\ s \in targets
      /\ phase = "revert" /\ phase' = "revert" /\ Waiting = {} /\ before[s] # change
      /\ UNCHANGED <<down, clock, change, before, targets, down0, committed, unproved,
                     silent, needs, status, touched>>
      /\ asked \subseteq asked' /\ asked' \subseteq asked \cup {s}
      /\ misled \subseteq misled'
  BY DEF Revert, LastOf, Owed, Waiting, plan, hushed, answer, PhaseOK, RevertOK
<1>2. \A t \in Servers \ {s} : file'[t] = file[t] /\ runs'[t] = runs[t]
  BY DEF Revert, Put, PutHalf, TypeOK
<1>3. PhaseOK'
  BY <1>1 DEF Revert, PhaseOK
<1>4. /\ OffBut(committed \cup unproved)'
      /\ \A t \in committed \ (asked \cup back \cup {s}) : Mine(t)' => Written(t)'
      /\ \A t \in (asked \ failed) \ {s} : Mine(t)' => Off(t)'
  BY <1>1, <1>2 DEF RevertOK, OffBut, TypeOK
<1>5. CASE /\ Put(s, before[s]) /\ UNCHANGED <<failed, misled>> /\ back' = back \cup {s}
           /\ asked' = IF Restart /\ s \in Files THEN asked ELSE asked \cup {s}
  <2>1. file'[s] = before[s] /\ (s \in Api => runs'[s] = before[s])
    BY <1>5 DEF Put, TypeOK
  <2>2. s \in asked' /\ Mine(s)' => Off(s)'
    BY <1>1, <1>5, <2>1 DEF Put, RevertOK
  <2> QED
    BY <1>1, <1>3, <1>4, <1>5, <2>1, <2>2
    DEF Parts, CommitOK, RestartOK, FinalizeOK, RevertOK, HonestOutcome, OutcomeOn, Waiting
<1>6. CASE /\ s \in misled' /\ UNCHANGED failed
           /\ back' = back \cup {s} /\ asked' = asked \cup {s}
  <2>1. ~Mine(s)'
    BY <1>6
  <2> QED
    BY <1>1, <1>3, <1>4, <1>6, <2>1
    DEF Parts, CommitOK, RestartOK, FinalizeOK, RevertOK, HonestOutcome, OutcomeOn, Waiting
<1>7. CASE back' = back /\ failed' = failed \cup {s} /\ asked' = asked \cup {s}
  BY <1>1, <1>3, <1>4, <1>7
  DEF Parts, CommitOK, RestartOK, FinalizeOK, RevertOK, HonestOutcome, OutcomeOn, Waiting
<1> QED
  BY <1>5, <1>6, <1>7 DEF Revert

\* The restart on the restored file takes the change out of the daemon.
LEMMA RestartBackStep == ASSUME IInv, NEW s \in Servers, RestartBack(s) PROVE Parts'
<1> USE DEF IInv, Mine, Excepted, Carries, Off, Written, Files
<1>1. /\ s \in committed /\ s \notin asked /\ s \in back
      /\ phase = "revert" /\ phase' = "revert" /\ asked' = asked \cup {s}
      /\ UNCHANGED <<file, clock, change, before, targets, down0, committed, back, unproved,
                     silent, misled, needs, status, touched>>
      /\ failed \subseteq failed' /\ failed' \subseteq failed \cup {s}
  BY DEF RestartBack, RestartServer, Waiting, plan, hushed, answer, RevertOK
<1>2. \A t \in Servers \ {s} : runs'[t] = runs[t] /\ (t \in down' => t \in down)
  BY DEF RestartBack, RestartServer, Loads, Stops, TypeOK
<1>3. s \in failed' \/ (runs'[s] = file[s] /\ s \notin down')
  BY DEF RestartBack, RestartServer, Loads, TypeOK
<1>4. PhaseOK'
  BY <1>1 DEF PhaseOK
<1>5. RevertOK'
  BY <1>1, <1>2, <1>3 DEF RevertOK, OffBut, Waiting
<1> QED
  BY <1>1, <1>4, <1>5
  DEF Parts, CommitOK, RestartOK, FinalizeOK, HonestOutcome, OutcomeOn

\* The answer names every server that is not as it was found.
LEMMA RevertEndsStep == ASSUME IInv, RevertEnds \/ Return PROVE Parts'
<1> USE DEF IInv, Mine, Excepted, Carries, Off, Parts, PhaseOK, CommitOK, RestartOK, FinalizeOK,
            RevertOK, HonestOutcome, OutcomeOn, host, plan, hushed, call
<1>1. CASE RevertEnds
  BY <1>1 DEF RevertEnds, End, OffBut
<1>2. CASE Return
  BY <1>2 DEF Return
<1> QED
  BY <1>1, <1>2

\* What happens outside Jen disturbs only the server it happens to; a crash
\* leaves no change to answer for.
LEMMA WorldStep == ASSUME IInv, World PROVE Parts'
<1> USE DEF IInv, Mine, Excepted, Carries, Off, On, Written, Files, Parts, PhaseOK, CommitOK,
            RestartOK, FinalizeOK, RevertOK, HonestOutcome, OutcomeOn, OffBut, Waiting,
            host, plan, hushed, call, answer
<1>1. CASE Crash
  BY <1>1 DEF Crash
<1>2. ASSUME NEW s \in Servers, HandEdit(s) PROVE Parts'
  BY <1>2 DEF HandEdit, Outside, TypeOK
<1>3. ASSUME NEW s \in Servers, HandSet(s) PROVE Parts'
  BY <1>3 DEF HandSet, Outside, TypeOK
<1>4. ASSUME NEW s \in Servers, HandRestart(s) PROVE Parts'
  BY <1>4 DEF HandRestart, Outside, Loads, TypeOK
<1> QED
  BY <1>1, <1>2, <1>3, <1>4 DEF World

LEMMA IInvStep == IInv /\ [Next]_vars => IInv'
<1> SUFFICES ASSUME IInv, [Next]_vars PROVE IInv'
  OBVIOUS
<1>1. TypeOK'
  BY TypeStep DEF IInv
<1>2. CASE UNCHANGED vars
  BY <1>2 DEF vars, hushed, IInv, TypeOK, PhaseOK, CommitOK, RestartOK, FinalizeOK, RevertOK,
     HonestOutcome, OutcomeOn, OffBut, Mine, Excepted, Off, On, Carries, Written, Waiting, Files
<1>3. CASE Next
  <2>1. Parts'
    BY <1>3, BeginStep, PlanStep, CommitStep, CommitEndsStep, RestartStep, RevertStep,
       RestartBackStep, RevertEndsStep, WorldStep DEF Next, Jen
  <2> QED
    BY <1>1, <2>1 DEF IInv, Parts
<1> QED
  BY <1>2, <1>3

\* The strengthening that HonestOutcome needs: what each phase may have changed
\* so far, server by server.
THEOREM IInvHolds == Spec => []IInv
<1>1. Init => IInv
  BY ChangeSetAssumption
  DEF Init, IInv, TypeOK, PhaseOK, CommitOK, RestartOK, FinalizeOK, RevertOK, HonestOutcome,
      OutcomeOn, Phases, Statuses
<1> QED
  BY <1>1, IInvStep, PTL DEF Spec

\* TXN-001: the answer of a change names every server nobody else acted on that
\* is neither what the change asked for nor as it was found.
THEOREM OutcomeIsHonest == Spec => []HonestOutcome
<1>1. IInv => HonestOutcome
  BY DEF IInv
<1> QED
  BY <1>1, IInvHolds, PTL

\* HonestOutcome, with only the files whose answer was lost excepted.
OutcomeButFiles == OutcomeOn(Servers \ (touched \cup silent))
NobodyMisled == misled = {}

\* TXN-001 of a change about elements of lists (an address, a reservation, a subnet):
\* inclusion tells it from what was before, so that no revert over the API is answered
\* ok of a change that stayed, and only the lost answer of a file is excepted.
THEOREM ElementsAreHonest ==
  ASSUME Tellable PROVE Spec => []OutcomeButFiles
<1>1. Init => NobodyMisled
  BY DEF Init, NobodyMisled
<1>2. NobodyMisled /\ [Next]_vars => NobodyMisled'
  BY DEF Next, Jen, World, Begin, PlanServer, PlanEnds, Preflight, PreflightEnds, Commit,
     CommitEnds, Revert, RestartBack, RevertEnds, RestartNew, RestartEnds, FinalizeChange,
     Return, HandEdit, HandSet, HandRestart, Crash, vars, plan, hushed, call, NobodyMisled
<1>3. NobodyMisled /\ HonestOutcome => OutcomeButFiles
  BY DEF HonestOutcome, Excepted, OutcomeButFiles, NobodyMisled
<1> QED
  BY <1>1, <1>2, <1>3, OutcomeIsHonest, PTL DEF Spec

----------------------------------------------------------------------------
(* The order of the commits.                                               *)

\* While the commits and their putting back go on, a daemon that nobody touched runs
\* the change only over the API: no daemon was restarted on a file that says it.
OnlyByApi ==
  phase = "commit" \/ (phase = "revert" /\ cause = "commit") =>
    \A s \in Servers \ touched : runs[s] = change => s \in Api

\* In a revert, a server that runs the change, and on which nothing went wrong, is owed.
LEMMA RunningIsOwed ==
  ASSUME IInv, OnlyByApi, phase = "revert", cause = "commit",
         NEW s \in Servers \ (touched \cup failed \cup unproved \cup misled),
         runs[s] = change
  PROVE  s \in Owed /\ s \in Api
<1>1. s \in Api /\ Mine(s)
  BY DEF OnlyByApi, Mine, Excepted, IInv, TypeOK, Files
<1>2. s \in committed
  BY <1>1 DEF IInv, RevertOK, OffBut, Off, Carries
<1>3. s \notin asked
  BY <1>1, <1>2 DEF IInv, RevertOK, Off, Carries
<1> QED
  BY <1>1, <1>2, <1>3 DEF Owed

LEMMA FilesFirstStep ==
  IInv /\ FilesFirst /\ OnlyByApi /\ [Next]_vars => FilesFirst' /\ OnlyByApi'
<1> SUFFICES ASSUME IInv, FilesFirst, OnlyByApi, [Next]_vars PROVE FilesFirst' /\ OnlyByApi'
  OBVIOUS
<1> USE DEF IInv, TypeOK, Files, host, plan, hushed, call, answer, FilesFirst, OnlyByApi
<1>1. CASE UNCHANGED vars
  BY <1>1 DEF vars
<1>2. CASE Begin \/ PlanEnds \/ CommitEnds \/ RevertEnds \/ Return \/ Crash
  BY <1>2 DEF Begin, PlanEnds, CommitEnds, RevertEnds, Return, Crash, End
<1>3. CASE PreflightEnds
  BY <1>3 DEF PreflightEnds, End, PhaseOK, Carries
<1>4. CASE RestartEnds \/ FinalizeChange
  BY <1>4 DEF RestartEnds, FinalizeChange, End, PutBack
<1>5. ASSUME NEW t \in Servers, PlanServer(t) \/ Preflight(t) \/ RestartNew(t)
      PROVE  FilesFirst' /\ OnlyByApi'
  BY <1>5 DEF PlanServer, Preflight, RestartNew, End
<1>6. ASSUME NEW t \in Servers, Commit(t) PROVE FilesFirst' /\ OnlyByApi'
  <2>1. /\ phase = "commit" /\ committed \subseteq committed' /\ t \in targets \ committed
        /\ asked' = {} /\ back' = {} /\ asked = {} /\ back = {} /\ failed = {}
        /\ unproved = {} /\ UNCHANGED <<change, targets, touched, misled>>
    BY <1>6 DEF Commit, FirstToCommit, PutBack, PhaseOK
  <2>2. \A s \in Servers \ {t} : runs'[s] = runs[s]
    BY <1>6 DEF Commit, Put, PutHalf
  <2>3. CASE t \in Files
    <3>1. runs' = runs
      BY <1>6, <2>3 DEF Commit, Put
    <3> QED
      BY <2>1, <3>1
  <2>4. CASE t \in Api
    <3>1. targets \cap Files \subseteq committed
      BY <1>6, <2>1, <2>4 DEF Commit, FirstToCommit, Commits
    <3> QED
      BY <2>1, <2>2, <2>4, <3>1
  <2> QED
    BY <2>3, <2>4
<1>7. ASSUME NEW t \in Servers, Revert(t) PROVE FilesFirst' /\ OnlyByApi'
  <2>1. /\ phase = "revert" /\ phase' = "revert" /\ t \in Owed /\ LastOf(t, Owed)
        /\ UNCHANGED <<change, targets, committed, touched, unproved, cause>>
        /\ failed \subseteq failed' /\ misled \subseteq misled' /\ before[t] # change
        /\ asked' \cup back' \subseteq asked \cup back \cup {t}
    BY <1>7 DEF Revert, LastOf, Owed, PhaseOK
  <2>2. \A s \in Servers : runs'[s] = change => runs[s] = change
    BY <1>7, <2>1 DEF Revert, Put, PutHalf
  <2>3. CASE cause = "commit"
    <3>1. ASSUME NEW s \in Servers \ (touched' \cup failed' \cup unproved' \cup misled'),
                 runs'[s] = change', NEW f \in targets' \cap Files
          PROVE  f \in committed' \ (back' \cup asked')
      <4>1. s \in Owed /\ s \in Api
        BY <2>1, <2>2, <2>3, <3>1, RunningIsOwed
      <4>2. t # f
        BY <2>1, <2>3, <3>1, <4>1 DEF LastOf, Commits
      <4>3. f \in committed \ (back \cup asked)
        BY <2>1, <2>2, <2>3, <3>1
      <4> QED
        BY <2>1, <4>2, <4>3
    <3> QED
      BY <2>1, <2>2, <2>3, <3>1
  <2> QED
    BY <2>1, <2>3
<1>8. ASSUME NEW t \in Servers, RestartBack(t) PROVE FilesFirst' /\ OnlyByApi'
  <2>1. /\ phase = "revert" /\ phase' = "revert" /\ t \in back \ asked /\ t \in committed
        /\ UNCHANGED <<file, change, targets, committed, touched, unproved, misled, back, cause>>
        /\ asked' = asked \cup {t} /\ failed \subseteq failed'
    BY <1>8 DEF RestartBack, RestartServer, Waiting, RevertOK
  <2>2. t \in Files /\ (t \notin touched => Mine(t))
    BY <2>1 DEF RevertOK, Mine, Excepted, Waiting
  <2>3. \A s \in Servers \ touched : runs'[s] = change => runs[s] = change
    BY <1>8, <2>1, <2>2 DEF RestartBack, RestartServer, Loads, Stops, RevertOK
  <2> QED
    BY <2>1, <2>3
<1>9. ASSUME NEW t \in Servers, HandEdit(t) \/ HandSet(t) \/ HandRestart(t)
      PROVE  FilesFirst' /\ OnlyByApi'
  BY <1>9 DEF HandEdit, HandSet, HandRestart, Outside, Loads
<1> QED
  BY <1>1, <1>2, <1>3, <1>4, <1>5, <1>6, <1>7, <1>8, <1>9 DEF Next, Jen, World

\* Until every file target is written no daemon runs the change, and a commit
\* that fails takes the daemons back before the first file.
THEOREM FilesGoFirst == Spec => []FilesFirst
<1>1. Init => FilesFirst /\ OnlyByApi
  BY DEF Init, FilesFirst, OnlyByApi
<1> QED
  BY <1>1, IInvHolds, FilesFirstStep, PTL DEF Spec

----------------------------------------------------------------------------
(* The refinement.                                                         *)

\* While no answer is given the promise is at work.
LEMMA WorkStep ==
  ASSUME IInv, IInv', [Next]_vars, phase # "done", phase' \notin {"idle", "done"}
  PROVE  Promise!Work
  BY DEF IInv, TypeOK, PhaseOK, Promise!Work, Promised, Files

\* The step that ends a change gives an honest answer and does nothing else.
LEMMA AnswerStep ==
  ASSUME IInv, IInv', [Next]_vars, phase # "done", phase' = "done"
  PROVE  Promise!Answer
<1>1. phase # "idle" /\ UNCHANGED <<file, runs, down, change, targets, touched, silent, misled>>
  BY DEF Next, Jen, World, Begin, PlanServer, PlanEnds, Preflight, PreflightEnds, Commit,
     CommitEnds, Revert, RestartBack, RevertEnds, RestartNew, RestartEnds, FinalizeChange,
     Return, HandEdit, HandSet, HandRestart, Crash, PutBack, End, vars, host, plan, hushed, call
<1>2. /\ Promised' = Promised /\ Promised \subseteq Servers
      /\ \A s \in Promised : Carries(s)' = Carries(s)
  BY <1>1 DEF Promised, Excepted, Carries
<1>3. CASE status' = "ok"
  <2>1. needs' = {}
    BY <1>3 DEF IInv, PhaseOK
  <2>2. \A s \in Promised : Carries(s) <=> s \in targets
    BY <1>1, <1>2, <1>3 DEF IInv, HonestOutcome, OutcomeOn, On, Off, Carries, Promised, Excepted
  <2> QED
    BY <1>1, <1>2, <1>3, <2>1, <2>2 DEF Promise!Answer, Promise!Honest
<1>4. CASE status' # "ok"
  <2>1. \A s \in Promised : Carries(s) => s \in needs'
    BY <1>1, <1>2, <1>4 DEF IInv, HonestOutcome, OutcomeOn, Off, Carries, Promised, Excepted
  <2>2. needs' \subseteq Servers
    BY DEF IInv, TypeOK
  <2> QED
    BY <1>1, <1>2, <1>4, <2>1, <2>2 DEF Promise!Answer, Promise!Honest
<1> QED
  BY <1>3, <1>4

\* An answer is not changed: a hand on a server takes that server out of what
\* was promised.
LEMMA ElsewhereStep ==
  ASSUME IInv, [Next]_vars, phase = "done", phase' = "done"
  PROVE  Promise!Elsewhere \/ UNCHANGED Promise!vars
<1>1. CASE UNCHANGED vars
  BY <1>1 DEF vars, hushed, Promise!vars, Promised, Excepted, Carries
<1>2. ASSUME NEW s \in Servers, HandEdit(s) \/ HandSet(s) \/ HandRestart(s)
      PROVE  Promise!Elsewhere
  BY <1>2 DEF HandEdit, HandSet, HandRestart, Loads, Outside, Promise!Elsewhere, Promised,
     Excepted, Carries, plan, hushed, call, answer, IInv, TypeOK
<1>3. CASE Next
  BY <1>2, <1>3 DEF Next, Jen, World, Begin, PlanServer, PlanEnds, Preflight, PreflightEnds,
     Commit, CommitEnds, Revert, RestartBack, RevertEnds, RestartNew, RestartEnds,
     FinalizeChange, Return, Crash
<1> QED
  BY <1>1, <1>3

\* An answer is followed by nothing but the release of the lock.
LEMMA AnswerStands ==
  ASSUME [Next]_vars, phase = "done" PROVE phase' \in {"done", "idle"}
  BY DEF Next, Jen, World, Begin, PlanServer, PlanEnds, Preflight, PreflightEnds, Commit,
     CommitEnds, Revert, RestartBack, RevertEnds, RestartNew, RestartEnds, FinalizeChange,
     Return, HandEdit, HandSet, HandRestart, Crash, vars

\* Between two changes nothing is promised.
LEMMA OverStep ==
  ASSUME IInv', phase' = "idle"
  PROVE  Promise!Over
  BY DEF IInv, PhaseOK, Promise!Over, Promised

\* The change set implements the promise, step by step.
THEOREM PromiseIsKept == Spec => KeepsPromise
<1>1. Init => Promise!Init
  BY DEF Init, Promise!Init, Promised
<1>2. IInv /\ IInv' /\ [Next]_vars => [Promise!Next]_Promise!vars
  BY WorkStep, AnswerStep, ElsewhereStep, OverStep, AnswerStands DEF Promise!Next
<1> QED
  BY <1>1, <1>2, IInvHolds, PTL DEF Spec, KeepsPromise, Promise!Spec
=============================================================================
