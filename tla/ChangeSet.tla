----------------------------- MODULE ChangeSet ------------------------------
(***************************************************************************)
(* One configuration change on many Kea servers: _run_change_unlocked of   *)
(* src/jen/services/kea_changeset.py - plan and preflight every target,    *)
(* commit one at a time, restart, finalize, and put every target back when *)
(* a later step fails - over the two transports it dispatches to: a file   *)
(* and a restart (kea_host), or the daemon's own API (kea_api_config).     *)
(*                                                                         *)
(* Every action below is one remote call.  A call may fail, and its answer *)
(* may be lost after the host acted on it; between any two of them an      *)
(* operator may edit a file, restart a daemon or set its configuration by  *)
(* hand, and Jen may die.  What a call over the API does step by step is   *)
(* KeaApiConfig; here it is one action with the outcomes that module       *)
(* allows.                                                                 *)
(*                                                                         *)
(* A configuration is a version: a number given to it when it is first     *)
(* written, by a change or by a hand.                                      *)
(***************************************************************************)
EXTENDS Naturals

CONSTANTS
  Servers,     \* the ids of the configured servers, in configuration order
  Api,         \* those whose transport is the daemon's API; the others are files
  Restart,     \* the caller's `restart`
  Finalize,    \* does the caller pass a `finalize`?
  Tellable,    \* is the change about elements of lists only?
  Hands,       \* what happens outside Jen: edit, restart, set
  MaxVersions, \* how many versions are ever written
  Faults,      \* what may fail: read, refused, lost, unproved, restart, finalize, crash
  MaxFaults    \* how often

ASSUME ChangeSetAssumption ==
  /\ Servers \subseteq Nat /\ Api \subseteq Servers
  /\ Restart \in BOOLEAN /\ Finalize \in BOOLEAN /\ Tellable \in BOOLEAN
  /\ MaxVersions \in Nat /\ MaxFaults \in Nat

VARIABLES
  file,       \* the version each server's file says
  runs,       \* the version each daemon loaded last
  down,       \* the servers whose daemon a restart stopped and did not start
  clock,      \* the newest version
  phase,      \* what the change does next
  change,     \* the version it writes
  before,     \* the version the Plan read on each server
  targets,    \* the servers it is for
  asked,      \* those this phase has called
  committed,  \* those that answered ok to the commit
  back,       \* those whose previous configuration is back
  failed,     \* those this phase's call failed on (revert_failed, restart_stuck, stuck)
  unproved,   \* the target whose API write could not be proved
  cause,      \* why everything is put back: commit, restart or finalize
  status,     \* ChangeSetResult.status
  needs,      \* ChangeSetResult.needs_hands_ids
  touched,    \* history variable: servers somebody else acted on since the Plan
  silent,     \* history variable: file targets whose commit was never answered
  misled,     \* history variable: API targets whose revert said ok of a change that stayed
  down0,      \* history variable: the servers that were down before the change
  faults      \* how many failures happened so far

host == <<file, runs, down, clock>>
plan == <<change, before, targets, down0>>
hushed == <<silent, misled>>
call == <<asked, committed, back, failed, unproved, cause, hushed>>
answer == <<status, needs>>
vars == <<file, runs, down, clock, phase, change, before, targets, asked,
          committed, back, failed, unproved, cause, status, needs, touched,
          hushed, down0, faults>>

Phases == {"idle", "plan", "preflight", "commit", "restart", "finalize", "revert", "done"}
Statuses == {"none", "ok", "nothing", "aborted", "rolled_back", "rollback_failed"}

Files == Servers \ Api

Fault(kind) == kind \in Faults /\ faults < MaxFaults /\ faults' = faults + 1
Fine == UNCHANGED faults

\* The order of the servers, and of the commits: files first, then the API.
Planned(s, t) == s <= t
CommitsAsPlanned(s, t) == Planned(s, t)   \* mutant: one order for everything
Commits(s, t) ==
  \/ s \in Files /\ t \in Api
  \/ (s \in Files <=> t \in Files) /\ s <= t

FirstPlanned(s, S) == s \in S /\ \A t \in S : Planned(s, t)
FirstToCommit(s, S) == s \in S /\ \A t \in S : Commits(s, t)
\* reversed(committed) after a commit that failed, reversed(targets) later.
LastOf(s, S) ==
  s \in S /\ \A t \in S : IF cause = "commit" THEN Commits(t, s) ELSE Planned(t, s)

End(outcome, hands) ==
  /\ phase' = "done" /\ status' = outcome /\ needs' = hands

----------------------------------------------------------------------------
(* Phase 1: plan.                                                          *)

\* _run_change: the change lock is held from here to the answer.
Begin ==
  /\ phase = "idle" /\ clock < MaxVersions
  /\ phase' = "plan"
  /\ clock' = clock + 1 /\ change' = clock + 1
  /\ down0' = down
  /\ targets' = {} /\ asked' = {} /\ committed' = {} /\ back' = {} /\ failed' = {}
  /\ unproved' = {} /\ touched' = {} /\ silent' = {} /\ misled' = {}
  /\ cause' = "none"
  /\ UNCHANGED <<file, runs, down, before, status, needs, faults>>

\* One server is read, and the mutation is asked for its candidate: a target,
\* a server to skip, or the end of the whole change.
PlanServer(s) ==
  /\ phase = "plan" /\ FirstPlanned(s, Servers \ asked)
  /\ \/ /\ Fine
        /\ before' = [before EXCEPT ![s] = IF s \in Api THEN runs[s] ELSE file[s]]
        /\ targets' = targets \cup {s} /\ asked' = asked \cup {s}
        /\ UNCHANGED <<phase, answer>>
     \/ /\ Fine
        /\ asked' = asked \cup {s}
        /\ UNCHANGED <<phase, answer, before, targets>>
     \/ /\ Fine
        /\ End("aborted", {})
        /\ UNCHANGED <<before, targets, asked>>
     \/ /\ Fault("read")
        /\ \E hands \in {{}, {s} \cap Api} : End("aborted", hands)
        /\ UNCHANGED <<before, targets, asked>>
  /\ UNCHANGED <<host, change, down0, committed, back, failed, unproved, cause, touched, hushed>>

PlanEnds ==
  /\ phase = "plan" /\ asked = Servers
  /\ IF targets = {} THEN End("nothing", {}) ELSE phase' = "preflight" /\ UNCHANGED answer
  /\ asked' = {}
  /\ UNCHANGED <<host, plan, committed, back, failed, unproved, cause, touched, hushed, faults>>

----------------------------------------------------------------------------
(* Phase 2: preflight.  Every target is tested before any is written.      *)

Preflight(s) ==
  /\ phase = "preflight" /\ FirstPlanned(s, targets \ asked)
  /\ \/ Fine /\ UNCHANGED failed
     \/ Fault("refused") /\ failed' = failed \cup {s}
  /\ asked' = asked \cup {s}
  /\ UNCHANGED <<host, phase, plan, committed, back, unproved, cause, hushed, answer, touched>>

PreflightEnds ==
  /\ phase = "preflight" /\ asked = targets
  /\ IF failed # {} THEN End("aborted", {}) ELSE phase' = "commit" /\ UNCHANGED answer
  /\ asked' = {}
  /\ UNCHANGED <<host, plan, committed, back, failed, unproved, cause, touched, hushed, faults>>

----------------------------------------------------------------------------
(* Phase 3: commit, and put back what was committed when one fails.        *)

\* The file now says v: the file of an API target is written by its daemon.
Put(s, v) ==
  /\ file' = [file EXCEPT ![s] = v]
  /\ runs' = IF s \in Api THEN [runs EXCEPT ![s] = v] ELSE runs

\* What the write is guarded by: the sha of the file, the daemon's digest.
Says(s) == IF s \in Api THEN runs[s] ELSE file[s]

\* A write over the API whose outcome the daemon's answer could not prove:
\* something failed on the way, or somebody else acted on the server.
Unproved(s) == Fault("unproved") \/ (s \in touched /\ Fine)
PutHalf(s, v) ==
  /\ \E f \in {file[s], v} : file' = [file EXCEPT ![s] = f]
  /\ \E r \in {runs[s], v} : runs' = [runs EXCEPT ![s] = r]

\* Mutant: the servers that were restarted are taken for servers put back.
PutBackUnasked(why) ==
  /\ phase' = "revert" /\ cause' = why
  /\ failed' = {} /\ UNCHANGED asked

PutBack(why) ==
  /\ phase' = "revert" /\ cause' = why
  /\ asked' = {} /\ failed' = {}

Commit(s) ==
  /\ phase = "commit" /\ FirstToCommit(s, targets \ committed)
  /\ \/ /\ Fine /\ Says(s) = before[s]
        /\ Put(s, change)
        /\ committed' = committed \cup {s}
        /\ UNCHANGED <<phase, cause, asked, failed, unproved, silent>>
     \/ /\ \/ Fine /\ Says(s) # before[s]
           \/ Fault("refused")
        /\ PutBack("commit")
        /\ UNCHANGED <<file, runs, committed, unproved, silent>>
     \/ /\ s \in Files /\ Fault("lost")
        /\ \/ Says(s) = before[s] /\ Put(s, change)
           \/ UNCHANGED <<file, runs>>
        /\ silent' = silent \cup {s}
        /\ PutBack("commit")
        /\ UNCHANGED <<committed, unproved>>
     \/ /\ s \in Api /\ Unproved(s)
        /\ PutHalf(s, change)
        /\ unproved' = {s}
        /\ PutBack("commit")
        /\ UNCHANGED <<committed, silent>>
  /\ UNCHANGED <<down, clock, plan, back, misled, answer, touched>>

CommitEnds ==
  /\ phase = "commit" /\ committed = targets
  /\ phase' = IF Restart /\ targets \cap Files # {} THEN "restart" ELSE "finalize"
  /\ UNCHANGED <<host, plan, call, answer, touched, faults>>

----------------------------------------------------------------------------
(* The two ways a restart goes: the daemon loads its file, or it stops on  *)
(* it - or answers that it could not, still running what it ran.           *)

Loads(s) == runs' = [runs EXCEPT ![s] = file[s]] /\ down' = down \ {s}
Stops(s) == UNCHANGED runs /\ down' \in {down, down \cup {s}}

\* service_action: an answer that is lost is a failure, whatever happened.
RestartServer(s) ==
  \/ Fine /\ Loads(s) /\ UNCHANGED failed
  \/ Fault("restart") /\ Stops(s) /\ failed' = failed \cup {s}
  \/ Fault("lost") /\ Loads(s) /\ failed' = failed \cup {s}

----------------------------------------------------------------------------
(* Putting back (_restore_target): the committed targets of phase 3, every *)
(* target in _put_everything_back - which is the same set by then.         *)

Owed == committed \ asked
Waiting == back \ asked     \* restored, and its daemon not yet restarted on it

\* Over the API the configuration before is given as the change's own candidate
\* (before_cfg=t.after_cfg).  When config-set is lost before it took, that candidate
\* is not what the daemon shows, and the one to put back is included in what it
\* runs: the revert answers ok and the change stays - unless the change is about
\* elements of lists, which inclusion tells apart (KeaApiConfig, OkIsTrue).
Revert(s) ==
  /\ phase = "revert" /\ Waiting = {} /\ LastOf(s, Owed)
  /\ \/ /\ Fine /\ Says(s) = change
        /\ Put(s, before[s])
        /\ back' = back \cup {s}
        /\ asked' = IF Restart /\ s \in Files THEN asked ELSE asked \cup {s}
        /\ UNCHANGED <<failed, misled>>
     \/ /\ s \in Api /\ ~Tellable /\ Fault("lost") /\ Says(s) = change
        /\ back' = back \cup {s} /\ asked' = asked \cup {s} /\ misled' = misled \cup {s}
        /\ UNCHANGED <<file, runs, failed>>
     \/ /\ \/ Fine /\ Says(s) # change /\ UNCHANGED <<file, runs>>
           \/ Fault("refused") /\ UNCHANGED <<file, runs>>
           \/ s \in Files /\ Fault("lost") /\ Says(s) = change /\ Put(s, before[s])
           \/ s \in Api /\ Unproved(s) /\ PutHalf(s, before[s])
        /\ failed' = failed \cup {s} /\ asked' = asked \cup {s}
        /\ UNCHANGED <<back, misled>>
  /\ UNCHANGED <<down, clock, phase, plan, committed, unproved, cause, silent, answer, touched>>

RestartBack(s) ==
  /\ phase = "revert" /\ s \in Waiting
  /\ RestartServer(s)
  /\ asked' = asked \cup {s}
  /\ UNCHANGED <<file, clock, phase, plan, committed, back, unproved, cause, hushed, answer, touched>>

\* Mutants: the target that failed is forgotten; every target is waited for;
\* a status that no caller knows.
RevertEndsProved ==
  /\ phase = "revert" /\ asked = committed
  /\ IF failed # {} THEN End("rollback_failed", failed)
     ELSE End(IF cause = "commit" THEN "aborted" ELSE "rolled_back", {})
  /\ UNCHANGED <<host, plan, call, touched, faults>>
RevertEndsAtTargets ==
  /\ phase = "revert" /\ asked = targets
  /\ End("rollback_failed", failed \cup unproved)
  /\ UNCHANGED <<host, plan, call, touched, faults>>
RevertEndsReverted ==
  /\ phase = "revert" /\ asked = committed
  /\ End(IF failed \cup unproved = {} THEN "reverted" ELSE "rollback_failed", failed \cup unproved)
  /\ UNCHANGED <<host, plan, call, touched, faults>>

RevertEnds ==
  /\ phase = "revert" /\ asked = committed
  /\ IF failed \cup unproved # {} THEN End("rollback_failed", failed \cup unproved)
     ELSE End(IF cause = "commit" THEN "aborted" ELSE "rolled_back", {})
  /\ UNCHANGED <<host, plan, call, touched, faults>>

----------------------------------------------------------------------------
(* Phase 4: restart every file target.  All are restarted before any       *)
(* failure is looked at.                                                   *)

RestartNew(s) ==
  /\ phase = "restart" /\ FirstPlanned(s, (targets \cap Files) \ asked)
  /\ RestartServer(s)
  /\ asked' = asked \cup {s}
  /\ UNCHANGED <<file, clock, phase, plan, committed, back, unproved, cause, hushed, answer, touched>>

RestartEnds ==
  /\ phase = "restart" /\ asked = targets \cap Files
  /\ IF failed # {} THEN PutBack("restart")
     ELSE phase' = "finalize" /\ UNCHANGED <<cause, asked, failed>>
  /\ UNCHANGED <<host, plan, committed, back, unproved, hushed, answer, touched, faults>>

(* Phase 5: finalize, what Jen records on its own side.                    *)

FinalizeChange ==
  /\ phase = "finalize"
  /\ \/ Fine /\ End("ok", {}) /\ UNCHANGED <<cause, asked, failed>>
     \/ Finalize /\ Fault("finalize") /\ PutBack("finalize") /\ UNCHANGED answer
  /\ UNCHANGED <<host, plan, committed, back, unproved, hushed, touched>>

\* The caller has the answer and the lock is released.
Return ==
  /\ phase = "done"
  /\ phase' = "idle" /\ status' = "none" /\ needs' = {}
  /\ UNCHANGED <<host, plan, call, touched, faults>>

----------------------------------------------------------------------------
(* What happens outside Jen.                                               *)

Outside(kind, s) == kind \in Hands /\ touched' = touched \cup {s}

HandEdit(s) ==
  /\ Outside("edit", s) /\ clock < MaxVersions
  /\ clock' = clock + 1 /\ file' = [file EXCEPT ![s] = clock + 1]
  /\ UNCHANGED <<runs, down, phase, plan, call, answer, faults>>

HandSet(s) ==
  /\ Outside("set", s) /\ clock < MaxVersions
  /\ clock' = clock + 1 /\ runs' = [runs EXCEPT ![s] = clock + 1]
  /\ UNCHANGED <<file, down, phase, plan, call, answer, faults>>

HandRestart(s) ==
  /\ Outside("restart", s)
  /\ Loads(s)
  /\ UNCHANGED <<file, clock, phase, plan, call, answer, faults>>

\* Jen's process dies between two calls: its locals and the lock are gone.
Crash ==
  /\ phase \notin {"idle", "done"} /\ Fault("crash")
  /\ phase' = "idle"
  /\ UNCHANGED <<host, plan, call, answer, touched>>

----------------------------------------------------------------------------

Init ==
  /\ file = [s \in Servers |-> 0] /\ runs = [s \in Servers |-> 0]
  /\ before = [s \in Servers |-> 0]
  /\ down = {} /\ clock = 0 /\ phase = "idle" /\ change = 0
  /\ targets = {} /\ asked = {} /\ committed = {} /\ back = {} /\ failed = {}
  /\ unproved = {} /\ cause = "none" /\ status = "none" /\ needs = {}
  /\ touched = {} /\ silent = {} /\ misled = {} /\ down0 = {} /\ faults = 0

\* What the holder of the change lock does next.
Jen ==
  \/ PlanEnds \/ PreflightEnds \/ CommitEnds \/ RevertEnds \/ RestartEnds
  \/ FinalizeChange \/ Return
  \/ \E s \in Servers : \/ PlanServer(s) \/ Preflight(s) \/ Commit(s) \/ Revert(s)
                        \/ RestartBack(s) \/ RestartNew(s)

World == Crash \/ \E s \in Servers : HandEdit(s) \/ HandSet(s) \/ HandRestart(s)

Next == Begin \/ Jen \/ World

Spec == Init /\ [][Next]_vars
FairSpec == Spec /\ WF_vars(Jen)

----------------------------------------------------------------------------
(* Properties.                                                             *)

\* Every value is of its kind.
TypeOK ==
  /\ clock \in 0..MaxVersions /\ change \in 0..clock
  /\ file \in [Servers -> 0..clock] /\ runs \in [Servers -> 0..clock]
  /\ before \in [Servers -> 0..clock]
  /\ phase \in Phases /\ status \in Statuses
  /\ cause \in {"none", "commit", "restart", "finalize"}
  /\ targets \subseteq Servers /\ asked \subseteq Servers /\ committed \subseteq Servers
  /\ back \subseteq Servers /\ failed \subseteq Servers /\ unproved \subseteq Servers
  /\ needs \subseteq Servers /\ touched \subseteq Servers
  /\ silent \subseteq Files /\ misled \subseteq Api
  /\ down \subseteq Servers /\ down0 \subseteq Servers
  /\ faults \in 0..MaxFaults

\* The server carries the change, in its file or in its daemon; it is as this
\* change found it; it is what this change was asked to make it.
Carries(s) == file[s] = change \/ runs[s] = change
Off(s) == ~Carries(s) /\ (s \in down => s \in down0)
On(s) ==
  /\ file[s] = change
  /\ s \in Api \/ Restart => runs[s] = change
  /\ s \in Files /\ Restart => s \notin down

\* The honest answer, for the servers in S: `ok` is what they all are, and
\* anything else leaves the change on a server, or its daemon stopped, only
\* where a person is sent.
OutcomeOn(S) ==
  phase = "done" =>
    IF status = "ok" THEN \A s \in S : IF s \in targets THEN On(s) ELSE Off(s)
    ELSE \A s \in S \ needs : Off(s)

\* The servers no answer is true of: somebody else acted on them, the commit of the
\* file was never answered (StrictOutcome), or the revert over the API was answered
\* ok by inclusion while the change stayed (OkIsTrue of KeaApiConfig).
Excepted == touched \cup silent \cup misled

\* TXN-001: all of it, or none of it, or visibly unresolved - whatever fails in
\* whatever phase - on every server nobody else acted on meanwhile, but for the two
\* kinds of target whose lost answer the code takes for another (Excepted).
HonestOutcome == OutcomeOn(Servers \ Excepted)

\* TXN-001 as it is written: but for the acts of others no server is excepted.
StrictOutcome == OutcomeOn(Servers \ touched)

\* "The window in which servers disagree is the restarts only": while the commits
\* and their putting back go on, a daemon that nobody else touched and no revert
\* failed on runs the change only when the file of every file target carries it.
\* So the files are written first, and the daemons are taken back first.
FilesFirst ==
  phase = "commit" \/ (phase = "revert" /\ cause = "commit") =>
    \A s \in Servers \ (touched \cup failed \cup unproved \cup misled) :
      runs[s] = change =>
        \A t \in targets \cap Files : t \in committed \ (back \cup asked)

\* Every change ends with an answer, and its lock is released.
ChangeEnds == phase # "idle" ~> phase = "idle"

\* The promise this module implements, on the servers it is made about.
Promised == IF phase = "idle" THEN {} ELSE Servers \ Excepted
Promise == INSTANCE ChangePromise WITH
  answer <- IF phase # "done" THEN "none"
            ELSE IF status = "ok" THEN "done" ELSE IF needs = {} THEN "notDone" ELSE "unresolved",
  whole <- targets \cap Promised,
  carried <- {s \in Promised : Carries(s)},
  named <- needs

\* The whole behaviour is a behaviour of the promise: no answer is given early,
\* and none becomes false later by Jen's own doing.
KeepsPromise == Promise!Spec

----------------------------------------------------------------------------
(* The inductive invariant that HonestOutcome rests on.                    *)

\* Nobody else acted on s since the Plan, and its write was answered.
Mine(s) == s \in Servers \ Excepted

\* Every server is as it was found, but for those this phase may have changed.
OffBut(S) == \A s \in Servers \ S : Mine(s) => Off(s)

\* A committed target carries the change where its transport puts it at once.
Written(s) ==
  /\ file[s] = change
  /\ s \in Api => runs[s] = change
  /\ s \in Api \/ ~Restart => (s \in down => s \in down0)
  /\ s \in Files /\ ~Restart => runs[s] # change

\* A daemon that is restarted loads the file its server has now.
Restored(s) ==
  /\ file[s] # change
  /\ s \in Api \/ ~Restart => Off(s)

PhaseOK ==
  /\ phase \in {"plan", "preflight"} =>
       /\ committed = {} /\ back = {} /\ unproved = {} /\ silent = {}
       /\ \A s \in Servers : ~Carries(s) /\ (s \in down => s \in down0)
  /\ phase \notin {"idle", "done"} => \A s \in targets : before[s] # change
  /\ phase # "done" \/ status = "ok" => needs = {}
  /\ phase = "commit" =>
       asked = {} /\ failed = {} /\ back = {} /\ unproved = {} /\ silent = {}
  /\ phase \in {"commit", "restart", "finalize", "revert"} => committed \subseteq targets
  /\ phase \in {"restart", "finalize"} =>
       committed = targets /\ back = {} /\ unproved = {} /\ silent = {}
  /\ phase = "restart" => failed \subseteq asked /\ asked \subseteq Files /\ Restart

CommitOK ==
  phase = "commit" =>
    /\ OffBut(committed)
    /\ \A s \in committed : Mine(s) => Written(s)

RestartOK ==
  phase = "restart" =>
    /\ OffBut(committed)
    /\ \A s \in committed : Mine(s) => Written(s)
    /\ \A s \in asked \ failed : Mine(s) => On(s)

FinalizeOK ==
  phase = "finalize" => \A s \in Servers : Mine(s) => IF s \in targets THEN On(s) /\ Written(s) ELSE Off(s)

RevertOK ==
  phase = "revert" =>
    /\ OffBut(committed \cup unproved)
    /\ asked \subseteq committed /\ back \subseteq committed /\ failed \subseteq asked
    /\ committed \cap silent = {}
    /\ \A s \in Waiting : s \in Files /\ Restart
    /\ \A s \in back \ asked : Mine(s) => file[s] # change
    /\ \A s \in asked \ failed : Mine(s) => Off(s)
    /\ \A s \in committed \ (asked \cup back) : Mine(s) => Written(s)

IInv == TypeOK /\ PhaseOK /\ CommitOK /\ RestartOK /\ FinalizeOK /\ RevertOK /\ HonestOutcome

=============================================================================
