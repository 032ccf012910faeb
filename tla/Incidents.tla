----------------------------- MODULE Incidents -----------------------------
(***************************************************************************)
(* The note of unresolved incidents (services/kea_changeset.py): one       *)
(* settings row that every change, restore, import and restart writes      *)
(* after it ended, and that the Servers page and Health show until the     *)
(* trouble is proved over or a person lets go of it.                       *)
(*                                                                         *)
(* Each writer is one transaction under a row lock, so a writer of the     *)
(* note is one action.  What is not one step is "the operation ended" and  *)
(* "its outcome is on the note": the lock of the change is released in     *)
(* between, so other operations end, and are recorded, meanwhile.          *)
(***************************************************************************)
EXTENDS Naturals, FiniteSets

CONSTANTS
  Servers,        \* the ids of the configured Kea servers
  Services,       \* kea daemons: "dhcp4", "dhcp6"
  Workers,        \* request threads of Jen
  NoOne,          \* nobody holds the change lock
  MaxIncidents,   \* _MAX_INCIDENTS (20): the soft cap of the note
  Ceiling,        \* _INCIDENTS_HARD_CEILING (200)
  Restarts,       \* a subset of BOOLEAN: the `restart` a change is asked with
  MaxOps,         \* bound: operations that end
  MaxFaults,      \* bound: store failures, crashes and unreadable values
  MaxHands        \* bound: what a person does with the note

ASSUME IncidentsAssumption ==
  /\ Restarts \subseteq BOOLEAN
  /\ MaxOps \in Nat /\ MaxFaults \in Nat /\ MaxHands \in Nat
  /\ MaxIncidents \in Nat /\ Ceiling \in Nat
  /\ "dhcp4" \in Services
  /\ NoOne \notin Workers

\* The two categories of the attention incidents a configuration write leaves
\* (ATTENTION_CATEGORIES has eleven more, all of certificates and sockets).
Unverified == "config-api-unverified"
RestartFailed == "config-restart-failed"
Categories == {Unverified, RestartFailed}
Statuses == {"rolled_back", "rollback_failed"} \union Categories

\* An incident as Jen stores it; `at` orders the list, oldest first.
Incident == [status : Statuses, service : Services,
             servers : SUBSET Servers, at : Nat]

\* What may be wrong with a daemon that nobody has proved right since.
Trouble == [what : {"rollback_failed"} \union Categories,
            service : Services, server : Servers]

\* The operations whose ending is written on the note.
Routes == {"change", "restore_api", "restore_file", "import_file", "restart"}

\* What such an operation ended with.  `servers` is what a clean run covered,
\* or what a failed one leaves for a person (needs_hands_ids); `proved` says
\* whether a clean run restarted (or, over the API, asked) each of them.
Result == [route : Routes, service : Services, servers : SUBSET Servers,
           status : {"ok"} \union Statuses, proved : BOOLEAN]

NoResult == [route |-> "change", service |-> "dhcp4", servers |-> {},
             status |-> "ok", proved |-> FALSE]

VARIABLES
  note,     \* the incidents on the note, when its text reads as a note
  text,     \* 0, or the unreadable value the row holds
  copies,   \* unreadable values kept under a key of their own
  pc,       \* [Workers -> ...]: where each request is
  result,   \* [Workers -> Result]: what its operation ended with
  held,     \* [Workers -> Nat]: the value a set-aside read
  lock,     \* the worker that holds the change lock while it records
  owed,     \* history: the trouble no later operation has proved over
  excused,  \* history: of it, what a person was told of or let go
  late,     \* history: of it, what a clean run took off without proving it
  clock, ops, faults, hands

vars == <<note, text, copies, pc, result, held, lock, owed, excused, late,
          clock, ops, faults, hands>>
history == <<owed, excused, late>>
requests == <<pc, result, held, lock>>

-----------------------------------------------------------------------------
(* The incidents of a note and the trouble they show.                      *)

IsAttention(i) == i.status \in Categories

Shows(i, o) == /\ i.status = o.what
               /\ i.service = o.service
               /\ o.server \in i.servers

OnRecord(n, o) == \E i \in n : Shows(i, o)

\* The trouble an operation left.
Leaves(r) ==
  IF r.status \in {"ok", "rolled_back"} THEN {}
  ELSE {o \in Trouble : /\ o.what = r.status
                        /\ o.service = r.service
                        /\ o.server \in r.servers}

\* The categories a verified operation of a route ends (resolve_attention).
Resolves(route) ==
  {c \in Categories : \/ route = "restore_api"
                      \/ route # "change" /\ c = RestartFailed}

\* The trouble a clean operation speaks of: that of its daemons, of its kind.
Claims(r) ==
  IF r.status # "ok" THEN {}
  ELSE {o \in Trouble :
          /\ o.service = r.service
          /\ o.server \in r.servers
          /\ o.what \in IF r.route = "change" THEN {"rollback_failed"}
                        ELSE Resolves(r.route)}

\* ... and which of it the operation really proved over.
Proves(r) == IF r.proved THEN Claims(r) ELSE {}

-----------------------------------------------------------------------------
(* What each writer makes of the incidents it finds under the row lock.    *)

\* Mutant: an entry the strict reader does not recognize.
EntryOfRoute(r) == [status |-> r.route, service |-> r.service,
                    servers |-> r.servers, at |-> clock]
Entry(r) == [status |-> r.status, service |-> r.service,
             servers |-> IF r.status = "rolled_back" THEN {} ELSE r.servers,
             at |-> clock]

\* The same trouble again refreshes its incident.
SameTrouble(i, j) == /\ i.status = j.status
                     /\ i.service = j.service
                     /\ i.servers = j.servers

Piled(n, e) == n \union {e}   \* mutant: every outcome is one more entry
Refreshed(n, e) == {i \in n : ~ SameTrouble(i, e)} \union {e}

\* Over the soft cap the oldest incidents that say nothing is wrong any more
\* go; one that may mean a stopped daemon never does.
Evictable(n) == {i \in n : i.status # "rollback_failed" /\ ~ IsAttention(i)}

SoftCapped(n) ==
  n \ {i \in Evictable(n) :
         Cardinality({j \in Evictable(n) : j.at < i.at}) + MaxIncidents
           < Cardinality(n)}

\* Over the hard ceiling the newest stay.
HardCapped(n) == {i \in n : Cardinality({j \in n : j.at > i.at}) < Ceiling}

\* Mutant: a clean change of one server speaks for all of its service.
ClearedByService(i, r) ==
  /\ ~ IsAttention(i)
  /\ i.status = "rollback_failed" => i.service = r.service
\* Does a clean change resolve an incident?
Cleared(i, r) ==
  /\ ~ IsAttention(i)
  /\ i.status = "rollback_failed" =>
       i.service = r.service /\ i.servers \subseteq r.servers

OutcomeRecorded(n, r) ==
  IF r.status = "ok" THEN {i \in n : ~ Cleared(i, r)}
  ELSE HardCapped(SoftCapped(Refreshed(n, Entry(r))))

AttentionRecorded(n, r) == Refreshed(n, Entry(r))

AttentionResolved(n, r) ==
  {i \in n : ~ /\ i.status \in Resolves(r.route)
               /\ i.service = r.service
               /\ i.servers \subseteq r.servers}

Recorded(n, r) ==
  IF r.route = "change" THEN OutcomeRecorded(n, r)
  ELSE IF r.status = "ok" THEN AttentionResolved(n, r)
  ELSE AttentionRecorded(n, r)

-----------------------------------------------------------------------------
Init ==
  /\ note = {} /\ text = 0 /\ copies = {}
  /\ pc = [w \in Workers |-> "idle"]
  /\ result = [w \in Workers |-> NoResult]
  /\ held = [w \in Workers |-> 0]
  /\ lock = NoOne
  /\ owed = {} /\ excused = {} /\ late = {}
  /\ clock = 0 /\ ops = 0 /\ faults = 0 /\ hands = 0

\* The operations that run under the change lock, and the one that records
\* before it lets go of it (the restore of a revision into a file).
Locked == {"change", "restore_api", "restore_file"}

\* The outcomes a route can come to that touch the note: a change that was
\* aborted, or an operation that was refused, writes nothing there.
Outcomes ==
  {r \in Result :
     /\ r.servers # {}
     /\ r.route = "change" =>
          /\ r.status \in {"ok", "rolled_back", "rollback_failed"}
          /\ r.status = "rolled_back" => r.servers = Servers
          /\ IF r.status = "ok" THEN r.proved \in Restarts ELSE ~ r.proved
     /\ r.route = "restore_api" => r.status \in {"ok", Unverified}
     /\ r.route \in {"restore_file", "import_file"} =>
          r.status \in {"ok", RestartFailed}
     /\ r.route = "restart" => r.status = "ok"
     /\ r.route # "change" =>
          Cardinality(r.servers) = 1 /\ r.proved = (r.status = "ok")
     /\ r.route \in {"import_file", "restart"} => r.service = "dhcp4"}

\* An operation ends: from here its outcome is decided, and the change lock
\* is released - unless it records first.
Ends(w, r) ==
  /\ pc[w] = "idle" /\ ops < MaxOps
  /\ r.route \in Locked => lock = NoOne
  /\ lock' = IF r.route = "restore_file" THEN w ELSE lock
  /\ pc' = [pc EXCEPT ![w] = "record"]
  /\ result' = [result EXCEPT ![w] = r]
  /\ owed' = (owed \ Proves(r)) \union Leaves(r)
  /\ excused' = (excused \ Proves(r)) \ Leaves(r)
  /\ late' = (late \ Proves(r)) \ Leaves(r)
  /\ ops' = ops + 1
  /\ UNCHANGED <<note, text, copies, held, clock, faults, hands>>

Finished(w) ==
  /\ pc' = [pc EXCEPT ![w] = "idle"]
  /\ result' = [result EXCEPT ![w] = NoResult]
  /\ held' = [held EXCEPT ![w] = 0]
  /\ lock' = IF lock = w THEN NoOne ELSE lock

\* The trouble that was on the note and is not on another.
Lost(n) == {o \in owed : OnRecord(note, o) /\ ~ OnRecord(n, o)}

\* The trouble the hard ceiling takes off (an ERROR in the log says so).
OverCeiling(n, r) ==
  LET listed == SoftCapped(Refreshed(n, Entry(r))) IN
  {o \in owed : r.route = "change" /\ r.status # "ok"
                /\ OnRecord(listed, o) /\ ~ OnRecord(HardCapped(listed), o)}

\* record_outcome, record_attention, resolve_attention: one transaction.
Records(w) ==
  LET r == result[w]  new == Recorded(note, r) IN
  /\ pc[w] = "record" /\ text = 0
  /\ note' = new
  /\ clock' = clock + 1
  /\ late' = late \union (Lost(new) \intersect Claims(r))
  /\ excused' = excused \union OverCeiling(note, r)
  /\ Finished(w)
  /\ UNCHANGED <<text, copies, owed, ops, faults, hands>>

\* A value that is not a note is refused, never written over.
RecordIsRefused(w) ==
  /\ pc[w] = "record" /\ text # 0
  /\ Finished(w)
  /\ UNCHANGED <<note, text, copies, history, clock, ops, faults, hands>>

\* The transaction does not complete: the lines of the request are all there is.
RecordFails(w) ==
  /\ pc[w] = "record" /\ faults < MaxFaults
  /\ excused' = excused \union Leaves(result[w])
  /\ faults' = faults + 1
  /\ Finished(w)
  /\ UNCHANGED <<note, text, copies, owed, late, clock, ops, hands>>

-----------------------------------------------------------------------------
(* What a person does with the note on the Servers page.                   *)

\* The Dismiss button takes off the rollback notes, all of them.
Dismissed(n) == {i \in n : IsAttention(i)}

\* A superadmin acknowledges attention incidents by server, service, category.
Acknowledged(n, servers, services, categories) ==
  {i \in n : ~ /\ i.status \in Categories \intersect categories
               /\ i.service \in services
               /\ i.servers \subseteq servers}

\* None in a filter is "any".
Filter(S) == {{x} : x \in S} \union {S}

LetsGo(new) ==
  /\ text = 0 /\ hands < MaxHands
  /\ new # note
  /\ note' = new
  /\ excused' = excused \union Lost(new)
  /\ hands' = hands + 1
  /\ UNCHANGED <<text, copies, requests, owed, late, clock, ops, faults>>

Dismiss == LetsGo(Dismissed(note))

Acknowledge ==
  \E servers \in Filter(Servers), services \in Filter(Services),
    categories \in Filter(Categories) :
      LetsGo(Acknowledged(note, servers, services, categories))

\* A superadmin sets an unreadable note aside: read it, copy it to a key of
\* its own, and clear it - if it is still the value that was copied.
SetAsideReads(w) ==
  /\ pc[w] = "idle" /\ text # 0 /\ hands < MaxHands
  /\ held' = [held EXCEPT ![w] = text]
  /\ pc' = [pc EXCEPT ![w] = "copy"]
  /\ hands' = hands + 1
  /\ UNCHANGED <<note, text, copies, result, lock, history, clock, ops, faults>>

SetAsideCopies(w) ==
  /\ pc[w] = "copy"
  /\ copies' = copies \union {held[w]}
  /\ pc' = [pc EXCEPT ![w] = "clear"]
  /\ UNCHANGED <<note, text, result, held, lock, history, clock, ops, faults, hands>>

\* What is about to be recorded is not lost with the value that goes.
InFlight(o) == \E w \in Workers : pc[w] = "record" /\ o \in Leaves(result[w])

ClearedAnyway(w) == TRUE   \* mutant: the value is not compared again
MayBeCleared(w) == text = held[w]

SetAsideClears(w) ==
  /\ pc[w] = "clear"
  /\ IF MayBeCleared(w) THEN text' = 0 /\ note' = {}
     ELSE UNCHANGED <<text, note>>
  /\ excused' = IF text # 0 /\ text' = 0
                THEN excused \union {o \in owed : ~ InFlight(o)} ELSE excused
  /\ Finished(w)
  /\ UNCHANGED <<copies, owed, late, clock, ops, faults, hands>>

SetAsideFails(w) ==
  /\ pc[w] \in {"copy", "clear"} /\ faults < MaxFaults
  /\ faults' = faults + 1
  /\ Finished(w)
  /\ UNCHANGED <<note, text, copies, history, clock, ops, hands>>

-----------------------------------------------------------------------------
(* The environment.                                                        *)

\* The row comes to hold a value Jen does not recognize (an edit in the
\* database, a restore, another release): what it listed is in that text.
Garbled ==
  /\ faults < MaxFaults
  /\ text' = faults + 1
  /\ note' = {}
  /\ faults' = faults + 1
  /\ UNCHANGED <<copies, requests, history, clock, ops, hands>>

\* Jen stops and starts again; what was about to be recorded is not.
Crash ==
  /\ faults < MaxFaults
  /\ \E w \in Workers : pc[w] # "idle"
  /\ pc' = [w \in Workers |-> "idle"]
  /\ result' = [w \in Workers |-> NoResult]
  /\ held' = [w \in Workers |-> 0]
  /\ lock' = NoOne
  /\ excused' = excused \union {o \in owed : InFlight(o)}
  /\ faults' = faults + 1
  /\ UNCHANGED <<note, text, copies, owed, late, clock, ops, hands>>

Next ==
  \/ \E w \in Workers : \/ \E r \in Outcomes : Ends(w, r)
                        \/ Records(w) \/ RecordIsRefused(w) \/ RecordFails(w)
                        \/ SetAsideReads(w) \/ SetAsideCopies(w)
                        \/ SetAsideClears(w) \/ SetAsideFails(w)
  \/ Dismiss \/ Acknowledge
  \/ Garbled \/ Crash

Spec == Init /\ [][Next]_vars

-----------------------------------------------------------------------------
(* Properties.                                                             *)

TypeOK ==
  /\ note \subseteq Incident
  /\ text \in Nat
  /\ copies \subseteq Nat
  /\ pc \in [Workers -> {"idle", "record", "copy", "clear"}]
  /\ result \in [Workers -> Result]
  /\ held \in [Workers -> Nat]
  /\ lock \in Workers \union {NoOne}
  /\ owed \subseteq Trouble /\ excused \subseteq Trouble /\ late \subseteq Trouble
  /\ clock \in Nat /\ ops \in Nat /\ faults \in Nat /\ hands \in Nat

\* A person who looks at Servers sees it, or is about to.
Visible(o) == text # 0 \/ OnRecord(note, o) \/ InFlight(o)

\* Trouble that no operation has proved over, and that nobody was told of or
\* let go, is in front of the operator - unless a clean run of the same
\* service that covered the server took it off: a later note, a full list, a
\* change of another daemon, an unreadable value and a second request never
\* do (kea_changeset.py:839-844, 947-968, 1030-1054, 1338-1376).
UnresolvedIsOnRecord ==
  \A o \in owed : o \in excused \/ o \in late \/ Visible(o)

\* The same without the exception: a clean run takes an incident off only
\* because it proves the daemon is running (kea_changeset.py:950-954 "a clean
\* restart of each is proof it is running").
ClearedOnProof == \A o \in owed : o \in excused \/ Visible(o)

\* An unreadable value leaves the row only when a copy of exactly that value
\* is kept (set_aside_unreadable_note, SAFETY_INVARIANTS.md:777).
UnreadableIsKept == [][text # 0 /\ text' = 0 => text \in copies']_vars

\* The list does not pile up: the same trouble has one entry, and the outcomes
\* of changes never pass the hard ceiling (record_outcome, record_attention).
OneEntryPerTrouble == \A i, j \in note : SameTrouble(i, j) => i = j

NoteIsBounded ==
  /\ OneEntryPerTrouble
  /\ Cardinality({i \in note : ~ IsAttention(i)}) <= Ceiling

\* Why these hold: what a request is about to record is an outcome its route
\* can come to, and what a set-aside is about to clear is a value it copied.
RequestsOK ==
  \A w \in Workers :
    /\ pc[w] = "record" => result[w] \in Outcomes
    /\ pc[w] \in {"copy", "clear"} => held[w] # 0
    /\ pc[w] = "clear" => held[w] \in copies

\* Why the ceiling holds: the note is a finite list in which no two entries are
\* of the same time, and none is later than the clock.
NoteInOrder ==
  /\ IsFiniteSet(note)
  /\ \A i \in note : i.at < clock
  /\ \A i, j \in note : i.at = j.at => i = j

IInv == TypeOK /\ RequestsOK /\ NoteIsBounded /\ NoteInOrder /\ UnresolvedIsOnRecord

=============================================================================
