--------------------------- MODULE ChangePromise ----------------------------
(***************************************************************************)
(* What a multi-server change promises its caller (TXN-001): it is done on *)
(* every server it was for, or it is done on none, or every server that    *)
(* still carries it is named to a person.  Which of the three is not said  *)
(* before the change is over, and an answer once given only gets truer.    *)
(***************************************************************************)
CONSTANT Servers

VARIABLES
  answer,   \* "none" until the change is over
  whole,    \* the servers the change is for
  carried,  \* the servers that carry it
  named     \* the servers a person is sent to

vars == <<answer, whole, carried, named>>

Init == answer = "none" /\ whole = {} /\ carried = {} /\ named = {}

\* While no answer is given the change may be anywhere.
Work ==
  /\ answer = "none" /\ answer' = "none"
  /\ whole' \in SUBSET Servers /\ carried' \in SUBSET Servers
  /\ named' = {}

Honest(a, all, on, told) ==
  \/ a = "done" /\ on = all /\ told = {}
  \/ a = "notDone" /\ on = {}
  \/ a = "unresolved" /\ on \subseteq told /\ told # {}

Answer ==
  /\ answer = "none"
  /\ whole' = whole /\ carried' = carried /\ named' \in SUBSET Servers
  /\ answer' \in {"done", "notDone", "unresolved"}
  /\ Honest(answer', whole, carried, named')

\* Somebody else's act on a server after the answer is not the change's.
Elsewhere ==
  /\ answer # "none" /\ UNCHANGED <<answer, named>>
  /\ \E s \in Servers : whole' = whole \ {s} /\ carried' = carried \ {s}

\* The next change, or a restart of Jen.
Over == answer' = "none" /\ whole' = {} /\ carried' = {} /\ named' = {}

Next == Work \/ Answer \/ Elsewhere \/ Over

Spec == Init /\ [][Next]_vars
=============================================================================
