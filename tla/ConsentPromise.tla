--------------------------- MODULE ConsentPromise ---------------------------
(***************************************************************************)
(* What the requests of a lane promise to the app and to the owner,        *)
(* without handlers, locks, scans or rows: a request is settled once and   *)
(* never open again, it lapses only after its deadline, an answer is taken *)
(* only from someone the request was shown to while it was open, a second  *)
(* answer only if it was shown to two at once, and what is in force is     *)
(* what was approved.                                                      *)
(***************************************************************************)
CONSTANTS Requests, NoRequest, Verbs

VARIABLES
    phase,     \* "unasked", "open" or "settled"
    overdue,   \* requests past their deadline
    shown,     \* requests somebody is about to answer
    disputed,  \* requests that were shown to two at once
    verdict,   \* the answers recorded for each request
    inForce    \* the request whose grant is in force

vars == <<phase, overdue, shown, disputed, verdict, inForce>>

Init ==
    /\ phase = [r \in Requests |-> "unasked"]
    /\ overdue = {}
    /\ shown = {}
    /\ disputed = {}
    /\ verdict = [r \in Requests |-> {}]
    /\ inForce = NoRequest

(* The app asks. *)
Ask(r) ==
    /\ phase[r] = "unasked"
    /\ phase' = [phase EXCEPT ![r] = "open"]
    /\ UNCHANGED <<overdue, shown, disputed, verdict, inForce>>

(* The owner opens a request to answer it. *)
Show(r) ==
    /\ phase[r] = "open"
    /\ verdict[r] = {}
    /\ shown' = shown \cup {r}
    /\ disputed' = IF r \in shown THEN disputed \cup {r} ELSE disputed
    /\ UNCHANGED <<phase, overdue, verdict, inForce>>

(* One of those it was shown to is done with it. *)
DoneWith(r) == shown' = shown \ {r} \/ (r \in disputed /\ shown' = shown)

(* The answer is recorded: the only one, or one of a dispute. *)
Decide(r, verb) ==
    /\ r \in shown
    /\ r \notin disputed => verdict[r] = {}
    /\ phase' = [phase EXCEPT ![r] = "settled"]
    /\ verdict' = [verdict EXCEPT ![r] = verdict[r] \cup {verb}]
    /\ inForce' = IF verb = "approve" THEN r ELSE inForce
    /\ DoneWith(r)
    /\ UNCHANGED <<overdue, disputed>>

(* No answer comes of it. *)
Abandon(r) ==
    /\ r \in shown
    /\ shown' = shown \ {r}
    /\ UNCHANGED <<phase, overdue, disputed, verdict, inForce>>

(* The deadline passes, and the request may be settled without an answer. *)
FallDue(r) ==
    /\ phase[r] # "unasked"
    /\ overdue' = overdue \cup {r}
    /\ UNCHANGED <<phase, shown, disputed, verdict, inForce>>

Lapse(r) ==
    /\ r \in overdue
    /\ phase' = [phase EXCEPT ![r] = "settled"]
    /\ UNCHANGED <<overdue, shown, disputed, verdict, inForce>>

(* The grant is revoked or runs out. *)
End ==
    /\ inForce' = NoRequest
    /\ UNCHANGED <<phase, overdue, shown, disputed, verdict>>

Next ==
    \/ \E r \in Requests :
        \/ Ask(r) \/ Show(r) \/ Abandon(r) \/ FallDue(r) \/ Lapse(r)
        \/ \E verb \in Verbs : Decide(r, verb)
    \/ End

Spec == Init /\ [][Next]_vars
=============================================================================
