--------------------------- MODULE LocationSharing --------------------------
(* Live-location shares of one owner                                       *)
(* (hushh_mcp/services/one_location_agent_service.py).                      *)
(*                                                                         *)
(* A share is a row with a deadline; envelopes are stored under it by the  *)
(* owner's devices and read by the recipient.  Every SQL statement commits *)
(* by itself, a handler is a sequence of them, and the handlers of         *)
(* different server processes interleave between statements.               *)
EXTENDS Integers, FiniteSets

CONSTANTS
    Recipients,
    Shares,        \* rows of one_location_share_grants
    Requests,      \* rows of one_location_access_requests
    NoShare, NoRequest, NoRecipient,
    Handlers       \* server processes serving a call

ASSUME NoneAssumption ==
    NoShare \notin Shares /\ NoRequest \notin Requests /\ NoRecipient \notin Recipients

VARIABLES
    keyed,     \* recipients with an active encryption key
    share,     \* the share rows
    req,       \* the access requests
    referral,  \* one_location_referrals: the request and the share it came from
    run,       \* what each handler is doing
    overlap,   \* pairs of shares whose creations overlapped
    cut,       \* requests whose approval failed in its last statement
    servedLate \* shares whose envelope went to a view begun after their end

vars == <<keyed, share, req, referral, run, overlap, cut, servedLate>>
tables == <<keyed, share, req, referral>>
ghosts == <<overlap, cut, servedLate>>

(* "ended" is revoked or expired; nothing in the code tells them apart. *)
ShareStatus == {"none", "active", "ended", "purged"}
RequestStatus == {"none", "pending", "approved", "denied", "purged"}
Pcs == {"idle", "ending", "inserting", "resolving", "storing",
        "viewing", "reading", "asking", "adding", "referring"}

NewShare == [st |-> "none", to |-> NoRecipient, due |-> FALSE, from |-> NoRequest,
             env |-> FALSE]
NewRequest == [st |-> "none", by |-> NoRecipient, ref |-> NoRecipient]
Idle == [pc |-> "idle", s |-> NoShare, r |-> NoRequest, u |-> NoRecipient,
         late |-> FALSE, seen |-> {}]

ShareRow == [st : ShareStatus, to : Recipients \cup {NoRecipient}, due : BOOLEAN,
             from : Requests \cup {NoRequest}, env : BOOLEAN]
RequestRow == [st : RequestStatus, by : Recipients \cup {NoRecipient},
               ref : Recipients \cup {NoRecipient}]
RunRow == [pc : Pcs, s : Shares \cup {NoShare}, r : Requests \cup {NoRequest},
           u : Recipients \cup {NoRecipient}, late : BOOLEAN, seen : SUBSET Shares]

(* Every table keeps to the values its CHECK constraints allow, and every  *)
(* handler to the steps of its call.                                       *)
TypeOK ==
    /\ keyed \in SUBSET Recipients
    /\ share \in [Shares -> ShareRow]
    /\ req \in [Requests -> RequestRow]
    /\ referral \in SUBSET (Requests \X Shares)
    /\ run \in [Handlers -> RunRow]
    /\ overlap \in SUBSET SUBSET Shares
    /\ cut \in SUBSET Requests
    /\ servedLate \in SUBSET Shares

Init ==
    /\ keyed = {}
    /\ share = [s \in Shares |-> NewShare]
    /\ req = [r \in Requests |-> NewRequest]
    /\ referral = {}
    /\ run = [h \in Handlers |-> Idle]
    /\ overlap = {} /\ cut = {} /\ servedLate = {}

ActiveFor(u) == {s \in Shares : share[s].st = "active" /\ share[s].to = u}
Live(s) == share[s].st = "active" /\ ~share[s].due

Goes(h, state) == run' = [run EXCEPT ![h] = state]
At(h, pc) == run[h].pc = pc

-----------------------------------------------------------------------------
(* Time, and the clean-up of _expire_stale_grants *)

Deadline(s) ==
    /\ Live(s)
    /\ share' = [share EXCEPT ![s].due = TRUE]
    /\ UNCHANGED <<keyed, req, referral, run, ghosts>>

(* Mutant: a status the CHECK of the table does not know. *)
EndInactive(row) == [row EXCEPT !.st = "inactive", !.due = FALSE]

(* A share is revoked or expired. *)
End(row) == [row EXCEPT !.st = "ended", !.due = FALSE]

(* _expire_stale_grants ends the user's shares past their deadline, and    *)
(* then calls _purge_terminal_work: the rows among the user's ended shares *)
(* and answered requests that are past the retention period go, shares     *)
(* with their envelopes and the requests they answered, referrals with     *)
(* either.  The age of a row is a choice.                                  *)
Housekeep(mine, asked) ==
    \E gone \in SUBSET {s \in mine : share[s].st = "ended"},
       old \in SUBSET {r \in asked : req[r].st \in {"approved", "denied"}} :
        LET done == old \cup {r \in Requests : req[r].st = "approved"
                                  /\ \E s \in gone : share[s].from = r}
        IN  /\ share' = [s \in Shares |->
                           CASE s \in gone -> [NewShare EXCEPT !.st = "purged", !.to = share[s].to]
                             [] s \in mine /\ share[s].st = "active" /\ share[s].due
                                  -> End(share[s])
                             [] OTHER -> share[s]]
            /\ req' = [r \in Requests |-> IF r \in done
                         THEN [NewRequest EXCEPT !.st = "purged"] ELSE req[r]]
            /\ referral' = {p \in referral : p[1] \notin done /\ p[2] \notin gone}
            /\ UNCHANGED keyed

(* list_state, or the purge endpoint. *)
ListState ==
    /\ Housekeep(Shares, Requests)
    /\ UNCHANGED <<run, ghosts>>

-----------------------------------------------------------------------------
(* register_recipient_key: the other keys are rotated out, which leaves    *)
(* the recipient without one until the second statement writes the new     *)
(* key.  Registering the active key again changes nothing.                 *)

RotateKeys(u) ==
    /\ u \in keyed
    /\ keyed' = keyed \ {u}
    /\ UNCHANGED <<share, req, referral, run, ghosts>>

StoreKey(u) ==
    /\ u \notin keyed
    /\ keyed' = keyed \cup {u}
    /\ UNCHANGED <<share, req, referral, run, ghosts>>

-----------------------------------------------------------------------------
(* create_grant, by the owner or for a request *)

CreateGrant(h, u) ==
    /\ At(h, "idle")
    /\ u \in keyed
    /\ Goes(h, [Idle EXCEPT !.pc = "ending", !.u = u])
    /\ UNCHANGED <<tables, ghosts>>

(* approve_request: reads the pending request, then creates the share. *)
ApproveRead(h, r) ==
    /\ At(h, "idle")
    /\ req[r].st = "pending"
    /\ req[r].by \in keyed
    /\ Goes(h, [Idle EXCEPT !.pc = "ending", !.u = req[r].by, !.r = r])
    /\ UNCHANGED <<tables, ghosts>>

(* Mutant: a share past its deadline is not looked at any more. *)
EndedByNewLive(u) == {s \in ActiveFor(u) : ~share[s].due}

(* The shares a new one replaces. *)
EndedByNew(u) == ActiveFor(u)

EndActive(h) ==
    /\ At(h, "ending")
    /\ share' = [s \in Shares |-> IF s \in EndedByNew(run[h].u)
                   THEN End(share[s]) ELSE share[s]]
    /\ Goes(h, [run[h] EXCEPT !.pc = "inserting"])
    /\ UNCHANGED <<keyed, req, referral, ghosts>>

InsertShare(h, s) ==
    LET u == run[h].u
    IN  /\ At(h, "inserting")
        /\ share[s].st = "none"
        /\ share' = [share EXCEPT ![s] = [NewShare EXCEPT !.st = "active", !.to = u,
                                                          !.from = run[h].r]]
        /\ run' = [k \in Handlers |->
                     IF k = h THEN IF run[h].r = NoRequest THEN Idle
                                   ELSE [run[h] EXCEPT !.pc = "resolving", !.s = s]
                     ELSE IF At(k, "inserting") /\ run[k].u = u
                       THEN [run[k] EXCEPT !.seen = @ \cup {s}] ELSE run[k]]
        /\ overlap' = overlap \cup {{s, t} : t \in run[h].seen}
        /\ UNCHANGED <<keyed, req, referral, cut, servedLate>>

(* Mutant: a request somebody answered meanwhile keeps its answer. *)
ResolvableOnce(r) == req[r].st = "pending"

(* The UPDATE of approve_request names the row and nothing else. *)
Resolvable(r) == req[r].st \notin {"none", "purged"}

(* The last statement of approve_request; it fails when the share it       *)
(* refers to is gone.                                                      *)
ApproveResolve(h) ==
    LET r == run[h].r
    IN  /\ At(h, "resolving")
        /\ req' = IF Resolvable(r) /\ share[run[h].s].st # "purged"
                    THEN [req EXCEPT ![r].st = "approved"] ELSE req
        /\ Goes(h, Idle)
        /\ UNCHANGED <<keyed, share, referral, ghosts>>

DenyRequest(r) ==
    /\ req[r].st = "pending"
    /\ req' = [req EXCEPT ![r].st = "denied"]
    /\ UNCHANGED <<keyed, share, referral, run, ghosts>>

(* revoke_grant, by the owner or the recipient. *)
RevokeGrant(s) ==
    /\ share[s].st = "active"
    /\ share' = [share EXCEPT ![s] = End(@)]
    /\ UNCHANGED <<keyed, req, referral, run, ghosts>>

-----------------------------------------------------------------------------
(* store_encrypted_envelope *)

StoreRead(h, s) ==
    /\ At(h, "idle")
    /\ share[s].st = "active"
    /\ IF share[s].due
         THEN Housekeep(Shares, Requests) /\ UNCHANGED run
         ELSE /\ Goes(h, [Idle EXCEPT !.pc = "storing", !.s = s])
              /\ UNCHANGED tables
    /\ UNCHANGED <<ghosts>>

(* The envelope refers to the share, so it fails when the share is gone.   *)
(* latest_envelope_id, set next, is only shown: views look for the newest. *)
StoreInsert(h) ==
    LET s == run[h].s
    IN  /\ At(h, "storing")
        /\ share' = [share EXCEPT ![s].env = @ \/ share[s].st # "purged"]
        /\ Goes(h, Idle)
        /\ UNCHANGED <<keyed, req, referral, ghosts>>

-----------------------------------------------------------------------------
(* view_latest_envelope: clean up, read the share, read the envelope *)

(* Mutant: the view trusts the clean-up of other calls. *)
ViewCleanNothing(u) == UNCHANGED tables

ViewClean(u) == Housekeep({s \in Shares : share[s].to = u},
                          {r \in Requests : u \in {req[r].by, req[r].ref}})

ViewBegin(h, s) ==
    /\ At(h, "idle")
    /\ share[s].st \in {"active", "ended"}
    /\ ViewClean(share[s].to)
    /\ Goes(h, [Idle EXCEPT !.pc = "viewing", !.s = s, !.late = ~Live(s)])
    /\ UNCHANGED <<ghosts>>

ViewRead(h) ==
    /\ At(h, "viewing")
    /\ Goes(h, IF share[run[h].s].st = "active" THEN [run[h] EXCEPT !.pc = "reading"] ELSE Idle)
    /\ UNCHANGED <<tables, ghosts>>

ViewServe(h) ==
    LET s == run[h].s
    IN  /\ At(h, "reading")
        /\ servedLate' = IF run[h].late /\ share[s].env
                           THEN servedLate \cup {s} ELSE servedLate
        /\ Goes(h, Idle)
        /\ UNCHANGED <<tables, overlap, cut>>

-----------------------------------------------------------------------------
(* request_access, and refer_recipient which calls it *)

Ask(h, u) ==
    /\ At(h, "idle")
    /\ Goes(h, [Idle EXCEPT !.pc = "asking", !.u = u])
    /\ UNCHANGED <<tables, ghosts>>

ReferRead(h, s, u) ==
    /\ At(h, "idle")
    /\ Live(s) /\ share[s].to # u
    /\ Goes(h, [Idle EXCEPT !.pc = "asking", !.u = u, !.s = s])
    /\ UNCHANGED <<tables, ghosts>>

Referrer(h) == IF run[h].s = NoShare THEN NoRecipient ELSE share[run[h].s].to
Asked(h, r) == IF run[h].s = NoShare THEN Idle
               ELSE [run[h] EXCEPT !.pc = "referring", !.r = r]

AskRead(h) ==
    LET same == {r \in Requests : req[r] = [st |-> "pending", by |-> run[h].u,
                                            ref |-> Referrer(h)]}
    IN  /\ At(h, "asking")
        /\ IF same = {} THEN Goes(h, [run[h] EXCEPT !.pc = "adding"])
           ELSE \E r \in same : Goes(h, Asked(h, r))
        /\ UNCHANGED <<tables, ghosts>>

AskInsert(h, r) ==
    /\ At(h, "adding")
    /\ req[r].st = "none"
    /\ req' = [req EXCEPT ![r] = [st |-> "pending", by |-> run[h].u, ref |-> Referrer(h)]]
    /\ Goes(h, Asked(h, r))
    /\ UNCHANGED <<keyed, share, referral, ghosts>>

(* The referral refers to the share and the request: it fails without them.*)
ReferInsert(h) ==
    /\ At(h, "referring")
    /\ referral' = IF share[run[h].s].st = "purged" \/ req[run[h].r].st = "purged"
                     THEN referral ELSE referral \cup {<<run[h].r, run[h].s>>}
    /\ Goes(h, Idle)
    /\ UNCHANGED <<keyed, share, req, ghosts>>

-----------------------------------------------------------------------------
(* A statement fails or the process dies after another one was committed.  *)
(* A call that has committed nothing yet may as well not have begun.       *)
Fails(h) ==
    /\ run[h].pc \in {"inserting", "resolving", "referring"}
    /\ cut' = IF At(h, "resolving") THEN cut \cup {run[h].r} ELSE cut
    /\ Goes(h, Idle)
    /\ UNCHANGED <<tables, overlap, servedLate>>

-----------------------------------------------------------------------------
Next ==
    \/ \E s \in Shares : Deadline(s) \/ RevokeGrant(s)
    \/ \E r \in Requests : DenyRequest(r)
    \/ \E u \in Recipients : RotateKeys(u) \/ StoreKey(u)
    \/ \E h \in Handlers, u \in Recipients :
        CreateGrant(h, u) \/ Ask(h, u)
    \/ \E h \in Handlers, s \in Shares :
        \/ InsertShare(h, s) \/ StoreRead(h, s) \/ ViewBegin(h, s)
        \/ \E u \in Recipients : ReferRead(h, s, u)
    \/ \E h \in Handlers, r \in Requests : ApproveRead(h, r) \/ AskInsert(h, r)
    \/ \E h \in Handlers :
        \/ EndActive(h) \/ ApproveResolve(h)
        \/ StoreInsert(h) \/ ViewRead(h) \/ ViewServe(h)
        \/ AskRead(h) \/ ReferInsert(h) \/ Fails(h)
    \/ ListState

Spec == Init /\ [][Next]_vars

-----------------------------------------------------------------------------
(* Properties *)

(* create_grant replaces: a recipient holds two active shares only if      *)
(* their creations overlapped, each ending what was active before either   *)
(* was inserted.                                                           *)
SharesReplaced ==
    \A s, t \in Shares :
        (s # t /\ share[s].st = "active" /\ share[t].st = "active"
               /\ share[s].to = share[t].to) => {s, t} \in overlap

(* A share made by approving a request goes with an approved request: not  *)
(* with a pending or denied one, except while the approval is under way or *)
(* when it failed in its last statement.                                   *)
ShareAnswersRequest ==
    \A s \in Shares :
        (share[s].st = "active" /\ share[s].from # NoRequest
           /\ req[share[s].from].st \in {"pending", "denied"}) =>
            \/ share[s].from \in cut
            \/ \E h \in Handlers : At(h, "resolving") /\ run[h].r = share[s].from

(* A view begun after its share was revoked or had passed its deadline     *)
(* returns no envelope, whoever expired, revoked or purged it in between.  *)
LateViewRefused == servedLate = {}

-----------------------------------------------------------------------------
(* The inductive invariant behind these properties. *)

(* Between ending the old shares and inserting the new one, a handler      *)
(* overlaps every creation that makes another share active.                *)
SeenWhileInserting ==
    \A h \in Handlers : At(h, "inserting") => ActiveFor(run[h].u) \subseteq run[h].seen

(* The request of an active share is still to be resolved by the handler   *)
(* that made that very share, or was resolved, or its approval failed.     *)
ShareBeingResolved ==
    \A s \in Shares :
        (share[s].st = "active" /\ share[s].from # NoRequest
           /\ req[share[s].from].st \in {"pending", "denied"}) =>
            \/ share[s].from \in cut
            \/ \E h \in Handlers :
                 /\ At(h, "resolving")
                 /\ run[h].r = share[s].from /\ run[h].s = s

(* Shares and handlers refer to requests that were made. *)
RequestsMade ==
    /\ \A s \in Shares : share[s].from # NoRequest => req[share[s].from].st # "none"
    /\ \A h \in Handlers : run[h].r # NoRequest => req[run[h].r].st # "none"

(* A share that was over when a view began has been ended by the time the  *)
(* view reads it, and no step makes it active again.                       *)
LateViewsFindItEnded ==
    \A h \in Handlers :
        /\ At(h, "viewing") /\ run[h].late => share[run[h].s].st \in {"ended", "purged"}
        /\ At(h, "reading") => ~run[h].late

(* The steps of a call have what they work on. *)
RunHasSubject ==
    \A h \in Handlers :
        /\ run[h].pc \in {"resolving", "storing", "viewing", "reading", "referring"}
             => run[h].s \in Shares
        /\ run[h].pc \in {"resolving", "referring"} => run[h].r \in Requests

SafetyInv ==
    /\ TypeOK
    /\ RunHasSubject
    /\ SeenWhileInserting
    /\ SharesReplaced
    /\ RequestsMade
    /\ ShareBeingResolved
    /\ LateViewsFindItEnded
    /\ LateViewRefused
=============================================================================
