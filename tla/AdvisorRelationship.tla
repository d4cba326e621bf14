------------------------- MODULE AdvisorRelationship ------------------------
(* The relationship of one adviser with its investors, and the picks feed  *)
(* shared along it (hushh_mcp/services/ria_iam_service.py).                 *)
(*                                                                         *)
(* The consent ledger says what the adviser may read.  The status of the   *)
(* relationship and the share of the adviser's picks are kept in tables of *)
(* their own; they follow the ledger because every handler that writes a   *)
(* row calls sync_relationship_from_consent_action afterwards, in a        *)
(* transaction that reads the ledger and then writes what it computed.     *)
(* Handlers of several processes interleave between those steps.           *)
EXTENDS Integers, FiniteSets

CONSTANTS
    Investors,
    Scopes,      \* scopes of the adviser's templates
    Requests,    \* consent requests the adviser can make
    NoRequest,
    NoInvestor,
    Handlers,    \* requests being served, the time-out job included
    MaxFaults    \* bound on transactions that fail

ASSUME HandlerAssumption == IsFiniteSet(Handlers)
ASSUME NoneAssumption == NoRequest \notin Requests /\ NoInvestor \notin Investors
ASSUME FaultAssumption == MaxFaults \in Nat

VARIABLES
    profile,   \* the adviser's profile exists
    req,       \* the requests, with the newest row that carries their id
    head,      \* newest row of an investor's scope
    grant,     \* newest grant or revocation of an investor's scope
    rel,       \* advisor_investor_relationships
    share,     \* relationship_share_grants: the picks feed
    invite,    \* one row of ria_client_invites; raced: read while being accepted
    run,       \* what each handler is doing
    drift,     \* investors whose status has a reason to differ from the ledger
    faults

vars == <<profile, req, head, grant, rel, share, invite, run, drift, faults>>
ledger == <<req, head, grant>>

Answers == {"CONSENT_GRANTED", "CONSENT_DENIED", "CANCELLED", "REVOKED", "TIMEOUT"}
Row == Answers \cup {"none", "REQUESTED"}
Statuses == {"none", "discovered", "request_pending", "approved", "revoked",
             "expired", "disconnected"}
Closed == {"discovered", "revoked", "expired", "disconnected"}
Shares == {"none", "active", "revoked", "expired"}

Unasked == [inv |-> NoInvestor, scope |-> "none", last |-> "none",
            timedOut |-> FALSE, invited |-> FALSE]
NoGrant == [st |-> "none", req |-> NoRequest]
NoRel == [status |-> "none", last |-> NoRequest]
Idle == [pc |-> "idle", inv |-> NoInvestor, req |-> NoRequest, act |-> "none",
         next |-> "none", cut |-> {}, stale |-> FALSE]

RequestRow == [inv : Investors \cup {NoInvestor}, scope : Scopes \cup {"none"},
               last : Row, timedOut : BOOLEAN, invited : BOOLEAN]
GrantRow == [st : {"none", "active", "revoked", "expired"}, req : Requests \cup {NoRequest}]
RelRow == [status : Statuses, last : Requests \cup {NoRequest}]
InviteRow == [status : {"sent", "accepted", "expired"},
              by : Investors \cup {NoInvestor}, raced : BOOLEAN]
RunRow == [pc : {"idle", "syncing", "writing", "inviting", "accepting",
                 "disconnecting", "sharing", "unsharing"},
           inv : Investors \cup {NoInvestor}, req : Requests \cup {NoRequest},
           act : Answers \cup {"none"}, next : Statuses,
           cut : SUBSET Scopes,   \* the scopes a disconnection found active
           stale : BOOLEAN]       \* what the handler read was overtaken

(* Every table keeps to the values its CHECK constraints allow, and every  *)
(* handler to the steps of its call.                                       *)
TypeOK ==
    /\ profile \in BOOLEAN
    /\ req \in [Requests -> RequestRow]
    /\ head \in [Investors -> [Scopes -> Row]]
    /\ grant \in [Investors -> [Scopes -> GrantRow]]
    /\ rel \in [Investors -> RelRow]
    /\ share \in [Investors -> Shares]
    /\ invite \in InviteRow
    /\ run \in [Handlers -> RunRow]
    /\ drift \in SUBSET Investors
    /\ faults \in 0..MaxFaults

Init ==
    /\ profile = TRUE
    /\ req = [r \in Requests |-> Unasked]
    /\ head = [i \in Investors |-> [s \in Scopes |-> "none"]]
    /\ grant = [i \in Investors |-> [s \in Scopes |-> NoGrant]]
    /\ rel = [i \in Investors |-> NoRel]
    /\ share = [i \in Investors |-> "none"]
    /\ invite = [status |-> "sent", by |-> NoInvestor, raced |-> FALSE]
    /\ run = [h \in Handlers |-> Idle]
    /\ drift = {}
    /\ faults = 0

ActiveScopes(i) == {s \in Scopes : grant[i][s].st = "active"}

-----------------------------------------------------------------------------
(* Writing the ledger.  A handler that has read tables and not yet written *)
(* its result is overtaken when another handler writes what it read: a     *)
(* synchronisation by any row of the investor, a disconnection by a grant, *)
(* the switching on of the share by the closing of the relationship.       *)

RunMoves(h, state) == run' = [run EXCEPT ![h] = state]
Overtaken(i, steps) ==
    [h \in Handlers |-> IF run[h].pc \in steps /\ run[h].inv = i
                          THEN [run[h] EXCEPT !.stale = TRUE] ELSE run[h]]
Stales(i) == Overtaken(i, {"writing"})

(* One row of request r, followed by the call to the synchronisation. *)
Insert(h, r, s, act) ==
    LET i == req[r].inv
    IN  /\ req' = [req EXCEPT ![r].last = act,
                              ![r].timedOut = @ \/ act = "TIMEOUT"]
        /\ head' = [head EXCEPT ![i][s] = act]
        /\ grant' = CASE act = "CONSENT_GRANTED" ->
                           [grant EXCEPT ![i][s] = [st |-> "active", req |-> r]]
                      [] act = "REVOKED" -> [grant EXCEPT ![i][s].st = "revoked"]
                      [] OTHER -> grant
        /\ run' = [Overtaken(i, IF act = "CONSENT_GRANTED" THEN {"writing", "disconnecting"}
                                ELSE {"writing"})
                     EXCEPT ![h] = [Idle EXCEPT !.pc = "syncing", !.inv = i, !.req = r, !.act = act]]
        /\ UNCHANGED <<profile, rel, share, invite, drift, faults>>

(* approve_consent, deny_consent, cancel_consent: of a pending request. *)
Answer(h, r, act) ==
    /\ run[h].pc = "idle"
    /\ req[r].last = "REQUESTED"
    /\ act \in {"CONSENT_GRANTED", "CONSENT_DENIED", "CANCELLED"}
    /\ Insert(h, r, req[r].scope, act)

(* revoke_consent: the row carries the request the grant came from. *)
Revoke(h, i, s) ==
    /\ run[h].pc = "idle"
    /\ s \in ActiveScopes(i)
    /\ Insert(h, grant[i][s].req, s, "REVOKED")

(* emit_timeout_events: once per request whose deadline has passed,        *)
(* whether or not it was answered.                                         *)
TimeOut(h, r) ==
    /\ run[h].pc = "idle"
    /\ req[r].inv # NoInvestor /\ ~req[r].timedOut
    /\ Insert(h, r, req[r].scope, "TIMEOUT")

(* A granted token reaches its expiry: no row, and no event. *)
Expire(i, s) ==
    /\ s \in ActiveScopes(i)
    /\ grant' = [grant EXCEPT ![i][s].st = "expired"]
    /\ run' = Stales(i)
    /\ drift' = drift \cup {i}
    /\ UNCHANGED <<profile, req, head, rel, share, invite, faults>>

-----------------------------------------------------------------------------
(* sync_relationship_from_consent_action *)

(* _materialize_relationship_share_grant *)
Materialize(i) == share' = [share EXCEPT ![i] = "active"]
(* Mutant: a share that timed out is left as it is. *)
EndShareRevoked(i, status) ==
    share' = [share EXCEPT ![i] = IF @ = "none" \/ status = "expired" THEN @ ELSE status]

(* _revoke_relationship_share_grant: nothing to do when there is none. *)
EndShare(i, status) == share' = [share EXCEPT ![i] = IF @ = "none" THEN @ ELSE status]

(* Mutant: the status follows the event instead of the ledger. *)
NextStatusOfEvent(i, act) ==
    CASE act = "CONSENT_GRANTED" -> "approved"
      [] act = "REVOKED" -> "revoked"
      [] act = "TIMEOUT" -> "expired"
      [] OTHER -> "discovered"

(* Mutant: an action without a status of its own is stored as it is. *)
NextStatusRaw(i, act) ==
    IF ActiveScopes(i) # {} THEN "approved"
    ELSE IF \E s \in Scopes : head[i][s] = "REQUESTED" THEN "request_pending"
    ELSE IF act = "TIMEOUT" THEN "expired" ELSE act

(* The status computed from the investor's ledger after an event. *)
NextStatus(i, act) ==
    IF ActiveScopes(i) # {} THEN "approved"
    ELSE IF \E s \in Scopes : head[i][s] = "REQUESTED" THEN "request_pending"
    ELSE CASE act = "REVOKED" -> "revoked"
           [] act = "TIMEOUT" -> "expired"
           [] OTHER -> "discovered"

(* The reads: only an event of the relationship's last request counts, the *)
(* handlers of other events return here.                                   *)
SyncRead(h) ==
    LET i == run[h].inv
    IN  /\ run[h].pc = "syncing"
        /\ IF rel[i].last = run[h].req
             THEN /\ RunMoves(h, [run[h] EXCEPT !.pc = "writing",
                                                !.next = NextStatus(i, run[h].act)])
                  /\ UNCHANGED drift
             ELSE RunMoves(h, Idle) /\ drift' = drift \cup {i}
        /\ UNCHANGED <<profile, ledger, rel, share, invite, faults>>

(* The writes, in the same transaction: status and share. *)
SyncWrite(h) ==
    LET i == run[h].inv
        act == run[h].act
    IN  /\ run[h].pc = "writing"
        /\ IF rel[i].status = "none" THEN UNCHANGED <<rel, share>>
           ELSE /\ rel' = [rel EXCEPT ![i].status = run[h].next]
                /\ CASE act = "CONSENT_GRANTED" -> Materialize(i)
                     [] act = "TIMEOUT" -> EndShare(i, "expired")
                     [] OTHER -> EndShare(i, "revoked")
        /\ drift' = IF run[h].stale \/ (act = "CONSENT_GRANTED" /\ run[h].next # "approved")
                      THEN drift \cup {i} ELSE drift \ {i}
        /\ run' = [Overtaken(i, IF run[h].next \in Closed THEN {"sharing"} ELSE {})
                     EXCEPT ![h] = Idle]
        /\ UNCHANGED <<profile, ledger, invite, faults>>

(* The synchronisation raises: logged, and the consent stands. *)
SyncFails(h) ==
    /\ run[h].pc \in {"syncing", "writing"}
    /\ faults < MaxFaults
    /\ faults' = faults + 1
    /\ drift' = drift \cup {run[h].inv}
    /\ RunMoves(h, Idle)
    /\ UNCHANGED <<profile, ledger, rel, share, invite>>

-----------------------------------------------------------------------------
(* The adviser's side. *)

(* create_ria_consent_bundle and create_ria_consent_request: the rows and  *)
(* the relationship in one transaction (a unique index turns a racing      *)
(* second row into a failure).  The last request of a bundle is the one    *)
(* the relationship remembers.                                             *)
Create(i, asked, invited) ==
    /\ profile
    /\ req' = [r \in Requests |->
                 IF r \in DOMAIN asked
                   THEN [inv |-> i, scope |-> asked[r], last |-> "REQUESTED",
                         timedOut |-> FALSE, invited |-> invited]
                   ELSE req[r]]
    /\ head' = [head EXCEPT ![i] =
                  [s \in Scopes |-> IF \E r \in DOMAIN asked : asked[r] = s
                                      THEN "REQUESTED" ELSE @[s]]]
    /\ \E r \in DOMAIN asked : rel' = [rel EXCEPT ![i] = [status |-> "request_pending",
                                                          last |-> r]]
    /\ UNCHANGED <<profile, grant, share, invite, faults>>

Fresh(r) == req[r] = Unasked

(* One scope, or a bundle of two. *)
Ask(i) ==
    /\ \E r1, r2 \in Requests, s1, s2 \in Scopes :
        /\ Fresh(r1) /\ Fresh(r2)
        /\ r1 = r2 <=> s1 = s2
        /\ Create(i, [r \in {r1, r2} |-> IF r = r1 THEN s1 ELSE s2], FALSE)
    /\ run' = Stales(i)
    /\ UNCHANGED drift

(* disconnect_relationship, by either side.  It reads the relationship and *)
(* the scopes that are active, with no lock on either. *)
DisconnectRead(h, i) ==
    /\ run[h].pc = "idle"
    /\ rel[i].status # "none"
    /\ RunMoves(h, [Idle EXCEPT !.pc = "disconnecting", !.inv = i, !.req = rel[i].last,
                                !.cut = ActiveScopes(i)])
    /\ UNCHANGED <<profile, ledger, rel, share, invite, drift, faults>>

(* The scopes it had read are revoked, in rows that carry the request the  *)
(* relationship had then; a pending request of another id stays pending.   *)
RevokeScopes(i, cut, last) ==
    /\ req' = IF cut = {} THEN req ELSE [req EXCEPT ![last].last = "REVOKED"]
    /\ head' = [head EXCEPT ![i] = [s \in Scopes |-> IF s \in cut THEN "REVOKED" ELSE @[s]]]
    /\ grant' = [grant EXCEPT ![i] = [s \in Scopes |-> IF s \in cut
                                        THEN [@[s] EXCEPT !.st = "revoked"] ELSE @[s]]]

(* The status is set whatever it has become since, in the transaction that *)
(* read it; a relationship that is gone is updated by neither statement.   *)
DisconnectWrite(h) ==
    LET i == run[h].inv
    IN  /\ run[h].pc = "disconnecting"
        /\ RevokeScopes(i, run[h].cut, run[h].req)
        /\ IF rel[i].status = "none" THEN UNCHANGED <<rel, share>>
           ELSE rel' = [rel EXCEPT ![i].status = "disconnected"] /\ EndShare(i, "revoked")
        /\ run' = [Overtaken(i, {"writing", "sharing"}) EXCEPT ![h] = Idle]
        /\ drift' = IF run[h].stale THEN drift \cup {i} ELSE drift \ {i}
        /\ UNCHANGED <<profile, invite, faults>>

(* set_ria_pick_share_state: only an approved relationship passes; its     *)
(* status is read without a lock. *)
SetPickShareRead(h, i, enabled) ==
    /\ run[h].pc = "idle"
    /\ profile /\ rel[i].status = "approved"
    /\ RunMoves(h, [Idle EXCEPT !.pc = IF enabled THEN "sharing" ELSE "unsharing", !.inv = i])
    /\ UNCHANGED <<profile, ledger, rel, share, invite, drift, faults>>

(* The share is then written whatever the status has become.  Without the  *)
(* relationship the insertion breaks its foreign key and nothing is done.  *)
SetPickShareWrite(h) ==
    LET i == run[h].inv
    IN  /\ run[h].pc \in {"sharing", "unsharing"}
        /\ IF rel[i].status = "none" THEN UNCHANGED share
           ELSE IF run[h].pc = "sharing" THEN Materialize(i) ELSE EndShare(i, "revoked")
        /\ drift' = IF run[h].pc = "sharing" /\ run[h].stale /\ rel[i].status \in Closed
                      THEN drift \cup {i} ELSE drift
        /\ RunMoves(h, Idle)
        /\ UNCHANGED <<profile, ledger, rel, invite, faults>>

(* delete_ria_self_profile: revokes for the relationships that look alive; *)
(* all of them, their shares and the invite go with the profile.           *)
DeleteProfile ==
    LET alive == {i \in Investors : rel[i].status \in {"approved", "request_pending"}}
        cut == [i \in Investors |-> IF i \in alive THEN ActiveScopes(i) ELSE {}]
    IN  /\ profile
        /\ profile' = FALSE
        /\ req' = [r \in Requests |->
                     IF \E i \in alive : cut[i] # {} /\ rel[i].last = r
                       THEN [req[r] EXCEPT !.last = "REVOKED"] ELSE req[r]]
        /\ head' = [i \in Investors |-> [s \in Scopes |->
                     IF s \in cut[i] THEN "REVOKED" ELSE head[i][s]]]
        /\ grant' = [i \in Investors |-> [s \in Scopes |->
                      IF s \in cut[i] THEN [grant[i][s] EXCEPT !.st = "revoked"]
                      ELSE grant[i][s]]]
        /\ rel' = [i \in Investors |-> NoRel]
        /\ share' = [i \in Investors |-> "none"]
        /\ invite' = [invite EXCEPT !.status = "expired"]
        /\ UNCHANGED <<run, drift, faults>>

-----------------------------------------------------------------------------
(* accept_ria_invite: three transactions. *)

(* get_ria_invite: an invite past its date is marked on reading it; an     *)
(* accepted one is refused, or answered with the request it led to.        *)
InviteExpires == /\ invite.status = "sent"
                 /\ invite' = [invite EXCEPT !.status = "expired"]
                 /\ UNCHANGED <<profile, ledger, rel, share, run, drift, faults>>

Accepting == {h \in Handlers : run[h].pc \in {"inviting", "accepting"}}

BeginAccept(h, i) ==
    /\ RunMoves(h, [Idle EXCEPT !.pc = "inviting", !.inv = i])
    /\ invite' = [invite EXCEPT !.raced = @ \/ Accepting # {}]
    /\ UNCHANGED <<profile, ledger, rel, share, drift, faults>>

(* Mutant: an invite that is taken is offered again. *)
InviteReadAny(h, i) ==
    /\ run[h].pc = "idle"
    /\ invite.status # "expired"
    /\ BeginAccept(h, i)

InviteRead(h, i) ==
    /\ run[h].pc = "idle"
    /\ invite.status = "sent"
    /\ BeginAccept(h, i)

InviteAsk(h) ==
    /\ run[h].pc = "inviting"
    /\ \E r \in Requests, s \in Scopes :
        /\ Fresh(r)
        /\ Create(run[h].inv, [q \in {r} |-> s], TRUE)
        /\ run' = [Stales(run[h].inv) EXCEPT ![h] = [run[h] EXCEPT !.pc = "accepting", !.req = r]]
    /\ UNCHANGED drift

(* The invite is taken if nobody took it; the share is made either way. *)
InviteAccept(h) ==
    LET i == run[h].inv
    IN  /\ run[h].pc = "accepting"
        /\ rel[i].status # "none"
        /\ invite' = IF invite.status = "sent"
                       THEN [invite EXCEPT !.status = "accepted", !.by = i] ELSE invite
        /\ Materialize(i)
        /\ drift' = IF rel[i].status \in Closed THEN drift \cup {i} ELSE drift
        /\ RunMoves(h, Idle)
        /\ UNCHANGED <<profile, ledger, rel, faults>>

(* The second or third transaction fails, or finds the profile gone. *)
InviteFails(h) ==
    /\ run[h].pc \in {"inviting", "accepting"}
    /\ \/ ~profile /\ UNCHANGED faults
       \/ faults < MaxFaults /\ faults' = faults + 1
    /\ RunMoves(h, Idle)
    /\ UNCHANGED <<profile, ledger, rel, share, invite, drift>>

-----------------------------------------------------------------------------
Next ==
    \/ \E h \in Handlers :
        \/ \E r \in Requests : TimeOut(h, r) \/ \E act \in Answers : Answer(h, r, act)
        \/ \E i \in Investors : \/ \E s \in Scopes : Revoke(h, i, s)
                                \/ InviteRead(h, i)
                                \/ DisconnectRead(h, i)
                                \/ \E enabled \in BOOLEAN : SetPickShareRead(h, i, enabled)
        \/ DisconnectWrite(h) \/ SetPickShareWrite(h)
        \/ SyncRead(h) \/ SyncWrite(h) \/ SyncFails(h)
        \/ InviteAsk(h) \/ InviteAccept(h) \/ InviteFails(h)
    \/ \E i \in Investors :
        \/ Ask(i)
        \/ \E s \in Scopes : Expire(i, s)
    \/ DeleteProfile \/ InviteExpires

Spec == Init /\ [][Next]_vars

-----------------------------------------------------------------------------
(* Properties *)

Syncing(i) == \E h \in Handlers : run[h].pc \in {"syncing", "writing"} /\ run[h].inv = i

(* With no synchronisation under way, an approved relationship has a grant *)
(* in force and a closed one has none.  The exceptions (drift) are those   *)
(* the code makes: a synchronisation that failed, that wrote what it had   *)
(* read before another row, that came after the grant it is about had      *)
(* ended, or that returned because the event was not of the last request;  *)
(* a disconnection that had read the active scopes before another grant    *)
(* (it writes 'disconnected' over that grant's synchronisation); an invite *)
(* accepted after the relationship was closed, and a share switched on by  *)
(* a handler that had read it approved before it was closed; a token that  *)
(* ran out.  The next complete synchronisation or disconnection repairs    *)
(* them.                                                                   *)
StatusTracksLedger ==
    \A i \in Investors \ drift :
        ~Syncing(i) => /\ rel[i].status = "approved" => ActiveScopes(i) # {}
                       /\ rel[i].status \in Closed => ActiveScopes(i) = {}

(* Outside the same exceptions, the adviser's picks are shared along an    *)
(* open relationship only: revoking, timing out or disconnecting ends the  *)
(* share, and only a handler that had passed its test before can switch it *)
(* on again.                                                               *)
ClosedSharesNothing ==
    \A i \in Investors \ drift : rel[i].status \in Closed \cup {"none"} => share[i] # "active"

(* accept_ria_invite sends one request per invite: two requests come of    *)
(* one invite only if two acceptances overlapped, or one failed between    *)
(* sending the request and recording the acceptance.                       *)
InviteUsedOnce ==
    Cardinality({r \in Requests : req[r].invited}) > 1 => invite.raced \/ faults > 0

-----------------------------------------------------------------------------
(* The inductive invariant behind these properties. *)

Invited == {r \in Requests : req[r].invited}

(* A request that has rows was asked of an investor for a scope; grants in *)
(* force and relationships refer to requests of their own investor.        *)
RowsOfInvestor ==
    /\ \A r \in Requests :
        /\ req[r].last # "none" => req[r].inv \in Investors
        /\ req[r].inv \in Investors => req[r].scope \in Scopes
    /\ \A i \in Investors, s \in Scopes : grant[i][s].st = "active" =>
        grant[i][s].req \in Requests /\ req[grant[i][s].req].inv = i
    /\ \A i \in Investors : rel[i].last \in Requests => req[rel[i].last].inv = i

RunHasInvestor ==
    \A h \in Handlers :
        /\ run[h].pc # "idle" => run[h].inv \in Investors
        /\ run[h].pc = "writing" => run[h].next \notin {"none", "disconnected"}
        /\ run[h].pc = "disconnecting" /\ run[h].req \in Requests =>
             req[run[h].req].inv \in Investors

(* What a synchronisation is about to write is what the ledger says, until *)
(* a row of the investor makes it stale or the profile goes.               *)
WritesWhatIsTrue ==
    \A h \in Handlers :
        (profile /\ run[h].pc = "writing" /\ ~run[h].stale) =>
            (run[h].next = "approved" <=> ActiveScopes(run[h].inv) # {})

(* A disconnection revokes every scope that is active, until one is        *)
(* granted after its read.                                                 *)
CutsWhatIsActive ==
    \A h \in Handlers :
        (run[h].pc = "disconnecting" /\ ~run[h].stale) =>
            ActiveScopes(run[h].inv) \subseteq run[h].cut

(* A share is switched on along an open relationship, until it is closed   *)
(* or gone.                                                                *)
SharesWhileOpen ==
    \A h \in Handlers :
        (profile /\ run[h].pc = "sharing" /\ ~run[h].stale) =>
            rel[run[h].inv].status \notin Closed

(* Without a relationship nothing is shared; without a profile there is no *)
(* relationship, and no invite to accept.                                  *)
NoRelNoShare ==
    /\ \A i \in Investors : rel[i].status = "none" => share[i] # "active"
    /\ ~profile => /\ \A i \in Investors : rel[i].status = "none"
                   /\ invite.status = "expired"

(* While no two acceptances overlapped and none failed, a request comes of *)
(* the invite only from the one acceptance that is under way or was taken. *)
InviteInOneHand ==
    (~invite.raced /\ faults = 0) =>
        /\ \A h, k \in Accepting : h = k
        /\ \A r, q \in Invited : r = q
        /\ (\E h \in Handlers : run[h].pc = "inviting") => Invited = {}
        /\ invite.status = "sent" /\ Accepting = {} => Invited = {}

SafetyInv ==
    /\ TypeOK
    /\ RowsOfInvestor
    /\ RunHasInvestor
    /\ WritesWhatIsTrue
    /\ CutsWhatIsActive
    /\ SharesWhileOpen
    /\ NoRelNoShare
    /\ StatusTracksLedger
    /\ ClosedSharesNothing
    /\ InviteInOneHand
=============================================================================
