--------------------------- MODULE ConsentTokens ---------------------------
(***************************************************************************)
(* Consent tokens of one owner: the signed tokens, the ledger that says    *)
(* which of them is in force, and the revocation memory of each backend    *)
(* process.                                                                *)
(*                                                                         *)
(* A lane is an (agent_id, scope) pair.  The ledger (consent_audit, and    *)
(* internal_access_events for the owner's own sessions) is append only and *)
(* is read through the latest CONSENT_GRANTED or REVOKED row of a lane, so *)
(* the state keeps that row: head[l].  Rows of a lane are taken to be in   *)
(* the order of their insertion (issued_at is the inserting process's      *)
(* clock; equal or skewed clocks are out of the model).                    *)
(*                                                                         *)
(* A process (gunicorn worker or Cloud Run instance) runs one handler at a *)
(* time between two awaits, and the database client is synchronous, so a   *)
(* process has one handler in progress: run[i].  Each of its steps is one  *)
(* ledger statement or one change of the process's memory; processes       *)
(* interleave between them.  The scope-exposure revocation awaits between  *)
(* tokens: what it has left to do waits in exposure[i].  Time is Expire:   *)
(* a token passes its expires_at.                                          *)
(***************************************************************************)
EXTENDS Naturals

CONSTANTS
    Instances,    \* backend processes
    Lanes,        \* (agent, scope) pairs: one agent's, and the owner's own
    OwnerLane,    \* agent "self", scope vault.owner
    StrictLanes,  \* lanes of developer information requests (attr.* scopes)
    AdvisorLanes, \* lanes of an adviser (agent ria:<profile>)
    Covers,       \* pairs <<l, m>>: the scope of l matches the scope of m
    Tokens,       \* tokens that can be issued
    NoToken,      \* no token yet
    MaxFaults,    \* bound on failed statements and restarts
    MaxWithdrawals \* bound on scope-exposure revocations

ExternalLanes == Lanes \ {OwnerLane}

ASSUME LaneAssumption == /\ OwnerLane \in Lanes
                         /\ StrictLanes \subseteq ExternalLanes
                         /\ AdvisorLanes \subseteq ExternalLanes \ StrictLanes
(* scope_matches is a partial order on the scopes of an agent's lanes. *)
ASSUME CoverAssumption ==
    /\ Covers \subseteq Lanes \X Lanes
    /\ \A l \in Lanes : <<l, l>> \in Covers
    /\ \A l, m \in Lanes : <<l, m>> \in Covers /\ <<m, l>> \in Covers => l = m
    /\ \A l, m, n \in Lanes :
        <<l, m>> \in Covers /\ <<m, n>> \in Covers => <<l, n>> \in Covers
ASSUME TokenAssumption == NoToken \notin Tokens
ASSUME BoundAssumption == MaxFaults \in Nat /\ MaxWithdrawals \in Nat

VARIABLES
    token,     \* the lane signed into each token, and its age
    head,      \* latest CONSENT_GRANTED / REVOKED row of each lane
    revoked,   \* _revoked_tokens of each process
    run,       \* the handler in progress in each process
    exposure,  \* grants a scope-exposure revocation has left to end
    ended,     \* history: tokens whose own lane moved on from them
    late,      \* history: processes about to record a token as granted that
               \* was ended after they read it
    revived,   \* history: ended tokens that such a late record granted again
    shared,    \* history: tokens recorded on a lane that is not their own
    halfway,   \* history: <<i, t>>, a revocation of t failed in i halfway
    refused,   \* history: tokens each process refused since it started
    faults,    \* failed statements and restarts so far
    withdrawals \* scope-exposure revocations so far

ledger == <<head, ended, late, revived, shared>>
memory == <<revoked, refused>>
failures == <<halfway, faults, withdrawals>>
vars == <<token, head, revoked, run, exposure, ended, late, revived, shared,
          halfway, refused, faults, withdrawals>>

Pairs == Lanes \X Tokens
Phases == {"unissued", "live", "expired"}
PCs == {"idle", "checking", "stale", "accepted", "reusing",
        "granting", "superseding", "ending", "recording", "answered",
        "rechecking", "issuing", "loggedout"}

Minted(lane, phase) == [lane |-> lane, phase |-> phase]
Row(action, t) == [action |-> action, token |-> t]
At(pc, lane, t, todo) == [pc |-> pc, lane |-> lane, token |-> t, todo |-> todo]
Idle == At("idle", OwnerLane, NoToken, {})

(* Ledger, memories, tokens and handlers have their types. *)
TypeOK ==
    /\ token \in [Tokens -> [lane : Lanes, phase : Phases]]
    /\ head \in [Lanes -> [action : {"none", "granted", "revoked"},
                           token : Tokens \cup {NoToken}]]
    /\ revoked \in [Instances -> SUBSET Tokens]
    /\ run \in [Instances -> [pc : PCs, lane : Lanes,
                              token : Tokens \cup {NoToken}, todo : SUBSET Pairs]]
    /\ exposure \in [Instances -> SUBSET Pairs]
    /\ ended \in SUBSET Tokens
    /\ late \in SUBSET Instances
    /\ revived \in SUBSET Tokens
    /\ shared \in SUBSET Tokens
    /\ halfway \in SUBSET (Instances \X Tokens)
    /\ refused \in [Instances -> SUBSET Tokens]
    /\ faults \in 0..MaxFaults
    /\ withdrawals \in 0..MaxWithdrawals

Init ==
    /\ token = [t \in Tokens |-> Minted(OwnerLane, "unissued")]
    /\ head = [l \in Lanes |-> Row("none", NoToken)]
    /\ revoked = [i \in Instances |-> {}]
    /\ run = [i \in Instances |-> Idle]
    /\ exposure = [i \in Instances |-> {}]
    /\ ended = {}
    /\ late = {}
    /\ revived = {}
    /\ shared = {}
    /\ halfway = {}
    /\ refused = [i \in Instances |-> {}]
    /\ faults = 0
    /\ withdrawals = 0

-----------------------------------------------------------------------------
(* Reading the ledger. *)

Live(t) == t \in Tokens /\ token[t].phase = "live"

(* The lane is listed by get_active_tokens or get_active_internal_tokens. *)
Active(l) == head[l].action = "granted" /\ Live(head[l].token)

ActiveExternal == {l \in ExternalLanes : Active(l)}
ActiveInternal == {l \in {OwnerLane} : Active(l)}

(* is_token_active for the lane signed into t: its latest row grants t     *)
(* itself, and has not expired.                                            *)
IsTokenActive(t) ==
    /\ Active(token[t].lane)
    /\ head[token[t].lane].token = t

(* Mutant: a narrower grant of the same branch covers the request, too.    *)
CoveringEitherWay(l) ==
    {m \in ActiveExternal : <<m, l>> \in Covers \/ <<l, m>> \in Covers}

(* get_covering_active_tokens: an exact grant is preferred to a broader    *)
(* one; between broader ones the model leaves the choice open.             *)
Covering(l) == {m \in ActiveExternal : <<m, l>> \in Covers}
BestCovering(l) == IF l \in Covering(l) THEN {l} ELSE Covering(l)

(* get_superseded_active_tokens. *)
Superseded(l) == {m \in ActiveExternal : m # l /\ <<l, m>> \in Covers}

Grants(lanes) == {<<l, head[l].token>> : l \in lanes}

-----------------------------------------------------------------------------
(* Writing the ledger: insert_event of a CONSENT_GRANTED or REVOKED row,   *)
(* and what the row does to the tokens of the lane.                        *)

EndedBy(l, t) ==
    {u \in Tokens : u = head[l].token /\ u # t /\ token[u].lane = l}

(* The approvals under way that had read one of the tokens in force. *)
Overtaken(tokens) == {j \in Instances : run[j].pc = "reusing" /\ run[j].token \in tokens}

InsertGranted(i, l, t, lane) ==
    /\ head' = [head EXCEPT ![l] = Row("granted", t)]
    /\ ended' = ended \cup EndedBy(l, t)
    /\ late' = (late \cup Overtaken(EndedBy(l, t))) \ {i}
    /\ revived' = (revived \ EndedBy(l, t))
                    \cup (IF lane = l /\ t \in ended /\ i \in late THEN {t} ELSE {})
    /\ shared' = IF lane = l THEN shared ELSE shared \cup {t}

RevokedEnds(tokens) ==
    /\ ended' = ended \cup tokens
    /\ late' = late \cup Overtaken(tokens)
    /\ revived' = revived \ tokens
    /\ UNCHANGED shared

(* Mutant: the row says superseded, a word the readers do not know. *)
InsertRevokedSuperseded(l) ==
    /\ head' = [head EXCEPT ![l] = Row("superseded", NoToken)]
    /\ RevokedEnds(EndedBy(l, NoToken))

InsertRevoked(l) ==
    /\ head' = [head EXCEPT ![l] = Row("revoked", NoToken)]
    /\ RevokedEnds(EndedBy(l, NoToken))

RunMoves(i, row) == run' = [run EXCEPT ![i] = row]
Free(i) == run[i].pc = "idle"

(* revoke_token, and the cache write of validate_token_with_db. *)
Remember(i, t) ==
    /\ revoked' = [revoked EXCEPT ![i] = revoked[i] \cup {t}]
    /\ refused' = [refused EXCEPT ![i] = refused[i] \cup {t}]

Signed(t, lane) == token' = [token EXCEPT ![t] = Minted(lane, "live")]

-----------------------------------------------------------------------------
(* Validation. *)

(* validate_token: memory, signature, expiry.  A token in memory or past   *)
(* its expiry is refused here and nothing changes; the synchronous tools   *)
(* and operons ask nothing more.                                           *)
PassesMemory(i, t) == Live(t) /\ t \notin revoked[i]

(* validate_token_with_db: the memory first ... *)
ValidateStart(i, t) ==
    /\ Free(i)
    /\ PassesMemory(i, t)
    /\ RunMoves(i, At("checking", token[t].lane, t, {}))
    /\ UNCHANGED <<token, memory, exposure, failures, ledger>>

(* ... then the ledger ... *)
ValidateLedger(i) ==
    LET t == run[i].token
    IN  /\ run[i].pc = "checking"
        /\ RunMoves(i, At(IF IsTokenActive(t) THEN "accepted" ELSE "stale",
                          run[i].lane, t, {}))
        /\ UNCHANGED <<token, memory, exposure, failures, ledger>>

(* ... and a token the ledger does not list is remembered as revoked. *)
ValidateRefuse(i) ==
    /\ run[i].pc = "stale"
    /\ Remember(i, run[i].token)
    /\ RunMoves(i, Idle)
    /\ UNCHANGED <<token, exposure, failures, ledger>>

(* Mutant: every token is let through while the database is down. *)
ValidateOutageOpen(i) ==
    /\ run[i].pc = "checking"
    /\ RunMoves(i, At("accepted", run[i].lane, run[i].token, {}))
    /\ UNCHANGED <<token, memory, exposure, failures, ledger>>

(* The ledger cannot be read: the owner's own token passes, any other is   *)
(* refused but not remembered.                                             *)
ValidateOutage(i) ==
    /\ run[i].pc = "checking"
    /\ RunMoves(i, IF run[i].lane = OwnerLane
                     THEN At("accepted", run[i].lane, run[i].token, {})
                     ELSE Idle)
    /\ UNCHANGED <<token, memory, exposure, failures, ledger>>

(* The handler answers and the process is free again. *)
Finish(i) ==
    /\ run[i].pc \in {"accepted", "answered", "loggedout"}
    /\ RunMoves(i, Idle)
    /\ UNCHANGED <<token, memory, exposure, failures, ledger>>

-----------------------------------------------------------------------------
(* approve_consent. *)

(* Mutant: a broader token is reused for developer requests as well. *)
ReusableSuperset(l, m) == TRUE

(* Developer information requests never reuse a broader token. *)
Reusable(l, m) == l \in StrictLanes => m = l

(* find_covering_active_token, and the tests on what it found. *)
ApproveReuse(i, l) ==
    /\ Free(i)
    /\ \E m \in BestCovering(l) :
        /\ Reusable(l, m)
        /\ RunMoves(i, At("reusing", l, head[m].token, {}))
    /\ UNCHANGED <<token, memory, exposure, failures, ledger>>

(* Nothing covers the request, or (developer requests) what covers it is   *)
(* broader or its export is stale or bound to another key.                 *)
ApproveNew(i, l) ==
    /\ Free(i)
    /\ Covering(l) = {} \/ l \in StrictLanes
    /\ RunMoves(i, At("granting", l, NoToken, {}))
    /\ UNCHANGED <<token, memory, exposure, failures, ledger>>

(* The token found is recorded as granted on the lane of the request. *)
RecordReuse(i) ==
    /\ run[i].pc = "reusing"
    /\ InsertGranted(i, run[i].lane, run[i].token, token[run[i].token].lane)
    /\ RunMoves(i, Idle)
    /\ UNCHANGED <<token, memory, exposure, failures>>

(* issue_token, store_consent_export, CONSENT_GRANTED: the token leaves    *)
(* the process only after its row is written.                              *)
RecordGrant(i) ==
    /\ run[i].pc = "granting"
    /\ \E t \in Tokens :
        /\ token[t].phase = "unissued"
        /\ Signed(t, run[i].lane)
        /\ InsertGranted(i, run[i].lane, t, run[i].lane)
        /\ RunMoves(i, At("superseding", run[i].lane, t, {}))
    /\ UNCHANGED <<memory, exposure, failures>>

(* The narrower grants of the app that the new one replaces. *)
ReadSuperseded(i) ==
    LET todo == Grants(Superseded(run[i].lane))
    IN  /\ run[i].pc = "superseding"
        /\ RunMoves(i, IF todo = {} THEN Idle
                       ELSE At("ending", OwnerLane, NoToken, todo))
        /\ UNCHANGED <<token, memory, exposure, failures, ledger>>

-----------------------------------------------------------------------------
(* Ending grants. *)

(* revoke_consent, and invalidate_legacy_active_token: a listed grant is   *)
(* picked by its scope; the owner's own grants are listed too.             *)
Revoke(i, l) ==
    /\ Free(i)
    /\ l \in ActiveExternal \cup ActiveInternal
    /\ RunMoves(i, At("ending", OwnerLane, NoToken, Grants({l})))
    /\ UNCHANGED <<token, memory, exposure, failures, ledger>>

(* One grant at a time: first the memory of this process ... *)
EndInMemory(i) ==
    /\ run[i].pc = "ending"
    /\ \E p \in run[i].todo :
        /\ Remember(i, p[2])
        /\ RunMoves(i, At("recording", p[1], p[2], run[i].todo \ {p}))
    /\ UNCHANGED <<token, exposure, failures, ledger>>

(* Mutant: the REVOKED row is not written. *)
EndUnrecorded(i) ==
    /\ run[i].pc = "recording"
    /\ RunMoves(i, IF run[i].todo = {}
                     THEN At("answered", run[i].lane, run[i].token, {})
                     ELSE At("ending", OwnerLane, NoToken, run[i].todo))
    /\ UNCHANGED <<token, memory, exposure, failures, ledger>>

(* ... then (its export deleted) the REVOKED row. *)
EndInLedger(i) ==
    /\ run[i].pc = "recording"
    /\ InsertRevoked(run[i].lane)
    /\ RunMoves(i, IF run[i].todo = {}
                     THEN At("answered", run[i].lane, run[i].token, {})
                     ELSE At("ending", OwnerLane, NoToken, run[i].todo))
    /\ UNCHANGED <<token, memory, exposure, failures>>

Overlaps(l, d) == <<l, d>> \in Covers \/ <<d, l>> \in Covers

(* _revoke_scope_access_tokens after the owner withdrew the scope of d:    *)
(* the grants that overlap it, external and internal - but each token id   *)
(* once, whatever number of lanes it is recorded on.                       *)
WithdrawScope(i, d) ==
    LET hit == {l \in ActiveExternal \cup ActiveInternal : Overlaps(l, d)}
    IN  /\ Free(i)
        /\ exposure[i] = {}
        /\ withdrawals < MaxWithdrawals
        /\ withdrawals' = withdrawals + 1
        /\ \E kept \in SUBSET hit :
            /\ \A l \in hit : \E m \in kept : head[m].token = head[l].token
            /\ \A l, m \in kept : head[l].token = head[m].token => l = m
            /\ exposure' = [exposure EXCEPT ![i] = Grants(kept)]
        /\ UNCHANGED <<token, memory, run, halfway, faults, ledger>>

WithdrawNext(i) ==
    /\ Free(i)
    /\ \E p \in exposure[i] :
        /\ exposure' = [exposure EXCEPT ![i] = exposure[i] \ {p}]
        /\ RunMoves(i, At("ending", OwnerLane, NoToken, {p}))
    /\ UNCHANGED <<token, memory, failures, ledger>>

(* Disconnect of an adviser, or deletion of its profile: one transaction   *)
(* writes REVOKED on every active lane of the agent; no memory is told.    *)
Disconnect ==
    LET hit == ActiveExternal \cap AdvisorLanes
    IN  /\ hit # {}
        /\ head' = [l \in Lanes |-> IF l \in hit THEN Row("revoked", NoToken)
                                                ELSE head[l]]
        /\ RevokedEnds(UNION {EndedBy(l, NoToken) : l \in hit})
        /\ UNCHANGED <<token, memory, run, exposure, failures>>

-----------------------------------------------------------------------------
(* The owner's own session. *)

(* issue_vault_owner_token: the listed token with an hour left is checked  *)
(* again ...                                                               *)
OwnerReuse(i) ==
    /\ Free(i)
    /\ Active(OwnerLane)
    /\ RunMoves(i, At("rechecking", OwnerLane, head[OwnerLane].token, {}))
    /\ UNCHANGED <<token, memory, exposure, failures, ledger>>

(* ... by validate_token_with_db: returned if valid, else a new one. *)
OwnerRecheck(i) ==
    LET t == run[i].token
    IN  /\ run[i].pc = "rechecking"
        /\ IF PassesMemory(i, t) /\ ~IsTokenActive(t)
             THEN Remember(i, t)
             ELSE UNCHANGED memory
        /\ RunMoves(i, IF PassesMemory(i, t) /\ IsTokenActive(t)
                         THEN Idle
                         ELSE At("issuing", OwnerLane, NoToken, {}))
        /\ UNCHANGED <<token, exposure, failures, ledger>>

(* The recheck cannot read the ledger: the owner's token passes on memory. *)
OwnerRecheckOutage(i) ==
    /\ run[i].pc = "rechecking"
    /\ PassesMemory(i, run[i].token)
    /\ RunMoves(i, Idle)
    /\ UNCHANGED <<token, memory, exposure, failures, ledger>>

(* No listed token, or less than an hour left. *)
OwnerNew(i) ==
    /\ Free(i)
    /\ RunMoves(i, At("issuing", OwnerLane, NoToken, {}))
    /\ UNCHANGED <<token, memory, exposure, failures, ledger>>

OwnerRecord(i) ==
    /\ run[i].pc = "issuing"
    /\ \E t \in Tokens :
        /\ token[t].phase = "unissued"
        /\ Signed(t, OwnerLane)
        /\ InsertGranted(i, OwnerLane, t, OwnerLane)
    /\ RunMoves(i, Idle)
    /\ UNCHANGED <<memory, exposure, failures>>

(* issue_session_token: signed, handed out, recorded nowhere. *)
IssueSession(i) ==
    /\ Free(i)
    /\ \E t \in Tokens :
        /\ token[t].phase = "unissued"
        /\ Signed(t, OwnerLane)
    /\ UNCHANGED <<memory, run, exposure, failures, ledger>>

(* logout_session asks get_active_tokens for agent "self"; that list       *)
(* leaves the rows of the internal ledger out.                             *)
LogoutTargets == ActiveExternal \cap {OwnerLane}

Logout(i) ==
    /\ Free(i)
    /\ Active(OwnerLane)
    /\ RunMoves(i, IF LogoutTargets = {}
                     THEN At("loggedout", OwnerLane, head[OwnerLane].token, {})
                     ELSE At("ending", OwnerLane, NoToken, Grants(LogoutTargets)))
    /\ UNCHANGED <<token, memory, exposure, failures, ledger>>

-----------------------------------------------------------------------------
(* Time, memory pressure, failures. *)

Expire(t) ==
    /\ token[t].phase = "live"
    /\ token' = [token EXCEPT ![t] = Minted(token[t].lane, "expired")]
    /\ UNCHANGED <<memory, run, exposure, failures, ledger>>

(* Mutant: entries are dropped under size pressure, whatever their age. *)
EvictAny(i, t) ==
    /\ t \in revoked[i]
    /\ revoked' = [revoked EXCEPT ![i] = revoked[i] \ {t}]
    /\ UNCHANGED <<token, run, exposure, failures, refused, ledger>>

(* _BoundedRevocationCache forgets a token some time (an hour) after its   *)
(* expiry.                                                                 *)
Evict(i, t) ==
    /\ t \in revoked[i]
    /\ token[t].phase = "expired"
    /\ revoked' = [revoked EXCEPT ![i] = revoked[i] \ {t}]
    /\ UNCHANGED <<token, run, exposure, failures, refused, ledger>>

(* A ledger statement raises: the handler answers 500 and what it had put  *)
(* in memory stays there.  The exposure revocation gives up the rest.      *)
Fail(i) ==
    /\ faults < MaxFaults
    /\ faults' = faults + 1
    /\ run[i].pc \in {"reusing", "granting", "superseding", "recording", "issuing"}
    /\ halfway' = IF run[i].pc = "recording"
                    THEN halfway \cup {<<i, run[i].token>>} ELSE halfway
    /\ RunMoves(i, Idle)
    /\ \/ exposure' = [exposure EXCEPT ![i] = {}]
       \/ UNCHANGED exposure
    /\ late' = late \ {i}
    /\ UNCHANGED <<token, memory, withdrawals, head, ended, revived, shared>>

(* The process dies and a new one takes its place with an empty memory. *)
Restart(i) ==
    /\ faults < MaxFaults
    /\ faults' = faults + 1
    /\ revoked' = [revoked EXCEPT ![i] = {}]
    /\ refused' = [refused EXCEPT ![i] = {}]
    /\ RunMoves(i, Idle)
    /\ exposure' = [exposure EXCEPT ![i] = {}]
    /\ halfway' = {q \in halfway : q[1] # i}
    /\ late' = late \ {i}
    /\ UNCHANGED <<token, withdrawals, head, ended, revived, shared>>

-----------------------------------------------------------------------------
ValidateStep(i) ==
    \/ \E t \in Tokens : ValidateStart(i, t)
    \/ ValidateLedger(i) \/ ValidateRefuse(i) \/ ValidateOutage(i) \/ Finish(i)

GrantStep(i) ==
    \/ \E l \in ExternalLanes : ApproveReuse(i, l) \/ ApproveNew(i, l)
    \/ RecordReuse(i) \/ RecordGrant(i) \/ ReadSuperseded(i)

EndStep(i) ==
    \/ \E l \in Lanes : Revoke(i, l) \/ WithdrawScope(i, l)
    \/ EndInMemory(i) \/ EndInLedger(i) \/ WithdrawNext(i)

OwnerStep(i) ==
    \/ OwnerReuse(i) \/ OwnerRecheck(i) \/ OwnerNew(i) \/ OwnerRecord(i)
    \/ OwnerRecheckOutage(i) \/ IssueSession(i) \/ Logout(i)

EnvStep(i) ==
    \/ \E t \in Tokens : Evict(i, t)
    \/ Fail(i) \/ Restart(i)

Next ==
    \/ \E i \in Instances :
        ValidateStep(i) \/ GrantStep(i) \/ EndStep(i) \/ OwnerStep(i) \/ EnvStep(i)
    \/ \E t \in Tokens : Expire(t)
    \/ Disconnect

Spec == Init /\ [][Next]_vars

-----------------------------------------------------------------------------
(* A token whose lane moved on from it - a REVOKED row, or the grant of    *)
(* another token - is not in force in the ledger again, in whatever order  *)
(* the processes wrote and on whatever lanes it had been reused.  The one  *)
(* exception is the record of an approval that had read the token in force *)
(* before it was ended and writes after (revived, until it is ended anew); *)
(* an approval that reads the ledger later never brings it back.           *)
EndedStaysEnded ==
    \A t \in ended \ revived : ~IsTokenActive(t)

Accepts(i) == run[i].pc = "checking" /\ run'[i].pc = "accepted"

(* No process, whether it saw the revocation or not and whether the        *)
(* database answers or not, accepts by validate_token_with_db an external  *)
(* token that was ended before the ledger is consulted.                    *)
AcceptHonoursRevocation ==
    [][\A i \in Instances :
        Accepts(i) /\ run[i].lane # OwnerLane
            => run[i].token \notin ended \ revived]_vars

(* A process that refused a token once, or revoked it, does not accept it  *)
(* again before it restarts, neither from memory alone nor while the       *)
(* database is unreachable.                                                *)
LocalRevocationStrict ==
    \A i \in Instances, t \in Tokens :
        \/ PassesMemory(i, t)
        \/ run[i].pc \in {"checking", "accepted"} /\ run[i].token = t
        => t \notin refused[i]

(* A token in force that one process refuses has a reason the protocol     *)
(* knows: the process is about to write its REVOKED row, it failed to, the *)
(* token was shared with another lane, or it was revived.                  *)
MemoryAgreesWithLedger ==
    \A i \in Instances : \A t \in revoked[i] :
        IsTokenActive(t) =>
            \/ run[i].pc = "recording" /\ run[i].token = t
            \/ <<i, t>> \in halfway
            \/ t \in shared \cup revived

(* What the ledger lists as active on the lane of a developer information  *)
(* request is a token that validation accepts.                             *)
StrictListedIsValid ==
    \A l \in StrictLanes : Active(l) => IsTokenActive(head[l].token)

-----------------------------------------------------------------------------
(* The inductive invariant behind the safety properties above.             *)

(* The latest row of the lane signed into t grants t. *)
InForce(t) == head[token[t].lane] = Row("granted", t)

(* Nobody has met a token that was not issued. *)
UnissuedUnknown ==
    \A t \in Tokens : token[t].phase = "unissued" =>
        /\ t \notin ended
        /\ \A l \in Lanes : head[l].token # t
        /\ \A i \in Instances :
            /\ t \notin revoked[i] \cup refused[i]
            /\ run[i].token # t
            /\ \A l \in Lanes : <<l, t>> \notin run[i].todo \cup exposure[i]

(* A handler that works on a token has one, and knows its lane. *)
RunHasToken ==
    \A i \in Instances :
        /\ run[i].pc \in {"checking", "stale", "accepted", "reusing", "recording",
                          "rechecking"}
            => run[i].token \in Tokens
        /\ run[i].pc \in {"checking", "stale", "accepted"}
            => run[i].lane = token[run[i].token].lane

(* A row of a lane grants a token of that lane, or one that is shared;     *)
(* where nothing is shared only the first.                                 *)
FitsLane(l, t) ==
    token[t].lane = l \/ (t \in shared /\ l \notin StrictLanes)

RowsFitLane ==
    /\ \A l \in Lanes : head[l].token \in Tokens => FitsLane(l, head[l].token)
    /\ \A i \in Instances :
        /\ run[i].pc = "recording" => FitsLane(run[i].lane, run[i].token)
        /\ \A p \in run[i].todo \cup exposure[i] : FitsLane(p[1], p[2])
        /\ run[i].pc = "reusing" /\ run[i].lane \in StrictLanes
            => token[run[i].token].lane = run[i].lane

(* EndedStaysEnded, expired tokens included. *)
EndedNotInForce == \A t \in ended \ revived : ~InForce(t)

(* A lane is granted to tokens whose own scope covers it. *)
RowsCovered ==
    /\ \A l \in Lanes : head[l].token \in Tokens
                        => <<token[head[l].token].lane, l>> \in Covers
    /\ \A i \in Instances : run[i].pc = "reusing"
                        => <<token[run[i].token].lane, run[i].lane>> \in Covers

(* An approval about to record a token on the lane signed into it, as it   *)
(* read it there, finds it still in force unless it was overtaken.         *)
ReuseInForce ==
    \A i \in Instances :
        /\ i \in late => run[i].pc = "reusing" /\ run[i].token \in ended
        /\ run[i].pc = "reusing" /\ token[run[i].token].lane = run[i].lane
            => i \in late \/ InForce(run[i].token)

(* A token that is out of force for good, or whose state is known to be    *)
(* torn.                                                                   *)
OutOfForce(t) ==
    ~InForce(t) \/ token[t].phase = "expired" \/ t \in shared \cup revived

MemoryJustified ==
    \A i \in Instances :
        /\ run[i].pc = "stale" => OutOfForce(run[i].token)
        /\ \A t \in revoked[i] :
            \/ OutOfForce(t)
            \/ run[i].pc = "recording" /\ run[i].token = t
            \/ <<i, t>> \in halfway

RefusedRemembered ==
    \A i \in Instances :
        /\ \A t \in refused[i] : t \in revoked[i] \/ token[t].phase = "expired"
        /\ run[i].pc \in {"checking", "accepted"} => run[i].token \notin refused[i]

SafetyInv ==
    /\ TypeOK
    /\ UnissuedUnknown
    /\ RunHasToken
    /\ RowsFitLane
    /\ EndedNotInForce
    /\ RowsCovered
    /\ ReuseInForce
    /\ MemoryJustified
    /\ RefusedRemembered
=============================================================================
