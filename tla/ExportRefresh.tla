--------------------------- MODULE ExportRefresh ---------------------------
(***************************************************************************)
(* Continuous consent exports and the jobs that refresh them.              *)
(*                                                                         *)
(* An approved grant stores one encrypted export per consent token.  When  *)
(* the owner writes PKM data, the commit marks the exports of the active   *)
(* grants refresh_pending and opens one job for each; the owner's devices  *)
(* lease jobs, re-encrypt the latest PKM content and upload it under the   *)
(* lease and a compare-and-swap on the export revision.                    *)
(*                                                                         *)
(* State: consent_exports and consent_export_refresh_jobs (one row per     *)
(* token, the job row cascades with its export), the content revision of   *)
(* the PKM domain, and the handlers that are between two of their awaits   *)
(* (PKM writers, approvals, revocations, device uploads).  Ciphertext is   *)
(* represented by the content revision it was encrypted from.  Leases and  *)
(* expiry use no clock: the database's NOW() passing a lease is the action *)
(* LeaseExpire, and passing a token's expires_at is Expire.                *)
(***************************************************************************)
EXTENDS Naturals

CONSTANTS
    Tokens,      \* consent tokens whose request asked for continuous refresh
    Writers,     \* concurrent PKM write handlers
    Devices,     \* the owner's unlocked sessions (tabs and devices)
    Claims,      \* claim identifiers (gen_random_uuid)
    NoClaim,     \* SQL NULL in claim_id
    MaxContent,  \* bound on the PKM content revision
    MaxExpiries, \* bound on leases that run out under a device still working
    MaxFails     \* bound on the failures devices report

ASSUME ClaimAssumption == NoClaim \notin Claims
ASSUME BoundAssumption == /\ MaxContent \in Nat
                          /\ MaxExpiries \in Nat
                          /\ MaxFails \in Nat

VARIABLES
    leftover,  \* history: tokens revoked although the DELETE of the export failed
    content,   \* pkm_blobs.content_revision of the domain
    writer,    \* PKM write handlers: version read, tokens listed
    grant,     \* where each token is in approve ... revoke, and its snapshot
    exports,   \* consent_exports
    jobs,      \* consent_export_refresh_jobs
    work,      \* what each device holds of each job
    due,       \* history: last content revision whose commit scheduled t
    expiries,  \* leases that ran out so far under a working device
    fails      \* failures reported so far

vars == <<content, writer, grant, exports, jobs, work, due, expiries, fails, leftover>>
bounds == <<expiries, fails>>
history == <<due, leftover>>

GrantStates == {"none", "building", "exported", "active", "revoking", "ended",
                "expired", "lapsed"}
ExportStates == {"absent", "current", "refresh_pending", "refresh_failed"}
JobStates == {"none", "pending", "processing", "failed", "completed"}

(* Rows of the two tables, the state of a grant, a device's hold of a job. *)
ExportRow(status, revision, source) ==
    [status |-> status, revision |-> revision, source |-> source]
JobRow(status, claim, lease, expected) ==
    [status |-> status, claim |-> claim, lease |-> lease, expected |-> expected]
GrantAt(state, source) == [state |-> state, source |-> source]
Hold(pc, claim, prior, source) ==
    [pc |-> pc, claim |-> claim, prior |-> prior, source |-> source]

NoExport == ExportRow("absent", 0, 0)
NoJob == JobRow("none", NoClaim, FALSE, 0)
Idle == Hold("idle", NoClaim, 0, 0)

(* Exports and jobs keep to the values of the CHECK constraints of their   *)
(* tables, writers and devices to the steps of their calls.                *)
TypeOK ==
    /\ content \in 0..MaxContent
    /\ writer \in [Writers -> [pc : {"idle", "read", "listed"},
                               expected : 0..MaxContent,
                               tokens : SUBSET Tokens]]
    /\ grant \in [Tokens -> [state : GrantStates, source : 0..MaxContent]]
    /\ exports \in [Tokens -> [status : ExportStates, revision : Nat,
                               source : 0..MaxContent]]
    /\ jobs \in [Tokens -> [status : JobStates, claim : Claims \cup {NoClaim},
                            lease : BOOLEAN, expected : Nat]]
    /\ work \in [Devices -> [Tokens ->
            [pc : {"idle", "leased", "ready", "checked", "failing"},
             claim : Claims \cup {NoClaim}, prior : Nat, source : 0..MaxContent]]]
    /\ due \in [Tokens -> 0..MaxContent]
    /\ leftover \subseteq Tokens
    /\ expiries \in 0..MaxExpiries
    /\ fails \in 0..MaxFails

Init ==
    /\ content = 0
    /\ writer = [w \in Writers |-> [pc |-> "idle", expected |-> 0, tokens |-> {}]]
    /\ grant = [t \in Tokens |-> GrantAt("none", 0)]
    /\ exports = [t \in Tokens |-> NoExport]
    /\ jobs = [t \in Tokens |-> NoJob]
    /\ work = [d \in Devices |-> [t \in Tokens |-> Idle]]
    /\ due = [t \in Tokens |-> 0]
    /\ leftover = {}
    /\ expiries = 0
    /\ fails = 0

ExportMoves(t, status) ==
    [exports EXCEPT ![t] = ExportRow(status, exports[t].revision, exports[t].source)]

GrantMoves(t, state) ==
    grant' = [grant EXCEPT ![t] = GrantAt(state, grant[t].source)]

HasExport(t) == exports[t].status # "absent"

(* exports.expires_at > NOW(); the export expires with its token.  The     *)
(* refresh jobs and the PKM commit ask no more than this of a token.       *)
Unexpired(t) == grant[t].state \notin {"expired", "lapsed"}

(* The answers validate_token_with_db may give for the token.  While a      *)
(* revocation is under way the revoking instance rejects it already, the   *)
(* others accept it until the REVOKED row is written.                      *)
Valid(t) == CASE grant[t].state = "active" -> {TRUE}
              [] grant[t].state = "revoking" -> BOOLEAN
              [] OTHER -> {FALSE}

-----------------------------------------------------------------------------
(* Approval of a continuous grant: approve_consent. *)

(* The owner's client encrypts the export from the PKM content it reads;   *)
(* the approval request is on its way (external).                          *)
BuildExport(t) ==
    /\ grant[t].state = "none"
    /\ grant' = [grant EXCEPT ![t] = GrantAt("building", content)]
    /\ UNCHANGED <<content, writer, exports, jobs, work, history, bounds>>

(* store_consent_export: the row is upserted, refresh_status 'current'. *)
StoreExport(t) ==
    /\ grant[t].state = "building"
    /\ exports' = [exports EXCEPT ![t] = ExportRow("current", 1, grant[t].source)]
    /\ GrantMoves(t, "exported")
    /\ UNCHANGED <<content, writer, jobs, work, history, bounds>>

(* insert_event CONSENT_GRANTED: from here on the token is listed active. *)
RecordGrant(t) ==
    /\ grant[t].state = "exported"
    /\ GrantMoves(t, "active")
    /\ UNCHANGED <<content, writer, exports, jobs, work, history, bounds>>

(* The DELETE of the export; the job row goes with it (ON DELETE CASCADE). *)
DeleteExport(t) ==
    /\ exports' = [exports EXCEPT ![t] = NoExport]
    /\ jobs' = [jobs EXCEPT ![t] = NoJob]

(* revoke_consent (the token a broader approval supersedes and the tokens  *)
(* of a disabled scope go the same way): the token enters the memory of    *)
(* the instance, then delete_consent_export is called.  It catches every   *)
(* exception and answers False, which no caller reads.                     *)
BeginRevoke(t) ==
    /\ grant[t].state = "active"
    /\ GrantMoves(t, "revoking")
    /\ \/ DeleteExport(t) /\ UNCHANGED leftover
       \/ leftover' = leftover \cup {t} /\ UNCHANGED <<exports, jobs>>
    /\ UNCHANGED <<content, writer, work, due, bounds>>

(* The REVOKED row, a later statement, written whether the DELETE was done *)
(* or not.                                                                 *)
RecordRevoke(t) ==
    /\ grant[t].state = "revoking"
    /\ GrantMoves(t, "ended")
    /\ UNCHANGED <<content, writer, exports, jobs, work, history, bounds>>

(* The clock passes expires_at of a token in force, or of what a failed    *)
(* DELETE left of a revoked one: nothing is written.                       *)
Expire(t) ==
    /\ \/ grant[t].state = "active" /\ GrantMoves(t, "expired")
       \/ grant[t].state = "ended" /\ HasExport(t) /\ GrantMoves(t, "lapsed")
    /\ UNCHANGED <<content, writer, exports, jobs, work, history, bounds>>

(* cleanup_expired_exports. *)
Cleanup(t) ==
    /\ ~Unexpired(t)
    /\ HasExport(t)
    /\ DeleteExport(t)
    /\ UNCHANGED <<content, writer, grant, work, history, bounds>>

-----------------------------------------------------------------------------
(* A confirmed PKM write: store_domain_data reads the content revision,    *)
(* lists the tokens to refresh, and commits both in one transaction.       *)

WriteRead(w) ==
    /\ writer[w].pc = "idle"
    /\ content < MaxContent
    /\ writer' = [writer EXCEPT ![w] =
            [pc |-> "read", expected |-> content, tokens |-> {}]]
    /\ UNCHANGED <<content, grant, exports, jobs, work, history, bounds>>

(* _continuous_refresh_tokens_for_domain_write: active tokens (a token     *)
(* being revoked has no REVOKED row yet) that have an export.              *)
ListRefreshTokens ==
    {t \in Tokens : grant[t].state \in {"active", "revoking"} /\ HasExport(t)}

WriteList(w) ==
    /\ writer[w].pc = "read"
    /\ writer' = [writer EXCEPT ![w] =
            [pc |-> "listed", expected |-> writer[w].expected,
             tokens |-> ListRefreshTokens]]
    /\ UNCHANGED <<content, grant, exports, jobs, work, history, bounds>>

WriterDone(w) ==
    writer' = [writer EXCEPT ![w] = [pc |-> "idle", expected |-> 0, tokens |-> {}]]

(* Mutant: a job row that exists already is left as it is. *)
WriteKeepsJob(w) ==
    LET scheduled == {t \in writer[w].tokens : HasExport(t) /\ Unexpired(t)}
    IN  /\ writer[w].pc = "listed"
        /\ writer[w].expected = content
        /\ content < MaxContent
        /\ content' = content + 1
        /\ jobs' = [t \in Tokens |->
                IF t \in scheduled /\ jobs[t].status = "none"
                  THEN JobRow("pending", NoClaim, FALSE, exports[t].revision)
                  ELSE jobs[t]]
        /\ exports' = [t \in Tokens |->
                IF t \in scheduled
                  THEN ExportRow("refresh_pending", exports[t].revision, exports[t].source)
                  ELSE exports[t]]
        /\ due' = [t \in Tokens |-> IF t \in scheduled THEN content + 1 ELSE due[t]]
        /\ WriterDone(w)
        /\ UNCHANGED <<grant, work, leftover, bounds>>

(* commit_pkm_domain_mutation: under the user/domain advisory lock the     *)
(* content revision is compared, content is written, one job per listed    *)
(* token is upserted pending with its claim cleared, and the exports are   *)
(* marked refresh_pending - one transaction.                               *)
WriteCommit(w) ==
    LET scheduled == {t \in writer[w].tokens : HasExport(t) /\ Unexpired(t)}
    IN  /\ writer[w].pc = "listed"
        /\ writer[w].expected = content
        /\ content < MaxContent
        /\ content' = content + 1
        /\ jobs' = [t \in Tokens |->
                IF t \in scheduled
                  THEN JobRow("pending", NoClaim, FALSE, exports[t].revision)
                  ELSE jobs[t]]
        /\ exports' = [t \in Tokens |->
                IF t \in scheduled
                  THEN ExportRow("refresh_pending", exports[t].revision, exports[t].source)
                  ELSE exports[t]]
        /\ due' = [t \in Tokens |-> IF t \in scheduled THEN content + 1 ELSE due[t]]
        /\ WriterDone(w)
        /\ UNCHANGED <<grant, work, leftover, bounds>>

(* The revision moved since it was read: PKM_VERSION_CONFLICT. *)
WriteConflict(w) ==
    /\ writer[w].pc = "listed"
    /\ writer[w].expected # content
    /\ WriterDone(w)
    /\ UNCHANGED <<content, grant, exports, jobs, work, history, bounds>>

-----------------------------------------------------------------------------
(* Devices: claim, prepare, upload, report a failure. *)

Referenced(c) == \/ \E t \in Tokens : jobs[t].claim = c
                 \/ \E d \in Devices, t \in Tokens : work[d][t].claim = c

(* The job's lease is held and not past claim_expires_at. *)
Leased(t, c) == /\ jobs[t].status = "processing"
                /\ jobs[t].claim = c
                /\ jobs[t].lease

(* Mutant: a job whose lease ran out cannot be leased again. *)
ClaimableOnce(t) ==
    /\ HasExport(t)
    /\ Unexpired(t)
    /\ jobs[t].status \in {"pending", "failed"}

JobMoves(t, status, lease) ==
    jobs' = [jobs EXCEPT ![t] =
        JobRow(status, jobs[t].claim, lease, jobs[t].expected)]

Claimable(t) ==
    /\ HasExport(t)
    /\ Unexpired(t)
    /\ \/ jobs[t].status \in {"pending", "failed"}
       \/ jobs[t].status = "processing" /\ ~jobs[t].lease

(* claim_consent_export_refresh_jobs_v2, one job: a new claim id and a new *)
(* lease, expected revision taken from the export.  The handler returns    *)
(* the job to the device only if the token is active.                      *)
Claim(d, t) ==
    /\ Claimable(t)
    /\ work[d][t].pc = "idle"
    /\ \E c \in Claims :
        /\ ~Referenced(c)
        /\ jobs' = [jobs EXCEPT ![t] =
                JobRow("processing", c, TRUE, exports[t].revision)]
        /\ \E valid \in Valid(t) :
            work' = IF valid
                      THEN [work EXCEPT ![d][t] =
                             Hold("leased", c, exports[t].revision, 0)]
                      ELSE work
    /\ UNCHANGED <<content, writer, grant, exports, history, bounds>>

(* NOW() passes claim_expires_at. *)
LeaseExpire(t) ==
    LET held == \E d \in Devices : work[d][t].claim = jobs[t].claim
    IN  /\ jobs[t].status = "processing"
        /\ jobs[t].lease
        /\ held => expiries < MaxExpiries
        /\ expiries' = IF held THEN expiries + 1 ELSE expiries
        /\ JobMoves(t, "processing", FALSE)
        /\ UNCHANGED <<content, writer, grant, exports, work, history, fails>>

HoldMoves(d, t, pc) ==
    work' = [work EXCEPT ![d][t] =
        Hold(pc, work[d][t].claim, work[d][t].prior, work[d][t].source)]

HoldEnds(d, t) == work' = [work EXCEPT ![d][t] = Idle]

(* The device decrypts the latest PKM and encrypts a new export (external). *)
Prepare(d, t) ==
    /\ work[d][t].pc = "leased"
    /\ work' = [work EXCEPT ![d][t] =
            Hold("ready", work[d][t].claim, work[d][t].prior, content)]
    /\ UNCHANGED <<content, writer, grant, exports, jobs, history, bounds>>

(* What upload_refreshed_export tests before it writes, besides the token. *)
UploadAccepted(d, t) ==
    /\ Leased(t, work[d][t].claim)
    /\ exports[t].status = "refresh_pending"
    /\ work[d][t].prior = exports[t].revision
    /\ jobs[t].expected = exports[t].revision

UploadCheck(d, t) ==
    /\ work[d][t].pc = "ready"
    /\ \E valid \in Valid(t) :
        IF valid /\ UploadAccepted(d, t) THEN HoldMoves(d, t, "checked") ELSE HoldEnds(d, t)
    /\ UNCHANGED <<content, writer, grant, exports, jobs, history, bounds>>

(* Mutant: the commit compares the revision but not who holds the lease. *)
CommitIgnoresLease(d, t) ==
    /\ jobs[t].expected = work[d][t].prior
    /\ exports[t].status = "refresh_pending"
    /\ exports[t].revision = work[d][t].prior

(* Mutant: the commit does not ask that the export still awaits a refresh. *)
CommitIgnoresStatus(d, t) ==
    /\ Leased(t, work[d][t].claim)
    /\ jobs[t].expected = work[d][t].prior
    /\ exports[t].revision = work[d][t].prior

(* The predicates of complete_consent_export_refresh_v2 on the two rows. *)
CommitAccepted(d, t) ==
    /\ Leased(t, work[d][t].claim)
    /\ jobs[t].expected = work[d][t].prior
    /\ exports[t].status = "refresh_pending"
    /\ exports[t].revision = work[d][t].prior

(* Mutant: the commit gives the grant of a refreshed export new time.      *)
UploadCommitExtends(d, t) ==
    /\ work[d][t].pc = "checked"
    /\ IF CommitAccepted(d, t)
         THEN /\ exports' = [exports EXCEPT ![t] =
                    ExportRow("current", work[d][t].prior + 1, work[d][t].source)]
              /\ JobMoves(t, "completed", FALSE)
              /\ GrantMoves(t, "active")
         ELSE UNCHANGED <<exports, jobs, grant>>
    /\ HoldEnds(d, t) \/ HoldMoves(d, t, "ready")
    /\ UNCHANGED <<content, writer, history, bounds>>

(* complete_consent_export_refresh_v2.  The answer may be lost, and then   *)
(* the device sends the same upload again.                                 *)
UploadCommit(d, t) ==
    /\ work[d][t].pc = "checked"
    /\ IF CommitAccepted(d, t)
         THEN /\ exports' = [exports EXCEPT ![t] =
                    ExportRow("current", work[d][t].prior + 1, work[d][t].source)]
              /\ JobMoves(t, "completed", FALSE)
         ELSE UNCHANGED <<exports, jobs>>
    /\ HoldEnds(d, t) \/ HoldMoves(d, t, "ready")
    /\ UNCHANGED <<content, writer, grant, history, bounds>>

(* fail_consent_export_refresh_job: the job row first (the lease need not  *)
(* be live), the export row in a statement of its own.                     *)
FailJob(d, t) ==
    /\ work[d][t].pc \in {"leased", "ready"}
    /\ fails < MaxFails
    /\ fails' = fails + 1
    /\ IF jobs[t].status = "processing" /\ jobs[t].claim = work[d][t].claim
         THEN /\ JobMoves(t, "failed", FALSE)
              /\ HoldMoves(d, t, "failing")
         ELSE /\ HoldEnds(d, t)
              /\ UNCHANGED jobs
    /\ UNCHANGED <<content, writer, grant, exports, history, expiries>>

(* Mutant: the mark inserts the row when the export is gone. *)
FailMarkUpserts(d, t) ==
    /\ work[d][t].pc = "failing"
    /\ exports' = ExportMoves(t, "refresh_failed")
    /\ HoldEnds(d, t)
    /\ UNCHANGED <<content, writer, grant, jobs, history, bounds>>

(* Mutant: the mark writes the job's status word, unnormalised. *)
FailMarkRaw(d, t) ==
    /\ work[d][t].pc = "failing"
    /\ exports' = IF HasExport(t)
                    THEN ExportMoves(t, "failed")
                    ELSE exports
    /\ HoldEnds(d, t)
    /\ UNCHANGED <<content, writer, grant, jobs, history, bounds>>

(* mark_export_refresh_status 'refresh_failed': an UPDATE by token only,   *)
(* which may fail unnoticed.                                               *)
FailMark(d, t) ==
    /\ work[d][t].pc = "failing"
    /\ \/ exports' = IF HasExport(t)
                       THEN ExportMoves(t, "refresh_failed")
                       ELSE exports
       \/ UNCHANGED exports
    /\ HoldEnds(d, t)
    /\ UNCHANGED <<content, writer, grant, jobs, history, bounds>>

(* The session closes, or locks the vault, and forgets the job. *)
Drop(d, t) ==
    /\ work[d][t].pc \in {"leased", "ready"}
    /\ fails < MaxFails
    /\ fails' = fails + 1
    /\ HoldEnds(d, t)
    /\ UNCHANGED <<content, writer, grant, exports, jobs, history, expiries>>

-----------------------------------------------------------------------------
GrantStep(t) == \/ BuildExport(t) \/ StoreExport(t) \/ RecordGrant(t)
                \/ BeginRevoke(t) \/ RecordRevoke(t) \/ Expire(t) \/ Cleanup(t)

WriterStep(w) == WriteRead(w) \/ WriteList(w) \/ WriteCommit(w) \/ WriteConflict(w)

DeviceStep(d, t) == \/ Claim(d, t) \/ Prepare(d, t) \/ UploadCheck(d, t)
                    \/ UploadCommit(d, t) \/ FailJob(d, t) \/ FailMark(d, t)
                    \/ Drop(d, t)

Next == \/ \E t \in Tokens : GrantStep(t) \/ LeaseExpire(t)
        \/ \E w \in Writers : WriterStep(w)
        \/ \E d \in Devices, t \in Tokens : DeviceStep(d, t)

Spec == Init /\ [][Next]_vars

(* What keeps running: the unlocked app keeps polling for jobs and works   *)
(* on the ones it leased, a handler that started finishes, and time goes   *)
(* on.  Nobody is obliged to write, to approve, to fail or to give up.     *)
Fairness ==
    /\ \A t \in Tokens : WF_vars(LeaseExpire(t))
    /\ \A d \in Devices, t \in Tokens :
        /\ WF_vars(Claim(d, t))
        /\ WF_vars(Prepare(d, t))
        /\ WF_vars(UploadCheck(d, t))
        /\ WF_vars(UploadCommit(d, t) /\ HoldEnds(d, t))
        /\ WF_vars(FailMark(d, t))

FairSpec == Spec /\ Fairness

-----------------------------------------------------------------------------
(* An export served as 'current' was encrypted from content at least as    *)
(* new as the last PKM commit that scheduled its refresh: neither a late   *)
(* upload of an overtaken lease, nor a retried upload, nor a late failure  *)
(* report brings 'current' back to an export that is out of date.          *)
CurrentCoversScheduled ==
    \A t \in Tokens : exports[t].status = "current" => exports[t].source >= due[t]

(* An export waiting for a refresh has a job some device can still lease   *)
(* or holds: complete_consent_export_refresh_v2 never closes a job without *)
(* making the export current.                                              *)
PendingHasOpenJob ==
    \A t \in Tokens : exports[t].status = "refresh_pending" =>
        jobs[t].status \in {"pending", "processing", "failed"}

(* What a step may do to the export of t, while its row exists. *)
AdvanceStep(t) ==
    HasExport(t) /\ HasExport(t)' =>
        \/ /\ exports'[t].revision = exports[t].revision
           /\ exports'[t].source = exports[t].source
        \/ /\ exports[t].status = "refresh_pending"
           /\ exports'[t].revision = exports[t].revision + 1
           /\ exports'[t].source >= exports[t].source

(* While an export row exists its revision only moves up by one, its       *)
(* content never goes back to an older PKM revision, and neither changes   *)
(* for an export that is not refresh_pending (lost answers and two devices *)
(* holding leases on the same export included).                            *)
RefreshAdvances == [][\A t \in Tokens : AdvanceStep(t)]_vars

(* A revoked token has no export and no job, and none comes back whatever  *)
(* uploads, failure reports and PKM commits were under way - unless the    *)
(* DELETE of its own revocation failed, which the revocation ignores.      *)
RevokedHasNoExport ==
    \A t \in Tokens \ leftover : grant[t].state \in {"revoking", "ended", "lapsed"} =>
        /\ ~HasExport(t)
        /\ jobs[t].status = "none"

(* The endpoints that serve an export validate the token first: it has not *)
(* expired and no REVOKED row of it is in the ledger.                      *)
Readable(t) == grant[t].state \notin {"ended", "expired", "lapsed"}

(* The holder of a token reads the export while the row exists and the     *)
(* token is good.                                                          *)
ShareState(t) ==
    CASE ~HasExport(t) /\ grant[t].state \in {"none", "building"} -> "none"
      [] HasExport(t) /\ Readable(t) /\ exports[t].status = "current" -> "fresh"
      [] HasExport(t) /\ Readable(t) /\ exports[t].status = "refresh_pending" -> "stale"
      [] HasExport(t) /\ Readable(t) /\ exports[t].status = "refresh_failed" -> "failed"
      [] OTHER -> "gone"

Shares ==
    [t \in Tokens |-> [state |-> ShareState(t),
                       source |-> IF ShareState(t) \in {"fresh", "stale", "failed"}
                                    THEN exports[t].source ELSE 0]]

(* Nobody waits for the refresh of a share that is gone, even if jobs and  *)
(* uploads still go on for what a failed DELETE left of it.                *)
Owed == [t \in Tokens |-> IF ShareState(t) = "gone" THEN 0 ELSE due[t]]

Promise == INSTANCE ExportPromise WITH share <- Shares, owed <- Owed

(* Jobs, leases, claims, compare-and-swap, lost answers and late failure   *)
(* reports together give the holder of a token no more and no less than    *)
(* ExportPromise: whatever a job or a device does, the reader sees an      *)
(* approval, a write, a renewal, a failure or a close, or nothing.  What a *)
(* failed DELETE leaves behind is closed by the REVOKED row.               *)
KeepsPromise == Promise!Spec

(* The inductive invariant behind the safety properties above.             *)
(* A device that can still commit under its claim has prepared content at  *)
(* least as new as the last schedule and as the stored export.             *)
HoldsFresh ==
    \A d \in Devices, t \in Tokens :
        /\ work[d][t].pc \in {"ready", "checked"}
        /\ jobs[t].status = "processing"
        /\ jobs[t].claim = work[d][t].claim
        => work[d][t].source >= due[t] /\ work[d][t].source >= exports[t].source

(* Nothing is newer than the PKM content. *)
NothingAhead ==
    \A t \in Tokens : /\ due[t] <= content
                       /\ grant[t].source <= content
                       /\ exports[t].source <= content
                       /\ \A d \in Devices : work[d][t].source <= content

(* Until its CONSENT_GRANTED row is written a token is in no writer's list *)
(* and has never been scheduled.                                           *)
UngrantedUnscheduled ==
    \A t \in Tokens : grant[t].state \in {"none", "building", "exported"} =>
        /\ due[t] = 0
        /\ jobs[t].status = "none"
        /\ \A w \in Writers : t \notin writer[w].tokens

(* The export is stored only by its approval. *)
NoEarlyExport ==
    \A t \in Tokens : grant[t].state \in {"none", "building"} => ~HasExport(t)

SafetyInv ==
    /\ TypeOK
    /\ CurrentCoversScheduled
    /\ PendingHasOpenJob
    /\ RevokedHasNoExport
    /\ HoldsFresh
    /\ NothingAhead
    /\ UngrantedUnscheduled
    /\ NoEarlyExport

(* A refresh that was scheduled settles: the export becomes current, or a  *)
(* device reports failure, or the grant ends.                              *)
PendingSettles ==
    \A t \in Tokens :
        exports[t].status = "refresh_pending" ~>
            exports[t].status # "refresh_pending" \/ grant[t].state # "active"
=============================================================================
