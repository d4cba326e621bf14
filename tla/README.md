# TLA+ models of the consent protocol

This directory holds a verification project for the consent core of
`consent-protocol` and the services built on it: TLA+ modules translated from
the Python handlers, services and SQL functions, TLC configurations that check
them on small instances, and TLAPS proofs that hold for every value of the
parameters. `PROJECT.json` lists which lines each definition stands for, the
runs, the hazards and the finding.

    tlc -workers 2 -config MCConsentTokens.cfg MCConsentTokens
    tlapm ConsentTokensProofs.tla

## 1. The system and its parts

A FastAPI backend (two gunicorn workers per container, several Cloud Run
instances) over one Postgres database. An owner keeps encrypted personal data
(PKM) and grants apps, advisers and agents access to scopes of it. The server
never sees plaintext; what it does is keep the consent ledger, sign and
validate tokens, and move ciphertext.

| Part | State | Operations | Talks to |
|---|---|---|---|
| Consent requests (`developer.py`, `a2a.py`, `consent.py`, `consent_db.py`, `consent_request_lock.py`) | rows of `consent_audit` with one `request_id`; advisory lock per app/owner/scope | ask, approve, deny, cancel, time out | tokens, exports, relationships, notifications |
| Consent tokens (`token.py`, `consent_db.py`, `consent.py`, `session.py`) | latest grant/revoke row per (agent, scope); `_revoked_tokens` of each process; signed tokens in the clients | issue, validate, reuse, supersede, revoke, withdraw scope, owner session, logout | requests, exports, PKM, RIA |
| Consent exports (`consent_db.py`, `consent.py`, migrations 035/088/089/096) | `consent_exports`, `consent_export_refresh_jobs` | store, schedule, lease, upload, fail, delete | PKM writes, tokens, the owner's devices |
| PKM (`personal_knowledge_model_service.py`, migrations 089/096) | blobs with a content revision, manifests, scope registry | confirmed write (compare and swap), scope exposure | exports, tokens |
| Notifications (`consent_listener.py`, `consent_notifications.py`, `sse.py`) | NOTIFY channel, bounded queues, delivery log | fan-out, timeout job, notification job, SSE streams | ledger, FCM |
| Advisers (`ria_iam_service.py`) | relationships, picks shares, invites | ask, invite, sync from consent events, disconnect, delete profile | ledger |
| Location sharing (`one_location_agent_service.py`) | shares, envelopes, access requests, referrals, recipient keys | share, ask, approve, refer, store, view, expire, purge | the owner's devices |
| Email KYC (`one_email_kyc_service.py`) | one row per workflow with a metadata document | intake, select, refresh, redraft, send, write back | ledger, exports, Gmail |
| Everything else | - | marketplace, connections, funding, Gmail receipts, Kai runs, chat and voice, registries | mostly outside the consent core; listed in `PROJECT.json` |

What makes it hard:

* **Several processes, no transactions.** Apart from two SQL functions and the
  adviser's transactions, a handler is a sequence of single statements. Whatever
  it read before is used after other processes have written.
* **Two sources of truth.** Each process remembers revoked tokens while the
  ledger says which token is in force; a relationship has a status of its own
  while the ledger says what is granted; a KYC workflow keeps in its metadata
  what it once read of the ledger.
* **A ledger that is read through its latest row**, per lane for tokens and per
  request id for requests, while different writers add rows for the same thing
  (approve, deny, revoke, TIMEOUT).
* **Leases and retries**: devices lease refresh jobs, lose leases, upload late,
  send an upload twice, or vanish; mail is sent and its outcome lost.
* **Announcements that are not stored**: NOTIFY reaches who listens now, queues
  are bounded and drop, connections share a queue.
* **Time**: deadlines, token expiry, leases, cool-downs, reminders, retention,
  periodic jobs.

What correctness means for each part:

* *Exports*: data served as current reflects the update that made it stale;
  nothing is stored after revocation; a scheduled refresh is not forgotten.
* *Tokens*: a revoked or replaced token is never accepted again anywhere; a
  process is at least as strict as its own past; memory and ledger agree.
* *Requests*: no duplicate pending requests, one answer per request, every ask
  answered, overdue requests settled.
* *Notifications*: a pending request is told to the owner, not too often and not
  after it is settled; whoever is connected hears the answer.
* *Advisers*: status and picks share follow the ledger; one request per invite.
* *Location*: one share per recipient, a share goes with its request's approval,
  nothing is served after the end of a share.
* *KYC*: one reply, built from the export it is bound to; a writeback only for a
  reply that was sent.

## 2. Modules

| Module | Models | Checked through | Proofs |
|---|---|---|---|
| `ExportRefresh` | export rows, refresh jobs, PKM commits, devices | `MCExportRefresh` | `ExportRefreshProofs` |
| `ExportPromise` | what the holder of a token is promised of its export; implemented by `ExportRefresh` | `MCExportRefresh` (`KeepsPromise`) | `ExportRefreshProofs` |
| `ConsentTokens` | tokens, ledger heads, revocation memory, handlers of every process | `MCConsentTokens` | `ConsentTokensProofs` |
| `ConsentRequests` | requests of one lane, lock, answers, timeout job | `MCConsentRequests` | `ConsentRequestsProofs` |
| `ConsentPromise` | what the requests of a lane promise to the app and the owner; implemented by `ConsentRequests` | `MCConsentRequests` (`KeepsConsentPromise`) | `ConsentRequestsProofs` |
| `ConsentNotify` | announcements, handlers, notification job and delivery log of all processes | `MCConsentNotify` | `ConsentNotifyProofs` |
| `ConsentStreams` | queues and SSE connections of one process | `MCConsentStreams` | `ConsentStreamsProofs` |
| `AdvisorRelationship` | relationships, picks shares, invites over the ledger | `MCAdvisorRelationship` | `AdvisorRelationshipProofs` |
| `LocationSharing` | shares, envelopes, requests, referrals of one owner | `MCLocationSharing` | `LocationSharingProofs` |
| `EmailKyc` | one workflow over a moving ledger | `MCEmailKyc` | `EmailKycProofs` |

Operators whose comment starts with *Mutant* are deliberate bugs; nothing in a
specification uses them. Substituted for the definition that follows they make
one property fail, which shows that the property depends on that code.

### ExportRefresh and ExportPromise

One PKM domain, one row per token. Ciphertext is represented by the content
revision it was encrypted from (`source`). `grant[t]` follows the approval
(`BuildExport` is the client, `StoreExport`, `RecordGrant` the two statements of
`approve_consent`) and the revocation (`BeginRevoke` deletes the export,
`RecordRevoke` writes the row). A PKM write is `WriteRead` (the revision
`store_domain_data` reads), `WriteList` (the tokens to refresh), and
`WriteCommit` or `WriteConflict` (`commit_pkm_domain_mutation_v3` of migration
096, which checks the scope rows and calls the v2 function of migration 089: one
transaction, in which the revision is compared, jobs are upserted and exports are
marked).
A device `Claim`s a job under a new claim id, `Prepare`s content, passes
`UploadCheck` (every test of `upload_refreshed_export`), then `UploadCommit`
(`complete_consent_export_refresh_v2`, again with its own tests); its answer may
be lost and the upload repeated. `FailJob`/`FailMark` are the two statements of
a failure report. `BeginRevoke` takes a token into the memory of the process and
calls `delete_consent_export`, which catches every exception and returns False;
no caller reads the result (`revoke_consent`, the supersession of an approval,
the scope-exposure revocation), so the export may stay while `RecordRevoke`
writes REVOKED all the same. Such a token is in `leftover`. Until its REVOKED row is
written other processes still accept it (`Valid`) and devices refresh its export;
after it PKM commits still mark the export and jobs are still leased, to nobody,
until the token expires (state `lapsed`) and `Cleanup` removes both. `LeaseExpire` and `Expire` stand for
`NOW()` passing `claim_expires_at` and `expires_at`. `due[t]` and `leftover` are
history variables: the content revision of the last commit that scheduled `t`, and
the tokens whose export was not deleted.

`ExportPromise` knows only the owner's content revision, what each token's
holder can read with its standing (none, fresh, stale, failed, gone), and the
revision that is owed. Its steps are a write, an approval, a renewal that makes
up for everything owed, a failure and a close. `KeepsPromise` is that
specification under the mapping `share <- Shares`, `owed <- Owed`: an export row
counts as what its status says while its token can be used (`Readable`: the
endpoints validate the token first, `api/routes/developer.py:2068`,
`api/routes/consent.py:1565`), as gone otherwise, and nothing is owed to the
holder of a share that is gone. So the row that a failed DELETE leaves behind is
closed to its reader by the REVOKED row.

Left out: snapshot grants (never refreshed), the contents of an envelope and
its validation, attempt counts, the order of claims, the second statement of the
claim handler (the token list is read in the same step as the claim).
`queue_consent_export_refresh_job` and `complete_consent_export_refresh_job`
have no reachable caller (`store_domain_data` returns after the atomic commit),
so they are no actions. `cleanup_expired_exports` has no caller either but is
kept (`Cleanup`): it is an operator's command.

### ConsentTokens

A lane is an (agent, scope) pair; `head[l]` is its latest `CONSENT_GRANTED` or
`REVOKED` row, which is all `get_active_tokens`, `get_active_internal_tokens`
and `is_token_active` look at. `Covers` is `scope_matches` between lanes of one
agent: any partial order (a scope matches itself and what lies below it). Each process runs one handler at a time between
awaits (the database client is synchronous), so `run[i]` is its program
counter; one step is one statement or one change of the memory. The
scope-exposure revocation awaits between tokens and leaves its rest in
`exposure[i]`. `StrictLanes` are those of developer information requests,
which reuse only a token of exactly their scope; `AdvisorLanes` those that
`disconnect_relationship` ends in one transaction without telling any memory.
`Fail` is a statement that raises, `Restart` a process that loses its memory.
`ended`, `late`, `revived`, `shared`, `halfway` and `refused` are history
variables: tokens whose own lane moved on; approvals under way that had read such
a token as reusable before (`Overtaken`); ended tokens that an approval of that
kind, and no other, recorded as granted again on their own lane, until they are
ended anew; tokens recorded on a lane other than the one they were signed for;
revocations that failed after the memory was changed; and what a process refused
since it started. An approval that reads a token reusable *after* it was ended is
not excused: if the listing ever offered one, `EndedStaysEnded` would fail (its
mutant, a covering test that looks in both directions, does just that).

Abstractions: rows of a lane are ordered by insertion (the code orders by the
writer's millisecond clock; equal or skewed clocks are not modelled); one owner
identity (the code also looks up aliases); one agent, plus the owner; several
covering broader lanes are picked nondeterministically; an entry of the memory
may be dropped at any time after the token's expiry (the code waits an hour);
deletion of a profile is `Disconnect` too. The comment in `revoke_consent` about
a unique `token_id` has no counterpart in the schema (`db/migrate.py`), so a
token may be recorded twice, as the reuse branch does.

### ConsentRequests and ConsentPromise

One lane (app, owner, scope). `latest[r]` is the action of the latest row of a
request, `timedOut[r]` whether it has a `TIMEOUT` row, `born[r]` the order of
its `REQUESTED` row. Terms are what `_pending_request_matches` compares. `lane`
says what the lane's scope is, chosen in `Init` and constant from then on. Each
asker is of one of two handlers (`via`): `request_consent` goes through the active
check, the pending check, the cool-down, the advisory lock, the second pending
check and the insert; the A2A handler through the active and pending checks and
the insert. A lane of information scopes is asked for through the first only;
that of `cap.one.invoke` through both, by the same app and at the same time. A
decider reads a request (`Open`) and writes its answer in a later step. Each
process in `jobs` scans for overdue requests (`ScanDue`) and writes `TIMEOUT`
rows one by one. `run_consent_listener` is started once per process and cancels
the job for good when the pool or LISTEN fails, so `jobs` is any set of processes
at first, and `Restart` replaces a process by one with or without a job. The scan
reads the newest rows of the whole ledger only (`_background_scan_limit`, 100 to
10 000): `OthersAsk` raises `horizon`, below which rows are no longer read.
`answers` and `contested` are history variables.

`ConsentPromise` knows neither handlers nor locks nor rows: a request is
unasked, open or settled, it may be overdue, it may have been shown to somebody
who is about to answer, and some request's grant is in force. It is settled once
and never open again, it lapses only when overdue, a verdict comes from somebody
it was shown to while it was open and without a verdict, a second verdict needs a
dispute (shown to two at once), and what is in force is what was approved last.
`KeepsConsentPromise` is that specification under the mapping `phase <- Phases`
(from the latest row), `overdue <- Overdue`, `shown <- Shown` (what a decider has
read), `disputed <- contested`, `verdict <- answers`, `inForce <- grant`. Asking,
locking, scanning and the cool-down are stutters of it up to the insert.

Abstractions: the grant of the lane is the request it came from; the
millisecond in which a request is neither pending nor overdue is ignored;
`DB_OFFLINE`'s in-process lock is not modelled; `IdsLeft` stops new asks when
the bounded set of request ids could run out, so that no handler is stuck by
the bound.

### ConsentNotify

The rows of a request (`status`), its window (`clock`: early, due for a reminder,
over) and the internal log of deliveries; per process the announcements under way
(`wire`), handlers that wait for an adviser's identity (`parked`), the delivery
made and not yet recorded (`recording`) and the job's round. `Ask` announces to
who listens at that moment. A process suspends only at the identity look-up, so
between its own statements nothing else of the same process runs (`Busy`); other
processes do. `Receive`/`Resume` deliver, `Record` writes the log or `RecordFails`
does not. `JobScan`, `JobEvents`, `JobDeliver` are the three stages of the
notification job: what is due is decided on what was read. `Crash`, `Start` and
`LoseConnection` are the faults; a broken LISTEN connection is never opened again
(`run_consent_listener` sleeps on). `Start`, like `Init`, leaves a process either
with its listener and its jobs or with neither: a pool or a LISTEN that fails
cancels the jobs and returns, and nothing starts them again while the process
lives. A job reads the newest rows of all owners only, so a request may drop out
of what it sees (`Bury`). `sent` and `nagged` count deliveries.

### ConsentStreams

One process seen from its queues: ledger rows arrive in commit order, adviser
rows are enriched out of order (`Park`, `Resume`), and each is pushed to the
owner's one bounded queue and to the queue of every developer stream of that
request; a full queue drops its oldest. The job may push again what it read as
pending. Clients `Connect` (the queue is made by the first), `Consume` (`Took`:
each shows only the first event of a request, as `notified_event_ids` does, and
skips the later ones) and `Disconnect`. A developer stream reads the status
(`OpenStream`), subscribes when its generator first runs (`Subscribe`) and ends
with the terminal event. `lossy`, `stolen`, `skipped`, `since` and `gap` are
history: whether anything was lost to a full queue or a broken connection, the
rows another connection took, the rows this one took and did not show, the length
of the ledger when it connected, and an answer between read and subscription.

### AdvisorRelationship

One adviser. The ledger is reduced to the newest row per request id (`req`), per
scope (`head`) and the newest grant or revocation per scope (`grant`). Every
handler that writes a row (`Answer`, `Revoke`, `TimeOut`) then runs
`sync_relationship_from_consent_action` in a transaction of its own: `SyncRead`
computes the status from the ledger and `SyncWrite` stores it with the picks
share; `SyncFails` is the logged exception. `Ask` is a single request or a bundle,
`InviteRead`/`InviteAsk`/`InviteAccept` the three transactions of
`accept_ria_invite`. `disconnect_relationship` and `set_ria_pick_share_state` are
one transaction each, but READ COMMITTED and without a lock, so each is two steps:
`DisconnectRead` takes the last request and the active scopes, `DisconnectWrite`
revokes those scopes and sets the status whatever it has become;
`SetPickShareRead` passes when the status is approved, `SetPickShareWrite` then
switches the share. `Overtaken` marks a handler when another one writes what it
had read: a synchronisation by any row of the investor, a disconnection by a
grant, the switching on of the share by the closing of the relationship. `drift`
collects the investors for whom the code leaves status and ledger apart, each for
a reason named in the comment of `StatusTracksLedger`.

Abstractions: reading and marking an expired invite is one step, and so are the
two reads of a disconnection; `DeleteProfile`, which removes the relationships it
has read, is one step, since no property looks at the ledger of a relationship
that is gone; the investor-to-adviser direction, pick artifacts, firms and
verification are left out; scopes stand for the adviser's templates.

### LocationSharing

One owner. Shares with status, recipient, deadline passed or not, the request
they answer and whether an envelope is stored; requests; referrals; the
recipients that have a key. Every statement is a step: `CreateGrant` or
`ApproveRead`, `EndActive`, `InsertShare`, `ApproveResolve`; `StoreRead`,
`StoreInsert`; `ViewBegin`, `ViewRead`, `ViewServe`; `Ask` or `ReferRead`,
`AskRead`, `AskInsert`, `ReferInsert`. `Housekeep` is `_expire_stale_grants` with
the purge it calls; which rows are past retention is a choice. `Fails` is a
statement that raises after an earlier one was committed. `overlap`, `cut` and
`servedLate` are history. Revoked and expired are one status, since nothing tells
them apart; public and circle invites, the activity feed and recommendations are
left out.

### EmailKyc

One workflow with one scope. `wf` is the row, of whose metadata the model keeps
the selection, the consent request, the bound export revision and
`external_reply_blocked`. A call reads the row (`Read`), consults the ledger and
plans an update; `Write` stores the columns it sets and the metadata *as read*,
since the UPDATE compares nothing. `blurred` records that a write lost another's,
that something was written while a send was under way, or that the fate of a send
was lost. The ledger (`Answer`, `GrantElsewhere`, `Revoke`, `Expire`,
`RefreshExport`) moves by itself; another workflow's grant for the same scope may
be reused. An update is a record over some of the columns, and `With(row, u)` the
row with them written over it. Left out: several scopes, rows without `consent_requests`, unmatched
senders, the outgoing mail queue.

## 3. Runs and bounds

| Run | Instance | Checks | Distinct states |
|---|---|---|---|
| `export_refresh` | one token, two PKM writers, two devices, three claim ids, two commits, one lease that runs out, one failure report; fairness | types; `CurrentCoversScheduled`, `PendingHasOpenJob`, `RevokedHasNoExport`, `RefreshAdvances`, the refinement `KeepsPromise`, `PendingSettles` | 1 110 000 |
| `consent_tokens` | two processes, a broad, a narrow and the owner's lane (both of the first reuse broader tokens), two tokens, one failed statement or restart | types; `EndedStaysEnded`, `AcceptHonoursRevocation`, `LocalRevocationStrict`, `MemoryAgreesWithLedger` | 4 320 000 |
| `token_withdrawals` | two processes, an adviser's lane over a developer lane that reuses nothing broader, the owner's, two tokens, one scope withdrawal, disconnects | `MemoryAgreesWithLedger`, `StrictListedIsValid` | 1 910 000 |
| `requests_ask` | three requests, two askers, two sets of terms, one decider, one worker, either kind of lane | types; `DuplicatesNeedDetour`, `RacingDuplicatesBounded` | 1 710 000 |
| `requests_answer` | two requests, one asker, two deciders, two workers | `OneAnswer`, the refinement `KeepsConsentPromise` | 3 030 000 |
| `requests_live` | two requests, two askers, one decider, two processes with or without a job, one failure or restart, a scan that loses the older request; fairness | `OverdueSettles`, `AskAnswered` | 341 000 |
| `consent_notify` | two processes, one request (an adviser's or not), any set of processes with jobs, two faults; fairness | types; `DeliveriesBounded`, `NagBounded`, `PendingNotified` | 1 110 000 |
| `consent_streams` | two requests (one adviser's), two of the owner's connections, one developer stream, queues of one, three rows | types; `StreamHearsAnswer`, `ConnectedHears` | 3 380 000 |
| `advisor_relationship` | one investor, two scopes, two requests, two handlers, one failure | types; `StatusTracksLedger`, `ClosedSharesNothing`, `InviteUsedOnce` | 5 840 000 |
| `location_sharing` | two recipients, two shares, one request, two handlers | types; `SharesReplaced`, `ShareAnswersRequest`, `LateViewRefused` | 2 270 000 |
| `email_kyc` | two handlers, two export revisions | types; `OneReply`, `ReadyIsBound`, `WritebackFollowsSend` | 3 490 000 |
| `email_kyc_recover` | one handler, two export revisions | `RecoveredIsSendable`, **violated** (section 5) | - |

State counts are rounded, after symmetry where a configuration names it (never
with a liveness property). A run takes between a few seconds and three minutes.

Why the bounds are enough for these questions:

* *Exports.* Tokens do not share rows, so one token is the general case for the
  protocol (the proofs drop the restriction anyway). Two commits and three
  claim ids allow: lease, lease lost, second device leases, second commit
  reopens the job, third lease, and the late upload or failure report of each
  earlier holder.
* *Tokens.* Every hazard of section 1 is a race between two handlers over one
  token that is replaced or revoked; the second token is the replacement. The
  bounds keep two processes in every combination of handlers; one fault can
  strike any statement.
* *Requests.* A duplicate behind a detour takes three requests; a race takes two
  askers or two deciders. Two workers matter only to `OneAnswer`
  (both may emit `TIMEOUT` for one request), and to `OverdueSettles`, where one
  process may be without a job or lose it. `MaxBuried` of one lets the scan of
  `requests_live` lose the older of two requests while it still reads the newer:
  that is the cap of `get_timed_out_requests` at work, and the excuse of
  `OverdueSettles` for exactly those rows.
* *Notifications.* Deliveries of different requests share nothing but the order
  in which a process works, so one request is enough for counts and liveness;
  two processes with two faults contain every loss of the announcement to all
  of them. For the queues, limits of one overflow at the second event; three
  rows make ask, answer and the event of another request, or ask, grant,
  revoke.
* *Advisers.* Two scopes and two requests are needed for a bundle, for a second
  request of the same scope and for an event that is not of the last request;
  two handlers for a synchronisation, a disconnection or a switch of the share
  that writes after another handler overtook it.
  Investors share only the profile and the invite; deletion and the two-handler
  race for the invite are reached with one.
* *Location.* Two shares of one recipient by two handlers; the second recipient
  is needed for a referral.
* *KYC.* Two handlers are the smallest number that loses an update. Once
  `blurred` is set every property but the type is vacuous, so the search stops
  there (`CONSTRAINT Clear`, `ACTION_CONSTRAINT NoLostUpdate`): what is checked
  is every behaviour up to the first lost update or lost outcome.

Deadlock is checked in `location_sharing` and in the two KYC runs. The other
configurations say `CHECK_DEADLOCK FALSE` because each bounded instance really
stops: all ids are used, all tokens expired, the last content or row written.

## 4. Fairness

Safety runs assume none.

`PendingSettles` assumes that time passes (`LeaseExpire`), that the owner's
unlocked devices keep polling and work on what they leased (`Claim`, `Prepare`,
the upload), that a handler that started finishes, and that an upload's answer is
eventually received. Weak fairness is all of it; nobody is obliged to write,
approve, report a failure or give up, and a device may still drop a job. The
guarantee is for owners who open the app: the server refreshes nothing by itself.

`OverdueSettles` and `AskAnswered` assume that a handler that started goes on
(weak fairness), that a timeout job that runs scans again (`_timeout_job_loop`
sleeps and loops, errors caught), and strong fairness of `Acquire`: Postgres
queues the waiters of an advisory lock, so a waiter is not passed over forever.
That a job runs at all is not assumed by the specification, since
`run_consent_listener` gives up for good when the pool or LISTEN fails at start
and a replaced process may come up without a job. It is the premise of
`OverdueSettles`: if some process eventually keeps its job, every overdue request
settles, unless the job's scan no longer reaches its row. The owner never has to
answer.

`PendingNotified` assumes that handlers and identity look-ups return, and that a
notification job that was not cancelled sleeps a minute and runs again whatever it
met. Again its premise, and not the fairness, says that some process eventually
keeps its job; neither the restart of a dead process nor a successful start is
assumed. A broken LISTEN connection never comes back, because the code does not
reconnect; faults are bounded in number.

## 5. Where the repository's own statements fail, and what else the models show

`email_kyc_recover` is the one run that TLC must refute. A denied workflow writes
`external_reply_blocked` into its metadata; a later grant brings the workflow back
to a ready draft, which a test of the repository asserts
(`test_refresh_blocked_workflow_recovers_when_active_grant_exists`); but nothing
clears the flag and `send_approved_reply` refuses every workflow that carries it,
so the draft that is offered can never be sent. `PROJECT.json` quotes the lines.

Behaviours the models contain, kept as notes. None of them is assumed away: each
property of section 3 names it as its exception or holds in spite of it.

Exports
* A refresh that failed once is leased again, but its upload is refused because
  the export is `refresh_failed`, until the owner writes the domain once more.
* A revocation whose DELETE of the export fails is recorded all the same: the
  export and its job stay, and polling devices make the server lease and drop that
  job, which no upload can finish any more, until the token's expiry.
  `RevokedHasNoExport` shows that this is the only way an export outlives its
  revocation.
* A grant recorded between a writer's listing of tokens and its commit is not
  scheduled for refresh, though it is active when the content changes.

Tokens
* An approval that read a token as reusable records it as granted although
  another process revoked it meanwhile: the token is in force again.
  `EndedStaysEnded` shows that this is the only way back: the approval must have
  read the token before it ended.
* After a broader token was reused on a narrower lane, revoking the narrower lane
  writes `REVOKED` there only; the token stays in force through its own lane.
  After the revocation of the broad lane the narrower one still lists the token
  and hands it out; validation refuses it.
* `logout_session` looks in the external ledger for owner sessions that are
  recorded in the internal one, so it ends none.
* When the ledger cannot be read, `validate_token_with_db` refuses third-party
  tokens; its docstring speaks of a fall-back to memory. (Refusing is what
  `AcceptHonoursRevocation` needs.)

Requests
* Ask, ask with other terms, ask as at first: the first pending row is not found
  again. On lanes of information scopes, where every asker takes the lock,
  `DuplicatesNeedDetour` shows that this is the only way to a duplicate.
* `cap.one.invoke` can be asked for through `request_consent`, which takes the lock,
  and through the A2A handler, which does not; racing asks leave equal pending rows,
  together at most as many as there are handlers (`RacingDuplicatesBounded`).
* A request answered in time gets a `TIMEOUT` row when its deadline passes, and
  that is then its latest row.
* Approve and deny of one request that are under way together leave a grant in
  force and `CONSENT_DENIED` as the latest row; `OneAnswer` shows that such an
  overlap is necessary.
* With more newer `REQUESTED` rows than the scan reads, an overdue request is never
  timed out, and the reminder job overlooks a request in the same way.
* A process whose pool or LISTEN fails at start has neither time-out nor reminder
  job while it lives; when that is true of every process, overdue requests stay
  `REQUESTED` and lost announcements are not made up for.

Notifications
* A full queue drops its oldest event "so the consumer always receives the most
  recent consent state" (comment at `consent_listener.py:127`). The consumer does
  not: a connection shows only the first event of a request (`notified_event_ids`,
  `sse.py:215`), so after `REQUESTED` it skips the answer. The comment is wrong of
  the program as a whole; `ConnectedHears` states what is true instead, with the
  skipped rows as its named exception. Without that exception (drop `skipped` from
  its last line) TLC answers with a connection that has shown a request and takes
  its answer.
* Two connections of one owner share one queue, so each sees a part of the events.
* A developer stream reads the status before it subscribes; an answer handled in
  between is not told (`gap`).
* A delivery precedes its record, so every process, and every fault, can add one.

Advisers
* The `TIMEOUT` row of an answered request, or the denial of a second scope, ends
  the picks share of a relationship that stays approved.
* Approve, disconnect, then the late synchronisation of the approval: the status
  `disconnected` is overwritten and the share is made again.
* An approval, with its synchronisation, that commits between the read and the write
  of a disconnection leaves `disconnected` with a grant in force.
* A disconnection between the test and the write of `set_ria_pick_share_state`
  leaves a closed relationship with an active share.
* After a disconnect an older pending request of a bundle can still be approved;
  its synchronisation is ignored because it is not the last request.
* `delete_ria_self_profile` revokes for relationships whose status is approved or
  pending; one whose status drifted to a closed one keeps its grant.

Location
* Two overlapping creations leave two active shares for one recipient, and the
  approval of a request overwrites a denial recorded meanwhile.
* Between the two statements of a key rotation the recipient has no key.

KYC
* A lost update restores the metadata an older call had read.
* `send_status` is set to sending and never looked at, so overlapping sends deliver
  twice; `select_scopes` resets it but not the writeback status.
* The scope selection that `redraft` asks for is undone by the next refresh.

## 6. What is proved

Thirty-five theorems: every invariant and every action property the runs check,
and both refinements, each for every value of the constants. Assumed is only what
the modules name:
distinguished values are not members of their sets, bounds are naturals, limits
of queues are at least one, `Covers` is a partial order on the lanes, the
owner's lane is none of the developers' or advisers', terms keep their own export,
advisers' requests are requests, and the processes, handlers and askers that a
property counts are finitely many. Each module's `SafetyInv` is its types, its
safety properties and what makes them inductive; there is a lemma per conjunct (in
`EmailKycProofs` one per action), with a step per action, and the theorems follow
from `SafetyAlways`.

* `ExportRefreshProofs`: `TypeCorrect`, `CurrentCovers`, `OpenJob`,
  `RevokedClean`, `Advance`, `Refinement`. A current export could be outdated by a
  late upload, so the invariant speaks about uploads under way: whoever still
  holds the claim of an open job has prepared content as new as the schedule
  (`HoldsFresh`; a commit that schedules newer content also takes the claim
  away), nothing is newer than the PKM content (`NothingAhead`), and a token that
  is not yet granted is neither scheduled nor listed (`UngrantedUnscheduled`,
  `NoEarlyExport`). What a failed DELETE leaves behind is in `leftover`, and no step
  makes an export for a revoked token outside it. `Advance` is the action property, from the same invariant.
  `Refinement` shows that every step is a step of `ExportPromise` or a stutter:
  `ShareStates` names the values of the mapping, `SharesFrame` and `SharesUnseen`
  dispose of the steps that do not touch what it reads (all that happens to a
  leftover among them), and the rest are a
  `Write` (the commit, with the exports it marked as `known`), an `Approve`
  (`StoreExport`), a `Renew` (`UploadCommit`, where `HoldsFresh` provides that
  what is owed is made up for), a `GiveUp` (`FailMark`) or a `Close`.
* `ConsentTokensProofs`: `TypeCorrect`, `EndedForever`, `LocalStrict`,
  `MemoryAgrees`, `ListedIsValid`, `AcceptSafe`. A token is never known before it
  is issued (`UnissuedUnknown`); rows grant tokens of their own lane or shared
  ones (`RowsFitLane`), and of a scope that covers the lane (`RowsCovered`); so an
  approval that records a token on the token's own lane had read it there, since two
  scopes that cover each other are one, and it finds the token still in force unless
  it was overtaken (`ReuseInForce`, `EndedNotInForce`); every entry of a memory has a
  reason that lasts
  (`MemoryJustified`); what a process refused it remembers until the token has
  expired (`RefusedRemembered`).
* `ConsentRequestsProofs`: `TypeCorrect`, `NoRacingDuplicates`, `AnswersApart`,
  `RaceBounded`, `Refinement`. Where every asker takes the lock (`ViaFitsLane`) only
  its holder inserts (`LockHeld`), and what it saw at its second look still holds
  when it does (`SecondLookHolds`: nobody else inserts, and other steps only make
  requests stop pending); outside an overlap the answer under way is the first
  (`OpenUnanswered`, `OpenIsFirst`). Where handlers with and without the lock share a
  lane the bound alone is not inductive: an asker past its look inserts whatever the
  others have inserted since. `RaceCounted` adds those askers to the pending
  requests for the same terms as long as nothing else was asked for; a look lets one
  more on only when no such request is pending (`RaceLook`, `RaceRecheck`; the newest
  pending request exists, `NewestExists`), an insert of the same terms turns one of
  the first into one of the second, and one of other terms closes the group
  (`RaceInsert`).
  `Refinement` shows that every step is a step of `ConsentPromise` or a stutter.
  `PhasesMove` says what a new row does to the mapping, `ShownLeaves` what a
  decider that ends does to it; `PromiseFrame` and `PromiseUnseen` dispose of the
  steps the mapping does not see. For an answer (`AnswerDecides`) `OpenIsFirst`
  provides that outside a dispute it is the only one; that revoking a grant
  settles nothing anew, and that what the timeout jobs scanned is overdue, is
  `GrantsAnswered`.
* `ConsentNotifyProofs`: `TypeCorrect`, `Bounded`, `Nagging`. Also by counting:
  what was delivered *and the processes that can still deliver* stay below the
  bound (`FirstCounted`, `ReminderCounted`, `NagCounted`). A delivery takes its
  process out of that set for good, except when the record of it fails, which
  costs a fault. For this a process must hear of a request once and its job hold
  it once (`HeardOnce`, `OneItemEach`), and nothing be heard of a request before
  it is made (`OnlyAsked`).
* `ConsentStreamsProofs`: `TypeCorrect`, `HearsAnswer`, `Connected`. A full queue
  drops its oldest event, so a terminal event can be dropped only for a later one
  of the same stream, and the stream could end up holding a `REQUESTED` alone; the
  proof needs that on the wire an answer follows the asking it is about
  (`AnswerFollows`), that no stream goes on after it told an answer
  (`LiveIsUntold`), that only advisers' events are handled out of order
  (`ParkedAreAdvisers`) and that every loss is noted (`LossIsNoted`).
  `NewestAppended` says what the newest row of a request is after an insert; that a
  newest row exists is the least-number principle (`SmallestIn`, from the
  well-foundedness of `<`).
* `AdvisorRelationshipProofs`: `TypeCorrect`, `TracksLedger`, `SharesNothing`,
  `UsedOnce`. Each handler that reads and writes in separate steps is judged by what
  it read: a synchronisation about to write a status computed earlier is still right
  about the ledger unless a later row has overtaken it (`WritesWhatIsTrue`), a
  disconnection revokes every scope that is active unless one was granted since
  (`CutsWhatIsActive`), a share is switched on along an open relationship unless it
  was closed since (`SharesWhileOpen`); rows, grants and relationships refer to requests of their
  own investor (`RowsOfInvestor`, `RunHasInvestor`); without a relationship
  nothing is shared and without a profile there is none (`NoRelNoShare`). For the
  invite the acceptances under way are tracked with the requests made of it
  (`InviteInOneHand`); the property's cardinality follows from "any two are equal".
* `LocationSharingProofs`: `TypeCorrect`, `Replaced`, `AnswersRequest`,
  `LateRefused`. Between ending the old shares and inserting the new one a handler
  has seen every creation that made another share active (`SeenWhileInserting`);
  the request of an active share is still to be resolved by the very handler that
  made it (`ShareBeingResolved`, with `RequestsMade` and `RunHasSubject`); a share
  that was over when a view began is ended by the time it is read, and no step
  revives it (`LateViewsFindItEnded`).
* `EmailKycProofs`: `TypeCorrect`, `RepliesOnce`, `ReadyBound`,
  `WritebackFollows`. Since an update restores the metadata its handler read, an
  invariant about the row says nothing about what a handler will write. So up to
  the first lost update every handler whose snapshot is fresh is judged by the row
  it *would leave* (`GoodWrite`, `Careful`): bound to a revision that exists,
  telling of as many replies as were mailed, with the writeback closed unless one
  was. While a send is under way nobody else is fresh, and the sender is judged
  apart (`Sender`). Two conjuncts hold beyond lost updates, and the type needs
  them: grants have exports (`GrantsHaveExports`), and no update takes the row
  back to before its intake (`RowsMoveOn`). `TypeCorrect` therefore covers what
  the run does not reach: whatever updates overwrite each other, the row has a
  status the schema knows.

Every `SafetyInv` was checked with TLC on the module's run before it was proved.

## 7. Only model-checked

Liveness (`PendingSettles`, `OverdueSettles`, `AskAnswered`, `PendingNotified`):
fairness and `ENABLED` are beyond the prover. `RecoveredIsSendable` does not hold
(section 5). Nothing else: no safety property of a run is left to TLC alone.

## 8. Not modelled

`PROJECT.json` lists every component with the reason. In short: cryptography and
signatures (tokens are unforgeable values), envelope contents and the zero
knowledge client, document parsing, LLM and market data code, read models
(consent centre), integrations whose state lives elsewhere (Plaid, Alpaca,
Gmail), deployment tooling. Within the modelled parts: clock skew between
processes (rows are ordered by insertion), the database connection pool, and
owner identity aliases.

The modules cover a small share of the repository's 170 000 lines of Python.
Most of the rest is conversion of data (portfolio parsing, PKM manifests and
projections, prompts, market data), calls of outside services and read models:
code with no state of its own between two calls, about which a state machine has
nothing to say. The parts that do keep state and are still missing are in the
plan.

## 9. Plan

1. `ScopeMatch`: the scope grammar and matching as pure operators against a
   reference definition, and with it the assumption on `Covers`.
2. PKM upgrade runs (resumable steps), Kai run managers (start, attach, cancel,
   clean-up), vault key wrappers, marketplace requests, connections.
3. An abstract grant (issued, in force, ended) that `ConsentTokens` implements,
   with the exceptions of section 5 explicit, as `ConsentPromise` does for
   requests.

New runs replace or join the ones above where the question is the same, so that
each run remains a question of its own.
