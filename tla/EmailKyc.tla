------------------------------ MODULE EmailKyc ------------------------------
(***************************************************************************)
(* One email-KYC workflow: a counterparty writes to the One mailbox, the   *)
(* owner picks the data to disclose, the consent ledger is asked, and once *)
(* an encrypted export is there the owner sends an approved reply          *)
(* (hushh_mcp/services/one_email_kyc_service.py).                          *)
(*                                                                         *)
(* The workflow is one row of one_kyc_workflows.  Every operation reads    *)
(* the row, consults the ledger, and writes back the columns it sets and   *)
(* the WHOLE metadata document as it stood in the row it read: the UPDATE  *)
(* compares nothing.  A handler therefore carries its snapshot w and the   *)
(* update u it is about to write.                                          *)
(*                                                                         *)
(* The data asked for is one scope, so the workflow has one consent        *)
(* request of its own ("own"); "other" is a request of another workflow    *)
(* for the same scope, whose grant this one may reuse.  Of the metadata    *)
(* the model keeps selected_scopes (as a Boolean), consent_requests,       *)
(* consent_exports (the bound export revision, 0 for none) and             *)
(* external_reply_blocked.                                                 *)
(***************************************************************************)
EXTENDS Naturals

CONSTANTS
  Handlers,    \* concurrent calls into the service
  MaxRev       \* bound on export revisions, over all grants

ASSUME RevAssumption == MaxRev \in Nat \ {0}

VARIABLES
  wf,          \* the workflow's row
  ledger,      \* per request: its latest action, its token unexpired, its export
  run,         \* what each handler is doing
  mailed,      \* replies that reached the counterparty (counted to 2)
  blurred      \* history: a write lost another's, or the fate of a send got lost

vars == <<wf, ledger, run, mailed, blurred>>

Requests == {"own", "other"}

\* "REFUSED" is CONSENT_DENIED, DENIED or REVOKED: the service never tells them apart.
Actions == {"none", "REQUESTED", "GRANTED", "REFUSED", "TIMEOUT"}

\* Values nothing in the service tells apart are one: a rejected draft is
\* "not_ready", a failed send "not_started", and a writeback that failed stays
\* "pending" until it succeeds.
NoRow == [status |-> "none", refused |-> FALSE,
          draft |-> "not_ready", send |-> "not_started", wb |-> "not_started",
          sel |-> FALSE, req |-> "none", bound |-> 0, barred |-> FALSE]

NoUpdate == [c \in {} |-> "none"]

Unread == [status |-> "none", draft |-> "not_ready",
           sel |-> FALSE, req |-> "none", bound |-> 0, barred |-> FALSE]

Idle == [pc |-> "idle", w |-> Unread, u |-> NoUpdate, then |-> "idle", fresh |-> TRUE]

Init ==
  /\ wf = NoRow
  /\ ledger = [r \in Requests |-> [action |-> "none", live |-> FALSE, rev |-> 0]]
  /\ run = [h \in Handlers |-> Idle]
  /\ mailed = 0
  /\ blurred = FALSE

-----------------------------------------------------------------------------
(* The ledger as the service sees it.                                      *)

\* row with the columns of u written over it.
With(row, u) == [c \in DOMAIN row \cup DOMAIN u |-> IF c \in DOMAIN u THEN u[c] ELSE row[c]]

\* The metadata document an update carries over from the row it was built from.
Meta(w) == [sel |-> w.sel, req |-> w.req, bound |-> w.bound, barred |-> w.barred]

\* get_covering_active_tokens and the export of each.
Active == {r \in Requests : ledger[r].action = "GRANTED" /\ ledger[r].live}

\* The request whose grant stands for r: its own when its last row is a grant,
\* else any active one.
Standing(r) == IF ledger[r].action = "GRANTED" THEN {r} ELSE Active

\* get_consent_export: an export is read only while its token is unexpired.
Readable(r) == ledger[r].live

Refused(r) == ledger[r].action = "REFUSED"

\* The next revision; revisions of different grants differ by their time stamp,
\* so all grants share one count.
Newer == {n \in 1..MaxRev : /\ \A r \in Requests : n > ledger[r].rev
                            /\ \E r \in Requests : n = ledger[r].rev + 1}

\* _get_active_client_connector: whether the owner's client has a key registered.
\* register_client_connector may store the first key at any moment, and rotates
\* the old key out in a statement of its own before it stores a new one, so each
\* read may find a key or none.
ActiveConnector == BOOLEAN

Ready(w) == w.status = "waiting_on_user" /\ w.draft = "ready"

-----------------------------------------------------------------------------
(* Reading and writing the row.                                            *)

Goto(h, pc) == run' = [run EXCEPT ![h] = IF pc = "idle" THEN Idle
                                                   ELSE [run[h] EXCEPT !.pc = pc]]

\* What a handler at pc still uses of the row it read.
Snapshot(pc, row) ==
  IF pc \in {"redeliver", "refresh", "look", "ask"}
  THEN With(Meta(row), [status |-> row.status, draft |-> row.draft])
  ELSE With(Unread, Meta(row))

\* get_workflow.  A row that matched no user belongs to nobody and is not modelled.
Read(h, pc) ==
  /\ wf.status # "none"
  /\ run' = [run EXCEPT ![h] = [Idle EXCEPT !.pc = pc, !.w = Snapshot(pc, wf)]]
  /\ UNCHANGED <<wf, ledger, mailed, blurred>>

\* The update is known; writing it is a step of its own, after which the
\* handler goes on at then.
Plan(h, u, then) ==
  run' = [run EXCEPT ![h] = [run[h] EXCEPT !.pc = "write", !.w = Unread, !.u = u,
                                           !.then = then]]

\* The same from a row read in this very step.
PlanNow(h, u, then) ==
  /\ run[h].pc = "idle"
  /\ run' = [run EXCEPT ![h] = [Idle EXCEPT !.pc = "write", !.u = u, !.then = then]]
  /\ UNCHANGED <<wf, ledger, mailed, blurred>>

Sending == {"mail", "delivered", "undelivered"}

Mailing(h) == run[h].pc \in Sending

\* _update_workflow: no compare-and-set, and RETURNING * gives the handler the
\* row as it now is.
Write(h) ==
  /\ run[h].pc = "write"
  /\ LET row == With(wf, run[h].u)
         next == IF run[h].then = "idle" THEN Idle
                 ELSE [Idle EXCEPT !.pc = run[h].then,
                                   !.w = Snapshot(run[h].then, row)]
     IN /\ wf' = row
        /\ run' = [g \in Handlers |->
                     IF g = h THEN next
                     ELSE IF run[g].pc = "idle" THEN run[g]
                     ELSE [run[g] EXCEPT !.fresh = FALSE]]
  /\ blurred' = (blurred \/ ~run[h].fresh \/ \E g \in Handlers \ {h} : Mailing(g))
  /\ UNCHANGED <<ledger, mailed>>

-----------------------------------------------------------------------------
(* Intake.                                                                 *)

\* Mutant: the router's verdict is stored as the status.
IntakeStatusRaw(verdict, connector) ==
  CASE verdict = "unsupported" -> verdict
    [] verdict = "routed" /\ connector -> "needs_confirm"
    [] OTHER -> "needs_client_connector"

\* The status _process_message gives the new row.
IntakeStatus(verdict, connector) ==
  CASE verdict = "unsupported" -> "blocked"
    [] verdict = "routed" /\ connector -> "needs_confirm"
    [] OTHER -> "needs_client_connector"

\* process_message_id of a new message: the routing model's verdict and the
\* connector are read before the row is inserted.
Intake(h) ==
  /\ run[h].pc = "idle" /\ wf.status = "none"
  /\ \E verdict \in {"routed", "unsupported"}, connector \in ActiveConnector :
       run' = [run EXCEPT ![h] = [Idle EXCEPT !.pc = "intake",
                        !.w = [Unread EXCEPT !.status = IntakeStatus(verdict, connector)]]]
  /\ UNCHANGED <<wf, ledger, mailed, blurred>>

\* _insert_workflow: gmail_message_id is unique, so a second insert fails.
InsertWorkflow(h) ==
  /\ run[h].pc = "intake"
  /\ wf' = IF wf.status = "none" THEN With(NoRow, run[h].w) ELSE wf
  /\ Goto(h, "idle")
  /\ UNCHANGED <<ledger, mailed, blurred>>

\* process_message_id when the message already has a workflow: a second push,
\* or the recent-mail sync.
Redeliver(h) ==
  /\ run[h].pc = "idle" /\ wf.status \in {"needs_client_connector", "needs_scope"}
  /\ Read(h, "redeliver")

Repair(h) ==
  /\ run[h].pc = "redeliver"
  /\ LET w == run[h].w IN \E connector \in ActiveConnector :
       CASE w.status = "needs_client_connector" /\ connector ->
              Plan(h, With(Meta(w), [status |-> "needs_confirm", refused |-> FALSE]), "idle")
         [] w.status = "needs_scope" /\ w.req = "none" /\ w.sel -> Goto(h, "ensure")
         [] OTHER -> Goto(h, "idle")
  /\ UNCHANGED <<wf, ledger, mailed, blurred>>

-----------------------------------------------------------------------------
(* Asking the ledger.                                                      *)

\* _ready_workflow_from_existing_grants and the ready branch of the refresh.
ReadyUpdate(w, r) ==
  With(Meta(w), [status |-> "waiting_on_user", draft |-> "ready", refused |-> FALSE,
                 sel |-> TRUE, req |-> r, bound |-> ledger[r].rev])

\* Leaving the wait for a connector; every such row has a proposal to confirm.
Advanced(w) == IF w.status = "needs_client_connector" THEN "needs_confirm" ELSE w.status

\* _should_reissue_consent_requests: the last row is neither an answer nor
\* still pending.
Lapsed(r) == ledger[r].action \in {"none", "TIMEOUT"}

\* _ensure_consent_request, which a refresh continues at "look" and the others
\* end with; select_scopes passes the connector it found.  The REQUESTED row is
\* in the ledger before the workflow's row says so.
EnsureConsentRequest(h) ==
  /\ run[h].pc \in {"ensure", "refresh", "ask"}
  /\ LET w == run[h].w
         then == IF run[h].pc = "refresh" THEN "look" ELSE "idle"
         asked == w.req # "none" /\ ~Lapsed(w.req)
     IN \E keyed \in IF run[h].pc = "ask" THEN {TRUE} ELSE ActiveConnector :
          \/ /\ ~keyed
             /\ Plan(h, With(Meta(w), [status |-> "needs_client_connector", refused |-> FALSE]),
                     then)
             /\ UNCHANGED ledger
          \/ /\ keyed
             /\ \E r \in Active : Plan(h, ReadyUpdate(w, r), then)
             /\ UNCHANGED ledger
          \/ /\ keyed /\ Active = {} /\ ~w.sel
             /\ Plan(h, With(Meta(w), [status |-> Advanced(w), refused |-> FALSE]), then)
             /\ UNCHANGED ledger
          \/ /\ keyed /\ Active = {} /\ w.sel /\ asked
             /\ Goto(h, then)
             /\ UNCHANGED ledger
          \/ /\ keyed /\ Active = {} /\ w.sel /\ ~asked
             /\ ledger' = [ledger EXCEPT !["own"].action = "REQUESTED"]
             /\ Plan(h, With(Meta(w), [status |-> Advanced(w), req |-> "own"]), then)
  /\ UNCHANGED <<wf, mailed, blurred>>

\* confirm_proposal: stores the confirmed items, then select_scopes reads again.
ConfirmProposal(h) ==
  wf.status = "needs_confirm" /\ PlanNow(h, Meta(wf), "select")

\* The 409 of select_scopes.
Selectable(w) == w.status # "waiting_on_counterparty"

SelectScopes(h) ==
  /\ run[h].pc \in {"idle", "select"}
  /\ Selectable(wf)
  /\ Read(h, "selected")

\* select_scopes from the connector check to the first UPDATE, which forgets the
\* previous request, draft and send.
Prepare(h) ==
  /\ run[h].pc = "selected"
  /\ LET w == run[h].w IN \E connector \in ActiveConnector :
       IF connector
       THEN Plan(h, With(Meta(w), [status |-> "needs_scope", draft |-> "not_ready",
                                   send |-> "not_started", refused |-> FALSE,
                                   sel |-> TRUE, req |-> "none", bound |-> 0]), "ask")
       ELSE Plan(h, With(Meta(w), [status |-> "needs_client_connector", refused |-> FALSE,
                                   sel |-> TRUE]), "idle")
  /\ UNCHANGED <<wf, ledger, mailed, blurred>>

-----------------------------------------------------------------------------
(* Refreshing.                                                             *)

\* refresh_workflow up to the ledger: a refused workflow first looks for another
\* grant, a waiting one first makes sure that it has asked.
RefreshWorkflow(h) ==
  /\ run[h].pc = "idle"
  /\ \/ wf.status = "blocked" /\ wf.refused /\ Read(h, "recover")
     \/ /\ wf.status \in {"needs_client_connector", "needs_scope", "needs_confirm"}
        /\ Read(h, "refresh")
     \/ Ready(wf) /\ Read(h, "look")

Recover(h) ==
  /\ run[h].pc = "recover"
  /\ \/ \E r \in Active : Plan(h, ReadyUpdate(run[h].w, r), "idle")
     \/ Active = {} /\ Goto(h, "idle")
  /\ UNCHANGED <<wf, ledger, mailed, blurred>>

RefusedUpdate(w) ==
  With(Meta(w), [status |-> "blocked", draft |-> "not_ready", refused |-> TRUE,
                 bound |-> 0, barred |-> TRUE])

\* Mutant: a draft whose export is gone stays with the user.
PendingUpdateStays(w) == With(Meta(w), [refused |-> FALSE, bound |-> 0])

PendingUpdate(w) ==
  With(Meta(w), [status |-> "needs_scope", draft |-> "not_ready", refused |-> FALSE,
                 bound |-> 0])

\* _refresh_selected_scope_workflow: the request's own answer, else another grant.
RefreshSelected(h, w, r) ==
  \/ \E g \in Standing(r) :
       \/ Readable(g) /\ Plan(h, ReadyUpdate(w, g), "idle")
       \/ ~Readable(g) /\ Plan(h, PendingUpdate(w), "idle")
  \/ Standing(r) = {} /\ Refused(r) /\ Plan(h, RefusedUpdate(w), "idle")
  \/ Standing(r) = {} /\ ~Refused(r) /\ Plan(h, PendingUpdate(w), "idle")

Look(h) ==
  /\ run[h].pc = "look"
  /\ LET w == run[h].w
     IN IF w.req # "none" /\ (w.status = "needs_scope" \/ Ready(w))
        THEN RefreshSelected(h, w, w.req)
        ELSE Goto(h, "idle")
  /\ UNCHANGED <<wf, ledger, mailed, blurred>>

-----------------------------------------------------------------------------
(* Sending, and what else the owner does with a draft.                     *)

\* Mutant: a reply that was sent may be sent again.
MayApproveAgain(w) == ~w.barred /\ w.draft \in {"ready", "sent"}

\* The checks of send_approved_reply: a row already sent is returned as it is.
\* send_status is not looked at.
MayApprove(w) == ~w.barred /\ Ready(w)

SendApprovedReply(h) == run[h].pc = "idle" /\ MayApprove(wf) /\ Read(h, "send")

\* _require_sendable_consent and _validate_send_export_binding.
Sendable(w) ==
  /\ w.req # "none"
  /\ \E g \in Standing(w.req) : Readable(g) /\ ledger[g].rev = w.bound

RequireSendable(h) ==
  /\ run[h].pc = "send"
  /\ LET w == run[h].w IN
       IF Sendable(w)
       THEN Plan(h, With(Meta(w), [send |-> "sending", wb |-> "pending"]), "mail")
       ELSE Goto(h, "idle")
  /\ UNCHANGED <<wf, ledger, mailed, blurred>>

\* _send_approved_reply: Gmail may take the mail and the call still raise (a
\* timeout, or a thread that does not match).
Mail(h) ==
  /\ run[h].pc = "mail" /\ mailed < 2
  /\ \/ Goto(h, "delivered") /\ mailed' = mailed + 1 /\ UNCHANGED blurred
     \/ Goto(h, "undelivered") /\ mailed' = mailed + 1 /\ blurred' = TRUE
     \/ Goto(h, "undelivered") /\ UNCHANGED <<mailed, blurred>>
  /\ UNCHANGED <<wf, ledger>>

\* Mutant: a failed send leaves the writeback pending.
SendOutcomeKeepsWriteback(pc, w) ==
  IF pc = "delivered"
  THEN With(Meta(w), [status |-> "waiting_on_counterparty", draft |-> "sent", send |-> "sent"])
  ELSE With(Meta(w), [send |-> "not_started"])

\* The two UPDATEs after the mail.
SendOutcome(pc, w) ==
  IF pc = "delivered"
  THEN With(Meta(w), [status |-> "waiting_on_counterparty", draft |-> "sent", send |-> "sent"])
  ELSE With(Meta(w), [send |-> "not_started", wb |-> "not_started"])

RecordSend(h) ==
  /\ run[h].pc \in {"delivered", "undelivered"}
  /\ wf' = With(wf, SendOutcome(run[h].pc, run[h].w))
  /\ run' = [g \in Handlers |-> IF g = h THEN Idle
                                ELSE IF run[g].pc = "idle" THEN run[g]
                                ELSE [run[g] EXCEPT !.fresh = FALSE]]
  /\ blurred' = (blurred \/ ~run[h].fresh \/ \E g \in Handlers \ {h} : Mailing(g))
  /\ UNCHANGED <<ledger, mailed>>

\* An operation on a draft that is ready: read it, then write u(row).
Edit(h, u) == PlanNow(h, u, "idle")

\* redraft: instructions that need other data send the row back for a selection.
Redraft(h) ==
  /\ Ready(wf)
  /\ \/ Edit(h, With(Meta(wf), [draft |-> "ready"]))
     \/ Edit(h, With(Meta(wf), [status |-> "needs_scope", draft |-> "not_ready",
                                refused |-> FALSE]))

\* redraft_llm, redraft_full and extract_and_draft: only the metadata is written,
\* after the language model answered.
RedraftModel(h) == Ready(wf) /\ Edit(h, Meta(wf))

RejectDraft(h) ==
  /\ Ready(wf)
  /\ Edit(h, With(Meta(wf), [status |-> "blocked", draft |-> "not_ready", refused |-> FALSE]))

ArchiveWorkflow(h) == wf.status # "none" /\ Edit(h, Meta(wf))

\* The checks of mark_writeback_complete.
WritebackReady(w) ==
  /\ w.status = "waiting_on_counterparty" /\ w.draft = "sent" /\ w.send = "sent"
  /\ w.wb # "succeeded"

MarkWriteback(h) ==
  /\ WritebackReady(wf)
  /\ \E outcome \in {"succeeded", "pending"} : Edit(h, With(Meta(wf), [wb |-> outcome]))

\* A call that dies: an exception, a lost database, a restarted process.
Fails(h) ==
  /\ run[h].pc # "idle"
  /\ Goto(h, "idle")
  /\ blurred' = (blurred \/ Mailing(h))
  /\ UNCHANGED <<wf, ledger, mailed>>

-----------------------------------------------------------------------------
(* The consent ledger, driven by the owner, the clock and other workflows. *)

\* A grant comes with a token and an export.
Grant(r) == \E n \in Newer : ledger' = [ledger EXCEPT ![r] =
               [action |-> "GRANTED", live |-> TRUE, rev |-> n]]

Answer ==
  /\ ledger["own"].action = "REQUESTED"
  /\ \/ Grant("own")
     \/ \E a \in {"REFUSED", "TIMEOUT"} : ledger' = [ledger EXCEPT !["own"].action = a]

GrantElsewhere == ledger["other"].action \in {"none", "REFUSED"} /\ Grant("other")

Revoke == \E r \in Active : ledger' = [ledger EXCEPT ![r].action = "REFUSED", ![r].live = FALSE]

Expire == \E r \in Active : ledger' = [ledger EXCEPT ![r].live = FALSE]

RefreshExport == \E r \in Active, n \in Newer : ledger' = [ledger EXCEPT ![r].rev = n]

LedgerMoves ==
  /\ Answer \/ GrantElsewhere \/ Revoke \/ Expire \/ RefreshExport
  /\ UNCHANGED <<wf, run, mailed, blurred>>

Step(h) ==
  \/ Intake(h) \/ InsertWorkflow(h) \/ Redeliver(h) \/ Repair(h)
  \/ ConfirmProposal(h) \/ SelectScopes(h) \/ Prepare(h) \/ EnsureConsentRequest(h)
  \/ RefreshWorkflow(h) \/ Recover(h) \/ Look(h) \/ Write(h)
  \/ SendApprovedReply(h) \/ RequireSendable(h) \/ Mail(h) \/ RecordSend(h)
  \/ Redraft(h) \/ RedraftModel(h) \/ RejectDraft(h) \/ ArchiveWorkflow(h)
  \/ MarkWriteback(h) \/ Fails(h)

Next == LedgerMoves \/ \E h \in Handlers : Step(h)

Spec == Init /\ [][Next]_vars

-----------------------------------------------------------------------------
(* Properties.                                                             *)

Columns == DOMAIN NoRow

Statuses == {"none", "blocked", "needs_client_connector", "needs_confirm",
             "needs_scope", "waiting_on_user", "waiting_on_counterparty"}

Drafts == {"not_ready", "ready", "sent"}

Rows == [status : Statuses, refused : BOOLEAN, draft : Drafts,
         send : {"not_started", "sending", "sent"},
         wb : {"not_started", "pending", "succeeded"},
         sel : BOOLEAN, req : Requests \cup {"none"}, bound : 0..MaxRev, barred : BOOLEAN]

Snapshots == [status : Statuses, draft : Drafts, sel : BOOLEAN,
              req : Requests \cup {"none"}, bound : 0..MaxRev, barred : BOOLEAN]

LedgerRow == [action : Actions, live : BOOLEAN, rev : 0..MaxRev]

Continuations == {"idle", "select", "ask", "look", "mail"}

Pcs == {"intake", "redeliver", "ensure", "refresh", "recover", "selected", "send",
        "write", "delivered", "undelivered"} \cup Continuations

\* A handler whose update is u, some columns of a row.
RunRow(u) == [pc : Pcs, w : Snapshots, u : {u}, then : Continuations, fresh : BOOLEAN]

Typed(u) == DOMAIN u \subseteq Columns /\ With(NoRow, u) \in Rows

\* The state has its type: a row keeps to the statuses the service declares and
\* no update names a column the row lacks.
TypeOK ==
  /\ wf \in Rows
  /\ ledger \in [Requests -> LedgerRow]
  /\ run = [h \in Handlers |-> run[h]]
  /\ \A h \in Handlers : run[h] \in RunRow(run[h].u) /\ Typed(run[h].u)
  /\ mailed \in 0..2
  /\ blurred \in BOOLEAN

\* send_approved_reply: the counterparty gets one reply, however often the draft
\* is refreshed, redone, reselected or resent, unless an update was lost to an
\* older snapshot, something was written while a send was under way, or the
\* outcome of a send got lost (a crash, or a mail Gmail took and reported as failed).
OneReply == mailed > 1 => blurred

\* refresh_workflow and select_scopes: a draft offered to the owner is bound to
\* the export of the request it names, so that the send can tell a later export
\* from the one the draft was written from.
ReadyIsBound ==
  Ready(wf) /\ ~blurred =>
    /\ wf.req # "none"
    /\ wf.bound \in 1..ledger[wf.req].rev

\* send_approved_reply and mark_writeback_complete: the PKM writeback is open or
\* done only for a reply that went out or is going out.
WritebackFollowsSend ==
  ~blurred /\ wf.wb # "not_started" =>
    \/ mailed = 1 /\ wf.send = "sent"
    \/ wf.wb = "pending" /\ \E h \in Handlers : Mailing(h)

\* test_refresh_blocked_workflow_recovers_when_active_grant_exists: a denied
\* workflow recovers with a new grant to a draft the owner may send.  The flag
\* that the denial left in the metadata makes send_approved_reply refuse it.
RecoveredIsSendable == Ready(wf) => ~wf.barred

-----------------------------------------------------------------------------
(* The inductive invariant behind the safety properties.  Up to the first      *)
(* lost update a handler whose snapshot is fresh is judged by the row it would  *)
(* leave; what a send under way may do is judged apart.                         *)

GrantsHaveExports == \A r \in Requests : ledger[r].action = "GRANTED" => ledger[r].rev > 0

Open == {"needs_client_connector", "needs_confirm", "needs_scope"}

\* A handler x that asks the ledger read a row that is still open, and no update
\* takes the row back to before its intake; until that nobody can have read it.
MovesOn(x, row) ==
  /\ x.pc \in {"redeliver", "refresh", "ensure", "ask"} => x.w.status \in Open
  /\ x.pc = "intake" => x.w.status \in Open \cup {"blocked"}
  /\ x.pc = "write" =>
       /\ "status" \in DOMAIN x.u => x.u.status # "none"
       /\ x.then = "ask" => "status" \in DOMAIN x.u /\ x.u.status \in Open
  /\ row.status = "none" => x.pc \in {"idle", "intake"}

RowsMoveOn == \A h \in Handlers : MovesOn(run[h], wf)

Quiet == \A h \in Handlers : ~Mailing(h)

BoundRow(row, led) ==
  Ready(row) => row.req # "none" /\ row.bound \in 1..led[row.req].rev

ToldRow(row, n) ==
  IF n = 1 THEN row.status = "waiting_on_counterparty" /\ row.send = "sent"
  ELSE n = 0 /\ row.status # "waiting_on_counterparty"

WritebackRow(row, n) == row.wb # "not_started" => n = 1

\* The sender alone writes, and on the row it read.
Sender(h) ==
  /\ \A g \in Handlers : Mailing(g) => g = h
  /\ run[h].fresh /\ Meta(run[h].w) = Meta(wf)
  /\ wf.wb = "pending" /\ wf.status # "waiting_on_counterparty"
  /\ mailed = IF run[h].pc = "delivered" THEN 1 ELSE 0

\* A write of x over row, led being the ledger and n the replies mailed.
GoodWrite(x, row, led, n) ==
  LET result == With(row, x.u)
  IN /\ BoundRow(result, led) /\ ToldRow(result, n)
     /\ x.then # "idle" => n = 0
     /\ IF x.then = "mail" THEN result.wb = "pending" ELSE WritebackRow(result, n)

\* What a fresh handler x is about to do while nobody is sending.
Careful(x, row, led, n) ==
  /\ x.pc \notin {"idle", "intake", "write"} => n = 0
  /\ x.pc = "send" => Meta(x.w) = Meta(row)
  /\ x.pc = "write" => GoodWrite(x, row, led, n)

Undisturbed ==
  /\ BoundRow(wf, ledger)
  /\ \A h \in Handlers : Mailing(h) => Sender(h)
  /\ Quiet => /\ ToldRow(wf, mailed) /\ WritebackRow(wf, mailed)
              /\ \A h \in Handlers : run[h].fresh => Careful(run[h], wf, ledger, mailed)

SafetyInv == TypeOK /\ GrantsHaveExports /\ RowsMoveOn /\ (~blurred => Undisturbed)
=============================================================================
