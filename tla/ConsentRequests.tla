-------------------------- MODULE ConsentRequests --------------------------
(***************************************************************************)
(* Consent requests of one lane (one app, one owner, one scope): how they  *)
(* are asked for, answered and timed out.                                  *)
(*                                                                         *)
(* A request is a sequence of consent_audit rows with one request_id; it   *)
(* is read through its latest row.  Askers are the handlers of             *)
(* request_consent (via "developer") or of the A2A consent request (via    *)
(* "a2a"), deciders the owner's approve, deny, cancel and revoke handlers, *)
(* workers the backend processes, each with a timeout job if its listener  *)
(* came up.  All of them run in several processes, and every ledger        *)
(* statement is a step.  A lane of encrypted information (attr.* scopes)   *)
(* is asked for through request_consent only; the lane of cap.one.invoke   *)
(* through both handlers, also by the same app and at the same time.       *)
(* The terms of a request are what _pending_request_matches compares:      *)
(* reason, durations, refresh policy, connector key.  Requests are stamped *)
(* with the order of their REQUESTED rows; a deadline passing is the       *)
(* action PassDeadline.                                                    *)
(***************************************************************************)
EXTENDS Naturals, FiniteSets

CONSTANTS
    Requests,   \* request ids
    NoRequest,
    Terms,      \* what a request may ask for
    SameExport, \* <<t, u>>: same connector key and refresh policy
    Askers,     \* concurrent request handlers of the app
    NoAsker,
    Deciders,   \* concurrent handlers of the owner's answers
    Workers,    \* backend processes, each with a timeout job or without
    MaxFaults,  \* bound on failed statements and restarts
    MaxBuried   \* bound on horizon

ASSUME RequestAssumption == NoRequest \notin Requests
ASSUME AskerAssumption == NoAsker \notin Askers /\ IsFiniteSet(Askers)
ASSUME TermsAssumption == /\ Terms # {}
                          /\ \A t \in Terms : <<t, t>> \in SameExport
ASSUME LimitAssumption == MaxFaults \in Nat /\ MaxBuried \in Nat

VARIABLES
    lane,      \* what the lane's scope is: "attr" or "invoke"
    born,      \* order of the REQUESTED row, 0 while there is none
    terms,     \* metadata of the REQUESTED row
    due,       \* poll_timeout_at has passed
    latest,    \* action of the latest row of the request
    timedOut,  \* the request has a TIMEOUT row
    grant,     \* request whose grant is in force on the lane
    cooling,   \* the lane has a CONSENT_DENIED row of the last minute
    clock,     \* REQUESTED rows so far
    lock,      \* holder of the advisory lock of the lane
    ask,       \* the app's handlers
    decide,    \* the owner's handlers
    jobs,      \* processes whose timeout job runs
    horizon,   \* rows the timeout job no longer reads: born at or before it
    scan,      \* rows each timeout job has left to emit
    answers,   \* history: answers recorded for each request
    contested, \* history: requests two answers were under way for at once
    faults

rows == <<latest, timedOut, answers>>
requested == <<born, terms, clock>>
background == <<jobs, horizon, scan>>
vars == <<lane, born, terms, due, latest, timedOut, grant, cooling, clock, lock,
          ask, decide, jobs, horizon, scan, answers, contested, faults>>

Verbs == {"approve", "deny", "cancel"}
Actions == {"none", "requested", "granted", "denied", "cancelled", "revoked", "timeout"}

Asking(pc, t, via) == [pc |-> pc, terms |-> t, via |-> via]
Deciding(verb, r) == [verb |-> verb, request |-> r]
SomeTerms == CHOOSE t \in Terms : TRUE
NotAsking == Asking("idle", SomeTerms, "developer")
NotDeciding == Deciding("idle", NoRequest)

(* Requests, rows, the lock and every handler have their types. *)
TypeOK ==
    /\ lane \in {"attr", "invoke"}
    /\ born \in [Requests -> Nat]
    /\ terms \in [Requests -> Terms]
    /\ due \in [Requests -> BOOLEAN]
    /\ latest \in [Requests -> Actions]
    /\ timedOut \in [Requests -> BOOLEAN]
    /\ grant \in Requests \cup {NoRequest}
    /\ cooling \in BOOLEAN
    /\ clock \in Nat
    /\ lock \in Askers \cup {NoAsker}
    /\ ask \in [Askers -> [pc : {"idle", "seeking", "cooling", "waiting", "locked",
                                 "inserting"},
                           terms : Terms,
                           via : {"developer", "a2a"}]]
    /\ decide \in [Deciders -> [verb : Verbs \cup {"idle", "revoke"},
                                request : Requests \cup {NoRequest}]]
    /\ jobs \in SUBSET Workers
    /\ horizon \in Nat
    /\ scan \in [Workers -> SUBSET Requests]
    /\ answers \in [Requests -> SUBSET Verbs]
    /\ contested \in SUBSET Requests
    /\ faults \in 0..MaxFaults

Init ==
    /\ lane \in {"attr", "invoke"}
    /\ born = [r \in Requests |-> 0]
    /\ terms = [r \in Requests |-> SomeTerms]
    /\ due = [r \in Requests |-> FALSE]
    /\ latest = [r \in Requests |-> "none"]
    /\ timedOut = [r \in Requests |-> FALSE]
    /\ grant = NoRequest
    /\ cooling = FALSE
    /\ clock = 0
    /\ lock = NoAsker
    /\ ask = [h \in Askers |-> NotAsking]
    /\ decide = [k \in Deciders |-> NotDeciding]
    /\ jobs \in SUBSET Workers
    /\ horizon = 0
    /\ scan = [p \in Workers |-> {}]
    /\ answers = [r \in Requests |-> {}]
    /\ contested = {}
    /\ faults = 0

-----------------------------------------------------------------------------
(* Asking. *)

(* A request the app may be referred to: latest row REQUESTED, deadline    *)
(* ahead.                                                                  *)
Pending(r) == latest[r] = "requested" /\ ~due[r]

(* get_pending_request_for_scope returns the newest one only. *)
NewestPending(r) ==
    Pending(r) /\ \A s \in Requests : Pending(s) => born[s] <= born[r]

(* The newest pending request exists and _pending_request_matches. *)
Matches(t) == \E r \in Requests : NewestPending(r) /\ terms[r] = t

AskMoves(h, pc) ==
    ask' = [ask EXCEPT ![h] =
        IF pc = "idle" THEN NotAsking ELSE Asking(pc, ask[h].terms, ask[h].via)]

(* The active grant is returned unless (information scopes) its export is  *)
(* bound to another key or refresh policy.                                 *)
AlreadyGranted(t) ==
    /\ grant # NoRequest
    /\ lane = "attr" => <<terms[grant], t>> \in SameExport

(* Bound: an ask starts only while there are ids left for all under way. *)
IdsLeft == Cardinality({r \in Requests : born[r] = 0})
             > Cardinality({h \in Askers : ask[h].pc # "idle"})

AskActive(h, t, via) ==
    /\ ask[h].pc = "idle"
    /\ lane = "attr" => via = "developer"
    /\ IdsLeft
    /\ ~AlreadyGranted(t)
    /\ ask' = [ask EXCEPT ![h] = Asking("seeking", t, via)]
    /\ UNCHANGED <<requested, due, rows, grant, cooling, lock, decide, background,
                   contested, faults>>

(* request_consent: a pending request with the same terms is returned. *)
AskPending(h) ==
    /\ ask[h].via = "developer"
    /\ ask[h].pc = "seeking"
    /\ AskMoves(h, IF Matches(ask[h].terms) THEN "idle" ELSE "cooling")
    /\ UNCHANGED <<requested, due, rows, grant, cooling, lock, decide, background,
                   contested, faults>>

(* Mutant: an A2A ask does not look at what is pending. *)
AskPendingA2ABlind(h) ==
    /\ ask[h].via = "a2a"
    /\ ask[h].pc = "seeking"
    /\ AskMoves(h, "inserting")
    /\ UNCHANGED <<requested, due, rows, grant, cooling, lock, decide, background,
                   contested, faults>>

(* The A2A handler: any pending request is returned, and nothing else is   *)
(* asked before the insert.                                                *)
AskPendingA2A(h) ==
    /\ ask[h].via = "a2a"
    /\ ask[h].pc = "seeking"
    /\ AskMoves(h, IF \E r \in Requests : Pending(r) THEN "idle" ELSE "inserting")
    /\ UNCHANGED <<requested, due, rows, grant, cooling, lock, decide, background,
                   contested, faults>>

(* was_recently_denied. *)
AskDenied(h) ==
    /\ ask[h].pc = "cooling"
    /\ AskMoves(h, IF cooling THEN "idle" ELSE "waiting")
    /\ UNCHANGED <<requested, due, rows, grant, cooling, lock, decide, background,
                   contested, faults>>

(* serialize_consent_request: pg_advisory_lock. *)
Acquire(h) ==
    /\ ask[h].pc = "waiting"
    /\ lock = NoAsker
    /\ lock' = h
    /\ AskMoves(h, "locked")
    /\ UNCHANGED <<requested, due, rows, grant, cooling, decide, background,
                   contested, faults>>

(* Mutant: the second look is left out. *)
RecheckNothing(h) ==
    /\ ask[h].pc = "locked"
    /\ lock' = lock
    /\ AskMoves(h, "inserting")
    /\ UNCHANGED <<requested, due, rows, grant, cooling, decide, background,
                   contested, faults>>

(* Mutant: the early return does not give the lock back. *)
RecheckKeepsLock(h) ==
    /\ ask[h].pc = "locked"
    /\ lock' = lock
    /\ AskMoves(h, IF Matches(ask[h].terms) THEN "idle" ELSE "inserting")
    /\ UNCHANGED <<requested, due, rows, grant, cooling, decide, background,
                   contested, faults>>

(* The second look, under the lock. *)
Recheck(h) ==
    /\ ask[h].pc = "locked"
    /\ lock' = IF Matches(ask[h].terms) THEN NoAsker ELSE lock
    /\ AskMoves(h, IF Matches(ask[h].terms) THEN "idle" ELSE "inserting")
    /\ UNCHANGED <<requested, due, rows, grant, cooling, decide, background,
                   contested, faults>>

Unlock(h) == lock' = IF lock = h THEN NoAsker ELSE lock

(* Mutant: the action of the row is the status word of the response. *)
InsertPending(h) ==
    /\ ask[h].pc = "inserting"
    /\ \E r \in Requests :
        /\ born[r] = 0
        /\ born' = [born EXCEPT ![r] = clock + 1]
        /\ terms' = [terms EXCEPT ![r] = ask[h].terms]
        /\ latest' = [latest EXCEPT ![r] = "pending"]
    /\ clock' = clock + 1
    /\ AskMoves(h, "idle")
    /\ Unlock(h)
    /\ UNCHANGED <<due, timedOut, answers, grant, cooling, decide, background,
                   contested, faults>>

(* insert_event REQUESTED, then the lock is given back. *)
Insert(h) ==
    /\ ask[h].pc = "inserting"
    /\ \E r \in Requests :
        /\ born[r] = 0
        /\ born' = [born EXCEPT ![r] = clock + 1]
        /\ terms' = [terms EXCEPT ![r] = ask[h].terms]
        /\ latest' = [latest EXCEPT ![r] = "requested"]
    /\ clock' = clock + 1
    /\ AskMoves(h, "idle")
    /\ Unlock(h)
    /\ UNCHANGED <<due, timedOut, answers, grant, cooling, decide, background,
                   contested, faults>>

(* A statement raises, or the process dies: the lock goes with the         *)
(* context manager or with the database session.                           *)
AskFails(h) ==
    /\ ask[h].pc # "idle"
    /\ faults < MaxFaults
    /\ faults' = faults + 1
    /\ AskMoves(h, "idle")
    /\ Unlock(h)
    /\ UNCHANGED <<requested, due, rows, grant, cooling, decide, background,
                   contested>>

-----------------------------------------------------------------------------
(* Answering. *)

(* Mutant: any request that was asked for can be answered. *)
DecidableAny(r) == latest[r] # "none"

(* get_pending_by_request_id: the latest row is REQUESTED.  The deadline   *)
(* is not looked at.                                                       *)
Decidable(r) == latest[r] = "requested"

(* approve_consent, deny_consent, cancel_consent: the request is read ... *)
Open(k, verb, r) ==
    /\ decide[k].verb = "idle"
    /\ Decidable(r)
    /\ decide' = [decide EXCEPT ![k] = Deciding(verb, r)]
    /\ contested' = IF \E j \in Deciders : /\ decide[j].verb \in Verbs
                                           /\ decide[j].request = r
                      THEN contested \cup {r} ELSE contested
    /\ UNCHANGED <<requested, due, rows, grant, cooling, lock, ask,
                   background, faults>>

DecideEnds(k) == decide' = [decide EXCEPT ![k] = NotDeciding]

Answer(k, verb, action) ==
    LET r == decide[k].request
    IN  /\ decide[k].verb = verb
        /\ latest' = [latest EXCEPT ![r] = action]
        /\ answers' = [answers EXCEPT ![r] = answers[r] \cup {verb}]
        /\ DecideEnds(k)
        /\ UNCHANGED <<requested, due, timedOut, lock, ask, background,
                       contested, faults>>

(* Mutant: a grant that is already in force is kept. *)
ApproveKeepsGrant(k) ==
    /\ Answer(k, "approve", "granted")
    /\ grant' = IF grant = NoRequest THEN decide[k].request ELSE grant
    /\ UNCHANGED cooling

(* ... and the answer is written, whatever happened in between. *)
Approve(k) ==
    /\ Answer(k, "approve", "granted")
    /\ grant' = decide[k].request
    /\ UNCHANGED cooling

Deny(k) ==
    /\ Answer(k, "deny", "denied")
    /\ cooling' = TRUE
    /\ UNCHANGED grant

Cancel(k) ==
    /\ Answer(k, "cancel", "cancelled")
    /\ UNCHANGED <<grant, cooling>>

(* revoke_consent: the grant in force is read ... *)
OpenRevoke(k) ==
    /\ decide[k].verb = "idle"
    /\ grant # NoRequest
    /\ decide' = [decide EXCEPT ![k] = Deciding("revoke", grant)]
    /\ UNCHANGED <<requested, due, rows, grant, cooling, lock, ask, background,
                   contested, faults>>

(* ... and REVOKED written on the lane, under the request it was read from. *)
Revoke(k) ==
    /\ decide[k].verb = "revoke"
    /\ latest' = [latest EXCEPT ![decide[k].request] = "revoked"]
    /\ grant' = NoRequest
    /\ DecideEnds(k)
    /\ UNCHANGED <<requested, due, timedOut, answers, cooling, lock, ask, background,
                   contested, faults>>

DecideFails(k) ==
    /\ decide[k].verb # "idle"
    /\ faults < MaxFaults
    /\ faults' = faults + 1
    /\ DecideEnds(k)
    /\ UNCHANGED <<requested, due, rows, grant, cooling, lock, ask, background,
                   contested>>

-----------------------------------------------------------------------------
(* Time, and the timeout job. *)

PassDeadline(r) ==
    /\ born[r] # 0
    /\ ~due[r]
    /\ due' = [due EXCEPT ![r] = TRUE]
    /\ UNCHANGED <<requested, rows, grant, cooling, lock, ask, decide, background,
                   contested, faults>>

GrantExpires ==
    /\ grant # NoRequest
    /\ grant' = NoRequest
    /\ UNCHANGED <<requested, due, rows, cooling, lock, ask, decide, background,
                   contested, faults>>

CooldownEnds ==
    /\ cooling
    /\ cooling' = FALSE
    /\ UNCHANGED <<requested, due, rows, grant, lock, ask, decide, background,
                   contested, faults>>

(* Mutant: only the newest request is looked at. *)
TimedOutNewest == {r \in Requests : born[r] = clock /\ due[r] /\ ~timedOut[r]}

(* get_timed_out_requests: of the newest _background_scan_limit REQUESTED  *)
(* rows of the whole ledger those past their deadline that have no TIMEOUT *)
(* row.                                                                    *)
TimedOut == {r \in Requests : born[r] > horizon /\ due[r] /\ ~timedOut[r]}

(* Requests of all other lanes push the oldest rows of this one out of the *)
(* newest.                                                                 *)
OthersAsk ==
    /\ horizon < clock /\ horizon < MaxBuried
    /\ horizon' = horizon + 1
    /\ UNCHANGED <<requested, due, rows, grant, cooling, lock, ask, decide, jobs, scan,
                   contested, faults>>

(* emit_timeout_events: the rows are read ... *)
ScanDue(p) ==
    /\ p \in jobs
    /\ scan[p] = {}
    /\ TimedOut # {}
    /\ scan' = [scan EXCEPT ![p] = TimedOut]
    /\ UNCHANGED <<requested, due, rows, grant, cooling, lock, ask, decide, jobs, horizon,
                   contested, faults>>

ScanMoves(p, r) == scan' = [scan EXCEPT ![p] = scan[p] \ {r}]

(* ... and get a TIMEOUT row one after the other. *)
EmitTimeout(p, r) ==
    /\ r \in scan[p]
    /\ ScanMoves(p, r)
    /\ latest' = [latest EXCEPT ![r] = "timeout"]
    /\ timedOut' = [timedOut EXCEPT ![r] = TRUE]
    /\ UNCHANGED <<requested, due, answers, grant, cooling, lock, ask, decide, jobs,
                   horizon, contested, faults>>

(* A row that cannot be written is skipped until the next scan. *)
EmitFails(p, r) ==
    /\ r \in scan[p]
    /\ faults < MaxFaults
    /\ faults' = faults + 1
    /\ ScanMoves(p, r)
    /\ UNCHANGED <<requested, due, rows, grant, cooling, lock, ask, decide, jobs, horizon,
                   contested>>

(* The process is replaced.  run_consent_listener of the new one keeps the *)
(* job running, or cancels it for good when the pool cannot be reached or  *)
(* LISTEN fails.                                                           *)
Restart(p) ==
    /\ faults < MaxFaults
    /\ faults' = faults + 1
    /\ jobs' \in {jobs \cup {p}, jobs \ {p}}
    /\ scan' = [scan EXCEPT ![p] = {}]
    /\ UNCHANGED <<requested, due, rows, grant, cooling, lock, ask, decide, horizon,
                   contested>>

-----------------------------------------------------------------------------
AskStep(h) ==
    \/ \E t \in Terms, via \in {"developer", "a2a"} : AskActive(h, t, via)
    \/ AskPending(h) \/ AskPendingA2A(h) \/ AskDenied(h)
    \/ Acquire(h) \/ Recheck(h) \/ Insert(h) \/ AskFails(h)

DecideStep(k) ==
    \/ \E verb \in Verbs, r \in Requests : Open(k, verb, r)
    \/ Approve(k) \/ Deny(k) \/ Cancel(k)
    \/ OpenRevoke(k) \/ Revoke(k) \/ DecideFails(k)

WorkerStep(p) ==
    \/ ScanDue(p) \/ Restart(p)
    \/ \E r \in Requests : EmitTimeout(p, r) \/ EmitFails(p, r)

TimeStep == \/ \E r \in Requests : PassDeadline(r)
            \/ GrantExpires \/ CooldownEnds \/ OthersAsk

Next == /\ \/ \E h \in Askers : AskStep(h)
           \/ \E k \in Deciders : DecideStep(k)
           \/ \E p \in Workers : WorkerStep(p)
           \/ TimeStep
        /\ UNCHANGED lane

Spec == Init /\ [][Next]_vars

(* A handler that started goes on to its end, the advisory lock is granted *)
(* in turn, and a timeout job, where one runs, scans every two minutes and *)
(* writes the rows it found.                                               *)
Fairness ==
    LET Fixed(A) == A /\ UNCHANGED lane
    IN  /\ \A h \in Askers :
            /\ WF_vars(Fixed(AskPending(h) \/ AskPendingA2A(h) \/ AskDenied(h)
                             \/ Recheck(h) \/ Insert(h)))
            /\ SF_vars(Fixed(Acquire(h)))
        /\ \A p \in Workers :
            /\ WF_vars(Fixed(ScanDue(p)))
            /\ WF_vars(Fixed(\E r \in Requests : EmitTimeout(p, r)))

FairSpec == Spec /\ Fairness

-----------------------------------------------------------------------------
Detour(r, s) ==
    \E q \in Requests : /\ born[r] < born[q] /\ born[q] < born[s]
                        /\ terms[q] # terms[r]

(* Whatever askers race with each other and with the owner's answers, the  *)
(* app has two pending requests for information with the same terms only   *)
(* if it asked for something else in between.                              *)
DuplicatesNeedDetour ==
    lane = "attr" =>
        \A r, s \in Requests :
            Pending(r) /\ Pending(s) /\ terms[r] = terms[s] /\ born[r] < born[s]
                => Detour(r, s)

(* The request and the pending ones that ask for the same again, with      *)
(* nothing else asked for in between.                                      *)
Twins(r) ==
    {s \in Requests : /\ Pending(s) /\ terms[s] = terms[r]
                      /\ born[r] <= born[s] /\ ~Detour(r, s)}

(* Where asks without the lock (A2A) race with each other and with asks    *)
(* that take it, duplicates do come about, but never more than there are   *)
(* handlers racing: once one of them is seen no more are added.            *)
RacingDuplicatesBounded ==
    \A r \in Requests : Pending(r) => Cardinality(Twins(r)) <= Cardinality(Askers)

(* A request gets two different answers only if two of the owner's         *)
(* handlers had read it before either of them wrote: reading the latest    *)
(* row is enough to keep answers apart in every other order of events,     *)
(* time outs, failures and revocations included.                           *)
OneAnswer ==
    \A r \in Requests \ contested : \A a, b \in answers[r] : a = b

(* What app and owner can tell of the requests, for ConsentPromise. *)
PhaseOf(action) == IF action = "none" THEN "unasked"
                   ELSE IF action = "requested" THEN "open" ELSE "settled"
Phases == [r \in Requests |-> PhaseOf(latest[r])]
Overdue == {r \in Requests : due[r]}
Shown == {r \in Requests :
            \E k \in Deciders : decide[k].verb \in Verbs /\ decide[k].request = r}

Promise == INSTANCE ConsentPromise
           WITH phase <- Phases, overdue <- Overdue, shown <- Shown,
                disputed <- contested, verdict <- answers, inForce <- grant

(* The handlers, the timeout jobs and the ledger read through its latest   *)
(* row keep the promise of ConsentPromise: a settled request never opens   *)
(* again, it lapses after its deadline only, an answer is recorded for a   *)
(* request the handler had read while it was open, and a second one only   *)
(* after a race between two handlers that both had.                        *)
KeepsConsentPromise == Promise!Spec

(* If one process at least keeps its timeout job, a request that is past   *)
(* its deadline does not stay REQUESTED, though single inserts fail and    *)
(* processes are replaced - unless the newest rows the job reads are all   *)
(* of later requests by then.                                              *)
OverdueSettles ==
    (\E p \in Workers : <>[](p \in jobs)) =>
        \A r \in Requests :
            latest[r] = "requested" /\ due[r]
                ~> latest[r] # "requested" \/ born[r] <= horizon

(* Every ask is answered: no asker waits forever for the lock of the lane, *)
(* whichever way the askers before it returned or failed.                  *)
AskAnswered == \A h \in Askers : ask[h].pc # "idle" ~> ask[h].pc = "idle"

-----------------------------------------------------------------------------
(* The inductive invariant behind the safety properties.                   *)

BornFacts ==
    /\ \A r \in Requests : /\ born[r] <= clock
                           /\ born[r] = 0 <=> latest[r] = "none"
                           /\ born[r] = 0 => ~due[r]
    /\ \A r, s \in Requests : born[r] = born[s] /\ born[r] # 0 => r = s

(* A lane for information is asked for through request_consent only, and   *)
(* its handlers alone use the lock.                                        *)
ViaFitsLane ==
    \A h \in Askers :
        /\ lane = "attr" => ask[h].via = "developer"
        /\ ask[h].via = "a2a" => ask[h].pc \in {"seeking", "inserting"}

(* Only the holder of the lock is between its second look and its insert.  *)
LockHeld ==
    \A h \in Askers :
        ask[h].via = "developer" /\ ask[h].pc \in {"locked", "inserting"} => lock = h

(* What the second look saw is still true when the row is inserted: every  *)
(* pending request with the same terms is followed by one with others.     *)
SecondLookHolds ==
    lane = "attr" => \A h \in Askers, r \in Requests :
        /\ ask[h].pc = "inserting"
        /\ Pending(r)
        /\ terms[r] = ask[h].terms
        => \E q \in Requests : born[r] < born[q] /\ terms[q] # terms[r]

(* Whatever is worked on was asked for. *)
KnownRequests ==
    /\ \A k \in Deciders : decide[k].verb # "idle" =>
        decide[k].request \in Requests /\ born[decide[k].request] # 0
    /\ \A p \in Workers : \A r \in scan[p] : born[r] # 0
    /\ grant # NoRequest => born[grant] # 0

(* A request that can still be answered has no answer. *)
OpenUnanswered ==
    \A r \in Requests : latest[r] \in {"none", "requested"} => answers[r] = {}

(* Outside a race an answer that is under way is the first and only one.   *)
OpenIsFirst ==
    \A k \in Deciders :
        decide[k].verb \in Verbs /\ decide[k].request \notin contested =>
            /\ answers[decide[k].request] = {}
            /\ \A j \in Deciders \ {k} :
                decide[j].verb \in Verbs => decide[j].request # decide[k].request

(* A grant, and a revocation of it, is of a request that was answered; the *)
(* timeout jobs work on overdue requests.                                  *)
GrantsAnswered ==
    /\ grant # NoRequest => latest[grant] \notin {"none", "requested"}
    /\ \A k \in Deciders : decide[k].verb = "revoke" =>
        latest[decide[k].request] \notin {"none", "requested"}
    /\ \A p \in Workers : \A r \in scan[p] : due[r]

Inserters(t) == {h \in Askers : ask[h].pc = "inserting" /\ ask[h].terms = t}

(* Nothing else was asked for since. *)
GroupOpen(r) == ~\E q \in Requests : born[r] < born[q] /\ terms[q] # terms[r]

(* While a request is pending and nothing else was asked for since, no     *)
(* asker gets to insert the same again: those that will had passed their   *)
(* look before.                                                            *)
RaceCounted ==
    \A r \in Requests : Pending(r) =>
        /\ IsFiniteSet(Twins(r))
        /\ Cardinality(Twins(r)) <= Cardinality(Askers)
        /\ GroupOpen(r) => Cardinality(Twins(r)) + Cardinality(Inserters(terms[r]))
                             <= Cardinality(Askers)

SafetyInv ==
    /\ TypeOK
    /\ BornFacts
    /\ ViaFitsLane
    /\ LockHeld
    /\ SecondLookHolds
    /\ KnownRequests
    /\ OpenUnanswered
    /\ OpenIsFirst
    /\ GrantsAnswered
    /\ DuplicatesNeedDetour
    /\ OneAnswer
    /\ RaceCounted
=============================================================================
