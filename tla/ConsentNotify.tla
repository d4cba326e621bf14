--------------------------- MODULE ConsentNotify ---------------------------
(* Notifications of the owner about consent requests                       *)
(* (api/consent_listener.py, api/utils/consent_notifications.py).          *)
(*                                                                         *)
(* Every row of the ledger is announced with NOTIFY to the server          *)
(* processes that listen at that moment; each of them delivers a new       *)
(* request to the owner and records in an internal log that it did.  A job *)
(* of every process reads the ledger and that log once a minute, to        *)
(* deliver what no process delivered and to remind before the deadline,    *)
(* if the process could connect when it started.                           *)
(* A process runs one event loop: its steps interleave with each other     *)
(* only where the code really suspends, which is the look-up of an         *)
(* adviser's identity; the steps of different processes interleave at      *)
(* every database statement.  What becomes of a delivery in the queues of  *)
(* a process is the subject of ConsentStreams.                             *)
EXTENDS Integers, Sequences, FiniteSets

CONSTANTS
    Procs,        \* server processes, with their listeners and jobs or without
    Requests,     \* consent requests of one owner
    MaxFaults     \* bound on crashes, lost connections and failed statements

ASSUME ProcAssumption == IsFiniteSet(Procs)
ASSUME FaultAssumption == MaxFaults \in Nat

VARIABLES
    adviser,    \* the requests of advisers: enriching their events suspends
    status,     \* the newest row of the request: none, REQUESTED or a later one
    clock,      \* early, due (for a reminder) or over, per request
    log,        \* internal_access_events, per request
    buried,     \* requests whose rows the job no longer reads
    up,         \* the processes that run
    jobs,       \* the processes that run their jobs
    listening,  \* the processes whose LISTEN connection is alive
    wire,       \* announcements on their way to each process
    parked,     \* handlers waiting for an adviser's identity
    recording,  \* the delivery a process has made and not yet recorded
    job,        \* the notification job of each process
    sent,       \* deliveries made so far, per request and sequence number
    nagged,     \* job deliveries after the owner had opened or answered
    faults

tables == <<status, clock, log, buried>>
health == <<up, jobs, listening, faults>>
tally == <<sent, nagged>>
vars == <<tables, wire, parked, recording, job, tally, health, adviser>>

Kinds == {"NOTIFICATION_SENT", "REMINDER_SENT", "NOTIFICATION_OPENED"}
Delivery == [req : Requests, seq : {1, 2}]
NoDelivery == [req |-> "none", seq |-> 0]
JobRow == [pc : {"sleep", "events", "deliver"}, todo : SUBSET Delivery]
JobIdle == [pc |-> "sleep", todo |-> {}]

(* Rows, announcements, jobs and tallies have their types; only a process  *)
(* whose jobs run listens.                                                 *)
TypeOK ==
    /\ adviser \subseteq Requests
    /\ status \in [Requests -> {"none", "REQUESTED", "RESOLVED"}]
    /\ clock \in [Requests -> {"early", "due", "over"}]
    /\ log \in [Requests -> SUBSET Kinds]
    /\ buried \in SUBSET Requests
    /\ up \in SUBSET Procs /\ jobs \in SUBSET up /\ listening \in SUBSET jobs
    /\ wire \in [Procs -> Seq(Requests)]
    /\ parked \in [Procs -> SUBSET Requests]
    /\ recording \in [Procs -> Delivery \cup {NoDelivery}]
    /\ job \in [Procs -> JobRow]
    /\ sent \in [Requests -> [{1, 2} -> Nat]]
    /\ nagged \in [Requests -> Nat]
    /\ faults \in 0..MaxFaults

Init ==
    /\ adviser \in SUBSET Requests
    /\ status = [r \in Requests |-> "none"]
    /\ clock = [r \in Requests |-> "early"]
    /\ log = [r \in Requests |-> {}]
    /\ buried = {}
    /\ up = Procs /\ jobs \in SUBSET Procs /\ listening = jobs
    /\ wire = [p \in Procs |-> <<>>]
    /\ parked = [p \in Procs |-> {}]
    /\ recording = [p \in Procs |-> NoDelivery]
    /\ job = [p \in Procs |-> JobIdle]
    /\ sent = [r \in Requests |-> [k \in {1, 2} |-> 0]]
    /\ nagged = [r \in Requests |-> 0]
    /\ faults = 0

Pending(r) == status[r] = "REQUESTED"
Open(r) == Pending(r) /\ clock[r] # "over"

-----------------------------------------------------------------------------
(* Mutant: a dead process is still announced to. *)
CrashKeepsListening(p) ==
    /\ p \in up
    /\ faults < MaxFaults
    /\ faults' = faults + 1
    /\ up' = up \ {p} /\ jobs' = jobs \ {p}
    /\ UNCHANGED <<tables, listening, wire, parked, recording, job, tally>>

(* Mutant: a recorded reminder is not looked at. *)
NextSequenceRemindAgain(r, events) ==
    IF "NOTIFICATION_OPENED" \in events \/ clock[r] = "over" THEN 0
    ELSE IF events = {} THEN 1
    ELSE IF clock[r] = "due" THEN 2 ELSE 0

(* Mutant: an opened request is reminded of. *)
NextSequenceUnopened(r, events) ==
    IF clock[r] = "over" THEN 0
    ELSE IF events \ {"NOTIFICATION_OPENED"} = {} THEN 1
    ELSE IF "REMINDER_SENT" \notin events /\ clock[r] = "due" THEN 2 ELSE 0

(* Mutant: no back-fill of a first delivery. *)
NextSequenceReminderOnly(r, events) ==
    IF /\ {"NOTIFICATION_OPENED", "REMINDER_SENT"} \cap events = {}
       /\ events # {} /\ clock[r] = "due" THEN 2 ELSE 0

-----------------------------------------------------------------------------
(* The ledger, its trigger and the clock. *)

(* A new request: its announcement goes to the processes that listen now   *)
(* and to nobody who listens later (consent_audit_notify).                 *)
Ask(r) ==
    /\ status[r] = "none"
    /\ status' = [status EXCEPT ![r] = "REQUESTED"]
    /\ wire' = [p \in Procs |-> IF p \in listening THEN Append(wire[p], r) ELSE wire[p]]
    /\ UNCHANGED <<clock, log, buried, parked, recording, job, tally, health>>

(* The request is granted, denied or cancelled, or emit_timeout_events     *)
(* closes it.  That row is announced too, but nothing of it is recorded:   *)
(* its way through the queues is in ConsentStreams.                        *)
Resolve(r) ==
    /\ Pending(r)
    /\ status' = [status EXCEPT ![r] = "RESOLVED"]
    /\ UNCHANGED <<clock, log, buried, wire, parked, recording, job, tally, health>>

(* mark_pending_request_opened: only for a request that is still pending. *)
MarkOpened(r) ==
    /\ Open(r)
    /\ log' = [log EXCEPT ![r] = @ \cup {"NOTIFICATION_OPENED"}]
    /\ UNCHANGED <<status, clock, buried, wire, parked, recording, job, tally, health>>

(* Time passes: the reminder of a long window comes due (final_due), the   *)
(* window closes; a short window closes without one.                       *)
Tick(r) ==
    /\ Open(r)
    /\ \E t \in {"due", "over"} \ {clock[r]} : clock' = [clock EXCEPT ![r] = t]
    /\ UNCHANGED <<status, log, buried, wire, parked, recording, job, tally, health>>

(* Rows of all owners push those of the request out of the newest          *)
(* _background_scan_limit, which are all a job reads.                      *)
Bury(r) ==
    /\ status[r] # "none" /\ r \notin buried
    /\ buried' = buried \cup {r}
    /\ UNCHANGED <<status, clock, log, wire, parked, recording, job, tally, health>>

-----------------------------------------------------------------------------
(* Handling an announcement. *)

(* The event loop of p is inside a stretch of code that does not suspend. *)
Busy(p) ==
    \/ recording[p] # NoDelivery
    \/ job[p].pc = "events"
    \/ \E item \in job[p].todo : item.req \notin adviser

Runs(p) == p \in up /\ ~Busy(p)

(* _handle_notify once the payload is enriched: the delivery, whatever the *)
(* request has come to meanwhile, and the record still to be written.      *)
Handle(p, r) ==
    /\ recording' = [recording EXCEPT ![p] = [req |-> r, seq |-> 1]]
    /\ sent' = [sent EXCEPT ![r][1] = @ + 1]

Receive(p) ==
    /\ Runs(p) /\ wire[p] # <<>>
    /\ wire' = [wire EXCEPT ![p] = Tail(@)]
    /\ IF Head(wire[p]) \in adviser
         THEN /\ parked' = [parked EXCEPT ![p] = @ \cup {Head(wire[p])}]
              /\ UNCHANGED <<recording, sent>>
         ELSE Handle(p, Head(wire[p])) /\ UNCHANGED parked
    /\ UNCHANGED <<tables, job, nagged, health>>

(* The identity look-ups of parked handlers return in any order. *)
Resume(p) ==
    /\ Runs(p)
    /\ \E r \in parked[p] : /\ parked' = [parked EXCEPT ![p] = @ \ {r}]
                            /\ Handle(p, r)
    /\ UNCHANGED <<tables, wire, job, nagged, health>>

KindOf(seq) == IF seq = 1 THEN "NOTIFICATION_SENT" ELSE "REMINDER_SENT"

(* _record_notification_event: written after the delivery ... *)
Record(p) ==
    /\ recording[p] # NoDelivery
    /\ log' = [log EXCEPT ![recording[p].req] = @ \cup {KindOf(recording[p].seq)}]
    /\ recording' = [recording EXCEPT ![p] = NoDelivery]
    /\ UNCHANGED <<status, clock, buried, wire, parked, job, tally, health>>

(* ... and when the statement fails, a warning and nothing else. *)
RecordFails(p) ==
    /\ recording[p] # NoDelivery
    /\ faults < MaxFaults
    /\ faults' = faults + 1
    /\ recording' = [recording EXCEPT ![p] = NoDelivery]
    /\ UNCHANGED <<tables, up, jobs, listening, wire, parked, job, tally>>

-----------------------------------------------------------------------------
(* The notification job. *)

(* next_pending_notification: the sequence number due, 0 for none. *)
NextSequence(r, events) ==
    IF "NOTIFICATION_OPENED" \in events \/ clock[r] = "over" THEN 0
    ELSE IF events = {} THEN 1
    ELSE IF "REMINDER_SENT" \notin events /\ clock[r] = "due" THEN 2 ELSE 0

(* get_pending_notification_candidates; todo holds the requests read. *)
JobScan(p) ==
    LET candidates == {r \in Requests \ buried : Open(r)}
    IN  /\ Runs(p) /\ p \in jobs /\ job[p] = JobIdle
        /\ candidates # {}
        /\ job' = [job EXCEPT ![p] = [pc |-> "events",
                                      todo |-> [req : candidates, seq : {1}]]]
        /\ UNCHANGED <<tables, wire, parked, recording, tally, health>>

(* list_internal_request_events, then what each candidate is due. *)
JobEvents(p) ==
    LET due == {d \in Delivery : /\ \E item \in job[p].todo : item.req = d.req
                                 /\ d.seq = NextSequence(d.req, log[d.req])}
    IN  /\ job[p].pc = "events"
        /\ job' = [job EXCEPT ![p] = [pc |-> IF due = {} THEN "sleep" ELSE "deliver",
                                      todo |-> due]]
        /\ UNCHANGED <<tables, wire, parked, recording, tally, health>>

(* The owner is done with the request: opened it, or its fate is recorded. *)
Settled(r) == ~Pending(r) \/ "NOTIFICATION_OPENED" \in log[r]

(* One item: delivered on what was read, whatever has happened since. *)
JobDeliver(p) ==
    /\ p \in up /\ recording[p] = NoDelivery
    /\ job[p].pc = "deliver"
    /\ \E item \in job[p].todo :
        LET rest == job[p].todo \ {item}
        IN  /\ job' = [job EXCEPT ![p] =
                         [pc |-> IF rest = {} THEN "sleep" ELSE "deliver", todo |-> rest]]
            /\ recording' = [recording EXCEPT ![p] = item]
            /\ sent' = [sent EXCEPT ![item.req][item.seq] = @ + 1]
            /\ nagged' = [nagged EXCEPT ![item.req] = IF Settled(item.req) THEN @ + 1 ELSE @]
    /\ UNCHANGED <<tables, wire, parked, health>>

(* A failed read ends this round of the job; the loop starts the next one. *)
JobFails(p) ==
    /\ job[p].pc = "events"
    /\ faults < MaxFaults
    /\ faults' = faults + 1
    /\ job' = [job EXCEPT ![p] = JobIdle]
    /\ UNCHANGED <<tables, up, jobs, listening, wire, parked, recording, tally>>

-----------------------------------------------------------------------------
(* Faults of a process. *)

(* It dies with its tasks, its job and the announcements sent to it. *)
Crash(p) ==
    /\ p \in up
    /\ faults < MaxFaults
    /\ faults' = faults + 1
    /\ up' = up \ {p} /\ jobs' = jobs \ {p} /\ listening' = listening \ {p}
    /\ wire' = [wire EXCEPT ![p] = <<>>]
    /\ parked' = [parked EXCEPT ![p] = {}]
    /\ recording' = [recording EXCEPT ![p] = NoDelivery]
    /\ job' = [job EXCEPT ![p] = JobIdle]
    /\ UNCHANGED <<tables, tally>>

(* A new process starts its listener and its jobs.  If the pool cannot be  *)
(* reached or LISTEN fails, run_consent_listener cancels the jobs, which   *)
(* sleep before their first round, and returns for good.                   *)
Start(p) ==
    /\ p \notin up
    /\ up' = up \cup {p}
    /\ \/ jobs' = jobs \cup {p} /\ listening' = listening \cup {p}
       \/ UNCHANGED <<jobs, listening>>
    /\ UNCHANGED <<tables, wire, parked, recording, job, tally, faults>>

(* The LISTEN connection breaks: run_consent_listener sleeps on, nothing   *)
(* connects again, and only the jobs go on.                                *)
LoseConnection(p) ==
    /\ p \in listening
    /\ faults < MaxFaults
    /\ faults' = faults + 1
    /\ listening' = listening \ {p}
    /\ wire' = [wire EXCEPT ![p] = <<>>]
    /\ UNCHANGED <<tables, up, jobs, parked, recording, job, tally>>

-----------------------------------------------------------------------------
JobStep(p) == JobScan(p) \/ JobEvents(p) \/ JobDeliver(p)

Next ==
    /\ \/ \E r \in Requests : Ask(r) \/ Resolve(r) \/ MarkOpened(r) \/ Tick(r) \/ Bury(r)
       \/ \E p \in Procs : \/ Receive(p) \/ Resume(p) \/ Record(p) \/ RecordFails(p)
                           \/ JobStep(p) \/ JobFails(p)
                           \/ Crash(p) \/ Start(p) \/ LoseConnection(p)
    /\ UNCHANGED adviser

Spec == Init /\ [][Next]_vars

(* Handlers and look-ups return, and a job that was not cancelled sleeps a *)
(* minute and runs again whatever it met.                                  *)
Fixed(A) == A /\ UNCHANGED adviser
Fairness ==
    \A p \in Procs : /\ WF_vars(Fixed(Receive(p))) /\ WF_vars(Fixed(Resume(p)))
                     /\ WF_vars(Fixed(Record(p) \/ RecordFails(p)))
                     /\ WF_vars(Fixed(JobStep(p)))

FairSpec == Spec /\ Fairness

-----------------------------------------------------------------------------
(* Properties *)

(* Every process delivers a new request once when it hears of it, and its  *)
(* job at most once more before it reads a record of any delivery.  The    *)
(* final reminder is delivered before it is recorded, and every process    *)
(* has a job: it can come twice, but never more often than there are       *)
(* processes.  Each fault allows one delivery more.                        *)
DeliveriesBounded ==
    \A r \in Requests :
        /\ sent[r][1] <= 2 * Cardinality(Procs) + faults
        /\ sent[r][2] <= Cardinality(Procs) + faults

(* Once the owner has opened the request, or its fate is recorded, each    *)
(* job delivers at most the one notification it had already decided on,    *)
(* crashes and failures included.                                          *)
NagBounded == \A r \in Requests : nagged[r] <= Cardinality(Procs)

(* If one process at least goes on running its job, a request nobody was   *)
(* told about is delivered although every announcement of it was lost,     *)
(* unless it is answered or overdue first, or so many rows follow it that  *)
(* no job reads it any more.                                               *)
PendingNotified ==
    (\E p \in Procs : <>[](p \in jobs)) =>
        \A r \in Requests :
            Open(r) /\ log[r] = {} ~> log[r] # {} \/ ~Open(r) \/ r \in buried

-----------------------------------------------------------------------------
(* The inductive invariant behind the two bounds: what was delivered and   *)
(* the processes that can still deliver are never more than the bound.     *)

InWire(p, r) == \E n \in 1..Len(wire[p]) : wire[p][n] = r

(* Announcements, handlers and jobs are about requests that were made; a   *)
(* process hears of a request once, and its job holds it once.             *)
OnlyAsked ==
    /\ \A p \in Procs, r \in Requests :
        InWire(p, r) \/ r \in parked[p] => status[r] # "none"
    /\ \A p \in Procs : \A item \in job[p].todo : status[item.req] # "none"

HeardOnce ==
    \A p \in Procs :
        /\ \A m, n \in 1..Len(wire[p]) : wire[p][m] = wire[p][n] => m = n
        /\ \A r \in parked[p] : ~InWire(p, r)

OneItemEach ==
    \A p \in Procs :
        /\ \A d, e \in job[p].todo : d.req = e.req => d = e
        /\ recording[p] # NoDelivery => job[p].pc # "events"

(* What the log must lack for a job to deliver. *)
Unrecorded(r, seq) == IF seq = 1 THEN log[r] = {} ELSE "REMINDER_SENT" \notin log[r]

CanHear(r) == {p \in Procs : status[r] = "none" \/ InWire(p, r) \/ r \in parked[p]}
CanDeliver(d) ==
    {p \in Procs : \/ Unrecorded(d.req, d.seq) /\ recording[p] # d
                   \/ job[p].pc = "deliver" /\ d \in job[p].todo}
CanNag(r) ==
    {p \in Procs : /\ \E item \in job[p].todo : item.req = r
                   /\ job[p].pc = "deliver" \/ "NOTIFICATION_OPENED" \notin log[r]}

FirstCounted ==
    \A r \in Requests :
        sent[r][1] + Cardinality(CanHear(r)) + Cardinality(CanDeliver([req |-> r, seq |-> 1]))
            <= 2 * Cardinality(Procs) + faults

ReminderCounted ==
    \A r \in Requests :
        sent[r][2] + Cardinality(CanDeliver([req |-> r, seq |-> 2])) <= Cardinality(Procs) + faults

NagCounted ==
    \A r \in Requests :
        /\ status[r] = "none" => "NOTIFICATION_OPENED" \notin log[r] /\ nagged[r] = 0
        /\ IF Settled(r) THEN nagged[r] + Cardinality(CanNag(r)) <= Cardinality(Procs)
           ELSE nagged[r] = 0

SafetyInv ==
    /\ TypeOK
    /\ OnlyAsked
    /\ HeardOnce
    /\ OneItemEach
    /\ FirstCounted
    /\ ReminderCounted
    /\ NagCounted
=============================================================================
