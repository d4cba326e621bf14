--------------------------- MODULE ConsentStreams --------------------------
(* The queues of a server process and the SSE connections that read them   *)
(* (api/consent_listener.py, api/routes/sse.py, the developer stream of    *)
(* api/routes/developer.py).                                               *)
(*                                                                         *)
(* A process hears of the rows of the ledger in commit order, enriches     *)
(* each and pushes it to one bounded queue for the owner, shared by all    *)
(* the owner's connections, and to one bounded queue for each developer    *)
(* stream of the request.  When a job delivers again and what it records   *)
(* is the subject of ConsentNotify; here it may push any request that was  *)
(* pending when it read.                                                   *)
EXTENDS Integers, Sequences, FiniteSets

CONSTANTS
    Requests,     \* consent requests of one owner
    Adviser,      \* those of an adviser: enriching their events suspends
    Clients,      \* SSE connections of the owner to this process
    Streams,      \* SSE connections of a developer, to one request each
    QueueLimit,   \* _CONSENT_NOTIFY_QUEUE_MAXSIZE
    StreamLimit,  \* _DEVELOPER_CONSENT_QUEUE_MAXSIZE
    MaxRows,      \* bound on the rows of the ledger
    MaxOpen       \* bound on the connections open at a time

ASSUME AdviserAssumption == Adviser \subseteq Requests
ASSUME LimitAssumption == /\ QueueLimit \in Nat \ {0}
                          /\ StreamLimit \in Nat \ {0}
                          /\ MaxRows \in Nat /\ MaxOpen \in Nat

VARIABLES
    ledger,     \* consent_audit: the rows of these requests, oldest first
    listening,  \* the LISTEN connection is alive
    wire,       \* announcements on their way
    parked,     \* handlers waiting for an adviser's identity
    due,        \* requests the job read as pending and may still push
    made,       \* the owner's queue exists
    queue,      \* the owner's queue
    lossy,      \* an event was lost to a full queue or a broken connection
    client,
    stream

vars == <<ledger, listening, wire, parked, due, made, queue, lossy, client, stream>>
process == <<listening, wire, parked, due>>
owner == <<made, queue, lossy, client>>

(* RESOLVED stands for CONSENT_GRANTED, CONSENT_DENIED and TIMEOUT, which   *)
(* delivery treats alike; only the first is ever followed by REVOKED.      *)
Actions == {"REQUESTED", "RESOLVED", "REVOKED"}
Row == [req : Requests, act : Actions]
None == "none"

ClientRow == [on : BOOLEAN, shown : [Requests -> Actions \cup {None}],
              stolen : SUBSET Row, skipped : SUBSET Row, since : 0..MaxRows]
StreamRow == [pc : {"off", "opening", "live", "done"}, req : Requests \cup {None},
              told : Actions \cup {None}, queue : Seq(Row), gap : BOOLEAN]

ClientOff == [on |-> FALSE, shown |-> [r \in Requests |-> None],
              stolen |-> {}, skipped |-> {}, since |-> 0]
StreamOff == [pc |-> "off", req |-> None, told |-> None, queue |-> <<>>, gap |-> FALSE]

NewestIn(rows, r) ==
    LET mine == {i \in 1..Len(rows) : rows[i].req = r}
    IN  IF mine = {} THEN None ELSE rows[CHOOSE i \in mine : \A j \in mine : j <= i].act
(* get_request_status: the newest row of the request. *)
Latest(r) == NewestIn(ledger, r)
Terminal(act) == act \in Actions \ {"REQUESTED"}
Pending(r) == Latest(r) = "REQUESTED"
RowsIn(s) == {s[i] : i \in DOMAIN s}

(* Rows and connections have their types, and no queue outgrows its limit. *)
TypeOK ==
    /\ ledger \in Seq(Row) /\ Len(ledger) <= MaxRows
    /\ listening \in BOOLEAN
    /\ wire \in Seq(Row)
    /\ parked \in SUBSET Row
    /\ due \in SUBSET Requests
    /\ made \in BOOLEAN /\ lossy \in BOOLEAN
    /\ queue \in Seq(Row) /\ Len(queue) <= QueueLimit
    /\ client \in [Clients -> ClientRow]
    /\ stream \in [Streams -> StreamRow]
    /\ \A d \in Streams : Len(stream[d].queue) <= StreamLimit

Init ==
    /\ ledger = <<>>
    /\ listening = TRUE
    /\ wire = <<>> /\ parked = {} /\ due = {}
    /\ made = FALSE /\ queue = <<>> /\ lossy = FALSE
    /\ client = [c \in Clients |-> ClientOff]
    /\ stream = [d \in Streams |-> StreamOff]

-----------------------------------------------------------------------------
(* The ledger and its trigger. *)

(* consent_audit_notify: a committed row is announced to who listens. *)
Insert(r, act) ==
    LET row == [req |-> r, act |-> act]
    IN  /\ Len(ledger) < MaxRows
        /\ ledger' = Append(ledger, row)
        /\ wire' = IF listening THEN Append(wire, row) ELSE wire
        /\ UNCHANGED <<listening, parked, due, owner, stream>>

Ask(r) == Latest(r) = None /\ Insert(r, "REQUESTED")
Resolve(r) == Pending(r) /\ Insert(r, "RESOLVED")
Revoke(r) == Latest(r) = "RESOLVED" /\ Insert(r, "REVOKED")

-----------------------------------------------------------------------------
(* Handling an announcement. *)

(* Mutant: a full queue refuses the newest event. *)
PutOldest(q, row, limit) == IF Len(q) < limit THEN Append(q, row) ELSE q

(* Mutant: one event more than the queue holds. *)
PutOver(q, row, limit) ==
    IF Len(q) <= limit THEN Append(q, row) ELSE Append(Tail(q), row)

(* put_nowait, and when the queue is full the oldest event makes room. *)
PutNewest(q, row, limit) ==
    IF Len(q) < limit THEN Append(q, row) ELSE Append(Tail(q), row)

(* _push_to_consent_queue: no queue before the owner's first connection. *)
PushOwner(row) ==
    /\ queue' = IF made THEN PutNewest(queue, row, QueueLimit) ELSE queue
    /\ lossy' = (lossy \/ Len(queue) = QueueLimit)
    /\ UNCHANGED <<made, client>>

(* _push_to_developer_consent_queues: every subscriber of the request. *)
PushDevelopers(row) ==
    stream' = [d \in Streams |->
        LET s == stream[d]
        IN  CASE s.req = row.req /\ s.pc = "live" ->
                   [s EXCEPT !.queue = PutNewest(@, row, StreamLimit)]
              [] s.req = row.req /\ s.pc = "opening" -> [s EXCEPT !.gap = TRUE]
              [] OTHER -> s]

(* _handle_notify once the payload is enriched. *)
Handle(row) == PushDevelopers(row) /\ PushOwner(row) /\ UNCHANGED <<ledger, listening, due>>

(* Enriching the event of a developer's request does not suspend ... *)
Receive ==
    /\ wire # <<>> /\ Head(wire).req \notin Adviser
    /\ wire' = Tail(wire)
    /\ Handle(Head(wire))
    /\ UNCHANGED parked

(* Mutant: the waiting handler is not kept and is collected with its event. *)
ParkUnreferenced ==
    /\ wire # <<>> /\ Head(wire).req \in Adviser
    /\ wire' = Tail(wire)
    /\ UNCHANGED <<ledger, listening, parked, due, owner, stream>>

(* ... that of an adviser's waits for the adviser's identity ... *)
Park ==
    /\ wire # <<>> /\ Head(wire).req \in Adviser
    /\ wire' = Tail(wire)
    /\ parked' = parked \cup {Head(wire)}
    /\ UNCHANGED <<ledger, listening, due, owner, stream>>

(* ... and such handlers resume in any order. *)
Resume(row) ==
    /\ row \in parked
    /\ parked' = parked \ {row}
    /\ Handle(row)
    /\ UNCHANGED wire

(* The notification job reads the pending requests ... *)
JobReads ==
    /\ due = {}
    /\ due' = {r \in Requests : Pending(r)}
    /\ UNCHANGED <<ledger, listening, wire, parked, owner, stream>>

(* ... and pushes some of them to the owner, as requested, on what it read. *)
JobPushes(r) ==
    /\ r \in due
    /\ due' = due \ {r}
    /\ PushOwner([req |-> r, act |-> "REQUESTED"]) \/ UNCHANGED owner
    /\ UNCHANGED <<ledger, listening, wire, parked, stream>>

(* The LISTEN connection breaks and is never made again. *)
LoseConnection ==
    /\ listening
    /\ listening' = FALSE
    /\ wire' = <<>>
    /\ lossy' = TRUE
    /\ UNCHANGED <<ledger, parked, due, made, queue, client, stream>>

-----------------------------------------------------------------------------
(* The owner's SSE connections (consent_event_generator). *)

Open == {c \in Clients : client[c].on} \cup {d \in Streams : stream[d].pc # "off"}

(* The queue is made, or found with what earlier connections left in it;   *)
(* the rows of the last two minutes are sent, the newest of each request.  *)
Connect(c) ==
    /\ ~client[c].on /\ Cardinality(Open) < MaxOpen
    /\ made' = TRUE
    /\ \E n \in 0..Len(ledger) :
        client' = [client EXCEPT ![c] =
            [on |-> TRUE, stolen |-> {}, skipped |-> {}, since |-> Len(ledger),
             shown |-> [r \in Requests |->
                          NewestIn(SubSeq(ledger, n + 1, Len(ledger)), r)]]]
    /\ UNCHANGED <<ledger, process, queue, lossy, stream>>

(* What a connection that takes an event has sent: it skips all but the    *)
(* first event of a request (notified_event_ids).                          *)
Took(w, row) ==
    [w EXCEPT !.shown[row.req] = IF @ = None THEN row.act ELSE @,
              !.skipped = IF w.shown[row.req] \in {None, row.act} THEN @ ELSE @ \cup {row}]

(* What another connection that is open misses of it. *)
Missed(w, row) == [w EXCEPT !.stolen = IF w.on THEN @ \cup {row} ELSE @]

(* queue.get(): the event goes to one of the connections. *)
Consume(c) ==
    /\ client[c].on
    /\ queue # <<>>
    /\ queue' = Tail(queue)
    /\ client' = [e \in Clients |-> IF e = c THEN Took(client[e], Head(queue))
                                           ELSE Missed(client[e], Head(queue))]
    /\ UNCHANGED <<ledger, process, made, lossy, stream>>

Disconnect(c) ==
    /\ client[c].on
    /\ client' = [client EXCEPT ![c] = ClientOff]
    /\ UNCHANGED <<ledger, process, made, queue, lossy, stream>>

-----------------------------------------------------------------------------
(* A developer's stream (_developer_consent_event_generator). *)

(* The route reads the request's status ... *)
OpenStream(d, r) ==
    /\ stream[d].pc = "off" /\ Cardinality(Open) < MaxOpen
    /\ r \notin Adviser /\ Latest(r) # None
    /\ stream' = [stream EXCEPT ![d] = [StreamOff EXCEPT !.pc = "opening",
                                          !.req = r, !.told = Latest(r)]]
    /\ UNCHANGED <<ledger, process, owner>>

(* ... and the generator, when it first runs, subscribes and tells it. *)
Subscribe(d) ==
    /\ stream[d].pc = "opening"
    /\ stream' = [stream EXCEPT ![d].pc = IF Terminal(stream[d].told) THEN "done" ELSE "live"]
    /\ UNCHANGED <<ledger, process, owner>>

StreamNext(d) ==
    /\ stream[d].pc = "live"
    /\ stream[d].queue # <<>>
    /\ LET act == Head(stream[d].queue).act
           status == IF Terminal(act) THEN "done" ELSE "live"
       IN  stream' = [stream EXCEPT ![d] =
                        [stream[d] EXCEPT !.queue = Tail(@), !.told = act, !.pc = status]]
    /\ UNCHANGED <<ledger, process, owner>>

CloseStream(d) ==
    /\ stream[d].pc # "off"
    /\ stream' = [stream EXCEPT ![d] = StreamOff]
    /\ UNCHANGED <<ledger, process, owner>>

-----------------------------------------------------------------------------
Next ==
    \/ \E r \in Requests : Ask(r) \/ Resolve(r) \/ Revoke(r) \/ JobPushes(r)
    \/ Receive \/ Park \/ JobReads \/ LoseConnection
    \/ \E row \in Row : Resume(row)
    \/ \E c \in Clients : Connect(c) \/ Consume(c) \/ Disconnect(c)
    \/ \E d \in Streams : \/ \E r \in Requests : OpenStream(d, r)
                          \/ Subscribe(d) \/ StreamNext(d) \/ CloseStream(d)

Spec == Init /\ [][Next]_vars

-----------------------------------------------------------------------------
(* Properties *)

(* A stream that a developer holds open on an answered request will be     *)
(* told: the answer is in its queue or on its way, unless the connection   *)
(* to the database broke or the answer was handled between the read of the *)
(* status and the subscription.  A full queue is no excuse: the oldest     *)
(* event makes room, and the answer is never the oldest for long.          *)
StreamHearsAnswer ==
    \A d \in Streams :
        LET s == stream[d]
        IN  \/ s.pc \notin {"opening", "live"} \/ Terminal(s.told)
            \/ ~Terminal(Latest(s.req))
            \/ \E w \in RowsIn(wire) \cup RowsIn(s.queue) :
                  w.req = s.req /\ Terminal(w.act)
            \/ s.gap \/ ~listening

(* Every row recorded while the owner is connected is shown by that        *)
(* connection as it is, or is on its way to it, unless the queue           *)
(* overflowed, the database connection broke, or another connection of the *)
(* owner took that very row.  The exception: a connection shows a request  *)
(* once, so of a request it has shown already it skips the row it takes,   *)
(* an answer too, though _push_to_consent_queue promises that the consumer *)
(* always receives the most recent state.                                  *)
ConnectedHears ==
    \A c \in Clients :
        client[c].on /\ ~lossy =>
            \A i \in (client[c].since + 1)..Len(ledger) :
                \/ ledger[i] \in RowsIn(wire) \cup parked \cup RowsIn(queue)
                \/ client[c].shown[ledger[i].req] = ledger[i].act
                \/ ledger[i] \in client[c].stolen \cup client[c].skipped

-----------------------------------------------------------------------------
(* The inductive invariant behind both.                                    *)

(* Handlers that wait are of advisers' requests, and no developer streams  *)
(* those.                                                                  *)
ParkedAreAdvisers ==
    /\ \A row \in parked : row.req \in Adviser
    /\ \A d \in Streams : stream[d].pc # "off" => stream[d].req \in Requests \ Adviser

(* A stream that goes on has not told its developer an answer. *)
LiveIsUntold == \A d \in Streams : stream[d].pc = "live" => ~Terminal(stream[d].told)

(* On the wire an answer follows the asking it is about. *)
AnswerFollows ==
    listening =>
        \A i \in 1..Len(wire) :
            wire[i].act = "REQUESTED" /\ Terminal(Latest(wire[i].req)) =>
                \E j \in (i + 1)..Len(wire) :
                    wire[j].req = wire[i].req /\ Terminal(wire[j].act)

(* A broken connection counts as a loss, and a connected owner has a queue. *)
LossIsNoted ==
    /\ ~listening => lossy
    /\ \A c \in Clients : client[c].on => made

SafetyInv ==
    /\ TypeOK
    /\ ParkedAreAdvisers
    /\ LiveIsUntold
    /\ AnswerFollows
    /\ LossIsNoted
    /\ StreamHearsAnswer
    /\ ConnectedHears
=============================================================================
