------------------------ MODULE ConsentNotifyProofs ------------------------
(* Proofs about ConsentNotify, for every number of processes, requests and *)
(* faults: the rows of the model have their types, and the deliveries an   *)
(* owner can get of one request are bounded, before and after it is        *)
(* settled.                                                                *)
(*                                                                         *)
(* Both bounds are counting arguments.  Beside what was delivered already, *)
(* the invariant counts the processes that can still deliver: those that   *)
(* have yet to hear of the request, those whose job may still find it      *)
(* unrecorded, those whose job holds it.  A delivery takes its process out *)
(* of the count; only a fault puts one back.                               *)
EXTENDS ConsentNotify, FiniteSetTheorems, SequenceTheorems, TLAPS

-----------------------------------------------------------------------------
(* Counting processes. *)

(* Fewer processes are not more in number. *)
LEMMA Fewer ==
    ASSUME NEW B, B \subseteq Procs, NEW A, A \subseteq B
    PROVE  /\ Cardinality(A) \in Nat /\ Cardinality(B) \in Nat
           /\ Cardinality(A) <= Cardinality(B)
<1>1. IsFiniteSet(B)
  BY FS_Subset, ProcAssumption
<1>2. IsFiniteSet(A) /\ Cardinality(A) <= Cardinality(B)
  BY <1>1, FS_Subset
<1>3. Cardinality(A) \in Nat /\ Cardinality(B) \in Nat
  BY <1>1, <1>2, FS_CardinalityType
<1> QED
  BY <1>2, <1>3

(* A set that lost a process is smaller by one. *)
LEMMA OneLess ==
    ASSUME NEW B, B \subseteq Procs, NEW p \in B, NEW A, A \subseteq B \ {p}
    PROVE  /\ Cardinality(A) \in Nat /\ Cardinality(B) \in Nat
           /\ Cardinality(A) + 1 <= Cardinality(B)
<1>1. IsFiniteSet(B)
  BY FS_Subset, ProcAssumption
<1>2. Cardinality(B \ {p}) = Cardinality(B) - 1
  BY <1>1, FS_RemoveElement
<1>3. /\ Cardinality(A) \in Nat /\ Cardinality(B \ {p}) \in Nat
      /\ Cardinality(A) <= Cardinality(B \ {p})
  BY Fewer
<1>4. Cardinality(B) \in Nat
  BY <1>1, FS_CardinalityType
<1> QED
  BY <1>2, <1>3, <1>4

(* A set that gained at most one process is larger by at most one. *)
LEMMA OneMore ==
    ASSUME NEW B, B \subseteq Procs, NEW p \in Procs, NEW A, A \subseteq B \cup {p}
    PROVE  /\ Cardinality(A) \in Nat /\ Cardinality(B) \in Nat
           /\ Cardinality(A) <= Cardinality(B) + 1
<1>1. IsFiniteSet(B)
  BY FS_Subset, ProcAssumption
<1>2. /\ Cardinality(B) \in Nat
      /\ Cardinality(B \cup {p}) = IF p \in B THEN Cardinality(B) ELSE Cardinality(B) + 1
  BY <1>1, FS_AddElement, FS_CardinalityType
<1>3. /\ Cardinality(A) \in Nat /\ Cardinality(B \cup {p}) \in Nat
      /\ Cardinality(A) <= Cardinality(B \cup {p})
  BY Fewer
<1> QED
  BY <1>2, <1>3

-----------------------------------------------------------------------------
(* Queues of announcements. *)

In(s, r) == \E n \in 1..Len(s) : s[n] = r
Once(s) == \A m, n \in 1..Len(s) : s[m] = s[n] => m = n

(* An announcement appended to a queue that lacks it is in it once. *)
LEMMA Appended ==
    ASSUME NEW s \in Seq(Requests), NEW r \in Requests
    PROVE  /\ Append(s, r) \in Seq(Requests)
           /\ \A q : In(Append(s, r), q) => In(s, q) \/ q = r
           /\ Once(s) /\ ~In(s, r) => Once(Append(s, r))
<1>1. /\ Append(s, r) \in Seq(Requests)
      /\ Len(Append(s, r)) = Len(s) + 1
      /\ \A i \in 1..Len(s) : Append(s, r)[i] = s[i]
      /\ Append(s, r)[Len(s) + 1] = r
  BY AppendProperties
<1>2. Len(s) \in Nat
  BY LenProperties
<1>3. \A i \in 1..Len(s) + 1 : i \in 1..Len(s) \/ i = Len(s) + 1
  BY <1>2
<1>4. \A q : In(Append(s, r), q) => In(s, q) \/ q = r
  BY <1>1, <1>3 DEF In
<1>5. ASSUME Once(s), ~In(s, r) PROVE Once(Append(s, r))
  BY <1>1, <1>3, <1>5 DEF Once, In
<1> QED
  BY <1>1, <1>4, <1>5

(* Taking the head of a queue that holds nothing twice removes it. *)
LEMMA Tailed ==
    ASSUME NEW s \in Seq(Requests), s # <<>>
    PROVE  /\ Head(s) \in Requests
           /\ Tail(s) \in Seq(Requests)
           /\ In(s, Head(s))
           /\ \A q : In(Tail(s), q) => In(s, q)
           /\ Once(s) => Once(Tail(s)) /\ ~In(Tail(s), Head(s))
<1>1. /\ Head(s) \in Requests /\ Tail(s) \in Seq(Requests)
      /\ Len(Tail(s)) = Len(s) - 1
      /\ \A i \in 1..Len(Tail(s)) : Tail(s)[i] = s[i + 1]
  BY HeadTailProperties
<1>2. Len(s) \in Nat /\ Len(s) # 0
  BY EmptySeq, LenProperties
<1>3. Head(s) = s[1] /\ 1 \in 1..Len(s)
  BY <1>2
<1>4. \A i \in 1..Len(Tail(s)) : i + 1 \in 1..Len(s) /\ i + 1 # 1 /\ i \in Int
  BY <1>1, <1>2
<1>5. In(s, Head(s))
  BY <1>3 DEF In
<1>6. \A q : In(Tail(s), q) => In(s, q)
  BY <1>1, <1>4 DEF In
<1>7. ASSUME Once(s) PROVE ~In(Tail(s), Head(s))
  <2>1. SUFFICES ASSUME NEW i \in 1..Len(Tail(s)), Tail(s)[i] = Head(s)
                 PROVE  FALSE
    BY DEF In
  <2>2. s[i + 1] = s[1] /\ i + 1 \in 1..Len(s) /\ i + 1 # 1
    BY <1>1, <1>3, <1>4, <2>1
  <2> QED
    BY <1>3, <1>7, <2>2 DEF Once
<1>8. ASSUME Once(s) PROVE Once(Tail(s))
  <2>1. SUFFICES ASSUME NEW i \in 1..Len(Tail(s)), NEW j \in 1..Len(Tail(s)),
                        Tail(s)[i] = Tail(s)[j]
                 PROVE  i = j
    BY DEF Once
  <2>2. s[i + 1] = s[j + 1]
    BY <1>1, <2>1
  <2>3. i + 1 = j + 1
    BY <1>4, <1>8, <2>2 DEF Once
  <2> QED
    BY <1>4, <2>3
<1> QED
  BY <1>1, <1>5, <1>6, <1>7, <1>8

(* Nothing is in an empty queue. *)
LEMMA Emptied == <<>> \in Seq(Requests) /\ Once(<<>>) /\ \A q : ~In(<<>>, q)
<1>1. <<>> \in Seq(Requests) /\ Len(<<>>) = 0
  BY EmptySeq
<1>2. 1..0 = {}
  OBVIOUS
<1> QED
  BY <1>1, <1>2 DEF Once, In

-----------------------------------------------------------------------------
(* Every step keeps the types. *)

LEMMA Deliveries ==
    /\ NoDelivery \notin Delivery
    /\ \A r \in Requests, k \in {1, 2} : [req |-> r, seq |-> k] \in Delivery
    /\ \A d \in Delivery : d.req \in Requests /\ d.seq \in {1, 2} /\ d = [req |-> d.req, seq |-> d.seq]
    /\ NoDelivery.seq = 0
BY DEF Delivery, NoDelivery

LEMMA JobRows ==
    /\ JobIdle \in JobRow /\ JobIdle.pc = "sleep" /\ JobIdle.todo = {}
    /\ \A c \in {"sleep", "events", "deliver"}, T \in SUBSET Delivery :
         LET j == [pc |-> c, todo |-> T] IN j \in JobRow /\ j.pc = c /\ j.todo = T
    /\ \A j \in JobRow : j.pc \in {"sleep", "events", "deliver"} /\ j.todo \subseteq Delivery
BY DEF JobRow, JobIdle

LEMMA TypeInit == ASSUME Init PROVE TypeOK
<1>1. wire \in [Procs -> Seq(Requests)]
  BY Emptied DEF Init
<1>2. job \in [Procs -> JobRow]
  BY JobRows DEF Init
<1> QED
  BY <1>1, <1>2, FaultAssumption DEF Init, TypeOK, Kinds

(* What a delivery writes has the types of its variables. *)
LEMMA HandleTypes ==
    ASSUME TypeOK, NEW p \in Procs, NEW r \in Requests, Handle(p, r)
    PROVE  /\ recording' \in [Procs -> Delivery \cup {NoDelivery}]
           /\ sent' \in [Requests -> [{1, 2} -> Nat]]
<1>1. [req |-> r, seq |-> 1] \in Delivery
  BY Deliveries
<1>2. sent[r] \in [{1, 2} -> Nat]
  BY DEF TypeOK
<1>3. [sent[r] EXCEPT ![1] = @ + 1] \in [{1, 2} -> Nat]
  BY <1>2
<1>4. sent' = [sent EXCEPT ![r] = [sent[r] EXCEPT ![1] = @ + 1]]
  BY DEF Handle
<1> QED
  BY <1>1, <1>3, <1>4 DEF Handle, TypeOK

LEMMA TypeStep == ASSUME TypeOK, [Next]_vars PROVE TypeOK'
<1> DEFINE Good == TypeOK'
<1>u. ASSUME UNCHANGED vars PROVE Good
  BY <1>u DEF vars, tables, health, tally, TypeOK
<1>r. ASSUME NEW r \in Requests, Ask(r) \/ Resolve(r) \/ MarkOpened(r) \/ Tick(r) \/ Bury(r), UNCHANGED adviser
      PROVE  Good
  <2>1. ASSUME Ask(r) PROVE Good
    <3>1. \A q \in listening : Append(wire[q], r) \in Seq(Requests)
      BY Appended DEF TypeOK
    <3> QED
      BY <1>r, <2>1, <3>1 DEF Ask, TypeOK, health, tally
  <2>2. ASSUME Resolve(r) PROVE Good
    BY <1>r, <2>2 DEF Resolve, TypeOK, health, tally
  <2>3. ASSUME MarkOpened(r) PROVE Good
    BY <1>r, <2>3 DEF MarkOpened, TypeOK, health, tally, Kinds
  <2>4. ASSUME Tick(r) PROVE Good
    BY <1>r, <2>4 DEF Tick, TypeOK, health, tally
  <2>5. ASSUME Bury(r) PROVE Good
    BY <1>r, <2>5 DEF Bury, TypeOK, health, tally
  <2> QED
    BY <1>r, <2>1, <2>2, <2>3, <2>4, <2>5
<1>1. ASSUME NEW p \in Procs, Receive(p), UNCHANGED adviser PROVE Good
  <2>1. Head(wire[p]) \in Requests /\ Tail(wire[p]) \in Seq(Requests)
    BY <1>1, Tailed DEF Receive, TypeOK
  <2>2. ASSUME Handle(p, Head(wire[p])), UNCHANGED parked PROVE Good
    BY <1>1, <2>1, <2>2, HandleTypes DEF Receive, TypeOK, tables, health
  <2>3. ASSUME parked' = [parked EXCEPT ![p] = @ \cup {Head(wire[p])}], UNCHANGED <<recording, sent>>
        PROVE  Good
    BY <1>1, <2>1, <2>3 DEF Receive, TypeOK, tables, health
  <2> QED
    BY <1>1, <2>2, <2>3 DEF Receive
<1>2. ASSUME NEW p \in Procs, Resume(p), UNCHANGED adviser PROVE Good
  <2>1. PICK r \in parked[p] : parked' = [parked EXCEPT ![p] = @ \ {r}] /\ Handle(p, r)
    BY <1>2 DEF Resume
  <2>2. r \in Requests
    BY DEF TypeOK
  <2> QED
    BY <1>2, <2>1, <2>2, HandleTypes DEF Resume, TypeOK, tables, health
<1>3. ASSUME NEW p \in Procs, Record(p), UNCHANGED adviser PROVE Good
  <2>1. recording[p] \in Delivery
    BY <1>3 DEF Record, TypeOK
  <2>2. recording[p].req \in Requests /\ KindOf(recording[p].seq) \in Kinds
    BY <2>1, Deliveries DEF KindOf, Kinds
  <2> QED
    BY <1>3, <2>2 DEF Record, TypeOK, health, tally
<1>4. ASSUME NEW p \in Procs, RecordFails(p), UNCHANGED adviser PROVE Good
  BY <1>4, FaultAssumption DEF RecordFails, TypeOK, tables, tally
<1>5. ASSUME NEW p \in Procs, JobScan(p), UNCHANGED adviser PROVE Good
  <2>1. [req : {r \in Requests \ buried : Open(r)}, seq : {1}] \subseteq Delivery
    BY DEF Delivery
  <2> QED
    BY <1>5, <2>1, JobRows DEF JobScan, TypeOK, tables, health, tally
<1>6. ASSUME NEW p \in Procs, JobEvents(p), UNCHANGED adviser PROVE Good
  <2>1. PICK due \in SUBSET Delivery :
          job' = [job EXCEPT ![p] = [pc |-> IF due = {} THEN "sleep" ELSE "deliver", todo |-> due]]
    BY <1>6 DEF JobEvents
  <2> QED
    BY <1>6, <2>1, JobRows DEF JobEvents, TypeOK, tables, health, tally
<1>7. ASSUME NEW p \in Procs, JobDeliver(p), UNCHANGED adviser PROVE Good
  <2>1. job[p].todo \subseteq Delivery
    BY JobRows DEF TypeOK
  <2>2. PICK item \in job[p].todo :
          /\ job' = [job EXCEPT ![p] =
                [pc |-> IF job[p].todo \ {item} = {} THEN "sleep" ELSE "deliver",
                 todo |-> job[p].todo \ {item}]]
          /\ recording' = [recording EXCEPT ![p] = item]
          /\ sent' = [sent EXCEPT ![item.req][item.seq] = @ + 1]
          /\ nagged' = [nagged EXCEPT ![item.req] = IF Settled(item.req) THEN @ + 1 ELSE @]
    BY <1>7 DEF JobDeliver
  <2>3. item \in Delivery /\ item.req \in Requests /\ item.seq \in {1, 2}
    BY <2>1, Deliveries
  <2>4. job' \in [Procs -> JobRow]
    BY <2>1, <2>2, JobRows DEF TypeOK
  <2>5. sent' \in [Requests -> [{1, 2} -> Nat]]
    <3>1. sent[item.req] \in [{1, 2} -> Nat]
      BY <2>3 DEF TypeOK
    <3>2. [sent[item.req] EXCEPT ![item.seq] = @ + 1] \in [{1, 2} -> Nat]
      BY <2>3, <3>1
    <3> QED
      BY <2>2, <2>3, <3>2 DEF TypeOK
  <2>6. nagged' \in [Requests -> Nat]
    BY <2>2, <2>3 DEF TypeOK
  <2> QED
    BY <1>7, <2>2, <2>3, <2>4, <2>5, <2>6 DEF JobDeliver, TypeOK, tables, health
<1>8. ASSUME NEW p \in Procs, JobFails(p), UNCHANGED adviser PROVE Good
  BY <1>8, FaultAssumption, JobRows DEF JobFails, TypeOK, tables, tally
<1>9. ASSUME NEW p \in Procs, Crash(p), UNCHANGED adviser PROVE Good
  BY <1>9, FaultAssumption, JobRows, Emptied DEF Crash, TypeOK, tables, tally
<1>10. ASSUME NEW p \in Procs, Start(p), UNCHANGED adviser PROVE Good
  BY <1>10 DEF Start, TypeOK, tables, tally
<1>11. ASSUME NEW p \in Procs, LoseConnection(p), UNCHANGED adviser PROVE Good
  BY <1>11, FaultAssumption, Emptied DEF LoseConnection, TypeOK, tables, tally
<1> HIDE DEF Good
<1>a. Good
  BY <1>u, <1>r, <1>1, <1>2, <1>3, <1>4, <1>5, <1>6, <1>7, <1>8, <1>9, <1>10, <1>11 DEF Next, JobStep
<1> QED
  BY <1>a DEF Good

-----------------------------------------------------------------------------
(* Queues hold requests that were made, each of them once. *)

Queues == TypeOK /\ OnlyAsked /\ HeardOnce /\ OneItemEach

Heard(p, r) == In(wire[p], r) \/ r \in parked[p]

LEMMA Hearing ==
    /\ \A p, r : InWire(p, r) <=> In(wire[p], r)
    /\ \A p, r : InWire(p, r)' <=> In(wire'[p], r)
    /\ \A p, r : Heard(p, r)' <=> In(wire'[p], r) \/ r \in parked'[p]
BY DEF InWire, In, Heard

(* HeardOnce and the first half of OnlyAsked, in terms of the queues. *)
Queued ==
    /\ \A p \in Procs : Once(wire[p]) /\ \A r \in parked[p] : ~In(wire[p], r)
    /\ \A p \in Procs, r \in Requests : Heard(p, r) => status[r] # "none"
ItemsAsked == \A p \in Procs : \A item \in job[p].todo : status[item.req] # "none"

LEMMA QueuedMeans == OnlyAsked /\ HeardOnce <=> Queued /\ ItemsAsked
BY DEF OnlyAsked, HeardOnce, Queued, ItemsAsked, Heard, InWire, In, Once

(* A request that was made stays one. *)
LEMMA StaysAsked ==
    ASSUME TypeOK, [Next]_vars, NEW r \in Requests, status[r] # "none"
    PROVE  status'[r] # "none"
<1>1. \A q \in Requests : Ask(q) \/ Resolve(q) \/ MarkOpened(q) \/ Tick(q) \/ Bury(q) => status'[r] # "none"
  BY DEF Ask, Resolve, MarkOpened, Tick, Bury, TypeOK
<1>2. \A p \in Procs : \/ Receive(p) \/ Resume(p) \/ Record(p) \/ RecordFails(p) \/ JobScan(p)
                       \/ JobEvents(p) \/ JobDeliver(p) \/ JobFails(p)
                       \/ Crash(p) \/ Start(p) \/ LoseConnection(p)
                       => UNCHANGED status
  BY DEF Receive, Resume, Record, RecordFails, JobScan, JobEvents, JobDeliver, JobFails,
         Crash, Start, LoseConnection, tables
<1>3. UNCHANGED vars => UNCHANGED status
  BY DEF vars, tables
<1> QED
  BY <1>1, <1>2, <1>3 DEF Next, JobStep

(* What a step does to the queues of a process q: nothing, a new request   *)
(* is appended, the head is taken, a parked one resumes, or they are lost. *)
Takes(p, r) ==
    /\ wire[p] # <<>> /\ r = Head(wire[p]) /\ wire' = [wire EXCEPT ![p] = Tail(@)]
    /\ \/ parked' = [parked EXCEPT ![p] = @ \cup {r}] /\ r \in adviser
       \/ UNCHANGED parked /\ r \notin adviser /\ Handle(p, r)
Resumes(p, r) ==
    /\ r \in parked[p] /\ UNCHANGED wire
    /\ parked' = [parked EXCEPT ![p] = @ \ {r}] /\ Handle(p, r)
Loses(p) ==
    /\ wire' = [wire EXCEPT ![p] = <<>>]
    /\ parked' = [parked EXCEPT ![p] = {}] \/ UNCHANGED parked

LEMMA QueueMoves ==
    ASSUME [Next]_vars
    PROVE  \/ UNCHANGED <<wire, parked>>
           \/ \E r \in Requests : Ask(r)
           \/ \E p \in Procs : \E r : Takes(p, r)
           \/ \E p \in Procs : \E r : Resumes(p, r)
           \/ \E p \in Procs : Loses(p)
<1>1. \A r \in Requests : Resolve(r) \/ MarkOpened(r) \/ Tick(r) \/ Bury(r) => UNCHANGED <<wire, parked>>
  BY DEF Resolve, MarkOpened, Tick, Bury
<1>2. \A p \in Procs : Receive(p) => Takes(p, Head(wire[p]))
  BY DEF Receive, Takes
<1>3. \A p \in Procs : Resume(p) => \E r : Resumes(p, r)
  BY DEF Resume, Resumes
<1>4. \A p \in Procs : \/ Record(p) \/ RecordFails(p) \/ JobScan(p) \/ JobEvents(p)
                       \/ JobDeliver(p) \/ JobFails(p) \/ Start(p)
                       => UNCHANGED <<wire, parked>>
  BY DEF Record, RecordFails, JobScan, JobEvents, JobDeliver, JobFails, Start
<1>5. \A p \in Procs : Crash(p) \/ LoseConnection(p) => Loses(p)
  BY DEF Crash, LoseConnection, Loses
<1>6. UNCHANGED vars => UNCHANGED <<wire, parked>>
  BY DEF vars
<1> QED
  BY <1>1, <1>2, <1>3, <1>4, <1>5, <1>6 DEF Next, JobStep

(* A process that hears of a request heard of it before, or the request is *)
(* a new one; the queues go on holding everything once.                    *)
LEMMA QueuedStep ==
    ASSUME TypeOK, Queued, [Next]_vars
    PROVE  /\ Queued'
           /\ \A p \in Procs, r \in Requests :
                Heard(p, r)' => Heard(p, r) \/ status[r] = "none"
<1> DEFINE Kept(p) == /\ Once(wire'[p])
                      /\ \A r \in parked'[p] : ~In(wire'[p], r)
                      /\ \A r \in Requests : In(wire'[p], r) \/ r \in parked'[p] =>
                            \/ In(wire[p], r) \/ r \in parked[p]
                            \/ status[r] = "none" /\ status'[r] # "none"
<1>1. SUFFICES \A p \in Procs : Kept(p)
  BY StaysAsked, Hearing DEF Queued, Heard
<1> SUFFICES ASSUME NEW q \in Procs PROVE Kept(q)
  BY <1>1
<1>q. /\ wire[q] \in Seq(Requests) /\ Once(wire[q])
      /\ \A r \in parked[q] : ~In(wire[q], r)
      /\ parked[q] \subseteq Requests
  BY DEF TypeOK, Queued
<1>same. ASSUME wire'[q] = wire[q], parked'[q] = parked[q] PROVE Kept(q)
  BY <1>q, <1>same
<1>2. ASSUME UNCHANGED <<wire, parked>> PROVE Kept(q)
  BY <1>2, <1>same
<1>3. ASSUME NEW r \in Requests, Ask(r) PROVE Kept(q)
  <2>1. /\ status[r] = "none" /\ status'[r] # "none" /\ parked' = parked
        /\ wire'[q] \in {wire[q], Append(wire[q], r)}
    BY <1>3 DEF Ask, TypeOK
  <2>2. ~In(wire[q], r) /\ r \notin parked[q]
    BY <2>1 DEF Queued, Heard
  <2>3. ASSUME wire'[q] = Append(wire[q], r) PROVE Kept(q)
    BY <1>q, <2>1, <2>2, <2>3, Appended
  <2> QED
    BY <1>same, <2>1, <2>3
<1>4. ASSUME NEW p \in Procs, NEW r, Takes(p, r) PROVE Kept(q)
  <2>1. CASE p # q
    BY <1>4, <1>same, <2>1 DEF Takes, TypeOK
  <2>2. CASE p = q
    <3>1. /\ wire[q] # <<>> /\ r = Head(wire[q]) /\ wire'[q] = Tail(wire[q])
          /\ parked'[q] = parked[q] \/ parked'[q] = parked[q] \cup {r}
      BY <1>4, <2>2 DEF Takes, TypeOK
    <3>2. /\ In(wire[q], r) /\ ~In(Tail(wire[q]), r) /\ Once(Tail(wire[q]))
          /\ \A x : In(Tail(wire[q]), x) => In(wire[q], x)
      BY <1>q, <3>1, Tailed
    <3> QED
      BY <1>q, <3>1, <3>2
  <2> QED
    BY <2>1, <2>2
<1>5. ASSUME NEW p \in Procs, NEW r, Resumes(p, r) PROVE Kept(q)
  <2>1. wire'[q] = wire[q] /\ parked'[q] \subseteq parked[q]
    BY <1>5 DEF Resumes, TypeOK
  <2> QED
    BY <1>q, <2>1
<1>6. ASSUME NEW p \in Procs, Loses(p) PROVE Kept(q)
  <2>1. wire'[q] \in {wire[q], <<>>} /\ parked'[q] \in {parked[q], {}}
    BY <1>6 DEF Loses, TypeOK
  <2> QED
    BY <1>q, <2>1, Emptied
<1> HIDE DEF Kept
<1> QED
  BY <1>2, <1>3, <1>4, <1>5, <1>6, QueueMoves

-----------------------------------------------------------------------------
(* What the steps of the job do to the process that takes them. *)

LEMMA ScanDoes ==
    ASSUME TypeOK, NEW p \in Procs, JobScan(p)
    PROVE  /\ recording[p] = NoDelivery /\ job[p].pc = "sleep" /\ job[p].todo = {}
           /\ job'[p].pc = "events"
           /\ \A d : d \in job'[p].todo <=>
                       \E r \in Requests \ buried : Open(r) /\ d = [req |-> r, seq |-> 1]
           /\ \A q \in Procs : q # p => job'[q] = job[q]
           /\ UNCHANGED <<tables, wire, parked, recording, tally, health>>
<1> DEFINE todo == [req : {r \in Requests \ buried : Open(r)}, seq : {1}]
<1>1. /\ job' = [job EXCEPT ![p] = [pc |-> "events", todo |-> todo]]
      /\ Runs(p) /\ job[p] = JobIdle
      /\ UNCHANGED <<tables, wire, parked, recording, tally, health>>
  BY DEF JobScan
<1>2. todo \in SUBSET Delivery
  BY DEF Delivery
<1>3. recording[p] = NoDelivery
  BY <1>1 DEF Runs, Busy
<1>4. \A d : d \in todo <=> \E r \in Requests \ buried : Open(r) /\ d = [req |-> r, seq |-> 1]
  OBVIOUS
<1>5. job'[p] = [pc |-> "events", todo |-> todo] /\ \A q \in Procs : q # p => job'[q] = job[q]
  BY <1>1 DEF TypeOK
<1> HIDE DEF todo
<1>6. job'[p].pc = "events" /\ job'[p].todo = todo
  BY <1>5
<1> QED
  BY <1>1, <1>3, <1>4, <1>5, <1>6, JobRows

LEMMA EventsDoes ==
    ASSUME TypeOK, NEW p \in Procs, JobEvents(p)
    PROVE  /\ job[p].pc = "events" /\ job'[p].pc \in {"sleep", "deliver"}
           /\ \A d : d \in job'[p].todo <=>
                       /\ d \in Delivery
                       /\ \E item \in job[p].todo : item.req = d.req
                       /\ d.seq = NextSequence(d.req, log[d.req])
           /\ \A q \in Procs : q # p => job'[q] = job[q]
           /\ UNCHANGED <<tables, wire, parked, recording, tally, health>>
<1> DEFINE due == {d \in Delivery : /\ \E item \in job[p].todo : item.req = d.req
                                    /\ d.seq = NextSequence(d.req, log[d.req])}
           c == IF due = {} THEN "sleep" ELSE "deliver"
<1>1. /\ job[p].pc = "events"
      /\ job' = [job EXCEPT ![p] = [pc |-> c, todo |-> due]]
      /\ UNCHANGED <<tables, wire, parked, recording, tally, health>>
  BY DEF JobEvents
<1>2. \A d : d \in due <=> /\ d \in Delivery
                           /\ \E item \in job[p].todo : item.req = d.req
                           /\ d.seq = NextSequence(d.req, log[d.req])
  OBVIOUS
<1>3. c \in {"sleep", "deliver"}
  OBVIOUS
<1> HIDE DEF due, c
<1>4. job'[p] = [pc |-> c, todo |-> due] /\ \A q \in Procs : q # p => job'[q] = job[q]
  BY <1>1 DEF TypeOK
<1>5. job'[p].pc = c /\ job'[p].todo = due
  BY <1>4
<1> QED
  BY <1>1, <1>2, <1>3, <1>4, <1>5

LEMMA DeliverDoes ==
    ASSUME TypeOK, NEW p \in Procs, JobDeliver(p)
    PROVE  \E item \in job[p].todo :
             /\ recording[p] = NoDelivery /\ job[p].pc = "deliver"
             /\ item \in Delivery
             /\ job'[p].pc \in {"sleep", "deliver"}
             /\ job'[p].todo = job[p].todo \ {item}
             /\ \A q \in Procs : q # p => job'[q] = job[q]
             /\ recording' = [recording EXCEPT ![p] = item]
             /\ sent' = [sent EXCEPT ![item.req][item.seq] = @ + 1]
             /\ nagged' = [nagged EXCEPT ![item.req] = IF Settled(item.req) THEN @ + 1 ELSE @]
             /\ UNCHANGED <<tables, wire, parked, health>>
<1>1. job[p].todo \subseteq Delivery
  BY JobRows DEF TypeOK
<1>2. PICK item \in job[p].todo :
          /\ job' = [job EXCEPT ![p] =
                [pc |-> IF job[p].todo \ {item} = {} THEN "sleep" ELSE "deliver",
                 todo |-> job[p].todo \ {item}]]
          /\ recording' = [recording EXCEPT ![p] = item]
          /\ sent' = [sent EXCEPT ![item.req][item.seq] = @ + 1]
          /\ nagged' = [nagged EXCEPT ![item.req] = IF Settled(item.req) THEN @ + 1 ELSE @]
  BY DEF JobDeliver
<1>3. /\ job'[p] = [pc |-> IF job[p].todo \ {item} = {} THEN "sleep" ELSE "deliver",
                    todo |-> job[p].todo \ {item}]
      /\ \A q \in Procs : q # p => job'[q] = job[q]
  BY <1>2 DEF TypeOK
<1>4. job'[p].pc \in {"sleep", "deliver"} /\ job'[p].todo = job[p].todo \ {item}
  BY <1>3
<1>5. /\ recording[p] = NoDelivery /\ job[p].pc = "deliver"
      /\ UNCHANGED <<tables, wire, parked, health>>
  BY DEF JobDeliver
<1> QED
  BY <1>1, <1>2, <1>3, <1>4, <1>5

(* A handler delivers for a process that reads nothing and records nothing. *)
LEMMA HandleDoes ==
    ASSUME TypeOK, NEW p \in Procs, NEW r \in Requests, Handle(p, r)
    PROVE  /\ recording'[p] = [req |-> r, seq |-> 1]
           /\ \A q \in Procs : q # p => recording'[q] = recording[q]
           /\ sent'[r][1] = sent[r][1] + 1
           /\ \A d \in Delivery : d # [req |-> r, seq |-> 1] =>
                                    sent'[d.req][d.seq] = sent[d.req][d.seq]
<1>1. sent' = [sent EXCEPT ![r] = [sent[r] EXCEPT ![1] = @ + 1]]
  BY DEF Handle
<1>2. sent[r] \in [{1, 2} -> Nat]
  BY DEF TypeOK
<1>3. sent'[r][1] = sent[r][1] + 1 /\ sent'[r][2] = sent[r][2]
  BY <1>1, <1>2 DEF TypeOK
<1>4. \A q \in Requests : q # r => sent'[q] = sent[q]
  BY <1>1 DEF TypeOK
<1>5. \A d \in Delivery : d # [req |-> r, seq |-> 1] => d.req # r \/ d.seq = 2
  BY DEF Delivery
<1>6. /\ recording'[p] = [req |-> r, seq |-> 1]
      /\ \A q \in Procs : q # p => recording'[q] = recording[q]
  BY DEF Handle, TypeOK
<1> QED
  BY <1>3, <1>4, <1>5, <1>6, Deliveries

(* The job's items are about requests that were made, one about each, and  *)
(* a process that is recording does not have its job read the log.         *)
LEMMA ItemsStep ==
    ASSUME TypeOK, OneItemEach, ItemsAsked, [Next]_vars
    PROVE  OneItemEach' /\ ItemsAsked'
<1> DEFINE Kept(q) ==
             /\ \A d, e \in job'[q].todo : d.req = e.req => d = e
             /\ recording'[q] # NoDelivery => job'[q].pc # "events"
             /\ \A item \in job'[q].todo : status'[item.req] # "none"
<1>1. SUFFICES ASSUME NEW q \in Procs PROVE Kept(q)
  BY DEF OneItemEach, ItemsAsked
<1>q. /\ \A d, e \in job[q].todo : d.req = e.req => d = e
      /\ recording[q] # NoDelivery => job[q].pc # "events"
      /\ \A item \in job[q].todo : item.req \in Requests /\ status[item.req] # "none"
  BY JobRows, Deliveries DEF OneItemEach, ItemsAsked, TypeOK
<1>2. ASSUME job'[q] = job[q], recording'[q] = recording[q] \/ job[q].pc # "events" PROVE Kept(q)
  BY <1>q, <1>2, StaysAsked
<1>3. ASSUME job'[q] = JobIdle PROVE Kept(q)
  BY <1>3, JobRows
<1>r. ASSUME NEW r \in Requests, Ask(r) \/ Resolve(r) \/ MarkOpened(r) \/ Tick(r) \/ Bury(r) PROVE Kept(q)
  BY <1>2, <1>r DEF Ask, Resolve, MarkOpened, Tick, Bury
<1>4. ASSUME NEW p \in Procs, Receive(p) \/ Resume(p) PROVE Kept(q)
  <2>1. job' = job /\ job[p].pc # "events"
    BY <1>4 DEF Receive, Resume, Runs, Busy
  <2>2. q # p => recording'[q] = recording[q]
    BY <1>4 DEF Receive, Resume, Handle, TypeOK
  <2> QED
    BY <1>2, <2>1, <2>2
<1>5. ASSUME NEW p \in Procs, Record(p) \/ RecordFails(p) PROVE Kept(q)
  <2>1. job' = job /\ (q # p => recording'[q] = recording[q]) /\ recording[p] # NoDelivery
    BY <1>5 DEF Record, RecordFails, TypeOK
  <2> QED
    BY <1>2, <1>q, <2>1
<1>6. ASSUME NEW p \in Procs, JobScan(p) PROVE Kept(q)
  <2>1. CASE q # p
    BY <1>2, <1>6, <2>1, ScanDoes
  <2>2. CASE q = p
    <3>1. /\ recording'[q] = NoDelivery
          /\ \A d \in job'[q].todo :
               \E r \in Requests \ buried : Open(r) /\ d = [req |-> r, seq |-> 1]
          /\ UNCHANGED status
      BY <1>6, <2>2, ScanDoes DEF tables
    <3>2. \A r \in Requests : Open(r) => status[r] # "none"
      BY DEF Open, Pending
    <3> QED
      BY <3>1, <3>2
  <2> QED
    BY <2>1, <2>2
<1>7. ASSUME NEW p \in Procs, JobEvents(p) PROVE Kept(q)
  <2>1. CASE q # p
    BY <1>2, <1>7, <2>1, EventsDoes
  <2>2. CASE q = p
    <3>1. /\ job'[q].pc # "events" /\ UNCHANGED status
          /\ \A d \in job'[q].todo : /\ d \in Delivery
                                     /\ \E item \in job[q].todo : item.req = d.req
                                     /\ d.seq = NextSequence(d.req, log[d.req])
      BY <1>7, <2>2, EventsDoes DEF tables
    <3> QED
      BY <1>q, <3>1, Deliveries
  <2> QED
    BY <2>1, <2>2
<1>8. ASSUME NEW p \in Procs, JobDeliver(p) PROVE Kept(q)
  <2>i. PICK item \in job[p].todo :
          /\ job'[p].todo = job[p].todo \ {item} /\ job'[p].pc \in {"sleep", "deliver"}
          /\ \A x \in Procs : x # p => job'[x] = job[x]
          /\ recording' = [recording EXCEPT ![p] = item]
          /\ UNCHANGED tables
    BY <1>8, DeliverDoes
  <2>1. /\ job'[p].todo \subseteq job[p].todo /\ job'[p].pc # "events"
        /\ q # p => job'[q] = job[q] /\ recording'[q] = recording[q]
        /\ UNCHANGED status
    BY <2>i DEF tables, TypeOK
  <2> QED
    BY <1>2, <1>q, <2>1
<1>9. ASSUME NEW p \in Procs, JobFails(p) \/ Crash(p) PROVE Kept(q)
  BY <1>2, <1>3, <1>9 DEF JobFails, Crash, TypeOK
<1>10. ASSUME NEW p \in Procs, Start(p) \/ LoseConnection(p) PROVE Kept(q)
  BY <1>2, <1>10 DEF Start, LoseConnection
<1>11. ASSUME UNCHANGED vars PROVE Kept(q)
  BY <1>2, <1>11 DEF vars
<1> HIDE DEF Kept
<1> QED
  BY <1>r, <1>4, <1>5, <1>6, <1>7, <1>8, <1>9, <1>10, <1>11 DEF Next, JobStep

-----------------------------------------------------------------------------
(* The log of a request only grows, and its first entry follows the asking. *)
LEMMA LogGrows ==
    ASSUME TypeOK, [Next]_vars, NEW r \in Requests
    PROVE  /\ log[r] \subseteq log'[r]
           /\ "NOTIFICATION_OPENED" \in log'[r] =>
                "NOTIFICATION_OPENED" \in log[r] \/ status[r] # "none"
<1>1. ASSUME NEW q \in Requests, MarkOpened(q)
      PROVE  log[r] \subseteq log'[r] /\ (r # q => log'[r] = log[r]) /\ status[q] # "none"
  BY <1>1 DEF MarkOpened, Open, Pending, TypeOK
<1>2. ASSUME NEW p \in Procs, Record(p)
      PROVE  /\ log[r] \subseteq log'[r]
             /\ "NOTIFICATION_OPENED" \in log'[r] => "NOTIFICATION_OPENED" \in log[r]
  BY <1>2 DEF Record, KindOf, TypeOK
<1>3. \A q \in Requests : Ask(q) \/ Resolve(q) \/ Tick(q) \/ Bury(q) => UNCHANGED log
  BY DEF Ask, Resolve, Tick, Bury
<1>4. \A p \in Procs : \/ Receive(p) \/ Resume(p) \/ RecordFails(p) \/ JobScan(p)
                       \/ JobEvents(p) \/ JobDeliver(p) \/ JobFails(p)
                       \/ Crash(p) \/ Start(p) \/ LoseConnection(p)
                       => UNCHANGED log
  BY DEF Receive, Resume, RecordFails, JobScan, JobEvents, JobDeliver, JobFails,
         Crash, Start, LoseConnection, tables
<1>5. UNCHANGED vars => UNCHANGED log
  BY DEF vars, tables
<1> QED
  BY <1>1, <1>2, <1>3, <1>4, <1>5 DEF Next, JobStep

(* Who can still hear of a request, deliver it, or deliver it late. *)
LEMMA CanMeans ==
    ASSUME NEW p \in Procs
    PROVE  /\ \A r : p \in CanHear(r) <=> status[r] = "none" \/ Heard(p, r)
           /\ \A r : p \in CanHear(r)' <=> status'[r] = "none" \/ Heard(p, r)'
           /\ \A d : p \in CanDeliver(d) <=>
                       \/ Unrecorded(d.req, d.seq) /\ recording[p] # d
                       \/ job[p].pc = "deliver" /\ d \in job[p].todo
           /\ \A d : p \in CanDeliver(d)' <=>
                       \/ Unrecorded(d.req, d.seq)' /\ recording'[p] # d
                       \/ job'[p].pc = "deliver" /\ d \in job'[p].todo
BY DEF CanHear, CanDeliver, Heard, InWire, In

LEMMA CanSubsets ==
    /\ \A r : CanHear(r) \subseteq Procs /\ CanHear(r)' \subseteq Procs
    /\ \A r : CanNag(r) \subseteq Procs /\ CanNag(r)' \subseteq Procs
    /\ \A d : CanDeliver(d) \subseteq Procs /\ CanDeliver(d)' \subseteq Procs
BY DEF CanHear, CanNag, CanDeliver

LEMMA HearShrinks ==
    ASSUME TypeOK, Queued, [Next]_vars, NEW r \in Requests
    PROVE  CanHear(r)' \subseteq CanHear(r)
<1> SUFFICES ASSUME NEW p \in CanHear(r)' PROVE p \in CanHear(r)
  OBVIOUS
<1>1. p \in Procs
  BY CanSubsets
<1>2. status'[r] = "none" \/ Heard(p, r)'
  BY <1>1, CanMeans
<1>3. status[r] = "none" \/ Heard(p, r)
  BY <1>1, <1>2, StaysAsked, QueuedStep
<1> QED
  BY <1>1, <1>3, CanMeans

(* The handler that delivers a request will not hear of it again. *)
LEMMA HandlerLeaves ==
    ASSUME TypeOK, Queued, [Next]_vars, NEW p \in Procs, NEW r \in Requests,
           \/ Takes(p, r) /\ UNCHANGED parked
           \/ Resumes(p, r)
    PROVE  p \in CanHear(r) /\ p \notin CanHear(r)'
<1>1. /\ wire[p] \in Seq(Requests) /\ Once(wire[p])
      /\ \A q \in parked[p] : ~In(wire[p], q)
  BY DEF TypeOK, Queued
<1>2. CASE Takes(p, r) /\ UNCHANGED parked
  <2>1. wire[p] # <<>> /\ r = Head(wire[p]) /\ wire'[p] = Tail(wire[p])
    BY <1>2 DEF Takes, TypeOK
  <2>2. In(wire[p], r) /\ ~In(wire'[p], r)
    BY <1>1, <2>1, Tailed
  <2>3. r \notin parked'[p]
    BY <1>1, <1>2, <2>2
  <2>4. Heard(p, r) /\ ~Heard(p, r)'
    BY <2>2, <2>3 DEF Heard
  <2> QED
    BY <2>4, CanMeans, StaysAsked DEF Queued
<1>3. CASE Resumes(p, r)
  <2>1. r \in parked[p] /\ wire'[p] = wire[p] /\ r \notin parked'[p]
    BY <1>3 DEF Resumes, TypeOK
  <2>2. Heard(p, r) /\ ~Heard(p, r)'
    BY <1>1, <2>1 DEF Heard
  <2> QED
    BY <2>2, CanMeans, StaysAsked DEF Queued
<1> QED
  BY <1>2, <1>3

-----------------------------------------------------------------------------
(* What a step can do to the deliveries d: nothing but let processes lose  *)
(* the chance of one; a fault gives one process a second chance; a job or  *)
(* a handler uses up its own.                                              *)
Idles(d) ==
    /\ sent'[d.req][d.seq] = sent[d.req][d.seq]
    /\ CanDeliver(d)' \subseteq CanDeliver(d)
    /\ faults' \in {faults, faults + 1}
Excuses(d, p) ==
    /\ sent'[d.req][d.seq] = sent[d.req][d.seq]
    /\ CanDeliver(d)' \subseteq CanDeliver(d) \cup {p}
    /\ faults' = faults + 1
UsesItem(d, p) ==
    /\ sent'[d.req][d.seq] = sent[d.req][d.seq] + 1
    /\ p \in CanDeliver(d) /\ CanDeliver(d)' \subseteq CanDeliver(d) \ {p}
    /\ faults' = faults
UsesNews(d, p) ==
    /\ d.seq = 1
    /\ sent'[d.req][d.seq] = sent[d.req][d.seq] + 1
    /\ p \in CanHear(d.req) /\ CanHear(d.req)' \subseteq CanHear(d.req) \ {p}
    /\ CanDeliver(d)' \subseteq CanDeliver(d)
    /\ faults' = faults

LEMMA UnrecordedStays ==
    ASSUME TypeOK, [Next]_vars, NEW d \in Delivery, Unrecorded(d.req, d.seq)'
    PROVE  Unrecorded(d.req, d.seq)
<1>1. log[d.req] \subseteq log'[d.req]
  BY LogGrows, Deliveries
<1> QED
  BY <1>1 DEF Unrecorded

(* What is due to a request is not yet in its log. *)
LEMMA DueIsUnrecorded ==
    ASSUME NEW d \in Delivery, d.seq = NextSequence(d.req, log[d.req])
    PROVE  Unrecorded(d.req, d.seq) /\ "NOTIFICATION_OPENED" \notin log[d.req]
<1>1. d.seq \in {1, 2}
  BY Deliveries
<1> QED
  BY <1>1 DEF NextSequence, Unrecorded

(* A handler delivers: its own request for the first time, and no other. *)
LEMMA HandleCounts ==
    ASSUME TypeOK, Queued, [Next]_vars, NEW d \in Delivery, NEW p \in Procs, NEW r \in Requests,
           (Takes(p, r) /\ UNCHANGED parked) \/ Resumes(p, r),
           Handle(p, r), recording[p] = NoDelivery, UNCHANGED <<job, faults>>
    PROVE  Idles(d) \/ UsesNews(d, p)
<1>1. /\ recording'[p] = [req |-> r, seq |-> 1]
      /\ \A q \in Procs : q # p => recording'[q] = recording[q]
      /\ sent'[r][1] = sent[r][1] + 1
      /\ d # [req |-> r, seq |-> 1] => sent'[d.req][d.seq] = sent[d.req][d.seq]
  BY HandleDoes
<1>2. recording[p] # d
  BY Deliveries
<1>3. CanDeliver(d)' \subseteq CanDeliver(d)
  <2> SUFFICES ASSUME NEW q \in CanDeliver(d)' PROVE q \in CanDeliver(d)
    OBVIOUS
  <2>1. q \in Procs
    BY CanSubsets
  <2>2. Unrecorded(d.req, d.seq)' => Unrecorded(d.req, d.seq)
    BY UnrecordedStays
  <2>3. \/ Unrecorded(d.req, d.seq)' /\ recording'[q] # d
        \/ job[q].pc = "deliver" /\ d \in job[q].todo
    BY <2>1, CanMeans
  <2>4. recording'[q] # d => recording[q] # d
    BY <1>1, <1>2, <2>1
  <2> QED
    BY <2>1, <2>2, <2>3, <2>4, CanMeans
<1>4. CASE d # [req |-> r, seq |-> 1]
  BY <1>1, <1>3, <1>4 DEF Idles
<1>5. CASE d = [req |-> r, seq |-> 1]
  <2>1. d.req = r /\ d.seq = 1
    BY <1>5
  <2>2. p \in CanHear(r) /\ p \notin CanHear(r)'
    BY HandlerLeaves
  <2>3. CanHear(r)' \subseteq CanHear(r) \ {p}
    BY <2>2, HearShrinks
  <2> QED
    BY <1>1, <1>3, <2>1, <2>2, <2>3 DEF UsesNews
<1> QED
  BY <1>4, <1>5

(* A job delivers an item: that one, and no other. *)
LEMMA ItemCounts ==
    ASSUME TypeOK, [Next]_vars, NEW d \in Delivery, NEW p \in Procs, JobDeliver(p)
    PROVE  Idles(d) \/ UsesItem(d, p)
<1>1. PICK item \in job[p].todo :
             /\ recording[p] = NoDelivery /\ job[p].pc = "deliver"
             /\ item \in Delivery
             /\ job'[p].pc \in {"sleep", "deliver"}
             /\ job'[p].todo = job[p].todo \ {item}
             /\ \A q \in Procs : q # p => job'[q] = job[q]
             /\ recording' = [recording EXCEPT ![p] = item]
             /\ sent' = [sent EXCEPT ![item.req][item.seq] = @ + 1]
             /\ UNCHANGED <<tables, wire, parked, health>>
  BY DeliverDoes
<1>2. recording'[p] = item /\ \A q \in Procs : q # p => recording'[q] = recording[q]
  BY <1>1 DEF TypeOK
<1>3. recording[p] # d /\ faults' = faults /\ log' = log
  BY <1>1, Deliveries DEF health, tables
<1>4. CanDeliver(d)' \subseteq CanDeliver(d)
  <2> SUFFICES ASSUME NEW q \in CanDeliver(d)' PROVE q \in CanDeliver(d)
    OBVIOUS
  <2>1. q \in Procs
    BY CanSubsets
  <2>2. Unrecorded(d.req, d.seq)' => Unrecorded(d.req, d.seq)
    BY UnrecordedStays
  <2>3. \/ Unrecorded(d.req, d.seq)' /\ recording'[q] # d
        \/ job'[q].pc = "deliver" /\ d \in job'[q].todo
    BY <2>1, CanMeans
  <2>4. recording'[q] # d => recording[q] # d
    BY <1>2, <1>3, <2>1
  <2>5. job'[q].pc = "deliver" /\ d \in job'[q].todo => job[q].pc = "deliver" /\ d \in job[q].todo
    BY <1>1, <2>1
  <2> QED
    BY <2>1, <2>2, <2>3, <2>4, <2>5, CanMeans
<1>s. /\ sent[item.req] \in [{1, 2} -> Nat] /\ item.req \in Requests /\ item.seq \in {1, 2}
      /\ d.req \in Requests /\ d.seq \in {1, 2}
  BY <1>1, Deliveries DEF TypeOK
<1>t. sent' = [sent EXCEPT ![item.req] = [sent[item.req] EXCEPT ![item.seq] = @ + 1]]
  BY <1>1
<1>5. CASE item # d
  <2>1. item.req # d.req \/ item.seq # d.seq
    BY <1>1, <1>5, Deliveries
  <2>2. sent'[d.req][d.seq] = sent[d.req][d.seq]
    BY <1>s, <1>t, <2>1 DEF TypeOK
  <2> QED
    BY <1>3, <1>4, <2>2 DEF Idles
<1>6. CASE item = d
  <2>1. p \in CanDeliver(d)
    BY <1>1, <1>6, CanMeans
  <2>2. p \notin CanDeliver(d)'
    BY <1>1, <1>2, <1>6, CanMeans
  <2>3. sent'[d.req][d.seq] = sent[d.req][d.seq] + 1
    BY <1>6, <1>s, <1>t DEF TypeOK
  <2> QED
    BY <1>3, <1>4, <2>1, <2>2, <2>3 DEF UsesItem
<1> QED
  BY <1>5, <1>6

LEMMA DeliveryStep ==
    ASSUME TypeOK, Queued, OneItemEach, [Next]_vars, NEW d \in Delivery
    PROVE  \/ Idles(d)
           \/ \E p \in Procs : Excuses(d, p) \/ UsesItem(d, p) \/ UsesNews(d, p)
<1> DEFINE Good == \/ Idles(d)
                   \/ \E p \in Procs : Excuses(d, p) \/ UsesItem(d, p) \/ UsesNews(d, p)
           Can(q) == \/ Unrecorded(d.req, d.seq)' /\ recording'[q] # d
                     \/ job'[q].pc = "deliver" /\ d \in job'[q].todo
<1>f. faults \in Int
  BY FaultAssumption DEF TypeOK
<1>d. \A q \in Procs : q \in CanDeliver(d)' <=> Can(q)
  BY CanMeans
<1>n. NoDelivery # d
  BY Deliveries
<1>u. Unrecorded(d.req, d.seq)' => Unrecorded(d.req, d.seq)
  BY UnrecordedStays
<1>c. \A q \in Procs : /\ Unrecorded(d.req, d.seq) /\ recording[q] # d => q \in CanDeliver(d)
                       /\ job[q].pc = "deliver" /\ d \in job[q].todo => q \in CanDeliver(d)
  BY CanMeans
<1>i. ASSUME UNCHANGED sent, \A q \in Procs : Can(q) => q \in CanDeliver(d),
             faults' \in {faults, faults + 1}
      PROVE  Good
  <2>1. CanDeliver(d)' \subseteq CanDeliver(d)
    BY <1>d, <1>i, CanSubsets
  <2> QED
    BY <1>i, <2>1 DEF Idles
<1>e. ASSUME NEW p \in Procs, UNCHANGED sent, faults' = faults + 1,
             \A q \in Procs : q # p /\ Can(q) => q \in CanDeliver(d)
      PROVE  Good
  <2>1. CanDeliver(d)' \subseteq CanDeliver(d) \cup {p}
    BY <1>d, <1>e, CanSubsets
  <2> QED
    BY <1>e, <2>1 DEF Excuses
<1>1. ASSUME UNCHANGED <<job, recording, sent>>, faults' \in {faults, faults + 1} PROVE Good
  BY <1>1, <1>i, <1>u, <1>c
<1>r. ASSUME NEW r \in Requests, Ask(r) \/ Resolve(r) \/ MarkOpened(r) \/ Tick(r) \/ Bury(r) PROVE Good
  BY <1>1, <1>r DEF Ask, Resolve, MarkOpened, Tick, Bury, tally, health
<1>2. ASSUME NEW p \in Procs, Receive(p) PROVE Good
  <2>1. /\ Head(wire[p]) \in Requests /\ recording[p] = NoDelivery
        /\ Takes(p, Head(wire[p])) /\ UNCHANGED <<job, faults>>
    BY <1>2, Tailed DEF Receive, Runs, Busy, TypeOK, Takes, health
  <2>2. ASSUME Handle(p, Head(wire[p])), UNCHANGED parked PROVE Good
    BY <2>1, <2>2, HandleCounts
  <2>3. ASSUME UNCHANGED <<recording, sent>> PROVE Good
    BY <1>1, <2>1, <2>3
  <2> QED
    BY <1>2, <2>2, <2>3 DEF Receive
<1>3. ASSUME NEW p \in Procs, Resume(p) PROVE Good
  <2>1. PICK r \in parked[p] : parked' = [parked EXCEPT ![p] = @ \ {r}] /\ Handle(p, r)
    BY <1>3 DEF Resume
  <2>2. /\ r \in Requests /\ recording[p] = NoDelivery /\ UNCHANGED <<job, faults, wire>>
    BY <1>3 DEF Resume, Runs, Busy, TypeOK, health
  <2>3. Resumes(p, r)
    BY <2>1, <2>2 DEF Resumes
  <2> QED
    BY <2>1, <2>2, <2>3, HandleCounts
<1>4. ASSUME NEW p \in Procs, Record(p) PROVE Good
  <2>1. /\ recording'[p] = NoDelivery /\ recording[p] \in Delivery
        /\ \A q \in Procs : q # p => recording'[q] = recording[q]
        /\ job' = job /\ sent' = sent /\ faults' = faults
        /\ log' = [log EXCEPT ![recording[p].req] = @ \cup {KindOf(recording[p].seq)}]
    BY <1>4 DEF Record, TypeOK, tally, health
  <2>2. CASE recording[p] # d
    BY <1>i, <1>u, <1>c, <2>1, <2>2
  <2>3. CASE recording[p] = d
    <3>1. KindOf(d.seq) \in log'[d.req] /\ d.seq \in {1, 2}
      BY <2>1, <2>3, Deliveries DEF TypeOK
    <3>2. ~Unrecorded(d.req, d.seq)'
      BY <3>1 DEF Unrecorded, KindOf
    <3> QED
      BY <1>i, <1>c, <2>1, <3>2
  <2> QED
    BY <2>2, <2>3
<1>5. ASSUME NEW p \in Procs, RecordFails(p) PROVE Good
  <2>1. /\ \A q \in Procs : q # p => recording'[q] = recording[q]
        /\ job' = job /\ sent' = sent /\ faults' = faults + 1
    BY <1>5 DEF RecordFails, TypeOK, tally
  <2> QED
    BY <1>e, <1>u, <1>c, <2>1
<1>6. ASSUME NEW p \in Procs, JobScan(p) PROVE Good
  <2>1. /\ job'[p].pc = "events" /\ \A q \in Procs : q # p => job'[q] = job[q]
        /\ recording' = recording /\ sent' = sent /\ faults' = faults
    BY <1>6, ScanDoes DEF tally, health
  <2> QED
    BY <1>i, <1>u, <1>c, <2>1
<1>7. ASSUME NEW p \in Procs, JobEvents(p) PROVE Good
  <2>1. /\ \A q \in Procs : q # p => job'[q] = job[q]
        /\ recording' = recording /\ sent' = sent /\ faults' = faults
        /\ job[p].pc = "events"
        /\ d \in job'[p].todo => d.seq = NextSequence(d.req, log[d.req])
    BY <1>7, EventsDoes DEF tally, health
  <2>2. recording[p] # d
    BY <1>n, <2>1 DEF OneItemEach
  <2>3. d \in job'[p].todo => p \in CanDeliver(d)
    BY <1>c, <2>1, <2>2, DueIsUnrecorded
  <2> QED
    BY <1>i, <1>u, <1>c, <2>1, <2>3
<1>8. ASSUME NEW p \in Procs, JobDeliver(p) PROVE Good
  BY <1>8, ItemCounts
<1>9. ASSUME NEW p \in Procs, JobFails(p) \/ Crash(p) PROVE Good
  <2>1. /\ \A q \in Procs : q # p => recording'[q] = recording[q] /\ job'[q] = job[q]
        /\ sent' = sent /\ faults' = faults + 1
    BY <1>9 DEF JobFails, Crash, TypeOK, tally
  <2> QED
    BY <1>e, <1>u, <1>c, <2>1
<1>10. ASSUME NEW p \in Procs, Start(p) \/ LoseConnection(p) PROVE Good
  BY <1>1, <1>10 DEF Start, LoseConnection, tally
<1>11. ASSUME UNCHANGED vars PROVE Good
  BY <1>1, <1>11 DEF vars, tally, health
<1> HIDE DEF Good
<1>a. Good
  BY <1>r, <1>2, <1>3, <1>4, <1>5, <1>6, <1>7, <1>8, <1>9, <1>10, <1>11 DEF Next, JobStep
<1> QED
  BY <1>a DEF Good

(* What was delivered first and who can still do so stay below the bound. *)
LEMMA FirstStep ==
    ASSUME TypeOK, Queued, OneItemEach, FirstCounted, [Next]_vars, TypeOK'
    PROVE  FirstCounted'
<1> SUFFICES ASSUME NEW r \in Requests
             PROVE  sent'[r][1] + Cardinality(CanHear(r)')
                        + Cardinality(CanDeliver([req |-> r, seq |-> 1])')
                      <= 2 * Cardinality(Procs) + faults'
  BY DEF FirstCounted
<1> DEFINE d == [req |-> r, seq |-> 1]
           H == CanHear(r)
           D == CanDeliver(d)
           Good == sent'[r][1] + Cardinality(H') + Cardinality(D')
                      <= 2 * Cardinality(Procs) + faults'
<1>1. d \in Delivery /\ d.req = r /\ d.seq = 1
  BY Deliveries
<1>2. /\ sent[r][1] \in Nat /\ sent'[r][1] \in Nat /\ faults \in Nat /\ faults' \in Nat
      /\ Cardinality(Procs) \in Nat
  BY FaultAssumption, Fewer DEF TypeOK
<1>3. sent[r][1] + Cardinality(H) + Cardinality(D) <= 2 * Cardinality(Procs) + faults
  BY DEF FirstCounted
<1>4. H \subseteq Procs /\ D \subseteq Procs /\ H' \subseteq H
  BY CanSubsets, HearShrinks
<1>5. /\ Cardinality(H) \in Nat /\ Cardinality(H') \in Nat /\ Cardinality(H') <= Cardinality(H)
  BY <1>4, Fewer
<1>6. ASSUME Idles(d) PROVE Good
  <2>1. /\ Cardinality(D) \in Nat /\ Cardinality(D') \in Nat /\ Cardinality(D') <= Cardinality(D)
    BY <1>4, <1>6, Fewer DEF Idles
  <2>2. sent'[r][1] = sent[r][1] /\ faults' \in {faults, faults + 1}
    BY <1>1, <1>6 DEF Idles
  <2> HIDE DEF H, D
  <2> QED
    BY <1>2, <1>3, <1>5, <2>1, <2>2
<1>7. ASSUME NEW p \in Procs, Excuses(d, p) PROVE Good
  <2>1. /\ Cardinality(D) \in Nat /\ Cardinality(D') \in Nat
        /\ Cardinality(D') <= Cardinality(D) + 1
    BY <1>4, <1>7, OneMore DEF Excuses
  <2>2. sent'[r][1] = sent[r][1] /\ faults' = faults + 1
    BY <1>1, <1>7 DEF Excuses
  <2> HIDE DEF H, D
  <2> QED
    BY <1>2, <1>3, <1>5, <2>1, <2>2
<1>8. ASSUME NEW p \in Procs, UsesItem(d, p) PROVE Good
  <2>1. /\ Cardinality(D) \in Nat /\ Cardinality(D') \in Nat
        /\ Cardinality(D') + 1 <= Cardinality(D)
    BY <1>4, <1>8, OneLess DEF UsesItem
  <2>2. sent'[r][1] = sent[r][1] + 1 /\ faults' = faults
    BY <1>1, <1>8 DEF UsesItem
  <2> HIDE DEF H, D
  <2> QED
    BY <1>2, <1>3, <1>5, <2>1, <2>2
<1>9. ASSUME NEW p \in Procs, UsesNews(d, p) PROVE Good
  <2>1. Cardinality(H') + 1 <= Cardinality(H)
    BY <1>1, <1>4, <1>9, OneLess DEF UsesNews
  <2>2. /\ Cardinality(D) \in Nat /\ Cardinality(D') \in Nat /\ Cardinality(D') <= Cardinality(D)
    BY <1>4, <1>9, Fewer DEF UsesNews
  <2>3. sent'[r][1] = sent[r][1] + 1 /\ faults' = faults
    BY <1>1, <1>9 DEF UsesNews
  <2> HIDE DEF H, D
  <2> QED
    BY <1>2, <1>3, <1>5, <2>1, <2>2, <2>3
<1>10. Good
  <2> HIDE DEF Good, d
  <2> QED
    BY <1>1, <1>6, <1>7, <1>8, <1>9, DeliveryStep
<1> QED
  BY <1>10

(* The same of the reminder, which no handler delivers. *)
LEMMA ReminderStep ==
    ASSUME TypeOK, Queued, OneItemEach, ReminderCounted, [Next]_vars, TypeOK'
    PROVE  ReminderCounted'
<1> SUFFICES ASSUME NEW r \in Requests
             PROVE  sent'[r][2] + Cardinality(CanDeliver([req |-> r, seq |-> 2])')
                      <= Cardinality(Procs) + faults'
  BY DEF ReminderCounted
<1> DEFINE d == [req |-> r, seq |-> 2]
           D == CanDeliver(d)
           Good == sent'[r][2] + Cardinality(D') <= Cardinality(Procs) + faults'
<1>1. d \in Delivery /\ d.req = r /\ d.seq = 2
  BY Deliveries
<1>2. /\ sent[r][2] \in Nat /\ sent'[r][2] \in Nat /\ faults \in Nat /\ faults' \in Nat
      /\ Cardinality(Procs) \in Nat
  BY FaultAssumption, Fewer DEF TypeOK
<1>3. sent[r][2] + Cardinality(D) <= Cardinality(Procs) + faults
  BY DEF ReminderCounted
<1>4. D \subseteq Procs
  BY CanSubsets
<1>6. ASSUME Idles(d) PROVE Good
  <2>1. /\ Cardinality(D) \in Nat /\ Cardinality(D') \in Nat /\ Cardinality(D') <= Cardinality(D)
    BY <1>4, <1>6, Fewer DEF Idles
  <2>2. sent'[r][2] = sent[r][2] /\ faults' \in {faults, faults + 1}
    BY <1>1, <1>6 DEF Idles
  <2> HIDE DEF D
  <2> QED
    BY <1>2, <1>3, <2>1, <2>2
<1>7. ASSUME NEW p \in Procs, Excuses(d, p) PROVE Good
  <2>1. /\ Cardinality(D) \in Nat /\ Cardinality(D') \in Nat
        /\ Cardinality(D') <= Cardinality(D) + 1
    BY <1>4, <1>7, OneMore DEF Excuses
  <2>2. sent'[r][2] = sent[r][2] /\ faults' = faults + 1
    BY <1>1, <1>7 DEF Excuses
  <2> HIDE DEF D
  <2> QED
    BY <1>2, <1>3, <2>1, <2>2
<1>8. ASSUME NEW p \in Procs, UsesItem(d, p) PROVE Good
  <2>1. /\ Cardinality(D) \in Nat /\ Cardinality(D') \in Nat
        /\ Cardinality(D') + 1 <= Cardinality(D)
    BY <1>4, <1>8, OneLess DEF UsesItem
  <2>2. sent'[r][2] = sent[r][2] + 1 /\ faults' = faults
    BY <1>1, <1>8 DEF UsesItem
  <2> HIDE DEF D
  <2> QED
    BY <1>2, <1>3, <2>1, <2>2
<1>9. \A p \in Procs : ~UsesNews(d, p)
  BY <1>1 DEF UsesNews
<1>10. Good
  <2> HIDE DEF Good, d
  <2> QED
    BY <1>1, <1>6, <1>7, <1>8, <1>9, DeliveryStep
<1> QED
  BY <1>10

-----------------------------------------------------------------------------
(* Deliveries by a job once the owner is done with the request. *)

(* A request that is settled stays so, unless it was never made. *)
LEMMA StaysSettled ==
    ASSUME TypeOK, [Next]_vars, NEW r \in Requests, Settled(r), status[r] # "none"
    PROVE  Settled(r)'
<1>1. log[r] \subseteq log'[r]
  BY LogGrows
<1>2. \A q \in Requests : Ask(q) \/ Resolve(q) \/ MarkOpened(q) \/ Tick(q) \/ Bury(q)
                            => (status'[r] = "REQUESTED" => status[r] = "REQUESTED")
  BY DEF Ask, Resolve, MarkOpened, Tick, Bury, TypeOK
<1>3. \A p \in Procs : \/ Receive(p) \/ Resume(p) \/ Record(p) \/ RecordFails(p) \/ JobScan(p)
                       \/ JobEvents(p) \/ JobDeliver(p) \/ JobFails(p)
                       \/ Crash(p) \/ Start(p) \/ LoseConnection(p)
                       => UNCHANGED status
  BY DEF Receive, Resume, Record, RecordFails, JobScan, JobEvents, JobDeliver, JobFails,
         Crash, Start, LoseConnection, tables
<1>4. UNCHANGED vars => UNCHANGED status
  BY DEF vars, tables
<1>5. status'[r] = "REQUESTED" => status[r] = "REQUESTED"
  BY <1>2, <1>3, <1>4 DEF Next, JobStep
<1> QED
  BY <1>1, <1>5 DEF Settled, Pending

LEMMA NagMeans ==
    ASSUME NEW p \in Procs
    PROVE  /\ \A r : p \in CanNag(r) <=>
                       /\ \E item \in job[p].todo : item.req = r
                       /\ job[p].pc = "deliver" \/ "NOTIFICATION_OPENED" \notin log[r]
           /\ \A r : p \in CanNag(r)' <=>
                       /\ \E item \in job'[p].todo : item.req = r
                       /\ job'[p].pc = "deliver" \/ "NOTIFICATION_OPENED" \notin log'[r]
BY DEF CanNag

(* Of a settled request, jobs only lose what they hold, and a job that     *)
(* delivers its item loses that.                                           *)
Calms(r) ==
    /\ nagged'[r] = nagged[r]
    /\ Settled(r) => CanNag(r)' \subseteq CanNag(r)
Nags(r, p) ==
    /\ Settled(r) /\ nagged'[r] = nagged[r] + 1
    /\ p \in CanNag(r) /\ CanNag(r)' \subseteq CanNag(r) \ {p}

LEMMA NagMoves ==
    ASSUME TypeOK, OneItemEach, [Next]_vars, NEW r \in Requests
    PROVE  Calms(r) \/ \E p \in Procs : Nags(r, p)
<1> DEFINE Good == Calms(r) \/ \E p \in Procs : Nags(r, p)
           Holds(q) == /\ \E item \in job'[q].todo : item.req = r
                       /\ job'[q].pc = "deliver" \/ "NOTIFICATION_OPENED" \notin log'[r]
<1>l. log[r] \subseteq log'[r]
  BY LogGrows
<1>c. \A q \in Procs : /\ q \in CanNag(r)' <=> Holds(q)
                       /\ (/\ \E item \in job[q].todo : item.req = r
                           /\ job[q].pc = "deliver" \/ "NOTIFICATION_OPENED" \notin log[r])
                          => q \in CanNag(r)
  BY NagMeans
<1>i. ASSUME nagged'[r] = nagged[r],
             \A q \in Procs : Settled(r) /\ Holds(q) => q \in CanNag(r)
      PROVE  Good
  <2>1. Settled(r) => CanNag(r)' \subseteq CanNag(r)
    BY <1>c, <1>i, CanSubsets
  <2> QED
    BY <1>i, <2>1 DEF Calms
<1>1. ASSUME UNCHANGED <<job, nagged>> PROVE Good
  BY <1>1, <1>i, <1>l, <1>c
<1>q. ASSUME NEW q \in Requests, Ask(q) \/ Resolve(q) \/ MarkOpened(q) \/ Tick(q) \/ Bury(q) PROVE Good
  BY <1>1, <1>q DEF Ask, Resolve, MarkOpened, Tick, Bury, tally
<1>2. ASSUME NEW p \in Procs,
             \/ Receive(p) \/ Resume(p) \/ Record(p) \/ RecordFails(p) \/ Start(p)
             \/ LoseConnection(p)
      PROVE  Good
  BY <1>1, <1>2 DEF Receive, Resume, Record, RecordFails, Start, LoseConnection, tally
<1>3. ASSUME NEW p \in Procs, JobScan(p) PROVE Good
  <2>1. /\ job'[p].pc = "events" /\ \A q \in Procs : q # p => job'[q] = job[q]
        /\ nagged' = nagged
        /\ \A d : d \in job'[p].todo => \E x \in Requests : Open(x) /\ d = [req |-> x, seq |-> 1]
    BY <1>3, ScanDoes DEF tally
  <2>2. Holds(p) => Open(r) /\ "NOTIFICATION_OPENED" \notin log[r]
    BY <1>l, <2>1
  <2>3. Holds(p) => ~Settled(r)
    BY <2>2 DEF Settled, Open
  <2> QED
    BY <1>i, <1>l, <1>c, <2>1, <2>3
<1>4. ASSUME NEW p \in Procs, JobEvents(p) PROVE Good
  <2>1. /\ \A q \in Procs : q # p => job'[q] = job[q]
        /\ nagged' = nagged
        /\ \A d : d \in job'[p].todo => /\ d \in Delivery
                                        /\ \E item \in job[p].todo : item.req = d.req
                                        /\ d.seq = NextSequence(d.req, log[d.req])
    BY <1>4, EventsDoes DEF tally
  <2>2. Holds(p) => p \in CanNag(r)
    BY <1>c, <2>1, DueIsUnrecorded
  <2> QED
    BY <1>i, <1>l, <1>c, <2>1, <2>2
<1>5. ASSUME NEW p \in Procs, JobDeliver(p) PROVE Good
  <2>1. PICK item \in job[p].todo :
             /\ job[p].pc = "deliver" /\ item \in Delivery
             /\ job'[p].todo = job[p].todo \ {item}
             /\ \A q \in Procs : q # p => job'[q] = job[q]
             /\ nagged' = [nagged EXCEPT ![item.req] = IF Settled(item.req) THEN @ + 1 ELSE @]
    BY <1>5, DeliverDoes
  <2>2. \A q \in Procs : Holds(q) => q \in CanNag(r)
    BY <1>l, <1>c, <2>1
  <2>3. item.req = r => p \in CanNag(r) /\ ~Holds(p)
    BY <1>c, <2>1 DEF OneItemEach
  <2>4. item.req \in Requests
    BY <2>1, Deliveries
  <2>5. CASE item.req # r \/ ~Settled(r)
    <3>1. nagged'[r] = nagged[r]
      BY <2>1, <2>4, <2>5 DEF TypeOK
    <3> QED
      BY <1>i, <2>2, <3>1
  <2>6. CASE item.req = r /\ Settled(r)
    <3>1. nagged'[r] = nagged[r] + 1
      BY <2>1, <2>4, <2>6 DEF TypeOK
    <3>2. CanNag(r)' \subseteq CanNag(r) \ {p}
      BY <1>c, <2>2, <2>3, <2>6, CanSubsets
    <3> QED
      BY <2>3, <2>6, <3>1, <3>2 DEF Nags
  <2> QED
    BY <2>5, <2>6
<1>6. ASSUME NEW p \in Procs, JobFails(p) \/ Crash(p) PROVE Good
  <2>1. /\ \A q \in Procs : q # p => job'[q] = job[q]
        /\ job'[p].todo = {} /\ nagged' = nagged
    BY <1>6, JobRows DEF JobFails, Crash, TypeOK, tally
  <2> QED
    BY <1>i, <1>l, <1>c, <2>1
<1>7. ASSUME UNCHANGED vars PROVE Good
  BY <1>1, <1>7 DEF vars, tally
<1> HIDE DEF Good
<1>a. Good
  BY <1>q, <1>2, <1>3, <1>4, <1>5, <1>6, <1>7 DEF Next, JobStep
<1> QED
  BY <1>a DEF Good

LEMMA NagStep ==
    ASSUME TypeOK, ItemsAsked, OneItemEach, NagCounted, [Next]_vars, TypeOK'
    PROVE  NagCounted'
<1> SUFFICES ASSUME NEW r \in Requests
             PROVE  /\ status'[r] = "none" =>
                         "NOTIFICATION_OPENED" \notin log'[r] /\ nagged'[r] = 0
                    /\ IF Settled(r)'
                         THEN nagged'[r] + Cardinality(CanNag(r)') <= Cardinality(Procs)
                         ELSE nagged'[r] = 0
  BY DEF NagCounted
<1> DEFINE C == CanNag(r)
           Good == /\ status'[r] = "none" =>
                         "NOTIFICATION_OPENED" \notin log'[r] /\ nagged'[r] = 0
                   /\ IF Settled(r)'
                        THEN nagged'[r] + Cardinality(C') <= Cardinality(Procs)
                        ELSE nagged'[r] = 0
<1>1. /\ nagged[r] \in Nat /\ nagged'[r] \in Nat /\ Cardinality(Procs) \in Nat
  BY Fewer DEF TypeOK
<1>2. C \subseteq Procs /\ C' \subseteq Procs
  BY CanSubsets
<1>3. /\ Cardinality(C) \in Nat /\ Cardinality(C') \in Nat
      /\ Cardinality(C') <= Cardinality(Procs)
  BY <1>2, Fewer
<1>4. /\ status[r] = "none" => "NOTIFICATION_OPENED" \notin log[r] /\ nagged[r] = 0
      /\ Settled(r) => nagged[r] + Cardinality(C) <= Cardinality(Procs)
      /\ ~Settled(r) => nagged[r] = 0
  BY DEF NagCounted
<1>5. status'[r] = "none" => status[r] = "none" /\ "NOTIFICATION_OPENED" \notin log'[r]
  BY <1>4, StaysAsked, LogGrows
<1>6. ASSUME Calms(r) PROVE Good
  <2>0. nagged'[r] = nagged[r]
    BY <1>6 DEF Calms
  <2>1. CASE nagged[r] = 0
    <3> HIDE DEF C
    <3> QED
      BY <1>1, <1>3, <1>5, <2>0, <2>1
  <2>2. CASE nagged[r] # 0
    <3>1. Settled(r) /\ status[r] # "none"
      BY <1>4, <2>2
    <3>2. Settled(r)'
      BY <3>1, StaysSettled
    <3>3. Cardinality(C') <= Cardinality(C)
      BY <1>2, <1>6, <3>1, Fewer DEF Calms
    <3> HIDE DEF C
    <3> QED
      BY <1>1, <1>3, <1>4, <1>5, <2>0, <3>1, <3>2, <3>3
  <2> QED
    BY <2>1, <2>2
<1>7. ASSUME NEW p \in Procs, Nags(r, p) PROVE Good
  <2>1. Cardinality(C') + 1 <= Cardinality(C)
    BY <1>2, <1>7, OneLess DEF Nags
  <2>2. Settled(r) /\ nagged'[r] = nagged[r] + 1
    BY <1>7 DEF Nags
  <2>3. status[r] # "none"
    BY <1>7, NagMeans DEF Nags, ItemsAsked
  <2>4. Settled(r)'
    BY <2>2, <2>3, StaysSettled
  <2> HIDE DEF C
  <2> QED
    BY <1>1, <1>3, <1>4, <1>5, <2>1, <2>2, <2>3, <2>4
<1>8. Good
  <2> HIDE DEF Good
  <2> QED
    BY <1>6, <1>7, NagMoves
<1> QED
  BY <1>8

-----------------------------------------------------------------------------
(* The invariant and what it implies. *)

LEMMA InitSafety == ASSUME Init PROVE SafetyInv
<1>0. TypeOK
  BY TypeInit
<1>1. /\ \A p \in Procs : /\ wire[p] = <<>> /\ parked[p] = {} /\ recording[p] = NoDelivery
                          /\ job[p].todo = {} /\ job[p].pc = "sleep"
      /\ \A r \in Requests : /\ status[r] = "none" /\ log[r] = {} /\ nagged[r] = 0
                             /\ sent[r][1] = 0 /\ sent[r][2] = 0
      /\ faults = 0
  BY JobRows DEF Init
<1>2. Queued /\ ItemsAsked /\ OneItemEach
  BY <1>1, Emptied DEF Queued, ItemsAsked, OneItemEach, Heard
<1>3. \A A \in SUBSET Procs : /\ Cardinality(A) \in Nat /\ Cardinality(Procs) \in Nat
                              /\ Cardinality(A) <= Cardinality(Procs)
  BY Fewer
<1>4. FirstCounted
  <2> SUFFICES ASSUME NEW r \in Requests
               PROVE  sent[r][1] + Cardinality(CanHear(r))
                          + Cardinality(CanDeliver([req |-> r, seq |-> 1]))
                        <= 2 * Cardinality(Procs) + faults
    BY DEF FirstCounted
  <2>1. CanHear(r) \in SUBSET Procs /\ CanDeliver([req |-> r, seq |-> 1]) \in SUBSET Procs
    BY CanSubsets
  <2> QED
    BY <1>1, <1>3, <2>1
<1>5. ReminderCounted
  <2> SUFFICES ASSUME NEW r \in Requests
               PROVE  sent[r][2] + Cardinality(CanDeliver([req |-> r, seq |-> 2]))
                        <= Cardinality(Procs) + faults
    BY DEF ReminderCounted
  <2>1. CanDeliver([req |-> r, seq |-> 2]) \in SUBSET Procs
    BY CanSubsets
  <2> QED
    BY <1>1, <1>3, <2>1
<1>6. NagCounted
  <2> SUFFICES ASSUME NEW r \in Requests
               PROVE  nagged[r] + Cardinality(CanNag(r)) <= Cardinality(Procs)
    BY <1>1 DEF NagCounted
  <2>1. CanNag(r) \in SUBSET Procs
    BY CanSubsets
  <2> QED
    BY <1>1, <1>3, <2>1
<1> QED
  BY <1>0, <1>2, <1>4, <1>5, <1>6, QueuedMeans DEF SafetyInv

LEMMA SafetyStep == ASSUME SafetyInv, [Next]_vars PROVE SafetyInv'
<1>1. TypeOK /\ Queued /\ ItemsAsked /\ OneItemEach
  BY QueuedMeans DEF SafetyInv
<1>2. FirstCounted /\ ReminderCounted /\ NagCounted
  BY DEF SafetyInv
<1>3. TypeOK'
  BY <1>1, TypeStep
<1>4. Queued' /\ ItemsAsked' /\ OneItemEach'
  BY <1>1, QueuedStep, ItemsStep
<1>5. (OnlyAsked /\ HeardOnce)' <=> (Queued /\ ItemsAsked)'
  BY QueuedMeans, PTL
<1>6. FirstCounted' /\ ReminderCounted' /\ NagCounted'
  BY <1>1, <1>2, <1>3, FirstStep, ReminderStep, NagStep
<1> QED
  BY <1>3, <1>4, <1>5, <1>6 DEF SafetyInv

LEMMA SafetyAlways == Spec => []SafetyInv
<1>1. Init => SafetyInv
  BY InitSafety
<1>2. SafetyInv /\ [Next]_vars => SafetyInv'
  BY SafetyStep
<1> QED
  BY <1>1, <1>2, PTL DEF Spec

(* Rows, announcements, jobs and tallies have their types; only a process  *)
(* whose jobs run listens.                                                 *)
THEOREM TypeCorrect == Spec => []TypeOK
<1>1. SafetyInv => TypeOK
  BY DEF SafetyInv
<1> QED
  BY <1>1, SafetyAlways, PTL

(* However many processes deliver, crash and lose their connections, a     *)
(* request is first delivered at most twice by each, its reminder at most  *)
(* once, and once more for every fault.                                    *)
THEOREM Bounded == Spec => []DeliveriesBounded
<1>1. SafetyInv => DeliveriesBounded
  <2> SUFFICES ASSUME SafetyInv, NEW r \in Requests
               PROVE  /\ sent[r][1] <= 2 * Cardinality(Procs) + faults
                      /\ sent[r][2] <= Cardinality(Procs) + faults
    BY DEF DeliveriesBounded
  <2>1. /\ sent[r][1] \in Nat /\ sent[r][2] \in Nat /\ faults \in Nat
    BY FaultAssumption DEF SafetyInv, TypeOK
  <2>2. \A A \in SUBSET Procs : Cardinality(A) \in Nat /\ Cardinality(Procs) \in Nat
    BY Fewer
  <2>3. /\ Cardinality(Procs) \in Nat /\ Cardinality(CanHear(r)) \in Nat
        /\ Cardinality(CanDeliver([req |-> r, seq |-> 1])) \in Nat
        /\ Cardinality(CanDeliver([req |-> r, seq |-> 2])) \in Nat
    BY <2>2, CanSubsets
  <2>4. sent[r][1] + Cardinality(CanHear(r)) + Cardinality(CanDeliver([req |-> r, seq |-> 1]))
            <= 2 * Cardinality(Procs) + faults
    BY DEF SafetyInv, FirstCounted
  <2>5. sent[r][2] + Cardinality(CanDeliver([req |-> r, seq |-> 2])) <= Cardinality(Procs) + faults
    BY DEF SafetyInv, ReminderCounted
  <2> QED
    BY <2>1, <2>3, <2>4, <2>5
<1> QED
  BY <1>1, SafetyAlways, PTL

(* After the owner has opened the request, or it was answered, the jobs    *)
(* together deliver it at most once per process, whatever fails.           *)
THEOREM Nagging == Spec => []NagBounded
<1>1. SafetyInv => NagBounded
  <2> SUFFICES ASSUME SafetyInv, NEW r \in Requests PROVE nagged[r] <= Cardinality(Procs)
    BY DEF NagBounded
  <2>1. CanNag(r) \in SUBSET Procs
    BY CanSubsets
  <2>2. Cardinality(CanNag(r)) \in Nat /\ Cardinality(Procs) \in Nat
    BY <2>1, Fewer
  <2>3. nagged[r] \in Nat
    BY DEF SafetyInv, TypeOK
  <2>4. \/ nagged[r] + Cardinality(CanNag(r)) <= Cardinality(Procs)
        \/ nagged[r] = 0
    BY DEF SafetyInv, NagCounted
  <2> QED
    BY <2>2, <2>3, <2>4
<1> QED
  BY <1>1, SafetyAlways, PTL

=============================================================================
