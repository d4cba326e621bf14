------------------------ MODULE ConsentStreamsProofs -----------------------
(* Proofs about ConsentStreams, for every number of requests, connections, *)
(* rows and queue limits: queues never outgrow their limits, a developer's *)
(* stream hears the answer it waits for, and a connected owner hears of    *)
(* every row.                                                              *)
EXTENDS ConsentStreams, SequenceTheorems, WellFoundedInduction, TLAPS

-----------------------------------------------------------------------------
(* Rows in queues. *)

(* An append adds one row at the end and keeps the others. *)
LEMMA Appended ==
    ASSUME NEW s \in Seq(Row), NEW row \in Row
    PROVE  /\ Append(s, row) \in Seq(Row)
           /\ Len(Append(s, row)) = Len(s) + 1 /\ Len(s) \in Nat
           /\ \A i \in 1..Len(s) : Append(s, row)[i] = s[i]
           /\ Append(s, row)[Len(s) + 1] = row
           /\ RowsIn(Append(s, row)) = RowsIn(s) \cup {row}
<1>1. /\ Append(s, row) \in Seq(Row)
      /\ Len(Append(s, row)) = Len(s) + 1
      /\ \A i \in 1..Len(s) : Append(s, row)[i] = s[i]
      /\ Append(s, row)[Len(s) + 1] = row
  BY AppendProperties
<1>2. /\ Len(s) \in Nat /\ DOMAIN s = 1..Len(s)
      /\ DOMAIN Append(s, row) = 1..(Len(s) + 1)
  BY <1>1, LenProperties
<1>3. \A i : i \in 1..(Len(s) + 1) <=> i \in 1..Len(s) \/ i = Len(s) + 1
  BY <1>2
<1>4. RowsIn(Append(s, row)) = RowsIn(s) \cup {row}
  BY <1>1, <1>2, <1>3 DEF RowsIn
<1> QED
  BY <1>1, <1>2, <1>4

(* A tail holds what the queue held, but its head. *)
LEMMA Tailed ==
    ASSUME NEW s \in Seq(Row), s # <<>>
    PROVE  /\ Head(s) \in Row /\ Tail(s) \in Seq(Row)
           /\ Len(s) \in Nat \ {0} /\ Len(Tail(s)) = Len(s) - 1
           /\ Head(s) = s[1]
           /\ \A i \in 1..Len(Tail(s)) : Tail(s)[i] = s[i + 1]
           /\ RowsIn(s) = {Head(s)} \cup RowsIn(Tail(s))
<1>1. /\ Head(s) \in Row /\ Tail(s) \in Seq(Row)
      /\ Len(Tail(s)) = Len(s) - 1
      /\ \A i \in 1..Len(Tail(s)) : Tail(s)[i] = s[i + 1]
  BY HeadTailProperties
<1>2. Len(s) \in Nat \ {0} /\ DOMAIN s = 1..Len(s) /\ DOMAIN Tail(s) = 1..(Len(s) - 1)
  BY <1>1, EmptySeq, LenProperties
<1>3. Head(s) = s[1]
  OBVIOUS
<1>4. /\ 1 \in 1..Len(s)
      /\ \A i \in 1..(Len(s) - 1) : i + 1 \in 1..Len(s)
      /\ \A i \in 1..Len(s) : i = 1 \/ (i - 1 \in 1..(Len(s) - 1) /\ (i - 1) + 1 = i)
  BY <1>2
<1>5. RowsIn(s) \subseteq {Head(s)} \cup RowsIn(Tail(s))
  <2> SUFFICES ASSUME NEW i \in 1..Len(s) PROVE s[i] \in {Head(s)} \cup RowsIn(Tail(s))
    BY <1>2 DEF RowsIn
  <2>1. CASE i = 1
    BY <1>3, <2>1
  <2>2. CASE i - 1 \in 1..(Len(s) - 1) /\ (i - 1) + 1 = i
    <3>1. Tail(s)[i - 1] = s[i]
      BY <1>1, <2>2
    <3> QED
      BY <1>2, <2>2, <3>1 DEF RowsIn
  <2> QED
    BY <1>4, <2>1, <2>2
<1>6. {Head(s)} \cup RowsIn(Tail(s)) \subseteq RowsIn(s)
  BY <1>1, <1>2, <1>3, <1>4 DEF RowsIn
<1> QED
  BY <1>1, <1>2, <1>3, <1>5, <1>6

LEMMA Emptied == <<>> \in Seq(Row) /\ Len(<<>>) = 0 /\ RowsIn(<<>>) = {}
<1>1. <<>> \in Seq(Row) /\ Len(<<>>) = 0 /\ DOMAIN <<>> = {}
  BY EmptySeq
<1> QED
  BY <1>1 DEF RowsIn

(* A row that is put is in the queue, which keeps to its limit and, unless *)
(* it was full, loses nothing.                                             *)
LEMMA Puts ==
    ASSUME NEW q \in Seq(Row), NEW row \in Row, NEW limit \in Nat \ {0}, Len(q) <= limit
    PROVE  LET put == PutNewest(q, row, limit)
           IN  /\ put \in Seq(Row) /\ Len(put) <= limit
               /\ row \in RowsIn(put)
               /\ Len(q) < limit => RowsIn(put) = RowsIn(q) \cup {row}
<1>0. Len(q) \in Nat
  BY LenProperties
<1>1. CASE Len(q) < limit
  <2>1. PutNewest(q, row, limit) = Append(q, row)
    BY <1>1 DEF PutNewest
  <2> QED
    BY <1>0, <1>1, <2>1, Appended
<1>2. CASE ~(Len(q) < limit)
  <2>1. PutNewest(q, row, limit) = Append(Tail(q), row)
    BY <1>2 DEF PutNewest
  <2>2. q # <<>>
    BY <1>0, <1>2, Emptied
  <2>3. Tail(q) \in Seq(Row) /\ Len(Tail(q)) = Len(q) - 1
    BY <2>2, Tailed
  <2>4. /\ Append(Tail(q), row) \in Seq(Row)
        /\ Len(Append(Tail(q), row)) = Len(Tail(q)) + 1
        /\ row \in RowsIn(Append(Tail(q), row))
    <3> DEFINE t == Tail(q)
    <3>1. t \in Seq(Row)
      BY <2>3
    <3> HIDE DEF t
    <3>2. /\ Append(t, row) \in Seq(Row) /\ Len(Append(t, row)) = Len(t) + 1
          /\ row \in RowsIn(Append(t, row))
      BY <3>1, Appended
    <3> QED
      BY <3>2 DEF t
  <2> QED
    BY <1>0, <1>2, <2>1, <2>3, <2>4
<1> QED
  BY <1>1, <1>2

-----------------------------------------------------------------------------
(* The newest row of a request. *)

(* A set of natural numbers that is not empty has a smallest one, since    *)
(* the order of the natural numbers is well founded.                       *)
LessThan == {pair \in Nat \X Nat : pair[1] < pair[2]}

LEMMA SmallestIn ==
    ASSUME NEW T \in SUBSET Nat, T # {}
    PROVE  \E x \in T : \A y \in T : x <= y
<1>1. IsWellFoundedOn(LessThan, Nat)
  BY NatLessThanWellFounded DEF OpToRel, LessThan
<1>2. PICK x \in T : \A y \in T : <<y, x>> \notin LessThan
  BY <1>1, WFMin
<1>3. \A y \in T : y \in Nat /\ x \in Nat /\ ~(y < x)
  BY <1>2 DEF LessThan
<1> QED
  BY <1>3

(* So a set of indices that is not empty has a largest one. *)
LEMMA LargestIndex ==
    ASSUME NEW n \in Nat, NEW mine \in SUBSET (1..n), mine # {}
    PROVE  \E i \in mine : \A j \in mine : j <= i
<1> DEFINE T == {k \in 0..n : n - k \in mine}
<1>1. T \in SUBSET Nat
  OBVIOUS
<1>2. \A i \in mine : i \in 1..n /\ n - i \in T /\ n - (n - i) = i
  OBVIOUS
<1>3. T # {}
  BY <1>2
<1>4. PICK k \in T : \A y \in T : k <= y
  BY <1>1, <1>3, SmallestIn
<1>5. n - k \in mine /\ k \in 0..n
  OBVIOUS
<1>6. \A j \in mine : k <= n - j /\ j \in 1..n
  BY <1>2, <1>4
<1>7. \A j \in mine : j <= n - k
  BY <1>5, <1>6
<1> QED
  BY <1>5, <1>7

Mine(rows, r) == {i \in 1..Len(rows) : rows[i].req = r}
Last(mine) == CHOOSE i \in mine : \A j \in mine : j <= i

LEMMA LastIndex ==
    ASSUME NEW n \in Nat, NEW mine \in SUBSET (1..n), mine # {}
    PROVE  Last(mine) \in mine /\ \A j \in mine : j <= Last(mine)
BY LargestIndex DEF Last

(* The newest row of a request has an action; with no row there is none. *)
LEMMA NewestType ==
    ASSUME NEW rows \in Seq(Row), NEW r
    PROVE  NewestIn(rows, r) \in Actions \cup {None}
<1>1. Len(rows) \in Nat
  BY LenProperties
<1>2. \A i \in 1..Len(rows) : rows[i].act \in Actions
  <2>1. \A i \in 1..Len(rows) : rows[i] \in Row
    BY ElementOfSeq
  <2> QED
    BY <2>1 DEF Row
<1>3. ASSUME Mine(rows, r) # {} PROVE Last(Mine(rows, r)) \in 1..Len(rows)
  BY <1>1, <1>3, LastIndex DEF Mine
<1>4. NewestIn(rows, r) = IF Mine(rows, r) = {} THEN None ELSE rows[Last(Mine(rows, r))].act
  BY DEF NewestIn, Mine, Last
<1> QED
  BY <1>2, <1>3, <1>4

(* A new row is the newest of its request and leaves the others. *)
LEMMA NewestAppended ==
    ASSUME NEW rows \in Seq(Row), NEW row \in Row, NEW r
    PROVE  NewestIn(Append(rows, row), r) =
             IF row.req = r THEN row.act ELSE NewestIn(rows, r)
<1> DEFINE more == Append(rows, row)
           n == Len(rows)
<1>1. /\ more \in Seq(Row) /\ Len(more) = n + 1 /\ n \in Nat
      /\ \A i \in 1..n : more[i] = rows[i]
      /\ more[n + 1] = row
  BY Appended
<1> HIDE DEF more, n
<1>2. \A s : NewestIn(s, r) = IF Mine(s, r) = {} THEN None ELSE s[Last(Mine(s, r))].act
  BY DEF NewestIn, Mine, Last
<1>3. Mine(more, r) \in SUBSET (1..(n + 1)) /\ Mine(rows, r) \in SUBSET (1..n)
  BY <1>1 DEF Mine, n
<1>4. CASE row.req = r
  <2>1. n + 1 \in Mine(more, r)
    BY <1>1, <1>4 DEF Mine
  <2> DEFINE mine == Mine(more, r)
             m == n + 1
  <2>m. m \in Nat /\ mine \in SUBSET (1..m) /\ m \in mine
    BY <1>1, <1>3, <2>1
  <2> HIDE DEF mine, m
  <2>l. Last(mine) \in mine /\ \A j \in mine : j <= Last(mine)
    BY <2>m, LastIndex
  <2>k. Last(mine) \in 1..m /\ m <= Last(mine)
    BY <2>m, <2>l
  <2>2. Last(Mine(more, r)) \in 1..(n + 1) /\ n + 1 <= Last(Mine(more, r))
    BY <2>k DEF mine, m
  <2>3. Last(Mine(more, r)) = n + 1
    BY <1>1, <2>2
  <2>4. NewestIn(more, r) = row.act
    BY <1>1, <1>2, <2>1, <2>3
  <2> QED
    BY <1>4, <2>4 DEF more
<1>5. CASE row.req # r
  <2>1. Mine(more, r) = Mine(rows, r)
    BY <1>1, <1>5 DEF Mine, n
  <2>2. CASE Mine(rows, r) = {}
    <3>1. NewestIn(more, r) = NewestIn(rows, r)
      BY <1>2, <2>1, <2>2
    <3> QED
      BY <1>5, <3>1 DEF more
  <2>3. CASE Mine(rows, r) # {}
    <3>1. Last(Mine(rows, r)) \in 1..n
      BY <1>1, <1>3, <2>3, LastIndex
    <3>2. NewestIn(more, r) = NewestIn(rows, r)
      BY <1>1, <1>2, <2>1, <2>3, <3>1
    <3> QED
      BY <1>5, <3>2 DEF more
  <2> QED
    BY <2>2, <2>3
<1> QED
  BY <1>4, <1>5

-----------------------------------------------------------------------------
(* Rows of the model, and what a delivery does to them. *)

LEMMA Rows ==
    /\ \A r \in Requests, a \in Actions :
         LET row == [req |-> r, act |-> a] IN row \in Row /\ row.req = r /\ row.act = a
    /\ \A row \in Row : row.req \in Requests /\ row.act \in Actions
    /\ None \notin Actions /\ {"REQUESTED", "RESOLVED", "REVOKED"} \subseteq Actions
    /\ ~Terminal("REQUESTED") /\ ~Terminal(None)
    /\ \A a \in Actions : a # "REQUESTED" => Terminal(a)
BY DEF Row, Actions, None, Terminal

LEMMA ClientRows ==
    /\ ClientOff \in ClientRow /\ ClientOff.on = FALSE
    /\ \A w \in ClientRow : /\ w.on \in BOOLEAN /\ w.shown \in [Requests -> Actions \cup {None}]
                            /\ w.stolen \in SUBSET Row /\ w.skipped \in SUBSET Row
                            /\ w.since \in 0..MaxRows
    /\ \A n \in 0..MaxRows, f \in [Requests -> Actions \cup {None}] :
         LET w == [on |-> TRUE, stolen |-> {}, skipped |-> {}, since |-> n, shown |-> f]
         IN  w \in ClientRow /\ w.on = TRUE /\ w.since = n /\ w.shown = f
BY LimitAssumption DEF ClientRow, ClientOff, None

(* What a connection misses that another one took. *)
LEMMA MissedDoes ==
    ASSUME NEW w \in ClientRow, NEW row \in Row
    PROVE  LET v == Missed(w, row)
           IN  /\ v \in ClientRow /\ v.on = w.on /\ v.shown = w.shown /\ v.since = w.since
               /\ v.skipped = w.skipped
               /\ v.stolen = IF w.on THEN w.stolen \cup {row} ELSE w.stolen
BY DEF ClientRow, Missed

(* A connection that took an event has shown it or skipped it, and what it *)
(* had shown of other rows it still has.                                   *)
LEMMA TookDoes ==
    ASSUME NEW w \in ClientRow, NEW row \in Row
    PROVE  LET v == Took(w, row)
           IN  /\ v \in ClientRow /\ v.on = w.on /\ v.stolen = w.stolen /\ v.since = w.since
               /\ w.skipped \subseteq v.skipped
               /\ v.shown[row.req] = row.act \/ row \in v.skipped
               /\ \A x \in Row : w.shown[x.req] = x.act => v.shown[x.req] = x.act
<1> DEFINE r == row.req
           a == row.act
           x == IF w.shown[r] = None THEN a ELSE w.shown[r]
           f == [w.shown EXCEPT ![r] = x]
           s == IF w.shown[r] \in {None, a} THEN w.skipped ELSE w.skipped \cup {row}
           v == [w EXCEPT !.shown = f, !.skipped = s]
<1>1. /\ w.shown \in [Requests -> Actions \cup {None}] /\ w.skipped \in SUBSET Row
      /\ r \in Requests /\ a \in Actions /\ None \notin Actions
  BY ClientRows, Rows
<1>2. x \in Actions /\ (w.shown[r] # None => x = w.shown[r])
  BY <1>1
<1>3. x = a \/ row \in s
  BY <1>1
<1>4. s \in SUBSET Row /\ w.skipped \subseteq s
  BY <1>1
<1>5. Took(w, row) = v
  BY DEF Took
<1> HIDE DEF x, s
<1>6. /\ f \in [Requests -> Actions \cup {None}] /\ f[r] = x
      /\ \A q \in Requests : w.shown[q] # None => f[q] = w.shown[q]
  BY <1>1, <1>2
<1>7. \A y \in Row : y.req \in Requests /\ y.act # None
  BY <1>1, Rows
<1> HIDE DEF f, r, a
<1>8. /\ v \in ClientRow /\ v.on = w.on /\ v.stolen = w.stolen /\ v.since = w.since
      /\ v.shown = f /\ v.skipped = s
  BY <1>4, <1>6 DEF ClientRow
<1> HIDE DEF v
<1>9. \A y \in Row : w.shown[y.req] = y.act => v.shown[y.req] = y.act
  BY <1>6, <1>7, <1>8
<1>10. v.shown[row.req] = row.act \/ row \in v.skipped
  BY <1>3, <1>6, <1>8 DEF r, a
<1> QED
  BY <1>4, <1>5, <1>8, <1>9, <1>10

LEMMA StreamRows ==
    /\ StreamOff \in StreamRow /\ StreamOff.pc = "off" /\ StreamOff.queue = <<>>
    /\ \A s \in StreamRow : /\ s.pc \in {"off", "opening", "live", "done"}
                            /\ s.req \in Requests \cup {None} /\ s.told \in Actions \cup {None}
                            /\ s.queue \in Seq(Row) /\ s.gap \in BOOLEAN
<1>1. <<>> \in Seq(Row)
  BY Emptied
<1>2. StreamOff \in StreamRow /\ StreamOff.pc = "off" /\ StreamOff.queue = <<>>
  BY <1>1 DEF StreamRow, StreamOff, None
<1> QED
  BY <1>2 DEF StreamRow

(* A stream that opens, subscribes, takes an event, gets one or misses one. *)
Opening(r, a) == [StreamOff EXCEPT !.pc = "opening", !.req = r, !.told = a]

LEMMA StreamOpens ==
    ASSUME NEW r \in Requests, NEW a \in Actions \cup {None}
    PROVE  LET s == Opening(r, a)
           IN  s \in StreamRow /\ s.pc = "opening" /\ s.req = r /\ s.told = a /\ s.queue = <<>>
<1>1. <<>> \in Seq(Row)
  BY Emptied
<1> QED
  BY <1>1 DEF StreamRow, StreamOff, Opening

LEMMA StreamSubscribes ==
    ASSUME NEW s \in StreamRow, NEW c \in {"done", "live"}
    PROVE  LET t == [s EXCEPT !.pc = c]
           IN  /\ t \in StreamRow /\ t.pc = c /\ t.req = s.req /\ t.told = s.told
               /\ t.queue = s.queue /\ t.gap = s.gap
BY DEF StreamRow

LEMMA StreamGets ==
    ASSUME NEW s \in StreamRow, NEW q \in Seq(Row)
    PROVE  LET t == [s EXCEPT !.queue = q]
           IN  /\ t \in StreamRow /\ t.pc = s.pc /\ t.req = s.req /\ t.told = s.told
               /\ t.queue = q /\ t.gap = s.gap
BY DEF StreamRow

LEMMA StreamMisses ==
    ASSUME NEW s \in StreamRow
    PROVE  LET t == [s EXCEPT !.gap = TRUE]
           IN  /\ t \in StreamRow /\ t.pc = s.pc /\ t.req = s.req /\ t.told = s.told
               /\ t.queue = s.queue /\ t.gap
BY DEF StreamRow

LEMMA TypeInit == ASSUME Init PROVE TypeOK
<1>1. /\ client \in [Clients -> ClientRow] /\ stream \in [Streams -> StreamRow]
      /\ \A d \in Streams : stream[d].queue = <<>>
  BY ClientRows, StreamRows DEF Init
<1>2. /\ ledger = <<>> /\ wire = <<>> /\ queue = <<>> /\ parked = {} /\ due = {}
      /\ listening = TRUE /\ made = FALSE /\ lossy = FALSE
  BY DEF Init
<1>3. Len(<<>>) <= MaxRows /\ Len(<<>>) <= QueueLimit /\ Len(<<>>) <= StreamLimit
  BY Emptied, LimitAssumption
<1> QED
  BY <1>1, <1>2, <1>3, Emptied DEF TypeOK

(* A push to the owner keeps the queue's type; it loses an event only when *)
(* it notes the loss.                                                      *)
LEMMA PushedOwner ==
    ASSUME TypeOK, NEW row \in Row, PushOwner(row)
    PROVE  /\ queue' \in Seq(Row) /\ Len(queue') <= QueueLimit /\ lossy' \in BOOLEAN
           /\ made' = made /\ client' = client
           /\ lossy => lossy'
           /\ made /\ ~lossy' => RowsIn(queue') = RowsIn(queue) \cup {row}
           /\ ~lossy' => RowsIn(queue) \subseteq RowsIn(queue')
<1>1. queue \in Seq(Row) /\ Len(queue) <= QueueLimit /\ Len(queue) \in Nat
  BY LenProperties DEF TypeOK
<1>2. QueueLimit \in Nat \ {0}
  BY LimitAssumption
<1>3. LET put == PutNewest(queue, row, QueueLimit)
      IN  /\ put \in Seq(Row) /\ Len(put) <= QueueLimit
          /\ Len(queue) < QueueLimit => RowsIn(put) = RowsIn(queue) \cup {row}
  BY <1>1, <1>2, Puts
<1>4. /\ queue' = IF made THEN PutNewest(queue, row, QueueLimit) ELSE queue
      /\ lossy' = (lossy \/ Len(queue) = QueueLimit)
      /\ made' = made /\ client' = client
  BY DEF PushOwner
<1>o. Len(queue) = QueueLimit \/ lossy => lossy'
  BY <1>4
<1>5. ~lossy' => Len(queue) < QueueLimit
  BY <1>1, <1>2, <1>o
<1>6. made => RowsIn(queue) \cup {row} = RowsIn(queue') \/ lossy'
  BY <1>3, <1>4, <1>5
<1>7. ~made => queue' = queue
  BY <1>4
<1>8. queue' \in Seq(Row) /\ Len(queue') <= QueueLimit
  BY <1>1, <1>3, <1>4
<1>9. lossy' \in BOOLEAN
  BY <1>4
<1> QED
  BY <1>4, <1>o, <1>6, <1>7, <1>8, <1>9

(* A push to the developers reaches every live stream of the request, and  *)
(* marks those that have not subscribed yet.                               *)
LEMMA PushedStreams ==
    ASSUME TypeOK, NEW row \in Row, PushDevelopers(row)
    PROVE  /\ stream' \in [Streams -> StreamRow]
           /\ \A d \in Streams :
                /\ Len(stream'[d].queue) <= StreamLimit
                /\ stream'[d].pc = stream[d].pc /\ stream'[d].req = stream[d].req
                /\ stream'[d].told = stream[d].told
                /\ stream[d].gap => stream'[d].gap
                /\ stream[d].req # row.req => stream'[d] = stream[d]
                /\ stream[d].req = row.req /\ stream[d].pc = "live" =>
                     row \in RowsIn(stream'[d].queue)
                /\ stream[d].req = row.req /\ stream[d].pc = "opening" => stream'[d].gap
<1> DEFINE Does(d) ==
             /\ stream'[d] \in StreamRow
             /\ Len(stream'[d].queue) <= StreamLimit
             /\ stream'[d].pc = stream[d].pc /\ stream'[d].req = stream[d].req
             /\ stream'[d].told = stream[d].told
             /\ stream[d].gap => stream'[d].gap
             /\ stream[d].req # row.req => stream'[d] = stream[d]
             /\ stream[d].req = row.req /\ stream[d].pc = "live" =>
                  row \in RowsIn(stream'[d].queue)
             /\ stream[d].req = row.req /\ stream[d].pc = "opening" => stream'[d].gap
<1>1. \A d \in Streams : Does(d)
  <2> SUFFICES ASSUME NEW d \in Streams PROVE Does(d)
    OBVIOUS
  <2> DEFINE s == stream[d]
  <2>1. s \in StreamRow /\ s.queue \in Seq(Row) /\ Len(s.queue) <= StreamLimit
    BY StreamRows DEF TypeOK
  <2>2. stream'[d] = CASE s.req = row.req /\ s.pc = "live" ->
                            [s EXCEPT !.queue = PutNewest(@, row, StreamLimit)]
                       [] s.req = row.req /\ s.pc = "opening" -> [s EXCEPT !.gap = TRUE]
                       [] OTHER -> s
    BY DEF PushDevelopers
  <2>3. CASE s.req = row.req /\ s.pc = "live"
    <3> DEFINE q == PutNewest(s.queue, row, StreamLimit)
    <3>1. q \in Seq(Row) /\ Len(q) <= StreamLimit /\ row \in RowsIn(q)
      BY <2>1, Puts, LimitAssumption
    <3>2. stream'[d] = [s EXCEPT !.queue = q]
      BY <2>2, <2>3
    <3> HIDE DEF q, s
    <3>3. /\ stream'[d] \in StreamRow /\ stream'[d].pc = s.pc /\ stream'[d].req = s.req
          /\ stream'[d].told = s.told /\ stream'[d].queue = q /\ stream'[d].gap = s.gap
      BY <2>1, <3>1, <3>2, StreamGets
    <3> QED
      BY <2>3, <3>1, <3>3 DEF s
  <2>4. CASE s.req = row.req /\ s.pc = "opening"
    <3>1. stream'[d] = [s EXCEPT !.gap = TRUE]
      BY <2>2, <2>4
    <3> HIDE DEF s
    <3>2. /\ stream'[d] \in StreamRow /\ stream'[d].pc = s.pc /\ stream'[d].req = s.req
          /\ stream'[d].told = s.told /\ stream'[d].queue = s.queue /\ stream'[d].gap
      BY <2>1, <3>1, StreamMisses
    <3> QED
      BY <2>1, <2>4, <3>2 DEF s
  <2>5. CASE ~(s.req = row.req /\ s.pc \in {"live", "opening"})
    <3>1. stream'[d] = s
      BY <2>2, <2>5
    <3> QED
      BY <2>1, <2>5, <3>1
  <2> QED
    BY <2>3, <2>4, <2>5
<1>2. stream' \in [Streams -> StreamRow]
  BY <1>1 DEF PushDevelopers
<1> QED
  BY <1>1, <1>2

-----------------------------------------------------------------------------
(* What the steps do. *)

LEMMA LatestType == ASSUME TypeOK, NEW r PROVE Latest(r) \in Actions \cup {None}
BY NewestType DEF Latest, TypeOK

LEMMA InsertDoes ==
    ASSUME TypeOK, NEW r \in Requests, NEW act \in Actions, Insert(r, act)
    PROVE  LET row == [req |-> r, act |-> act]
           IN  /\ row \in Row /\ row.req = r /\ row.act = act
               /\ ledger' \in Seq(Row) /\ Len(ledger') <= MaxRows
               /\ Len(ledger) \in Nat /\ Len(ledger') = Len(ledger) + 1
               /\ \A i \in 1..Len(ledger) : ledger'[i] = ledger[i]
               /\ ledger'[Len(ledger) + 1] = row
               /\ \A q : Latest(q)' = IF q = r THEN act ELSE Latest(q)
               /\ wire' \in Seq(Row)
               /\ listening => wire' = Append(wire, row)
               /\ RowsIn(wire) \subseteq RowsIn(wire')
               /\ listening => row \in RowsIn(wire')
               /\ UNCHANGED <<listening, parked, due, owner, stream>>
<1> DEFINE row == [req |-> r, act |-> act]
<1>1. row \in Row /\ row.req = r /\ row.act = act
  BY DEF Row
<1>2. /\ ledger' = Append(ledger, row) /\ Len(ledger) < MaxRows
      /\ wire' = IF listening THEN Append(wire, row) ELSE wire
      /\ UNCHANGED <<listening, parked, due, owner, stream>>
  BY DEF Insert
<1> HIDE DEF row
<1>3. ledger \in Seq(Row) /\ wire \in Seq(Row)
  BY DEF TypeOK
<1>4. /\ ledger' \in Seq(Row) /\ Len(ledger') = Len(ledger) + 1 /\ Len(ledger) \in Nat
      /\ \A i \in 1..Len(ledger) : ledger'[i] = ledger[i]
      /\ ledger'[Len(ledger) + 1] = row
  BY <1>1, <1>2, <1>3, Appended
<1>5. Len(ledger') <= MaxRows
  BY <1>2, <1>4, LimitAssumption
<1>6. \A q : Latest(q)' = IF q = r THEN act ELSE Latest(q)
  <2> TAKE q
  <2>1. NewestIn(Append(ledger, row), q) = IF row.req = q THEN row.act ELSE NewestIn(ledger, q)
    BY <1>1, <1>3, NewestAppended
  <2>2. Latest(q)' = NewestIn(ledger', q)
    BY DEF Latest, NewestIn
  <2> QED
    BY <1>1, <1>2, <2>1, <2>2 DEF Latest
<1>7. /\ Append(wire, row) \in Seq(Row)
      /\ RowsIn(Append(wire, row)) = RowsIn(wire) \cup {row}
  BY <1>1, <1>3, Appended
<1>8. /\ wire' \in Seq(Row) /\ RowsIn(wire) \subseteq RowsIn(wire')
      /\ listening => wire' = Append(wire, row) /\ row \in RowsIn(wire')
  BY <1>2, <1>3, <1>7
<1> QED
  BY <1>1, <1>2, <1>4, <1>5, <1>6, <1>8 DEF row

(* A new row is the first of its request, or follows the one before. *)
Inserts(r, act) == act \in Actions /\ Insert(r, act)

LEMMA Inserting ==
    \A r \in Requests : /\ Ask(r) => Inserts(r, "REQUESTED")
                        /\ Resolve(r) => Inserts(r, "RESOLVED")
                        /\ Revoke(r) => Inserts(r, "REVOKED")
BY DEF Ask, Resolve, Revoke, Inserts, Actions

(* The head of the wire leaves it. *)
LEMMA Heads ==
    ASSUME TypeOK, wire # <<>>, wire' = Tail(wire)
    PROVE  /\ Head(wire) \in Row /\ wire' \in Seq(Row)
           /\ Len(wire) \in Nat \ {0} /\ Len(wire') = Len(wire) - 1
           /\ Head(wire) = wire[1]
           /\ \A i \in 1..Len(wire') : wire'[i] = wire[i + 1]
           /\ RowsIn(wire) = {Head(wire)} \cup RowsIn(wire')
BY Tailed DEF TypeOK

LEMMA OpenDoes ==
    ASSUME TypeOK, NEW d \in Streams, NEW r \in Requests, OpenStream(d, r)
    PROVE  /\ stream' \in [Streams -> StreamRow]
           /\ \A e \in Streams : e # d => stream'[e] = stream[e]
           /\ stream'[d].pc = "opening" /\ stream'[d].req = r /\ stream'[d].told = Latest(r)
           /\ stream'[d].queue = <<>> /\ r \notin Adviser
           /\ UNCHANGED <<ledger, process, owner>>
<1> DEFINE s == Opening(r, Latest(r))
<1>1. /\ Latest(r) \in Actions \cup {None} /\ stream' = [stream EXCEPT ![d] = s]
      /\ r \notin Adviser /\ UNCHANGED <<ledger, process, owner>>
  BY LatestType DEF OpenStream, Opening
<1>2. /\ s \in StreamRow /\ s.pc = "opening" /\ s.req = r /\ s.told = Latest(r)
      /\ s.queue = <<>>
  BY <1>1, StreamOpens
<1> HIDE DEF s
<1> QED
  BY <1>1, <1>2 DEF TypeOK

LEMMA SubscribeDoes ==
    ASSUME TypeOK, NEW d \in Streams, Subscribe(d)
    PROVE  /\ stream' \in [Streams -> StreamRow]
           /\ \A e \in Streams : e # d => stream'[e] = stream[e]
           /\ stream[d].pc = "opening" /\ stream'[d].pc \in {"live", "done"}
           /\ stream'[d].req = stream[d].req /\ stream'[d].told = stream[d].told
           /\ stream'[d].queue = stream[d].queue /\ stream'[d].gap = stream[d].gap
           /\ stream'[d].pc = "live" => ~Terminal(stream'[d].told)
           /\ UNCHANGED <<ledger, process, owner>>
<1> DEFINE c == IF Terminal(stream[d].told) THEN "done" ELSE "live"
           s == stream[d]
           t == [s EXCEPT !.pc = c]
<1>1. /\ stream' = [stream EXCEPT ![d] = t] /\ stream[d].pc = "opening"
      /\ UNCHANGED <<ledger, process, owner>>
  BY DEF Subscribe
<1>2. s \in StreamRow /\ c \in {"live", "done"} /\ (c = "live" => ~Terminal(s.told))
  BY DEF TypeOK
<1> HIDE DEF s, c
<1>3. /\ t \in StreamRow /\ t.pc = c /\ t.req = s.req /\ t.told = s.told
      /\ t.queue = s.queue /\ t.gap = s.gap
  BY <1>2, StreamSubscribes
<1> HIDE DEF t
<1> QED
  BY <1>1, <1>2, <1>3 DEF TypeOK, s

(* A developer is told the oldest event of the queue; an answer is the last. *)
LEMMA NextDoes ==
    ASSUME TypeOK, NEW d \in Streams, StreamNext(d)
    PROVE  LET q == stream[d].queue
           IN  /\ stream' \in [Streams -> StreamRow]
               /\ \A e \in Streams : e # d => stream'[e] = stream[e]
               /\ stream[d].pc = "live" /\ stream'[d].pc \in {"live", "done"}
               /\ q \in Seq(Row) /\ q # <<>> /\ Head(q) \in Row
               /\ RowsIn(q) = {Head(q)} \cup RowsIn(Tail(q))
               /\ Len(q) \in Nat /\ Len(stream'[d].queue) = Len(q) - 1
               /\ stream'[d].queue = Tail(q) /\ stream'[d].told = Head(q).act
               /\ stream'[d].req = stream[d].req /\ stream'[d].gap = stream[d].gap
               /\ stream'[d].pc = "live" => ~Terminal(stream'[d].told)
               /\ UNCHANGED <<ledger, process, owner>>
<1> DEFINE x == stream[d]
           q == Tail(x.queue)
           a == Head(x.queue).act
           c == IF Terminal(a) THEN "done" ELSE "live"
           t == [x EXCEPT !.queue = q, !.told = a, !.pc = c]
<1>1. /\ stream' = [stream EXCEPT ![d] = t] /\ x.pc = "live" /\ x.queue # <<>>
      /\ UNCHANGED <<ledger, process, owner>>
  BY DEF StreamNext
<1>2. x \in StreamRow /\ x.queue \in Seq(Row)
  BY StreamRows DEF TypeOK
<1> HIDE DEF x
<1>3. /\ Head(x.queue) \in Row /\ q \in Seq(Row) /\ Len(x.queue) \in Nat
      /\ Len(q) = Len(x.queue) - 1 /\ RowsIn(x.queue) = {Head(x.queue)} \cup RowsIn(q)
  BY <1>1, <1>2, Tailed
<1>4. a \in Actions /\ c \in {"live", "done"} /\ (c = "live" => ~Terminal(a))
  BY <1>3, Rows
<1> HIDE DEF q, a, c
<1>5. /\ t \in StreamRow /\ t.pc = c /\ t.req = x.req /\ t.told = a
      /\ t.queue = q /\ t.gap = x.gap
  BY <1>2, <1>3, <1>4 DEF StreamRow
<1> HIDE DEF t
<1>6. stream' \in [Streams -> StreamRow] /\ stream'[d] = t
      /\ \A e \in Streams : e # d => stream'[e] = stream[e]
  BY <1>1, <1>5 DEF TypeOK
<1> QED
  BY <1>1, <1>2, <1>3, <1>4, <1>5, <1>6 DEF x, q, a

-----------------------------------------------------------------------------
(* Every step keeps the types. *)

LEMMA TypeStep == ASSUME TypeOK, [Next]_vars PROVE TypeOK'
<1> DEFINE Good == TypeOK'
<1>u. ASSUME UNCHANGED vars PROVE Good
  BY <1>u DEF vars, TypeOK
<1>1. ASSUME NEW r \in Requests, NEW act, Inserts(r, act) PROVE Good
  BY <1>1, InsertDoes DEF Inserts, TypeOK, owner
<1>2. ASSUME NEW r \in Requests, JobPushes(r) PROVE Good
  <2>1. [req |-> r, act |-> "REQUESTED"] \in Row
    BY Rows
  <2>2. CASE PushOwner([req |-> r, act |-> "REQUESTED"])
    BY <1>2, <2>1, <2>2, PushedOwner DEF JobPushes, TypeOK
  <2>3. CASE UNCHANGED owner
    BY <1>2, <2>3 DEF JobPushes, TypeOK, owner
  <2> QED
    BY <1>2, <2>2, <2>3 DEF JobPushes
<1>3. ASSUME Receive PROVE Good
  <2>1. Head(wire) \in Row /\ wire' \in Seq(Row)
    BY <1>3, Heads DEF Receive
  <2>2. PushDevelopers(Head(wire)) /\ PushOwner(Head(wire))
    BY <1>3 DEF Receive, Handle
  <2> QED
    BY <1>3, <2>1, <2>2, PushedOwner, PushedStreams DEF Receive, Handle, TypeOK
<1>4. ASSUME Park PROVE Good
  BY <1>4, Heads DEF Park, TypeOK, owner
<1>5. ASSUME JobReads PROVE Good
  BY <1>5 DEF JobReads, TypeOK, owner
<1>6. ASSUME LoseConnection PROVE Good
  BY <1>6, Emptied DEF LoseConnection, TypeOK
<1>7. ASSUME NEW row \in Row, Resume(row) PROVE Good
  <2>1. PushDevelopers(row) /\ PushOwner(row)
    BY <1>7 DEF Resume, Handle
  <2> QED
    BY <1>7, <2>1, PushedOwner, PushedStreams DEF Resume, Handle, TypeOK
<1>8. ASSUME NEW c \in Clients, Connect(c) PROVE Good
  <2>1. PICK n \in 0..Len(ledger) :
          client' = [client EXCEPT ![c] =
            [on |-> TRUE, stolen |-> {}, skipped |-> {}, since |-> Len(ledger),
             shown |-> [r \in Requests |-> NewestIn(SubSeq(ledger, n + 1, Len(ledger)), r)]]]
    BY <1>8 DEF Connect
  <2> DEFINE rows == SubSeq(ledger, n + 1, Len(ledger))
             f == [r \in Requests |-> NewestIn(rows, r)]
  <2>2. Len(ledger) \in Nat /\ ledger \in Seq(Row) /\ Len(ledger) \in 0..MaxRows
    BY LenProperties, LimitAssumption DEF TypeOK
  <2>3. \A i \in (n + 1)..Len(ledger) : ledger[i] \in Row
    BY <2>2, ElementOfSeq
  <2>4. rows \in Seq(Row)
    BY <2>2, <2>3, SubSeqProperties
  <2> HIDE DEF rows
  <2>5. f \in [Requests -> Actions \cup {None}]
    BY <2>4, NewestType
  <2>6. client' = [client EXCEPT ![c] = [on |-> TRUE, stolen |-> {}, skipped |-> {}, since |-> Len(ledger), shown |-> f]]
    BY <2>1 DEF rows
  <2> HIDE DEF f
  <2>7. client' \in [Clients -> ClientRow]
    BY <2>2, <2>5, <2>6, ClientRows DEF TypeOK
  <2> QED
    BY <1>8, <2>7 DEF Connect, TypeOK, process
<1>9. ASSUME NEW c \in Clients, Consume(c) PROVE Good
  <2>1. queue # <<>> /\ queue \in Seq(Row) /\ Len(queue) <= QueueLimit
    BY <1>9 DEF Consume, TypeOK
  <2>2. /\ Head(queue) \in Row /\ Tail(queue) \in Seq(Row) /\ Len(Tail(queue)) <= QueueLimit
    BY <2>1, Tailed, LimitAssumption
  <2>4. \A e \in Clients : /\ Took(client[e], Head(queue)) \in ClientRow
                           /\ Missed(client[e], Head(queue)) \in ClientRow
    BY <2>2, TookDoes, MissedDoes DEF TypeOK
  <2>5. client' \in [Clients -> ClientRow]
    BY <1>9, <2>4 DEF Consume
  <2> QED
    BY <1>9, <2>2, <2>5 DEF Consume, TypeOK, process
<1>10. ASSUME NEW c \in Clients, Disconnect(c) PROVE Good
  BY <1>10, ClientRows DEF Disconnect, TypeOK, process
<1>11. ASSUME NEW d \in Streams, NEW r \in Requests, OpenStream(d, r) PROVE Good
  <2>1. Len(<<>>) <= StreamLimit
    BY Emptied, LimitAssumption
  <2> QED
    BY <1>11, <2>1, OpenDoes DEF TypeOK, process, owner
<1>12. ASSUME NEW d \in Streams, Subscribe(d) PROVE Good
  BY <1>12, SubscribeDoes DEF TypeOK, process, owner
<1>13. ASSUME NEW d \in Streams, StreamNext(d) PROVE Good
  <2>1. Len(stream'[d].queue) <= StreamLimit
    BY <1>13, NextDoes, LimitAssumption DEF TypeOK
  <2> QED
    BY <1>13, <2>1, NextDoes DEF TypeOK, process, owner
<1>14. ASSUME NEW d \in Streams, CloseStream(d) PROVE Good
  <2>1. Len(<<>>) <= StreamLimit
    BY Emptied, LimitAssumption
  <2> QED
    BY <1>14, <2>1, StreamRows DEF CloseStream, TypeOK, process, owner
<1> HIDE DEF Good
<1>a. Good
  BY <1>u, <1>1, <1>2, <1>3, <1>4, <1>5, <1>6, <1>7, <1>8, <1>9, <1>10, <1>11, <1>12, <1>13,
     <1>14, Inserting DEF Next
<1> QED
  BY <1>a DEF Good

-----------------------------------------------------------------------------
(* On the wire answers follow what they answer, and advisers' requests are *)
(* nobody's stream.                                                        *)

(* AnswerFollows in the next state, told of the next ledger and wire. *)
LEMMA FollowsNext ==
    AnswerFollows' <=>
        (listening' =>
            \A i \in 1..Len(wire') :
                wire'[i].act = "REQUESTED" /\ Terminal(NewestIn(ledger', wire'[i].req)) =>
                    \E j \in (i + 1)..Len(wire') :
                        wire'[j].req = wire'[i].req /\ Terminal(wire'[j].act))
BY DEF AnswerFollows, Latest, NewestIn, Terminal

LEMMA LatestNext == \A q : Latest(q)' = NewestIn(ledger', q)
BY DEF Latest, NewestIn

LEMMA FollowsStep ==
    ASSUME TypeOK, AnswerFollows, [Next]_vars
    PROVE  AnswerFollows'
<1> DEFINE Good == AnswerFollows'
<1>s. ASSUME UNCHANGED <<ledger, wire, listening>> PROVE Good
  <2>1. \A q : Latest(q)' = Latest(q)
    BY <1>s DEF Latest, NewestIn
  <2> QED
    BY <1>s, <2>1 DEF AnswerFollows
<1>w. wire \in Seq(Row) /\ Len(wire) \in Nat
  BY LenProperties DEF TypeOK
<1>1. ASSUME NEW r \in Requests, NEW act, Inserts(r, act) PROVE Good
  <2> SUFFICES ASSUME listening', NEW i \in 1..Len(wire'),
                      wire'[i].act = "REQUESTED", Terminal(NewestIn(ledger', wire'[i].req))
               PROVE  \E j \in (i + 1)..Len(wire') :
                        wire'[j].req = wire'[i].req /\ Terminal(wire'[j].act)
    BY FollowsNext
  <2> DEFINE row == [req |-> r, act |-> act]
  <2>1. /\ act \in Actions /\ listening /\ wire' = Append(wire, row)
        /\ row \in Row /\ row.req = r /\ row.act = act
        /\ \A q : NewestIn(ledger', q) = IF q = r THEN act ELSE Latest(q)
    BY <1>1, InsertDoes, LatestNext DEF Inserts
  <2> HIDE DEF row
  <2>2. /\ Len(wire') = Len(wire) + 1
        /\ \A k \in 1..Len(wire) : wire'[k] = wire[k]
        /\ wire'[Len(wire) + 1] = row
    BY <1>w, <2>1, Appended
  <2>3. CASE wire'[i].req = r
    <3>1. Terminal(act)
      BY <2>1, <2>3
    <3>2. i # Len(wire) + 1
      BY <2>1, <2>2, <3>1, Rows
    <3>3. Len(wire) + 1 \in (i + 1)..Len(wire')
      BY <1>w, <2>2, <3>2
    <3> QED
      BY <2>1, <2>2, <2>3, <3>1, <3>3
  <2>4. CASE wire'[i].req # r
    <3>1. i \in 1..Len(wire)
      BY <1>w, <2>1, <2>2, <2>4
    <3>2. wire'[i] = wire[i] /\ Terminal(Latest(wire[i].req))
      BY <2>1, <2>2, <2>4, <3>1
    <3>3. PICK j \in (i + 1)..Len(wire) : wire[j].req = wire[i].req /\ Terminal(wire[j].act)
      BY <2>1, <3>1, <3>2 DEF AnswerFollows
    <3>4. j \in 1..Len(wire) /\ j \in (i + 1)..Len(wire')
      BY <1>w, <2>2, <3>1
    <3>5. wire'[j] = wire[j]
      BY <2>2, <3>4
    <3> QED
      BY <3>2, <3>3, <3>4, <3>5
  <2> QED
    BY <2>3, <2>4
<1>2. ASSUME wire # <<>>, wire' = Tail(wire), UNCHANGED <<ledger, listening>> PROVE Good
  <2> SUFFICES ASSUME listening, NEW i \in 1..Len(wire'),
                      wire'[i].act = "REQUESTED", Terminal(NewestIn(ledger', wire'[i].req))
               PROVE  \E j \in (i + 1)..Len(wire') :
                        wire'[j].req = wire'[i].req /\ Terminal(wire'[j].act)
    BY <1>2, FollowsNext
  <2>1. \A q : NewestIn(ledger', q) = Latest(q)
    BY <1>2 DEF Latest
  <2>2. /\ Len(wire') = Len(wire) - 1
        /\ \A k \in 1..Len(wire') : wire'[k] = wire[k + 1]
    BY <1>2, Heads
  <2>3. i + 1 \in 1..Len(wire) /\ wire'[i] = wire[i + 1]
    BY <1>w, <2>2
  <2>4. PICK j \in ((i + 1) + 1)..Len(wire) :
          wire[j].req = wire[i + 1].req /\ Terminal(wire[j].act)
    BY <2>1, <2>3 DEF AnswerFollows
  <2>5. j - 1 \in 1..Len(wire') /\ j - 1 \in (i + 1)..Len(wire') /\ (j - 1) + 1 = j
    BY <1>w, <2>2
  <2>6. wire'[j - 1] = wire[j]
    BY <2>2, <2>5
  <2> QED
    BY <2>3, <2>4, <2>5, <2>6
<1>3. ASSUME LoseConnection PROVE Good
  BY <1>3 DEF LoseConnection, AnswerFollows
<1>4. Receive \/ Park => wire # <<>> /\ wire' = Tail(wire) /\ UNCHANGED <<ledger, listening>>
  BY DEF Receive, Park, Handle
<1>5. \/ JobReads \/ \E r \in Requests : JobPushes(r)
      \/ \E row \in Row : Resume(row)
      \/ \E c \in Clients : Connect(c) \/ Consume(c) \/ Disconnect(c)
      \/ \E d \in Streams : \/ \E r \in Requests : OpenStream(d, r)
                            \/ Subscribe(d) \/ StreamNext(d) \/ CloseStream(d)
      \/ UNCHANGED vars
      => UNCHANGED <<ledger, wire, listening>>
  BY DEF JobReads, JobPushes, Resume, Handle, Connect, Consume, Disconnect, OpenStream,
         Subscribe, StreamNext, CloseStream, process, vars
<1> HIDE DEF Good
<1>a. Good
  BY <1>s, <1>1, <1>2, <1>3, <1>4, <1>5, Inserting DEF Next
<1> QED
  BY <1>a DEF Good

LEMMA AdvisersStep ==
    ASSUME TypeOK, ParkedAreAdvisers, [Next]_vars
    PROVE  ParkedAreAdvisers'
<1> DEFINE Good == ParkedAreAdvisers'
           Named(d) == stream'[d].pc # "off" => stream'[d].req \in Requests \ Adviser
<1>o. \A d \in Streams : stream[d].pc # "off" => stream[d].req \in Requests \ Adviser
  BY DEF ParkedAreAdvisers
<1>p. \A row \in parked : row.req \in Adviser
  BY DEF ParkedAreAdvisers
<1>g. ASSUME \A d \in Streams : Named(d), \A row \in parked' : row.req \in Adviser PROVE Good
  BY <1>g DEF ParkedAreAdvisers
<1>e. ASSUME NEW d \in Streams, Named(d), parked' = parked,
             \A e \in Streams : e # d => stream'[e] = stream[e]
      PROVE  Good
  BY <1>e, <1>g, <1>o, <1>p
<1>s. ASSUME UNCHANGED <<stream, parked>> PROVE Good
  BY <1>s, <1>g, <1>o, <1>p
<1>1. ASSUME NEW row \in Row, PushDevelopers(row), parked' \subseteq parked PROVE Good
  BY <1>1, <1>g, <1>o, <1>p, PushedStreams
<1>2. ASSUME Receive PROVE Good
  BY <1>1, <1>2, Heads DEF Receive, Handle
<1>3. ASSUME Park PROVE Good
  <2>1. /\ parked' = parked \cup {Head(wire)} /\ Head(wire).req \in Adviser
        /\ stream' = stream
    BY <1>3 DEF Park
  <2> QED
    BY <1>g, <1>o, <1>p, <2>1
<1>4. ASSUME NEW row \in Row, Resume(row) PROVE Good
  BY <1>1, <1>4 DEF Resume, Handle
<1>5. ASSUME NEW d \in Streams, NEW r \in Requests, OpenStream(d, r) PROVE Good
  BY <1>5, <1>e, OpenDoes DEF process
<1>6. ASSUME NEW d \in Streams, Subscribe(d) PROVE Good
  BY <1>6, <1>e, <1>o, SubscribeDoes DEF process
<1>7. ASSUME NEW d \in Streams, StreamNext(d) PROVE Good
  BY <1>7, <1>e, <1>o, NextDoes DEF process
<1>8. ASSUME NEW d \in Streams, CloseStream(d) PROVE Good
  <2>1. stream'[d].pc = "off" /\ parked' = parked
        /\ \A e \in Streams : e # d => stream'[e] = stream[e]
    BY <1>8, StreamRows DEF CloseStream, TypeOK, process
  <2> QED
    BY <1>e, <2>1
<1>9. \/ \E r \in Requests : Ask(r) \/ Resolve(r) \/ Revoke(r) \/ JobPushes(r)
      \/ JobReads \/ LoseConnection
      \/ \E c \in Clients : Connect(c) \/ Consume(c) \/ Disconnect(c)
      \/ UNCHANGED vars
      => UNCHANGED <<stream, parked>>
  BY DEF Ask, Resolve, Revoke, Insert, JobPushes, JobReads, LoseConnection, Connect, Consume,
         Disconnect, process, vars
<1> HIDE DEF Good
<1>a. Good
  BY <1>s, <1>2, <1>3, <1>4, <1>5, <1>6, <1>7, <1>8, <1>9 DEF Next
<1> QED
  BY <1>a DEF Good

LEMMA UntoldStep ==
    ASSUME TypeOK, LiveIsUntold, [Next]_vars
    PROVE  LiveIsUntold'
<1> DEFINE Good(d) == stream'[d].pc = "live" => ~Terminal(stream'[d].told)
<1> SUFFICES ASSUME NEW d \in Streams PROVE Good(d)
  BY DEF LiveIsUntold, Terminal
<1>s. ASSUME \/ stream'[d] = stream[d] \/ stream'[d].pc \in {"off", "opening"}
             \/ stream'[d].pc = stream[d].pc /\ stream'[d].told = stream[d].told
      PROVE  Good(d)
  BY <1>s DEF LiveIsUntold
<1>1. ASSUME NEW row \in Row, PushDevelopers(row) PROVE Good(d)
  BY <1>1, <1>s, PushedStreams
<1>2. ASSUME Receive PROVE Good(d)
  BY <1>1, <1>2, Heads DEF Receive, Handle
<1>3. ASSUME NEW row \in Row, Resume(row) PROVE Good(d)
  BY <1>1, <1>3 DEF Resume, Handle
<1>4. ASSUME NEW e \in Streams, NEW r \in Requests, OpenStream(e, r) PROVE Good(d)
  BY <1>4, <1>s, OpenDoes
<1>5. ASSUME NEW e \in Streams, Subscribe(e) PROVE Good(d)
  BY <1>5, <1>s, SubscribeDoes
<1>6. ASSUME NEW e \in Streams, StreamNext(e) PROVE Good(d)
  BY <1>6, <1>s, NextDoes
<1>7. ASSUME NEW e \in Streams, CloseStream(e) PROVE Good(d)
  BY <1>7, <1>s, StreamRows DEF CloseStream, TypeOK
<1>8. \/ \E r \in Requests : Ask(r) \/ Resolve(r) \/ Revoke(r) \/ JobPushes(r)
      \/ Park \/ JobReads \/ LoseConnection
      \/ \E c \in Clients : Connect(c) \/ Consume(c) \/ Disconnect(c)
      \/ UNCHANGED vars
      => UNCHANGED stream
  BY DEF Ask, Resolve, Revoke, Insert, JobPushes, Park, JobReads, LoseConnection, Connect,
         Consume, Disconnect, vars
<1> HIDE DEF Good
<1> QED
  BY <1>s, <1>2, <1>3, <1>4, <1>5, <1>6, <1>7, <1>8 DEF Next

-----------------------------------------------------------------------------
(* A developer's stream hears the answer. *)

Answers(rows, r) == \E w \in rows : w.req = r /\ Terminal(w.act)
Told(s, newest, rows, up) ==
    \/ s.pc \notin {"opening", "live"} \/ Terminal(s.told)
    \/ ~Terminal(newest)
    \/ Answers(rows, s.req) \/ Answers(RowsIn(s.queue), s.req)
    \/ s.gap \/ ~up

LEMMA ToldMeans ==
    /\ StreamHearsAnswer <=>
         \A d \in Streams : Told(stream[d], Latest(stream[d].req), RowsIn(wire), listening)
    /\ StreamHearsAnswer' <=>
         \A d \in Streams :
            Told(stream'[d], NewestIn(ledger', stream'[d].req), RowsIn(wire'), listening')
<1>1. StreamHearsAnswer <=>
        \A d \in Streams : Told(stream[d], Latest(stream[d].req), RowsIn(wire), listening)
  BY DEF StreamHearsAnswer, Told, Answers
<1>2. StreamHearsAnswer' <=>
         \A d \in Streams :
            Told(stream'[d], NewestIn(ledger', stream'[d].req), RowsIn(wire'), listening')
  BY DEF StreamHearsAnswer, Told, Answers, RowsIn, Latest, NewestIn, Terminal
<1> QED
  BY <1>1, <1>2

LEMMA StreamStep ==
    ASSUME TypeOK, ParkedAreAdvisers, LiveIsUntold, AnswerFollows, StreamHearsAnswer,
           [Next]_vars
    PROVE  StreamHearsAnswer'
<1> DEFINE Good(d) == Told(stream'[d], NewestIn(ledger', stream'[d].req), RowsIn(wire'), listening')
<1> SUFFICES ASSUME NEW d \in Streams PROVE Good(d)
  BY ToldMeans
<1>t. Told(stream[d], Latest(stream[d].req), RowsIn(wire), listening)
  BY ToldMeans
<1>o. stream[d].pc # "off" => stream[d].req \in Requests \ Adviser
  BY DEF ParkedAreAdvisers
<1>s. ASSUME UNCHANGED <<ledger, wire, listening>>, stream'[d] = stream[d] PROVE Good(d)
  BY <1>s, <1>t DEF Latest
<1>off. ASSUME stream'[d].pc \in {"off", "done"} PROVE Good(d)
  BY <1>off DEF Told
<1>1. ASSUME NEW r \in Requests, NEW act, Inserts(r, act) PROVE Good(d)
  <2> DEFINE row == [req |-> r, act |-> act]
  <2>1. /\ row \in Row /\ row.req = r /\ row.act = act /\ act \in Actions
        /\ \A q : NewestIn(ledger', q) = IF q = r THEN act ELSE Latest(q)
        /\ RowsIn(wire) \subseteq RowsIn(wire') /\ listening' = listening
        /\ listening => row \in RowsIn(wire')
        /\ stream' = stream
    BY <1>1, InsertDoes, LatestNext DEF Inserts
  <2> HIDE DEF row
  <2>2. \A q : Answers(RowsIn(wire), q) => Answers(RowsIn(wire'), q)
    BY <2>1 DEF Answers
  <2>3. CASE stream[d].req = r
    <3>1. listening /\ Terminal(act) => Answers(RowsIn(wire'), r)
      BY <2>1 DEF Answers
    <3> QED
      BY <2>1, <2>3, <3>1 DEF Told
  <2>4. CASE stream[d].req # r
    BY <1>t, <2>1, <2>2, <2>4 DEF Told
  <2> QED
    BY <2>3, <2>4
<1>h. ASSUME wire # <<>>, wire' = Tail(wire), stream[d].req # Head(wire).req,
             \A q : Answers(RowsIn(wire), q) <=>
                       (q = Head(wire).req /\ Terminal(Head(wire).act)) \/ Answers(RowsIn(wire'), q),
             stream'[d] = stream[d], UNCHANGED <<ledger, listening>>
      PROVE  Good(d)
  BY <1>h, <1>t DEF Told, Latest
<1>a. ASSUME wire # <<>>, wire' = Tail(wire)
      PROVE  \A q : Answers(RowsIn(wire), q) <=>
                       (q = Head(wire).req /\ Terminal(Head(wire).act)) \/ Answers(RowsIn(wire'), q)
  BY <1>a, Heads DEF Answers
<1>2. ASSUME Receive PROVE Good(d)
  <2> DEFINE row == Head(wire)
  <2>1. /\ wire # <<>> /\ wire' = Tail(wire) /\ PushDevelopers(row)
        /\ UNCHANGED <<ledger, listening>>
    BY <1>2 DEF Receive, Handle
  <2>2. /\ row \in Row /\ Len(wire) \in Nat \ {0} /\ row = wire[1] /\ Len(wire') = Len(wire) - 1
        /\ \A i \in 1..Len(wire') : wire'[i] = wire[i + 1]
        /\ wire' \in Seq(Row)
    BY <2>1, Heads
  <2>3. /\ stream'[d].pc = stream[d].pc /\ stream'[d].req = stream[d].req
        /\ stream[d].req # row.req => stream'[d] = stream[d]
        /\ stream[d].req = row.req /\ stream[d].pc = "live" => row \in RowsIn(stream'[d].queue)
        /\ stream[d].req = row.req /\ stream[d].pc = "opening" => stream'[d].gap
    BY <2>1, <2>2, PushedStreams
  <2>4. CASE stream[d].req # row.req
    BY <1>h, <1>a, <2>1, <2>3, <2>4
  <2>5. CASE stream[d].req = row.req /\ stream[d].pc # "live"
    BY <2>3, <2>5 DEF Told
  <2>6. CASE stream[d].req = row.req /\ stream[d].pc = "live"
    <3>1. row \in RowsIn(stream'[d].queue)
      BY <2>3, <2>6
    <3>2. CASE Terminal(row.act)
      <4>1. Answers(RowsIn(stream'[d].queue), stream'[d].req)
        BY <2>3, <2>6, <3>1, <3>2 DEF Answers
      <4> QED
        BY <4>1 DEF Told
    <3>3. CASE ~Terminal(row.act)
      <4> SUFFICES ASSUME listening, Terminal(Latest(row.req))
                   PROVE  Answers(RowsIn(wire'), row.req)
        BY <2>1, <2>3, <2>6 DEF Told, Latest
      <4>1. row.act = "REQUESTED" /\ 1 \in 1..Len(wire)
        BY <2>2, <3>3, Rows
      <4>2. PICK j \in (1 + 1)..Len(wire) : wire[j].req = wire[1].req /\ Terminal(wire[j].act)
        BY <2>2, <4>1 DEF AnswerFollows
      <4>3. j - 1 \in 1..Len(wire') /\ (j - 1) + 1 = j
        BY <2>2
      <4>4. wire'[j - 1] = wire[j] /\ DOMAIN wire' = 1..Len(wire')
        BY <2>2, <4>3, LenProperties
      <4>5. wire[j] \in RowsIn(wire')
        BY <4>3, <4>4 DEF RowsIn
      <4> QED
        BY <2>2, <4>2, <4>5 DEF Answers
    <3> QED
      BY <3>2, <3>3
  <2> QED
    BY <2>4, <2>5, <2>6
<1>3. ASSUME Park PROVE Good(d)
  <2>1. /\ wire # <<>> /\ wire' = Tail(wire) /\ Head(wire).req \in Adviser
        /\ UNCHANGED <<ledger, listening, stream>>
    BY <1>3 DEF Park
  <2>2. CASE stream[d].pc = "off"
    BY <1>off, <2>1, <2>2
  <2>3. CASE stream[d].pc # "off"
    BY <1>h, <1>a, <1>o, <2>1, <2>3
  <2> QED
    BY <2>2, <2>3
<1>4. ASSUME NEW row \in Row, Resume(row) PROVE Good(d)
  <2>1. row.req \in Adviser
    BY <1>4 DEF Resume, ParkedAreAdvisers
  <2>2. /\ stream'[d].pc = stream[d].pc
        /\ stream[d].req # row.req => stream'[d] = stream[d]
        /\ UNCHANGED <<ledger, wire, listening>>
    BY <1>4, PushedStreams DEF Resume, Handle
  <2> QED
    BY <1>s, <1>off, <1>o, <2>1, <2>2
<1>5. ASSUME LoseConnection PROVE Good(d)
  BY <1>5 DEF LoseConnection, Told
<1>6. ASSUME NEW e \in Streams, NEW r \in Requests, OpenStream(e, r) PROVE Good(d)
  <2>1. CASE e # d
    BY <1>6, <1>s, <2>1, OpenDoes DEF process
  <2>2. CASE e = d
    <3>1. stream'[d].told = Latest(r) /\ stream'[d].req = r /\ ledger' = ledger
      BY <1>6, <2>2, OpenDoes
    <3> QED
      BY <3>1 DEF Told, Latest
  <2> QED
    BY <2>1, <2>2
<1>7. ASSUME NEW e \in Streams, Subscribe(e) PROVE Good(d)
  <2>1. CASE e # d
    BY <1>7, <1>s, <2>1, SubscribeDoes DEF process
  <2>2. CASE e = d
    BY <1>7, <1>t, <2>2, SubscribeDoes DEF Told, process, Latest
  <2> QED
    BY <2>1, <2>2
<1>8. ASSUME NEW e \in Streams, StreamNext(e) PROVE Good(d)
  <2>1. CASE e # d
    BY <1>8, <1>s, <2>1, NextDoes DEF process
  <2>2. CASE e = d
    <3> DEFINE q == stream[d].queue
    <3>1. /\ stream[d].pc = "live" /\ stream'[d].told = Head(q).act
          /\ RowsIn(q) = {Head(q)} \cup RowsIn(Tail(q)) /\ stream'[d].queue = Tail(q)
          /\ stream'[d].req = stream[d].req /\ stream'[d].gap = stream[d].gap
          /\ UNCHANGED <<ledger, wire, listening>>
      BY <1>8, <2>2, NextDoes DEF process
    <3>2. CASE Terminal(Head(q).act)
      BY <3>1, <3>2 DEF Told
    <3>3. CASE ~Terminal(Head(q).act)
      <4>1. Answers(RowsIn(q), stream[d].req) => Answers(RowsIn(Tail(q)), stream[d].req)
        BY <3>1, <3>3 DEF Answers
      <4>2. \/ Terminal(stream[d].told) \/ ~Terminal(Latest(stream[d].req))
            \/ Answers(RowsIn(wire), stream[d].req) \/ Answers(RowsIn(q), stream[d].req)
            \/ stream[d].gap \/ ~listening
        BY <1>t, <3>1 DEF Told
      <4>3. ~Terminal(stream[d].told)
        BY <3>1 DEF LiveIsUntold
      <4> QED
        BY <3>1, <4>1, <4>2, <4>3 DEF Told, Latest
    <3> QED
      BY <3>2, <3>3
  <2> QED
    BY <2>1, <2>2
<1>9. ASSUME NEW e \in Streams, CloseStream(e) PROVE Good(d)
  <2>1. /\ e = d => stream'[d].pc = "off"
        /\ e # d => stream'[d] = stream[d]
        /\ UNCHANGED <<ledger, wire, listening>>
    BY <1>9, StreamRows DEF CloseStream, TypeOK, process
  <2> QED
    BY <1>s, <1>off, <2>1
<1>10. \/ JobReads \/ \E r \in Requests : JobPushes(r)
       \/ \E c \in Clients : Connect(c) \/ Consume(c) \/ Disconnect(c)
       \/ UNCHANGED vars
       => UNCHANGED <<ledger, wire, listening, stream>>
  BY DEF JobReads, JobPushes, Connect, Consume, Disconnect, process, vars
<1> HIDE DEF Good
<1> QED
  BY <1>s, <1>1, <1>2, <1>3, <1>4, <1>5, <1>6, <1>7, <1>8, <1>9, <1>10, Inserting DEF Next

-----------------------------------------------------------------------------
(* A connected owner hears of every row. *)

(* The connection that takes an event has shown or skipped it, the others  *)
(* that are open know that it was taken.                                   *)
LEMMA ConsumeDoes ==
    ASSUME TypeOK, NEW e \in Clients, Consume(e), NEW c \in Clients
    PROVE  LET row == Head(queue)
           IN  /\ row \in Row
               /\ RowsIn(queue) = {row} \cup RowsIn(queue')
               /\ client'[c].on = client[c].on /\ client'[c].since = client[c].since
               /\ client[c].stolen \subseteq client'[c].stolen
               /\ client[c].skipped \subseteq client'[c].skipped
               /\ \A x \in Row : client[c].shown[x.req] = x.act => client'[c].shown[x.req] = x.act
               /\ client[c].on => \/ row \in client'[c].stolen \cup client'[c].skipped
                                  \/ client'[c].shown[row.req] = row.act
<1> DEFINE row == Head(queue)
           w == client[c]
           v == Took(w, row)
           u == Missed(w, row)
<1>1. queue \in Seq(Row) /\ queue # <<>> /\ queue' = Tail(queue)
  BY DEF Consume, TypeOK
<1>2. row \in Row /\ RowsIn(queue) = {row} \cup RowsIn(queue')
  BY <1>1, Tailed
<1>3. client'[c] = IF c = e THEN v ELSE u
  BY DEF Consume
<1>4. w \in ClientRow
  BY DEF TypeOK
<1> HIDE DEF row, w
<1>5. /\ v.on = w.on /\ v.stolen = w.stolen /\ v.since = w.since
      /\ w.skipped \subseteq v.skipped
      /\ v.shown[row.req] = row.act \/ row \in v.skipped
      /\ \A x \in Row : w.shown[x.req] = x.act => v.shown[x.req] = x.act
  BY <1>2, <1>4, TookDoes
<1>6. /\ u.on = w.on /\ u.shown = w.shown /\ u.since = w.since /\ u.skipped = w.skipped
      /\ u.stolen = IF w.on THEN w.stolen \cup {row} ELSE w.stolen
  BY <1>2, <1>4, MissedDoes
<1> HIDE DEF u, v
<1> QED
  BY <1>2, <1>3, <1>5, <1>6 DEF row, w

LEMMA LossStep ==
    ASSUME TypeOK, LossIsNoted, [Next]_vars
    PROVE  LossIsNoted' /\ (lossy => lossy')
<1> DEFINE Good == /\ ~listening' => lossy'
                   /\ \A c \in Clients : client'[c].on => made'
                   /\ lossy => lossy'
<1>o. /\ ~listening => lossy
      /\ \A c \in Clients : client[c].on => made
  BY DEF LossIsNoted
<1>s. ASSUME listening' = listening, lossy => lossy', made => made',
             \A c \in Clients : client'[c].on => client[c].on \/ made'
      PROVE  Good
  BY <1>o, <1>s
<1>1. ASSUME NEW row \in Row, PushOwner(row), listening' = listening PROVE Good
  BY <1>1, <1>s, PushedOwner
<1>2. ASSUME NEW r \in Requests, JobPushes(r) PROVE Good
  <2>1. [req |-> r, act |-> "REQUESTED"] \in Row
    BY Rows
  <2>2. CASE UNCHANGED owner
    BY <1>2, <1>s, <2>2 DEF JobPushes, owner
  <2> QED
    BY <1>1, <1>2, <2>1, <2>2 DEF JobPushes
<1>3. ASSUME Receive PROVE Good
  BY <1>1, <1>3, Heads DEF Receive, Handle
<1>4. ASSUME NEW row \in Row, Resume(row) PROVE Good
  BY <1>1, <1>4 DEF Resume, Handle
<1>5. ASSUME LoseConnection PROVE Good
  BY <1>5, <1>o DEF LoseConnection
<1>6. ASSUME NEW c \in Clients, Connect(c) PROVE Good
  BY <1>6, <1>s DEF Connect, process
<1>7. ASSUME NEW c \in Clients, Consume(c) PROVE Good
  <2>1. \A e \in Clients : client'[e].on = client[e].on
    BY <1>7, ConsumeDoes
  <2> QED
    BY <1>7, <1>s, <2>1 DEF Consume, process
<1>8. ASSUME NEW c \in Clients, Disconnect(c) PROVE Good
  BY <1>8, <1>s, ClientRows DEF Disconnect, TypeOK, process
<1>9. \/ \E r \in Requests : Ask(r) \/ Resolve(r) \/ Revoke(r)
      \/ Park \/ JobReads
      \/ \E d \in Streams : \/ \E r \in Requests : OpenStream(d, r)
                            \/ Subscribe(d) \/ StreamNext(d) \/ CloseStream(d)
      \/ UNCHANGED vars
      => UNCHANGED <<listening, lossy, made, client>>
  BY DEF Ask, Resolve, Revoke, Insert, Park, JobReads, OpenStream, Subscribe, StreamNext,
         CloseStream, process, owner, vars
<1>10. ASSUME UNCHANGED <<listening, lossy, made, client>> PROVE Good
  BY <1>10, <1>s
<1> HIDE DEF Good
<1>a. Good
  BY <1>2, <1>3, <1>4, <1>5, <1>6, <1>7, <1>8, <1>9, <1>10 DEF Next
<1> QED
  BY <1>a DEF Good, LossIsNoted

(* What a connection has of a row, or may still get. *)
Near(row, w) ==
    \/ row \in RowsIn(wire) \cup parked \cup RowsIn(queue)
    \/ w.shown[row.req] = row.act
    \/ row \in w.stolen \cup w.skipped

LEMMA NearMeans ==
    /\ ConnectedHears <=>
         \A c \in Clients : client[c].on /\ ~lossy =>
            \A i \in (client[c].since + 1)..Len(ledger) : Near(ledger[i], client[c])
    /\ ConnectedHears' <=>
         \A c \in Clients : client'[c].on /\ ~lossy' =>
            \A i \in (client'[c].since + 1)..Len(ledger') :
                \/ ledger'[i] \in RowsIn(wire') \cup parked' \cup RowsIn(queue')
                \/ client'[c].shown[ledger'[i].req] = ledger'[i].act
                \/ ledger'[i] \in client'[c].stolen \cup client'[c].skipped
BY DEF ConnectedHears, Near, RowsIn

LEMMA ConnectedStep ==
    ASSUME TypeOK, LossIsNoted, ConnectedHears, [Next]_vars
    PROVE  ConnectedHears'
<1> DEFINE NearNext(row, w) == \/ row \in RowsIn(wire') \cup parked' \cup RowsIn(queue')
                               \/ w.shown[row.req] = row.act
                               \/ row \in w.stolen \cup w.skipped
           Good(c) == client'[c].on /\ ~lossy' =>
                        \A i \in (client'[c].since + 1)..Len(ledger') : NearNext(ledger'[i], client'[c])
<1> SUFFICES ASSUME NEW c \in Clients PROVE Good(c)
  BY NearMeans
<1>n. client[c].on /\ ~lossy =>
        \A i \in (client[c].since + 1)..Len(ledger) : Near(ledger[i], client[c])
  BY NearMeans
<1>l. /\ lossy => lossy'
      /\ client[c].on => made
      /\ ~listening => lossy
  BY LossStep DEF LossIsNoted
<1>c. /\ client[c] \in ClientRow /\ client[c].since \in Nat
      /\ Len(ledger) \in Nat /\ \A i \in 1..Len(ledger) : ledger[i] \in Row
  BY ClientRows, LenProperties, ElementOfSeq DEF TypeOK
<1>k. ASSUME ledger' = ledger, client'[c].on => client[c].on, client'[c].since = client[c].since,
             client[c].on /\ ~lossy' =>
                \A row \in Row : Near(row, client[c]) => NearNext(row, client'[c])
      PROVE  Good(c)
  <2> SUFFICES ASSUME client'[c].on, ~lossy', NEW i \in (client[c].since + 1)..Len(ledger)
               PROVE  NearNext(ledger[i], client'[c])
    BY <1>k
  <2>1. Near(ledger[i], client[c])
    BY <1>k, <1>l, <1>n
  <2>2. ledger[i] \in Row
    BY <1>c
  <2> QED
    BY <1>k, <2>1, <2>2
<1>s. ASSUME UNCHANGED <<ledger, wire, parked, queue>>, client'[c] = client[c] PROVE Good(c)
  BY <1>k, <1>s DEF Near
<1>1. ASSUME NEW r \in Requests, NEW act, Inserts(r, act) PROVE Good(c)
  <2> SUFFICES ASSUME client'[c].on, ~lossy',
                      NEW i \in (client'[c].since + 1)..Len(ledger')
               PROVE  NearNext(ledger'[i], client'[c])
    OBVIOUS
  <2> DEFINE row == [req |-> r, act |-> act]
  <2>1. /\ Len(ledger') = Len(ledger) + 1
        /\ \A k \in 1..Len(ledger) : ledger'[k] = ledger[k]
        /\ ledger'[Len(ledger) + 1] = row
        /\ RowsIn(wire) \subseteq RowsIn(wire') /\ (listening => row \in RowsIn(wire'))
        /\ UNCHANGED <<parked, queue, lossy, client>>
    BY <1>1, InsertDoes DEF Inserts, owner
  <2> HIDE DEF row
  <2>2. CASE i = Len(ledger) + 1
    BY <1>l, <2>1, <2>2
  <2>3. CASE i # Len(ledger) + 1
    <3>1. i \in 1..Len(ledger) /\ i \in (client[c].since + 1)..Len(ledger)
      BY <1>c, <2>1, <2>3
    <3>2. Near(ledger[i], client[c])
      BY <1>n, <2>1, <3>1
    <3> QED
      BY <2>1, <3>1, <3>2 DEF Near
  <2> QED
    BY <2>2, <2>3
<1>p. ASSUME NEW row \in Row, PushOwner(row), ledger' = ledger,
             RowsIn(wire) \cup parked \subseteq RowsIn(wire') \cup parked' \cup {row}
      PROVE  Good(c)
  <2>1. client' = client /\ (made /\ ~lossy' => RowsIn(queue') = RowsIn(queue) \cup {row})
    BY <1>p, PushedOwner
  <2> QED
    BY <1>k, <1>l, <1>p, <2>1 DEF Near
<1>2. ASSUME NEW r \in Requests, JobPushes(r) PROVE Good(c)
  <2>1. [req |-> r, act |-> "REQUESTED"] \in Row
    BY Rows
  <2>2. CASE UNCHANGED owner
    BY <1>2, <1>s, <2>2 DEF JobPushes, owner
  <2> QED
    BY <1>p, <1>2, <2>1, <2>2 DEF JobPushes
<1>3. ASSUME Receive PROVE Good(c)
  <2>1. /\ wire # <<>> /\ wire' = Tail(wire) /\ PushOwner(Head(wire))
        /\ ledger' = ledger /\ parked' = parked
    BY <1>3 DEF Receive, Handle
  <2>2. Head(wire) \in Row /\ RowsIn(wire) = {Head(wire)} \cup RowsIn(wire')
    BY <2>1, Heads
  <2> QED
    BY <1>p, <2>1, <2>2
<1>4. ASSUME NEW row \in Row, Resume(row) PROVE Good(c)
  <2>1. PushOwner(row) /\ ledger' = ledger /\ wire' = wire /\ parked' = parked \ {row}
    BY <1>4 DEF Resume, Handle
  <2> QED
    BY <1>p, <2>1
<1>5. ASSUME Park PROVE Good(c)
  <2>1. /\ wire # <<>> /\ wire' = Tail(wire) /\ parked' = parked \cup {Head(wire)}
        /\ UNCHANGED <<ledger, queue, client>>
    BY <1>5 DEF Park, owner
  <2>2. RowsIn(wire) = {Head(wire)} \cup RowsIn(wire')
    BY <2>1, Heads
  <2> QED
    BY <1>k, <2>1, <2>2 DEF Near
<1>6. ASSUME LoseConnection PROVE Good(c)
  BY <1>6 DEF LoseConnection
<1>7. ASSUME NEW e \in Clients, Connect(e) PROVE Good(c)
  <2>1. PICK n \in 0..Len(ledger) :
          client' = [client EXCEPT ![e] =
            [on |-> TRUE, stolen |-> {}, skipped |-> {}, since |-> Len(ledger),
             shown |-> [r \in Requests |-> NewestIn(SubSeq(ledger, n + 1, Len(ledger)), r)]]]
    BY <1>7 DEF Connect
  <2>2. UNCHANGED <<ledger, wire, parked, queue>>
    BY <1>7 DEF Connect, process
  <2>3. CASE e # c
    BY <1>s, <2>1, <2>2, <2>3 DEF TypeOK
  <2>4. CASE e = c
    <3>1. client'[c].since = Len(ledger)
      BY <2>1, <2>4 DEF TypeOK
    <3>2. (client'[c].since + 1)..Len(ledger') = {}
      BY <1>c, <2>2, <3>1
    <3> QED
      BY <3>2
  <2> QED
    BY <2>3, <2>4
<1>8. ASSUME NEW e \in Clients, Consume(e) PROVE Good(c)
  <2>1. UNCHANGED <<ledger, wire, parked>>
    BY <1>8 DEF Consume, process
  <2> QED
    BY <1>k, <1>8, <2>1, ConsumeDoes DEF Near
<1>9. ASSUME NEW e \in Clients, Disconnect(e) PROVE Good(c)
  <2>1. /\ e = c => client'[c].on = FALSE
        /\ e # c => client'[c] = client[c]
        /\ UNCHANGED <<ledger, wire, parked, queue>>
    BY <1>9, ClientRows DEF Disconnect, TypeOK, process
  <2> QED
    BY <1>s, <2>1
<1>10. \/ JobReads
       \/ \E d \in Streams : \/ \E r \in Requests : OpenStream(d, r)
                             \/ Subscribe(d) \/ StreamNext(d) \/ CloseStream(d)
       \/ UNCHANGED vars
       => UNCHANGED <<ledger, wire, parked, queue, client>>
  BY DEF JobReads, OpenStream, Subscribe, StreamNext, CloseStream, process, owner, vars
<1> HIDE DEF Good
<1> QED
  BY <1>s, <1>1, <1>2, <1>3, <1>4, <1>5, <1>6, <1>7, <1>8, <1>9, <1>10, Inserting DEF Next

-----------------------------------------------------------------------------
(* The invariant and what it implies. *)

LEMMA InitSafety == ASSUME Init PROVE SafetyInv
<1>1. TypeOK
  BY TypeInit
<1>2. /\ \A c \in Clients : client[c].on = FALSE
      /\ \A d \in Streams : stream[d].pc = "off"
      /\ wire = <<>> /\ parked = {} /\ listening = TRUE
  BY ClientRows, StreamRows DEF Init
<1>3. ParkedAreAdvisers /\ LiveIsUntold /\ LossIsNoted /\ StreamHearsAnswer /\ ConnectedHears
  BY <1>2 DEF ParkedAreAdvisers, LiveIsUntold, LossIsNoted, StreamHearsAnswer, ConnectedHears
<1>4. 1..Len(wire) = {}
  BY <1>2, Emptied
<1>5. AnswerFollows
  BY <1>4 DEF AnswerFollows
<1> QED
  BY <1>1, <1>3, <1>5 DEF SafetyInv

LEMMA SafetyStep == ASSUME SafetyInv, [Next]_vars PROVE SafetyInv'
BY TypeStep, AdvisersStep, UntoldStep, FollowsStep, LossStep, StreamStep, ConnectedStep
   DEF SafetyInv

LEMMA SafetyAlways == Spec => []SafetyInv
<1>1. Init => SafetyInv
  BY InitSafety
<1>2. SafetyInv /\ [Next]_vars => SafetyInv'
  BY SafetyStep
<1> QED
  BY <1>1, <1>2, PTL DEF Spec

(* Rows and connections have their types, and neither the owner's queue    *)
(* nor a developer's ever outgrows its limit.                              *)
THEOREM TypeCorrect == Spec => []TypeOK
<1>1. SafetyInv => TypeOK
  BY DEF SafetyInv
<1> QED
  BY <1>1, SafetyAlways, PTL

(* However many streams there are and however small their queues, one that *)
(* is open on an answered request has the answer in its queue or on its    *)
(* way: events that make room for others are never the last answer.        *)
THEOREM HearsAnswer == Spec => []StreamHearsAnswer
<1>1. SafetyInv => StreamHearsAnswer
  BY DEF SafetyInv
<1> QED
  BY <1>1, SafetyAlways, PTL

(* However many connections of the owner share the queue, every row        *)
(* recorded since one of them opened is on its way to it, shown as it is,  *)
(* was taken by another, or skipped by it because it had shown the request *)
(* already, unless the queue overflowed or the listener broke.             *)
THEOREM Connected == Spec => []ConnectedHears
<1>1. SafetyInv => ConnectedHears
  BY DEF SafetyInv
<1> QED
  BY <1>1, SafetyAlways, PTL

=============================================================================
