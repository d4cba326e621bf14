--------------------- MODULE AdvisorRelationshipProofs ---------------------
(* Proofs about AdvisorRelationship, for every set of investors, scopes,   *)
(* requests and handlers and every number of failing transactions.         *)
EXTENDS AdvisorRelationship, FiniteSetTheorems, TLAPS

(* The rows that the steps write are rows of their tables. *)
LEMMA RequestRows ==
    /\ Unasked \in RequestRow
    /\ \A row \in RequestRow, st \in Answers, out \in BOOLEAN :
         /\ [row EXCEPT !.last = st] \in RequestRow
         /\ [row EXCEPT !.last = st, !.timedOut = out] \in RequestRow
    /\ \A i \in Investors, s \in Scopes, b \in BOOLEAN :
         [inv |-> i, scope |-> s, last |-> "REQUESTED", timedOut |-> FALSE, invited |-> b]
           \in RequestRow
  BY DEF RequestRow, Unasked, Row

LEMMA GrantRows ==
    /\ NoGrant \in GrantRow
    /\ \A row \in GrantRow : /\ [row EXCEPT !.st = "revoked"] \in GrantRow
                             /\ [row EXCEPT !.st = "expired"] \in GrantRow
    /\ \A r \in Requests : [st |-> "active", req |-> r] \in GrantRow
  BY DEF GrantRow, NoGrant

LEMMA RelRows ==
    /\ NoRel \in RelRow
    /\ \A row \in RelRow, st \in Statuses : [row EXCEPT !.status = st] \in RelRow
    /\ \A r \in Requests : [status |-> "request_pending", last |-> r] \in RelRow
  BY DEF RelRow, NoRel, Statuses

LEMMA RunRows ==
    /\ Idle \in RunRow
    /\ \A i \in Investors, r \in Requests, act \in Answers :
         [Idle EXCEPT !.pc = "syncing", !.inv = i, !.req = r, !.act = act] \in RunRow
    /\ \A i \in Investors : [Idle EXCEPT !.pc = "inviting", !.inv = i] \in RunRow
    /\ \A row \in RunRow : [row EXCEPT !.stale = TRUE] \in RunRow
    /\ \A row \in RunRow, st \in Statuses :
         [row EXCEPT !.pc = "writing", !.next = st] \in RunRow
    /\ \A row \in RunRow, r \in Requests :
         [row EXCEPT !.pc = "accepting", !.req = r] \in RunRow
    /\ \A i \in Investors, last \in Requests \cup {NoRequest}, cut \in SUBSET Scopes :
         [Idle EXCEPT !.pc = "disconnecting", !.inv = i, !.req = last, !.cut = cut] \in RunRow
    /\ \A i \in Investors, st \in {"sharing", "unsharing"} :
         [Idle EXCEPT !.pc = st, !.inv = i] \in RunRow
<1> USE DEF RunRow, Idle
<1>1. Idle \in RunRow
  BY DEF Statuses
<1>2. \A i \in Investors, r \in Requests, act \in Answers :
         [Idle EXCEPT !.pc = "syncing", !.inv = i, !.req = r, !.act = act] \in RunRow
  BY DEF Statuses
<1>3. \A i \in Investors : [Idle EXCEPT !.pc = "inviting", !.inv = i] \in RunRow
  BY DEF Statuses
<1>4. \A row \in RunRow : [row EXCEPT !.stale = TRUE] \in RunRow
  OBVIOUS
<1>5. \A row \in RunRow, st \in Statuses :
         [row EXCEPT !.pc = "writing", !.next = st] \in RunRow
  OBVIOUS
<1>6. \A row \in RunRow, r \in Requests :
         [row EXCEPT !.pc = "accepting", !.req = r] \in RunRow
  OBVIOUS
<1>7. \A i \in Investors, last \in Requests \cup {NoRequest}, cut \in SUBSET Scopes :
         [Idle EXCEPT !.pc = "disconnecting", !.inv = i, !.req = last, !.cut = cut] \in RunRow
  BY DEF Statuses
<1>8. \A i \in Investors, st \in {"sharing", "unsharing"} :
         [Idle EXCEPT !.pc = st, !.inv = i] \in RunRow
  BY DEF Statuses
<1> HIDE DEF RunRow, Idle
<1> QED
  BY <1>1, <1>2, <1>3, <1>4, <1>5, <1>6, <1>7, <1>8

(* The fields of a row have their types. *)
LEMMA RowFields ==
    /\ \A row \in RequestRow :
         /\ row.inv \in Investors \cup {NoInvestor} /\ row.scope \in Scopes \cup {"none"}
         /\ row.last \in Row /\ row.timedOut \in BOOLEAN /\ row.invited \in BOOLEAN
    /\ \A row \in GrantRow : row.req \in Requests \cup {NoRequest}
    /\ \A row \in RelRow : row.status \in Statuses /\ row.last \in Requests \cup {NoRequest}
    /\ \A row \in RunRow :
         /\ row.inv \in Investors \cup {NoInvestor} /\ row.req \in Requests \cup {NoRequest}
         /\ row.act \in Answers \cup {"none"} /\ row.next \in Statuses
         /\ row.cut \in SUBSET Scopes /\ row.stale \in BOOLEAN
  BY DEF RequestRow, GrantRow, RelRow, RunRow

LEMMA Rows ==
    ASSUME TypeOK
    PROVE  /\ \A r \in Requests : req[r] \in RequestRow
           /\ \A i \in Investors : rel[i] \in RelRow /\ share[i] \in Shares
           /\ \A i \in Investors, s \in Scopes : grant[i][s] \in GrantRow
           /\ \A h \in Handlers : run[h] \in RunRow
  BY DEF TypeOK

-----------------------------------------------------------------------------
(* What the moves of handlers do to their rows. *)

(* A handler that keeps its step may only have been overtaken. *)
Kept(k) ==
    /\ run'[k].pc = run[k].pc /\ run'[k].inv = run[k].inv
    /\ run'[k].next = run[k].next /\ run'[k].act = run[k].act
    /\ run'[k].cut = run[k].cut /\ run'[k].req = run[k].req
    /\ run[k].stale => run'[k].stale

MarkedAt(k, i, steps) == run[k].pc \in steps /\ run[k].inv = i => run'[k].stale
Marked(k, i) == MarkedAt(k, i, {"writing"})

LEMMA MovesRow ==
    ASSUME TypeOK, NEW h \in Handlers, NEW state \in RunRow, RunMoves(h, state)
    PROVE  /\ run' \in [Handlers -> RunRow]
           /\ run'[h] = state
           /\ \A k \in Handlers \ {h} : run'[k] = run[k] /\ Kept(k)
  BY DEF TypeOK, RunMoves, Kept

LEMMA StaleRow ==
    ASSUME TypeOK, NEW i, NEW steps
    PROVE  LET over == Overtaken(i, steps) IN
           /\ over \in [Handlers -> RunRow]
           /\ \A k \in Handlers :
                /\ over[k].pc = run[k].pc /\ over[k].inv = run[k].inv
                /\ over[k].next = run[k].next /\ over[k].act = run[k].act
                /\ over[k].cut = run[k].cut /\ over[k].req = run[k].req
                /\ run[k].stale => over[k].stale
                /\ run[k].pc \in steps /\ run[k].inv = i => over[k].stale
<1>1. \A k \in Handlers : run[k] \in RunRow /\ [run[k] EXCEPT !.stale = TRUE] \in RunRow
  BY Rows, RunRows
<1>2. \A k \in Handlers : LET row == [run[k] EXCEPT !.stale = TRUE] IN
        /\ row.pc = run[k].pc /\ row.inv = run[k].inv /\ row.next = run[k].next
        /\ row.act = run[k].act /\ row.cut = run[k].cut /\ row.req = run[k].req /\ row.stale
  BY <1>1 DEF RunRow
<1> QED
  BY <1>1, <1>2 DEF Overtaken

LEMMA StalesRows ==
    ASSUME TypeOK, NEW i, run' = Stales(i)
    PROVE  /\ run' \in [Handlers -> RunRow]
           /\ \A k \in Handlers : Kept(k) /\ Marked(k, i)
<1> DEFINE steps == {"writing"}
<1> HIDE DEF steps
<1>1. run' = Overtaken(i, steps)
  BY DEF Stales, steps
<1>2. /\ run' \in [Handlers -> RunRow]
      /\ \A k \in Handlers : Kept(k) /\ MarkedAt(k, i, steps)
  BY <1>1, StaleRow DEF Kept, MarkedAt
<1> QED
  BY <1>2 DEF Marked, steps

LEMMA OvertakenMoves ==
    ASSUME TypeOK, NEW i, NEW steps, NEW h \in Handlers, NEW state \in RunRow,
           run' = [Overtaken(i, steps) EXCEPT ![h] = state]
    PROVE  /\ run' \in [Handlers -> RunRow]
           /\ run'[h] = state
           /\ \A k \in Handlers \ {h} : Kept(k) /\ MarkedAt(k, i, steps)
  BY StaleRow DEF Kept, MarkedAt

LEMMA StalesMoves ==
    ASSUME TypeOK, NEW i, NEW h \in Handlers, NEW state \in RunRow,
           run' = [Stales(i) EXCEPT ![h] = state]
    PROVE  /\ run' \in [Handlers -> RunRow]
           /\ run'[h] = state
           /\ \A k \in Handlers \ {h} : Kept(k) /\ Marked(k, i)
  BY OvertakenMoves DEF Stales, Marked

-----------------------------------------------------------------------------
(* What the steps that write rows do to the tables. *)

(* A row of a request of investor i about one of the investor's scopes. *)
LEMMA InsertRows ==
    ASSUME TypeOK, NEW h \in Handlers, NEW r \in Requests, NEW s \in Scopes,
           NEW act \in Answers, req[r].inv \in Investors, Insert(h, r, s, act)
    PROVE  /\ req' \in [Requests -> RequestRow]
           /\ head' \in [Investors -> [Scopes -> Row]]
           /\ grant' \in [Investors -> [Scopes -> GrantRow]]
           /\ \A q \in Requests : req'[q].inv = req[q].inv /\ req'[q].scope = req[q].scope
                                    /\ req'[q].invited = req[q].invited
           /\ \A q \in Requests \ {r} : req'[q] = req[q]
           /\ \A i \in Investors \ {req[r].inv} : grant'[i] = grant[i]
           /\ \A i \in Investors, t \in Scopes : grant'[i][t].st = "active" =>
                \/ grant'[i][t] = grant[i][t]
                \/ i = req[r].inv /\ grant'[i][t].req = r
           /\ act # "CONSENT_GRANTED" => \A i \in Investors, t \in Scopes :
                grant'[i][t].st = "active" => grant[i][t].st = "active"
<1> DEFINE i == req[r].inv
<1>1. req[r] \in RequestRow
  BY Rows
<1> DEFINE row == [req[r] EXCEPT !.last = act, !.timedOut = @ \/ act = "TIMEOUT"]
<1>2. /\ row \in RequestRow
      /\ row.inv = req[r].inv /\ row.scope = req[r].scope /\ row.invited = req[r].invited
  BY <1>1 DEF RequestRow, Row
<1>3. req' = [req EXCEPT ![r] = row]
  BY <1>1 DEF Insert, TypeOK, RequestRow
<1> HIDE DEF row
<1>4. /\ req' \in [Requests -> RequestRow]
      /\ \A q \in Requests : req'[q].inv = req[q].inv /\ req'[q].scope = req[q].scope
                               /\ req'[q].invited = req[q].invited
      /\ \A q \in Requests \ {r} : req'[q] = req[q]
  BY <1>2, <1>3 DEF TypeOK
<1>5. head' \in [Investors -> [Scopes -> Row]]
  BY DEF Insert, TypeOK, Row
<1>6. CASE act = "CONSENT_GRANTED"
  <2>1. grant' = [grant EXCEPT ![i][s] = [st |-> "active", req |-> r]]
    BY <1>6 DEF Insert
  <2>2. grant' \in [Investors -> [Scopes -> GrantRow]]
    BY <2>1, GrantRows DEF TypeOK
  <2>3. /\ \A j \in Investors \ {i} : grant'[j] = grant[j]
        /\ \A t \in Scopes \ {s} : grant'[i][t] = grant[i][t]
        /\ grant'[i][s].req = r
    BY <2>1 DEF TypeOK
  <2> QED
    BY <1>4, <1>5, <1>6, <2>2, <2>3
<1>7. CASE act = "REVOKED"
  <2>1. grant' = [grant EXCEPT ![i][s].st = "revoked"]
    BY <1>7 DEF Insert
  <2>2. grant[i][s] \in GrantRow /\ [grant[i][s] EXCEPT !.st = "revoked"] \in GrantRow
    BY Rows, GrantRows
  <2>3. /\ grant' \in [Investors -> [Scopes -> GrantRow]]
        /\ \A j \in Investors \ {i} : grant'[j] = grant[j]
        /\ \A t \in Scopes \ {s} : grant'[i][t] = grant[i][t]
        /\ grant'[i][s] = [grant[i][s] EXCEPT !.st = "revoked"]
    BY <2>1, <2>2 DEF TypeOK
  <2>4. grant'[i][s].st = "revoked"
    BY <2>2, <2>3 DEF GrantRow
  <2> QED
    BY <1>4, <1>5, <2>3, <2>4
<1>8. CASE act \notin {"CONSENT_GRANTED", "REVOKED"}
  <2>1. grant' = grant
    BY <1>8 DEF Insert
  <2> QED
    BY <1>4, <1>5, <2>1 DEF TypeOK
<1> QED
  BY <1>6, <1>7, <1>8

(* New requests of an investor, and the relationship that remembers one. *)
LEMMA CreateRows ==
    ASSUME TypeOK, NEW i \in Investors, NEW A \in SUBSET Requests, NEW asked \in [A -> Scopes],
           NEW b \in BOOLEAN, Create(i, asked, b)
    PROVE  /\ req' \in [Requests -> RequestRow]
           /\ head' \in [Investors -> [Scopes -> Row]]
           /\ rel' \in [Investors -> RelRow]
           /\ \A q \in A : /\ req'[q].inv = i /\ req'[q].scope \in Scopes
                           /\ req'[q].invited = b
           /\ \A q \in Requests \ A : req'[q] = req[q]
           /\ rel'[i].status = "request_pending" /\ rel'[i].last \in A
           /\ \A j \in Investors \ {i} : rel'[j] = rel[j]
           /\ profile /\ UNCHANGED <<profile, grant, share, invite, faults>>
<1>1. DOMAIN asked = A /\ \A r \in A : asked[r] \in Scopes
  OBVIOUS
<1>2. req' = [r \in Requests |->
                 IF r \in A
                   THEN [inv |-> i, scope |-> asked[r], last |-> "REQUESTED",
                         timedOut |-> FALSE, invited |-> b]
                   ELSE req[r]]
  BY <1>1 DEF Create
<1>3. req' \in [Requests -> RequestRow]
  BY <1>1, <1>2, Rows, RequestRows
<1>4. \A q \in A : req'[q].inv = i /\ req'[q].scope \in Scopes /\ req'[q].invited = b
  BY <1>1, <1>2
<1>5. \A q \in Requests \ A : req'[q] = req[q]
  BY <1>2
<1>6. head' \in [Investors -> [Scopes -> Row]]
  <2>1. head' = [head EXCEPT ![i] =
                  [s \in Scopes |-> IF \E r \in DOMAIN asked : asked[r] = s
                                      THEN "REQUESTED" ELSE @[s]]]
    BY DEF Create
  <2> QED
    BY <2>1 DEF TypeOK, Row
<1>7. PICK r \in A : rel' = [rel EXCEPT ![i] = [status |-> "request_pending", last |-> r]]
  BY <1>1 DEF Create
<1>8. rel' \in [Investors -> RelRow]
  BY <1>7, RelRows DEF TypeOK
<1>9. /\ rel'[i].status = "request_pending" /\ rel'[i].last \in A
      /\ \A j \in Investors \ {i} : rel'[j] = rel[j]
  BY <1>7 DEF TypeOK
<1>10. profile /\ UNCHANGED <<profile, grant, share, invite, faults>>
  BY DEF Create
<1> QED
  BY <1>3, <1>4, <1>5, <1>6, <1>8, <1>9, <1>10

(* Revoking some scopes of an investor, in rows that carry one request. *)
LEMMA RevokeScopesRows ==
    ASSUME TypeOK, NEW i \in Investors, NEW cut, NEW last, RevokeScopes(i, cut, last)
    PROVE  /\ req' \in [Requests -> RequestRow]
           /\ head' \in [Investors -> [Scopes -> Row]]
           /\ grant' \in [Investors -> [Scopes -> GrantRow]]
           /\ \A q \in Requests : req'[q].inv = req[q].inv /\ req'[q].scope = req[q].scope
                                    /\ req'[q].invited = req[q].invited
           /\ \A q \in Requests \ {last} : req'[q] = req[q]
           /\ \A j \in Investors \ {i} : grant'[j] = grant[j]
           /\ \A s \in Scopes : grant'[i][s].st = "active" =>
                s \notin cut /\ grant'[i][s] = grant[i][s]
<1>1. \A r \in Requests : /\ [req[r] EXCEPT !.last = "REVOKED"] \in RequestRow
                          /\ [req[r] EXCEPT !.last = "REVOKED"].inv = req[r].inv
                          /\ [req[r] EXCEPT !.last = "REVOKED"].scope = req[r].scope
                          /\ [req[r] EXCEPT !.last = "REVOKED"].invited = req[r].invited
  BY Rows DEF RequestRow, Row, Answers
<1>2. \/ req' = req
      \/ req' = [req EXCEPT ![last] = [req[last] EXCEPT !.last = "REVOKED"]]
  BY DEF RevokeScopes, TypeOK
<1>3. /\ req' \in [Requests -> RequestRow]
      /\ \A q \in Requests : req'[q].inv = req[q].inv /\ req'[q].scope = req[q].scope
                               /\ req'[q].invited = req[q].invited
      /\ \A q \in Requests \ {last} : req'[q] = req[q]
  <2> DEFINE r == last
             row == [req[r] EXCEPT !.last = "REVOKED"]
  <2>1. CASE req' = req
    BY <2>1 DEF TypeOK
  <2>2. CASE r \in Requests /\ req' = [req EXCEPT ![r] = row]
    <3> HIDE DEF r, row
    <3>1. row \in RequestRow /\ row.inv = req[r].inv /\ row.scope = req[r].scope
          /\ row.invited = req[r].invited
      BY <1>1, <2>2 DEF row
    <3>2. /\ req' \in [Requests -> RequestRow]
          /\ req'[r] = row /\ \A q \in Requests \ {r} : req'[q] = req[q]
      BY <2>2, <3>1 DEF TypeOK
    <3> QED
      BY <3>1, <3>2 DEF r
  <2>3. CASE r \notin Requests /\ req' = [req EXCEPT ![r] = row]
    <3> HIDE DEF r, row
    <3>1. req' = req
      BY <2>3 DEF TypeOK
    <3> QED
      BY <3>1 DEF TypeOK
  <2> QED
    BY <1>2, <2>1, <2>2, <2>3
<1>4. head' \in [Investors -> [Scopes -> Row]]
  BY DEF RevokeScopes, TypeOK, Row, Answers
<1>5. \A s \in Scopes : /\ [grant[i][s] EXCEPT !.st = "revoked"] \in GrantRow
                        /\ [grant[i][s] EXCEPT !.st = "revoked"].st = "revoked"
  BY Rows DEF GrantRow
<1>6. grant' = [grant EXCEPT ![i] = [s \in Scopes |-> IF s \in cut
                   THEN [grant[i][s] EXCEPT !.st = "revoked"] ELSE grant[i][s]]]
  BY DEF RevokeScopes
<1>7. /\ grant' \in [Investors -> [Scopes -> GrantRow]]
      /\ \A j \in Investors \ {i} : grant'[j] = grant[j]
      /\ \A s \in Scopes : grant'[i][s].st = "active" =>
           s \notin cut /\ grant'[i][s] = grant[i][s]
  BY <1>5, <1>6 DEF TypeOK
<1> QED
  BY <1>3, <1>4, <1>7

(* Deleting the profile: rows of the live relationships, and nothing left  *)
(* of the adviser's tables.                                                *)
LEMMA DeleteRows ==
    ASSUME TypeOK, DeleteProfile
    PROVE  /\ req' \in [Requests -> RequestRow]
           /\ head' \in [Investors -> [Scopes -> Row]]
           /\ grant' \in [Investors -> [Scopes -> GrantRow]]
           /\ rel' = [i \in Investors |-> NoRel]
           /\ share' = [i \in Investors |-> "none"]
           /\ invite' \in InviteRow /\ invite'.status = "expired"
           /\ invite'.raced = invite.raced
           /\ \A q \in Requests : req'[q].inv = req[q].inv /\ req'[q].scope = req[q].scope
                                    /\ req'[q].invited = req[q].invited
           /\ \A q \in Requests : req'[q] = req[q] \/ \E i \in Investors : rel[i].last = q
           /\ \A i \in Investors, s \in Scopes : grant'[i][s].st = "active"
                => grant'[i][s] = grant[i][s]
           /\ profile' = FALSE /\ UNCHANGED <<run, drift, faults>>
<1>0. PICK alive \in SUBSET Investors, cut \in [Investors -> SUBSET Scopes] :
        /\ req' = [r \in Requests |->
                     IF \E i \in alive : cut[i] # {} /\ rel[i].last = r
                       THEN [req[r] EXCEPT !.last = "REVOKED"] ELSE req[r]]
        /\ head' = [i \in Investors |-> [s \in Scopes |->
                     IF s \in cut[i] THEN "REVOKED" ELSE head[i][s]]]
        /\ grant' = [i \in Investors |-> [s \in Scopes |->
                      IF s \in cut[i] THEN [grant[i][s] EXCEPT !.st = "revoked"]
                      ELSE grant[i][s]]]
  <2> DEFINE alive == {i \in Investors : rel[i].status \in {"approved", "request_pending"}}
             cut == [i \in Investors |-> IF i \in alive THEN ActiveScopes(i) ELSE {}]
  <2>1. alive \in SUBSET Investors /\ cut \in [Investors -> SUBSET Scopes]
    BY DEF ActiveScopes
  <2> QED
    BY <2>1 DEF DeleteProfile
<1>1. \A r \in Requests : /\ [req[r] EXCEPT !.last = "REVOKED"] \in RequestRow
                          /\ [req[r] EXCEPT !.last = "REVOKED"].inv = req[r].inv
                          /\ [req[r] EXCEPT !.last = "REVOKED"].scope = req[r].scope
                          /\ [req[r] EXCEPT !.last = "REVOKED"].invited = req[r].invited
  BY Rows DEF RequestRow, Row, Answers
<1>2. /\ req' \in [Requests -> RequestRow]
      /\ \A q \in Requests : req'[q].inv = req[q].inv /\ req'[q].scope = req[q].scope
                               /\ req'[q].invited = req[q].invited
      /\ \A q \in Requests : req'[q] = req[q] \/ \E i \in Investors : rel[i].last = q
  BY <1>0, <1>1, Rows
<1>3. head' \in [Investors -> [Scopes -> Row]]
  BY <1>0 DEF TypeOK, Row, Answers
<1>4. \A i \in Investors, s \in Scopes :
        /\ [grant[i][s] EXCEPT !.st = "revoked"] \in GrantRow
        /\ [grant[i][s] EXCEPT !.st = "revoked"].st = "revoked"
  BY Rows DEF GrantRow
<1>5. /\ grant' \in [Investors -> [Scopes -> GrantRow]]
      /\ \A i \in Investors, s \in Scopes : grant'[i][s].st = "active"
           => grant'[i][s] = grant[i][s]
  BY <1>0, <1>4, Rows
<1>6. invite' \in InviteRow /\ invite'.status = "expired" /\ invite'.raced = invite.raced
  BY DEF DeleteProfile, TypeOK, InviteRow
<1>7. /\ rel' = [i \in Investors |-> NoRel]
      /\ share' = [i \in Investors |-> "none"]
      /\ profile' = FALSE /\ UNCHANGED <<run, drift, faults>>
  BY DEF DeleteProfile
<1> QED
  BY <1>2, <1>3, <1>5, <1>6, <1>7

LEMMA ShareRows ==
    ASSUME TypeOK, NEW i \in Investors
    PROVE  /\ Materialize(i) => /\ share' \in [Investors -> Shares]
                                /\ \A j \in Investors \ {i} : share'[j] = share[j]
           /\ \A status \in {"revoked", "expired"} : EndShare(i, status) =>
                /\ share' \in [Investors -> Shares] /\ share'[i] # "active"
                /\ \A j \in Investors \ {i} : share'[j] = share[j]
  BY DEF TypeOK, Materialize, EndShare, Shares

-----------------------------------------------------------------------------
(* The steps of the system, by what they do to the tables. *)

(* The reads of a disconnection and of the switch of the share. *)
Looks(h, i) == DisconnectRead(h, i) \/ \E enabled \in BOOLEAN : SetPickShareRead(h, i, enabled)

Event(h) == \E r \in Requests, s \in Scopes, act \in Answers :
    req[r].inv \in Investors /\ run[h].pc = "idle" /\ Insert(h, r, s, act)

Creates(i, b) == \E A \in SUBSET Requests : \E asked \in [A -> Scopes] :
    (\A r \in A : Fresh(r)) /\ Create(i, asked, b)

LEMMA AnswerEvent ==
    ASSUME TypeOK, RowsOfInvestor, NEW h \in Handlers, NEW r \in Requests,
           TimeOut(h, r) \/ \E act \in Answers : Answer(h, r, act)
    PROVE  Event(h)
<1>1. CASE TimeOut(h, r)
  <2>1. req[r].inv \in Investors
    BY <1>1, Rows, RowFields DEF TimeOut
  <2>2. req[r].scope \in Scopes
    BY <2>1 DEF RowsOfInvestor
  <2>3. run[h].pc = "idle" /\ Insert(h, r, req[r].scope, "TIMEOUT") /\ "TIMEOUT" \in Answers
    BY <1>1 DEF TimeOut, Answers
  <2> QED
    BY <2>1, <2>2, <2>3 DEF Event
<1>2. ASSUME NEW act \in Answers, Answer(h, r, act) PROVE Event(h)
  <2>1. run[h].pc = "idle" /\ req[r].last # "none" /\ Insert(h, r, req[r].scope, act)
    BY <1>2 DEF Answer
  <2>2. req[r].inv \in Investors /\ req[r].scope \in Scopes
    BY <2>1 DEF RowsOfInvestor
  <2> QED
    BY <2>1, <2>2 DEF Event
<1> QED
  BY <1>1, <1>2

LEMMA RevokeEvent ==
    ASSUME TypeOK, RowsOfInvestor, NEW h \in Handlers, NEW i \in Investors, NEW s \in Scopes,
           Revoke(h, i, s)
    PROVE  Event(h)
<1>1. grant[i][s].st = "active"
  BY DEF Revoke, ActiveScopes
<1>2. grant[i][s].req \in Requests /\ req[grant[i][s].req].inv \in Investors
  BY <1>1 DEF RowsOfInvestor
<1>3. run[h].pc = "idle" /\ Insert(h, grant[i][s].req, s, "REVOKED") /\ "REVOKED" \in Answers
  BY DEF Revoke, Answers
<1> QED
  BY <1>2, <1>3 DEF Event

LEMMA AskCreates ==
    ASSUME NEW i \in Investors, Ask(i)
    PROVE  Creates(i, FALSE) /\ run' = Stales(i) /\ UNCHANGED drift
<1>1. PICK r1 \in Requests, r2 \in Requests, s1 \in Scopes, s2 \in Scopes :
        /\ Fresh(r1) /\ Fresh(r2)
        /\ r1 = r2 <=> s1 = s2
        /\ Create(i, [r \in {r1, r2} |-> IF r = r1 THEN s1 ELSE s2], FALSE)
  BY DEF Ask
<1> DEFINE A == {r1, r2}
           asked == [r \in {r1, r2} |-> IF r = r1 THEN s1 ELSE s2]
<1>2. A \in SUBSET Requests /\ asked \in [A -> Scopes] /\ \A r \in A : Fresh(r)
  BY <1>1
<1>3. Create(i, asked, FALSE)
  BY <1>1
<1> HIDE DEF A, asked
<1>4. Creates(i, FALSE)
  BY <1>2, <1>3 DEF Creates
<1> QED
  BY <1>4 DEF Ask

(* Every step is one of these; answers, revocations and time-outs write a  *)
(* row of a request of an investor.                                        *)
LEMMA Steps ==
    ASSUME TypeOK, RowsOfInvestor, [Next]_vars
    PROVE  \/ UNCHANGED vars
           \/ \E h \in Handlers :
                \/ Event(h) \/ SyncRead(h) \/ SyncWrite(h) \/ SyncFails(h)
                \/ \E i \in Investors : InviteRead(h, i)
                \/ InviteAsk(h) \/ InviteAccept(h) \/ InviteFails(h)
                \/ \E i \in Investors : Looks(h, i)
                \/ DisconnectWrite(h) \/ SetPickShareWrite(h)
           \/ \E i \in Investors : Ask(i) \/ \E s \in Scopes : Expire(i, s)
           \/ DeleteProfile \/ InviteExpires
  BY AnswerEvent, RevokeEvent DEF Next, Looks

(* What an event leaves behind. *)
LEMMA EventRows ==
    ASSUME TypeOK, NEW h \in Handlers, Event(h)
    PROVE  \E r \in Requests :
           LET i == req[r].inv IN
           /\ run[h].pc = "idle" /\ i \in Investors
           /\ req' \in [Requests -> RequestRow]
           /\ head' \in [Investors -> [Scopes -> Row]]
           /\ grant' \in [Investors -> [Scopes -> GrantRow]]
           /\ run' \in [Handlers -> RunRow]
           /\ \A q \in Requests : req'[q].inv = req[q].inv /\ req'[q].scope = req[q].scope
                                    /\ req'[q].invited = req[q].invited
           /\ \A q \in Requests \ {r} : req'[q] = req[q]
           /\ \A j \in Investors \ {i} : grant'[j] = grant[j]
           /\ \A j \in Investors, t \in Scopes : grant'[j][t].st = "active" =>
                \/ grant'[j][t] = grant[j][t]
                \/ j = i /\ grant'[j][t].req = r
           /\ run'[h].pc = "syncing" /\ run'[h].inv = i
           /\ \A k \in Handlers \ {h} : Kept(k) /\ Marked(k, i)
           /\ \/ \A k \in Handlers \ {h} : MarkedAt(k, i, {"disconnecting"})
              \/ \A j \in Investors, t \in Scopes :
                   grant'[j][t].st = "active" => grant[j][t].st = "active"
           /\ UNCHANGED <<profile, rel, share, invite, drift, faults>>
<1>1. PICK r \in Requests, s \in Scopes, act \in Answers :
        req[r].inv \in Investors /\ run[h].pc = "idle" /\ Insert(h, r, s, act)
  BY DEF Event
<1> DEFINE i == req[r].inv
           state == [Idle EXCEPT !.pc = "syncing", !.inv = i, !.req = r, !.act = act]
<1>2. state \in RunRow /\ state.pc = "syncing" /\ state.inv = i
  BY <1>1, RunRows DEF Idle
<1> DEFINE steps == IF act = "CONSENT_GRANTED" THEN {"writing", "disconnecting"} ELSE {"writing"}
<1>3. /\ run' = [Overtaken(i, steps) EXCEPT ![h] = state]
      /\ UNCHANGED <<profile, rel, share, invite, drift, faults>>
  BY <1>1 DEF Insert
<1> HIDE DEF state, steps
<1>4. /\ run' \in [Handlers -> RunRow] /\ run'[h] = state
      /\ \A k \in Handlers \ {h} : Kept(k) /\ MarkedAt(k, i, steps)
  BY <1>2, <1>3, OvertakenMoves
<1>m. /\ \A k \in Handlers \ {h} : Marked(k, i)
      /\ act = "CONSENT_GRANTED" => \A k \in Handlers \ {h} : MarkedAt(k, i, {"disconnecting"})
  BY <1>4 DEF Marked, MarkedAt, steps
<1>5. /\ req' \in [Requests -> RequestRow]
      /\ head' \in [Investors -> [Scopes -> Row]]
      /\ grant' \in [Investors -> [Scopes -> GrantRow]]
      /\ \A q \in Requests : req'[q].inv = req[q].inv /\ req'[q].scope = req[q].scope
                               /\ req'[q].invited = req[q].invited
      /\ \A q \in Requests \ {r} : req'[q] = req[q]
      /\ \A j \in Investors \ {i} : grant'[j] = grant[j]
      /\ \A j \in Investors, t \in Scopes : grant'[j][t].st = "active" =>
           \/ grant'[j][t] = grant[j][t]
           \/ j = i /\ grant'[j][t].req = r
      /\ act # "CONSENT_GRANTED" => \A j \in Investors, t \in Scopes :
           grant'[j][t].st = "active" => grant[j][t].st = "active"
  BY <1>1, InsertRows
<1> QED
  BY <1>1, <1>2, <1>3, <1>4, <1>5, <1>m

(* What creating requests leaves behind. *)
LEMMA CreatesRows ==
    ASSUME TypeOK, NEW i \in Investors, NEW b \in BOOLEAN, Creates(i, b)
    PROVE  \E A \in SUBSET Requests :
           /\ \A r \in A : req[r] = Unasked
           /\ req' \in [Requests -> RequestRow]
           /\ head' \in [Investors -> [Scopes -> Row]]
           /\ rel' \in [Investors -> RelRow]
           /\ \A q \in A : /\ req'[q].inv = i /\ req'[q].scope \in Scopes
                           /\ req'[q].invited = b
           /\ \A q \in Requests \ A : req'[q] = req[q]
           /\ rel'[i].status = "request_pending" /\ rel'[i].last \in A
           /\ \A j \in Investors \ {i} : rel'[j] = rel[j]
           /\ profile /\ UNCHANGED <<profile, grant, share, invite, faults>>
<1>0. PICK A \in SUBSET Requests :
        \E asked \in [A -> Scopes] : (\A r \in A : Fresh(r)) /\ Create(i, asked, b)
  BY DEF Creates
<1>1. PICK asked \in [A -> Scopes] : (\A r \in A : Fresh(r)) /\ Create(i, asked, b)
  BY <1>0
<1>2. \A r \in A : req[r] = Unasked
  BY <1>1 DEF Fresh
<1>3. /\ req' \in [Requests -> RequestRow]
      /\ head' \in [Investors -> [Scopes -> Row]]
      /\ rel' \in [Investors -> RelRow]
      /\ \A q \in A : /\ req'[q].inv = i /\ req'[q].scope \in Scopes
                      /\ req'[q].invited = b
      /\ \A q \in Requests \ A : req'[q] = req[q]
      /\ rel'[i].status = "request_pending" /\ rel'[i].last \in A
      /\ \A j \in Investors \ {i} : rel'[j] = rel[j]
      /\ profile /\ UNCHANGED <<profile, grant, share, invite, faults>>
  BY <1>1, CreateRows
<1> QED
  BY <1>2, <1>3

LEMMA InviteAskRows ==
    ASSUME TypeOK, RunHasInvestor, NEW h \in Handlers, InviteAsk(h)
    PROVE  LET i == run[h].inv IN
           /\ i \in Investors /\ run[h].pc = "inviting" /\ UNCHANGED drift
           /\ Creates(i, TRUE)
           /\ run' \in [Handlers -> RunRow]
           /\ run'[h].pc = "accepting" /\ run'[h].inv = i
           /\ \A k \in Handlers \ {h} : Kept(k) /\ Marked(k, i)
           /\ \E r \in Requests : /\ req[r] = Unasked
                                  /\ \A q \in Requests \ {r} : req'[q] = req[q]
<1> DEFINE i == run[h].inv
<1>1. PICK r \in Requests, s \in Scopes :
        /\ Fresh(r) /\ Create(i, [q \in {r} |-> s], TRUE)
        /\ run' = [Stales(i) EXCEPT ![h] = [run[h] EXCEPT !.pc = "accepting", !.req = r]]
  BY DEF InviteAsk
<1>2. run[h].pc = "inviting" /\ i \in Investors /\ UNCHANGED drift
  BY DEF InviteAsk, RunHasInvestor
<1> DEFINE A == {r}
           asked == [q \in {r} |-> s]
           state == [run[h] EXCEPT !.pc = "accepting", !.req = r]
<1>3. A \in SUBSET Requests /\ asked \in [A -> Scopes] /\ \A q \in A : Fresh(q)
  BY <1>1
<1>4. Create(i, asked, TRUE)
  BY <1>1
<1>5. run[h] \in RunRow /\ state \in RunRow
  BY Rows, RunRows
<1>6. state.pc = "accepting" /\ state.inv = i
  BY <1>5 DEF RunRow
<1>7. run' = [Stales(i) EXCEPT ![h] = state]
  BY <1>1
<1>8. \A q \in Requests \ {r} : req'[q] = req[q]
  BY <1>4 DEF Create
<1> HIDE DEF A, asked, state
<1>9. Creates(i, TRUE)
  BY <1>3, <1>4 DEF Creates
<1>10. /\ run' \in [Handlers -> RunRow] /\ run'[h] = state
       /\ \A k \in Handlers \ {h} : Kept(k) /\ Marked(k, i)
  BY <1>5, <1>7, StalesMoves
<1> QED
  BY <1>1, <1>2, <1>6, <1>8, <1>9, <1>10 DEF Fresh

(* What the write of a synchronisation leaves behind. *)
LEMMA SyncWriteRows ==
    ASSUME TypeOK, RunHasInvestor, NEW h \in Handlers, SyncWrite(h)
    PROVE  LET i == run[h].inv
               next == run[h].next
           IN
           /\ run[h].pc = "writing" /\ i \in Investors
           /\ run' \in [Handlers -> RunRow] /\ run'[h] = Idle
           /\ \A k \in Handlers \ {h} : Kept(k)
           /\ next \in Closed => \A k \in Handlers \ {h} : MarkedAt(k, i, {"sharing"})
           /\ rel' \in [Investors -> RelRow]
           /\ \A j \in Investors \ {i} : rel'[j] = rel[j] /\ share'[j] = share[j]
           /\ rel[i].status = "none" => UNCHANGED <<rel, share>>
           /\ rel[i].status # "none" => rel'[i].status = next
           /\ rel'[i].last = rel[i].last
           /\ share' \in [Investors -> Shares]
           /\ rel[i].status # "none" /\ run[h].act # "CONSENT_GRANTED" => share'[i] # "active"
           /\ UNCHANGED <<profile, req, head, grant, invite, faults>>
<1> DEFINE i == run[h].inv
           next == run[h].next
           steps == IF next \in Closed THEN {"sharing"} ELSE {}
<1>1. run[h].pc = "writing" /\ i \in Investors
  BY DEF SyncWrite, RunHasInvestor
<1>2. run' = [Overtaken(i, steps) EXCEPT ![h] = Idle]
  BY DEF SyncWrite
<1> HIDE DEF steps
<1>3. /\ run' \in [Handlers -> RunRow] /\ run'[h] = Idle
      /\ \A k \in Handlers \ {h} : Kept(k) /\ MarkedAt(k, i, steps)
  BY <1>2, RunRows, OvertakenMoves
<1>4. next \in Closed => \A k \in Handlers \ {h} : MarkedAt(k, i, {"sharing"})
  BY <1>3 DEF steps
<1>5. run[h].next \in Statuses /\ rel[i] \in RelRow
  BY <1>1, Rows, RowFields
<1> DEFINE row == [rel[i] EXCEPT !.status = next]
<1>6. row \in RelRow /\ row.status = next /\ row.last = rel[i].last
  BY <1>5, RelRows DEF RelRow
<1>7. \/ rel[i].status = "none" /\ UNCHANGED <<rel, share>>
      \/ /\ rel[i].status # "none" /\ rel' = [rel EXCEPT ![i] = row]
         /\ \/ run[h].act = "CONSENT_GRANTED" /\ Materialize(i)
            \/ EndShare(i, "expired") \/ EndShare(i, "revoked")
  BY DEF SyncWrite
<1>8. UNCHANGED <<profile, req, head, grant, invite, faults>>
  BY DEF SyncWrite, ledger
<1>9. CASE rel[i].status = "none"
  BY <1>1, <1>3, <1>4, <1>7, <1>8, <1>9 DEF TypeOK
<1>10. CASE rel[i].status # "none"
  <2>1. \/ run[h].act = "CONSENT_GRANTED" /\ Materialize(i)
        \/ EndShare(i, "expired") \/ EndShare(i, "revoked")
    BY <1>7, <1>10
  <2>2. /\ share' \in [Investors -> Shares]
        /\ \A j \in Investors \ {i} : share'[j] = share[j]
        /\ run[h].act # "CONSENT_GRANTED" => share'[i] # "active"
    BY <1>1, <2>1, ShareRows
  <2> HIDE DEF row
  <2>3. rel' = [rel EXCEPT ![i] = row]
    BY <1>7, <1>10
  <2>4. /\ rel' \in [Investors -> RelRow] /\ rel'[i] = row
        /\ \A j \in Investors \ {i} : rel'[j] = rel[j]
    BY <1>1, <1>6, <2>3 DEF TypeOK
  <2> QED
    BY <1>1, <1>3, <1>4, <1>6, <1>8, <1>10, <2>2, <2>4
<1> QED
  BY <1>9, <1>10

(* The reads of a disconnection and of the switch of the share. *)
LEMMA LooksRows ==
    ASSUME TypeOK, NEW h \in Handlers, NEW i \in Investors, Looks(h, i)
    PROVE  /\ run[h].pc = "idle" /\ rel[i].status # "none"
           /\ run' \in [Handlers -> RunRow]
           /\ run'[h].pc \in {"disconnecting", "sharing", "unsharing"}
           /\ run'[h].inv = i
           /\ run'[h].pc = "disconnecting" =>
                run'[h].req = rel[i].last /\ run'[h].cut = ActiveScopes(i)
           /\ run'[h].pc = "sharing" => rel[i].status = "approved"
           /\ \A k \in Handlers \ {h} : run'[k] = run[k] /\ Kept(k)
           /\ UNCHANGED <<profile, req, head, grant, rel, share, invite, drift, faults>>
<1>1. CASE DisconnectRead(h, i)
  <2> DEFINE last == rel[i].last
             cut == ActiveScopes(i)
             state == [Idle EXCEPT !.pc = "disconnecting", !.inv = i, !.req = last, !.cut = cut]
  <2>1. last \in Requests \cup {NoRequest} /\ cut \in SUBSET Scopes
    BY Rows, RowFields DEF ActiveScopes
  <2> HIDE DEF last, cut
  <2>2. state \in RunRow /\ state.pc = "disconnecting" /\ state.inv = i
        /\ state.req = last /\ state.cut = cut
    BY <2>1, RunRows DEF Idle
  <2>3. RunMoves(h, state)
    BY <1>1 DEF DisconnectRead, last, cut
  <2> HIDE DEF state
  <2>4. /\ run' \in [Handlers -> RunRow] /\ run'[h] = state
        /\ \A k \in Handlers \ {h} : run'[k] = run[k] /\ Kept(k)
    BY <2>2, <2>3, MovesRow
  <2> QED
    BY <1>1, <2>2, <2>4 DEF DisconnectRead, ledger, last, cut
<1>2. ASSUME NEW enabled \in BOOLEAN, SetPickShareRead(h, i, enabled)
      PROVE  /\ run[h].pc = "idle" /\ rel[i].status = "approved"
             /\ run' \in [Handlers -> RunRow]
             /\ run'[h].pc \in {"sharing", "unsharing"} /\ run'[h].inv = i
             /\ \A k \in Handlers \ {h} : run'[k] = run[k] /\ Kept(k)
             /\ UNCHANGED <<profile, req, head, grant, rel, share, invite, drift, faults>>
  <2> DEFINE st == IF enabled THEN "sharing" ELSE "unsharing"
             state == [Idle EXCEPT !.pc = st, !.inv = i]
  <2>1. st \in {"sharing", "unsharing"}
    OBVIOUS
  <2>2. RunMoves(h, state)
    BY <1>2 DEF SetPickShareRead
  <2> HIDE DEF st
  <2>3. state \in RunRow /\ state.pc = st /\ state.inv = i
    BY <2>1, RunRows DEF Idle
  <2> HIDE DEF state
  <2>4. /\ run' \in [Handlers -> RunRow] /\ run'[h] = state
        /\ \A k \in Handlers \ {h} : run'[k] = run[k] /\ Kept(k)
    BY <2>2, <2>3, MovesRow
  <2> QED
    BY <1>2, <2>1, <2>3, <2>4 DEF SetPickShareRead, ledger
<1> QED
  BY <1>1, <1>2 DEF Looks

(* What the write of a disconnection leaves behind. *)
LEMMA DisconnectRows ==
    ASSUME TypeOK, RunHasInvestor, NEW h \in Handlers, DisconnectWrite(h)
    PROVE  LET i == run[h].inv IN
           /\ run[h].pc = "disconnecting" /\ i \in Investors
           /\ run' \in [Handlers -> RunRow] /\ run'[h] = Idle
           /\ \A k \in Handlers \ {h} : Kept(k) /\ Marked(k, i) /\ MarkedAt(k, i, {"sharing"})
           /\ req' \in [Requests -> RequestRow]
           /\ head' \in [Investors -> [Scopes -> Row]]
           /\ grant' \in [Investors -> [Scopes -> GrantRow]]
           /\ \A q \in Requests : req'[q].inv = req[q].inv /\ req'[q].scope = req[q].scope
                                    /\ req'[q].invited = req[q].invited
           /\ \A q \in Requests \ {run[h].req} : req'[q] = req[q]
           /\ \A j \in Investors \ {i} : grant'[j] = grant[j]
           /\ \A s \in Scopes : grant'[i][s].st = "active" =>
                s \notin run[h].cut /\ grant'[i][s] = grant[i][s]
           /\ rel' \in [Investors -> RelRow] /\ rel'[i].last = rel[i].last
           /\ rel[i].status = "none" => UNCHANGED <<rel, share>>
           /\ rel[i].status # "none" => rel'[i].status = "disconnected" /\ share'[i] # "active"
           /\ share' \in [Investors -> Shares]
           /\ \A j \in Investors \ {i} : rel'[j] = rel[j] /\ share'[j] = share[j]
           /\ drift' = IF run[h].stale THEN drift \cup {i} ELSE drift \ {i}
           /\ UNCHANGED <<profile, invite, faults>>
<1> DEFINE i == run[h].inv
           cut == run[h].cut
           last == run[h].req
           steps == {"writing", "sharing"}
           row == [rel[i] EXCEPT !.status = "disconnected"]
<1>1. run[h].pc = "disconnecting" /\ i \in Investors
  BY DEF DisconnectWrite, RunHasInvestor
<1>2. /\ run' = [Overtaken(i, steps) EXCEPT ![h] = Idle]
      /\ RevokeScopes(i, cut, last)
      /\ drift' = IF run[h].stale THEN drift \cup {i} ELSE drift \ {i}
      /\ UNCHANGED <<profile, invite, faults>>
      /\ \/ rel[i].status = "none" /\ UNCHANGED <<rel, share>>
         \/ rel[i].status # "none" /\ rel' = [rel EXCEPT ![i] = row] /\ EndShare(i, "revoked")
  BY DEF DisconnectWrite
<1>3. row \in RelRow /\ row.status = "disconnected" /\ row.last = rel[i].last
  <2>1. rel[i] \in RelRow /\ "disconnected" \in Statuses
    BY <1>1, Rows DEF Statuses
  <2> QED
    BY <2>1, RelRows DEF RelRow
<1> HIDE DEF steps, row, cut, last
<1>4. /\ run' \in [Handlers -> RunRow] /\ run'[h] = Idle
      /\ \A k \in Handlers \ {h} : Kept(k) /\ MarkedAt(k, i, steps)
  BY <1>2, RunRows, OvertakenMoves
<1>5. \A k \in Handlers \ {h} : Marked(k, i) /\ MarkedAt(k, i, {"sharing"})
  BY <1>4 DEF Marked, MarkedAt, steps
<1>6. /\ req' \in [Requests -> RequestRow]
      /\ head' \in [Investors -> [Scopes -> Row]]
      /\ grant' \in [Investors -> [Scopes -> GrantRow]]
      /\ \A q \in Requests : req'[q].inv = req[q].inv /\ req'[q].scope = req[q].scope
                               /\ req'[q].invited = req[q].invited
      /\ \A q \in Requests \ {last} : req'[q] = req[q]
      /\ \A j \in Investors \ {i} : grant'[j] = grant[j]
      /\ \A s \in Scopes : grant'[i][s].st = "active" =>
           s \notin cut /\ grant'[i][s] = grant[i][s]
  BY <1>1, <1>2, RevokeScopesRows
<1>7. /\ rel' \in [Investors -> RelRow] /\ rel'[i].last = rel[i].last
      /\ rel[i].status = "none" => UNCHANGED <<rel, share>>
      /\ rel[i].status # "none" => rel'[i].status = "disconnected" /\ share'[i] # "active"
      /\ share' \in [Investors -> Shares]
      /\ \A j \in Investors \ {i} : rel'[j] = rel[j] /\ share'[j] = share[j]
  <2>1. CASE rel[i].status = "none"
    BY <1>2, <2>1 DEF TypeOK
  <2>2. CASE rel[i].status # "none"
    <3>1. /\ share' \in [Investors -> Shares] /\ share'[i] # "active"
          /\ \A j \in Investors \ {i} : share'[j] = share[j]
      BY <1>1, <1>2, <2>2, ShareRows
    <3>2. /\ rel' \in [Investors -> RelRow] /\ rel'[i] = row
          /\ \A j \in Investors \ {i} : rel'[j] = rel[j]
      BY <1>1, <1>2, <1>3, <2>2 DEF TypeOK
    <3> QED
      BY <1>3, <2>2, <3>1, <3>2
  <2> QED
    BY <2>1, <2>2
<1> QED
  BY <1>1, <1>2, <1>4, <1>5, <1>6, <1>7 DEF cut, last

(* What the write of the switch leaves behind. *)
LEMMA PickRows ==
    ASSUME TypeOK, RunHasInvestor, NEW h \in Handlers, SetPickShareWrite(h)
    PROVE  LET i == run[h].inv IN
           /\ run[h].pc \in {"sharing", "unsharing"} /\ i \in Investors
           /\ run' \in [Handlers -> RunRow] /\ run'[h] = Idle
           /\ \A k \in Handlers \ {h} : Kept(k)
           /\ share' \in [Investors -> Shares]
           /\ rel[i].status = "none" => UNCHANGED share
           /\ run[h].pc = "unsharing" /\ rel[i].status # "none" => share'[i] # "active"
           /\ \A j \in Investors \ {i} : share'[j] = share[j]
           /\ drift' = IF run[h].pc = "sharing" /\ run[h].stale /\ rel[i].status \in Closed
                         THEN drift \cup {i} ELSE drift
           /\ UNCHANGED <<profile, req, head, grant, rel, invite, faults>>
<1> DEFINE i == run[h].inv
<1>1. run[h].pc \in {"sharing", "unsharing"} /\ i \in Investors
  BY DEF SetPickShareWrite, RunHasInvestor
<1>2. RunMoves(h, Idle)
  BY DEF SetPickShareWrite
<1>3. /\ run' \in [Handlers -> RunRow] /\ run'[h] = Idle
      /\ \A k \in Handlers \ {h} : Kept(k)
  BY <1>2, RunRows, MovesRow
<1>4. /\ share' \in [Investors -> Shares]
      /\ rel[i].status = "none" => UNCHANGED share
      /\ run[h].pc = "unsharing" /\ rel[i].status # "none" => share'[i] # "active"
      /\ \A j \in Investors \ {i} : share'[j] = share[j]
  <2>1. CASE rel[i].status = "none"
    BY <2>1 DEF SetPickShareWrite, TypeOK
  <2>2. CASE rel[i].status # "none"
    <3>1. IF run[h].pc = "sharing" THEN Materialize(i) ELSE EndShare(i, "revoked")
      BY <2>2 DEF SetPickShareWrite
    <3> QED
      BY <1>1, <2>2, <3>1, ShareRows
  <2> QED
    BY <2>1, <2>2
<1> QED
  BY <1>1, <1>3, <1>4 DEF SetPickShareWrite, ledger

-----------------------------------------------------------------------------
(* Each part of the invariant is preserved. *)

LEMMA TypeStep ==
    TypeOK /\ RowsOfInvestor /\ RunHasInvestor /\ [Next]_vars => TypeOK'
<1> SUFFICES ASSUME TypeOK, RowsOfInvestor, RunHasInvestor, [Next]_vars PROVE TypeOK'
  OBVIOUS
<1>idle. ASSUME NEW h \in Handlers, RunMoves(h, Idle) PROVE run' \in [Handlers -> RunRow]
  BY <1>idle, MovesRow, RunRows
<1>inv. \A h \in Handlers : run[h].pc # "idle" => run[h].inv \in Investors
  BY DEF RunHasInvestor
<1> USE DEF TypeOK, ledger
<1>1. CASE UNCHANGED vars
  BY <1>1 DEF vars
<1>2. ASSUME NEW h \in Handlers, Event(h) PROVE TypeOK'
  BY <1>2, EventRows
<1>3. ASSUME NEW h \in Handlers, SyncRead(h) PROVE TypeOK'
  <2> DEFINE next == NextStatus(run[h].inv, run[h].act)
             state == [run[h] EXCEPT !.pc = "writing", !.next = next]
  <2>1. next \in Statuses
    BY DEF NextStatus, Statuses
  <2>2. state \in RunRow
    BY <2>1, Rows, RunRows
  <2>3. RunMoves(h, state) \/ RunMoves(h, Idle)
    BY <1>3 DEF SyncRead
  <2>4. run' \in [Handlers -> RunRow]
    <3> HIDE DEF state
    <3> QED
      BY <2>2, <2>3, <1>idle, MovesRow
  <2>5. drift' \in SUBSET Investors
    BY <1>3, <1>inv DEF SyncRead
  <2> QED
    BY <1>3, <2>4, <2>5 DEF SyncRead
<1>4. ASSUME NEW h \in Handlers, SyncWrite(h) PROVE TypeOK'
  <2>1. run[h].inv \in Investors
    BY <1>4, <1>inv DEF SyncWrite
  <2>2. drift' \in SUBSET Investors
    BY <1>4, <2>1 DEF SyncWrite
  <2> QED
    BY <1>4, <2>2, SyncWriteRows
<1>5. ASSUME NEW h \in Handlers, SyncFails(h) PROVE TypeOK'
  <2>1. run' \in [Handlers -> RunRow]
    BY <1>5, <1>idle DEF SyncFails
  <2>2. faults' \in 0..MaxFaults
    BY <1>5, FaultAssumption DEF SyncFails
  <2> QED
    BY <1>5, <2>1, <2>2, <1>inv DEF SyncFails
<1>6. ASSUME NEW h \in Handlers, NEW i \in Investors, InviteRead(h, i) PROVE TypeOK'
  <2> DEFINE state == [Idle EXCEPT !.pc = "inviting", !.inv = i]
  <2>1. state \in RunRow
    BY RunRows
  <2>2. RunMoves(h, state)
    BY <1>6 DEF InviteRead, BeginAccept
  <2>3. run' \in [Handlers -> RunRow]
    <3> HIDE DEF state
    <3> QED
      BY <2>1, <2>2, MovesRow
  <2>4. invite' \in InviteRow
    BY <1>6 DEF InviteRead, BeginAccept, InviteRow
  <2> QED
    BY <1>6, <2>3, <2>4 DEF InviteRead, BeginAccept
<1>7. ASSUME NEW h \in Handlers, InviteAsk(h) PROVE TypeOK'
  <2>1. /\ req' \in [Requests -> RequestRow]
        /\ head' \in [Investors -> [Scopes -> Row]]
        /\ rel' \in [Investors -> RelRow]
        /\ UNCHANGED <<profile, grant, share, invite, faults>>
    BY <1>7, InviteAskRows, CreatesRows
  <2>2. run' \in [Handlers -> RunRow] /\ UNCHANGED drift
    BY <1>7, InviteAskRows
  <2> QED
    BY <2>1, <2>2
<1>8. ASSUME NEW h \in Handlers, InviteAccept(h) PROVE TypeOK'
  <2> DEFINE i == run[h].inv
  <2>1. i \in Investors /\ Materialize(i)
    BY <1>8, <1>inv DEF InviteAccept
  <2>2. share' \in [Investors -> Shares]
    BY <2>1, ShareRows
  <2>3. run' \in [Handlers -> RunRow]
    BY <1>8, <1>idle DEF InviteAccept
  <2>4. invite' \in InviteRow
    BY <1>8, <2>1 DEF InviteAccept, InviteRow
  <2> QED
    BY <1>8, <2>1, <2>2, <2>3, <2>4 DEF InviteAccept
<1>9. ASSUME NEW h \in Handlers, InviteFails(h) PROVE TypeOK'
  <2>1. run' \in [Handlers -> RunRow]
    BY <1>9, <1>idle DEF InviteFails
  <2>2. faults' \in 0..MaxFaults
    BY <1>9, FaultAssumption DEF InviteFails
  <2> QED
    BY <1>9, <2>1, <2>2 DEF InviteFails
<1>10. ASSUME NEW i \in Investors, Ask(i) PROVE TypeOK'
  <2>1. Creates(i, FALSE) /\ run' = Stales(i) /\ UNCHANGED drift
    BY <1>10, AskCreates
  <2>2. run' \in [Handlers -> RunRow]
    BY <2>1, StalesRows
  <2>3. /\ req' \in [Requests -> RequestRow]
        /\ head' \in [Investors -> [Scopes -> Row]]
        /\ rel' \in [Investors -> RelRow]
        /\ UNCHANGED <<profile, grant, share, invite, faults>>
    BY <2>1, CreatesRows
  <2> QED
    BY <2>1, <2>2, <2>3
<1>11. ASSUME NEW h \in Handlers, NEW i \in Investors, Looks(h, i) PROVE TypeOK'
  BY <1>11, LooksRows
<1>l. ASSUME NEW h \in Handlers, DisconnectWrite(h) PROVE TypeOK'
  <2>0. /\ run[h].inv \in Investors
        /\ drift' = IF run[h].stale THEN drift \cup {run[h].inv} ELSE drift \ {run[h].inv}
    BY <1>l, DisconnectRows
  <2>1. drift' \in SUBSET Investors
    BY <2>0
  <2> QED
    BY <1>l, <2>1, DisconnectRows
<1>12. ASSUME NEW i \in Investors, NEW s \in Scopes, Expire(i, s) PROVE TypeOK'
  <2>1. run' \in [Handlers -> RunRow]
    BY <1>12, StalesRows DEF Expire
  <2>2. [grant[i][s] EXCEPT !.st = "expired"] \in GrantRow
    BY Rows, GrantRows
  <2>3. grant' \in [Investors -> [Scopes -> GrantRow]]
    BY <1>12, <2>2 DEF Expire
  <2> QED
    BY <1>12, <2>1, <2>3 DEF Expire
<1>13. ASSUME NEW h \in Handlers, SetPickShareWrite(h) PROVE TypeOK'
  <2>1. drift' \in SUBSET Investors
    BY <1>13, PickRows
  <2> QED
    BY <1>13, <2>1, PickRows
<1>14. CASE DeleteProfile
  <2>1. rel' \in [Investors -> RelRow]
    BY <1>14, DeleteRows, RelRows
  <2>2. share' \in [Investors -> Shares]
    <3>1. share' = [i \in Investors |-> "none"]
      BY <1>14, DeleteRows
    <3> QED
      BY <3>1 DEF Shares
  <2> QED
    BY <1>14, <2>1, <2>2, DeleteRows
<1>15. CASE InviteExpires
  <2>1. invite' \in InviteRow
    BY <1>15 DEF InviteExpires, InviteRow
  <2> QED
    BY <1>15, <2>1 DEF InviteExpires
<1> HIDE DEF TypeOK, ledger
<1> QED
  BY <1>1, <1>2, <1>3, <1>4, <1>5, <1>6, <1>7, <1>8, <1>9, <1>10, <1>11, <1>12, <1>13,
     <1>14, <1>15, <1>l, Steps

LEMMA RowsStep ==
    TypeOK /\ RowsOfInvestor /\ RunHasInvestor /\ [Next]_vars => RowsOfInvestor'
<1> SUFFICES ASSUME TypeOK, RowsOfInvestor, RunHasInvestor, [Next]_vars PROVE RowsOfInvestor'
  OBVIOUS
<1> DEFINE ReqKept == \A q \in Requests :
              /\ req'[q].inv = req[q].inv /\ req'[q].scope = req[q].scope
              /\ req[q].inv \notin Investors => req'[q] = req[q]
           GrantKept == \A i \in Investors, s \in Scopes : grant'[i][s].st = "active" =>
              \/ grant'[i][s] = grant[i][s]
              \/ grant'[i][s].req \in Requests /\ req[grant'[i][s].req].inv = i
           RelKept == \A i \in Investors : rel'[i].last \in {rel[i].last, NoRequest}
<1>0. NoInvestor \notin Investors /\ NoRequest \notin Requests
  BY NoneAssumption
<1>1. ASSUME ReqKept, GrantKept, RelKept PROVE RowsOfInvestor'
  <2>1. \A r \in Requests : /\ req'[r].last # "none" => req'[r].inv \in Investors
                            /\ req'[r].inv \in Investors => req'[r].scope \in Scopes
    BY <1>1 DEF RowsOfInvestor
  <2>2. \A i \in Investors, s \in Scopes : grant'[i][s].st = "active" =>
           grant'[i][s].req \in Requests /\ req'[grant'[i][s].req].inv = i
    BY <1>1 DEF RowsOfInvestor
  <2>3. \A i \in Investors : rel'[i].last \in Requests => req'[rel'[i].last].inv = i
    BY <1>0, <1>1 DEF RowsOfInvestor
  <2> QED
    BY <2>1, <2>2, <2>3 DEF RowsOfInvestor
<1>r. ASSUME UNCHANGED req PROVE ReqKept
  BY <1>r
<1>g. ASSUME UNCHANGED grant PROVE GrantKept
  BY <1>g
<1>l. ASSUME UNCHANGED rel PROVE RelKept
  BY <1>l
<1>c. ASSUME NEW i \in Investors, NEW b \in BOOLEAN, Creates(i, b) PROVE RowsOfInvestor'
  <2>1. PICK A \in SUBSET Requests :
           /\ \A r \in A : req[r] = Unasked
           /\ \A q \in A : req'[q].inv = i /\ req'[q].scope \in Scopes
           /\ \A q \in Requests \ A : req'[q] = req[q]
           /\ rel'[i].last \in A
           /\ \A j \in Investors \ {i} : rel'[j] = rel[j]
           /\ UNCHANGED grant
    BY <1>c, CreatesRows
  <2>2. \A q \in Requests : req[q].inv \in Investors => req'[q] = req[q]
    BY <2>1, <1>0 DEF Unasked
  <2>3. \A r \in Requests : /\ req'[r].last # "none" => req'[r].inv \in Investors
                            /\ req'[r].inv \in Investors => req'[r].scope \in Scopes
    BY <2>1 DEF RowsOfInvestor
  <2>4. \A j \in Investors, s \in Scopes : grant'[j][s].st = "active" =>
           grant'[j][s].req \in Requests /\ req'[grant'[j][s].req].inv = j
    BY <2>1, <2>2 DEF RowsOfInvestor
  <2>5. \A j \in Investors : rel'[j].last \in Requests => req'[rel'[j].last].inv = j
    BY <2>1, <2>2 DEF RowsOfInvestor
  <2> QED
    BY <2>3, <2>4, <2>5 DEF RowsOfInvestor
<1> HIDE DEF ReqKept, GrantKept, RelKept
<1> USE DEF ledger
<1>u. ASSUME UNCHANGED <<req, grant>>, RelKept PROVE RowsOfInvestor'
  BY <1>u, <1>1, <1>r, <1>g
<1>2. CASE UNCHANGED vars
  BY <1>2, <1>u, <1>l DEF vars
<1>3. ASSUME NEW h \in Handlers, Event(h) PROVE RowsOfInvestor'
  <2>1. ReqKept
    BY <1>3, EventRows DEF ReqKept
  <2>2. GrantKept
    BY <1>3, EventRows DEF GrantKept
  <2>3. UNCHANGED rel
    BY <1>3, EventRows
  <2> QED
    BY <2>1, <2>2, <2>3, <1>1, <1>l
<1>4. ASSUME NEW h \in Handlers,
             SyncRead(h) \/ SyncFails(h) \/ InviteAccept(h) \/ InviteFails(h)
      PROVE  RowsOfInvestor'
  BY <1>4, <1>u, <1>l DEF SyncRead, SyncFails, InviteAccept, InviteFails
<1>5. ASSUME NEW h \in Handlers, SyncWrite(h) PROVE RowsOfInvestor'
  <2>1. RelKept
    BY <1>5, SyncWriteRows DEF RelKept
  <2> QED
    BY <1>5, <2>1, <1>u, SyncWriteRows
<1>6. ASSUME NEW h \in Handlers, NEW i \in Investors, InviteRead(h, i) PROVE RowsOfInvestor'
  BY <1>6, <1>u, <1>l DEF InviteRead, BeginAccept
<1>7. ASSUME NEW h \in Handlers, InviteAsk(h) PROVE RowsOfInvestor'
  BY <1>7, <1>c, InviteAskRows
<1>8. ASSUME NEW i \in Investors, Ask(i) PROVE RowsOfInvestor'
  BY <1>8, <1>c, AskCreates
<1>9. ASSUME NEW h \in Handlers, DisconnectWrite(h) PROVE RowsOfInvestor'
  <2>1. run[h].pc = "disconnecting" /\ run[h].req \in Requests =>
          req[run[h].req].inv \in Investors
    BY DEF RunHasInvestor
  <2>2. ReqKept
    BY <1>9, <2>1, DisconnectRows DEF ReqKept
  <2>3. GrantKept
    BY <1>9, DisconnectRows DEF GrantKept
  <2>4. RelKept
    BY <1>9, DisconnectRows DEF RelKept
  <2> QED
    BY <2>2, <2>3, <2>4, <1>1
<1>10. ASSUME NEW i \in Investors, NEW s \in Scopes, Expire(i, s) PROVE RowsOfInvestor'
  <2>1. [grant[i][s] EXCEPT !.st = "expired"].st = "expired"
    BY Rows DEF GrantRow
  <2>2. GrantKept
    BY <1>10, <2>1 DEF Expire, GrantKept, TypeOK
  <2> QED
    BY <1>10, <2>2, <1>1, <1>r, <1>l DEF Expire
<1>11. ASSUME NEW h \in Handlers, SetPickShareWrite(h) \/ \E i \in Investors : Looks(h, i)
       PROVE  RowsOfInvestor'
  BY <1>11, <1>u, <1>l, LooksRows, PickRows
<1>12. CASE DeleteProfile
  <2>1. ReqKept
    <3>1. \A q \in Requests : req'[q].inv = req[q].inv /\ req'[q].scope = req[q].scope
      BY <1>12, DeleteRows
    <3>2. \A q \in Requests : req'[q] = req[q] \/ \E i \in Investors : rel[i].last = q
      BY <1>12, DeleteRows
    <3> QED
      BY <3>1, <3>2 DEF ReqKept, RowsOfInvestor
  <2>2. GrantKept
    BY <1>12, DeleteRows DEF GrantKept
  <2>3. RelKept
    BY <1>12, DeleteRows DEF RelKept, NoRel
  <2> QED
    BY <2>1, <2>2, <2>3, <1>1
<1>13. CASE InviteExpires
  BY <1>13, <1>u, <1>l DEF InviteExpires
<1> HIDE DEF ledger
<1> QED
  BY <1>2, <1>3, <1>4, <1>5, <1>6, <1>7, <1>8, <1>9, <1>10, <1>11, <1>12, <1>13, Steps

(* A request that was asked stays the request of an investor. *)
LEMMA InvKept ==
    ASSUME TypeOK, RowsOfInvestor, RunHasInvestor, [Next]_vars
    PROVE  \A q \in Requests : req[q].inv \in Investors => req'[q].inv \in Investors
<1> DEFINE P == \A q \in Requests : req[q].inv \in Investors => req'[q].inv \in Investors
<1>c. ASSUME NEW i \in Investors, NEW b \in BOOLEAN, Creates(i, b) PROVE P
  <2>1. PICK A \in SUBSET Requests :
           /\ \A r \in A : req[r] = Unasked
           /\ \A q \in A : req'[q].inv = i /\ req'[q].scope \in Scopes
           /\ \A q \in Requests \ A : req'[q] = req[q]
           /\ rel'[i].last \in A
           /\ \A j \in Investors \ {i} : rel'[j] = rel[j]
           /\ UNCHANGED grant
    BY <1>c, CreatesRows
  <2> QED
    BY <2>1
<1>1. CASE UNCHANGED vars
  BY <1>1 DEF vars
<1>2. ASSUME NEW h \in Handlers, Event(h) \/ DisconnectWrite(h) PROVE P
  BY <1>2, EventRows, DisconnectRows
<1>3. ASSUME NEW h \in Handlers, SyncRead(h) \/ SyncFails(h) \/ InviteAccept(h) \/ InviteFails(h)
      PROVE  P
  BY <1>3 DEF SyncRead, SyncFails, InviteAccept, InviteFails, ledger
<1>4. ASSUME NEW h \in Handlers, SyncWrite(h) \/ SetPickShareWrite(h) PROVE P
  BY <1>4, SyncWriteRows, PickRows
<1>5. ASSUME NEW h \in Handlers, NEW i \in Investors, InviteRead(h, i) \/ Looks(h, i) PROVE P
  BY <1>5, LooksRows DEF InviteRead, BeginAccept, ledger
<1>6. ASSUME NEW h \in Handlers, InviteAsk(h) PROVE P
  BY <1>6, <1>c, InviteAskRows
<1>7. ASSUME NEW i \in Investors, Ask(i) PROVE P
  BY <1>7, <1>c, AskCreates
<1>8. ASSUME NEW i \in Investors, NEW s \in Scopes, Expire(i, s) PROVE P
  BY <1>8 DEF Expire
<1>9. CASE DeleteProfile
  BY <1>9, DeleteRows
<1>10. CASE InviteExpires
  BY <1>10 DEF InviteExpires, ledger
<1> QED
  BY <1>1, <1>2, <1>3, <1>4, <1>5, <1>6, <1>7, <1>8, <1>9, <1>10, Steps

(* The handlers' rows. *)
LEMMA RunStep ==
    TypeOK /\ RowsOfInvestor /\ RunHasInvestor /\ [Next]_vars => RunHasInvestor'
<1> SUFFICES ASSUME TypeOK, RowsOfInvestor, RunHasInvestor, [Next]_vars PROVE RunHasInvestor'
  OBVIOUS
<1> DEFINE Good(k) == /\ run'[k].pc # "idle" => run'[k].inv \in Investors
                      /\ run'[k].pc = "writing" => run'[k].next \notin {"none", "disconnected"}
                      /\ run'[k].pc = "disconnecting" /\ run'[k].req \in Requests =>
                           req'[run'[k].req].inv \in Investors
<1>0. \A q \in Requests : req[q].inv \in Investors => req'[q].inv \in Investors
  BY InvKept
<1>1. ASSUME \A k \in Handlers : Kept(k) \/ Good(k) PROVE RunHasInvestor'
  <2> SUFFICES \A k \in Handlers : Good(k)
    BY DEF RunHasInvestor
  <2> SUFFICES ASSUME NEW k \in Handlers, Kept(k) PROVE Good(k)
    BY <1>1
  <2> QED
    BY <1>0 DEF Kept, RunHasInvestor
<1> HIDE DEF Good
<1>u. ASSUME UNCHANGED run PROVE RunHasInvestor'
  BY <1>u, <1>1 DEF Kept
<1>m. ASSUME NEW h \in Handlers, NEW state \in RunRow, RunMoves(h, state),
             state.pc # "idle" => state.inv \in Investors,
             state.pc = "writing" => state.next \notin {"none", "disconnected"},
             state.pc # "disconnecting"
      PROVE  RunHasInvestor'
  BY <1>m, <1>1, MovesRow DEF Good
<1>t. ASSUME NEW h \in Handlers, run'[h].pc = "idle", \A k \in Handlers \ {h} : Kept(k)
      PROVE  RunHasInvestor'
  BY <1>t, <1>1 DEF Good
<1>idle. ASSUME NEW h \in Handlers, RunMoves(h, Idle) PROVE RunHasInvestor'
  <2>1. Idle \in RunRow /\ Idle.pc = "idle"
    BY RunRows DEF Idle
  <2> QED
    BY <1>idle, <2>1, <1>m
<1>s. ASSUME NEW i, run' = Stales(i) PROVE RunHasInvestor'
  BY <1>s, <1>1, StalesRows
<1>2. CASE UNCHANGED vars
  BY <1>2, <1>u DEF vars
<1>3. ASSUME NEW h \in Handlers, Event(h) PROVE RunHasInvestor'
  BY <1>3, <1>1, EventRows DEF Good
<1>4. ASSUME NEW h \in Handlers, SyncRead(h) PROVE RunHasInvestor'
  <2> DEFINE next == NextStatus(run[h].inv, run[h].act)
             state == [run[h] EXCEPT !.pc = "writing", !.next = next]
  <2>1. next \in Statuses /\ next \notin {"none", "disconnected"}
    BY DEF NextStatus, Statuses
  <2>2. run[h] \in RunRow /\ state \in RunRow
    BY <2>1, Rows, RunRows
  <2>3. RunMoves(h, state) \/ RunMoves(h, Idle)
    BY <1>4 DEF SyncRead
  <2>4. run[h].inv \in Investors
    BY <1>4 DEF SyncRead, RunHasInvestor
  <2> HIDE DEF next
  <2>5. state.inv = run[h].inv /\ state.next = next /\ state.pc = "writing"
    BY <2>2 DEF RunRow
  <2> HIDE DEF state
  <2> QED
    BY <2>1, <2>2, <2>3, <2>4, <2>5, <1>idle, <1>m
<1>5. ASSUME NEW h \in Handlers, SyncFails(h) \/ InviteAccept(h) \/ InviteFails(h)
      PROVE  RunHasInvestor'
  BY <1>5, <1>idle DEF SyncFails, InviteAccept, InviteFails
<1>w. ASSUME NEW h \in Handlers, SyncWrite(h) \/ DisconnectWrite(h) \/ SetPickShareWrite(h)
      PROVE  RunHasInvestor'
  <2>1. run'[h] = Idle /\ Idle.pc = "idle" /\ \A k \in Handlers \ {h} : Kept(k)
    BY <1>w, SyncWriteRows, DisconnectRows, PickRows DEF Idle
  <2> QED
    BY <2>1, <1>t
<1>6. ASSUME NEW h \in Handlers, NEW i \in Investors, InviteRead(h, i) PROVE RunHasInvestor'
  <2> DEFINE state == [Idle EXCEPT !.pc = "inviting", !.inv = i]
  <2>1. RunMoves(h, state)
    BY <1>6 DEF InviteRead, BeginAccept
  <2>2. state \in RunRow /\ state.pc = "inviting" /\ state.inv = i
    BY RunRows DEF Idle
  <2> HIDE DEF state
  <2> QED
    BY <2>1, <2>2, <1>m
<1>7. ASSUME NEW h \in Handlers, InviteAsk(h) PROVE RunHasInvestor'
  BY <1>7, <1>1, InviteAskRows DEF Good
<1>8. ASSUME NEW i \in Investors, Ask(i) PROVE RunHasInvestor'
  BY <1>8, <1>s, AskCreates
<1>9. ASSUME NEW h \in Handlers, NEW i \in Investors, Looks(h, i) PROVE RunHasInvestor'
  <2>1. rel[i].last \in Requests => req[rel[i].last].inv \in Investors
    BY DEF RowsOfInvestor
  <2>2. UNCHANGED req
    BY <1>9, LooksRows
  <2>3. Good(h)
    BY <1>9, <2>1, <2>2, LooksRows DEF Good
  <2> QED
    BY <1>9, <2>3, <1>1, LooksRows
<1>10. ASSUME NEW i \in Investors, NEW s \in Scopes, Expire(i, s) PROVE RunHasInvestor'
  BY <1>10, <1>s DEF Expire
<1>12. CASE DeleteProfile \/ InviteExpires
  BY <1>12, <1>u DEF DeleteProfile, InviteExpires
<1> QED
  BY <1>2, <1>3, <1>4, <1>5, <1>w, <1>6, <1>7, <1>8, <1>9, <1>10, <1>12, Steps

(* What a synchronisation has read stays true until a row makes it stale.  *)
LEMMA TruthStep ==
    TypeOK /\ RowsOfInvestor /\ RunHasInvestor /\ WritesWhatIsTrue /\ [Next]_vars
        => WritesWhatIsTrue'
<1> SUFFICES ASSUME TypeOK, RowsOfInvestor, RunHasInvestor, WritesWhatIsTrue, [Next]_vars
             PROVE  WritesWhatIsTrue'
  OBVIOUS
<1> DEFINE Others(h) == \A k \in Handlers \ {h} : Kept(k)
           Free(h) == run'[h].pc # "writing"
<1>1. ASSUME NEW i, \A k \in Handlers : (Kept(k) /\ Marked(k, i)) \/ run'[k].pc # "writing",
             \A j \in Investors \ {i} : grant'[j] = grant[j], profile' => profile
      PROVE  WritesWhatIsTrue'
  <2> SUFFICES ASSUME NEW k \in Handlers, profile', run'[k].pc = "writing", ~run'[k].stale
               PROVE  run'[k].next = "approved" <=> ActiveScopes(run[k].inv)' # {}
    BY DEF WritesWhatIsTrue
  <2>1. /\ run[k].pc = "writing" /\ ~run[k].stale /\ run[k].inv # i
        /\ run'[k].inv = run[k].inv /\ run'[k].next = run[k].next
    BY <1>1 DEF Kept, Marked, MarkedAt
  <2>2. run[k].inv \in Investors
    BY <2>1 DEF RunHasInvestor
  <2>3. ActiveScopes(run[k].inv)' = ActiveScopes(run[k].inv)
    BY <1>1, <2>1, <2>2 DEF ActiveScopes
  <2> QED
    BY <1>1, <2>1, <2>3 DEF WritesWhatIsTrue
<1>2. ASSUME \A k \in Handlers : Kept(k) \/ run'[k].pc # "writing",
             UNCHANGED grant, profile' => profile
      PROVE  WritesWhatIsTrue'
  <2>1. \A k \in Handlers : Marked(k, NoInvestor)
    BY NoneAssumption DEF RunHasInvestor, Marked, MarkedAt
  <2> QED
    BY <1>2, <2>1, <1>1
<1>u. ASSUME UNCHANGED run PROVE \A k \in Handlers : Kept(k)
  BY <1>u DEF Kept
<1>m. ASSUME NEW h \in Handlers, NEW state \in RunRow, RunMoves(h, state), state.pc # "writing"
      PROVE  \A k \in Handlers : Kept(k) \/ run'[k].pc # "writing"
  BY <1>m, MovesRow
<1>idle. ASSUME NEW h \in Handlers, RunMoves(h, Idle)
         PROVE  \A k \in Handlers : Kept(k) \/ run'[k].pc # "writing"
  <2>1. Idle \in RunRow /\ Idle.pc = "idle"
    BY RunRows DEF Idle
  <2> QED
    BY <1>idle, <2>1, <1>m
<1> USE DEF ledger
<1>3. CASE UNCHANGED vars
  <2>1. UNCHANGED <<run, grant, profile>>
    BY <1>3 DEF vars
  <2> QED
    BY <2>1, <1>2, <1>u
<1>4. ASSUME NEW h \in Handlers, Event(h) PROVE WritesWhatIsTrue'
  <2>1. PICK r \in Requests :
           /\ \A j \in Investors \ {req[r].inv} : grant'[j] = grant[j]
           /\ run'[h].pc = "syncing"
           /\ \A k \in Handlers \ {h} : Kept(k) /\ Marked(k, req[r].inv)
           /\ UNCHANGED profile
    BY <1>4, EventRows
  <2> QED
    BY <2>1, <1>1
<1>5. ASSUME NEW h \in Handlers, SyncRead(h) PROVE WritesWhatIsTrue'
  <2> DEFINE i == run[h].inv
             next == NextStatus(i, run[h].act)
             state == [run[h] EXCEPT !.pc = "writing", !.next = next]
  <2>1. UNCHANGED <<grant, profile>>
    BY <1>5 DEF SyncRead
  <2>2. CASE RunMoves(h, Idle)
    BY <2>1, <2>2, <1>2, <1>idle
  <2>3. CASE RunMoves(h, state)
    <3>1. next = "approved" <=> ActiveScopes(i) # {}
      BY DEF NextStatus
    <3>2. next \in Statuses
      BY DEF NextStatus, Statuses
    <3>3. run[h] \in RunRow /\ state \in RunRow
      BY <3>2, Rows, RunRows
    <3> HIDE DEF next
    <3>4. state.inv = i /\ state.next = next
      BY <3>3 DEF RunRow
    <3> HIDE DEF state
    <3>5. run'[h] = state /\ \A k \in Handlers \ {h} : run'[k] = run[k]
      BY <2>3, <3>3, MovesRow
    <3>6. ASSUME NEW k \in Handlers, profile', run'[k].pc = "writing", ~run'[k].stale
          PROVE  run'[k].next = "approved" <=> ActiveScopes(run[k].inv)' # {}
      <4>1. ActiveScopes(run[k].inv)' = {s \in Scopes : grant[run'[k].inv][s].st = "active"}
        BY <2>1 DEF ActiveScopes
      <4>2. CASE k = h
        <5>1. ActiveScopes(i) = {s \in Scopes : grant[run'[k].inv][s].st = "active"}
          BY <3>4, <3>5, <4>2 DEF ActiveScopes
        <5> QED
          BY <3>1, <3>4, <3>5, <4>1, <4>2, <5>1
      <4>3. CASE k # h
        <5>1. ActiveScopes(run[k].inv) = {s \in Scopes : grant[run'[k].inv][s].st = "active"}
          BY <3>5, <4>3 DEF ActiveScopes
        <5> QED
          BY <3>5, <3>6, <4>1, <4>3, <5>1, <2>1 DEF WritesWhatIsTrue
      <4> QED
        BY <4>2, <4>3
    <3> QED
      BY <3>6 DEF WritesWhatIsTrue
  <2> QED
    BY <1>5, <2>2, <2>3 DEF SyncRead
<1>6. ASSUME NEW h \in Handlers, SyncFails(h) \/ InviteAccept(h) \/ InviteFails(h)
      PROVE  WritesWhatIsTrue'
  <2>1. RunMoves(h, Idle) /\ UNCHANGED <<grant, profile>>
    BY <1>6 DEF SyncFails, InviteAccept, InviteFails
  <2> QED
    BY <2>1, <1>2, <1>idle
<1>w. ASSUME NEW h \in Handlers, SyncWrite(h) \/ SetPickShareWrite(h) PROVE WritesWhatIsTrue'
  <2>1. /\ run'[h] = Idle /\ Idle.pc = "idle" /\ \A k \in Handlers \ {h} : Kept(k)
        /\ UNCHANGED <<grant, profile>>
    BY <1>w, SyncWriteRows, PickRows DEF Idle
  <2> QED
    BY <2>1, <1>2
<1>7. ASSUME NEW h \in Handlers, NEW i \in Investors, InviteRead(h, i) PROVE WritesWhatIsTrue'
  <2> DEFINE state == [Idle EXCEPT !.pc = "inviting", !.inv = i]
  <2>1. RunMoves(h, state) /\ UNCHANGED <<grant, profile>>
    BY <1>7 DEF InviteRead, BeginAccept
  <2>2. state \in RunRow /\ state.pc = "inviting"
    BY RunRows DEF Idle
  <2> HIDE DEF state
  <2> QED
    BY <2>1, <2>2, <1>2, <1>m
<1>8. ASSUME NEW h \in Handlers, InviteAsk(h) PROVE WritesWhatIsTrue'
  <2>1. /\ Creates(run[h].inv, TRUE) /\ run[h].inv \in Investors
        /\ run'[h].pc = "accepting" /\ \A k \in Handlers \ {h} : Kept(k)
    BY <1>8, InviteAskRows
  <2>2. UNCHANGED <<grant, profile>>
    BY <2>1, CreatesRows
  <2> QED
    BY <2>1, <2>2, <1>2
<1>9. ASSUME NEW i \in Investors, Ask(i) PROVE WritesWhatIsTrue'
  <2>1. Creates(i, FALSE) /\ run' = Stales(i)
    BY <1>9, AskCreates
  <2>2. UNCHANGED <<grant, profile>>
    BY <2>1, CreatesRows
  <2> QED
    BY <2>1, <2>2, <1>2, StalesRows
<1>10. ASSUME NEW h \in Handlers, DisconnectWrite(h) PROVE WritesWhatIsTrue'
  <2> DEFINE i == run[h].inv
  <2>1. /\ run'[h] = Idle /\ Idle.pc = "idle" /\ UNCHANGED profile
        /\ \A k \in Handlers \ {h} : Kept(k) /\ Marked(k, i)
        /\ \A j \in Investors \ {i} : grant'[j] = grant[j]
    BY <1>10, DisconnectRows DEF Idle
  <2> QED
    BY <2>1, <1>1
<1>11. ASSUME NEW i \in Investors, NEW s \in Scopes, Expire(i, s) PROVE WritesWhatIsTrue'
  <2>1. \A j \in Investors \ {i} : grant'[j] = grant[j]
    BY <1>11 DEF Expire, TypeOK
  <2>2. run' = Stales(i) /\ UNCHANGED profile
    BY <1>11 DEF Expire
  <2> QED
    BY <2>1, <2>2, <1>1, StalesRows
<1>12. ASSUME NEW h \in Handlers, NEW i \in Investors, Looks(h, i) PROVE WritesWhatIsTrue'
  <2>1. /\ run'[h].pc # "writing" /\ \A k \in Handlers \ {h} : Kept(k)
        /\ UNCHANGED <<grant, profile>>
    BY <1>12, LooksRows
  <2> QED
    BY <2>1, <1>2
<1>13. CASE DeleteProfile
  BY <1>13 DEF DeleteProfile, WritesWhatIsTrue
<1>14. CASE InviteExpires
  BY <1>14, <1>2, <1>u DEF InviteExpires
<1> HIDE DEF ledger
<1> QED
  BY <1>3, <1>4, <1>5, <1>6, <1>w, <1>7, <1>8, <1>9, <1>10, <1>11, <1>12, <1>13, <1>14, Steps

(* Without a relationship there is no share, without a profile no          *)
(* relationship.                                                           *)
LEMMA NoRelStep ==
    TypeOK /\ RowsOfInvestor /\ RunHasInvestor /\ NoRelNoShare /\ [Next]_vars => NoRelNoShare'
<1> SUFFICES ASSUME TypeOK, RowsOfInvestor, RunHasInvestor, NoRelNoShare, [Next]_vars
             PROVE  NoRelNoShare'
  OBVIOUS
<1>1. ASSUME \A i \in Investors : /\ rel'[i].status = "none" <=> rel[i].status = "none"
                                  /\ rel[i].status = "none" => share'[i] = share[i],
             invite.status = "expired" => invite'.status = "expired",
             UNCHANGED profile
      PROVE  NoRelNoShare'
  BY <1>1 DEF NoRelNoShare
<1>c. ASSUME NEW i \in Investors, NEW b \in BOOLEAN, Creates(i, b) PROVE NoRelNoShare'
  <2>1. /\ rel'[i].status = "request_pending" /\ profile /\ UNCHANGED <<profile, share>>
        /\ \A j \in Investors \ {i} : rel'[j] = rel[j]
    BY <1>c, CreatesRows
  <2> QED
    BY <2>1 DEF NoRelNoShare
<1> USE DEF ledger
<1>2. CASE UNCHANGED vars
  BY <1>2 DEF vars, NoRelNoShare
<1>3. ASSUME NEW h \in Handlers, Event(h) PROVE NoRelNoShare'
  BY <1>3, <1>1, EventRows
<1>4. ASSUME NEW h \in Handlers, SyncRead(h) \/ SyncFails(h) \/ InviteFails(h)
      PROVE  NoRelNoShare'
  BY <1>4, <1>1 DEF SyncRead, SyncFails, InviteFails
<1>5. ASSUME NEW h \in Handlers, SyncWrite(h) PROVE NoRelNoShare'
  <2>1. run[h].next # "none"
    BY <1>5 DEF SyncWrite, RunHasInvestor
  <2> QED
    BY <1>5, <2>1, <1>1, SyncWriteRows
<1>w. ASSUME NEW h \in Handlers, DisconnectWrite(h) \/ SetPickShareWrite(h)
      PROVE  NoRelNoShare'
  BY <1>w, <1>1, DisconnectRows, PickRows
<1>6. ASSUME NEW h \in Handlers, NEW i \in Investors, InviteRead(h, i) PROVE NoRelNoShare'
  <2>1. [invite EXCEPT !.raced = @ \/ Accepting # {}].status = invite.status
    BY DEF TypeOK, InviteRow
  <2> QED
    BY <1>6, <2>1, <1>1 DEF InviteRead, BeginAccept
<1>7. ASSUME NEW h \in Handlers, InviteAsk(h) PROVE NoRelNoShare'
  BY <1>7, <1>c, InviteAskRows
<1>8. ASSUME NEW h \in Handlers, InviteAccept(h) PROVE NoRelNoShare'
  <2>1. /\ run[h].inv \in Investors /\ Materialize(run[h].inv)
        /\ rel[run[h].inv].status # "none" /\ UNCHANGED <<profile, rel>>
        /\ invite.status # "sent" => invite' = invite
    BY <1>8 DEF InviteAccept, RunHasInvestor
  <2>2. \A j \in Investors \ {run[h].inv} : share'[j] = share[j]
    BY <2>1, ShareRows
  <2> QED
    BY <2>1, <2>2, <1>1
<1>9. ASSUME NEW i \in Investors, Ask(i) PROVE NoRelNoShare'
  BY <1>9, <1>c, AskCreates
<1>10. ASSUME NEW h \in Handlers, NEW i \in Investors, Looks(h, i) PROVE NoRelNoShare'
  BY <1>10, <1>1, LooksRows
<1>11. ASSUME NEW i \in Investors, NEW s \in Scopes, Expire(i, s) PROVE NoRelNoShare'
  BY <1>11, <1>1 DEF Expire
<1>13. CASE DeleteProfile
  <2>1. /\ rel' = [i \in Investors |-> NoRel] /\ share' = [i \in Investors |-> "none"]
        /\ invite'.status = "expired"
    BY <1>13, DeleteRows
  <2> QED
    BY <2>1 DEF NoRelNoShare, NoRel
<1>14. CASE InviteExpires
  BY <1>14, <1>1 DEF InviteExpires
<1> HIDE DEF ledger
<1> QED
  BY <1>2, <1>3, <1>4, <1>5, <1>w, <1>6, <1>7, <1>8, <1>9, <1>10, <1>11, <1>13, <1>14, Steps

(* What the disconnections and the switches of the share have read.  A     *)
(* handler that comes to such a step has just read; one that stays there   *)
(* is marked when a scope becomes active, or when the relationship closes. *)
LEMMA ReadersStep ==
    ASSUME TypeOK, RowsOfInvestor, RunHasInvestor, NoRelNoShare, [Next]_vars
    PROVE  /\ \A k \in Handlers :
                \/ run'[k].pc \notin {"disconnecting", "sharing"}
                \/ Kept(k)
                \/ /\ run'[k].inv \in Investors
                   /\ run'[k].pc = "disconnecting" => run'[k].cut = ActiveScopes(run'[k].inv)
                   /\ run'[k].pc = "sharing" => rel[run'[k].inv].status = "approved"
                   /\ UNCHANGED <<grant, rel>>
           /\ \A i \in Investors :
                \/ \A s \in Scopes : grant'[i][s].st = "active" => grant[i][s].st = "active"
                \/ \A k \in Handlers : MarkedAt(k, i, {"disconnecting"})
           /\ \A i \in Investors :
                \/ rel'[i].status \in Closed => rel[i].status \in Closed
                \/ \A k \in Handlers : MarkedAt(k, i, {"sharing"}) \/ run'[k].pc # "sharing"
<1> DEFINE At == {"disconnecting", "sharing"}
           Fresh1(k) == /\ run'[k].inv \in Investors
                        /\ run'[k].pc = "disconnecting" => run'[k].cut = ActiveScopes(run'[k].inv)
                        /\ run'[k].pc = "sharing" => rel[run'[k].inv].status = "approved"
                        /\ UNCHANGED <<grant, rel>>
           Handled == \A k \in Handlers : run'[k].pc \notin At \/ Kept(k) \/ Fresh1(k)
           NoneNew == \A i \in Investors, s \in Scopes :
                        grant'[i][s].st = "active" => grant[i][s].st = "active"
           NoneClosed == \A i \in Investors : rel'[i].status \in Closed => rel[i].status \in Closed
           Granted(i) == \/ \A s \in Scopes : grant'[i][s].st = "active" => grant[i][s].st = "active"
                         \/ \A k \in Handlers : MarkedAt(k, i, {"disconnecting"})
           Shut(i) == \/ rel'[i].status \in Closed => rel[i].status \in Closed
                      \/ \A k \in Handlers : MarkedAt(k, i, {"sharing"}) \/ run'[k].pc # "sharing"
           Goal == Handled /\ \A i \in Investors : Granted(i) /\ Shut(i)
<1>0. Idle \in RunRow /\ Idle.pc = "idle"
  BY RunRows DEF Idle
<1>1. ASSUME Handled, NoneNew, NoneClosed PROVE Goal
  BY <1>1
<1>2. ASSUME NEW h \in Handlers, run'[h].pc \notin At, \A k \in Handlers \ {h} : Kept(k)
      PROVE  Handled
  BY <1>2
<1>u. ASSUME UNCHANGED <<run, grant, rel>> PROVE Goal
  BY <1>u DEF Kept
<1>c. ASSUME NEW i \in Investors, NEW b \in BOOLEAN, Creates(i, b), Handled PROVE Goal
  <2>1. /\ rel'[i].status = "request_pending" /\ UNCHANGED grant
        /\ \A j \in Investors \ {i} : rel'[j] = rel[j]
    BY <1>c, CreatesRows
  <2>2. NoneNew /\ NoneClosed
    BY <2>1 DEF Closed
  <2> QED
    BY <1>c, <2>2, <1>1
<1>m. ASSUME NEW h \in Handlers, RunMoves(h, Idle), UNCHANGED <<grant, rel>> PROVE Goal
  <2>1. Handled
    BY <1>m, <1>0, <1>2, MovesRow
  <2> QED
    BY <1>m, <2>1, <1>1
<1> HIDE DEF Handled, NoneNew, NoneClosed, Goal
<1>3. ASSUME UNCHANGED vars PROVE Goal
  <2>1. UNCHANGED <<run, grant, rel>>
    BY <1>3 DEF vars
  <2> QED
    BY <2>1, <1>u
<1>4. ASSUME NEW h \in Handlers, Event(h) PROVE Goal
  <2>1. PICK r \in Requests :
           /\ run'[h].pc = "syncing" /\ run[h].pc = "idle"
           /\ \A k \in Handlers \ {h} : Kept(k)
           /\ \A j \in Investors \ {req[r].inv} : grant'[j] = grant[j]
           /\ \/ \A k \in Handlers \ {h} : MarkedAt(k, req[r].inv, {"disconnecting"})
              \/ \A j \in Investors, t \in Scopes :
                   grant'[j][t].st = "active" => grant[j][t].st = "active"
           /\ UNCHANGED rel
    BY <1>4, EventRows
  <2>2. Handled
    BY <2>1, <1>2
  <2>3. MarkedAt(h, req[r].inv, {"disconnecting"})
    BY <2>1 DEF MarkedAt
  <2>4. \A i \in Investors : Granted(i)
    BY <2>1, <2>3
  <2> QED
    BY <2>1, <2>2, <2>4 DEF Goal
<1>5. ASSUME NEW h \in Handlers, SyncRead(h) PROVE Goal
  <2> DEFINE next == NextStatus(run[h].inv, run[h].act)
             state == [run[h] EXCEPT !.pc = "writing", !.next = next]
  <2>1. next \in Statuses
    BY DEF NextStatus, Statuses
  <2>2. run[h] \in RunRow /\ state \in RunRow
    BY <2>1, Rows, RunRows
  <2> HIDE DEF next
  <2>3. state.pc = "writing"
    BY <2>2 DEF RunRow
  <2>4. UNCHANGED <<grant, rel>> /\ (RunMoves(h, state) \/ RunMoves(h, Idle))
    BY <1>5 DEF SyncRead, next, ledger
  <2> HIDE DEF state
  <2>5. CASE RunMoves(h, state)
    <3>1. Handled
      BY <2>2, <2>3, <2>5, <1>2, MovesRow
    <3> QED
      BY <2>4, <3>1, <1>1 DEF NoneNew, NoneClosed
  <2> QED
    BY <2>4, <2>5, <1>m
<1>6. ASSUME NEW h \in Handlers, SyncFails(h) \/ InviteAccept(h) \/ InviteFails(h) PROVE Goal
  BY <1>6, <1>m DEF SyncFails, InviteAccept, InviteFails, ledger
<1>7. ASSUME NEW h \in Handlers, SyncWrite(h) PROVE Goal
  <2> DEFINE i == run[h].inv
  <2>1. Handled
    BY <1>7, <1>0, <1>2, SyncWriteRows
  <2>2. UNCHANGED grant /\ run'[h].pc # "sharing"
    BY <1>7, <1>0, SyncWriteRows
  <2>3. \A j \in Investors \ {i} : rel'[j] = rel[j]
    BY <1>7, SyncWriteRows
  <2>4. Shut(i)
    <3>1. CASE run[h].next \in Closed
      BY <1>7, <2>2, <3>1, SyncWriteRows
    <3>2. CASE run[h].next \notin Closed
      BY <1>7, <3>2, SyncWriteRows
    <3> QED
      BY <3>1, <3>2
  <2> QED
    BY <2>1, <2>2, <2>3, <2>4 DEF Goal
<1>8. ASSUME NEW h \in Handlers, DisconnectWrite(h) PROVE Goal
  <2> DEFINE i == run[h].inv
  <2>1. Handled
    BY <1>8, <1>0, <1>2, DisconnectRows
  <2>2. /\ \A j \in Investors \ {i} : grant'[j] = grant[j] /\ rel'[j] = rel[j]
        /\ \A s \in Scopes : grant'[i][s].st = "active" => grant'[i][s] = grant[i][s]
    BY <1>8, DisconnectRows
  <2>3. Shut(i)
    BY <1>8, <1>0, DisconnectRows
  <2>4. \A j \in Investors : Granted(j)
    BY <2>2
  <2> QED
    BY <2>1, <2>2, <2>3, <2>4 DEF Goal
<1>9. ASSUME NEW h \in Handlers, SetPickShareWrite(h) PROVE Goal
  <2>1. Handled
    BY <1>9, <1>0, <1>2, PickRows
  <2>2. UNCHANGED <<grant, rel>>
    BY <1>9, PickRows
  <2> QED
    BY <2>1, <2>2, <1>1 DEF NoneNew, NoneClosed
<1>10. ASSUME NEW h \in Handlers, NEW i \in Investors, Looks(h, i) PROVE Goal
  <2>1. UNCHANGED <<grant, rel>>
    BY <1>10, LooksRows
  <2>2. Fresh1(h)
    BY <1>10, <2>1, LooksRows
  <2>3. Handled
    BY <1>10, <2>2, LooksRows DEF Handled
  <2> QED
    BY <2>1, <2>3, <1>1 DEF NoneNew, NoneClosed
<1>11. ASSUME NEW h \in Handlers, NEW i \in Investors, InviteRead(h, i) PROVE Goal
  <2> DEFINE state == [Idle EXCEPT !.pc = "inviting", !.inv = i]
  <2>1. RunMoves(h, state) /\ UNCHANGED <<grant, rel>>
    BY <1>11 DEF InviteRead, BeginAccept, ledger
  <2>2. state \in RunRow /\ state.pc = "inviting"
    BY RunRows DEF Idle
  <2> HIDE DEF state
  <2>3. Handled
    BY <2>1, <2>2, <1>2, MovesRow
  <2> QED
    BY <2>1, <2>3, <1>1 DEF NoneNew, NoneClosed
<1>12. ASSUME NEW h \in Handlers, InviteAsk(h) PROVE Goal
  <2>1. /\ Creates(run[h].inv, TRUE) /\ run[h].inv \in Investors
        /\ run'[h].pc = "accepting" /\ \A k \in Handlers \ {h} : Kept(k)
    BY <1>12, InviteAskRows
  <2> QED
    BY <2>1, <1>2, <1>c
<1>13. ASSUME NEW i \in Investors, Ask(i) PROVE Goal
  <2>1. Creates(i, FALSE) /\ run' = Stales(i)
    BY <1>13, AskCreates
  <2>2. Handled
    BY <2>1, StalesRows DEF Handled
  <2> QED
    BY <2>1, <2>2, <1>c
<1>14. ASSUME NEW i \in Investors, NEW s \in Scopes, Expire(i, s) PROVE Goal
  <2>1. run' = Stales(i) /\ UNCHANGED rel
    BY <1>14 DEF Expire
  <2>2. Handled /\ NoneClosed
    BY <2>1, StalesRows DEF Handled, NoneClosed
  <2>3. [grant[i][s] EXCEPT !.st = "expired"].st = "expired"
    BY Rows DEF GrantRow
  <2>4. NoneNew
    BY <1>14, <2>3 DEF Expire, NoneNew, TypeOK
  <2> QED
    BY <2>2, <2>4, <1>1
<1>15. ASSUME DeleteProfile PROVE Goal
  <2>1. UNCHANGED run
    BY <1>15, DeleteRows
  <2>2. NoneClosed
    BY <1>15, DeleteRows DEF NoneClosed, NoRel, Closed
  <2>3. NoneNew
    BY <1>15, DeleteRows DEF NoneNew
  <2>4. Handled
    BY <2>1 DEF Handled, Kept
  <2> QED
    BY <2>2, <2>3, <2>4, <1>1
<1>16. ASSUME InviteExpires PROVE Goal
  <2>1. UNCHANGED <<run, grant, rel>>
    BY <1>16 DEF InviteExpires, ledger
  <2> QED
    BY <2>1, <1>u
<1>17. Goal
  BY <1>3, <1>4, <1>5, <1>6, <1>7, <1>8, <1>9, <1>10, <1>11, <1>12, <1>13, <1>14, <1>15,
     <1>16, Steps
<1> QED
  BY <1>17 DEF Handled, Goal

LEMMA CutsStep ==
    TypeOK /\ RowsOfInvestor /\ RunHasInvestor /\ NoRelNoShare /\ CutsWhatIsActive
        /\ [Next]_vars => CutsWhatIsActive'
<1> SUFFICES ASSUME TypeOK, RowsOfInvestor, RunHasInvestor, NoRelNoShare, CutsWhatIsActive,
                    [Next]_vars,
                    NEW k \in Handlers, run'[k].pc = "disconnecting", ~run'[k].stale,
                    NEW s \in Scopes, grant'[run'[k].inv][s].st = "active"
             PROVE  s \in run'[k].cut
  BY DEF CutsWhatIsActive, ActiveScopes
<1>1. CASE Kept(k)
  <2>1. /\ run[k].pc = "disconnecting" /\ ~run[k].stale /\ run[k].inv = run'[k].inv
        /\ run[k].cut = run'[k].cut
    BY <1>1 DEF Kept
  <2>2. run[k].inv \in Investors
    BY <2>1 DEF RunHasInvestor
  <2>3. grant[run[k].inv][s].st = "active"
    BY <2>1, <2>2, ReadersStep DEF MarkedAt
  <2> QED
    BY <2>1, <2>3 DEF CutsWhatIsActive, ActiveScopes
<1>2. CASE run'[k].cut = ActiveScopes(run'[k].inv) /\ UNCHANGED grant
  BY <1>2 DEF ActiveScopes
<1> QED
  BY <1>1, <1>2, ReadersStep

(* A deleted profile stays deleted. *)
LEMMA ProfileKept ==
    ASSUME TypeOK, RowsOfInvestor, RunHasInvestor, [Next]_vars
    PROVE  profile' => profile
<1>1. CASE UNCHANGED vars
  BY <1>1 DEF vars
<1>2. ASSUME NEW h \in Handlers,
             \/ Event(h) \/ DisconnectWrite(h) \/ SyncWrite(h) \/ SetPickShareWrite(h)
             \/ \E i \in Investors : Looks(h, i)
      PROVE  UNCHANGED profile
  BY <1>2, EventRows, DisconnectRows, SyncWriteRows, PickRows, LooksRows
<1>3. ASSUME NEW h \in Handlers, SyncRead(h) \/ SyncFails(h) \/ InviteAccept(h) \/ InviteFails(h)
      PROVE  UNCHANGED profile
  BY <1>3 DEF SyncRead, SyncFails, InviteAccept, InviteFails
<1>4. ASSUME NEW h \in Handlers, NEW i \in Investors, InviteRead(h, i) PROVE UNCHANGED profile
  BY <1>4 DEF InviteRead, BeginAccept
<1>5. ASSUME NEW h \in Handlers, InviteAsk(h) PROVE UNCHANGED profile
  BY <1>5, InviteAskRows, CreatesRows
<1>6. ASSUME NEW i \in Investors, Ask(i) \/ \E s \in Scopes : Expire(i, s)
      PROVE  UNCHANGED profile
  BY <1>6, AskCreates, CreatesRows DEF Expire
<1>7. CASE DeleteProfile
  BY <1>7 DEF DeleteProfile
<1>8. CASE InviteExpires
  BY <1>8 DEF InviteExpires
<1> QED
  BY <1>1, <1>2, <1>3, <1>4, <1>5, <1>6, <1>7, <1>8, Steps

LEMMA SharesOpenStep ==
    TypeOK /\ RowsOfInvestor /\ RunHasInvestor /\ NoRelNoShare /\ SharesWhileOpen
        /\ [Next]_vars => SharesWhileOpen'
<1> SUFFICES ASSUME TypeOK, RowsOfInvestor, RunHasInvestor, NoRelNoShare, SharesWhileOpen,
                    [Next]_vars, profile',
                    NEW k \in Handlers, run'[k].pc = "sharing", ~run'[k].stale
             PROVE  rel'[run'[k].inv].status \notin Closed
  BY DEF SharesWhileOpen
<1>0. profile
  BY ProfileKept
<1>1. CASE Kept(k)
  <2>1. run[k].pc = "sharing" /\ ~run[k].stale /\ run[k].inv = run'[k].inv
    BY <1>1 DEF Kept
  <2>2. run[k].inv \in Investors /\ rel[run[k].inv].status \notin Closed
    BY <1>0, <2>1 DEF RunHasInvestor, SharesWhileOpen
  <2> QED
    BY <2>1, <2>2, ReadersStep DEF MarkedAt
<1>2. CASE rel[run'[k].inv].status = "approved" /\ UNCHANGED rel
  BY <1>2 DEF Closed
<1> QED
  BY <1>1, <1>2, ReadersStep

(* The status of a relationship and the ledger. *)
LEMMA TracksStep ==
    TypeOK /\ RowsOfInvestor /\ RunHasInvestor /\ WritesWhatIsTrue /\ NoRelNoShare
        /\ CutsWhatIsActive /\ StatusTracksLedger /\ [Next]_vars => StatusTracksLedger'
<1> SUFFICES ASSUME TypeOK, RowsOfInvestor, RunHasInvestor, WritesWhatIsTrue, NoRelNoShare,
                    CutsWhatIsActive, StatusTracksLedger, [Next]_vars
             PROVE  StatusTracksLedger'
  OBVIOUS
<1> DEFINE Syncs(k, i) == run[k].pc \in {"syncing", "writing"} /\ run[k].inv = i
           None(i) == \A s \in Scopes : grant'[i][s].st # "active"
           Good(i) ==
             \/ i \in drift'
             \/ \E k \in Handlers : run'[k].pc \in {"syncing", "writing"} /\ run'[k].inv = i
             \/ /\ rel'[i].status = "approved" => ~None(i)
                /\ rel'[i].status \in Closed => None(i)
           OtherSyncs(i) == \A k \in Handlers : Kept(k) \/ ~Syncs(k, i)
<1>1. ASSUME \A i \in Investors : Good(i) PROVE StatusTracksLedger'
  <2> SUFFICES ASSUME NEW i \in Investors, i \notin drift', ~Syncing(i)'
               PROVE  /\ rel'[i].status = "approved" => ActiveScopes(i)' # {}
                      /\ rel'[i].status \in Closed => ActiveScopes(i)' = {}
    BY DEF StatusTracksLedger
  <2>1. ActiveScopes(i)' = {} <=> None(i)
    BY DEF ActiveScopes
  <2> QED
    BY <1>1, <2>1 DEF Syncing
<1>2. ASSUME NEW i \in Investors, OtherSyncs(i), i \notin drift' => i \notin drift,
             rel'[i].status = rel[i].status, grant'[i] = grant[i]
      PROVE  Good(i)
  <2>1. CASE Syncing(i)
    BY <1>2, <2>1 DEF Syncing, Kept
  <2>2. CASE ~Syncing(i) /\ i \notin drift
    BY <1>2, <2>2 DEF StatusTracksLedger, ActiveScopes
  <2> QED
    BY <1>2, <2>1, <2>2
<1>k. ASSUME \A k \in Handlers : Kept(k) PROVE \A i : OtherSyncs(i)
  BY <1>k
<1>u. ASSUME UNCHANGED run PROVE \A i : OtherSyncs(i)
  BY <1>u DEF Kept
<1>h. ASSUME NEW h \in Handlers, run[h].pc \notin {"syncing", "writing"},
             \A k \in Handlers \ {h} : Kept(k)
      PROVE  \A i : OtherSyncs(i)
  BY <1>h
<1>s. ASSUME NEW h \in Handlers, NEW state \in RunRow, RunMoves(h, state)
      PROVE  \A i : i # run[h].inv => OtherSyncs(i)
  BY <1>s, MovesRow
<1>i. Idle \in RunRow
  BY RunRows
<1>c. ASSUME NEW i \in Investors, NEW b \in BOOLEAN, Creates(i, b), UNCHANGED drift,
             \A j : OtherSyncs(j)
      PROVE  \A j \in Investors : Good(j)
  <2>1. /\ rel'[i].status = "request_pending" /\ UNCHANGED grant
        /\ \A j \in Investors \ {i} : rel'[j] = rel[j]
    BY <1>c, CreatesRows
  <2>2. Good(i)
    BY <2>1 DEF Closed
  <2>3. \A j \in Investors \ {i} : Good(j)
    BY <1>c, <2>1, <1>2
  <2> QED
    BY <2>2, <2>3
<1> HIDE DEF OtherSyncs, Good
<1> USE DEF ledger
<1>3. ASSUME UNCHANGED vars PROVE \A i \in Investors : Good(i)
  <2>1. UNCHANGED <<run, grant, rel, drift>>
    BY <1>3 DEF vars
  <2> QED
    BY <2>1, <1>2, <1>u
<1>4. ASSUME NEW h \in Handlers, Event(h) PROVE \A i \in Investors : Good(i)
  <2>1. PICK r \in Requests :
           /\ run[h].pc = "idle"
           /\ \A j \in Investors \ {req[r].inv} : grant'[j] = grant[j]
           /\ run'[h].pc = "syncing" /\ run'[h].inv = req[r].inv
           /\ \A k \in Handlers \ {h} : Kept(k)
           /\ UNCHANGED <<rel, drift>>
    BY <1>4, EventRows
  <2>2. Good(req[r].inv)
    BY <2>1 DEF Good
  <2>3. \A i : OtherSyncs(i)
    BY <2>1, <1>h
  <2>4. \A i \in Investors \ {req[r].inv} : Good(i)
    BY <2>1, <2>3, <1>2
  <2> QED
    BY <2>2, <2>4
<1>5. ASSUME NEW h \in Handlers, SyncRead(h) PROVE \A i \in Investors : Good(i)
  <2> DEFINE next == NextStatus(run[h].inv, run[h].act)
             state == [run[h] EXCEPT !.pc = "writing", !.next = next]
  <2>0. state \in RunRow /\ state.pc = "writing" /\ state.inv = run[h].inv
    <3>1. next \in Statuses
      BY DEF NextStatus, Statuses
    <3>2. run[h] \in RunRow /\ state \in RunRow
      BY <3>1, Rows, RunRows
    <3> QED
      BY <3>2 DEF RunRow
  <2>1. \/ RunMoves(h, state) /\ UNCHANGED drift
        \/ RunMoves(h, Idle) /\ drift' = drift \cup {run[h].inv}
    BY <1>5 DEF SyncRead
  <2>2. UNCHANGED <<grant, rel>>
    BY <1>5 DEF SyncRead
  <2> HIDE DEF state
  <2>3. Good(run[h].inv)
    <3>1. CASE RunMoves(h, state)
      <4>1. run'[h] = state
        BY <3>1, <2>0, MovesRow
      <4> QED
        BY <4>1, <2>0 DEF Good
    <3>2. CASE drift' = drift \cup {run[h].inv}
      BY <3>2 DEF Good
    <3> QED
      BY <2>1, <3>1, <3>2
  <2>4. \A i : i # run[h].inv => OtherSyncs(i)
    BY <2>0, <2>1, <1>i, <1>s
  <2>5. \A i \in Investors : i # run[h].inv => Good(i)
    BY <2>1, <2>2, <2>4, <1>2
  <2> QED
    BY <2>3, <2>5
<1>6. ASSUME NEW h \in Handlers, SyncWrite(h) PROVE \A i \in Investors : Good(i)
  <2> DEFINE i0 == run[h].inv
             act == run[h].act
             next == run[h].next
  <2>1. /\ run[h].pc = "writing" /\ i0 \in Investors /\ UNCHANGED grant
        /\ rel[i0].status = "none" => UNCHANGED rel
        /\ \A k \in Handlers \ {h} : Kept(k)
        /\ \A i \in Investors \ {i0} : rel'[i] = rel[i]
    BY <1>6, SyncWriteRows
  <2>0. drift' = IF run[h].stale \/ (act = "CONSENT_GRANTED" /\ next # "approved")
                   THEN drift \cup {i0} ELSE drift \ {i0}
    BY <1>6 DEF SyncWrite
  <2>2. rel[i0].status # "none" => rel'[i0].status = next
    BY <1>6, SyncWriteRows
  <2>3. Good(i0)
    <3>1. CASE run[h].stale
      BY <2>0, <3>1 DEF Good
    <3>2. CASE rel[i0].status = "none"
      BY <2>1, <3>2 DEF Good, Closed
    <3>3. CASE ~run[h].stale /\ rel[i0].status # "none"
      <4>1. profile
        BY <2>1, <3>3 DEF NoRelNoShare, TypeOK
      <4>2. next = "approved" <=> ActiveScopes(i0) # {}
        BY <2>1, <3>3, <4>1 DEF WritesWhatIsTrue
      <4>3. ActiveScopes(i0) = {} <=> \A s \in Scopes : grant'[i0][s].st # "active"
        BY <2>1 DEF ActiveScopes
      <4> QED
        BY <2>2, <3>3, <4>2, <4>3 DEF Good, Closed
    <3> QED
      BY <3>1, <3>2, <3>3
  <2>4. \A i : i # i0 => OtherSyncs(i)
    BY <2>1 DEF OtherSyncs
  <2>5. \A i \in Investors \ {i0} : i \notin drift' => i \notin drift
    BY <2>0
  <2>6. \A i \in Investors \ {i0} : Good(i)
    BY <2>1, <2>4, <2>5, <1>2
  <2> QED
    BY <2>3, <2>6
<1>7. ASSUME NEW h \in Handlers, SyncFails(h) PROVE \A i \in Investors : Good(i)
  <2>1. /\ drift' = drift \cup {run[h].inv} /\ RunMoves(h, Idle) /\ UNCHANGED <<grant, rel>>
    BY <1>7 DEF SyncFails
  <2>2. Good(run[h].inv)
    BY <2>1 DEF Good
  <2>3. \A i : i # run[h].inv => OtherSyncs(i)
    BY <2>1, <1>i, <1>s
  <2>4. \A i \in Investors : i # run[h].inv => Good(i)
    BY <2>1, <2>3, <1>2
  <2> QED
    BY <2>2, <2>4
<1>8. ASSUME NEW h \in Handlers, NEW i \in Investors, InviteRead(h, i)
      PROVE  \A j \in Investors : Good(j)
  <2> DEFINE state == [Idle EXCEPT !.pc = "inviting", !.inv = i]
  <2>1. RunMoves(h, state) /\ UNCHANGED <<grant, rel, drift>> /\ run[h].pc = "idle"
    BY <1>8 DEF InviteRead, BeginAccept
  <2>2. state \in RunRow
    BY RunRows
  <2> HIDE DEF state
  <2>3. \A j : OtherSyncs(j)
    BY <2>1, <2>2, <1>h, MovesRow
  <2> QED
    BY <2>1, <2>3, <1>2
<1>9. ASSUME NEW h \in Handlers, InviteAsk(h) PROVE \A j \in Investors : Good(j)
  <2>1. /\ Creates(run[h].inv, TRUE) /\ run[h].inv \in Investors /\ UNCHANGED drift
        /\ run[h].pc = "inviting" /\ \A k \in Handlers \ {h} : Kept(k)
    BY <1>9, InviteAskRows
  <2>2. \A j : OtherSyncs(j)
    BY <2>1, <1>h
  <2> QED
    BY <2>1, <2>2, <1>c
<1>10. ASSUME NEW h \in Handlers, InviteAccept(h) \/ InviteFails(h)
       PROVE  \A j \in Investors : Good(j)
  <2>1. /\ RunMoves(h, Idle) /\ UNCHANGED <<grant, rel>> /\ drift \subseteq drift'
        /\ run[h].pc \in {"inviting", "accepting"}
    BY <1>10 DEF InviteAccept, InviteFails
  <2>2. \A j : OtherSyncs(j)
    BY <2>1, <1>i, <1>h, MovesRow
  <2> QED
    BY <2>1, <2>2, <1>2
<1>11. ASSUME NEW i \in Investors, Ask(i) PROVE \A j \in Investors : Good(j)
  <2>1. Creates(i, FALSE) /\ run' = Stales(i) /\ UNCHANGED drift
    BY <1>11, AskCreates
  <2>2. \A j : OtherSyncs(j)
    BY <2>1, <1>k, StalesRows
  <2> QED
    BY <2>1, <2>2, <1>c
<1>12. ASSUME NEW h \in Handlers, DisconnectWrite(h) PROVE \A j \in Investors : Good(j)
  <2> DEFINE i == run[h].inv
  <2>1. /\ run[h].pc = "disconnecting" /\ i \in Investors
        /\ \A k \in Handlers \ {h} : Kept(k)
        /\ \A j \in Investors \ {i} : grant'[j] = grant[j] /\ rel'[j] = rel[j]
        /\ drift' = IF run[h].stale THEN drift \cup {i} ELSE drift \ {i}
    BY <1>12, DisconnectRows
  <2>2. \A j : OtherSyncs(j)
    BY <2>1, <1>h
  <2>3. Good(i)
    <3>1. CASE run[h].stale
      BY <2>1, <3>1 DEF Good
    <3>2. CASE rel[i].status = "none"
      <4>1. rel'[i].status = "none"
        BY <1>12, <3>2, DisconnectRows
      <4> QED
        BY <4>1 DEF Good, Closed
    <3>3. CASE ~run[h].stale /\ rel[i].status # "none"
      <4>1. rel'[i].status = "disconnected"
        BY <1>12, <3>3, DisconnectRows
      <4>2. ActiveScopes(i) \subseteq run[h].cut
        BY <2>1, <3>3 DEF CutsWhatIsActive
      <4>3. \A s \in Scopes : grant'[i][s].st = "active" =>
              s \notin run[h].cut /\ grant'[i][s] = grant[i][s]
        BY <1>12, DisconnectRows
      <4>4. \A s \in Scopes : grant'[i][s].st # "active"
        BY <4>2, <4>3 DEF ActiveScopes
      <4> QED
        BY <4>1, <4>4 DEF Good
    <3> QED
      BY <3>1, <3>2, <3>3
  <2>4. \A j \in Investors \ {i} : j \notin drift' => j \notin drift
    BY <2>1
  <2>5. \A j \in Investors \ {i} : Good(j)
    BY <2>1, <2>2, <2>4, <1>2
  <2> QED
    BY <2>3, <2>5
<1>13. ASSUME NEW i \in Investors, NEW s \in Scopes, Expire(i, s)
       PROVE  \A j \in Investors : Good(j)
  <2>1. /\ drift' = drift \cup {i} /\ run' = Stales(i) /\ UNCHANGED rel
        /\ \A j \in Investors \ {i} : grant'[j] = grant[j]
    BY <1>13 DEF Expire, TypeOK
  <2>2. \A j : OtherSyncs(j)
    BY <2>1, <1>k, StalesRows
  <2>3. Good(i)
    BY <2>1 DEF Good
  <2>4. \A j \in Investors \ {i} : Good(j)
    BY <2>1, <2>2, <1>2
  <2> QED
    BY <2>3, <2>4
<1>14. ASSUME NEW h \in Handlers, NEW i \in Investors, Looks(h, i)
       PROVE  \A j \in Investors : Good(j)
  <2>1. /\ run[h].pc = "idle" /\ \A k \in Handlers \ {h} : Kept(k)
        /\ UNCHANGED <<grant, rel, drift>>
    BY <1>14, LooksRows
  <2>2. \A j : OtherSyncs(j)
    BY <2>1, <1>h
  <2> QED
    BY <2>1, <2>2, <1>2
<1>w. ASSUME NEW h \in Handlers, SetPickShareWrite(h) PROVE \A j \in Investors : Good(j)
  <2>1. /\ run[h].pc \in {"sharing", "unsharing"} /\ \A k \in Handlers \ {h} : Kept(k)
        /\ UNCHANGED <<grant, rel>> /\ drift \subseteq drift'
    BY <1>w, PickRows
  <2>2. \A j : OtherSyncs(j)
    BY <2>1, <1>h
  <2> QED
    BY <2>1, <2>2, <1>2
<1>15. ASSUME DeleteProfile PROVE \A j \in Investors : Good(j)
  <2>1. \A j \in Investors : rel'[j].status = "none"
    BY <1>15, DeleteRows DEF NoRel
  <2> QED
    BY <2>1 DEF Good, Closed
<1>16. ASSUME InviteExpires PROVE \A j \in Investors : Good(j)
  BY <1>16, <1>u, <1>2 DEF InviteExpires
<1> HIDE DEF ledger
<1> QED
  BY <1>1, <1>3, <1>4, <1>5, <1>6, <1>7, <1>8, <1>9, <1>10, <1>11, <1>12, <1>13, <1>14,
     <1>15, <1>16, <1>w, Steps

(* The share of the adviser's picks and the status of the relationship. *)
LEMMA SharesNothingStep ==
    TypeOK /\ RowsOfInvestor /\ RunHasInvestor /\ NoRelNoShare /\ SharesWhileOpen
        /\ ClosedSharesNothing /\ [Next]_vars => ClosedSharesNothing'
<1> SUFFICES ASSUME TypeOK, RowsOfInvestor, RunHasInvestor, NoRelNoShare, SharesWhileOpen,
                    ClosedSharesNothing, [Next]_vars
             PROVE  ClosedSharesNothing'
  OBVIOUS
<1> DEFINE Shut == Closed \cup {"none"}
           Good(i) == i \notin drift' /\ rel'[i].status \in Shut => share'[i] # "active"
<1>1. ASSUME \A i \in Investors : Good(i) PROVE ClosedSharesNothing'
  BY <1>1 DEF ClosedSharesNothing
<1>2. ASSUME NEW i \in Investors, i \notin drift' => i \notin drift,
             rel'[i].status = rel[i].status, share'[i] = share[i]
      PROVE  Good(i)
  BY <1>2 DEF ClosedSharesNothing
<1>open. "request_pending" \notin Shut /\ "approved" \notin Shut
  BY DEF Closed
<1>c. ASSUME NEW i \in Investors, NEW b \in BOOLEAN, Creates(i, b), UNCHANGED drift
      PROVE  \A j \in Investors : Good(j)
  <2>1. /\ rel'[i].status = "request_pending" /\ UNCHANGED share
        /\ \A j \in Investors \ {i} : rel'[j] = rel[j]
    BY <1>c, CreatesRows
  <2>2. Good(i)
    BY <2>1, <1>open
  <2>3. \A j \in Investors \ {i} : Good(j)
    BY <1>c, <2>1, <1>2
  <2> QED
    BY <2>2, <2>3
<1> HIDE DEF Shut, Good
<1> USE DEF ledger
<1>3. ASSUME UNCHANGED vars PROVE \A i \in Investors : Good(i)
  <2>1. UNCHANGED <<share, rel, drift>>
    BY <1>3 DEF vars
  <2> QED
    BY <2>1, <1>2
<1>4. ASSUME NEW h \in Handlers, Event(h) PROVE \A i \in Investors : Good(i)
  <2>1. UNCHANGED <<share, rel, drift>>
    BY <1>4, EventRows
  <2> QED
    BY <2>1, <1>2
<1>5. ASSUME NEW h \in Handlers, SyncRead(h) \/ SyncFails(h) \/ InviteFails(h)
      PROVE  \A i \in Investors : Good(i)
  <2>1. UNCHANGED <<share, rel>> /\ drift \subseteq drift'
    BY <1>5 DEF SyncRead, SyncFails, InviteFails
  <2> QED
    BY <2>1, <1>2
<1>6. ASSUME NEW h \in Handlers, SyncWrite(h) PROVE \A i \in Investors : Good(i)
  <2> DEFINE i0 == run[h].inv
             act == run[h].act
             next == run[h].next
  <2>1. drift' = IF run[h].stale \/ (act = "CONSENT_GRANTED" /\ next # "approved")
                   THEN drift \cup {i0} ELSE drift \ {i0}
    BY <1>6 DEF SyncWrite
  <2>2. /\ i0 \in Investors
        /\ rel[i0].status = "none" => UNCHANGED <<rel, share>>
        /\ rel[i0].status # "none" => rel'[i0].status = next
        /\ rel[i0].status # "none" /\ act # "CONSENT_GRANTED" => share'[i0] # "active"
        /\ \A j \in Investors \ {i0} : rel'[j] = rel[j] /\ share'[j] = share[j]
    BY <1>6, SyncWriteRows
  <2>3. Good(i0)
    <3>1. CASE rel[i0].status = "none"
      BY <2>2, <3>1 DEF Good, NoRelNoShare
    <3>2. CASE rel[i0].status # "none" /\ act = "CONSENT_GRANTED"
      BY <2>1, <2>2, <3>2, <1>open DEF Good
    <3>3. CASE rel[i0].status # "none" /\ act # "CONSENT_GRANTED"
      BY <2>2, <3>3 DEF Good
    <3> QED
      BY <3>1, <3>2, <3>3
  <2>4. \A i \in Investors \ {i0} : i \notin drift' => i \notin drift
    BY <2>1
  <2>5. \A i \in Investors \ {i0} : Good(i)
    BY <2>2, <2>4, <1>2
  <2> QED
    BY <2>3, <2>5
<1>7. ASSUME NEW h \in Handlers, NEW i \in Investors, InviteRead(h, i)
      PROVE  \A j \in Investors : Good(j)
  BY <1>7, <1>2 DEF InviteRead, BeginAccept
<1>8. ASSUME NEW h \in Handlers, InviteAsk(h) PROVE \A j \in Investors : Good(j)
  BY <1>8, <1>c, InviteAskRows
<1>9. ASSUME NEW h \in Handlers, InviteAccept(h) PROVE \A j \in Investors : Good(j)
  <2> DEFINE i0 == run[h].inv
  <2>1. /\ i0 \in Investors /\ Materialize(i0) /\ rel[i0].status # "none" /\ UNCHANGED rel
        /\ drift' = IF rel[i0].status \in Closed THEN drift \cup {i0} ELSE drift
    BY <1>9 DEF InviteAccept, RunHasInvestor
  <2>2. \A j \in Investors \ {i0} : share'[j] = share[j]
    BY <2>1, ShareRows
  <2>3. Good(i0)
    BY <2>1 DEF Good, Shut
  <2>4. \A j \in Investors \ {i0} : Good(j)
    BY <2>1, <2>2, <1>2
  <2> QED
    BY <2>3, <2>4
<1>10. ASSUME NEW i \in Investors, Ask(i) PROVE \A j \in Investors : Good(j)
  BY <1>10, <1>c, AskCreates
<1>11. ASSUME NEW h \in Handlers, DisconnectWrite(h) PROVE \A j \in Investors : Good(j)
  <2> DEFINE i == run[h].inv
  <2>1. /\ i \in Investors
        /\ rel[i].status = "none" => UNCHANGED <<rel, share>>
        /\ rel[i].status # "none" => share'[i] # "active"
        /\ \A j \in Investors \ {i} : rel'[j] = rel[j] /\ share'[j] = share[j]
        /\ drift' = IF run[h].stale THEN drift \cup {i} ELSE drift \ {i}
    BY <1>11, DisconnectRows
  <2>2. Good(i)
    BY <2>1 DEF Good, NoRelNoShare
  <2>3. \A j \in Investors \ {i} : j \notin drift' => j \notin drift
    BY <2>1
  <2>4. \A j \in Investors \ {i} : Good(j)
    BY <2>1, <2>3, <1>2
  <2> QED
    BY <2>2, <2>4
<1>12. ASSUME NEW i \in Investors, NEW s \in Scopes, Expire(i, s)
       PROVE  \A j \in Investors : Good(j)
  BY <1>12, <1>2 DEF Expire
<1>13. ASSUME NEW h \in Handlers, SetPickShareWrite(h) PROVE \A j \in Investors : Good(j)
  <2> DEFINE i == run[h].inv
  <2>1. /\ run[h].pc \in {"sharing", "unsharing"} /\ i \in Investors /\ UNCHANGED rel
        /\ rel[i].status = "none" => UNCHANGED share
        /\ run[h].pc = "unsharing" /\ rel[i].status # "none" => share'[i] # "active"
        /\ \A j \in Investors \ {i} : share'[j] = share[j]
        /\ drift' = IF run[h].pc = "sharing" /\ run[h].stale /\ rel[i].status \in Closed
                      THEN drift \cup {i} ELSE drift
    BY <1>13, PickRows
  <2>2. Good(i)
    <3>1. CASE rel[i].status = "none"
      BY <2>1, <3>1 DEF Good, NoRelNoShare
    <3>2. CASE rel[i].status # "none" /\ run[h].pc = "unsharing"
      BY <2>1, <3>2 DEF Good
    <3>3. CASE rel[i].status # "none" /\ run[h].pc = "sharing"
      <4>1. profile
        BY <2>1, <3>3 DEF NoRelNoShare, TypeOK
      <4>2. run[h].stale \/ rel[i].status \notin Closed
        BY <3>3, <4>1 DEF SharesWhileOpen
      <4> QED
        BY <2>1, <3>3, <4>2 DEF Good, Shut
    <3> QED
      BY <2>1, <3>1, <3>2, <3>3
  <2>3. \A j \in Investors \ {i} : j \notin drift' => j \notin drift
    BY <2>1
  <2>4. \A j \in Investors \ {i} : Good(j)
    BY <2>1, <2>3, <1>2
  <2> QED
    BY <2>2, <2>4
<1>l. ASSUME NEW h \in Handlers, NEW i \in Investors, Looks(h, i)
      PROVE  \A j \in Investors : Good(j)
  <2>1. UNCHANGED <<rel, share, drift>>
    BY <1>l, LooksRows
  <2> QED
    BY <2>1, <1>2
<1>14. ASSUME DeleteProfile PROVE \A j \in Investors : Good(j)
  <2>1. \A j \in Investors : share'[j] = "none"
    BY <1>14, DeleteRows
  <2> QED
    BY <2>1 DEF Good
<1>15. ASSUME InviteExpires PROVE \A j \in Investors : Good(j)
  BY <1>15, <1>2 DEF InviteExpires
<1> HIDE DEF ledger
<1> QED
  BY <1>1, <1>3, <1>4, <1>5, <1>6, <1>7, <1>8, <1>9, <1>10, <1>11, <1>12, <1>13, <1>14,
     <1>15, <1>l, Steps

(* The invite and the requests that come of it. *)
LEMMA InviteStep ==
    TypeOK /\ RowsOfInvestor /\ RunHasInvestor /\ NoRelNoShare /\ InviteInOneHand
        /\ [Next]_vars => InviteInOneHand'
<1> SUFFICES ASSUME TypeOK, RowsOfInvestor, RunHasInvestor, NoRelNoShare, InviteInOneHand,
                    [Next]_vars
             PROVE  InviteInOneHand'
  OBVIOUS
<1> DEFINE Acc == {"inviting", "accepting"}
           Clean == ~invite.raced /\ faults = 0
           Steady(k) == run'[k].pc \in Acc \/ run[k].pc \in Acc => run'[k].pc = run[k].pc
           Inv1(r) == r \in Requests /\ req[r].invited
           Inv2(r) == r \in Requests /\ req'[r].invited
           None == \A r \in Requests : ~req[r].invited
           OneHand == Clean =>
              /\ \A h, k \in Handlers : run[h].pc \in Acc /\ run[k].pc \in Acc => h = k
              /\ \A r, q \in Requests : req[r].invited /\ req[q].invited => r = q
              /\ (\E h \in Handlers : run[h].pc = "inviting") => None
              /\ (invite.status = "sent" /\ \A h \in Handlers : run[h].pc \notin Acc) => None
<1>1. OneHand <=> InviteInOneHand
  BY DEF InviteInOneHand, Accepting, Invited
<1>2. OneHand' <=> InviteInOneHand'
  BY DEF InviteInOneHand, Accepting, Invited
<1>3. OneHand
  BY <1>1
<1>4. ASSUME Clean' => Clean, \A r \in Requests : req'[r].invited = req[r].invited,
             \A k \in Handlers : Steady(k),
             invite'.status = "sent" => invite.status = "sent"
      PROVE  OneHand'
  BY <1>3, <1>4
<1>u. ASSUME UNCHANGED run PROVE \A k \in Handlers : Steady(k)
  BY <1>u
<1>k. ASSUME NEW h \in Handlers, \A k \in Handlers \ {h} : Kept(k),
             run[h].pc \notin Acc, run'[h].pc \notin Acc
      PROVE  \A k \in Handlers : Steady(k)
  BY <1>k DEF Kept
<1>s. ASSUME \A k \in Handlers : Kept(k) PROVE \A k \in Handlers : Steady(k)
  BY <1>s DEF Kept
<1>m. ASSUME NEW h \in Handlers, NEW state \in RunRow, RunMoves(h, state),
             run[h].pc \notin Acc, state.pc \notin Acc
      PROVE  \A k \in Handlers : Steady(k)
  BY <1>m, <1>k, MovesRow
<1>i. Idle \in RunRow /\ Idle.pc = "idle"
  BY RunRows DEF Idle
<1>f. faults \in Nat
  BY FaultAssumption DEF TypeOK
<1> USE DEF ledger
<1>5. ASSUME UNCHANGED vars PROVE OneHand'
  <2>1. UNCHANGED <<req, run, invite, faults>>
    BY <1>5 DEF vars
  <2> QED
    BY <2>1, <1>3
<1>6. ASSUME NEW h \in Handlers, Event(h) PROVE OneHand'
  <2>1. PICK r \in Requests :
           /\ run[h].pc = "idle" /\ run'[h].pc = "syncing"
           /\ \A q \in Requests : req'[q].invited = req[q].invited
           /\ \A k \in Handlers \ {h} : Kept(k)
           /\ UNCHANGED <<invite, faults>>
    BY <1>6, EventRows
  <2>2. \A k \in Handlers : Steady(k)
    BY <2>1, <1>k
  <2> HIDE DEF Steady, OneHand
  <2> QED
    BY <2>1, <2>2, <1>4
<1>7. ASSUME NEW h \in Handlers, SyncRead(h) PROVE OneHand'
  <2> DEFINE next == NextStatus(run[h].inv, run[h].act)
             state == [run[h] EXCEPT !.pc = "writing", !.next = next]
  <2>1. next \in Statuses
    BY DEF NextStatus, Statuses
  <2>2. run[h] \in RunRow /\ state \in RunRow
    BY <2>1, Rows, RunRows
  <2> HIDE DEF next
  <2>3. state.pc = "writing"
    BY <2>2 DEF RunRow
  <2>4. /\ run[h].pc = "syncing" /\ UNCHANGED <<req, invite, faults>>
        /\ RunMoves(h, state) \/ RunMoves(h, Idle)
    BY <1>7 DEF SyncRead, next
  <2> HIDE DEF state
  <2>5. \A k \in Handlers : Steady(k)
    BY <2>2, <2>3, <2>4, <1>i, <1>m
  <2> HIDE DEF Steady, OneHand
  <2> QED
    BY <2>4, <2>5, <1>4
<1>8. ASSUME NEW h \in Handlers, SyncFails(h) PROVE OneHand'
  <2>1. /\ run[h].pc \in {"syncing", "writing"} /\ UNCHANGED <<req, invite>>
        /\ RunMoves(h, Idle) /\ faults' \in {faults, faults + 1}
    BY <1>8 DEF SyncFails
  <2>2. \A k \in Handlers : Steady(k)
    BY <2>1, <1>i, <1>m
  <2>3. Clean' => Clean
    BY <2>1, <1>f
  <2> HIDE DEF Steady, OneHand, Clean
  <2> QED
    BY <2>1, <2>2, <2>3, <1>4
<1>w. ASSUME NEW h \in Handlers, SyncWrite(h) \/ DisconnectWrite(h) \/ SetPickShareWrite(h)
      PROVE  OneHand'
  <2>1. /\ run[h].pc \in {"writing", "disconnecting", "sharing", "unsharing"}
        /\ run'[h] = Idle /\ \A k \in Handlers \ {h} : Kept(k)
        /\ \A q \in Requests : req'[q].invited = req[q].invited
        /\ UNCHANGED <<invite, faults>>
    BY <1>w, SyncWriteRows, DisconnectRows, PickRows
  <2>2. \A k \in Handlers : Steady(k)
    BY <2>1, <1>i, <1>k
  <2>3. Clean' => Clean
    BY <2>1
  <2> HIDE DEF Steady, OneHand, Clean
  <2> QED
    BY <2>1, <2>2, <2>3, <1>4
<1>9. ASSUME NEW h \in Handlers, NEW i \in Investors, InviteRead(h, i) PROVE OneHand'
  <2> DEFINE state == [Idle EXCEPT !.pc = "inviting", !.inv = i]
  <2>1. /\ RunMoves(h, state) /\ invite.status = "sent" /\ UNCHANGED <<req, faults>>
        /\ invite' = [invite EXCEPT !.raced = @ \/ Accepting # {}]
    BY <1>9 DEF InviteRead, BeginAccept
  <2>2. state \in RunRow /\ state.pc = "inviting"
    BY RunRows DEF Idle
  <2>3. invite'.raced = (invite.raced \/ Accepting # {})
    BY <2>1 DEF TypeOK, InviteRow
  <2> HIDE DEF state
  <2>4. run'[h] = state /\ \A k \in Handlers \ {h} : run'[k] = run[k]
    BY <2>1, <2>2, MovesRow
  <2> SUFFICES ASSUME Clean' PROVE OneHand'
    OBVIOUS
  <2>5. Clean /\ \A k \in Handlers : run[k].pc \notin Acc
    BY <2>1, <2>3 DEF Accepting
  <2>6. None
    BY <2>1, <2>5, <1>3
  <2> QED
    BY <2>1, <2>2, <2>4, <2>5, <2>6
<1>10. ASSUME NEW h \in Handlers, InviteAsk(h) PROVE OneHand'
  <2>1. /\ run[h].pc = "inviting" /\ run'[h].pc = "accepting"
        /\ \A k \in Handlers \ {h} : Kept(k)
        /\ Creates(run[h].inv, TRUE) /\ run[h].inv \in Investors
    BY <1>10, InviteAskRows
  <2>2. PICK r \in Requests : \A q \in Requests \ {r} : req'[q] = req[q]
    BY <1>10, InviteAskRows
  <2>3. UNCHANGED <<invite, faults>>
    BY <2>1, CreatesRows
  <2>4. \A k \in Handlers \ {h} : run'[k].pc = run[k].pc
    BY <2>1 DEF Kept
  <2> QED
    BY <2>1, <2>2, <2>3, <2>4, <1>3
<1>11. ASSUME NEW h \in Handlers, InviteAccept(h) PROVE OneHand'
  <2>1. /\ RunMoves(h, Idle) /\ UNCHANGED <<req, faults>> /\ run[h].pc = "accepting"
        /\ invite' = IF invite.status = "sent"
                       THEN [invite EXCEPT !.status = "accepted", !.by = run[h].inv] ELSE invite
    BY <1>11 DEF InviteAccept
  <2>2. invite'.status # "sent" /\ invite'.raced = invite.raced
    BY <2>1 DEF TypeOK, InviteRow
  <2>3. run'[h] = Idle /\ \A k \in Handlers \ {h} : run'[k] = run[k]
    BY <2>1, <1>i, MovesRow
  <2> QED
    BY <2>1, <2>2, <2>3, <1>3, <1>i
<1>12. ASSUME NEW h \in Handlers, InviteFails(h) PROVE OneHand'
  <2>1. /\ RunMoves(h, Idle) /\ UNCHANGED <<req, invite>> /\ run[h].pc \in Acc
        /\ (~profile /\ UNCHANGED faults) \/ faults' = faults + 1
    BY <1>12 DEF InviteFails
  <2>2. CASE faults' = faults + 1
    BY <2>2, <1>f
  <2>3. CASE ~profile /\ UNCHANGED faults
    <3>1. invite.status = "expired"
      BY <2>3 DEF NoRelNoShare
    <3>2. run'[h] = Idle /\ \A k \in Handlers \ {h} : run'[k] = run[k]
      BY <2>1, <1>i, MovesRow
    <3> QED
      BY <2>1, <2>3, <3>1, <3>2, <1>3, <1>i
  <2> QED
    BY <2>1, <2>2, <2>3
<1>13. ASSUME NEW i \in Investors, Ask(i) PROVE OneHand'
  <2>1. Creates(i, FALSE) /\ run' = Stales(i)
    BY <1>13, AskCreates
  <2>2. \A q \in Requests : req'[q].invited = req[q].invited
    <3>1. PICK A \in SUBSET Requests :
           /\ \A r \in A : req[r] = Unasked
           /\ \A q \in A : req'[q].invited = FALSE
           /\ \A q \in Requests \ A : req'[q] = req[q]
           /\ req' \in [Requests -> RequestRow]
      BY <2>1, CreatesRows
    <3>2. Unasked.invited = FALSE
      BY DEF Unasked
    <3>3. \A q \in Requests : req'[q].invited \in BOOLEAN /\ req[q].invited \in BOOLEAN
      BY <3>1, Rows, RowFields
    <3>4. \A q \in A : ~req'[q].invited /\ ~req[q].invited
      BY <3>1, <3>2
    <3> QED
      BY <3>1, <3>3, <3>4
  <2>3. UNCHANGED <<invite, faults>>
    BY <2>1, CreatesRows
  <2>4. \A k \in Handlers : Steady(k)
    BY <2>1, <1>s, StalesRows
  <2> HIDE DEF Steady, OneHand
  <2> QED
    BY <2>2, <2>3, <2>4, <1>4
<1>14. ASSUME NEW h \in Handlers, NEW i \in Investors, Looks(h, i) PROVE OneHand'
  <2>1. /\ run[h].pc = "idle" /\ run'[h].pc \notin Acc
        /\ \A k \in Handlers \ {h} : Kept(k) /\ UNCHANGED <<req, invite, faults>>
    BY <1>14, LooksRows
  <2>2. \A k \in Handlers : Steady(k)
    BY <2>1, <1>k
  <2>3. Clean' => Clean
    BY <1>14, LooksRows
  <2>4. UNCHANGED <<req, invite, faults>>
    BY <1>14, LooksRows
  <2> HIDE DEF Steady, OneHand, Clean
  <2> QED
    BY <2>2, <2>3, <2>4, <1>4
<1>15. ASSUME NEW i \in Investors, NEW s \in Scopes, Expire(i, s) PROVE OneHand'
  <2>1. run' = Stales(i) /\ UNCHANGED <<req, invite, faults>>
    BY <1>15 DEF Expire
  <2>2. \A k \in Handlers : Steady(k)
    BY <2>1, <1>s, StalesRows
  <2> HIDE DEF Steady, OneHand
  <2> QED
    BY <2>1, <2>2, <1>4
<1>17. ASSUME DeleteProfile PROVE OneHand'
  <2>1. /\ \A q \in Requests : req'[q].invited = req[q].invited
        /\ invite'.raced = invite.raced /\ invite'.status = "expired"
        /\ UNCHANGED <<run, faults>>
    BY <1>17, DeleteRows
  <2> QED
    BY <2>1, <1>3
<1>18. ASSUME InviteExpires PROVE OneHand'
  <2>1. UNCHANGED <<req, run, faults>> /\ invite'.status = "expired"
        /\ invite'.raced = invite.raced
    BY <1>18 DEF InviteExpires, TypeOK, InviteRow
  <2> QED
    BY <2>1, <1>3
<1> HIDE DEF ledger, OneHand
<1>19. OneHand'
  BY <1>5, <1>6, <1>7, <1>8, <1>w, <1>9, <1>10, <1>11, <1>12, <1>13, <1>14, <1>15, <1>17,
     <1>18, Steps
<1> QED
  BY <1>2, <1>19

-----------------------------------------------------------------------------
(* The inductive invariant holds in every reachable state. *)

LEMMA InitSafety == Init => SafetyInv
<1> SUFFICES ASSUME Init PROVE SafetyInv
  OBVIOUS
<1>1. /\ \A r \in Requests : req[r] = Unasked
      /\ \A i \in Investors, s \in Scopes : grant[i][s] = NoGrant
      /\ \A i \in Investors : rel[i] = NoRel /\ share[i] = "none"
      /\ \A h \in Handlers : run[h] = Idle
      /\ profile = TRUE /\ faults = 0
      /\ invite = [status |-> "sent", by |-> NoInvestor, raced |-> FALSE]
  BY DEF Init
<1>2. /\ Unasked.last = "none" /\ Unasked.inv = NoInvestor /\ Unasked.invited = FALSE
      /\ NoGrant.st = "none" /\ NoRel.status = "none" /\ NoRel.last = NoRequest
      /\ Idle.pc = "idle"
  BY DEF Unasked, NoGrant, NoRel, Idle
<1>3. TypeOK
  <2>1. invite \in InviteRow
    BY <1>1 DEF InviteRow
  <2>2. "none" \in Row /\ "none" \in Shares /\ 0 \in 0..MaxFaults
    BY FaultAssumption DEF Row, Shares
  <2> QED
    BY <2>1, <2>2, RequestRows, GrantRows, RelRows, RunRows DEF Init, TypeOK
<1>4. RowsOfInvestor /\ RunHasInvestor /\ WritesWhatIsTrue /\ NoRelNoShare
  BY <1>1, <1>2, NoneAssumption DEF RowsOfInvestor, RunHasInvestor, WritesWhatIsTrue, NoRelNoShare
<1>7. CutsWhatIsActive /\ SharesWhileOpen
  BY <1>1, <1>2 DEF CutsWhatIsActive, SharesWhileOpen
<1>5. StatusTracksLedger /\ ClosedSharesNothing
  BY <1>1, <1>2 DEF StatusTracksLedger, ClosedSharesNothing, Closed
<1>6. InviteInOneHand
  BY <1>1, <1>2 DEF InviteInOneHand, Accepting, Invited
<1> QED
  BY <1>3, <1>4, <1>5, <1>6, <1>7 DEF SafetyInv

LEMMA SafetyStep == SafetyInv /\ [Next]_vars => SafetyInv'
  BY TypeStep, RowsStep, RunStep, TruthStep, NoRelStep, CutsStep, SharesOpenStep, TracksStep,
     SharesNothingStep, InviteStep DEF SafetyInv

LEMMA SafetyAlways == Spec => []SafetyInv
  BY InitSafety, SafetyStep, PTL DEF Spec

(* At most one request is invited, so the set has at most one member. *)
LEMMA OneHandUsesOnce == TypeOK /\ InviteInOneHand => InviteUsedOnce
<1> SUFFICES ASSUME TypeOK, InviteInOneHand, ~invite.raced, ~(faults > 0)
             PROVE  ~(Cardinality(Invited) > 1)
  BY DEF InviteUsedOnce, Invited
<1>1. \A r, q \in Invited : r = q
  BY FaultAssumption DEF InviteInOneHand, TypeOK
<1> HIDE DEF Invited
<1>2. CASE Invited = {}
  <2>1. Cardinality(Invited) = 0
    BY <1>2, FS_EmptySet
  <2> QED
    BY <2>1
<1>3. CASE Invited # {}
  <2>1. PICK r \in Invited : TRUE
    BY <1>3
  <2>2. Invited = {r}
    BY <1>1, <2>1
  <2>3. Cardinality({r}) = 1
    BY FS_Singleton
  <2> QED
    BY <2>2, <2>3
<1> QED
  BY <1>2, <1>3

(* The tables of the relationship agent and the steps of its handlers keep *)
(* their types.                                                            *)
THEOREM TypeCorrect == Spec => []TypeOK
<1>1. SafetyInv => TypeOK
  BY DEF SafetyInv
<1> QED
  BY <1>1, SafetyAlways, PTL

(* sync_relationship_from_consent_action: with no synchronisation under    *)
(* way and none of the listed exceptions, an approved relationship has a   *)
(* grant in force and a closed one has none.                               *)
THEOREM TracksLedger == Spec => []StatusTracksLedger
<1>1. SafetyInv => StatusTracksLedger
  BY DEF SafetyInv
<1> QED
  BY <1>1, SafetyAlways, PTL

(* Outside the same exceptions a closed or deleted relationship shares no  *)
(* picks.                                                                  *)
THEOREM SharesNothing == Spec => []ClosedSharesNothing
<1>1. SafetyInv => ClosedSharesNothing
  BY DEF SafetyInv
<1> QED
  BY <1>1, SafetyAlways, PTL

(* accept_ria_invite: two requests come of one invite only if acceptances  *)
(* overlapped or one failed half way, for any number of handlers.          *)
THEOREM UsedOnce == Spec => []InviteUsedOnce
<1>1. SafetyInv => InviteUsedOnce
  BY OneHandUsesOnce DEF SafetyInv
<1> QED
  BY <1>1, SafetyAlways, PTL

=============================================================================
