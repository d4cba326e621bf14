----------------------- MODULE LocationSharingProofs -----------------------
(* Proofs about LocationSharing, for every set of recipients, shares,      *)
(* requests and handlers.                                                  *)
EXTENDS LocationSharing, TLAPS

(* The rows that the steps write are rows of their tables. *)
LEMMA ShareRows ==
    /\ NewShare \in ShareRow
    /\ \A row \in ShareRow, b \in BOOLEAN :
         /\ [row EXCEPT !.due = b] \in ShareRow
         /\ [row EXCEPT !.env = b] \in ShareRow
         /\ End(row) \in ShareRow
         /\ [NewShare EXCEPT !.st = "purged", !.to = row.to] \in ShareRow
    /\ \A u \in Recipients \cup {NoRecipient}, r \in Requests \cup {NoRequest} :
         [NewShare EXCEPT !.st = "active", !.to = u, !.from = r] \in ShareRow
  BY DEF ShareRow, ShareStatus, NewShare, End

LEMMA RequestRows ==
    /\ NewRequest \in RequestRow
    /\ \A row \in RequestRow, st \in RequestStatus :
         /\ [row EXCEPT !.st = st] \in RequestRow
         /\ [NewRequest EXCEPT !.st = st] \in RequestRow
    /\ \A u, v \in Recipients \cup {NoRecipient} :
         [st |-> "pending", by |-> u, ref |-> v] \in RequestRow
  BY DEF RequestRow, RequestStatus, NewRequest

LEMMA RunRows ==
    /\ Idle \in RunRow
    /\ \A row \in RunRow, pc \in Pcs : [row EXCEPT !.pc = pc] \in RunRow
    /\ \A row \in RunRow, pc \in Pcs, s \in Shares \cup {NoShare} :
         [row EXCEPT !.pc = pc, !.s = s] \in RunRow
    /\ \A row \in RunRow, pc \in Pcs, r \in Requests \cup {NoRequest} :
         [row EXCEPT !.pc = pc, !.r = r] \in RunRow
    /\ \A row \in RunRow, s \in Shares : [row EXCEPT !.seen = @ \cup {s}] \in RunRow
    /\ \A pc \in Pcs, u \in Recipients : [Idle EXCEPT !.pc = pc, !.u = u] \in RunRow
    /\ \A pc \in Pcs, u \in Recipients, r \in Requests :
         [Idle EXCEPT !.pc = pc, !.u = u, !.r = r] \in RunRow
    /\ \A pc \in Pcs, u \in Recipients, s \in Shares :
         [Idle EXCEPT !.pc = pc, !.u = u, !.s = s] \in RunRow
    /\ \A pc \in Pcs, s \in Shares, late \in BOOLEAN :
         [Idle EXCEPT !.pc = pc, !.s = s, !.late = late] \in RunRow
<1> USE DEF RunRow, Pcs, Idle
<1>1. Idle \in RunRow
  OBVIOUS
<1>2. \A row \in RunRow, pc \in Pcs : [row EXCEPT !.pc = pc] \in RunRow
  OBVIOUS
<1>3. \A row \in RunRow, pc \in Pcs, s \in Shares \cup {NoShare} :
         [row EXCEPT !.pc = pc, !.s = s] \in RunRow
  OBVIOUS
<1>4. \A row \in RunRow, pc \in Pcs, r \in Requests \cup {NoRequest} :
         [row EXCEPT !.pc = pc, !.r = r] \in RunRow
  OBVIOUS
<1>5. \A row \in RunRow, s \in Shares : [row EXCEPT !.seen = @ \cup {s}] \in RunRow
  OBVIOUS
<1>6. \A pc \in Pcs, u \in Recipients : [Idle EXCEPT !.pc = pc, !.u = u] \in RunRow
  OBVIOUS
<1>7. \A pc \in Pcs, u \in Recipients, r \in Requests :
         [Idle EXCEPT !.pc = pc, !.u = u, !.r = r] \in RunRow
  OBVIOUS
<1>8. \A pc \in Pcs, u \in Recipients, s \in Shares :
         [Idle EXCEPT !.pc = pc, !.u = u, !.s = s] \in RunRow
  OBVIOUS
<1>9. \A pc \in Pcs, s \in Shares, late \in BOOLEAN :
         [Idle EXCEPT !.pc = pc, !.s = s, !.late = late] \in RunRow
  OBVIOUS
<1> HIDE DEF RunRow, Pcs, Idle
<1> QED
  BY <1>1, <1>2, <1>3, <1>4, <1>5, <1>6, <1>7, <1>8, <1>9

(* The fields of a row have their types. *)
LEMMA RowFields ==
    /\ \A row \in ShareRow :
         /\ row.st \in ShareStatus /\ row.due \in BOOLEAN /\ row.env \in BOOLEAN
         /\ row.to \in Recipients \cup {NoRecipient} /\ row.from \in Requests \cup {NoRequest}
    /\ \A row \in RequestRow :
         /\ row.st \in RequestStatus /\ row.by \in Recipients \cup {NoRecipient}
         /\ row.ref \in Recipients \cup {NoRecipient}
    /\ \A row \in RunRow :
         /\ row.pc \in Pcs /\ row.s \in Shares \cup {NoShare}
         /\ row.r \in Requests \cup {NoRequest} /\ row.u \in Recipients \cup {NoRecipient}
         /\ row.late \in BOOLEAN /\ row.seen \in SUBSET Shares
  BY DEF ShareRow, RequestRow, RunRow

(* A handler's move keeps the handlers typed. *)
LEMMA GoesType ==
    ASSUME TypeOK, NEW h \in Handlers, NEW state \in RunRow, Goes(h, state)
    PROVE  run' \in [Handlers -> RunRow]
  BY DEF TypeOK, Goes

(* What housekeeping does to one row: a share ends, goes or stays, a       *)
(* request goes or stays, and nothing new appears.                         *)
LEMMA HousekeepRows ==
    ASSUME TypeOK, NEW mine \in SUBSET Shares, NEW asked \in SUBSET Requests,
           Housekeep(mine, asked)
    PROVE  /\ share' \in [Shares -> ShareRow]
           /\ req' \in [Requests -> RequestRow]
           /\ referral' \in SUBSET (Requests \X Shares)
           /\ keyed' = keyed
           /\ \A s \in Shares :
                \/ share'[s] = share[s] /\ (s \in mine => ~(share[s].st = "active" /\ share[s].due))
                \/ share'[s] = End(share[s]) /\ share[s].st = "active"
                \/ /\ share'[s].st = "purged" /\ share[s].st = "ended"
                   /\ share'[s].from = NoRequest
           /\ \A r \in Requests :
                \/ req'[r] = req[r]
                \/ req'[r].st = "purged" /\ req[r].st \in {"approved", "denied"}
<1>1. PICK gone \in SUBSET {s \in mine : share[s].st = "ended"},
           done \in SUBSET {r \in Requests : req[r].st \in {"approved", "denied"}} :
        /\ share' = [s \in Shares |->
                       CASE s \in gone -> [NewShare EXCEPT !.st = "purged", !.to = share[s].to]
                         [] s \in mine /\ share[s].st = "active" /\ share[s].due
                              -> End(share[s])
                         [] OTHER -> share[s]]
        /\ req' = [r \in Requests |-> IF r \in done
                     THEN [NewRequest EXCEPT !.st = "purged"] ELSE req[r]]
        /\ referral' \in SUBSET referral
        /\ keyed' = keyed
  <2>1. PICK gone \in SUBSET {s \in mine : share[s].st = "ended"},
             old \in SUBSET {r \in asked : req[r].st \in {"approved", "denied"}} :
          LET done == old \cup {r \in Requests : req[r].st = "approved"
                                    /\ \E s \in gone : share[s].from = r}
          IN  /\ share' = [s \in Shares |->
                             CASE s \in gone -> [NewShare EXCEPT !.st = "purged", !.to = share[s].to]
                               [] s \in mine /\ share[s].st = "active" /\ share[s].due
                                    -> End(share[s])
                               [] OTHER -> share[s]]
              /\ req' = [r \in Requests |-> IF r \in done
                           THEN [NewRequest EXCEPT !.st = "purged"] ELSE req[r]]
              /\ referral' = {p \in referral : p[1] \notin done /\ p[2] \notin gone}
              /\ UNCHANGED keyed
    BY DEF Housekeep
  <2> DEFINE done == old \cup {r \in Requests : req[r].st = "approved"
                                    /\ \E s \in gone : share[s].from = r}
  <2>2. done \in SUBSET {r \in Requests : req[r].st \in {"approved", "denied"}}
    OBVIOUS
  <2> QED
    BY <2>1, <2>2
<1>2. \A s \in Shares :
        \/ s \in gone /\ share'[s] = [NewShare EXCEPT !.st = "purged", !.to = share[s].to]
        \/ /\ s \notin gone /\ s \in mine /\ share[s].st = "active" /\ share[s].due
           /\ share'[s] = End(share[s])
        \/ /\ s \notin gone /\ ~(s \in mine /\ share[s].st = "active" /\ share[s].due)
           /\ share'[s] = share[s]
  BY <1>1
<1>3. share' \in [Shares -> ShareRow]
  <2>1. \A s \in Shares : share'[s] \in ShareRow
    BY <1>2, ShareRows DEF TypeOK
  <2> QED
    BY <1>1, <2>1
<1>4. req' \in [Requests -> RequestRow]
  <2>1. [NewRequest EXCEPT !.st = "purged"] \in RequestRow
    BY RequestRows DEF RequestStatus
  <2> QED
    BY <1>1, <2>1 DEF TypeOK
<1>5. \A r \in Requests :
        \/ req'[r] = req[r]
        \/ req'[r].st = "purged" /\ req[r].st \in {"approved", "denied"}
  BY <1>1 DEF NewRequest
<1>6. \A s \in Shares :
        \/ share'[s] = share[s] /\ (s \in mine => ~(share[s].st = "active" /\ share[s].due))
        \/ share'[s] = End(share[s]) /\ share[s].st = "active"
        \/ /\ share'[s].st = "purged" /\ share[s].st = "ended"
           /\ share'[s].from = NoRequest
  BY <1>2 DEF NewShare
<1> QED
  BY <1>1, <1>3, <1>4, <1>5, <1>6 DEF TypeOK

(* TypeOK is preserved, given that the handlers' steps have their subjects.*)
LEMMA TypeStep == TypeOK /\ RunHasSubject /\ [Next]_vars => TypeOK'
<1> SUFFICES ASSUME TypeOK, RunHasSubject, [Next]_vars PROVE TypeOK'
  OBVIOUS
<1> USE DEF TypeOK, ghosts, tables
<1>pcs. /\ \A pc \in {"idle", "ending", "inserting", "resolving", "storing",
                      "viewing", "reading", "asking", "adding", "referring"} : pc \in Pcs
        /\ \A st \in {"approved", "denied"} : st \in RequestStatus
  BY DEF Pcs, RequestStatus
<1>rows. \A h \in Handlers : run[h] \in RunRow
  OBVIOUS
<1>idle. ASSUME NEW h \in Handlers, Goes(h, Idle) PROVE run' \in [Handlers -> RunRow]
  BY <1>idle, GoesType, RunRows
<1>pc. ASSUME NEW h \in Handlers, NEW pc \in Pcs, Goes(h, [run[h] EXCEPT !.pc = pc])
       PROVE  run' \in [Handlers -> RunRow]
  <2>1. [run[h] EXCEPT !.pc = pc] \in RunRow
    BY <1>rows, RunRows
  <2> QED
    BY <1>pc, <2>1, GoesType
<1>1. CASE UNCHANGED vars
  BY <1>1 DEF vars
<1>2. ASSUME NEW s \in Shares, Deadline(s) \/ RevokeGrant(s) PROVE TypeOK'
  <2>1. [share[s] EXCEPT !.due = TRUE] \in ShareRow /\ End(share[s]) \in ShareRow
    BY ShareRows
  <2> QED
    BY <1>2, <2>1 DEF Deadline, RevokeGrant
<1>3. ASSUME NEW r \in Requests, DenyRequest(r) PROVE TypeOK'
  <2>1. [req[r] EXCEPT !.st = "denied"] \in RequestRow
    BY <1>pcs, RequestRows
  <2> QED
    BY <1>3, <2>1 DEF DenyRequest
<1>4. ASSUME NEW u \in Recipients, RotateKeys(u) \/ StoreKey(u) PROVE TypeOK'
  BY <1>4 DEF RotateKeys, StoreKey
<1>5. ASSUME NEW h \in Handlers, NEW u \in Recipients, CreateGrant(h, u) \/ Ask(h, u)
      PROVE  TypeOK'
  <2>1. /\ [Idle EXCEPT !.pc = "ending", !.u = u] \in RunRow
        /\ [Idle EXCEPT !.pc = "asking", !.u = u] \in RunRow
    BY RunRows, <1>pcs
  <2>2. run' \in [Handlers -> RunRow]
    BY <1>5, <2>1, GoesType DEF CreateGrant, Ask
  <2> QED
    BY <1>5, <2>2 DEF CreateGrant, Ask
<1>6. ASSUME NEW h \in Handlers, NEW s \in Shares, InsertShare(h, s) PROVE TypeOK'
  <2>1. share' \in [Shares -> ShareRow]
    <3>1. [NewShare EXCEPT !.st = "active", !.to = run[h].u, !.from = run[h].r] \in ShareRow
      BY <1>rows, RowFields, ShareRows
    <3> QED
      BY <1>6, <3>1 DEF InsertShare
  <2>2. run' \in [Handlers -> RunRow]
    <3>1. [run[h] EXCEPT !.pc = "resolving", !.s = s] \in RunRow
      BY <1>rows, <1>pcs, RunRows
    <3>2. \A k \in Handlers : [run[k] EXCEPT !.seen = @ \cup {s}] \in RunRow
      BY <1>rows, RunRows
    <3>3. Idle \in RunRow
      BY RunRows
    <3> QED
      BY <1>6, <1>rows, <3>1, <3>2, <3>3 DEF InsertShare
  <2>3. overlap' \in SUBSET SUBSET Shares
    <3>1. run[h].seen \in SUBSET Shares
      BY <1>rows, RowFields
    <3> QED
      BY <1>6, <3>1 DEF InsertShare
  <2> QED
    BY <1>6, <2>1, <2>2, <2>3 DEF InsertShare
<1>7. ASSUME NEW h \in Handlers, NEW s \in Shares, StoreRead(h, s) PROVE TypeOK'
  <2>1. CASE Housekeep(Shares, Requests) /\ UNCHANGED run
    BY <1>7, <2>1, HousekeepRows DEF StoreRead
  <2>2. CASE Goes(h, [Idle EXCEPT !.pc = "storing", !.s = s]) /\ UNCHANGED tables
    <3>1. [Idle EXCEPT !.pc = "storing", !.s = s] \in RunRow
      BY RunRows, <1>pcs
    <3>2. run' \in [Handlers -> RunRow]
      BY <2>2, <3>1, GoesType
    <3> QED
      BY <1>7, <2>2, <3>2 DEF StoreRead
  <2> QED
    BY <1>7, <2>1, <2>2 DEF StoreRead
<1>8. ASSUME NEW h \in Handlers, NEW s \in Shares, ViewBegin(h, s) PROVE TypeOK'
  <2> DEFINE mine == {t \in Shares : share[t].to = share[s].to}
             asked == {r \in Requests : share[s].to \in {req[r].by, req[r].ref}}
  <2>1. Housekeep(mine, asked)
    BY <1>8 DEF ViewBegin, ViewClean
  <2>2. mine \in SUBSET Shares /\ asked \in SUBSET Requests
    OBVIOUS
  <2> HIDE DEF mine, asked
  <2>3. [Idle EXCEPT !.pc = "viewing", !.s = s, !.late = ~Live(s)] \in RunRow
    BY RunRows, <1>pcs DEF Live
  <2>4. run' \in [Handlers -> RunRow]
    BY <1>8, <2>3, GoesType DEF ViewBegin
  <2> QED
    BY <1>8, <2>1, <2>2, <2>4, HousekeepRows DEF ViewBegin
<1>9. ASSUME NEW h \in Handlers, NEW s \in Shares, NEW u \in Recipients, ReferRead(h, s, u)
      PROVE  TypeOK'
  <2>1. [Idle EXCEPT !.pc = "asking", !.u = u, !.s = s] \in RunRow
    BY RunRows, <1>pcs
  <2>2. run' \in [Handlers -> RunRow]
    BY <1>9, <2>1, GoesType DEF ReferRead
  <2> QED
    BY <1>9, <2>2 DEF ReferRead
<1>10. ASSUME NEW h \in Handlers, NEW r \in Requests, ApproveRead(h, r) PROVE TypeOK'
  <2>1. req[r].by \in Recipients
    BY <1>10 DEF ApproveRead
  <2>2. [Idle EXCEPT !.pc = "ending", !.u = req[r].by, !.r = r] \in RunRow
    BY <2>1, RunRows, <1>pcs
  <2>3. run' \in [Handlers -> RunRow]
    BY <1>10, <2>2, GoesType DEF ApproveRead
  <2> QED
    BY <1>10, <2>3 DEF ApproveRead
<1>11. ASSUME NEW h \in Handlers, NEW r \in Requests PROVE Asked(h, r) \in RunRow
  BY <1>rows, <1>pcs, RunRows DEF Asked
<1>12. ASSUME NEW h \in Handlers, NEW r \in Requests, AskInsert(h, r) PROVE TypeOK'
  <2>1. run[h].u \in Recipients \cup {NoRecipient} /\ run[h].s \in Shares \cup {NoShare}
    BY <1>rows, RowFields
  <2>2. Referrer(h) \in Recipients \cup {NoRecipient}
    BY <2>1, RowFields DEF Referrer
  <2>3. [st |-> "pending", by |-> run[h].u, ref |-> Referrer(h)] \in RequestRow
    BY <2>1, <2>2, RequestRows
  <2>4. run' \in [Handlers -> RunRow]
    BY <1>12, <1>11, GoesType DEF AskInsert
  <2> QED
    BY <1>12, <2>3, <2>4 DEF AskInsert
<1>13. ASSUME NEW h \in Handlers, EndActive(h) PROVE TypeOK'
  <2>1. \A s \in Shares : End(share[s]) \in ShareRow
    BY ShareRows
  <2>2. run' \in [Handlers -> RunRow]
    BY <1>13, <1>pc, <1>pcs DEF EndActive
  <2> QED
    BY <1>13, <2>1, <2>2 DEF EndActive
<1>14. ASSUME NEW h \in Handlers, ApproveResolve(h) PROVE TypeOK'
  <2>1. \A r \in Requests : [req[r] EXCEPT !.st = "approved"] \in RequestRow
    BY <1>pcs, RequestRows
  <2>2. run' \in [Handlers -> RunRow]
    BY <1>14, <1>idle DEF ApproveResolve
  <2> QED
    BY <1>14, <2>1, <2>2 DEF ApproveResolve
<1>15. ASSUME NEW h \in Handlers, StoreInsert(h) PROVE TypeOK'
  <2> DEFINE env == share[run[h].s].env \/ share[run[h].s].st # "purged"
  <2>1. [share[run[h].s] EXCEPT !.env = env] \in ShareRow
    BY <1>15, ShareRows, RowFields DEF StoreInsert, RunHasSubject, At
  <2>2. run' \in [Handlers -> RunRow]
    BY <1>15, <1>idle DEF StoreInsert
  <2> QED
    BY <1>15, <2>1, <2>2 DEF StoreInsert
<1>16. ASSUME NEW h \in Handlers, ViewRead(h) PROVE TypeOK'
  <2>1. Goes(h, [run[h] EXCEPT !.pc = "reading"]) \/ Goes(h, Idle)
    BY <1>16 DEF ViewRead
  <2>2. run' \in [Handlers -> RunRow]
    BY <2>1, <1>pc, <1>idle, <1>pcs
  <2> QED
    BY <1>16, <2>2 DEF ViewRead
<1>17. ASSUME NEW h \in Handlers, ViewServe(h) PROVE TypeOK'
  <2>1. run' \in [Handlers -> RunRow]
    BY <1>17, <1>idle DEF ViewServe
  <2> QED
    BY <1>17, <2>1 DEF ViewServe, RunHasSubject, At
<1>18. ASSUME NEW h \in Handlers, AskRead(h) PROVE TypeOK'
  <2>1. \/ Goes(h, [run[h] EXCEPT !.pc = "adding"])
        \/ \E r \in Requests : Goes(h, Asked(h, r))
    BY <1>18 DEF AskRead
  <2>2. run' \in [Handlers -> RunRow]
    BY <2>1, <1>11, <1>pc, <1>pcs, GoesType
  <2> QED
    BY <1>18, <2>2 DEF AskRead
<1>19. ASSUME NEW h \in Handlers, ReferInsert(h) PROVE TypeOK'
  <2>1. run' \in [Handlers -> RunRow]
    BY <1>19, <1>idle DEF ReferInsert
  <2> QED
    BY <1>19, <2>1 DEF ReferInsert, RunHasSubject, At
<1>20. ASSUME NEW h \in Handlers, Fails(h) PROVE TypeOK'
  <2>1. run' \in [Handlers -> RunRow]
    BY <1>20, <1>idle DEF Fails
  <2> QED
    BY <1>20, <2>1 DEF Fails, RunHasSubject, At
<1>21. CASE ListState
  BY <1>21, HousekeepRows DEF ListState
<1> HIDE DEF TypeOK
<1> QED
  BY <1>1, <1>2, <1>3, <1>4, <1>5, <1>6, <1>7, <1>8, <1>9, <1>10, <1>12, <1>13,
     <1>14, <1>15, <1>16, <1>17, <1>18, <1>19, <1>20, <1>21 DEF Next

(* Housekeeping never begins a share: it only ends or removes some. *)
LEMMA HousekeepActive ==
    ASSUME TypeOK, NEW mine \in SUBSET Shares, NEW asked \in SUBSET Requests,
           Housekeep(mine, asked)
    PROVE  /\ \A s \in Shares : share'[s].st = "active" => share'[s] = share[s]
           /\ \A s \in Shares : share[s].st \in {"ended", "purged"}
                                  => share'[s].st \in {"ended", "purged"}
           /\ \A s \in Shares : s \in mine /\ share[s].st = "active" /\ share[s].due
                                  => share'[s].st = "ended"
           /\ \A s \in Shares : share'[s].from \in {share[s].from, NoRequest}
           /\ \A r \in Requests : req'[r].st \in {"none", "pending", "denied"}
                                    => req'[r] = req[r]
           /\ \A r \in Requests : req[r].st # "none" => req'[r].st # "none"
<1>0. \A s \in Shares :
        \/ share'[s] = share[s] /\ (s \in mine => ~(share[s].st = "active" /\ share[s].due))
        \/ share'[s] = End(share[s]) /\ share[s].st = "active"
        \/ /\ share'[s].st = "purged" /\ share[s].st = "ended"
           /\ share'[s].from = NoRequest
  BY HousekeepRows
<1>1. \A s \in Shares : share[s] \in ShareRow
  BY DEF TypeOK
<1>2. \A row \in ShareRow : End(row).st = "ended" /\ End(row).from = row.from
  BY DEF ShareRow, End
<1>3. \A s \in Shares :
        \/ share'[s] = share[s] /\ (s \in mine => ~(share[s].st = "active" /\ share[s].due))
        \/ /\ share'[s].st = "ended" /\ share'[s].from = share[s].from
           /\ share[s].st = "active"
        \/ /\ share'[s].st = "purged" /\ share[s].st = "ended"
           /\ share'[s].from = NoRequest
  BY <1>0, <1>1, <1>2
<1>4. \A r \in Requests :
        \/ req'[r] = req[r]
        \/ req'[r].st = "purged" /\ req[r].st \in {"approved", "denied"}
  BY HousekeepRows
<1>5. /\ \A r \in Requests : req'[r].st \in {"none", "pending", "denied"} => req'[r] = req[r]
      /\ \A r \in Requests : req[r].st # "none" => req'[r].st # "none"
  BY <1>4
<1> QED
  BY <1>3, <1>5

(* What a handler's step does to its own row and to the others'. *)
LEMMA GoesRow ==
    ASSUME TypeOK, NEW h \in Handlers, NEW state, Goes(h, state)
    PROVE  run'[h] = state /\ \A k \in Handlers \ {h} : run'[k] = run[k]
  BY DEF TypeOK, Goes

LEMMA SubjectStep == TypeOK /\ RunHasSubject /\ [Next]_vars => RunHasSubject'
<1> SUFFICES ASSUME TypeOK, RunHasSubject, [Next]_vars PROVE RunHasSubject'
  OBVIOUS
<1> USE DEF At, Idle
<1>0. ASSUME UNCHANGED run PROVE RunHasSubject'
  BY <1>0 DEF RunHasSubject
<1>g. ASSUME NEW h \in Handlers, NEW state, Goes(h, state),
             state.pc \in {"resolving", "storing", "viewing", "reading", "referring"}
               => state.s \in Shares,
             state.pc \in {"resolving", "referring"} => state.r \in Requests
      PROVE  RunHasSubject'
  BY <1>g, GoesRow DEF RunHasSubject
<1>1. CASE UNCHANGED vars
  BY <1>1, <1>0 DEF vars
<1>2. ASSUME NEW s \in Shares, Deadline(s) \/ RevokeGrant(s) PROVE RunHasSubject'
  BY <1>2, <1>0 DEF Deadline, RevokeGrant
<1>3. ASSUME NEW r \in Requests, DenyRequest(r) PROVE RunHasSubject'
  BY <1>3, <1>0 DEF DenyRequest
<1>4. ASSUME NEW u \in Recipients, RotateKeys(u) \/ StoreKey(u) PROVE RunHasSubject'
  BY <1>4, <1>0 DEF RotateKeys, StoreKey
<1>5. ASSUME NEW h \in Handlers, NEW u \in Recipients, CreateGrant(h, u) \/ Ask(h, u)
      PROVE  RunHasSubject'
  BY <1>5, <1>g DEF CreateGrant, Ask
<1>6. ASSUME NEW h \in Handlers, NEW s \in Shares, InsertShare(h, s) PROVE RunHasSubject'
  <2>1. ASSUME NEW k \in Handlers, k # h
        PROVE  run'[k].pc = run[k].pc /\ run'[k].s = run[k].s /\ run'[k].r = run[k].r
    BY <1>6, <2>1 DEF InsertShare, TypeOK, RunRow
  <2>2. /\ run'[h].pc \in {"idle", "resolving"}
        /\ run'[h].pc = "resolving" => run'[h].s = s /\ run'[h].r = run[h].r /\ run[h].r # NoRequest
    BY <1>6 DEF InsertShare, TypeOK, RunRow
  <2>3. run[h].r \in Requests \cup {NoRequest}
    BY RowFields DEF TypeOK
  <2> QED
    BY <2>1, <2>2, <2>3 DEF RunHasSubject
<1>7. ASSUME NEW h \in Handlers, NEW s \in Shares, StoreRead(h, s) PROVE RunHasSubject'
  <2>1. UNCHANGED run \/ Goes(h, [Idle EXCEPT !.pc = "storing", !.s = s])
    BY <1>7 DEF StoreRead
  <2> QED
    BY <2>1, <1>0, <1>g
<1>8. ASSUME NEW h \in Handlers, NEW s \in Shares, ViewBegin(h, s) PROVE RunHasSubject'
  BY <1>8, <1>g DEF ViewBegin
<1>9. ASSUME NEW h \in Handlers, NEW s \in Shares, NEW u \in Recipients, ReferRead(h, s, u)
      PROVE  RunHasSubject'
  BY <1>9, <1>g DEF ReferRead
<1>10. ASSUME NEW h \in Handlers, NEW r \in Requests, ApproveRead(h, r) PROVE RunHasSubject'
  BY <1>10, <1>g DEF ApproveRead
<1>11. \A h \in Handlers : run[h] \in RunRow
  BY DEF TypeOK
<1>12. ASSUME NEW h \in Handlers, NEW r \in Requests, Goes(h, Asked(h, r)) PROVE RunHasSubject'
  <2>1. CASE run[h].s = NoShare
    BY <1>12, <2>1, <1>g DEF Asked
  <2>2. CASE run[h].s \in Shares
    <3>1. Goes(h, [run[h] EXCEPT !.pc = "referring", !.r = r])
      BY <1>12, <2>2, NoneAssumption DEF Asked
    <3> DEFINE state == [run[h] EXCEPT !.pc = "referring", !.r = r]
    <3>2. state.s \in Shares /\ state.r \in Requests
      BY <1>11, <2>2 DEF RunRow
    <3> HIDE DEF state
    <3> QED
      BY <3>1, <3>2, <1>g DEF state
  <2> QED
    BY <2>1, <2>2, <1>11, RowFields
<1>13. ASSUME NEW h \in Handlers, NEW r \in Requests, AskInsert(h, r) PROVE RunHasSubject'
  BY <1>12, <1>13 DEF AskInsert
<1>14. ASSUME NEW h \in Handlers, NEW pc \in {"idle", "inserting", "adding"},
              Goes(h, [run[h] EXCEPT !.pc = pc])
       PROVE  RunHasSubject'
  <2>1. [run[h] EXCEPT !.pc = pc].pc = pc
    BY <1>11 DEF RunRow
  <2> QED
    BY <2>1, <1>14, <1>g
<1>15. ASSUME NEW h \in Handlers, EndActive(h) PROVE RunHasSubject'
  BY <1>15, <1>14 DEF EndActive
<1>16. ASSUME NEW h \in Handlers,
              \/ ApproveResolve(h) \/ StoreInsert(h) \/ ViewServe(h) \/ ReferInsert(h) \/ Fails(h)
       PROVE  RunHasSubject'
  BY <1>16, <1>g DEF ApproveResolve, StoreInsert, ViewServe, ReferInsert, Fails
<1>17. ASSUME NEW h \in Handlers, ViewRead(h) PROVE RunHasSubject'
  <2> DEFINE state == [run[h] EXCEPT !.pc = "reading"]
  <2>1. Goes(h, Idle) \/ Goes(h, state)
    BY <1>17 DEF ViewRead
  <2>2. state.pc = "reading" /\ state.s \in Shares
    BY <1>17, <1>11 DEF ViewRead, RunRow, RunHasSubject
  <2> HIDE DEF state
  <2> QED
    BY <2>1, <2>2, <1>g
<1>18. ASSUME NEW h \in Handlers, AskRead(h) PROVE RunHasSubject'
  BY <1>18, <1>12, <1>14 DEF AskRead
<1>19. CASE ListState
  BY <1>19, <1>0 DEF ListState
<1> QED
  BY <1>1, <1>2, <1>3, <1>4, <1>5, <1>6, <1>7, <1>8, <1>9, <1>10, <1>13, <1>15,
     <1>16, <1>17, <1>18, <1>19 DEF Next

(* A recipient's active shares are covered by what the handlers that are   *)
(* about to insert another one have seen.                                  *)
LEMMA ReplaceStep ==
    TypeOK /\ SeenWhileInserting /\ SharesReplaced /\ [Next]_vars
        => SeenWhileInserting' /\ SharesReplaced'
<1> SUFFICES ASSUME TypeOK, SeenWhileInserting, SharesReplaced, [Next]_vars
             PROVE  SeenWhileInserting' /\ SharesReplaced'
  OBVIOUS
<1> DEFINE NoneBegins == \A s \in Shares : share'[s].st = "active"
                              => share[s].st = "active" /\ share'[s].to = share[s].to
           NoneInserts(h) == run'[h].pc # "inserting"
           Same(h) == run'[h] = run[h]
           Preserved == SeenWhileInserting' /\ SharesReplaced'
<1>1. ASSUME NoneBegins, overlap' = overlap, \A h \in Handlers : NoneInserts(h) \/ Same(h)
      PROVE  Preserved
  BY <1>1 DEF SeenWhileInserting, SharesReplaced, ActiveFor, At
<1>2. ASSUME UNCHANGED share PROVE NoneBegins
  BY <1>2
<1>3. ASSUME NEW mine \in SUBSET Shares, NEW asked \in SUBSET Requests, Housekeep(mine, asked)
      PROVE  NoneBegins
  BY <1>3, HousekeepActive
<1>4. ASSUME NEW s \in Shares,
             \/ share' = [share EXCEPT ![s] = End(@)]
             \/ share' = [share EXCEPT ![s].due = TRUE]
      PROVE  NoneBegins
  <2>1. share[s] \in ShareRow
    BY DEF TypeOK
  <2>2. /\ End(share[s]).st = "ended"
        /\ [share[s] EXCEPT !.due = TRUE].st = share[s].st
        /\ [share[s] EXCEPT !.due = TRUE].to = share[s].to
    BY <2>1 DEF ShareRow, End
  <2>3. \A t \in Shares \ {s} : share'[t] = share[t]
    BY <1>4 DEF TypeOK
  <2>4. share'[s] \in {End(share[s]), [share[s] EXCEPT !.due = TRUE]}
    BY <1>4 DEF TypeOK
  <2> QED
    BY <2>2, <2>3, <2>4
<1>rows. \A h \in Handlers : run[h] \in RunRow
  BY DEF TypeOK
<1>g. ASSUME NEW h \in Handlers, NEW state, Goes(h, state), state.pc # "inserting"
      PROVE  \A k \in Handlers : NoneInserts(k) \/ Same(k)
  BY <1>g, GoesRow
<1>p. ASSUME NEW h \in Handlers, NEW pc, pc # "inserting", Goes(h, [run[h] EXCEPT !.pc = pc])
      PROVE  \A k \in Handlers : NoneInserts(k) \/ Same(k)
  <2>1. [run[h] EXCEPT !.pc = pc].pc = pc
    BY <1>rows DEF RunRow
  <2> QED
    BY <2>1, <1>p, <1>g
<1>u. ASSUME UNCHANGED run PROVE \A k \in Handlers : NoneInserts(k) \/ Same(k)
  BY <1>u
<1> HIDE DEF NoneBegins, NoneInserts, Same, Preserved
<1> USE DEF ghosts, tables
<1>5. ASSUME UNCHANGED vars PROVE Preserved
  <2>1. NoneBegins /\ overlap' = overlap /\ UNCHANGED run
    <3>1. UNCHANGED share /\ overlap' = overlap /\ UNCHANGED run
      BY <1>5 DEF vars
    <3> QED
      BY <3>1, <1>2
  <2> QED
    BY <2>1, <1>1, <1>u
<1>6. ASSUME NEW s \in Shares, Deadline(s) \/ RevokeGrant(s) PROVE Preserved
  BY <1>6, <1>1, <1>4, <1>u DEF Deadline, RevokeGrant
<1>7. ASSUME NEW r \in Requests, DenyRequest(r) PROVE Preserved
  BY <1>7, <1>1, <1>2, <1>u DEF DenyRequest
<1>8. ASSUME NEW u \in Recipients, RotateKeys(u) \/ StoreKey(u) PROVE Preserved
  BY <1>8, <1>1, <1>2, <1>u DEF RotateKeys, StoreKey
<1>9. ASSUME NEW h \in Handlers, NEW u \in Recipients, CreateGrant(h, u) \/ Ask(h, u)
      PROVE  Preserved
  BY <1>9, <1>1, <1>2, <1>g DEF CreateGrant, Ask, Idle
<1>10. ASSUME NEW h \in Handlers, NEW s \in Shares, InsertShare(h, s) PROVE Preserved
  <2> DEFINE u == run[h].u
  <2>1. /\ share'[s].to = u
        /\ \A t \in Shares \ {s} : share'[t] = share[t]
        /\ share[s].st = "none"
    BY <1>10 DEF InsertShare, TypeOK, NewShare
  <2>2. /\ run'[h].pc # "inserting"
        /\ \A k \in Handlers \ {h} :
             /\ run'[k].pc = run[k].pc /\ run'[k].u = run[k].u
             /\ run[k].seen \subseteq run'[k].seen
             /\ run[k].pc = "inserting" /\ run[k].u = u => s \in run'[k].seen
    BY <1>10 DEF InsertShare, TypeOK, RunRow, Idle, At
  <2>3. ActiveFor(u) \subseteq run[h].seen
    BY <1>10 DEF InsertShare, SeenWhileInserting, At
  <2>4. overlap' = overlap \cup {{s, t} : t \in run[h].seen}
    BY <1>10 DEF InsertShare
  <2>5. SeenWhileInserting'
    <3> SUFFICES ASSUME NEW k \in Handlers, run'[k].pc = "inserting", NEW t \in Shares,
                        share'[t].st = "active", share'[t].to = run'[k].u
                 PROVE  t \in run'[k].seen
      BY DEF SeenWhileInserting, ActiveFor, At
    <3> QED
      BY <2>1, <2>2 DEF SeenWhileInserting, ActiveFor, At
  <2>6. SharesReplaced'
    <3> SUFFICES ASSUME NEW t1 \in Shares, NEW t2 \in Shares, t1 # t2,
                        share'[t1].st = "active", share'[t2].st = "active",
                        share'[t1].to = share'[t2].to
                 PROVE  {t1, t2} \in overlap'
      BY DEF SharesReplaced
    <3>1. CASE t1 # s /\ t2 # s
      BY <3>1, <2>1, <2>4 DEF SharesReplaced
    <3>2. CASE t1 = s
      <4>1. t2 \in run[h].seen
        BY <3>2, <2>1, <2>3 DEF ActiveFor
      <4> QED
        BY <3>2, <4>1, <2>4
    <3>3. CASE t2 = s
      <4>1. t1 \in run[h].seen
        BY <3>3, <2>1, <2>3 DEF ActiveFor
      <4>2. {t1, t2} = {s, t1}
        BY <3>3
      <4> QED
        BY <4>1, <4>2, <2>4
    <3> QED
      BY <3>1, <3>2, <3>3
  <2> QED
    BY <2>5, <2>6 DEF Preserved
<1>11. ASSUME NEW h \in Handlers, NEW s \in Shares, StoreRead(h, s) PROVE Preserved
  <2>1. CASE Housekeep(Shares, Requests) /\ UNCHANGED run
    BY <2>1, <1>11, <1>1, <1>3, <1>u DEF StoreRead
  <2>2. CASE Goes(h, [Idle EXCEPT !.pc = "storing", !.s = s]) /\ UNCHANGED tables
    BY <2>2, <1>11, <1>1, <1>2, <1>g DEF StoreRead, Idle
  <2> QED
    BY <1>11, <2>1, <2>2 DEF StoreRead
<1>12. ASSUME NEW h \in Handlers, NEW s \in Shares, ViewBegin(h, s) PROVE Preserved
  <2>1. NoneBegins
    BY <1>12, <1>3 DEF ViewBegin, ViewClean
  <2> QED
    BY <1>12, <2>1, <1>1, <1>g DEF ViewBegin, Idle
<1>13. ASSUME NEW h \in Handlers, NEW s \in Shares, NEW u \in Recipients, ReferRead(h, s, u)
       PROVE  Preserved
  BY <1>13, <1>1, <1>2, <1>g DEF ReferRead, Idle
<1>14. ASSUME NEW h \in Handlers, NEW r \in Requests, ApproveRead(h, r) PROVE Preserved
  BY <1>14, <1>1, <1>2, <1>g DEF ApproveRead, Idle
<1>15. ASSUME NEW h \in Handlers, NEW r \in Requests
       PROVE  Asked(h, r).pc # "inserting"
  BY <1>rows DEF Asked, Idle, RunRow
<1>16. ASSUME NEW h \in Handlers, NEW r \in Requests, AskInsert(h, r) PROVE Preserved
  BY <1>16, <1>15, <1>1, <1>2, <1>g DEF AskInsert
<1>17. ASSUME NEW h \in Handlers, EndActive(h) PROVE Preserved
  <2> DEFINE u == run[h].u
  <2>1. /\ \A s \in Shares : share'[s].st = "active"
                               => share'[s] = share[s] /\ s \notin ActiveFor(u)
        /\ overlap' = overlap
    <3>1. /\ share' = [s \in Shares |-> IF s \in ActiveFor(u) THEN End(share[s]) ELSE share[s]]
          /\ overlap' = overlap
      BY <1>17 DEF EndActive, EndedByNew
    <3>2. \A s \in Shares : End(share[s]).st = "ended"
      BY DEF TypeOK, ShareRow, End
    <3> QED
      BY <3>1, <3>2
  <2>2. /\ run'[h].u = u
        /\ \A k \in Handlers \ {h} : run'[k] = run[k]
    BY <1>17, <1>rows, GoesRow DEF EndActive, RunRow
  <2>3. SharesReplaced'
    BY <2>1 DEF SharesReplaced
  <2>4. SeenWhileInserting'
    <3> SUFFICES ASSUME NEW k \in Handlers, run'[k].pc = "inserting", NEW t \in Shares,
                        share'[t].st = "active", share'[t].to = run'[k].u
                 PROVE  t \in run'[k].seen
      BY DEF SeenWhileInserting, ActiveFor, At
    <3> QED
      BY <2>1, <2>2 DEF SeenWhileInserting, ActiveFor, At
  <2> QED
    BY <2>3, <2>4 DEF Preserved
<1>18. ASSUME NEW h \in Handlers,
              \/ ApproveResolve(h) \/ ViewServe(h) \/ ReferInsert(h) \/ Fails(h)
       PROVE  Preserved
  BY <1>18, <1>1, <1>2, <1>g DEF ApproveResolve, ViewServe, ReferInsert, Fails, Idle
<1>19. ASSUME NEW h \in Handlers, StoreInsert(h) PROVE Preserved
  <2>1. NoneBegins
    BY <1>19 DEF StoreInsert, TypeOK, ShareRow, NoneBegins
  <2> QED
    BY <1>19, <2>1, <1>1, <1>g DEF StoreInsert, Idle
<1>20. ASSUME NEW h \in Handlers, ViewRead(h) PROVE Preserved
  <2>1. Goes(h, Idle) \/ Goes(h, [run[h] EXCEPT !.pc = "reading"])
    BY <1>20 DEF ViewRead
  <2>2. \A k \in Handlers : NoneInserts(k) \/ Same(k)
    BY <2>1, <1>g, <1>p DEF Idle
  <2> QED
    BY <1>20, <2>2, <1>1, <1>2 DEF ViewRead
<1>21. ASSUME NEW h \in Handlers, AskRead(h) PROVE Preserved
  <2>1. \/ Goes(h, [run[h] EXCEPT !.pc = "adding"])
        \/ \E r \in Requests : Goes(h, Asked(h, r))
    BY <1>21 DEF AskRead
  <2>2. \A k \in Handlers : NoneInserts(k) \/ Same(k)
    BY <2>1, <1>g, <1>p, <1>15
  <2> QED
    BY <1>21, <2>2, <1>1, <1>2 DEF AskRead
<1>22. ASSUME ListState PROVE Preserved
  <2>1. NoneBegins
    <3>1. Housekeep(Shares, Requests) /\ Shares \in SUBSET Shares /\ Requests \in SUBSET Requests
      BY <1>22 DEF ListState
    <3> QED
      BY <3>1, <1>3
  <2> QED
    BY <1>22, <2>1, <1>1, <1>u DEF ListState
<1> HIDE DEF ghosts, tables
<1>23. Preserved
  BY <1>5, <1>6, <1>7, <1>8, <1>9, <1>10, <1>11, <1>12, <1>13, <1>14, <1>16, <1>17,
     <1>18, <1>19, <1>20, <1>21, <1>22 DEF Next
<1> QED
  BY <1>23 DEF Preserved

(* A share that answers a request is still being resolved, by the handler  *)
(* that made it, or its request was answered, or its approval was cut off. *)
LEMMA ResolveStep ==
    TypeOK /\ RunHasSubject /\ RequestsMade /\ ShareBeingResolved /\ [Next]_vars
        => RequestsMade' /\ ShareBeingResolved'
<1> SUFFICES ASSUME TypeOK, RunHasSubject, RequestsMade, ShareBeingResolved, [Next]_vars
             PROVE  RequestsMade' /\ ShareBeingResolved'
  OBVIOUS
<1> DEFINE Open(r) == r \in {"pending", "denied"}
           SharesSettle == \A s \in Shares :
              /\ share'[s].from \in {share[s].from, NoRequest}
              /\ share'[s].st = "active" => share[s].st = "active"
           RequestsSettle == \A r \in Requests : req[r].st # "none" =>
              /\ req'[r].st # "none"
              /\ Open(req'[r].st) => Open(req[r].st)
           HandlersKeep == \A h \in Handlers :
              /\ run[h].pc = "resolving" => run'[h] = run[h]
              /\ run'[h].r # NoRequest
                   => run'[h].r = run[h].r \/ req'[run'[h].r].st # "none"
           Preserved == RequestsMade' /\ ShareBeingResolved'
<1>rows. /\ \A h \in Handlers : run[h] \in RunRow /\ run[h].r \in Requests \cup {NoRequest}
         /\ \A s \in Shares : share[s] \in ShareRow /\ share[s].from \in Requests \cup {NoRequest}
  BY RowFields DEF TypeOK
<1>1. ASSUME SharesSettle, RequestsSettle, HandlersKeep, cut \subseteq cut' PROVE Preserved
  <2>1. RequestsMade'
    <3>1. ASSUME NEW s \in Shares, share'[s].from # NoRequest
          PROVE  req'[share'[s].from].st # "none"
      BY <1>1, <3>1, <1>rows DEF RequestsMade
    <3>2. ASSUME NEW h \in Handlers, run'[h].r # NoRequest
          PROVE  req'[run'[h].r].st # "none"
      BY <1>1, <3>2, <1>rows DEF RequestsMade
    <3> QED
      BY <3>1, <3>2 DEF RequestsMade
  <2>2. ShareBeingResolved'
    <3> SUFFICES ASSUME NEW s \in Shares, share'[s].st = "active", share'[s].from # NoRequest,
                        Open(req'[share'[s].from].st), share'[s].from \notin cut'
                 PROVE  \E h \in Handlers : /\ run'[h].pc = "resolving"
                                            /\ run'[h].r = share'[s].from /\ run'[h].s = s
      BY DEF ShareBeingResolved, At
    <3>1. share'[s].from = share[s].from /\ share[s].st = "active" /\ share[s].from \in Requests
      BY <1>1, <1>rows
    <3>2. req[share[s].from].st # "none"
      BY <3>1, NoneAssumption DEF RequestsMade
    <3>3. Open(req[share[s].from].st)
      BY <1>1, <3>1, <3>2
    <3>4. PICK h \in Handlers : run[h].pc = "resolving" /\ run[h].r = share[s].from /\ run[h].s = s
      BY <1>1, <3>1, <3>3 DEF ShareBeingResolved, At
    <3> QED
      BY <1>1, <3>1, <3>4
  <2> QED
    BY <2>1, <2>2
<1>2. ASSUME UNCHANGED share PROVE SharesSettle
  BY <1>2
<1>3. ASSUME UNCHANGED req PROVE RequestsSettle
  BY <1>3
<1>4. ASSUME NEW mine \in SUBSET Shares, NEW asked \in SUBSET Requests, Housekeep(mine, asked)
      PROVE  SharesSettle /\ RequestsSettle
  BY <1>4, HousekeepActive
<1>5. ASSUME NEW s \in Shares, NEW row \in ShareRow, share' = [share EXCEPT ![s] = row],
             row.from = share[s].from, row.st = "active" => share[s].st = "active"
      PROVE  SharesSettle
  BY <1>5 DEF TypeOK
<1>u. ASSUME UNCHANGED run PROVE HandlersKeep
  BY <1>u
<1>g. ASSUME NEW h \in Handlers, NEW state, Goes(h, state), run[h].pc # "resolving",
             state.r \in {run[h].r, NoRequest} \/ req'[state.r].st # "none"
      PROVE  HandlersKeep
  BY <1>g, GoesRow
<1>i. Idle.r = NoRequest /\ Idle.pc = "idle"
  BY DEF Idle
<1>p. ASSUME NEW h \in Handlers, NEW pc, run[h].pc # "resolving",
             Goes(h, [run[h] EXCEPT !.pc = pc])
      PROVE  HandlersKeep
  <2>1. [run[h] EXCEPT !.pc = pc].r = run[h].r
    BY <1>rows DEF RunRow
  <2> QED
    BY <2>1, <1>p, <1>g
<1> HIDE DEF SharesSettle, RequestsSettle, HandlersKeep, Preserved
<1> USE DEF ghosts, tables
<1>t. ASSUME UNCHANGED <<share, req, cut>>, HandlersKeep PROVE Preserved
  BY <1>t, <1>1, <1>2, <1>3
<1>6. ASSUME UNCHANGED vars PROVE Preserved
  <2>1. UNCHANGED <<share, req, cut, run>>
    BY <1>6 DEF vars
  <2> QED
    BY <2>1, <1>t, <1>u
<1>7. ASSUME NEW s \in Shares, Deadline(s) \/ RevokeGrant(s) PROVE Preserved
  <2>1. /\ [share[s] EXCEPT !.due = TRUE] \in ShareRow /\ End(share[s]) \in ShareRow
        /\ [share[s] EXCEPT !.due = TRUE].from = share[s].from
        /\ [share[s] EXCEPT !.due = TRUE].st = share[s].st
        /\ End(share[s]).from = share[s].from /\ End(share[s]).st = "ended"
    BY <1>rows DEF ShareRow, End, ShareStatus
  <2>2. SharesSettle
    <3>1. \/ share' = [share EXCEPT ![s] = [share[s] EXCEPT !.due = TRUE]]
          \/ share' = [share EXCEPT ![s] = End(share[s])]
      BY <1>7 DEF Deadline, RevokeGrant, TypeOK
    <3> QED
      BY <2>1, <3>1, <1>5
  <2>3. UNCHANGED <<req, run, cut>>
    BY <1>7 DEF Deadline, RevokeGrant
  <2> QED
    BY <2>2, <2>3, <1>1, <1>3, <1>u
<1>8. ASSUME NEW r \in Requests, DenyRequest(r) PROVE Preserved
  <2>1. RequestsSettle
    BY <1>8 DEF DenyRequest, TypeOK, RequestRow, RequestsSettle
  <2>2. UNCHANGED <<share, run, cut>>
    BY <1>8 DEF DenyRequest
  <2> QED
    BY <2>1, <2>2, <1>1, <1>2, <1>u
<1>9. ASSUME NEW u \in Recipients, RotateKeys(u) \/ StoreKey(u) PROVE Preserved
  BY <1>9, <1>t, <1>u DEF RotateKeys, StoreKey
<1>10. ASSUME NEW h \in Handlers, NEW u \in Recipients, CreateGrant(h, u) \/ Ask(h, u)
       PROVE  Preserved
  <2>1. HandlersKeep
    BY <1>10, <1>g DEF CreateGrant, Ask, At, Idle
  <2> QED
    BY <1>10, <2>1, <1>t DEF CreateGrant, Ask
<1>11. ASSUME NEW h \in Handlers, NEW s \in Shares, InsertShare(h, s) PROVE Preserved
  <2>1. /\ share'[s].from = run[h].r
        /\ \A t \in Shares \ {s} : share'[t] = share[t]
        /\ UNCHANGED <<req, cut>>
        /\ run[h].pc = "inserting"
    BY <1>11 DEF InsertShare, TypeOK, NewShare, At
  <2>2. /\ run'[h].r = run[h].r \/ run'[h].r = NoRequest
        /\ run[h].r # NoRequest
             => run'[h].pc = "resolving" /\ run'[h].s = s /\ run'[h].r = run[h].r
    BY <1>11, <1>rows, <1>i DEF InsertShare, RunRow
  <2>3. \A k \in Handlers \ {h} :
          run'[k].pc = run[k].pc /\ run'[k].s = run[k].s /\ run'[k].r = run[k].r
    BY <1>11, <1>rows DEF InsertShare, RunRow
  <2>4. RequestsMade'
    BY <2>1, <2>2, <2>3 DEF RequestsMade
  <2>5. ShareBeingResolved'
    <3> SUFFICES ASSUME NEW t \in Shares, share'[t].st = "active", share'[t].from # NoRequest,
                        Open(req'[share'[t].from].st), share'[t].from \notin cut'
                 PROVE  \E k \in Handlers : /\ run'[k].pc = "resolving"
                                            /\ run'[k].r = share'[t].from /\ run'[k].s = t
      BY DEF ShareBeingResolved, At
    <3>1. CASE t = s
      BY <3>1, <2>1, <2>2
    <3>2. CASE t # s
      <4>1. PICK k \in Handlers :
              run[k].pc = "resolving" /\ run[k].r = share[t].from /\ run[k].s = t
        BY <3>2, <2>1 DEF ShareBeingResolved, At
      <4>2. k # h
        BY <4>1, <2>1
      <4> QED
        BY <3>2, <4>1, <4>2, <2>1, <2>3
    <3> QED
      BY <3>1, <3>2
  <2> QED
    BY <2>4, <2>5 DEF Preserved
<1>12. ASSUME NEW h \in Handlers, NEW s \in Shares, StoreRead(h, s) PROVE Preserved
  <2>1. CASE Housekeep(Shares, Requests) /\ UNCHANGED run
    <3>1. SharesSettle /\ RequestsSettle
      BY <2>1, <1>4
    <3> QED
      BY <2>1, <3>1, <1>12, <1>1, <1>u DEF StoreRead
  <2>2. CASE Goes(h, [Idle EXCEPT !.pc = "storing", !.s = s]) /\ UNCHANGED tables
    <3>1. HandlersKeep
      BY <2>2, <1>12, <1>g DEF StoreRead, At, Idle
    <3> QED
      BY <2>2, <3>1, <1>12, <1>t DEF StoreRead
  <2> QED
    BY <1>12, <2>1, <2>2 DEF StoreRead
<1>13. ASSUME NEW h \in Handlers, NEW s \in Shares, ViewBegin(h, s) PROVE Preserved
  <2>1. SharesSettle /\ RequestsSettle
    BY <1>13, <1>4 DEF ViewBegin, ViewClean
  <2>2. HandlersKeep
    BY <1>13, <1>g DEF ViewBegin, At, Idle
  <2> QED
    BY <1>13, <2>1, <2>2, <1>1 DEF ViewBegin
<1>14. ASSUME NEW h \in Handlers, NEW s \in Shares, NEW u \in Recipients, ReferRead(h, s, u)
       PROVE  Preserved
  <2>1. HandlersKeep
    BY <1>14, <1>g DEF ReferRead, At, Idle
  <2> QED
    BY <1>14, <2>1, <1>t DEF ReferRead
<1>15. ASSUME NEW h \in Handlers, NEW r \in Requests, ApproveRead(h, r) PROVE Preserved
  <2>1. req'[r].st # "none"
    BY <1>15 DEF ApproveRead
  <2>2. HandlersKeep
    BY <1>15, <2>1, <1>g DEF ApproveRead, At, Idle
  <2> QED
    BY <1>15, <2>2, <1>t DEF ApproveRead
<1>16. ASSUME NEW h \in Handlers, NEW r \in Requests, Goes(h, Asked(h, r)),
              run[h].pc # "resolving", req'[r].st # "none"
       PROVE  HandlersKeep
  <2>1. Asked(h, r).r \in {NoRequest, r}
    BY <1>rows, <1>i DEF Asked, RunRow
  <2> QED
    BY <2>1, <1>16, <1>g
<1>17. ASSUME NEW h \in Handlers, NEW r \in Requests, AskInsert(h, r) PROVE Preserved
  <2>1. req'[r].st = "pending" /\ \A q \in Requests \ {r} : req'[q] = req[q]
    BY <1>17 DEF AskInsert, TypeOK
  <2>2. RequestsSettle
    BY <1>17, <2>1 DEF AskInsert, RequestsSettle
  <2>3. HandlersKeep
    BY <1>17, <2>1, <1>16 DEF AskInsert, At
  <2> QED
    BY <1>17, <2>2, <2>3, <1>1, <1>2 DEF AskInsert
<1>18. ASSUME NEW h \in Handlers, EndActive(h) PROVE Preserved
  <2>1. HandlersKeep
    BY <1>18, <1>p DEF EndActive, At
  <2>2. SharesSettle
    <3>1. \A s \in Shares : End(share[s]).st = "ended" /\ End(share[s]).from = share[s].from
      BY <1>rows DEF ShareRow, End
    <3> QED
      BY <1>18, <3>1 DEF EndActive, SharesSettle
  <2>3. UNCHANGED <<req, cut>>
    BY <1>18 DEF EndActive
  <2> QED
    BY <2>1, <2>2, <2>3, <1>1, <1>3
<1>19. ASSUME NEW h \in Handlers, ApproveResolve(h) PROVE Preserved
  <2> DEFINE r == run[h].r
  <2>1. /\ UNCHANGED <<share, cut>> /\ run[h].pc = "resolving" /\ r \in Requests
        /\ run'[h] = Idle /\ \A k \in Handlers \ {h} : run'[k] = run[k]
    BY <1>19, GoesRow DEF ApproveResolve, At, RunHasSubject
  <2>2. /\ \A q \in Requests \ {r} : req'[q] = req[q]
        /\ req'[r].st \in {"approved", req[r].st}
        /\ Resolvable(r) /\ share[run[h].s].st # "purged" => req'[r].st = "approved"
    BY <1>19, <2>1 DEF ApproveResolve, TypeOK, RequestRow
  <2>3. RequestsMade'
    BY <2>1, <2>2, <1>i, <1>rows DEF RequestsMade
  <2>4. ShareBeingResolved'
    <3> SUFFICES ASSUME NEW t \in Shares, share[t].st = "active", share[t].from # NoRequest,
                        Open(req'[share[t].from].st), share[t].from \notin cut
                 PROVE  \E k \in Handlers : /\ run'[k].pc = "resolving"
                                            /\ run'[k].r = share[t].from /\ run'[k].s = t
      BY <2>1 DEF ShareBeingResolved, At
    <3>1. Open(req[share[t].from].st)
      BY <1>rows, <2>2
    <3>2. PICK k \in Handlers :
            run[k].pc = "resolving" /\ run[k].r = share[t].from /\ run[k].s = t
      BY <3>1 DEF ShareBeingResolved, At
    <3>3. k # h
      <4> SUFFICES ASSUME k = h PROVE FALSE
        OBVIOUS
      <4>1. Resolvable(r) /\ share[run[h].s].st # "purged"
        BY <3>1, <3>2 DEF Resolvable
      <4> QED
        BY <4>1, <2>2, <3>2
    <3> QED
      BY <3>2, <3>3, <2>1
  <2> QED
    BY <2>3, <2>4 DEF Preserved
<1>20. ASSUME NEW h \in Handlers, StoreInsert(h) PROVE Preserved
  <2>1. SharesSettle
    BY <1>20, <1>rows DEF StoreInsert, TypeOK, ShareRow, SharesSettle
  <2>2. HandlersKeep
    BY <1>20, <1>g, <1>i DEF StoreInsert, At
  <2> QED
    BY <1>20, <2>1, <2>2, <1>1, <1>3 DEF StoreInsert
<1>21. ASSUME NEW h \in Handlers, ViewRead(h) \/ ViewServe(h) \/ ReferInsert(h) PROVE Preserved
  <2>1. /\ Goes(h, Idle) \/ Goes(h, [run[h] EXCEPT !.pc = "reading"])
        /\ run[h].pc # "resolving"
        /\ UNCHANGED <<share, req, cut>>
    BY <1>21 DEF ViewRead, ViewServe, ReferInsert, At
  <2>2. HandlersKeep
    BY <2>1, <1>g, <1>p, <1>i
  <2> QED
    BY <2>1, <2>2, <1>t
<1>22. ASSUME NEW h \in Handlers, AskRead(h) PROVE Preserved
  <2>1. \/ Goes(h, [run[h] EXCEPT !.pc = "adding"])
        \/ \E r \in Requests : Goes(h, Asked(h, r)) /\ req[r].st = "pending"
    BY <1>22 DEF AskRead
  <2>2. run[h].pc # "resolving" /\ UNCHANGED tables /\ UNCHANGED cut
    BY <1>22 DEF AskRead, At
  <2>3. HandlersKeep
    BY <2>1, <2>2, <1>p, <1>16
  <2> QED
    BY <2>2, <2>3, <1>t
<1>23. ASSUME NEW h \in Handlers, Fails(h) PROVE Preserved
  <2>1. /\ UNCHANGED <<share, req>> /\ cut \subseteq cut'
        /\ run[h].pc = "resolving" => run[h].r \in cut'
        /\ run'[h] = Idle /\ \A k \in Handlers \ {h} : run'[k] = run[k]
    BY <1>23, GoesRow DEF Fails, At
  <2>2. RequestsMade'
    BY <2>1, <1>i DEF RequestsMade
  <2>3. ShareBeingResolved'
    BY <2>1 DEF ShareBeingResolved, At
  <2> QED
    BY <2>2, <2>3 DEF Preserved
<1>24. ASSUME ListState PROVE Preserved
  <2>1. SharesSettle /\ RequestsSettle
    <3>1. Housekeep(Shares, Requests) /\ Shares \in SUBSET Shares /\ Requests \in SUBSET Requests
      BY <1>24 DEF ListState
    <3> QED
      BY <3>1, <1>4
  <2> QED
    BY <1>24, <2>1, <1>1, <1>u DEF ListState
<1> HIDE DEF ghosts, tables
<1>25. Preserved
  BY <1>6, <1>7, <1>8, <1>9, <1>10, <1>11, <1>12, <1>13, <1>14, <1>15, <1>17, <1>18,
     <1>19, <1>20, <1>21, <1>22, <1>23, <1>24 DEF Next
<1> QED
  BY <1>25 DEF Preserved

(* A share that is over stays over, and a view begun after it finds it so. *)
LEMMA LateStep ==
    TypeOK /\ RunHasSubject /\ LateViewsFindItEnded /\ LateViewRefused /\ [Next]_vars
        => LateViewsFindItEnded' /\ LateViewRefused'
<1> SUFFICES ASSUME TypeOK, RunHasSubject, LateViewsFindItEnded, LateViewRefused, [Next]_vars
             PROVE  LateViewsFindItEnded' /\ LateViewRefused'
  OBVIOUS
<1> DEFINE Over(st) == st \in {"ended", "purged"}
           StaysOver == \A s \in Shares : Over(share[s].st) => Over(share'[s].st)
           Views == {"viewing", "reading"}
           NoneStarts == \A h \in Handlers : run'[h] = run[h] \/ run'[h].pc \notin Views
           Preserved == LateViewsFindItEnded' /\ LateViewRefused'
<1>rows. \A h \in Handlers : run[h] \in RunRow
  BY DEF TypeOK
<1>srows. \A s \in Shares : share[s] \in ShareRow
  BY DEF TypeOK
<1>1. ASSUME StaysOver, NoneStarts, UNCHANGED servedLate PROVE Preserved
  <2>1. LateViewRefused'
    BY <1>1 DEF LateViewRefused
  <2>2. LateViewsFindItEnded'
    <3> SUFFICES ASSUME NEW h \in Handlers, run'[h].pc \in Views
                 PROVE  /\ run'[h].pc = "viewing" /\ run'[h].late => Over(share'[run'[h].s].st)
                        /\ run'[h].pc = "reading" => ~run'[h].late
      BY DEF LateViewsFindItEnded, At
    <3>1. run'[h] = run[h] /\ run[h].s \in Shares
      BY <1>1 DEF RunHasSubject
    <3> QED
      BY <1>1, <3>1 DEF LateViewsFindItEnded, At
  <2> QED
    BY <2>1, <2>2
<1>2. ASSUME UNCHANGED share PROVE StaysOver
  BY <1>2
<1>3. ASSUME NEW mine \in SUBSET Shares, NEW asked \in SUBSET Requests, Housekeep(mine, asked)
      PROVE  StaysOver
  BY <1>3, HousekeepActive
<1>4. ASSUME NEW s \in Shares, NEW row \in ShareRow, share' = [share EXCEPT ![s] = row],
             Over(share[s].st) => Over(row.st)
      PROVE  StaysOver
  BY <1>4 DEF TypeOK
<1>u. ASSUME UNCHANGED run PROVE NoneStarts
  BY <1>u
<1>g. ASSUME NEW h \in Handlers, NEW state, Goes(h, state), state.pc \notin Views
      PROVE  NoneStarts
  BY <1>g, GoesRow
<1>i. Idle.pc \notin Views
  BY DEF Idle
<1>p. ASSUME NEW h \in Handlers, NEW pc, pc \notin Views, Goes(h, [run[h] EXCEPT !.pc = pc])
      PROVE  NoneStarts
  <2>1. [run[h] EXCEPT !.pc = pc].pc = pc
    BY <1>rows DEF RunRow
  <2> QED
    BY <2>1, <1>p, <1>g
<1> HIDE DEF StaysOver, NoneStarts, Preserved
<1> USE DEF ghosts, tables
<1>t. ASSUME UNCHANGED <<share, servedLate>>, NoneStarts PROVE Preserved
  BY <1>t, <1>1, <1>2
<1>6. ASSUME UNCHANGED vars PROVE Preserved
  <2>1. UNCHANGED <<share, servedLate, run>>
    BY <1>6 DEF vars
  <2> QED
    BY <2>1, <1>t, <1>u
<1>7. ASSUME NEW s \in Shares, Deadline(s) \/ RevokeGrant(s) PROVE Preserved
  <2>1. /\ [share[s] EXCEPT !.due = TRUE] \in ShareRow /\ End(share[s]) \in ShareRow
        /\ [share[s] EXCEPT !.due = TRUE].st = share[s].st /\ End(share[s]).st = "ended"
    BY <1>srows DEF ShareRow, End, ShareStatus
  <2>2. StaysOver
    <3>1. \/ share' = [share EXCEPT ![s] = [share[s] EXCEPT !.due = TRUE]]
          \/ share' = [share EXCEPT ![s] = End(share[s])]
      BY <1>7 DEF Deadline, RevokeGrant, TypeOK
    <3> QED
      BY <2>1, <3>1, <1>4
  <2>3. UNCHANGED <<run, servedLate>>
    BY <1>7 DEF Deadline, RevokeGrant
  <2> QED
    BY <2>2, <2>3, <1>1, <1>u
<1>8. ASSUME NEW r \in Requests, DenyRequest(r) PROVE Preserved
  BY <1>8, <1>t, <1>u DEF DenyRequest
<1>9. ASSUME NEW u \in Recipients, RotateKeys(u) \/ StoreKey(u) PROVE Preserved
  BY <1>9, <1>t, <1>u DEF RotateKeys, StoreKey
<1>10. ASSUME NEW h \in Handlers, NEW u \in Recipients, CreateGrant(h, u) \/ Ask(h, u)
       PROVE  Preserved
  BY <1>10, <1>g, <1>t DEF CreateGrant, Ask, Idle
<1>11. ASSUME NEW h \in Handlers, NEW s \in Shares, InsertShare(h, s) PROVE Preserved
  <2>1. StaysOver
    BY <1>11 DEF InsertShare, TypeOK, StaysOver
  <2>2. \A k \in Handlers \ {h} :
          run'[k].pc = run[k].pc /\ run'[k].s = run[k].s /\ run'[k].late = run[k].late
    BY <1>11, <1>rows DEF InsertShare, RunRow
  <2>3. run'[h].pc \notin Views
    BY <1>11, <1>rows, <1>i DEF InsertShare, RunRow
  <2>4. \A k \in Handlers : run[k].pc \in Views => run[k].s \in Shares
    BY DEF RunHasSubject
  <2>5. LateViewsFindItEnded'
    BY <2>1, <2>2, <2>3, <2>4 DEF LateViewsFindItEnded, At, StaysOver
  <2> QED
    BY <1>11, <2>5 DEF InsertShare, LateViewRefused, Preserved
<1>12. ASSUME NEW h \in Handlers, NEW s \in Shares, StoreRead(h, s) PROVE Preserved
  <2>1. CASE Housekeep(Shares, Requests) /\ UNCHANGED run
    BY <2>1, <1>3, <1>12, <1>1, <1>u DEF StoreRead
  <2>2. CASE Goes(h, [Idle EXCEPT !.pc = "storing", !.s = s]) /\ UNCHANGED tables
    BY <2>2, <1>12, <1>g, <1>t DEF StoreRead, Idle
  <2> QED
    BY <1>12, <2>1, <2>2 DEF StoreRead
<1>13. ASSUME NEW h \in Handlers, NEW s \in Shares, ViewBegin(h, s) PROVE Preserved
  <2> DEFINE mine == {t \in Shares : share[t].to = share[s].to}
             asked == {r \in Requests : share[s].to \in {req[r].by, req[r].ref}}
             state == [Idle EXCEPT !.pc = "viewing", !.s = s, !.late = ~Live(s)]
  <2>1. Housekeep(mine, asked) /\ Goes(h, state) /\ UNCHANGED servedLate
        /\ share[s].st \in {"active", "ended"}
    BY <1>13 DEF ViewBegin, ViewClean
  <2>2. s \in mine /\ mine \in SUBSET Shares /\ asked \in SUBSET Requests
    OBVIOUS
  <2>3. state.pc = "viewing" /\ state.s = s /\ state.late = ~Live(s)
    BY DEF Idle
  <2> HIDE DEF mine, asked, state
  <2>4. StaysOver
    BY <2>1, <2>2, <1>3
  <2>5. ~Live(s) => Over(share'[s].st)
    <3>1. CASE share[s].st = "ended"
      BY <2>4, <3>1 DEF StaysOver
    <3>2. CASE share[s].st = "active" /\ share[s].due
      BY <2>1, <2>2, <3>2, HousekeepActive
    <3> QED
      BY <2>1, <3>1, <3>2 DEF Live
  <2>6. run'[h] = state /\ \A k \in Handlers \ {h} : run'[k] = run[k]
    BY <2>1, GoesRow
  <2>7. \A k \in Handlers : run[k].pc \in Views => run[k].s \in Shares
    BY DEF RunHasSubject
  <2>8. LateViewsFindItEnded'
    BY <2>3, <2>4, <2>5, <2>6, <2>7 DEF LateViewsFindItEnded, At, StaysOver
  <2> QED
    BY <2>1, <2>8 DEF LateViewRefused, Preserved
<1>14. ASSUME NEW h \in Handlers, NEW s \in Shares, NEW u \in Recipients, ReferRead(h, s, u)
       PROVE  Preserved
  BY <1>14, <1>g, <1>t DEF ReferRead, Idle
<1>15. ASSUME NEW h \in Handlers, NEW r \in Requests, ApproveRead(h, r) PROVE Preserved
  BY <1>15, <1>g, <1>t DEF ApproveRead, Idle
<1>16. ASSUME NEW h \in Handlers, NEW r \in Requests, Goes(h, Asked(h, r)) PROVE NoneStarts
  <2>1. Asked(h, r).pc \notin Views
    BY <1>rows, <1>i DEF Asked, RunRow
  <2> QED
    BY <2>1, <1>16, <1>g
<1>17. ASSUME NEW h \in Handlers, NEW r \in Requests, AskInsert(h, r) PROVE Preserved
  BY <1>17, <1>16, <1>t DEF AskInsert
<1>18. ASSUME NEW h \in Handlers, EndActive(h) PROVE Preserved
  <2>1. StaysOver
    <3>1. \A s \in Shares : End(share[s]).st = "ended"
      BY <1>srows DEF ShareRow, End
    <3> QED
      BY <1>18, <3>1 DEF EndActive, StaysOver
  <2> QED
    BY <1>18, <2>1, <1>1, <1>p DEF EndActive
<1>19. ASSUME NEW h \in Handlers, ApproveResolve(h) \/ ReferInsert(h) \/ Fails(h) PROVE Preserved
  BY <1>19, <1>g, <1>i, <1>t DEF ApproveResolve, ReferInsert, Fails
<1>20. ASSUME NEW h \in Handlers, StoreInsert(h) PROVE Preserved
  <2>1. StaysOver
    BY <1>20, <1>srows DEF StoreInsert, TypeOK, ShareRow, StaysOver
  <2> QED
    BY <1>20, <2>1, <1>1, <1>g, <1>i DEF StoreInsert
<1>21. ASSUME NEW h \in Handlers, ViewRead(h) PROVE Preserved
  <2>1. CASE share[run[h].s].st = "active"
    <3> DEFINE state == [run[h] EXCEPT !.pc = "reading"]
    <3>1. state.pc = "reading" /\ state.late = run[h].late
      BY <1>rows DEF RunRow
    <3>2. ~run[h].late
      BY <1>21, <2>1, <1>rows DEF ViewRead, LateViewsFindItEnded, At, RunRow
    <3>3. Goes(h, state) /\ UNCHANGED <<share, servedLate>>
      BY <1>21, <2>1 DEF ViewRead
    <3> HIDE DEF state
    <3>4. run'[h] = state /\ \A k \in Handlers \ {h} : run'[k] = run[k]
      BY <3>3, GoesRow
    <3>5. LateViewsFindItEnded'
      BY <3>1, <3>2, <3>3, <3>4 DEF LateViewsFindItEnded, At
    <3> QED
      BY <3>3, <3>5 DEF LateViewRefused, Preserved
  <2>2. CASE share[run[h].s].st # "active"
    BY <1>21, <2>2, <1>g, <1>i, <1>t DEF ViewRead
  <2> QED
    BY <2>1, <2>2
<1>22. ASSUME NEW h \in Handlers, ViewServe(h) PROVE Preserved
  <2>1. ~run[h].late
    BY <1>22 DEF ViewServe, LateViewsFindItEnded, At
  <2>2. UNCHANGED <<share, servedLate>> /\ Goes(h, Idle)
    BY <1>22, <2>1 DEF ViewServe
  <2> QED
    BY <2>2, <1>g, <1>i, <1>t
<1>23. ASSUME NEW h \in Handlers, AskRead(h) PROVE Preserved
  <2>1. \/ Goes(h, [run[h] EXCEPT !.pc = "adding"])
        \/ \E r \in Requests : Goes(h, Asked(h, r))
    BY <1>23 DEF AskRead
  <2>2. NoneStarts
    BY <2>1, <1>p, <1>16
  <2> QED
    BY <1>23, <2>2, <1>t DEF AskRead
<1>24. ASSUME ListState PROVE Preserved
  <2>1. StaysOver
    <3>1. Housekeep(Shares, Requests) /\ Shares \in SUBSET Shares /\ Requests \in SUBSET Requests
      BY <1>24 DEF ListState
    <3> QED
      BY <3>1, <1>3
  <2> QED
    BY <1>24, <2>1, <1>1, <1>u DEF ListState
<1> HIDE DEF ghosts, tables
<1>25. Preserved
  BY <1>6, <1>7, <1>8, <1>9, <1>10, <1>11, <1>12, <1>13, <1>14, <1>15, <1>17, <1>18,
     <1>19, <1>20, <1>21, <1>22, <1>23, <1>24 DEF Next
<1> QED
  BY <1>25 DEF Preserved

-----------------------------------------------------------------------------
(* The inductive invariant holds in every reachable state. *)
LEMMA InitSafety == Init => SafetyInv
<1> SUFFICES ASSUME Init PROVE SafetyInv
  OBVIOUS
<1>1. /\ \A s \in Shares : share[s] = NewShare
      /\ \A r \in Requests : req[r] = NewRequest
      /\ \A h \in Handlers : run[h] = Idle
      /\ NewShare.st = "none" /\ NewShare.from = NoRequest
      /\ Idle.pc = "idle" /\ Idle.r = NoRequest
  BY DEF Init, NewShare, NewRequest, Idle
<1>2. TypeOK
  BY ShareRows, RequestRows, RunRows DEF Init, TypeOK
<1>3. RunHasSubject /\ SeenWhileInserting /\ RequestsMade /\ LateViewsFindItEnded
  BY <1>1 DEF RunHasSubject, SeenWhileInserting, RequestsMade, LateViewsFindItEnded, At
<1>4. SharesReplaced /\ ShareBeingResolved
  BY <1>1 DEF SharesReplaced, ShareBeingResolved
<1> QED
  BY <1>2, <1>3, <1>4 DEF SafetyInv, LateViewRefused, Init

LEMMA SafetyStep == SafetyInv /\ [Next]_vars => SafetyInv'
  BY TypeStep, SubjectStep, ReplaceStep, ResolveStep, LateStep DEF SafetyInv

LEMMA SafetyAlways == Spec => []SafetyInv
  BY InitSafety, SafetyStep, PTL DEF Spec

(* The handler that is resolving the share's request is resolving that     *)
(* request.                                                                *)
LEMMA ResolvedAnswers == ShareBeingResolved => ShareAnswersRequest
  BY DEF ShareBeingResolved, ShareAnswersRequest

(* The tables of the location agent and the steps of its handlers keep     *)
(* their types, whatever the handlers interleave.                          *)
THEOREM TypeCorrect == Spec => []TypeOK
<1>1. SafetyInv => TypeOK
  BY DEF SafetyInv
<1> QED
  BY <1>1, SafetyAlways, PTL

(* create_grant replaces: two shares of a recipient are active together    *)
(* only if their creations overlapped, for any number of handlers.         *)
THEOREM Replaced == Spec => []SharesReplaced
<1>1. SafetyInv => SharesReplaced
  BY DEF SafetyInv
<1> QED
  BY <1>1, SafetyAlways, PTL

(* A share approve_request made goes with an approved request, unless the  *)
(* approval is under way or failed in its last statement.                  *)
THEOREM AnswersRequest == Spec => []ShareAnswersRequest
<1>1. SafetyInv => ShareAnswersRequest
  BY ResolvedAnswers DEF SafetyInv
<1> QED
  BY <1>1, SafetyAlways, PTL

(* view_latest_envelope hands out no envelope of a share that was over     *)
(* when the view began, whoever revokes, expires or purges it meanwhile.   *)
THEOREM LateRefused == Spec => []LateViewRefused
<1>1. SafetyInv => LateViewRefused
  BY DEF SafetyInv
<1> QED
  BY <1>1, SafetyAlways, PTL

=============================================================================
