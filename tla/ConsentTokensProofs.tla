------------------------ MODULE ConsentTokensProofs ------------------------
(* Proofs about ConsentTokens, for every set of processes, lanes and       *)
(* tokens, every coverage relation between scopes and every bound.         *)
EXTENDS ConsentTokens, TLAPS

RunRow == [pc : PCs, lane : Lanes, token : Tokens \cup {NoToken}, todo : SUBSET Pairs]

(* What the ledger lists are pairs of a lane and a token. *)
LEMMA GrantsType ==
    ASSUME NEW S, S \subseteq Lanes, \A l \in S : Active(l)
    PROVE  Grants(S) \in SUBSET Pairs
  BY DEF Grants, Pairs, Active, Live

LEMMA RunMovesType ==
    ASSUME run \in [Instances -> RunRow], NEW i \in Instances, NEW row \in RunRow,
           RunMoves(i, row)
    PROVE  run' \in [Instances -> RunRow]
  BY DEF RunMoves

LEMMA RowType ==
    ASSUME NEW pc \in PCs, NEW l \in Lanes, NEW t \in Tokens \cup {NoToken},
           NEW todo \in SUBSET Pairs
    PROVE  At(pc, l, t, todo) \in RunRow
  BY DEF At, RunRow

LEMMA IdleType == Idle \in RunRow
  BY RowType, LaneAssumption DEF Idle, PCs

(* TypeOK is preserved by every step of the system (a handler that reached *)
(* certain points has a token: RunHasToken).                               *)
LEMMA TypeStep == TypeOK /\ RunHasToken /\ [Next]_vars => TypeOK'
<1> SUFFICES ASSUME TypeOK, RunHasToken, [Next]_vars PROVE TypeOK'
  OBVIOUS
<1> USE LaneAssumption, TokenAssumption, BoundAssumption
<1> DEFINE LedgerOK ==
        /\ head \in [Lanes -> [action : {"none", "granted", "revoked"},
                               token : Tokens \cup {NoToken}]]
        /\ ended \in SUBSET Tokens
        /\ late \in SUBSET Instances
        /\ revived \in SUBSET Tokens
        /\ shared \in SUBSET Tokens
<1> DEFINE MemoryOK == /\ revoked \in [Instances -> SUBSET Tokens]
                       /\ refused \in [Instances -> SUBSET Tokens]
<1> DEFINE FailuresOK == /\ halfway \in SUBSET (Instances \X Tokens)
                         /\ faults \in 0..MaxFaults
                         /\ withdrawals \in 0..MaxWithdrawals
<1> DEFINE TokenOK == token \in [Tokens -> [lane : Lanes, phase : Phases]]
<1> DEFINE RunOK == run \in [Instances -> RunRow]
<1> DEFINE ExposureOK == exposure \in [Instances -> SUBSET Pairs]
<1>split. TypeOK <=> LedgerOK /\ MemoryOK /\ FailuresOK /\ TokenOK /\ RunOK /\ ExposureOK
  BY DEF TypeOK, RunRow
<1>splitp. TypeOK' <=> LedgerOK' /\ MemoryOK' /\ FailuresOK' /\ TokenOK' /\ RunOK' /\ ExposureOK'
  BY DEF TypeOK, RunRow
<1>g. ASSUME NEW i \in Instances, NEW l \in Lanes, NEW t \in Tokens, NEW lane,
             InsertGranted(i, l, t, lane)
      PROVE  LedgerOK'
  BY <1>g, <1>split DEF InsertGranted, Row, EndedBy, Overtaken
<1>r. ASSUME NEW l \in Lanes, InsertRevoked(l) PROVE LedgerOK'
  BY <1>r, <1>split DEF InsertRevoked, RevokedEnds, Row, EndedBy, Overtaken
<1>l. ASSUME NEW i \in Instances, late' = late \ {i},
             UNCHANGED <<head, ended, revived, shared>>
      PROVE  LedgerOK'
  BY <1>l, <1>split
<1>m. ASSUME NEW i \in Instances, NEW t \in Tokens, Remember(i, t) PROVE MemoryOK'
  BY <1>m, <1>split DEF Remember
<1>s. ASSUME NEW t \in Tokens, NEW l \in Lanes, Signed(t, l) PROVE TokenOK'
  BY <1>s, <1>split DEF Signed, Minted, Phases
<1>u. /\ UNCHANGED ledger => LedgerOK'
      /\ UNCHANGED memory => MemoryOK'
      /\ UNCHANGED failures => FailuresOK'
      /\ UNCHANGED token => TokenOK'
      /\ UNCHANGED run => RunOK'
      /\ UNCHANGED exposure => ExposureOK'
  BY <1>split DEF ledger, memory, failures
<1>rows. \A i \in Instances : /\ run[i].pc \in PCs
                              /\ run[i].lane \in Lanes
                              /\ run[i].token \in Tokens \cup {NoToken}
                              /\ run[i].todo \in SUBSET Pairs
  BY <1>split DEF RunRow
<1>m2. ASSUME NEW i \in Instances, NEW pc \in PCs, NEW l \in Lanes,
             NEW t \in Tokens \cup {NoToken}, NEW todo \in SUBSET Pairs,
             RunMoves(i, At(pc, l, t, todo))
      PROVE  RunOK'
  BY <1>m2, <1>split, RunMovesType, RowType
<1>m3. ASSUME NEW i \in Instances, RunMoves(i, Idle) PROVE RunOK'
  BY <1>m3, <1>split, RunMovesType, IdleType
<1> HIDE DEF LedgerOK, MemoryOK, FailuresOK, TokenOK, RunOK, ExposureOK
<1>a. \A l \in Lanes : Active(l) => head[l].token \in Tokens
  BY DEF Active, Live
<1>e. {} \in SUBSET Pairs
  OBVIOUS
<1>1. ASSUME NEW i \in Instances, ValidateStep(i) PROVE TypeOK'
  <2>1. ASSUME NEW t \in Tokens, ValidateStart(i, t) PROVE TypeOK'
    <3>1. token[t].lane \in Lanes
      BY <1>split DEF TokenOK
    <3> QED
      BY <2>1, <3>1, <1>u, <1>splitp, <1>m2 DEF ValidateStart, PCs
  <2>2. CASE ValidateLedger(i)
    <3>1. CASE IsTokenActive(run[i].token)
      BY <2>2, <3>1, <1>rows, <1>u, <1>splitp, <1>m2 DEF ValidateLedger, PCs
    <3>2. CASE ~IsTokenActive(run[i].token)
      BY <2>2, <3>2, <1>rows, <1>u, <1>splitp, <1>m2 DEF ValidateLedger, PCs
    <3> QED
      BY <3>1, <3>2
  <2>3. CASE ValidateRefuse(i)
    <3>1. run[i].token \in Tokens
      BY <2>3 DEF ValidateRefuse, RunHasToken
    <3> QED
      BY <2>3, <3>1, <1>m, <1>u, <1>splitp, <1>m3 DEF ValidateRefuse
  <2>4. CASE ValidateOutage(i)
    <3>1. CASE run[i].lane = OwnerLane
      BY <2>4, <3>1, <1>rows, <1>u, <1>splitp, <1>m2 DEF ValidateOutage, PCs
    <3>2. CASE run[i].lane # OwnerLane
      BY <2>4, <3>2, <1>u, <1>splitp, <1>m3 DEF ValidateOutage, PCs
    <3> QED
      BY <3>1, <3>2
  <2>5. CASE Finish(i)
    BY <2>5, <1>u, <1>splitp, <1>m3 DEF Finish
  <2> QED
    BY <1>1, <2>1, <2>2, <2>3, <2>4, <2>5 DEF ValidateStep
<1>2. ASSUME NEW i \in Instances, GrantStep(i) PROVE TypeOK'
  <2>1. ASSUME NEW l \in ExternalLanes, ApproveReuse(i, l) PROVE TypeOK'
    <3>1. PICK m \in BestCovering(l) : RunMoves(i, At("reusing", l, head[m].token, {}))
      BY <2>1 DEF ApproveReuse
    <3>2. m \in Lanes /\ Active(m) /\ l \in Lanes
      BY DEF BestCovering, Covering, ActiveExternal, ExternalLanes
    <3> QED
      BY <2>1, <3>1, <3>2, <1>a, <1>u, <1>splitp, <1>m2 DEF ApproveReuse, PCs
  <2>2. ASSUME NEW l \in ExternalLanes, ApproveNew(i, l) PROVE TypeOK'
    <3>1. l \in Lanes
      BY DEF ExternalLanes
    <3> QED
      BY <2>2, <3>1, <1>u, <1>splitp, <1>m2 DEF ApproveNew, PCs
  <2>3. CASE RecordReuse(i)
    <3>1. run[i].token \in Tokens /\ run[i].lane \in Lanes
      BY <2>3, <1>rows DEF RecordReuse, RunHasToken
    <3> QED
      BY <2>3, <3>1, <1>g, <1>u, <1>splitp, <1>m3 DEF RecordReuse
  <2>4. CASE RecordGrant(i)
    <3>1. PICK t \in Tokens : /\ Signed(t, run[i].lane)
                              /\ InsertGranted(i, run[i].lane, t, run[i].lane)
                              /\ RunMoves(i, At("superseding", run[i].lane, t, {}))
      BY <2>4 DEF RecordGrant
    <3> QED
      BY <2>4, <3>1, <1>rows, <1>s, <1>g, <1>u, <1>splitp, <1>m2 DEF RecordGrant, PCs
  <2>5. CASE ReadSuperseded(i)
    <3> DEFINE todo == Grants(Superseded(run[i].lane))
    <3>1. todo \in SUBSET Pairs
      BY GrantsType DEF Superseded, ActiveExternal, ExternalLanes
    <3> HIDE DEF todo
    <3>2. CASE todo = {}
      BY <2>5, <3>2, <1>u, <1>splitp, <1>m3 DEF ReadSuperseded, todo
    <3>3. CASE todo # {}
      <4>1. RunMoves(i, At("ending", OwnerLane, NoToken, todo))
        BY <2>5, <3>3 DEF ReadSuperseded, todo
      <4> QED
        BY <2>5, <3>1, <4>1, <1>u, <1>splitp, <1>m2 DEF ReadSuperseded, PCs
    <3> QED
      BY <3>2, <3>3
  <2> QED
    BY <1>2, <2>1, <2>2, <2>3, <2>4, <2>5 DEF GrantStep
<1>3. ASSUME NEW i \in Instances, EndStep(i) PROVE TypeOK'
  <2>1. ASSUME NEW l \in Lanes, Revoke(i, l) PROVE TypeOK'
    <3>1. Grants({l}) \in SUBSET Pairs
      BY <2>1, GrantsType DEF Revoke, ActiveExternal, ActiveInternal
    <3> QED
      BY <2>1, <3>1, <1>u, <1>splitp, <1>m2 DEF Revoke, PCs
  <2>2. ASSUME NEW d \in Lanes, WithdrawScope(i, d) PROVE TypeOK'
    <3> DEFINE hit == {l \in ActiveExternal \cup ActiveInternal : Overlaps(l, d)}
    <3>1. PICK kept \in SUBSET hit :
            exposure' = [exposure EXCEPT ![i] = Grants(kept)]
      BY <2>2 DEF WithdrawScope
    <3>2. Grants(kept) \in SUBSET Pairs
      BY GrantsType DEF ActiveExternal, ActiveInternal, ExternalLanes
    <3>3. ExposureOK'
      BY <3>1, <3>2, <1>split DEF ExposureOK
    <3>4. FailuresOK'
      BY <2>2, <1>split DEF WithdrawScope, FailuresOK
    <3> QED
      BY <2>2, <3>3, <3>4, <1>u, <1>splitp DEF WithdrawScope
  <2>3. CASE EndInMemory(i)
    <3>1. PICK p \in run[i].todo :
            /\ Remember(i, p[2])
            /\ RunMoves(i, At("recording", p[1], p[2], run[i].todo \ {p}))
      BY <2>3 DEF EndInMemory
    <3>2. p[1] \in Lanes /\ p[2] \in Tokens /\ run[i].todo \ {p} \in SUBSET Pairs
      BY <1>rows DEF Pairs
    <3> QED
      BY <2>3, <3>1, <3>2, <1>m, <1>u, <1>splitp, <1>m2 DEF EndInMemory, PCs
  <2>4. CASE EndInLedger(i)
    <3>1. CASE run[i].todo = {}
      BY <2>4, <3>1, <1>rows, <1>r, <1>u, <1>splitp, <1>m2 DEF EndInLedger, PCs
    <3>2. CASE run[i].todo # {}
      BY <2>4, <3>2, <1>rows, <1>r, <1>u, <1>splitp, <1>m2 DEF EndInLedger, PCs
    <3> QED
      BY <3>1, <3>2
  <2>5. CASE WithdrawNext(i)
    <3>1. PICK p \in exposure[i] :
            /\ exposure' = [exposure EXCEPT ![i] = exposure[i] \ {p}]
            /\ RunMoves(i, At("ending", OwnerLane, NoToken, {p}))
      BY <2>5 DEF WithdrawNext
    <3>2. {p} \in SUBSET Pairs /\ ExposureOK'
      BY <3>1, <1>split DEF ExposureOK
    <3> QED
      BY <2>5, <3>1, <3>2, <1>u, <1>splitp, <1>m2 DEF WithdrawNext, PCs
  <2> QED
    BY <1>3, <2>1, <2>2, <2>3, <2>4, <2>5 DEF EndStep
<1>4. ASSUME NEW i \in Instances, OwnerStep(i) PROVE TypeOK'
  <2>1. CASE OwnerReuse(i)
    BY <2>1, <1>a, <1>u, <1>splitp, <1>m2 DEF OwnerReuse, PCs
  <2>2. CASE OwnerRecheck(i)
    <3>1. run[i].token \in Tokens
      BY <2>2 DEF OwnerRecheck, RunHasToken
    <3>2. MemoryOK'
      BY <2>2, <3>1, <1>m, <1>u DEF OwnerRecheck
    <3>3. RunOK'
      <4>1. RunMoves(i, Idle) \/ RunMoves(i, At("issuing", OwnerLane, NoToken, {}))
        BY <2>2 DEF OwnerRecheck
      <4> QED
        BY <4>1, <1>m2, <1>m3 DEF PCs
    <3> QED
      BY <2>2, <3>2, <3>3, <1>u, <1>splitp DEF OwnerRecheck
  <2>3. CASE OwnerNew(i)
    BY <2>3, <1>u, <1>splitp, <1>m2 DEF OwnerNew, PCs
  <2>4. CASE OwnerRecord(i)
    BY <2>4, <1>s, <1>g, <1>u, <1>splitp, <1>m3 DEF OwnerRecord
  <2>5. CASE IssueSession(i)
    BY <2>5, <1>s, <1>u, <1>splitp DEF IssueSession
  <2>6. CASE Logout(i)
    <3>1. LogoutTargets = {}
      BY DEF LogoutTargets, ActiveExternal, ExternalLanes
    <3> QED
      BY <2>6, <3>1, <1>a, <1>u, <1>splitp, <1>m2 DEF Logout, PCs
  <2>7. CASE OwnerRecheckOutage(i)
    BY <2>7, <1>u, <1>splitp, <1>m3 DEF OwnerRecheckOutage
  <2> QED
    BY <1>4, <2>1, <2>2, <2>3, <2>4, <2>5, <2>6, <2>7 DEF OwnerStep
<1>5. ASSUME NEW i \in Instances, EnvStep(i) PROVE TypeOK'
  <2>1. ASSUME NEW t \in Tokens, Evict(i, t) PROVE TypeOK'
    <3>1. MemoryOK'
      BY <2>1, <1>split DEF Evict, MemoryOK
    <3> QED
      BY <2>1, <3>1, <1>u, <1>splitp DEF Evict
  <2>2. CASE Fail(i)
    <3>1. FailuresOK'
      BY <2>2, <1>split DEF Fail, FailuresOK, RunHasToken
    <3>2. ExposureOK'
      BY <2>2, <1>split, <1>u DEF Fail, ExposureOK
    <3> QED
      BY <2>2, <3>1, <3>2, <1>l, <1>u, <1>splitp, <1>m3 DEF Fail
  <2>3. CASE Restart(i)
    <3>1. FailuresOK'
      BY <2>3, <1>split DEF Restart, FailuresOK
    <3>2. ExposureOK' /\ MemoryOK'
      BY <2>3, <1>split DEF Restart, ExposureOK, MemoryOK
    <3> QED
      BY <2>3, <3>1, <3>2, <1>l, <1>u, <1>splitp, <1>m3 DEF Restart
  <2> QED
    BY <1>5, <2>1, <2>2, <2>3 DEF EnvStep
<1>6. ASSUME NEW t \in Tokens, Expire(t) PROVE TypeOK'
  <2>1. TokenOK'
    BY <1>6, <1>split DEF Expire, TokenOK, Minted, Phases
  <2> QED
    BY <1>6, <2>1, <1>u, <1>splitp DEF Expire
<1>7. CASE Disconnect
  <2>1. LedgerOK'
    BY <1>7, <1>split DEF Disconnect, RevokedEnds, LedgerOK, Row, EndedBy, Overtaken
  <2> QED
    BY <1>7, <2>1, <1>u, <1>splitp DEF Disconnect, memory, ledger
<1>8. CASE UNCHANGED vars
  BY <1>8, <1>u, <1>splitp DEF vars, ledger, memory, failures
<1> QED
  BY <1>1, <1>2, <1>3, <1>4, <1>5, <1>6, <1>7, <1>8 DEF Next

(* A handler keeps the token it works on: a token once issued keeps the    *)
(* lane that was signed into it.                                           *)
LEMMA RunHasTokenStep ==
    ASSUME TypeOK, UnissuedUnknown, RunHasToken, [Next]_vars
    PROVE  RunHasToken'
<1> USE LaneAssumption, TokenAssumption DEF RunHasToken, UnissuedUnknown, TypeOK, PCs, Pairs, At, Idle, Row, Minted, RunMoves, Free, Remember, Signed, InsertGranted, InsertRevoked, RevokedEnds, Overtaken, ledger, memory, failures, Live, Active, Phases, PassesMemory
<1>1. ASSUME NEW i \in Instances, ValidateStep(i) PROVE RunHasToken'
  <2>1. ASSUME NEW t \in Tokens, ValidateStart(i, t) PROVE RunHasToken'
    BY <2>1 DEF ValidateStart
  <2>2. CASE ValidateLedger(i)
    BY <2>2 DEF ValidateLedger
  <2>3. CASE ValidateRefuse(i)
    BY <2>3 DEF ValidateRefuse
  <2>4. CASE ValidateOutage(i)
    BY <2>4 DEF ValidateOutage
  <2>5. CASE Finish(i)
    BY <2>5 DEF Finish
  <2> QED
    BY <1>1, <2>1, <2>2, <2>3, <2>4, <2>5 DEF ValidateStep
<1>2. ASSUME NEW i \in Instances, GrantStep(i) PROVE RunHasToken'
  <2>1. ASSUME NEW l \in ExternalLanes, ApproveReuse(i, l) PROVE RunHasToken'
    BY <2>1 DEF ApproveReuse, BestCovering, Covering, ActiveExternal, ExternalLanes, Reusable
  <2>2. ASSUME NEW l \in ExternalLanes, ApproveNew(i, l) PROVE RunHasToken'
    BY <2>2 DEF ApproveNew
  <2>3. CASE RecordReuse(i)
    BY <2>3 DEF RecordReuse
  <2>4. CASE RecordGrant(i)
    <3>1. PICK t \in Tokens : /\ token[t].phase = "unissued"
                              /\ Signed(t, run[i].lane)
                              /\ RunMoves(i, At("superseding", run[i].lane, t, {}))
      BY <2>4 DEF RecordGrant
    <3>2. run'[i].pc = "superseding" /\ \A j \in Instances : j # i => run'[j] = run[j]
      BY <3>1
    <3>3. \A u \in Tokens : u # t => token'[u] = token[u]
      BY <3>1
    <3>4. \A j \in Instances : run[j].token # t
      BY <3>1
    <3>5. \A j \in Instances : run[j].token \in Tokens
                                => token'[run[j].token] = token[run[j].token]
      BY <3>3, <3>4
    <3> SUFFICES ASSUME NEW j \in Instances, j # i
                 PROVE  /\ run[j].pc \in {"checking", "stale", "accepted", "reusing",
                                          "recording", "rechecking"}
                            => run[j].token \in Tokens
                        /\ run[j].pc \in {"checking", "stale", "accepted"}
                            => run[j].lane = token'[run[j].token].lane
      BY <3>2
    <3> QED
      BY <3>5
  <2>5. CASE ReadSuperseded(i)
    BY <2>5 DEF ReadSuperseded
  <2> QED
    BY <1>2, <2>1, <2>2, <2>3, <2>4, <2>5 DEF GrantStep
<1>3. ASSUME NEW i \in Instances, EndStep(i) PROVE RunHasToken'
  <2>1. ASSUME NEW l \in Lanes, Revoke(i, l) PROVE RunHasToken'
    BY <2>1 DEF Revoke, Grants, ActiveExternal, ActiveInternal, ExternalLanes
  <2>2. ASSUME NEW l \in Lanes, WithdrawScope(i, l) PROVE RunHasToken'
    BY <2>2 DEF WithdrawScope, Grants, ActiveExternal, ActiveInternal, ExternalLanes
  <2>3. CASE EndInMemory(i)
    BY <2>3 DEF EndInMemory
  <2>4. CASE EndInLedger(i)
    BY <2>4 DEF EndInLedger
  <2>5. CASE WithdrawNext(i)
    BY <2>5 DEF WithdrawNext
  <2> QED
    BY <1>3, <2>1, <2>2, <2>3, <2>4, <2>5 DEF EndStep
<1>4. ASSUME NEW i \in Instances, OwnerStep(i) PROVE RunHasToken'
  <2>1. CASE OwnerReuse(i)
    BY <2>1 DEF OwnerReuse
  <2>2. CASE OwnerRecheck(i)
    BY <2>2 DEF OwnerRecheck, IsTokenActive
  <2>3. CASE OwnerNew(i)
    BY <2>3 DEF OwnerNew
  <2>4. CASE OwnerRecord(i)
    BY <2>4 DEF OwnerRecord
  <2>5. CASE IssueSession(i)
    BY <2>5 DEF IssueSession
  <2>6. CASE Logout(i)
    BY <2>6 DEF Logout, LogoutTargets, Grants, ActiveExternal, ExternalLanes
  <2>7. CASE OwnerRecheckOutage(i)
    BY <2>7 DEF OwnerRecheckOutage
  <2> QED
    BY <1>4, <2>1, <2>2, <2>3, <2>4, <2>5, <2>6, <2>7 DEF OwnerStep
<1>5. ASSUME NEW i \in Instances, EnvStep(i) PROVE RunHasToken'
  <2>1. ASSUME NEW t \in Tokens, Evict(i, t) PROVE RunHasToken'
    BY <2>1 DEF Evict
  <2>2. CASE Fail(i)
    BY <2>2 DEF Fail
  <2>3. CASE Restart(i)
    BY <2>3 DEF Restart
  <2> QED
    BY <1>5, <2>1, <2>2, <2>3 DEF EnvStep
<1>6. ASSUME NEW t \in Tokens, Expire(t) PROVE RunHasToken'
  BY <1>6 DEF Expire
<1>7. CASE Disconnect
  BY <1>7 DEF Disconnect, ActiveExternal, ExternalLanes
<1>8. CASE UNCHANGED vars
  BY <1>8 DEF vars
<1> QED
  BY <1>1, <1>2, <1>3, <1>4, <1>5, <1>6, <1>7, <1>8 DEF Next

(* Only issue_token makes a token known.                                   *)
LEMMA UnissuedStep ==
    ASSUME TypeOK, UnissuedUnknown, RunHasToken, [Next]_vars
    PROVE  UnissuedUnknown'
<1> USE LaneAssumption, TokenAssumption DEF RunHasToken, UnissuedUnknown, EndedBy, TypeOK, PCs, Pairs, At, Idle, Row, Minted, RunMoves, Free, Remember, Signed, InsertGranted, InsertRevoked, RevokedEnds, Overtaken, ledger, memory, failures, Live, Active, Phases, PassesMemory
<1>1. ASSUME NEW i \in Instances, ValidateStep(i) PROVE UnissuedUnknown'
  <2>1. ASSUME NEW t \in Tokens, ValidateStart(i, t) PROVE UnissuedUnknown'
    BY <2>1 DEF ValidateStart
  <2>2. CASE ValidateLedger(i)
    BY <2>2 DEF ValidateLedger, IsTokenActive
  <2>3. CASE ValidateRefuse(i)
    BY <2>3 DEF ValidateRefuse
  <2>4. CASE ValidateOutage(i)
    BY <2>4 DEF ValidateOutage
  <2>5. CASE Finish(i)
    BY <2>5 DEF Finish
  <2> QED
    BY <1>1, <2>1, <2>2, <2>3, <2>4, <2>5 DEF ValidateStep
<1>2. ASSUME NEW i \in Instances, GrantStep(i) PROVE UnissuedUnknown'
  <2>1. ASSUME NEW l \in ExternalLanes, ApproveReuse(i, l) PROVE UnissuedUnknown'
    BY <2>1 DEF ApproveReuse, BestCovering, Covering, ActiveExternal, ExternalLanes, Reusable
  <2>2. ASSUME NEW l \in ExternalLanes, ApproveNew(i, l) PROVE UnissuedUnknown'
    BY <2>2 DEF ApproveNew
  <2>3. CASE RecordReuse(i)
    BY <2>3 DEF RecordReuse
  <2>4. CASE RecordGrant(i)
    BY <2>4 DEF RecordGrant
  <2>5. CASE ReadSuperseded(i)
    <3> DEFINE todo == Grants(Superseded(run[i].lane))
    <3>1. \A p \in todo : \E l \in Lanes : /\ p = <<l, head[l].token>>
                                           /\ head[l].token \in Tokens
      BY DEF Superseded, Grants, ActiveExternal, ExternalLanes
    <3>2. \A p \in run'[i].todo : p \in todo
      BY <2>5 DEF ReadSuperseded
    <3>3. run'[i].pc \in {"idle", "ending"} /\ run'[i].token = NoToken
      BY <2>5 DEF ReadSuperseded
    <3>4. \A j \in Instances : j # i => run'[j] = run[j]
      BY <2>5 DEF ReadSuperseded
    <3>5. UNCHANGED <<token, head, ended, revoked, refused, exposure>>
      BY <2>5 DEF ReadSuperseded
    <3> HIDE DEF todo
    <3>6. \A t \in Tokens, l \in Lanes : token[t].phase = "unissued" => <<l, t>> \notin todo
      BY <3>1
    <3>7. \A j \in Instances : /\ run'[j].token \in {run[j].token, NoToken}
                               /\ run'[j].todo \subseteq run[j].todo \cup todo
      BY <3>2, <3>3, <3>4
    <3> QED
      BY <3>5, <3>6, <3>7
  <2> QED
    BY <1>2, <2>1, <2>2, <2>3, <2>4, <2>5 DEF GrantStep
<1>3. ASSUME NEW i \in Instances, EndStep(i) PROVE UnissuedUnknown'
  <2>1. ASSUME NEW l \in Lanes, Revoke(i, l) PROVE UnissuedUnknown'
    BY <2>1 DEF Revoke, Grants, ActiveExternal, ActiveInternal, ExternalLanes
  <2>2. ASSUME NEW l \in Lanes, WithdrawScope(i, l) PROVE UnissuedUnknown'
    BY <2>2 DEF WithdrawScope, Grants, ActiveExternal, ActiveInternal, ExternalLanes
  <2>3. CASE EndInMemory(i)
    BY <2>3 DEF EndInMemory
  <2>4. CASE EndInLedger(i)
    BY <2>4 DEF EndInLedger
  <2>5. CASE WithdrawNext(i)
    <3>1. PICK p \in exposure[i] :
            /\ exposure' = [exposure EXCEPT ![i] = exposure[i] \ {p}]
            /\ RunMoves(i, At("ending", OwnerLane, NoToken, {p}))
      BY <2>5 DEF WithdrawNext
    <3>2. run'[i].todo = {p} /\ run'[i].token = NoToken /\ exposure'[i] \subseteq exposure[i]
      BY <3>1
    <3>3. \A j \in Instances : j # i => run'[j] = run[j] /\ exposure'[j] = exposure[j]
      BY <3>1
    <3>4. UNCHANGED <<token, head, ended, revoked, refused>>
      BY <2>5 DEF WithdrawNext
    <3>5. \A j \in Instances : /\ run'[j].token \in {run[j].token, NoToken}
                               /\ run'[j].todo \subseteq run[j].todo \cup exposure[j]
                               /\ exposure'[j] \subseteq exposure[j]
      BY <3>1, <3>2, <3>3
    <3> QED
      BY <3>4, <3>5
  <2> QED
    BY <1>3, <2>1, <2>2, <2>3, <2>4, <2>5 DEF EndStep
<1>4. ASSUME NEW i \in Instances, OwnerStep(i) PROVE UnissuedUnknown'
  <2>1. CASE OwnerReuse(i)
    BY <2>1 DEF OwnerReuse
  <2>2. CASE OwnerRecheck(i)
    BY <2>2 DEF OwnerRecheck
  <2>3. CASE OwnerNew(i)
    BY <2>3 DEF OwnerNew
  <2>4. CASE OwnerRecord(i)
    BY <2>4 DEF OwnerRecord
  <2>5. CASE IssueSession(i)
    BY <2>5 DEF IssueSession
  <2>6. CASE Logout(i)
    BY <2>6 DEF Logout, LogoutTargets, Grants, ActiveExternal, ExternalLanes
  <2>7. CASE OwnerRecheckOutage(i)
    BY <2>7 DEF OwnerRecheckOutage
  <2> QED
    BY <1>4, <2>1, <2>2, <2>3, <2>4, <2>5, <2>6, <2>7 DEF OwnerStep
<1>5. ASSUME NEW i \in Instances, EnvStep(i) PROVE UnissuedUnknown'
  <2>1. ASSUME NEW t \in Tokens, Evict(i, t) PROVE UnissuedUnknown'
    BY <2>1 DEF Evict
  <2>2. CASE Fail(i)
    BY <2>2 DEF Fail
  <2>3. CASE Restart(i)
    BY <2>3 DEF Restart
  <2> QED
    BY <1>5, <2>1, <2>2, <2>3 DEF EnvStep
<1>6. ASSUME NEW t \in Tokens, Expire(t) PROVE UnissuedUnknown'
  BY <1>6 DEF Expire
<1>7. CASE Disconnect
  BY <1>7 DEF Disconnect, ActiveExternal, ExternalLanes
<1>8. CASE UNCHANGED vars
  BY <1>8 DEF vars
<1> QED
  BY <1>1, <1>2, <1>3, <1>4, <1>5, <1>6, <1>7, <1>8 DEF Next

(* A token reaches a lane that is not its own only by a recorded reuse,    *)
(* and never one of the strict lanes.                                      *)
LEMMA RowsStep ==
    ASSUME TypeOK, UnissuedUnknown, RunHasToken, RowsFitLane, [Next]_vars
    PROVE  RowsFitLane'
<1> USE LaneAssumption, TokenAssumption DEF RunHasToken, UnissuedUnknown, RowsFitLane, FitsLane, TypeOK, PCs, Pairs, At, Idle, Row, Minted, RunMoves, Free, Remember, Signed, InsertGranted, InsertRevoked, RevokedEnds, Overtaken, ledger, memory, failures, Live, Active, Phases, PassesMemory
<1>1. ASSUME NEW i \in Instances, ValidateStep(i) PROVE RowsFitLane'
  <2>1. ASSUME NEW t \in Tokens, ValidateStart(i, t) PROVE RowsFitLane'
    BY <2>1 DEF ValidateStart
  <2>2. CASE ValidateLedger(i)
    <3>1. run'[i].pc \in {"accepted", "stale"} /\ run'[i].todo = {}
      BY <2>2 DEF ValidateLedger
    <3>2. /\ \A j \in Instances : j # i => run'[j] = run[j]
          /\ UNCHANGED <<token, exposure, ledger>>
      BY <2>2 DEF ValidateLedger
    <3> QED
      BY <3>1, <3>2
  <2>3. CASE ValidateRefuse(i)
    BY <2>3 DEF ValidateRefuse
  <2>4. CASE ValidateOutage(i)
    BY <2>4 DEF ValidateOutage
  <2>5. CASE Finish(i)
    BY <2>5 DEF Finish
  <2> QED
    BY <1>1, <2>1, <2>2, <2>3, <2>4, <2>5 DEF ValidateStep
<1>2. ASSUME NEW i \in Instances, GrantStep(i) PROVE RowsFitLane'
  <2>1. ASSUME NEW l \in ExternalLanes, ApproveReuse(i, l) PROVE RowsFitLane'
    BY <2>1 DEF ApproveReuse, BestCovering, Covering, ActiveExternal, ExternalLanes, Reusable
  <2>2. ASSUME NEW l \in ExternalLanes, ApproveNew(i, l) PROVE RowsFitLane'
    BY <2>2 DEF ApproveNew
  <2>3. CASE RecordReuse(i)
    BY <2>3 DEF RecordReuse
  <2>4. CASE RecordGrant(i)
    BY <2>4 DEF RecordGrant
  <2>5. CASE ReadSuperseded(i)
    <3> DEFINE todo == Grants(Superseded(run[i].lane))
    <3>1. \A p \in todo : \E l \in Lanes : /\ p = <<l, head[l].token>>
                                           /\ head[l].token \in Tokens
      BY DEF Superseded, Grants, ActiveExternal, ExternalLanes
    <3>2. \A p \in run'[i].todo : p \in todo
      BY <2>5 DEF ReadSuperseded
    <3>3. run'[i].pc \in {"idle", "ending"} /\ run'[i].token = NoToken
      BY <2>5 DEF ReadSuperseded
    <3>4. /\ \A j \in Instances : j # i => run'[j] = run[j]
          /\ UNCHANGED <<token, memory, exposure, ledger>>
      BY <2>5 DEF ReadSuperseded
    <3> HIDE DEF todo
    <3> QED
      BY <3>1, <3>2, <3>3, <3>4
  <2> QED
    BY <1>2, <2>1, <2>2, <2>3, <2>4, <2>5 DEF GrantStep
<1>3. ASSUME NEW i \in Instances, EndStep(i) PROVE RowsFitLane'
  <2>1. ASSUME NEW l \in Lanes, Revoke(i, l) PROVE RowsFitLane'
    BY <2>1 DEF Revoke, Grants, ActiveExternal, ActiveInternal, ExternalLanes
  <2>2. ASSUME NEW l \in Lanes, WithdrawScope(i, l) PROVE RowsFitLane'
    BY <2>2 DEF WithdrawScope, Grants, ActiveExternal, ActiveInternal, ExternalLanes
  <2>3. CASE EndInMemory(i)
    BY <2>3 DEF EndInMemory
  <2>4. CASE EndInLedger(i)
    BY <2>4 DEF EndInLedger
  <2>5. CASE WithdrawNext(i)
    BY <2>5 DEF WithdrawNext
  <2> QED
    BY <1>3, <2>1, <2>2, <2>3, <2>4, <2>5 DEF EndStep
<1>4. ASSUME NEW i \in Instances, OwnerStep(i) PROVE RowsFitLane'
  <2>1. CASE OwnerReuse(i)
    BY <2>1 DEF OwnerReuse
  <2>2. CASE OwnerRecheck(i)
    <3>1. run'[i].pc \in {"idle", "issuing"} /\ run'[i].todo = {}
      BY <2>2 DEF OwnerRecheck
    <3>2. /\ \A k \in Instances : k # i => run'[k] = run[k]
          /\ UNCHANGED <<token, exposure, ledger>>
      BY <2>2 DEF OwnerRecheck
    <3> QED
      BY <3>1, <3>2
  <2>3. CASE OwnerNew(i)
    BY <2>3 DEF OwnerNew
  <2>4. CASE OwnerRecord(i)
    BY <2>4 DEF OwnerRecord
  <2>5. CASE IssueSession(i)
    BY <2>5 DEF IssueSession
  <2>6. CASE Logout(i)
    BY <2>6 DEF Logout, LogoutTargets, Grants, ActiveExternal, ExternalLanes
  <2>7. CASE OwnerRecheckOutage(i)
    BY <2>7 DEF OwnerRecheckOutage
  <2> QED
    BY <1>4, <2>1, <2>2, <2>3, <2>4, <2>5, <2>6, <2>7 DEF OwnerStep
<1>5. ASSUME NEW i \in Instances, EnvStep(i) PROVE RowsFitLane'
  <2>1. ASSUME NEW t \in Tokens, Evict(i, t) PROVE RowsFitLane'
    BY <2>1 DEF Evict
  <2>2. CASE Fail(i)
    BY <2>2 DEF Fail
  <2>3. CASE Restart(i)
    BY <2>3 DEF Restart
  <2> QED
    BY <1>5, <2>1, <2>2, <2>3 DEF EnvStep
<1>6. ASSUME NEW t \in Tokens, Expire(t) PROVE RowsFitLane'
  BY <1>6 DEF Expire
<1>7. CASE Disconnect
  BY <1>7 DEF Disconnect, ActiveExternal, ExternalLanes
<1>8. CASE UNCHANGED vars
  BY <1>8 DEF vars
<1> QED
  BY <1>1, <1>2, <1>3, <1>4, <1>5, <1>6, <1>7, <1>8 DEF Next

(* What is written after a token was ended does not bring it back, except  *)
(* the row of an approval that reuses it.                                  *)
LEMMA EndedStep ==
    ASSUME TypeOK, UnissuedUnknown, RunHasToken, EndedNotInForce, ReuseInForce, [Next]_vars
    PROVE  EndedNotInForce'
<1> USE LaneAssumption, TokenAssumption DEF RunHasToken, UnissuedUnknown, EndedBy, EndedNotInForce, InForce, TypeOK, PCs, Pairs, At, Idle, Row, Minted, RunMoves, Free, Remember, Signed, InsertGranted, InsertRevoked, RevokedEnds, Overtaken, ledger, memory, failures, Live, Active, Phases, PassesMemory
<1>1. ASSUME NEW i \in Instances, ValidateStep(i) PROVE EndedNotInForce'
  <2>1. ASSUME NEW t \in Tokens, ValidateStart(i, t) PROVE EndedNotInForce'
    BY <2>1 DEF ValidateStart
  <2>2. CASE ValidateLedger(i)
    BY <2>2 DEF ValidateLedger, IsTokenActive
  <2>3. CASE ValidateRefuse(i)
    BY <2>3 DEF ValidateRefuse
  <2>4. CASE ValidateOutage(i)
    BY <2>4 DEF ValidateOutage
  <2>5. CASE Finish(i)
    BY <2>5 DEF Finish
  <2> QED
    BY <1>1, <2>1, <2>2, <2>3, <2>4, <2>5 DEF ValidateStep
<1>2. ASSUME NEW i \in Instances, GrantStep(i) PROVE EndedNotInForce'
  <2>1. ASSUME NEW l \in ExternalLanes, ApproveReuse(i, l) PROVE EndedNotInForce'
    BY <2>1 DEF ApproveReuse, BestCovering, Covering, ActiveExternal, ExternalLanes, Reusable
  <2>2. ASSUME NEW l \in ExternalLanes, ApproveNew(i, l) PROVE EndedNotInForce'
    BY <2>2 DEF ApproveNew
  <2>3. CASE RecordReuse(i)
    <3> DEFINE t == run[i].token
               l == run[i].lane
    <3>1. t \in Tokens /\ l \in Lanes /\ run[i].pc = "reusing"
      BY <2>3 DEF RecordReuse
    <3>2. \A m \in Lanes : head'[m] = IF m = l THEN Row("granted", t) ELSE head[m]
      BY <2>3 DEF RecordReuse
    <3>3. ended' = ended \cup EndedBy(l, t) /\ UNCHANGED token
      BY <2>3 DEF RecordReuse
    <3>4. revived' = (revived \ EndedBy(l, t))
                      \cup (IF token[t].lane = l /\ t \in ended /\ i \in late THEN {t} ELSE {})
      BY <2>3 DEF RecordReuse
    <3>5. \A u \in EndedBy(l, t) : u # t /\ token[u].lane = l
      OBVIOUS
    <3>6. token[t].lane = l => i \in late \/ InForce(t)
      BY <3>1 DEF ReuseInForce
    <3> HIDE DEF t, l
    <3> SUFFICES ASSUME NEW u \in ended' \ revived' PROVE ~InForce(u)'
      OBVIOUS
    <3>7. u \in Tokens /\ token[u].lane \in Lanes
      BY <3>3
    <3>8. CASE token[u].lane # l
      <4>1. u \in ended \ revived
        BY <3>3, <3>4, <3>5, <3>8
      <4> QED
        BY <3>2, <3>3, <3>7, <3>8, <4>1
    <3>9. CASE token[u].lane = l /\ u # t
      BY <3>2, <3>3, <3>7, <3>9
    <3>10. CASE token[u].lane = l /\ u = t
      <4>1. t \in ended /\ t \notin revived /\ i \notin late
        BY <3>3, <3>4, <3>5, <3>10
      <4>2. InForce(t) /\ ~InForce(t)
        BY <3>6, <3>10, <4>1
      <4> QED
        BY <4>2
    <3> QED
      BY <3>8, <3>9, <3>10
  <2>4. CASE RecordGrant(i)
    <3>1. PICK t \in Tokens : /\ token[t].phase = "unissued"
                              /\ Signed(t, run[i].lane)
                              /\ InsertGranted(i, run[i].lane, t, run[i].lane)
      BY <2>4 DEF RecordGrant
    <3>2. run[i].lane \in Lanes
      OBVIOUS
    <3>3. \A u \in Tokens : u # t => token'[u] = token[u]
      BY <3>1
    <3>4. \A l \in Lanes : l # run[i].lane => head'[l] = head[l]
      BY <3>1
    <3>5. /\ head'[run[i].lane] = Row("granted", t)
          /\ t \notin ended'
          /\ \A u \in revived : u \in revived' \/ token[u].lane = run[i].lane
      BY <3>1, <3>2
    <3>6. \A u \in ended' : u \in ended \/ (u # t /\ token[u].lane = run[i].lane)
      BY <3>1
    <3> SUFFICES ASSUME NEW u \in ended' \ revived' PROVE ~InForce(u)'
      OBVIOUS
    <3>7. u \in Tokens /\ u # t /\ token'[u] = token[u]
      BY <3>1, <3>3, <3>5
    <3>8. CASE token[u].lane = run[i].lane
      BY <3>5, <3>7, <3>8
    <3>9. CASE token[u].lane # run[i].lane
      <4>1. u \in ended \ revived /\ token[u].lane \in Lanes
        BY <3>5, <3>6, <3>7, <3>9
      <4>2. ~InForce(u) /\ head'[token[u].lane] = head[token[u].lane]
        BY <3>4, <3>7, <3>9, <4>1
      <4> QED
        BY <3>7, <4>2
    <3> QED
      BY <3>8, <3>9
  <2>5. CASE ReadSuperseded(i)
    BY <2>5 DEF ReadSuperseded, Superseded, Grants, ActiveExternal, ExternalLanes
  <2> QED
    BY <1>2, <2>1, <2>2, <2>3, <2>4, <2>5 DEF GrantStep
<1>3. ASSUME NEW i \in Instances, EndStep(i) PROVE EndedNotInForce'
  <2>1. ASSUME NEW l \in Lanes, Revoke(i, l) PROVE EndedNotInForce'
    BY <2>1 DEF Revoke, Grants, ActiveExternal, ActiveInternal, ExternalLanes
  <2>2. ASSUME NEW l \in Lanes, WithdrawScope(i, l) PROVE EndedNotInForce'
    BY <2>2 DEF WithdrawScope, Grants, ActiveExternal, ActiveInternal, ExternalLanes
  <2>3. CASE EndInMemory(i)
    BY <2>3 DEF EndInMemory
  <2>4. CASE EndInLedger(i)
    <3>1. \A l \in Lanes : head'[l] = IF l = run[i].lane
                                        THEN Row("revoked", NoToken) ELSE head[l]
      BY <2>4 DEF EndInLedger
    <3>2. \A u \in ended' : u \in ended \/ token[u].lane = run[i].lane
      BY <2>4 DEF EndInLedger
    <3>3. /\ UNCHANGED token /\ ended' \subseteq Tokens
          /\ \A u \in revived : u \in revived' \/ token[u].lane = run[i].lane
      BY <2>4 DEF EndInLedger
    <3> SUFFICES ASSUME NEW u \in ended' \ revived' PROVE ~InForce(u)'
      OBVIOUS
    <3>4. u \in Tokens /\ token[u].lane \in Lanes
      BY <3>3
    <3>5. CASE token[u].lane = run[i].lane
      BY <3>1, <3>3, <3>4, <3>5
    <3>6. CASE token[u].lane # run[i].lane
      BY <3>1, <3>2, <3>3, <3>4, <3>6
    <3> QED
      BY <3>5, <3>6
  <2>5. CASE WithdrawNext(i)
    BY <2>5 DEF WithdrawNext
  <2> QED
    BY <1>3, <2>1, <2>2, <2>3, <2>4, <2>5 DEF EndStep
<1>4. ASSUME NEW i \in Instances, OwnerStep(i) PROVE EndedNotInForce'
  <2>1. CASE OwnerReuse(i)
    BY <2>1 DEF OwnerReuse
  <2>2. CASE OwnerRecheck(i)
    BY <2>2 DEF OwnerRecheck, IsTokenActive
  <2>3. CASE OwnerNew(i)
    BY <2>3 DEF OwnerNew
  <2>4. CASE OwnerRecord(i)
    <3>1. PICK t \in Tokens : /\ token[t].phase = "unissued"
                              /\ Signed(t, OwnerLane)
                              /\ InsertGranted(i, OwnerLane, t, OwnerLane)
      BY <2>4 DEF OwnerRecord
    <3>2. OwnerLane \in Lanes
      OBVIOUS
    <3>3. \A u \in Tokens : u # t => token'[u] = token[u]
      BY <3>1
    <3>4. \A l \in Lanes : l # OwnerLane => head'[l] = head[l]
      BY <3>1
    <3>5. /\ head'[OwnerLane] = Row("granted", t)
          /\ t \notin ended'
          /\ \A u \in revived : u \in revived' \/ token[u].lane = OwnerLane
      BY <3>1, <3>2
    <3>6. \A u \in ended' : u \in ended \/ (u # t /\ token[u].lane = OwnerLane)
      BY <3>1
    <3> SUFFICES ASSUME NEW u \in ended' \ revived' PROVE ~InForce(u)'
      OBVIOUS
    <3>7. u \in Tokens /\ u # t /\ token'[u] = token[u]
      BY <3>1, <3>3, <3>5
    <3>8. CASE token[u].lane = OwnerLane
      BY <3>5, <3>7, <3>8
    <3>9. CASE token[u].lane # OwnerLane
      <4>1. u \in ended \ revived /\ token[u].lane \in Lanes
        BY <3>5, <3>6, <3>7, <3>9
      <4>2. ~InForce(u) /\ head'[token[u].lane] = head[token[u].lane]
        BY <3>4, <3>7, <3>9, <4>1
      <4> QED
        BY <3>7, <4>2
    <3> QED
      BY <3>8, <3>9
  <2>5. CASE IssueSession(i)
    BY <2>5 DEF IssueSession
  <2>6. CASE Logout(i)
    BY <2>6 DEF Logout, LogoutTargets, Grants, ActiveExternal, ExternalLanes
  <2>7. CASE OwnerRecheckOutage(i)
    BY <2>7 DEF OwnerRecheckOutage
  <2> QED
    BY <1>4, <2>1, <2>2, <2>3, <2>4, <2>5, <2>6, <2>7 DEF OwnerStep
<1>5. ASSUME NEW i \in Instances, EnvStep(i) PROVE EndedNotInForce'
  <2>1. ASSUME NEW t \in Tokens, Evict(i, t) PROVE EndedNotInForce'
    BY <2>1 DEF Evict
  <2>2. CASE Fail(i)
    BY <2>2 DEF Fail
  <2>3. CASE Restart(i)
    BY <2>3 DEF Restart
  <2> QED
    BY <1>5, <2>1, <2>2, <2>3 DEF EnvStep
<1>6. ASSUME NEW t \in Tokens, Expire(t) PROVE EndedNotInForce'
  BY <1>6 DEF Expire
<1>7. CASE Disconnect
  <2> DEFINE hit == ActiveExternal \cap AdvisorLanes
  <2>1. \A l \in Lanes : head'[l] = IF l \in hit THEN Row("revoked", NoToken) ELSE head[l]
    BY <1>7 DEF Disconnect
  <2>2. \A u \in ended' : u \in ended \/ (u \in Tokens /\ token[u].lane \in hit)
    BY <1>7 DEF Disconnect
  <2>3. UNCHANGED token /\ \A u \in revived : u \in revived' \/ token[u].lane \in hit
    BY <1>7 DEF Disconnect
  <2> HIDE DEF hit
  <2> SUFFICES ASSUME NEW u \in ended' \ revived' PROVE ~InForce(u)'
    OBVIOUS
  <2>4. u \in Tokens /\ token[u].lane \in Lanes /\ token' = token
    BY <2>2, <2>3
  <2>5. CASE token[u].lane \in hit
    BY <2>1, <2>4, <2>5
  <2>6. CASE token[u].lane \notin hit
    <3>1. ~InForce(u) /\ head'[token[u].lane] = head[token[u].lane]
      BY <2>1, <2>2, <2>3, <2>4, <2>6
    <3> QED
      BY <2>4, <3>1
  <2> QED
    BY <2>5, <2>6
<1>8. CASE UNCHANGED vars
  BY <1>8 DEF vars
<1> QED
  BY <1>1, <1>2, <1>3, <1>4, <1>5, <1>6, <1>7, <1>8 DEF Next

(* A lane is granted to tokens whose scope covers it, however often they   *)
(* are reused.                                                             *)
LEMMA CoveredStep ==
    ASSUME TypeOK, UnissuedUnknown, RunHasToken, RowsCovered, [Next]_vars
    PROVE  RowsCovered'
<1> USE LaneAssumption, TokenAssumption, CoverAssumption DEF TypeOK, RowsCovered
<1>h. ASSUME \A l \in Lanes : \/ head'[l] = head[l]
                              \/ head'[l].token = NoToken
                              \/ <<token'[head'[l].token].lane, l>> \in Covers,
             \A i \in Instances :
                 \/ run'[i] = run[i]
                 \/ run'[i].pc # "reusing"
                 \/ <<token'[run'[i].token].lane, run'[i].lane>> \in Covers,
             \A u \in Tokens : token[u].phase # "unissued" => token'[u].lane = token[u].lane
      PROVE  RowsCovered'
  <2>1. \A l \in Lanes : head[l].token \in Tokens => token[head[l].token].phase # "unissued"
    BY DEF UnissuedUnknown
  <2>2. \A i \in Instances : run[i].pc = "reusing" =>
            run[i].token \in Tokens /\ token[run[i].token].phase # "unissued"
    BY DEF UnissuedUnknown, RunHasToken
  <2>3. ASSUME NEW l \in Lanes, head'[l].token \in Tokens
        PROVE  <<token'[head'[l].token].lane, l>> \in Covers
    <3>1. CASE head'[l] = head[l]
      BY <1>h, <2>1, <2>3, <3>1
    <3>2. CASE head'[l] # head[l]
      BY <1>h, <2>3, <3>2
    <3> QED
      BY <3>1, <3>2
  <2>4. ASSUME NEW i \in Instances, run'[i].pc = "reusing"
        PROVE  <<token'[run'[i].token].lane, run'[i].lane>> \in Covers
    <3>1. CASE run'[i] = run[i]
      BY <1>h, <2>2, <2>4, <3>1
    <3>2. CASE run'[i] # run[i]
      BY <1>h, <2>4, <3>2
    <3> QED
      BY <3>1, <3>2
  <2> QED
    BY <2>3, <2>4
<1>n. ASSUME NEW i \in Instances, \A j \in Instances : j # i => run'[j] = run[j],
             run'[i].pc # "reusing", UNCHANGED <<token, head>>
      PROVE  RowsCovered'
  BY <1>h, <1>n
<1>g. ASSUME NEW i \in Instances, \A j \in Instances : j # i => run'[j] = run[j],
             run'[i].pc # "reusing", NEW l \in Lanes, NEW t \in Tokens,
             token[t].phase = "unissued", Signed(t, l),
             \A m \in Lanes : m # l => head'[m] = head[m], head'[l].token = t
      PROVE  RowsCovered'
  <2>1. token'[t].lane = l /\ \A u \in Tokens : u # t => token'[u] = token[u]
    BY <1>g DEF Signed, Minted
  <2>2. \A m \in Lanes : \/ head'[m] = head[m]
                         \/ <<token'[head'[m].token].lane, m>> \in Covers
    BY <1>g, <2>1
  <2>3. \A j \in Instances : run'[j] = run[j] \/ run'[j].pc # "reusing"
    BY <1>g
  <2>4. \A u \in Tokens : token[u].phase # "unissued" => token'[u].lane = token[u].lane
    BY <1>g, <2>1
  <2> QED
    BY <1>h, <2>2, <2>3, <2>4
<1> USE DEF RunMoves, At, Idle, Row, memory, ledger, Free
<1>1. ASSUME NEW i \in Instances, ValidateStep(i) PROVE RowsCovered'
  BY <1>1, <1>n
     DEF ValidateStep, ValidateStart, ValidateLedger, ValidateRefuse, ValidateOutage, Finish
<1>2. ASSUME NEW i \in Instances, GrantStep(i) PROVE RowsCovered'
  <2>1. ASSUME NEW l \in ExternalLanes, ApproveReuse(i, l) PROVE RowsCovered'
    <3>1. PICK m \in BestCovering(l) : RunMoves(i, At("reusing", l, head[m].token, {}))
      BY <2>1 DEF ApproveReuse
    <3>2. m \in Lanes /\ Active(m) /\ l \in Lanes /\ <<m, l>> \in Covers
      BY DEF BestCovering, Covering, ActiveExternal, ExternalLanes
    <3>3. head[m].token \in Tokens /\ <<token[head[m].token].lane, m>> \in Covers
      BY <3>2 DEF Active, Live
    <3>4. <<token[head[m].token].lane, l>> \in Covers
      BY <3>2, <3>3
    <3>5. run'[i].token = head[m].token /\ run'[i].lane = l
      BY <3>1
    <3>6. (\A j \in Instances : j # i => run'[j] = run[j]) /\ UNCHANGED <<token, head>>
      BY <2>1, <3>1 DEF ApproveReuse
    <3> QED
      BY <1>h, <3>4, <3>5, <3>6
  <2>2. ASSUME NEW l \in ExternalLanes, ApproveNew(i, l) PROVE RowsCovered'
    BY <2>2, <1>n DEF ApproveNew
  <2>3. CASE RecordReuse(i)
    <3>1. /\ <<token[run[i].token].lane, run[i].lane>> \in Covers
          /\ run[i].lane \in Lanes
      BY <2>3 DEF RecordReuse
    <3>2. /\ \A l \in Lanes : l # run[i].lane => head'[l] = head[l]
          /\ head'[run[i].lane].token = run[i].token
          /\ UNCHANGED token
      BY <2>3 DEF RecordReuse, InsertGranted
    <3>3. run'[i].pc # "reusing" /\ \A j \in Instances : j # i => run'[j] = run[j]
      BY <2>3 DEF RecordReuse
    <3> QED
      BY <1>h, <3>1, <3>2, <3>3
  <2>4. CASE RecordGrant(i)
    <3>1. PICK t \in Tokens : /\ token[t].phase = "unissued"
                              /\ Signed(t, run[i].lane)
                              /\ InsertGranted(i, run[i].lane, t, run[i].lane)
                              /\ RunMoves(i, At("superseding", run[i].lane, t, {}))
      BY <2>4 DEF RecordGrant
    <3>2. run[i].lane \in Lanes
      OBVIOUS
    <3>3. /\ \A m \in Lanes : m # run[i].lane => head'[m] = head[m]
          /\ head'[run[i].lane].token = t
      BY <3>1, <3>2 DEF InsertGranted
    <3>4. run'[i].pc # "reusing" /\ \A j \in Instances : j # i => run'[j] = run[j]
      BY <3>1
    <3> HIDE DEF TypeOK, RowsCovered, Row
    <3> QED
      BY <1>g, <3>1, <3>2, <3>3, <3>4
  <2>5. CASE ReadSuperseded(i)
    BY <2>5, <1>n DEF ReadSuperseded
  <2> QED
    BY <1>2, <2>1, <2>2, <2>3, <2>4, <2>5 DEF GrantStep
<1>3. ASSUME NEW i \in Instances, EndStep(i) PROVE RowsCovered'
  <2>1. CASE \E l \in Lanes : Revoke(i, l)
    BY <2>1, <1>n DEF Revoke
  <2>2. CASE \E l \in Lanes : WithdrawScope(i, l)
    BY <2>2, <1>h DEF WithdrawScope
  <2>3. CASE EndInMemory(i) \/ WithdrawNext(i)
    <3>1. /\ \A j \in Instances : j # i => run'[j] = run[j]
          /\ run'[i].pc # "reusing"
          /\ UNCHANGED <<token, head>>
      BY <2>3 DEF EndInMemory, WithdrawNext
    <3> QED
      BY <3>1, <1>n
  <2>4. CASE EndInLedger(i)
    BY <2>4, <1>h DEF EndInLedger, InsertRevoked
  <2> QED
    BY <1>3, <2>1, <2>2, <2>3, <2>4 DEF EndStep
<1>4. ASSUME NEW i \in Instances, OwnerStep(i) PROVE RowsCovered'
  <2>1. CASE OwnerReuse(i) \/ OwnerNew(i) \/ OwnerRecheckOutage(i)
    <3>1. /\ \A j \in Instances : j # i => run'[j] = run[j]
          /\ run'[i].pc # "reusing"
          /\ UNCHANGED <<token, head>>
      BY <2>1 DEF OwnerReuse, OwnerNew, OwnerRecheckOutage
    <3> QED
      BY <3>1, <1>n
  <2>2. CASE OwnerRecheck(i)
    <3>1. run'[i].pc # "reusing" /\ \A j \in Instances : j # i => run'[j] = run[j]
      BY <2>2 DEF OwnerRecheck
    <3>2. UNCHANGED <<token, head>>
      BY <2>2 DEF OwnerRecheck
    <3> QED
      BY <3>1, <3>2, <1>n
  <2>3. CASE OwnerRecord(i)
    <3>1. PICK t \in Tokens : /\ token[t].phase = "unissued"
                              /\ Signed(t, OwnerLane)
                              /\ InsertGranted(i, OwnerLane, t, OwnerLane)
      BY <2>3 DEF OwnerRecord
    <3>2. /\ \A m \in Lanes : m # OwnerLane => head'[m] = head[m]
          /\ head'[OwnerLane].token = t
      BY <3>1 DEF InsertGranted
    <3>3. run'[i].pc # "reusing" /\ \A j \in Instances : j # i => run'[j] = run[j]
      BY <2>3 DEF OwnerRecord
    <3> HIDE DEF TypeOK, RowsCovered, Row
    <3> QED
      BY <1>g, <3>1, <3>2, <3>3
  <2>4. CASE IssueSession(i)
    BY <2>4, <1>h DEF IssueSession, Signed
  <2>5. CASE Logout(i)
    BY <2>5, <1>n DEF Logout
  <2> QED
    BY <1>4, <2>1, <2>2, <2>3, <2>4, <2>5 DEF OwnerStep
<1>5. ASSUME NEW i \in Instances, EnvStep(i) PROVE RowsCovered'
  <2>1. CASE \E t \in Tokens : Evict(i, t)
    BY <2>1, <1>h DEF Evict
  <2>2. CASE Fail(i) \/ Restart(i)
    BY <2>2, <1>n DEF Fail, Restart
  <2> QED
    BY <1>5, <2>1, <2>2 DEF EnvStep
<1>6. ASSUME NEW t \in Tokens, Expire(t) PROVE RowsCovered'
  BY <1>6, <1>h DEF Expire, Minted
<1>7. CASE Disconnect
  BY <1>7, <1>h DEF Disconnect
<1>8. CASE UNCHANGED vars
  BY <1>8, <1>h DEF vars
<1> QED
  BY <1>1, <1>2, <1>3, <1>4, <1>5, <1>6, <1>7, <1>8 DEF Next

(* While an approval is about to record a token on the lane signed into    *)
(* it, the token stays in force or the approval is noted as overtaken.     *)
LEMMA ReuseStep ==
    ASSUME TypeOK, UnissuedUnknown, RunHasToken, RowsCovered, ReuseInForce, [Next]_vars
    PROVE  ReuseInForce'
<1> USE LaneAssumption, TokenAssumption DEF TypeOK, ReuseInForce
<1>h. ASSUME NEW i \in Instances, NEW E,
             \A j \in Instances : j # i => run'[j] = run[j],
             run'[i].pc # "reusing",
             \A j \in Instances : j \in late' <=> j # i /\ (j \in late \/ j \in Overtaken(E)),
             ended' = ended \cup E,
             \A u \in Tokens : InForce(u) => InForce(u)' \/ u \in E,
             \A j \in Instances : run[j].token \in Tokens
                => token'[run[j].token].lane = token[run[j].token].lane
      PROVE  ReuseInForce'
  <2> SUFFICES ASSUME NEW j \in Instances
               PROVE  /\ j \in late' => run'[j].pc = "reusing" /\ run'[j].token \in ended'
                      /\ run'[j].pc = "reusing" /\ token'[run'[j].token].lane = run'[j].lane
                           => j \in late' \/ head'[token'[run'[j].token].lane]
                                              = Row("granted", run'[j].token)
    BY DEF InForce
  <2>1. ASSUME j \in late' PROVE run'[j].pc = "reusing" /\ run'[j].token \in ended'
    BY <1>h, <2>1 DEF Overtaken
  <2>2. ASSUME run'[j].pc = "reusing", token'[run'[j].token].lane = run'[j].lane
        PROVE  j \in late' \/ head'[token'[run'[j].token].lane]
                                = Row("granted", run'[j].token)
    <3>1. j # i /\ run'[j] = run[j]
      BY <1>h, <2>2
    <3>2. run[j].token \in Tokens /\ token[run[j].token].lane = run[j].lane
      BY <1>h, <2>2, <3>1 DEF RunHasToken
    <3>3. j \in late \/ InForce(run[j].token)
      BY <2>2, <3>1, <3>2
    <3>4. run[j].token \in E => j \in Overtaken(E)
      BY <2>2, <3>1 DEF Overtaken
    <3>5. InForce(run[j].token) =>
            \/ head'[token'[run[j].token].lane] = Row("granted", run[j].token)
            \/ run[j].token \in E
      BY <1>h, <3>2 DEF InForce
    <3> QED
      BY <1>h, <3>1, <3>3, <3>4, <3>5
  <2>3. j # i => run'[j] = run[j]
    BY <1>h
  <2>4. ASSUME run'[j].pc = "reusing" PROVE run'[j] = run[j]
    BY <1>h, <2>4
  <2> QED
    BY <2>1, <2>2, <2>4
<1>n. ASSUME NEW i \in Instances, run[i].pc # "reusing", run'[i].pc # "reusing",
             \A j \in Instances : j # i => run'[j] = run[j],
             UNCHANGED <<token, head, ended, late>>
      PROVE  ReuseInForce'
  <2>1. i \notin late
    BY <1>n
  <2>2. \A u \in Tokens : InForce(u) => InForce(u)'
    BY <1>n DEF InForce
  <2>3. \A j \in Instances : j \notin Overtaken({})
    BY DEF Overtaken
  <2> QED
    BY <1>n, <1>h, <2>1, <2>2, <2>3
<1>q. ASSUME UNCHANGED <<run, head, ended, late>>,
             \A u \in Tokens : token[u].phase # "unissued" => token'[u].lane = token[u].lane
      PROVE  ReuseInForce'
  <2>1. \A j \in Instances : run[j].pc = "reusing" =>
            run[j].token \in Tokens /\ token[run[j].token].phase # "unissued"
    BY DEF UnissuedUnknown, RunHasToken
  <2>2. \A j \in Instances : run[j].pc = "reusing" =>
            /\ token'[run[j].token].lane = token[run[j].token].lane
            /\ InForce(run[j].token)' <=> InForce(run[j].token)
    BY <1>q, <2>1 DEF InForce
  <2> QED
    BY <1>q, <2>2
<1>g. ASSUME NEW i \in Instances, run[i].pc # "reusing", run'[i].pc # "reusing",
             \A j \in Instances : j # i => run'[j] = run[j],
             NEW l \in Lanes, NEW t \in Tokens, token[t].phase = "unissued",
             Signed(t, l), InsertGranted(i, l, t, l)
      PROVE  ReuseInForce'
  <2>1. \A u \in Tokens : u # t => token'[u] = token[u]
    BY <1>g DEF Signed
  <2>2. \A j \in Instances : run[j].token # t
    BY <1>g DEF UnissuedUnknown
  <2>3. \A u \in Tokens : InForce(u) => InForce(u)' \/ u \in EndedBy(l, t)
    <3> SUFFICES ASSUME NEW u \in Tokens, InForce(u), u \notin EndedBy(l, t)
                 PROVE  InForce(u)'
      OBVIOUS
    <3>1. token[u].lane \in Lanes /\ head[token[u].lane].token = u
      BY DEF InForce, Row
    <3>2. u # t
      BY <1>g, <3>1 DEF UnissuedUnknown
    <3>3. token[u].lane # l
      BY <3>1, <3>2 DEF EndedBy
    <3> QED
      BY <1>g, <2>1, <3>1, <3>2, <3>3 DEF InForce, InsertGranted
  <2>4. /\ ended' = ended \cup EndedBy(l, t)
        /\ \A j \in Instances :
              j \in late' <=> j # i /\ (j \in late \/ j \in Overtaken(EndedBy(l, t)))
    BY <1>g DEF InsertGranted
  <2>5. \A j \in Instances : run[j].token \in Tokens
                => token'[run[j].token].lane = token[run[j].token].lane
    BY <2>1, <2>2
  <2> QED
    BY <1>g, <1>h, <2>3, <2>4, <2>5
<1> USE DEF RunMoves, At, Idle, memory, ledger, Free
<1>1. ASSUME NEW i \in Instances, ValidateStep(i) PROVE ReuseInForce'
  <2>1. /\ \A j \in Instances : j # i => run'[j] = run[j]
        /\ run[i].pc # "reusing" /\ run'[i].pc # "reusing"
        /\ UNCHANGED <<token, head, ended, late>>
    BY <1>1
       DEF ValidateStep, ValidateStart, ValidateLedger, ValidateRefuse, ValidateOutage, Finish
  <2> QED
    BY <2>1, <1>n
<1>2. ASSUME NEW i \in Instances, GrantStep(i) PROVE ReuseInForce'
  <2>1. ASSUME NEW l \in ExternalLanes, ApproveReuse(i, l) PROVE ReuseInForce'
    <3>1. PICK m \in BestCovering(l) : RunMoves(i, At("reusing", l, head[m].token, {}))
      BY <2>1 DEF ApproveReuse
    <3>2. m \in Lanes /\ Active(m) /\ l \in Lanes /\ <<m, l>> \in Covers
      BY DEF BestCovering, Covering, ActiveExternal, ExternalLanes
    <3> DEFINE t == head[m].token
    <3>3. t \in Tokens /\ <<token[t].lane, m>> \in Covers
      BY <3>2 DEF Active, Live, RowsCovered
    <3>4. run'[i].pc = "reusing" /\ run'[i].token = t /\ run'[i].lane = l /\ run[i].pc # "reusing"
      BY <2>1, <3>1 DEF ApproveReuse
    <3>5. (\A j \in Instances : j # i => run'[j] = run[j]) /\ UNCHANGED <<token, ledger>>
      BY <2>1, <3>1 DEF ApproveReuse
    <3>6. token[t].lane = l => InForce(t)
      <4>1. token[t].lane = l => l = m
        BY <3>2, <3>3, CoverAssumption
      <4>2. head[m].action = "granted"
        BY <3>2 DEF Active
      <4>3. head[m] = Row("granted", t)
        BY <3>2, <4>2 DEF Row
      <4> QED
        BY <4>1, <4>3 DEF InForce
    <3> HIDE DEF t
    <3>8. i \notin late' /\ UNCHANGED <<token, head, late, ended>>
      BY <3>4, <3>5
    <3> SUFFICES ASSUME NEW j \in Instances
                 PROVE  /\ j \in late' => run'[j].pc = "reusing" /\ run'[j].token \in ended'
                        /\ run'[j].pc = "reusing" /\ token'[run'[j].token].lane = run'[j].lane
                             => j \in late' \/ head'[token'[run'[j].token].lane]
                                                = Row("granted", run'[j].token)
      BY DEF InForce
    <3>9. CASE j = i
      BY <3>4, <3>6, <3>8, <3>9 DEF InForce
    <3>10. CASE j # i
      <4>1. run'[j] = run[j]
        BY <3>5, <3>10
      <4> QED
        BY <3>8, <4>1 DEF InForce
    <3> QED
      BY <3>9, <3>10
  <2>2. ASSUME NEW l \in ExternalLanes, ApproveNew(i, l) PROVE ReuseInForce'
    BY <2>2, <1>n DEF ApproveNew
  <2>3. CASE RecordReuse(i)
    <3> DEFINE t == run[i].token
               l == run[i].lane
    <3>1. t \in Tokens /\ l \in Lanes /\ UNCHANGED token
      BY <2>3 DEF RecordReuse, RunHasToken
    <3>2. /\ \A m \in Lanes : m # l => head'[m] = head[m]
          /\ head'[l] = Row("granted", t)
          /\ ended' = ended \cup EndedBy(l, t)
          /\ \A j \in Instances :
              j \in late' <=> j # i /\ (j \in late \/ j \in Overtaken(EndedBy(l, t)))
      BY <2>3 DEF RecordReuse, InsertGranted
    <3>3. run'[i].pc # "reusing" /\ \A j \in Instances : j # i => run'[j] = run[j]
      BY <2>3 DEF RecordReuse
    <3> HIDE DEF t, l
    <3>4. \A u \in Tokens : InForce(u) => InForce(u)' \/ u \in EndedBy(l, t)
      <4> SUFFICES ASSUME NEW u \in Tokens, InForce(u), u \notin EndedBy(l, t)
                   PROVE  InForce(u)'
        OBVIOUS
      <4>1. token[u].lane \in Lanes /\ head[token[u].lane].token = u
        BY DEF InForce, Row
      <4>2. token[u].lane # l \/ u = t
        BY <4>1 DEF EndedBy
      <4> QED
        BY <3>1, <3>2, <4>1, <4>2 DEF InForce
    <3> QED
      BY <1>h, <3>1, <3>2, <3>3, <3>4
  <2>4. CASE RecordGrant(i)
    <3>1. PICK t \in Tokens : /\ token[t].phase = "unissued"
                              /\ Signed(t, run[i].lane)
                              /\ InsertGranted(i, run[i].lane, t, run[i].lane)
                              /\ RunMoves(i, At("superseding", run[i].lane, t, {}))
      BY <2>4 DEF RecordGrant
    <3>2. run[i].lane \in Lanes /\ run[i].pc # "reusing"
      BY <2>4 DEF RecordGrant
    <3>3. run'[i].pc # "reusing" /\ \A j \in Instances : j # i => run'[j] = run[j]
      BY <3>1
    <3> QED
      BY <1>g, <3>1, <3>2, <3>3
  <2>5. CASE ReadSuperseded(i)
    BY <2>5, <1>n DEF ReadSuperseded
  <2> QED
    BY <1>2, <2>1, <2>2, <2>3, <2>4, <2>5 DEF GrantStep
<1>3. ASSUME NEW i \in Instances, EndStep(i) PROVE ReuseInForce'
  <2>1. CASE \E l \in Lanes : Revoke(i, l)
    BY <2>1, <1>n DEF Revoke
  <2>2. CASE \E l \in Lanes : WithdrawScope(i, l)
    BY <2>2, <1>q DEF WithdrawScope
  <2>3. CASE EndInMemory(i) \/ WithdrawNext(i)
    BY <2>3, <1>n DEF EndInMemory, WithdrawNext
  <2>4. CASE EndInLedger(i)
    <3> DEFINE l == run[i].lane
    <3>1. /\ \A m \in Lanes : m # l => head'[m] = head[m]
          /\ ended' = ended \cup EndedBy(l, NoToken)
          /\ late' = late \cup Overtaken(EndedBy(l, NoToken))
          /\ UNCHANGED token
      BY <2>4 DEF EndInLedger, InsertRevoked, RevokedEnds
    <3>2. run[i].pc = "recording" /\ run'[i].pc # "reusing"
      BY <2>4 DEF EndInLedger
    <3>3. \A j \in Instances : j # i => run'[j] = run[j]
      BY <2>4 DEF EndInLedger
    <3>4. i \notin late /\ i \notin Overtaken(EndedBy(l, NoToken))
      BY <3>2 DEF Overtaken
    <3> HIDE DEF l
    <3>5. \A u \in Tokens : InForce(u) => InForce(u)' \/ u \in EndedBy(l, NoToken)
      <4> SUFFICES ASSUME NEW u \in Tokens, InForce(u), u \notin EndedBy(l, NoToken)
                   PROVE  InForce(u)'
        OBVIOUS
      <4>1. token[u].lane \in Lanes /\ head[token[u].lane].token = u
        BY DEF InForce, Row
      <4>2. token[u].lane # l
        BY <4>1 DEF EndedBy
      <4> QED
        BY <3>1, <4>1, <4>2 DEF InForce
    <3> QED
      BY <1>h, <3>1, <3>2, <3>3, <3>4, <3>5
  <2> QED
    BY <1>3, <2>1, <2>2, <2>3, <2>4 DEF EndStep
<1>4. ASSUME NEW i \in Instances, OwnerStep(i) PROVE ReuseInForce'
  <2>1. CASE OwnerReuse(i) \/ OwnerRecheck(i) \/ OwnerNew(i) \/ OwnerRecheckOutage(i)
    <3>1. /\ \A j \in Instances : j # i => run'[j] = run[j]
          /\ run[i].pc # "reusing" /\ run'[i].pc # "reusing"
          /\ UNCHANGED <<token, head, ended, late>>
      BY <2>1 DEF OwnerReuse, OwnerRecheck, OwnerNew, OwnerRecheckOutage
    <3> QED
      BY <3>1, <1>n
  <2>2. CASE OwnerRecord(i)
    <3>1. PICK t \in Tokens : /\ token[t].phase = "unissued"
                              /\ Signed(t, OwnerLane)
                              /\ InsertGranted(i, OwnerLane, t, OwnerLane)
      BY <2>2 DEF OwnerRecord
    <3>2. run[i].pc # "reusing" /\ run'[i].pc # "reusing"
      BY <2>2 DEF OwnerRecord
    <3>3. \A j \in Instances : j # i => run'[j] = run[j]
      BY <2>2 DEF OwnerRecord
    <3> QED
      BY <1>g, <3>1, <3>2, <3>3
  <2>3. CASE IssueSession(i)
    BY <2>3, <1>q DEF IssueSession, Signed
  <2>4. CASE Logout(i)
    BY <2>4, <1>n DEF Logout
  <2> QED
    BY <1>4, <2>1, <2>2, <2>3, <2>4 DEF OwnerStep
<1>5. ASSUME NEW i \in Instances, EnvStep(i) PROVE ReuseInForce'
  <2>1. CASE \E t \in Tokens : Evict(i, t)
    BY <2>1, <1>q DEF Evict
  <2>2. CASE Fail(i) \/ Restart(i)
    <3>1. /\ run'[i].pc # "reusing"
          /\ \A j \in Instances : j # i => run'[j] = run[j]
          /\ late' = late \ {i}
          /\ UNCHANGED <<token, head, ended>>
      BY <2>2 DEF Fail, Restart
    <3>2. \A u \in Tokens : InForce(u) => InForce(u)'
      BY <3>1 DEF InForce
    <3>3. \A j \in Instances : j \notin Overtaken({})
      BY DEF Overtaken
    <3> QED
      BY <1>h, <3>1, <3>2, <3>3
  <2> QED
    BY <1>5, <2>1, <2>2 DEF EnvStep
<1>6. ASSUME NEW t \in Tokens, Expire(t) PROVE ReuseInForce'
  BY <1>6, <1>q DEF Expire, Minted
<1>7. CASE Disconnect
  <2> DEFINE hit == ActiveExternal \cap AdvisorLanes
             E == UNION {EndedBy(l, NoToken) : l \in hit}
  <2>1. /\ \A l \in Lanes : head'[l] = IF l \in hit THEN Row("revoked", NoToken) ELSE head[l]
        /\ ended' = ended \cup E
        /\ late' = late \cup Overtaken(E)
        /\ UNCHANGED <<token, run>>
    BY <1>7 DEF Disconnect, RevokedEnds
  <2>2. \A u \in Tokens : InForce(u) => InForce(u)' \/ u \in E
    <3> SUFFICES ASSUME NEW u \in Tokens, InForce(u), u \notin E
                 PROVE  InForce(u)'
      OBVIOUS
    <3>1. token[u].lane \in Lanes /\ head[token[u].lane].token = u
      BY DEF InForce, Row
    <3>2. token[u].lane \notin hit
      BY <3>1 DEF EndedBy
    <3> HIDE DEF hit, E
    <3> QED
      BY <2>1, <3>1, <3>2 DEF InForce
  <2> HIDE DEF hit, E
  <2> SUFFICES ASSUME NEW j \in Instances
               PROVE  /\ j \in late' => run[j].pc = "reusing" /\ run[j].token \in ended'
                      /\ run[j].pc = "reusing" /\ token[run[j].token].lane = run[j].lane
                           => j \in late' \/ InForce(run[j].token)'
    BY <2>1
  <2>3. run[j].pc = "reusing" => run[j].token \in Tokens
    BY DEF RunHasToken
  <2> QED
    BY <2>1, <2>2, <2>3 DEF Overtaken
<1>8. CASE UNCHANGED vars
  BY <1>8, <1>q DEF vars
<1> QED
  BY <1>1, <1>2, <1>3, <1>4, <1>5, <1>6, <1>7, <1>8 DEF Next

(* A token that was issued and that is_token_active does not confirm is    *)
(* out of force.                                                           *)
LEMMA InactiveOutOfForce ==
    ASSUME NEW t, TypeOK, t \in Tokens, token[t].phase # "unissued", ~IsTokenActive(t)
    PROVE  OutOfForce(t)
<1>1. token[t].phase \in Phases
  BY DEF TypeOK
<1> QED
  BY <1>1 DEF IsTokenActive, OutOfForce, InForce, Live, Active, Row, Phases

(* Every entry of a process's memory stays justified: the token is out of  *)
(* force, or its REVOKED row is about to be written or failed to be.       *)
LEMMA MemoryStep ==
    ASSUME TypeOK, UnissuedUnknown, RunHasToken, RowsFitLane, ReuseInForce, EndedNotInForce, MemoryJustified, [Next]_vars
    PROVE  MemoryJustified'
<1> USE LaneAssumption, TokenAssumption DEF RunHasToken, UnissuedUnknown, EndedBy, RowsFitLane, FitsLane, ReuseInForce, MemoryJustified, OutOfForce, InForce, TypeOK, PCs, Pairs, At, Idle, Row, Minted, RunMoves, Free, Remember, Signed, InsertGranted, InsertRevoked, RevokedEnds, Overtaken, ledger, memory, failures, Live, Active, Phases, PassesMemory
<1>1. ASSUME NEW i \in Instances, ValidateStep(i) PROVE MemoryJustified'
  <2>1. ASSUME NEW t \in Tokens, ValidateStart(i, t) PROVE MemoryJustified'
    BY <2>1 DEF ValidateStart
  <2>2. CASE ValidateLedger(i)
    <3> DEFINE t == run[i].token
    <3>1. t \in Tokens /\ token[t].phase # "unissued"
      BY <2>2 DEF ValidateLedger
    <3>2. ~IsTokenActive(t) => OutOfForce(t)
      BY <3>1, InactiveOutOfForce
    <3>3. run'[i].token = t /\ (run'[i].pc = "stale" => ~IsTokenActive(t))
      BY <2>2 DEF ValidateLedger
    <3>4. /\ \A j \in Instances : j # i => run'[j] = run[j]
          /\ UNCHANGED <<token, memory, failures, ledger>>
      BY <2>2 DEF ValidateLedger
    <3>5. run[i].pc # "recording" /\ run'[i].pc # "recording"
      BY <2>2 DEF ValidateLedger
    <3> HIDE DEF t
    <3>6. \A u \in Tokens : OutOfForce(u)' <=> OutOfForce(u)
      BY <3>4
    <3>7. (run[i].pc = "stale" => OutOfForce(run[i].token))'
      BY <3>1, <3>2, <3>3, <3>4
    <3>8. revoked[i] \subseteq Tokens /\ revoked' = revoked
      BY <3>4
    <3>9. \A u \in revoked'[i] : OutOfForce(u)' \/ <<i, u>> \in halfway'
      BY <3>4, <3>5, <3>6, <3>8
    <3> SUFFICES ASSUME NEW j \in Instances, j # i
                 PROVE  /\ (run[j].pc = "stale" => OutOfForce(run[j].token))'
                        /\ \A u \in revoked'[j] :
                            \/ OutOfForce(u)'
                            \/ run'[j].pc = "recording" /\ run'[j].token = u
                            \/ <<j, u>> \in halfway'
      BY <3>7, <3>9
    <3> QED
      BY <3>4, <3>6
  <2>3. CASE ValidateRefuse(i)
    BY <2>3 DEF ValidateRefuse
  <2>4. CASE ValidateOutage(i)
    BY <2>4 DEF ValidateOutage
  <2>5. CASE Finish(i)
    BY <2>5 DEF Finish
  <2> QED
    BY <1>1, <2>1, <2>2, <2>3, <2>4, <2>5 DEF ValidateStep
<1>2. ASSUME NEW i \in Instances, GrantStep(i) PROVE MemoryJustified'
  <2>1. ASSUME NEW l \in ExternalLanes, ApproveReuse(i, l) PROVE MemoryJustified'
    BY <2>1 DEF ApproveReuse, BestCovering, Covering, ActiveExternal, ExternalLanes, Reusable
  <2>2. ASSUME NEW l \in ExternalLanes, ApproveNew(i, l) PROVE MemoryJustified'
    BY <2>2 DEF ApproveNew
  <2>3. CASE RecordReuse(i)
    <3> DEFINE t == run[i].token
               l == run[i].lane
    <3>1. /\ t \in Tokens /\ l \in Lanes
          /\ run[i].pc = "reusing" /\ run'[i].pc = "idle"
          /\ \A j \in Instances : j # i => run'[j] = run[j]
          /\ UNCHANGED <<token, memory, failures>>
      BY <2>3 DEF RecordReuse
    <3>2. /\ \A m \in Lanes : m # l => head'[m] = head[m]
          /\ head'[l] = Row("granted", t)
      BY <2>3 DEF RecordReuse
    <3>3. /\ shared \subseteq shared'
          /\ \A u \in revived : u \in revived' \/ (u # t /\ token[u].lane = l)
          /\ token[t].lane = l /\ t \in ended /\ i \in late => t \in revived'
      BY <2>3 DEF RecordReuse
    <3>4. token[t].lane = l => InForce(t) \/ (i \in late /\ t \in ended)
      BY <3>1
    <3> HIDE DEF t, l
    <3>5. \A u \in Tokens : OutOfForce(u) => OutOfForce(u)'
      <4> SUFFICES ASSUME NEW u \in Tokens, OutOfForce(u) PROVE OutOfForce(u)'
        OBVIOUS
      <4>1. token[u].lane \in Lanes /\ token' = token
        BY <3>1
      <4>2. CASE token[u].lane # l
        BY <3>2, <3>3, <4>1, <4>2
      <4>3. CASE token[u].lane = l /\ u # t
        <5>1. ~InForce(u)'
          BY <3>2, <4>1, <4>3
        <5> QED
          BY <5>1
      <4>4. CASE token[u].lane = l /\ u = t
        BY <3>3, <3>4, <4>1, <4>4
      <4> QED
        BY <4>2, <4>3, <4>4
    <3>6. /\ \A j \in Instances : run[j].pc = "stale" => run[j].token \in Tokens
          /\ \A j \in Instances : revoked[j] \subseteq Tokens
      OBVIOUS
    <3> HIDE DEF OutOfForce, EndedBy, RowsFitLane, FitsLane, ReuseInForce, UnissuedUnknown,
                 InsertGranted, InsertRevoked, RevokedEnds
    <3> QED
      BY <3>1, <3>5, <3>6
  <2>4. CASE RecordGrant(i)
    BY <2>4 DEF RecordGrant
  <2>5. CASE ReadSuperseded(i)
    <3>1. run'[i].pc \in {"idle", "ending"} /\ run[i].pc = "superseding"
      BY <2>5 DEF ReadSuperseded
    <3>2. /\ \A j \in Instances : j # i => run'[j] = run[j]
          /\ UNCHANGED <<token, memory, failures, ledger>>
      BY <2>5 DEF ReadSuperseded
    <3>3. \A u \in Tokens : OutOfForce(u) => OutOfForce(u)'
      BY <3>2
    <3>4. /\ \A j \in Instances : run[j].pc = "stale" => run[j].token \in Tokens
          /\ \A j \in Instances : revoked[j] \subseteq Tokens
      OBVIOUS
    <3> HIDE DEF OutOfForce
    <3> QED
      BY <3>1, <3>2, <3>3, <3>4
  <2> QED
    BY <1>2, <2>1, <2>2, <2>3, <2>4, <2>5 DEF GrantStep
<1>3. ASSUME NEW i \in Instances, EndStep(i) PROVE MemoryJustified'
  <2>1. ASSUME NEW l \in Lanes, Revoke(i, l) PROVE MemoryJustified'
    BY <2>1 DEF Revoke, Grants, ActiveExternal, ActiveInternal, ExternalLanes
  <2>2. ASSUME NEW l \in Lanes, WithdrawScope(i, l) PROVE MemoryJustified'
    BY <2>2 DEF WithdrawScope, Grants, ActiveExternal, ActiveInternal, ExternalLanes
  <2>3. CASE EndInMemory(i)
    BY <2>3 DEF EndInMemory
  <2>4. CASE EndInLedger(i)
    BY <2>4 DEF EndInLedger
  <2>5. CASE WithdrawNext(i)
    BY <2>5 DEF WithdrawNext
  <2> QED
    BY <1>3, <2>1, <2>2, <2>3, <2>4, <2>5 DEF EndStep
<1>4. ASSUME NEW i \in Instances, OwnerStep(i) PROVE MemoryJustified'
  <2>1. CASE OwnerReuse(i)
    BY <2>1 DEF OwnerReuse
  <2>2. CASE OwnerRecheck(i)
    <3> DEFINE t == run[i].token
    <3>1. t \in Tokens
      BY <2>2 DEF OwnerRecheck
    <3>2. \A u \in revoked'[i] : u \in revoked[i] \/ (u = t /\ Live(t) /\ ~IsTokenActive(t))
      BY <2>2 DEF OwnerRecheck
    <3>3. Live(t) /\ ~IsTokenActive(t) => OutOfForce(t)
      BY <3>1, InactiveOutOfForce
    <3>4. /\ \A j \in Instances : j # i => run'[j] = run[j] /\ revoked'[j] = revoked[j]
          /\ UNCHANGED <<token, failures, ledger>>
      BY <2>2 DEF OwnerRecheck
    <3>5. run[i].pc # "recording" /\ run'[i].pc # "stale"
      BY <2>2 DEF OwnerRecheck
    <3> HIDE DEF t
    <3>6. \A u \in Tokens : OutOfForce(u)' <=> OutOfForce(u)
      BY <3>4
    <3>7. revoked[i] \subseteq Tokens /\ revoked'[i] \subseteq Tokens
      BY <3>1, <3>2
    <3>8. \A u \in revoked'[i] : OutOfForce(u) \/ <<i, u>> \in halfway
      BY <3>2, <3>3, <3>5
    <3>9. \A u \in revoked'[i] : OutOfForce(u)' \/ <<i, u>> \in halfway'
      BY <3>4, <3>6, <3>7, <3>8
    <3> SUFFICES ASSUME NEW j \in Instances, j # i
                 PROVE  /\ (run[j].pc = "stale" => OutOfForce(run[j].token))'
                        /\ \A u \in revoked'[j] :
                            \/ OutOfForce(u)'
                            \/ run'[j].pc = "recording" /\ run'[j].token = u
                            \/ <<j, u>> \in halfway'
      BY <3>5, <3>9
    <3> QED
      BY <3>4, <3>6
  <2>3. CASE OwnerNew(i)
    BY <2>3 DEF OwnerNew
  <2>4. CASE OwnerRecord(i)
    BY <2>4 DEF OwnerRecord
  <2>5. CASE IssueSession(i)
    BY <2>5 DEF IssueSession
  <2>6. CASE Logout(i)
    BY <2>6 DEF Logout
  <2>7. CASE OwnerRecheckOutage(i)
    BY <2>7 DEF OwnerRecheckOutage
  <2> QED
    BY <1>4, <2>1, <2>2, <2>3, <2>4, <2>5, <2>6, <2>7 DEF OwnerStep
<1>5. ASSUME NEW i \in Instances, EnvStep(i) PROVE MemoryJustified'
  <2>1. ASSUME NEW t \in Tokens, Evict(i, t) PROVE MemoryJustified'
    BY <2>1 DEF Evict
  <2>2. CASE Fail(i)
    BY <2>2 DEF Fail
  <2>3. CASE Restart(i)
    BY <2>3 DEF Restart
  <2> QED
    BY <1>5, <2>1, <2>2, <2>3 DEF EnvStep
<1>6. ASSUME NEW t \in Tokens, Expire(t) PROVE MemoryJustified'
  BY <1>6 DEF Expire
<1>7. CASE Disconnect
  <2>1. /\ \A l \in Lanes : head'[l] = head[l] \/ head'[l].action = "revoked"
        /\ UNCHANGED <<token, memory, run, failures, shared>>
        /\ \A u \in revived : u \in revived' \/ head'[token[u].lane].action = "revoked"
    BY <1>7 DEF Disconnect
  <2>2. ASSUME NEW u \in Tokens
        PROVE  /\ InForce(u)' => InForce(u)
               /\ head'[token[u].lane].action = "revoked" => ~InForce(u)'
    <3>1. token[u].lane \in Lanes /\ token' = token
      BY <2>1
    <3>2. InForce(u)' => head'[token[u].lane].action = "granted"
      BY <3>1
    <3> QED
      BY <2>1, <3>1, <3>2
  <2>3. \A u \in Tokens : OutOfForce(u) => OutOfForce(u)'
    BY <2>1, <2>2
  <2>4. /\ \A i \in Instances : run[i].pc = "stale" => run[i].token \in Tokens
        /\ \A i \in Instances : revoked[i] \subseteq Tokens
    OBVIOUS
  <2> HIDE DEF OutOfForce
  <2> QED
    BY <2>1, <2>3, <2>4
<1>8. CASE UNCHANGED vars
  BY <1>8 DEF vars
<1> QED
  BY <1>1, <1>2, <1>3, <1>4, <1>5, <1>6, <1>7, <1>8 DEF Next

(* What a process refused it remembers until the token has expired.        *)
LEMMA RefusedStep ==
    ASSUME TypeOK, UnissuedUnknown, RunHasToken, RefusedRemembered, [Next]_vars
    PROVE  RefusedRemembered'
<1> USE LaneAssumption, TokenAssumption DEF RunHasToken, UnissuedUnknown, RefusedRemembered, TypeOK, PCs, Pairs, At, Idle, Row, Minted, RunMoves, Free, Remember, Signed, InsertGranted, InsertRevoked, RevokedEnds, Overtaken, ledger, memory, failures, Live, Active, Phases, PassesMemory
<1>1. ASSUME NEW i \in Instances, ValidateStep(i) PROVE RefusedRemembered'
  <2>1. ASSUME NEW t \in Tokens, ValidateStart(i, t) PROVE RefusedRemembered'
    BY <2>1 DEF ValidateStart
  <2>2. CASE ValidateLedger(i)
    BY <2>2 DEF ValidateLedger, IsTokenActive
  <2>3. CASE ValidateRefuse(i)
    BY <2>3 DEF ValidateRefuse
  <2>4. CASE ValidateOutage(i)
    BY <2>4 DEF ValidateOutage
  <2>5. CASE Finish(i)
    BY <2>5 DEF Finish
  <2> QED
    BY <1>1, <2>1, <2>2, <2>3, <2>4, <2>5 DEF ValidateStep
<1>2. ASSUME NEW i \in Instances, GrantStep(i) PROVE RefusedRemembered'
  <2>1. ASSUME NEW l \in ExternalLanes, ApproveReuse(i, l) PROVE RefusedRemembered'
    BY <2>1 DEF ApproveReuse, BestCovering, Covering, ActiveExternal, ExternalLanes, Reusable
  <2>2. ASSUME NEW l \in ExternalLanes, ApproveNew(i, l) PROVE RefusedRemembered'
    BY <2>2 DEF ApproveNew
  <2>3. CASE RecordReuse(i)
    BY <2>3 DEF RecordReuse
  <2>4. CASE RecordGrant(i)
    BY <2>4 DEF RecordGrant
  <2>5. CASE ReadSuperseded(i)
    BY <2>5 DEF ReadSuperseded
  <2> QED
    BY <1>2, <2>1, <2>2, <2>3, <2>4, <2>5 DEF GrantStep
<1>3. ASSUME NEW i \in Instances, EndStep(i) PROVE RefusedRemembered'
  <2>1. ASSUME NEW l \in Lanes, Revoke(i, l) PROVE RefusedRemembered'
    BY <2>1 DEF Revoke, Grants, ActiveExternal, ActiveInternal, ExternalLanes
  <2>2. ASSUME NEW l \in Lanes, WithdrawScope(i, l) PROVE RefusedRemembered'
    BY <2>2 DEF WithdrawScope, Grants, ActiveExternal, ActiveInternal, ExternalLanes
  <2>3. CASE EndInMemory(i)
    BY <2>3 DEF EndInMemory
  <2>4. CASE EndInLedger(i)
    BY <2>4 DEF EndInLedger
  <2>5. CASE WithdrawNext(i)
    BY <2>5 DEF WithdrawNext
  <2> QED
    BY <1>3, <2>1, <2>2, <2>3, <2>4, <2>5 DEF EndStep
<1>4. ASSUME NEW i \in Instances, OwnerStep(i) PROVE RefusedRemembered'
  <2>1. CASE OwnerReuse(i)
    BY <2>1 DEF OwnerReuse
  <2>2. CASE OwnerRecheck(i)
    BY <2>2 DEF OwnerRecheck
  <2>3. CASE OwnerNew(i)
    BY <2>3 DEF OwnerNew
  <2>4. CASE OwnerRecord(i)
    BY <2>4 DEF OwnerRecord
  <2>5. CASE IssueSession(i)
    BY <2>5 DEF IssueSession
  <2>6. CASE Logout(i)
    BY <2>6 DEF Logout, LogoutTargets, Grants, ActiveExternal, ExternalLanes
  <2>7. CASE OwnerRecheckOutage(i)
    BY <2>7 DEF OwnerRecheckOutage
  <2> QED
    BY <1>4, <2>1, <2>2, <2>3, <2>4, <2>5, <2>6, <2>7 DEF OwnerStep
<1>5. ASSUME NEW i \in Instances, EnvStep(i) PROVE RefusedRemembered'
  <2>1. ASSUME NEW t \in Tokens, Evict(i, t) PROVE RefusedRemembered'
    BY <2>1 DEF Evict
  <2>2. CASE Fail(i)
    BY <2>2 DEF Fail
  <2>3. CASE Restart(i)
    BY <2>3 DEF Restart
  <2> QED
    BY <1>5, <2>1, <2>2, <2>3 DEF EnvStep
<1>6. ASSUME NEW t \in Tokens, Expire(t) PROVE RefusedRemembered'
  BY <1>6 DEF Expire
<1>7. CASE Disconnect
  BY <1>7 DEF Disconnect, ActiveExternal, ExternalLanes
<1>8. CASE UNCHANGED vars
  BY <1>8 DEF vars
<1> QED
  BY <1>1, <1>2, <1>3, <1>4, <1>5, <1>6, <1>7, <1>8 DEF Next

-----------------------------------------------------------------------------
LEMMA InitSafety == Init => SafetyInv
  BY LaneAssumption, TokenAssumption, BoundAssumption
     DEF Init, SafetyInv, TypeOK, UnissuedUnknown, RunHasToken, RowsFitLane, FitsLane,
         EndedNotInForce, RowsCovered, ReuseInForce, MemoryJustified, RefusedRemembered,
         Idle, At, Row, Minted, PCs, Phases, Pairs

LEMMA SafetyStep == SafetyInv /\ [Next]_vars => SafetyInv'
  BY TypeStep, RunHasTokenStep, UnissuedStep, RowsStep, EndedStep, CoveredStep, ReuseStep,
     MemoryStep, RefusedStep
     DEF SafetyInv

LEMMA SafetyAlways == Spec => []SafetyInv
<1>1. Init => SafetyInv
  BY InitSafety
<1>2. SafetyInv /\ [Next]_vars => SafetyInv'
  BY SafetyStep
<1> QED
  BY <1>1, <1>2, PTL DEF Spec

(* What the inductive invariant says of the checked properties. *)
LEMMA SafetyImplies ==
    SafetyInv => /\ EndedStaysEnded
                 /\ LocalRevocationStrict
                 /\ MemoryAgreesWithLedger
                 /\ StrictListedIsValid
<1> SUFFICES ASSUME SafetyInv
             PROVE  /\ EndedStaysEnded
                    /\ LocalRevocationStrict
                    /\ MemoryAgreesWithLedger
                    /\ StrictListedIsValid
  OBVIOUS
<1> USE DEF SafetyInv, TypeOK
<1>0. \A t \in Tokens : IsTokenActive(t) => InForce(t) /\ token[t].phase = "live"
  BY DEF IsTokenActive, InForce, Active, Live, Row
<1>1. EndedStaysEnded
  BY <1>0 DEF EndedStaysEnded, EndedNotInForce
<1>2. LocalRevocationStrict
  BY DEF LocalRevocationStrict, RefusedRemembered, PassesMemory, Live
<1>3. MemoryAgreesWithLedger
  BY <1>0 DEF MemoryAgreesWithLedger, MemoryJustified, OutOfForce
<1>4. StrictListedIsValid
  BY LaneAssumption
     DEF StrictListedIsValid, RowsFitLane, FitsLane, IsTokenActive, Active, Live, ExternalLanes
<1> QED
  BY <1>1, <1>2, <1>3, <1>4

(* The state keeps its type: processes, lanes, tokens and ledger rows are  *)
(* what the declarations say, whatever the interleaving of the processes.  *)
THEOREM TypeCorrect == Spec => []TypeOK
<1>1. SafetyInv => TypeOK
  BY DEF SafetyInv
<1> QED
  BY <1>1, SafetyAlways, PTL

(* A token whose lane moved on from it stays out of force in the ledger,   *)
(* unless an approval that read it in force before it was ended records it *)
(* after: for every partial order of scopes and any number of processes.   *)
THEOREM EndedForever == Spec => []EndedStaysEnded
  BY SafetyAlways, SafetyImplies, PTL

(* A process never passes a token it has itself refused as revoked.        *)
THEOREM LocalStrict == Spec => []LocalRevocationStrict
  BY SafetyAlways, SafetyImplies, PTL

(* A process's memory refuses a token in force only for one of four known  *)
(* reasons.                                                                *)
THEOREM MemoryAgrees == Spec => []MemoryAgreesWithLedger
  BY SafetyAlways, SafetyImplies, PTL

(* What is listed on the lane of a developer request is what validation    *)
(* accepts there.                                                          *)
THEOREM ListedIsValid == Spec => []StrictListedIsValid
  BY SafetyAlways, SafetyImplies, PTL

(* One validation step: only the ledger read and, for the owner's token,   *)
(* the outage fallback accept.                                             *)
LEMMA AcceptStep ==
    ASSUME SafetyInv, [Next]_vars, NEW i \in Instances, Accepts(i),
           run[i].lane # OwnerLane
    PROVE  run[i].token \notin ended \ revived
<1> USE DEF SafetyInv, TypeOK
<1>1. run[i].token \in Tokens
  BY DEF Accepts, RunHasToken
<1>2. IsTokenActive(run[i].token)
  <2>3. run'[i] # run[i]
    BY DEF Accepts
  <2>4. PICK j \in Instances : ValidateStep(j) \/ GrantStep(j) \/ EndStep(j)
                               \/ OwnerStep(j) \/ EnvStep(j)
    BY <2>3 DEF Next, Expire, Disconnect, vars
  <2>5. j = i
    <3> SUFFICES ASSUME j # i PROVE FALSE
      OBVIOUS
    <3>1. run'[i] = run[i]
      BY <2>4 DEF ValidateStep, GrantStep, EndStep, OwnerStep, EnvStep, RunMoves,
           ValidateStart, ValidateLedger, ValidateRefuse, ValidateOutage, Finish,
           ApproveReuse, ApproveNew, RecordReuse, RecordGrant, ReadSuperseded,
           Revoke, WithdrawScope, EndInMemory, EndInLedger, WithdrawNext,
           OwnerReuse, OwnerRecheck, OwnerRecheckOutage, OwnerNew, OwnerRecord,
           IssueSession, Logout, Evict, Fail, Restart
    <3> QED
      BY <3>1, <2>3
  <2>6. ValidateLedger(i) \/ ValidateOutage(i)
    <3> USE DEF Accepts, Free, RunMoves, At, Idle
    <3>1. ASSUME ValidateStep(i) PROVE ValidateLedger(i) \/ ValidateOutage(i)
      BY <3>1 DEF ValidateStep, ValidateStart, ValidateRefuse, Finish
    <3>2. ~GrantStep(i)
      BY DEF GrantStep, ApproveReuse, ApproveNew, RecordReuse, RecordGrant, ReadSuperseded
    <3>3. ~EndStep(i)
      BY <2>3 DEF EndStep, Revoke, WithdrawScope, EndInMemory, EndInLedger, WithdrawNext
    <3>4. ~OwnerStep(i)
      BY DEF OwnerStep, OwnerReuse, OwnerRecheck, OwnerRecheckOutage, OwnerNew, OwnerRecord,
           IssueSession, Logout
    <3>5. ~EnvStep(i)
      BY <2>3 DEF EnvStep, Evict, Fail, Restart
    <3> QED
      BY <2>4, <2>5, <3>1, <3>2, <3>3, <3>4, <3>5
  <2>7. ~ValidateOutage(i)
    BY DEF ValidateOutage, RunMoves, Idle, At, Accepts
  <2> QED
    BY <2>6, <2>7 DEF ValidateLedger, RunMoves, At, Accepts
<1> QED
  BY <1>1, <1>2 DEF IsTokenActive, Active, InForce, Row, EndedNotInForce

(* No process accepts through the ledger check an external token that was  *)
(* ended before, whether the database answers or not.                      *)
THEOREM AcceptSafe == Spec => AcceptHonoursRevocation
<1>1. SafetyInv /\ [Next]_vars =>
        [\A i \in Instances : Accepts(i) /\ run[i].lane # OwnerLane
            => run[i].token \notin ended \ revived]_vars
  BY AcceptStep
<1> QED
  BY <1>1, SafetyAlways, PTL DEF Spec, AcceptHonoursRevocation
=============================================================================
