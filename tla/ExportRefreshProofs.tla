------------------------ MODULE ExportRefreshProofs ------------------------
(* Proofs about ExportRefresh, for every set of tokens, writers, devices   *)
(* and claim identifiers and for every bound.                              *)
EXTENDS ExportRefresh, TLAPS

(* TypeOK is preserved by every step of the system. *)
LEMMA TypeStep == TypeOK /\ [Next]_vars => TypeOK'
<1> SUFFICES ASSUME TypeOK, [Next]_vars PROVE TypeOK'
  OBVIOUS
<1> USE ClaimAssumption, BoundAssumption
<1> USE DEF TypeOK, GrantStates, ExportStates, JobStates, Idle, NoExport, NoJob, bounds, history,
          ExportRow, JobRow, GrantAt, Hold, ExportMoves, GrantMoves, JobMoves, HoldMoves, HoldEnds
<1>1. ASSUME NEW t \in Tokens, GrantStep(t) PROVE TypeOK'
  <2>1. CASE BuildExport(t)
    BY <2>1 DEF BuildExport
  <2>2. CASE StoreExport(t)
    BY <2>2 DEF StoreExport
  <2>3. CASE RecordGrant(t)
    BY <2>3 DEF RecordGrant
  <2>4. CASE BeginRevoke(t)
    <3>1. CASE DeleteExport(t) /\ UNCHANGED leftover
      BY <2>4, <3>1 DEF BeginRevoke, DeleteExport
    <3>2. CASE leftover' = leftover \cup {t} /\ UNCHANGED <<exports, jobs>>
      BY <2>4, <3>2 DEF BeginRevoke
    <3> QED
      BY <2>4, <3>1, <3>2 DEF BeginRevoke
  <2>5. CASE RecordRevoke(t)
    BY <2>5 DEF RecordRevoke
  <2>6. CASE Expire(t)
    <3>1. CASE GrantMoves(t, "expired")
      BY <2>6, <3>1 DEF Expire
    <3>2. CASE GrantMoves(t, "lapsed") /\ grant[t].state = "ended"
      BY <2>6, <3>2 DEF Expire
    <3> QED
      BY <2>6, <3>1, <3>2 DEF Expire
  <2>7. CASE Cleanup(t)
    BY <2>7 DEF Cleanup, DeleteExport, Unexpired
  <2> QED
    BY <1>1, <2>1, <2>2, <2>3, <2>4, <2>5, <2>6, <2>7 DEF GrantStep
<1>2. ASSUME NEW t \in Tokens, LeaseExpire(t) PROVE TypeOK'
  BY <1>2 DEF LeaseExpire
<1>3. ASSUME NEW w \in Writers, WriterStep(w) PROVE TypeOK'
  <2>1. CASE WriteRead(w)
    BY <2>1 DEF WriteRead
  <2>2. CASE WriteList(w)
    BY <2>2 DEF WriteList, ListRefreshTokens
  <2>3. CASE WriteCommit(w)
    BY <2>3 DEF WriteCommit, WriterDone
  <2>4. CASE WriteConflict(w)
    BY <2>4 DEF WriteConflict, WriterDone
  <2> QED
    BY <1>3, <2>1, <2>2, <2>3, <2>4 DEF WriterStep
<1>4. ASSUME NEW d \in Devices, NEW t \in Tokens, DeviceStep(d, t) PROVE TypeOK'
  <2>1. CASE Claim(d, t)
    BY <2>1 DEF Claim
  <2>2. CASE Prepare(d, t)
    BY <2>2 DEF Prepare
  <2>3. CASE UploadCheck(d, t)
    <3>1. CASE HoldMoves(d, t, "checked")
      BY <2>3, <3>1 DEF UploadCheck
    <3>2. CASE HoldEnds(d, t)
      BY <2>3, <3>2 DEF UploadCheck
    <3> QED
      BY <2>3, <3>1, <3>2 DEF UploadCheck
  <2>4. CASE UploadCommit(d, t)
    <3>1. /\ exports' \in [Tokens -> [status : ExportStates, revision : Nat,
                                       source : 0..MaxContent]]
          /\ jobs' \in [Tokens -> [status : JobStates, claim : Claims \cup {NoClaim},
                                    lease : BOOLEAN, expected : Nat]]
      <4>1. CASE CommitAccepted(d, t)
        <5>1. work[d][t].prior + 1 \in Nat /\ work[d][t].source \in 0..MaxContent
          OBVIOUS
        <5>2. /\ exports' = [exports EXCEPT ![t] =
                    ExportRow("current", work[d][t].prior + 1, work[d][t].source)]
              /\ JobMoves(t, "completed", FALSE)
          BY <2>4, <4>1 DEF UploadCommit
        <5> QED
          BY <5>1, <5>2
      <4>2. CASE ~CommitAccepted(d, t)
        BY <2>4, <4>2 DEF UploadCommit
      <4> QED
        BY <4>1, <4>2
    <3>2. CASE HoldMoves(d, t, "ready")
      BY <2>4, <3>1, <3>2 DEF UploadCommit
    <3>3. CASE HoldEnds(d, t)
      BY <2>4, <3>1, <3>3 DEF UploadCommit
    <3> QED
      BY <2>4, <3>2, <3>3 DEF UploadCommit
  <2>5. CASE FailJob(d, t)
    <3>1. fails' \in 0..MaxFails
      BY <2>5 DEF FailJob
    <3>2. CASE JobMoves(t, "failed", FALSE) /\ HoldMoves(d, t, "failing")
      BY <2>5, <3>1, <3>2 DEF FailJob
    <3>3. CASE HoldEnds(d, t) /\ UNCHANGED jobs
      BY <2>5, <3>1, <3>3 DEF FailJob
    <3> QED
      BY <2>5, <3>2, <3>3 DEF FailJob
  <2>6. CASE FailMark(d, t)
    <3>1. CASE exports' = ExportMoves(t, "refresh_failed") /\ HasExport(t)
      BY <2>6, <3>1 DEF FailMark
    <3>2. CASE UNCHANGED exports
      BY <2>6, <3>2 DEF FailMark
    <3> QED
      BY <2>6, <3>1, <3>2 DEF FailMark
  <2>7. CASE Drop(d, t)
    BY <2>7 DEF Drop
  <2> QED
    BY <1>4, <2>1, <2>2, <2>3, <2>4, <2>5, <2>6, <2>7 DEF DeviceStep
<1>5. CASE UNCHANGED vars
  BY <1>5 DEF vars
<1> QED
  BY <1>1, <1>2, <1>3, <1>4, <1>5 DEF Next

(* Init establishes the inductive invariant. *)
LEMMA InitSafety == Init => SafetyInv
  BY ClaimAssumption, BoundAssumption
  DEF Init, SafetyInv, TypeOK, CurrentCoversScheduled, PendingHasOpenJob,
      RevokedHasNoExport, HoldsFresh, NothingAhead, UngrantedUnscheduled, NoEarlyExport,
      HasExport, GrantStates, ExportStates, JobStates, Idle, NoExport, NoJob,
      ExportRow, JobRow, GrantAt, Hold

(* Every step of the system preserves the inductive invariant. *)
LEMMA SafetyStep == SafetyInv /\ [Next]_vars => SafetyInv'
<1> SUFFICES ASSUME SafetyInv, [Next]_vars PROVE SafetyInv'
  OBVIOUS
<1>0. TypeOK /\ TypeOK'
  BY TypeStep DEF SafetyInv
<1> DEFINE Rest == /\ CurrentCoversScheduled
                   /\ PendingHasOpenJob
                   /\ RevokedHasNoExport
                   /\ HoldsFresh
                   /\ NothingAhead
                   /\ UngrantedUnscheduled
                   /\ NoEarlyExport
<1> USE <1>0, ClaimAssumption, BoundAssumption
<1> USE DEF SafetyInv, TypeOK, CurrentCoversScheduled, PendingHasOpenJob,
      RevokedHasNoExport, HoldsFresh, NothingAhead, UngrantedUnscheduled, NoEarlyExport,
      HasExport, Idle, NoExport, NoJob, bounds, history,
      ExportRow, JobRow, GrantAt, Hold, ExportMoves, GrantMoves, JobMoves,
      HoldMoves, HoldEnds
<1>1. ASSUME NEW t \in Tokens, GrantStep(t) PROVE Rest'
  <2>1. CASE BuildExport(t)
    BY <2>1 DEF BuildExport
  <2>2. CASE StoreExport(t)
    BY <2>2 DEF StoreExport
  <2>3. CASE RecordGrant(t)
    BY <2>3 DEF RecordGrant
  <2>4. CASE BeginRevoke(t)
    <3>1. CASE DeleteExport(t) /\ UNCHANGED leftover
      BY <2>4, <3>1 DEF BeginRevoke, DeleteExport
    <3>2. CASE leftover' = leftover \cup {t} /\ UNCHANGED <<exports, jobs>>
      BY <2>4, <3>2 DEF BeginRevoke
    <3> QED
      BY <2>4, <3>1, <3>2 DEF BeginRevoke
  <2>5. CASE RecordRevoke(t)
    BY <2>5 DEF RecordRevoke
  <2>6. CASE Expire(t)
    <3>1. CASE GrantMoves(t, "expired")
      BY <2>6, <3>1 DEF Expire
    <3>2. CASE GrantMoves(t, "lapsed") /\ grant[t].state = "ended"
      BY <2>6, <3>2 DEF Expire
    <3> QED
      BY <2>6, <3>1, <3>2 DEF Expire
  <2>7. CASE Cleanup(t)
    BY <2>7 DEF Cleanup, DeleteExport, Unexpired
  <2> QED
    BY <1>1, <2>1, <2>2, <2>3, <2>4, <2>5, <2>6, <2>7 DEF GrantStep
<1>2. ASSUME NEW t \in Tokens, LeaseExpire(t) PROVE Rest'
  BY <1>2 DEF LeaseExpire
<1>3. ASSUME NEW w \in Writers, WriterStep(w) PROVE Rest'
  <2>1. CASE WriteRead(w)
    BY <2>1 DEF WriteRead
  <2>2. CASE WriteList(w)
    BY <2>2 DEF WriteList, ListRefreshTokens
  <2>3. CASE WriteCommit(w)
    BY <2>3 DEF WriteCommit, WriterDone
  <2>4. CASE WriteConflict(w)
    BY <2>4 DEF WriteConflict, WriterDone
  <2> QED
    BY <1>3, <2>1, <2>2, <2>3, <2>4 DEF WriterStep
<1>4. ASSUME NEW d \in Devices, NEW t \in Tokens, DeviceStep(d, t) PROVE Rest'
  <2>1. CASE Claim(d, t)
    BY <2>1 DEF Claim, Claimable, Referenced
  <2>2. CASE Prepare(d, t)
    BY <2>2 DEF Prepare
  <2>3. CASE UploadCheck(d, t)
    <3>1. CASE HoldMoves(d, t, "checked")
      BY <2>3, <3>1 DEF UploadCheck
    <3>2. CASE HoldEnds(d, t)
      BY <2>3, <3>2 DEF UploadCheck
    <3> QED
      BY <2>3, <3>1, <3>2 DEF UploadCheck
  <2>4. CASE UploadCommit(d, t)
    <3>1. HoldEnds(d, t) \/ HoldMoves(d, t, "ready")
      BY <2>4 DEF UploadCommit
    <3>2. ASSUME CommitAccepted(d, t) PROVE Rest'
      <4>1. /\ exports' = [exports EXCEPT ![t] =
                  ExportRow("current", work[d][t].prior + 1, work[d][t].source)]
            /\ JobMoves(t, "completed", FALSE)
            /\ UNCHANGED <<content, writer, grant, history, bounds>>
        BY <2>4, <3>2 DEF UploadCommit
      <4>2. /\ work[d][t].source >= due[t]
            /\ work[d][t].source >= exports[t].source
            /\ work[d][t].source <= content
            /\ work[d][t].prior + 1 \in Nat
            /\ work[d][t].source \in 0..MaxContent
            /\ exports[t].status = "refresh_pending"
            /\ jobs[t].status = "processing"
        BY <2>4, <3>2 DEF UploadCommit, CommitAccepted, Leased
      <4>3. \A x \in Tokens : x # t => exports'[x] = exports[x] /\ jobs'[x] = jobs[x]
        BY <4>1
      <4>4. /\ exports'[t].status = "current"
            /\ exports'[t].source = work[d][t].source
            /\ jobs'[t].status = "completed"
        BY <4>1
      <4>5. \A e \in Devices, x \in Tokens :
              /\ work'[e][x].source \in {work[e][x].source, 0}
              /\ x # t => work'[e][x] = work[e][x]
        <5>1. CASE HoldEnds(d, t)
          BY <5>1
        <5>2. CASE HoldMoves(d, t, "ready")
          BY <5>2
        <5> QED
          BY <3>1, <5>1, <5>2
      <4>6. CurrentCoversScheduled' /\ PendingHasOpenJob'
        BY <4>1, <4>2, <4>3, <4>4
      <4>7. RevokedHasNoExport' /\ UngrantedUnscheduled' /\ NoEarlyExport'
        BY <4>1, <4>2, <4>3, <4>4
      <4>8. HoldsFresh'
        <5>1. UNCHANGED due
          BY <4>1
        <5> SUFFICES ASSUME NEW e \in Devices, NEW x \in Tokens,
                            work'[e][x].pc \in {"ready", "checked"},
                            jobs'[x].status = "processing",
                            jobs'[x].claim = work'[e][x].claim
                     PROVE  /\ work'[e][x].source >= due'[x]
                            /\ work'[e][x].source >= exports'[x].source
          OBVIOUS
        <5>2. x # t
          BY <4>4
        <5>3. work'[e][x] = work[e][x] /\ exports'[x] = exports[x] /\ jobs'[x] = jobs[x]
          BY <4>3, <4>5, <5>2
        <5> QED
          BY <5>1, <5>3
      <4>9. NothingAhead'
        BY <4>1, <4>2, <4>3, <4>4, <4>5
      <4> QED
        BY <4>6, <4>7, <4>8, <4>9
    <3>3. ASSUME ~CommitAccepted(d, t) PROVE Rest'
      <4>1. UNCHANGED <<content, writer, grant, exports, jobs, history, bounds>>
        BY <2>4, <3>3 DEF UploadCommit
      <4>2. CASE HoldEnds(d, t)
        BY <4>1, <4>2
      <4>3. CASE HoldMoves(d, t, "ready")
        BY <2>4, <4>1, <4>3 DEF UploadCommit
      <4> QED
        BY <3>1, <4>2, <4>3
    <3> QED
      BY <3>2, <3>3
  <2>5. CASE FailJob(d, t)
    <3>1. CASE JobMoves(t, "failed", FALSE) /\ HoldMoves(d, t, "failing")
      BY <2>5, <3>1 DEF FailJob
    <3>2. CASE HoldEnds(d, t) /\ UNCHANGED jobs
      BY <2>5, <3>2 DEF FailJob
    <3> QED
      BY <2>5, <3>1, <3>2 DEF FailJob
  <2>6. CASE FailMark(d, t)
    <3>1. CASE exports' = ExportMoves(t, "refresh_failed") /\ HasExport(t)
      BY <2>6, <3>1 DEF FailMark
    <3>2. CASE UNCHANGED exports
      BY <2>6, <3>2 DEF FailMark
    <3> QED
      BY <2>6, <3>1, <3>2 DEF FailMark
  <2>7. CASE Drop(d, t)
    BY <2>7 DEF Drop
  <2> QED
    BY <1>4, <2>1, <2>2, <2>3, <2>4, <2>5, <2>6, <2>7 DEF DeviceStep
<1>5. CASE UNCHANGED vars
  BY <1>5 DEF vars
<1>6. Rest'
  BY <1>1, <1>2, <1>3, <1>4, <1>5 DEF Next
<1> QED
  BY <1>6

(* ExportRefresh never leaves the types of its state. *)
THEOREM TypeCorrect == Spec => []TypeOK
<1>1. Init => TypeOK
  BY InitSafety DEF SafetyInv
<1> QED
  BY <1>1, TypeStep, PTL DEF Spec

(* The inductive invariant holds in every reachable state. *)
LEMMA SafetyAlways == Spec => []SafetyInv
  BY InitSafety, SafetyStep, PTL DEF Spec

(* An export served as current covers every refresh scheduled for it,      *)
(* whatever leases ran out and whatever uploads were repeated.             *)
THEOREM CurrentCovers == Spec => []CurrentCoversScheduled
<1>1. SafetyInv => CurrentCoversScheduled
  BY DEF SafetyInv
<1> QED
  BY <1>1, SafetyAlways, PTL

(* An export that waits for a refresh keeps an open job.                   *)
THEOREM OpenJob == Spec => []PendingHasOpenJob
<1>1. SafetyInv => PendingHasOpenJob
  BY DEF SafetyInv
<1> QED
  BY <1>1, SafetyAlways, PTL

(* A revoked token has no export and no job, and none comes back, unless   *)
(* the DELETE of its own revocation failed.                                *)
THEOREM RevokedClean == Spec => []RevokedHasNoExport
<1>1. SafetyInv => RevokedHasNoExport
  BY DEF SafetyInv
<1> QED
  BY <1>1, SafetyAlways, PTL

(* A step from a state of the inductive invariant only ever advances an    *)
(* export.                                                                 *)
LEMMA AdvanceLemma == SafetyInv /\ Next => \A t \in Tokens : AdvanceStep(t)
<1> SUFFICES ASSUME SafetyInv, Next, NEW x \in Tokens PROVE AdvanceStep(x)
  OBVIOUS
<1> USE DEF SafetyInv, TypeOK, AdvanceStep, HasExport, NoExport, ExportRow, ExportMoves
<1>1. ASSUME UNCHANGED exports PROVE AdvanceStep(x)
  BY <1>1
<1>2. ASSUME NEW t \in Tokens, GrantStep(t) \/ LeaseExpire(t) PROVE AdvanceStep(x)
  <2>1. CASE StoreExport(t)
    BY <2>1 DEF StoreExport, NoEarlyExport
  <2>2. CASE BeginRevoke(t) \/ Cleanup(t)
    <3>1. CASE exports' = [exports EXCEPT ![t] = NoExport]
      BY <3>1
    <3> QED
      BY <1>1, <2>2, <3>1 DEF BeginRevoke, Cleanup, DeleteExport
  <2> QED
    BY <1>1, <1>2, <2>1, <2>2
    DEF GrantStep, BuildExport, RecordGrant, RecordRevoke, Expire, LeaseExpire
<1>3. ASSUME NEW w \in Writers, WriterStep(w) PROVE AdvanceStep(x)
  <2>1. CASE WriteCommit(w)
    BY <2>1 DEF WriteCommit
  <2> QED
    BY <1>1, <1>3, <2>1 DEF WriterStep, WriteRead, WriteList, WriteConflict
<1>4. ASSUME NEW d \in Devices, NEW t \in Tokens, DeviceStep(d, t) PROVE AdvanceStep(x)
  <2>1. CASE UploadCommit(d, t)
    <3>1. CASE CommitAccepted(d, t)
      <4>1. /\ exports[t].status = "refresh_pending"
            /\ exports[t].revision = work[d][t].prior
            /\ work[d][t].source >= exports[t].source
        BY <2>1, <3>1 DEF UploadCommit, CommitAccepted, Leased, HoldsFresh
      <4>2. exports' = [exports EXCEPT ![t] =
                ExportRow("current", work[d][t].prior + 1, work[d][t].source)]
        BY <2>1, <3>1 DEF UploadCommit
      <4> QED
        BY <4>1, <4>2
    <3>2. CASE ~CommitAccepted(d, t)
      BY <1>1, <2>1, <3>2 DEF UploadCommit
    <3> QED
      BY <3>1, <3>2
  <2>2. CASE FailMark(d, t)
    <3>1. CASE exports' = ExportMoves(t, "refresh_failed")
      BY <3>1
    <3> QED
      BY <1>1, <2>2, <3>1 DEF FailMark
  <2> QED
    BY <1>1, <1>4, <2>1, <2>2 DEF DeviceStep, Claim, Prepare, UploadCheck, FailJob, Drop
<1> QED
  BY <1>2, <1>3, <1>4 DEF Next

(* No step of the system rewinds an export or rewrites one that does not   *)
(* await a refresh.                                                        *)
THEOREM Advance == Spec => RefreshAdvances
<1>1. SafetyInv /\ [Next]_vars => [\A t \in Tokens : AdvanceStep(t)]_vars
  BY AdvanceLemma
<1> QED
  BY <1>1, SafetyAlways, PTL DEF Spec, RefreshAdvances

-----------------------------------------------------------------------------
(* The refinement of ExportPromise.                                        *)

(* The state a holder sees of t is one of five, and an open one is backed  *)
(* by an export row.                                                       *)
LEMMA ShareStates ==
  ASSUME TypeOK, NEW t \in Tokens
  PROVE  /\ Shares[t].state = ShareState(t)
         /\ ShareState(t) = "fresh" <=> Readable(t) /\ exports[t].status = "current"
         /\ ShareState(t) = "stale" <=> Readable(t) /\ exports[t].status = "refresh_pending"
         /\ ShareState(t) = "failed" <=> Readable(t) /\ exports[t].status = "refresh_failed"
         /\ ShareState(t) = "none" <=>
              ~HasExport(t) /\ grant[t].state \in {"none", "building"}
         /\ ShareState(t) \in {"none", "fresh", "stale", "failed", "gone"}
         /\ ShareState(t) \in {"fresh", "stale", "failed"} => Shares[t].source = exports[t].source
         /\ ShareState(t) \in {"none", "gone"} => Shares[t].source = 0
         /\ Owed[t] = IF ShareState(t) = "gone" THEN 0 ELSE due[t]
  BY DEF Shares, Owed, ShareState, HasExport, Readable, TypeOK, ExportStates

(* Init is an initial state of the promise. *)
LEMMA PromiseInit == Init => Promise!Init
  BY DEF Init, Promise!Init, Shares, Owed, ShareState, HasExport, NoExport, ExportRow, GrantAt

(* What the holder of t sees is decided by the rows of t alone.            *)
LEMMA SharesSame ==
  ASSUME NEW t \in Tokens,
         exports'[t] = exports[t], grant'[t].state = grant[t].state, due'[t] = due[t]
  PROVE  Shares'[t] = Shares[t] /\ Owed'[t] = Owed[t] /\ ShareState(t)' = ShareState(t)
  BY DEF Shares, Owed, ShareState, HasExport, Readable

(* A step that touches the rows of t alone changes the shares at t alone.  *)
LEMMA SharesFrame ==
  ASSUME NEW t \in Tokens,
         \A x \in Tokens : x # t =>
            exports'[x] = exports[x] /\ grant'[x].state = grant[x].state /\ due'[x] = due[x]
  PROVE  /\ Shares' = [Shares EXCEPT ![t] = Shares'[t]]
         /\ Owed' = [Owed EXCEPT ![t] = Owed'[t]]
<1>1. \A x \in Tokens : x # t => Shares'[x] = Shares[x] /\ Owed'[x] = Owed[x]
  BY SharesSame
<1> QED
  BY <1>1 DEF Shares, Owed

(* ... and is unseen if it leaves what the holder of t sees alone.         *)
LEMMA SharesUnseen ==
  ASSUME \A x \in Tokens : Shares'[x] = Shares[x] /\ Owed'[x] = Owed[x]
  PROVE  Shares' = Shares /\ Owed' = Owed
  BY DEF Shares, Owed

(* Every step from a state of the inductive invariant is, for the holders  *)
(* of tokens, a step of the promise or no step at all.                     *)
LEMMA PromiseStep == SafetyInv /\ [Next]_vars => [Promise!Next]_(Promise!vars)
<1> SUFFICES ASSUME SafetyInv, [Next]_vars PROVE [Promise!Next]_(Promise!vars)
  OBVIOUS
<1>0. TypeOK /\ TypeOK' /\ SafetyInv'
  BY SafetyStep, TypeStep DEF SafetyInv
<1> DEFINE Seen == [Promise!Next]_(Promise!vars)
<1>1. ASSUME \A x \in Tokens : exports'[x] = exports[x] /\ grant'[x].state = grant[x].state,
             UNCHANGED <<content, due>>
      PROVE  Seen
  <2>1. \A x \in Tokens : Shares'[x] = Shares[x] /\ Owed'[x] = Owed[x]
    BY <1>1, SharesSame
  <2> QED
    BY <1>1, <2>1, SharesUnseen DEF Promise!vars
<1>2. ASSUME NEW t \in Tokens, UNCHANGED <<content, due>>,
             \A x \in Tokens : x # t =>
                exports'[x] = exports[x] /\ grant'[x].state = grant[x].state,
             Shares'[t] = Shares[t], Owed'[t] = Owed[t]
      PROVE  Seen
  <2>1. \A x \in Tokens : Shares'[x] = Shares[x] /\ Owed'[x] = Owed[x]
    BY <1>2, SharesSame
  <2> QED
    BY <1>2, <2>1, SharesUnseen DEF Promise!vars
<1>3. ASSUME NEW t \in Tokens, UNCHANGED <<content, due>>,
             \A x \in Tokens : x # t =>
                exports'[x] = exports[x] /\ grant'[x].state = grant[x].state,
             ShareState(t)' = "gone"
      PROVE  Seen \/ ShareState(t) = "none"
  <2>1. Shares'[t] = [state |-> "gone", source |-> 0] /\ Owed'[t] = 0
    BY <1>3 DEF Shares, Owed
  <2>2. CASE ShareState(t) = "gone"
    <3>1. Shares[t] = [state |-> "gone", source |-> 0] /\ Owed[t] = 0
      BY <2>2 DEF Shares, Owed
    <3> QED
      BY <1>2, <1>3, <2>1, <3>1
  <2>3. CASE ShareState(t) \in {"fresh", "stale", "failed"}
    <3>1. /\ Shares' = [Shares EXCEPT ![t] = Shares'[t]]
          /\ Owed' = [Owed EXCEPT ![t] = Owed'[t]]
      BY <1>3, SharesFrame
    <3>2. Promise!Close(t)
      BY <1>0, <1>3, <2>1, <2>3, <3>1, ShareStates DEF Promise!Close, Promise!Open
    <3> QED
      BY <3>2 DEF Promise!Next
  <2> QED
    BY <1>0, <2>2, <2>3, ShareStates
<1>4. ASSUME NEW t \in Tokens, GrantStep(t) PROVE Seen
  <2> USE <1>0 DEF TypeOK, GrantMoves, GrantAt
  <2>1. CASE BuildExport(t)
    <3>1. /\ UNCHANGED <<content, due, exports>>
          /\ \A x \in Tokens : x # t => grant'[x].state = grant[x].state
          /\ grant[t].state = "none" /\ grant'[t].state = "building"
      BY <2>1 DEF BuildExport, history
    <3>2. Shares'[t] = Shares[t] /\ Owed'[t] = Owed[t]
      BY <3>1 DEF Shares, Owed, ShareState, HasExport, Readable
    <3> QED
      BY <1>2, <3>1, <3>2
  <2>2. CASE StoreExport(t)
    <3>1. /\ UNCHANGED <<content, due>>
          /\ \A x \in Tokens : x # t => exports'[x] = exports[x] /\ grant'[x] = grant[x]
          /\ grant[t].state = "building" /\ grant'[t].state = "exported"
          /\ exports'[t].status = "current" /\ exports'[t].source = grant[t].source
      BY <2>2 DEF StoreExport, ExportRow, history
    <3>2. ShareState(t) = "none"
      BY <3>1, ShareStates DEF SafetyInv, NoEarlyExport
    <3>3. grant[t].source \in 0..content
      BY <1>0 DEF SafetyInv, NothingAhead
    <3>4. /\ Shares'[t] = [state |-> "fresh", source |-> grant[t].source]
          /\ Owed'[t] = due[t]
      BY <3>1 DEF Shares, Owed, ShareState, HasExport, Readable
    <3>5. Owed[t] = due[t]
      BY <3>2, ShareStates
    <3>6. /\ Shares' = [Shares EXCEPT ![t] = Shares'[t]]
          /\ Owed' = [Owed EXCEPT ![t] = Owed'[t]]
      BY <3>1, SharesFrame
    <3>7. Owed' = Owed
      BY <3>4, <3>5, <3>6 DEF Owed
    <3>8. Promise!Approve(t)
      BY <3>1, <3>2, <3>3, <3>4, <3>6, <3>7, ShareStates DEF Promise!Approve
    <3> QED
      BY <3>8 DEF Promise!Next
  <2>3. CASE RecordGrant(t)
    <3>1. /\ UNCHANGED <<content, due, exports>>
          /\ \A x \in Tokens : x # t => grant'[x].state = grant[x].state
          /\ grant[t].state = "exported" /\ grant'[t].state = "active"
      BY <2>3 DEF RecordGrant, history
    <3>2. Shares'[t] = Shares[t] /\ Owed'[t] = Owed[t]
      BY <3>1 DEF Shares, Owed, ShareState, HasExport, Readable
    <3> QED
      BY <1>2, <3>1, <3>2
  <2>4. CASE BeginRevoke(t)
    <3>1. /\ UNCHANGED <<content, due>>
          /\ \A x \in Tokens : x # t => exports'[x] = exports[x] /\ grant'[x] = grant[x]
          /\ grant[t].state = "active" /\ grant'[t].state = "revoking"
          /\ exports'[t].status = "absent" \/ exports' = exports
      BY <2>4 DEF BeginRevoke, DeleteExport, NoExport, ExportRow
    <3>2. ShareState(t) # "none"
      BY <3>1, ShareStates
    <3>3. ASSUME exports'[t].status = "absent" PROVE Seen
      <4>1. ShareState(t)' = "gone"
        BY <3>1, <3>3 DEF ShareState, HasExport
      <4> QED
        BY <1>3, <3>1, <3>2, <4>1
    <3>4. ASSUME exports' = exports PROVE Seen
      <4>1. Shares'[t] = Shares[t] /\ Owed'[t] = Owed[t]
        BY <3>1, <3>4 DEF Shares, Owed, ShareState, HasExport, Readable
      <4> QED
        BY <1>2, <3>1, <4>1
    <3> QED
      BY <3>1, <3>3, <3>4
  <2>5. CASE RecordRevoke(t) \/ Expire(t)
    <3>1. /\ UNCHANGED <<content, due, exports>>
          /\ \A x \in Tokens : x # t => grant'[x].state = grant[x].state
          /\ grant[t].state \in {"active", "revoking", "ended"}
          /\ grant'[t].state \in {"ended", "expired", "lapsed"}
      BY <2>5 DEF RecordRevoke, Expire, history
    <3>2. ShareState(t)' = "gone"
      BY <3>1 DEF ShareState, HasExport, Readable
    <3>3. ShareState(t) # "none"
      BY <3>1, ShareStates
    <3> QED
      BY <1>3, <3>1, <3>2, <3>3
  <2>6. CASE Cleanup(t)
    <3>1. /\ UNCHANGED <<content, due, grant>>
          /\ \A x \in Tokens : x # t => exports'[x] = exports[x]
          /\ grant[t].state \in {"expired", "lapsed"}
      BY <2>6 DEF Cleanup, DeleteExport, Unexpired, history
    <3>2. Shares'[t] = Shares[t] /\ Owed'[t] = Owed[t]
      BY <3>1 DEF Shares, Owed, ShareState, HasExport, Readable
    <3> QED
      BY <1>2, <3>1, <3>2
  <2> QED
    BY <1>4, <2>1, <2>2, <2>3, <2>4, <2>5, <2>6 DEF GrantStep
<1>5. ASSUME NEW t \in Tokens, LeaseExpire(t) PROVE Seen
  BY <1>1, <1>5 DEF LeaseExpire, history
<1>6. ASSUME NEW w \in Writers, WriterStep(w) PROVE Seen
  <2>1. CASE WriteCommit(w)
    <3> DEFINE scheduled == {t \in writer[w].tokens : HasExport(t) /\ Unexpired(t)}
               known == {t \in scheduled : Readable(t)}
    <3>1. scheduled \in SUBSET Tokens /\ known \in SUBSET Tokens
      BY <1>0 DEF TypeOK
    <3>2. /\ content' = content + 1
          /\ UNCHANGED grant
          /\ due' = [t \in Tokens |-> IF t \in scheduled THEN content + 1 ELSE due[t]]
          /\ \A t \in Tokens : t \notin scheduled => exports'[t] = exports[t]
          /\ \A t \in scheduled : /\ exports'[t].status = "refresh_pending"
                                   /\ exports'[t].source = exports[t].source
      BY <2>1, <3>1, <1>0 DEF WriteCommit, ExportRow, TypeOK
    <3>3. \A t \in known : ShareState(t) \in {"fresh", "stale", "failed"}
      BY <1>0, <3>1, ShareStates DEF TypeOK, HasExport, ExportStates
    <3>4. \A t \in known : Shares[t].source = exports[t].source
      BY <3>1, <3>3, <1>0, ShareStates
    <3>5. \A t \in known : /\ Shares'[t] = [state |-> "stale", source |-> Shares[t].source]
                            /\ Owed'[t] = content + 1
      <4> SUFFICES ASSUME NEW t \in known
                   PROVE  /\ Shares'[t] = [state |-> "stale", source |-> Shares[t].source]
                          /\ Owed'[t] = content + 1
        OBVIOUS
      <4>1. t \in Tokens /\ Readable(t)'
        BY <3>1, <3>2 DEF Readable
      <4>2. ShareState(t)' = "stale"
        BY <3>2, <4>1 DEF ShareState, HasExport
      <4> QED
        BY <3>2, <3>4, <4>1, <4>2 DEF Shares, Owed
    <3>6. \A t \in Tokens : t \notin known => Shares'[t] = Shares[t] /\ Owed'[t] = Owed[t]
      <4> SUFFICES ASSUME NEW t \in Tokens, t \notin known
                   PROVE  Shares'[t] = Shares[t] /\ Owed'[t] = Owed[t]
        OBVIOUS
      <4>1. CASE t \notin scheduled
        BY <3>2, <4>1, SharesSame
      <4>2. CASE t \in scheduled
        <5>1. /\ HasExport(t) /\ ~Readable(t) /\ ~Readable(t)'
              /\ grant'[t].state = grant[t].state
              /\ grant[t].state \in {"ended", "expired", "lapsed"}
          BY <3>2, <4>2 DEF Readable
        <5>2. ShareState(t) = "gone" /\ ShareState(t)' = "gone"
          BY <5>1 DEF ShareState
        <5> QED
          BY <5>2 DEF Shares, Owed
      <4> QED
        BY <4>1, <4>2
    <3>7. Shares' = [t \in Tokens |->
              IF t \in known THEN [state |-> "stale", source |-> Shares[t].source]
                             ELSE Shares[t]]
      BY <3>1, <3>5, <3>6 DEF Shares
    <3>8. Owed' = [t \in Tokens |-> IF t \in known THEN content + 1 ELSE Owed[t]]
      BY <3>1, <3>5, <3>6 DEF Owed
    <3>9. \A t \in known : Shares[t].state \in {"fresh", "stale", "failed"}
      BY <1>0, <3>1, <3>3, ShareStates
    <3>10. Promise!Write(known)
      BY <3>2, <3>7, <3>8, <3>9 DEF Promise!Write, Promise!Open
    <3> QED
      BY <3>1, <3>10 DEF Promise!Next
  <2>2. CASE WriteRead(w) \/ WriteList(w) \/ WriteConflict(w)
    BY <1>1, <2>2 DEF WriteRead, WriteList, WriteConflict, history
  <2> QED
    BY <1>6, <2>1, <2>2 DEF WriterStep
<1>7. ASSUME NEW d \in Devices, NEW t \in Tokens, DeviceStep(d, t) PROVE Seen
  <2>1. CASE UploadCommit(d, t)
    <3>1. CASE ~CommitAccepted(d, t)
      BY <1>1, <2>1, <3>1 DEF UploadCommit, history
    <3>2. CASE CommitAccepted(d, t)
      <4> DEFINE src == work[d][t].source
      <4>1. /\ UNCHANGED <<content, due, grant>>
            /\ \A x \in Tokens : x # t => exports'[x] = exports[x]
            /\ exports'[t].status = "current" /\ exports'[t].source = src
        BY <1>0, <2>1, <3>2 DEF UploadCommit, TypeOK, ExportRow, history
      <4>2. exports[t].status = "refresh_pending"
        BY <3>2 DEF CommitAccepted
      <4>3. src \in due[t]..content /\ src >= exports[t].source
        BY <1>0, <2>1, <3>2
        DEF UploadCommit, CommitAccepted, Leased, SafetyInv, HoldsFresh, NothingAhead, TypeOK
      <4>4. CASE Readable(t)
        <5>1. ShareState(t) = "stale" /\ ShareState(t)' = "fresh"
          BY <4>1, <4>2, <4>4 DEF ShareState, HasExport, Readable
        <5>2. /\ Shares'[t] = [state |-> "fresh", source |-> src]
              /\ Owed'[t] = due[t] /\ Owed[t] = due[t]
              /\ Shares[t].state = "stale" /\ Shares[t].source = exports[t].source
          BY <4>1, <5>1 DEF Shares, Owed
        <5>3. /\ Shares' = [Shares EXCEPT ![t] = Shares'[t]]
              /\ Owed' = [Owed EXCEPT ![t] = Owed'[t]]
          BY <4>1, SharesFrame
        <5>4. Owed' = Owed
          BY <5>2, <5>3 DEF Owed
        <5>5. Promise!Renew(t)
          BY <4>1, <4>3, <5>2, <5>3, <5>4 DEF Promise!Renew
        <5> QED
          BY <5>5 DEF Promise!Next
      <4>5. CASE ~Readable(t)
        <5>1. ShareState(t) = "gone" /\ ShareState(t)' = "gone"
          BY <4>1, <4>5 DEF ShareState, Readable
        <5>2. Shares'[t] = Shares[t] /\ Owed'[t] = Owed[t]
          BY <5>1 DEF Shares, Owed
        <5> QED
          BY <1>2, <4>1, <5>2
      <4> QED
        BY <4>4, <4>5
    <3> QED
      BY <3>1, <3>2
  <2>2. CASE FailMark(d, t)
    <3>1. CASE UNCHANGED exports
      BY <1>1, <2>2, <3>1 DEF FailMark, history
    <3>2. CASE exports' # exports
      <4>1. /\ UNCHANGED <<content, due, grant>>
            /\ \A x \in Tokens : x # t => exports'[x] = exports[x]
            /\ exports'[t].status = "refresh_failed"
            /\ exports'[t].source = exports[t].source
            /\ HasExport(t)
        BY <1>0, <2>2, <3>2 DEF FailMark, TypeOK, ExportMoves, ExportRow, history
      <4>2. CASE Readable(t)
        <5>1. ShareState(t) \in {"fresh", "stale", "failed"}
          BY <1>0, <4>1, <4>2, ShareStates DEF TypeOK, HasExport, ExportStates
        <5>2. ShareState(t)' = "failed"
          BY <4>1, <4>2 DEF ShareState, HasExport, Readable
        <5>3. /\ Shares'[t] = [state |-> "failed", source |-> exports[t].source]
              /\ Owed'[t] = due[t] /\ Owed[t] = due[t]
              /\ Shares[t].state \in {"fresh", "stale", "failed"}
              /\ Shares[t].source = exports[t].source
          BY <4>1, <5>1, <5>2 DEF Shares, Owed
        <5>4. /\ Shares' = [Shares EXCEPT ![t] = Shares'[t]]
              /\ Owed' = [Owed EXCEPT ![t] = Owed'[t]]
          BY <4>1, SharesFrame
        <5>5. Owed' = Owed
          BY <5>3, <5>4 DEF Owed
        <5>6. Promise!GiveUp(t)
          BY <4>1, <5>3, <5>4, <5>5 DEF Promise!GiveUp, Promise!Open
        <5> QED
          BY <5>6 DEF Promise!Next
      <4>3. CASE ~Readable(t)
        <5>1. ShareState(t) = "gone" /\ ShareState(t)' = "gone"
          BY <4>1, <4>3 DEF ShareState, Readable
        <5>2. Shares'[t] = Shares[t] /\ Owed'[t] = Owed[t]
          BY <5>1 DEF Shares, Owed
        <5> QED
          BY <1>2, <4>1, <5>2
      <4> QED
        BY <4>2, <4>3
    <3> QED
      BY <3>1, <3>2
  <2>3. CASE Claim(d, t) \/ Prepare(d, t) \/ UploadCheck(d, t) \/ FailJob(d, t) \/ Drop(d, t)
    BY <1>1, <2>3 DEF Claim, Prepare, UploadCheck, FailJob, Drop, history
  <2> QED
    BY <1>7, <2>1, <2>2, <2>3 DEF DeviceStep
<1>8. CASE UNCHANGED vars
  BY <1>1, <1>8 DEF vars
<1> QED
  BY <1>4, <1>5, <1>6, <1>7, <1>8 DEF Next

(* ExportRefresh implements ExportPromise: for any number of tokens,       *)
(* writers and devices, the machinery of jobs and leases shows the holder  *)
(* of a token nothing but the promise.                                     *)
THEOREM Refinement == Spec => KeepsPromise
  BY PromiseInit, PromiseStep, SafetyAlways, PTL
  DEF Spec, KeepsPromise, Promise!Spec
=============================================================================
