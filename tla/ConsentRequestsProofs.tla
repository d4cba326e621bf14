----------------------- MODULE ConsentRequestsProofs -----------------------
(* Proofs of the safety properties of ConsentRequests, for every number of *)
(* requests, terms, handlers and processes and both kinds of lane.         *)
EXTENDS ConsentRequests, FiniteSetTheorems, WellFoundedInduction, TLAPS

(* An idle asker has some terms. *)
LEMMA SomeTermsType == SomeTerms \in Terms
BY TermsAssumption DEF SomeTerms

(* Every step keeps the types. *)
LEMMA TypeStep ==
    ASSUME TypeOK, [Next]_vars
    PROVE  TypeOK'
<1>r. lane' = lane
    BY DEF Next, vars
<1> USE <1>r
<1> USE SomeTermsType, LimitAssumption DEF Actions, Verbs, background
<1>1. UNCHANGED <<born, terms, due, latest, timedOut, grant, cooling, clock, lock,
                ask, decide, jobs, horizon, scan, answers, contested, faults>> => TypeOK'
    BY DEF TypeOK
<1>2. ASSUME NEW h \in Askers, NEW t \in Terms, NEW via \in {"developer", "a2a"},
             AskActive(h, t, via)
      PROVE  TypeOK'
    BY <1>2 DEF AskActive, Asking, TypeOK, requested, rows
<1>3. ASSUME NEW h \in Askers, AskPending(h) PROVE TypeOK'
    BY <1>3 DEF AskPending, AskMoves, Asking, NotAsking, TypeOK, requested, rows
<1>4. ASSUME NEW h \in Askers, AskPendingA2A(h) PROVE TypeOK'
    BY <1>4 DEF AskPendingA2A, AskMoves, Asking, NotAsking, TypeOK, requested, rows
<1>5. ASSUME NEW h \in Askers, AskDenied(h) PROVE TypeOK'
    BY <1>5 DEF AskDenied, AskMoves, Asking, NotAsking, TypeOK, requested, rows
<1>6. ASSUME NEW h \in Askers, Acquire(h) PROVE TypeOK'
    BY <1>6 DEF Acquire, AskMoves, Asking, NotAsking, TypeOK, requested, rows
<1>7. ASSUME NEW h \in Askers, Recheck(h) PROVE TypeOK'
    BY <1>7 DEF Recheck, AskMoves, Asking, NotAsking, TypeOK, requested, rows
<1>8. ASSUME NEW h \in Askers, Insert(h) PROVE TypeOK'
    BY <1>8 DEF Insert, AskMoves, Asking, NotAsking, Unlock, TypeOK, requested, rows
<1>9. ASSUME NEW h \in Askers, AskFails(h) PROVE TypeOK'
    BY <1>9 DEF AskFails, AskMoves, Asking, NotAsking, Unlock, TypeOK, requested, rows
<1>10. ASSUME NEW k \in Deciders, NEW verb \in Verbs, NEW r \in Requests, Open(k, verb, r)
      PROVE  TypeOK'
    BY <1>10 DEF Open, Deciding, TypeOK, requested, rows
<1>11. ASSUME NEW k \in Deciders, Approve(k) PROVE TypeOK'
    BY <1>11 DEF Approve, Answer, DecideEnds, NotDeciding, Deciding, TypeOK, requested,
        rows
<1>12. ASSUME NEW k \in Deciders, Deny(k) PROVE TypeOK'
    BY <1>12 DEF Deny, Answer, DecideEnds, NotDeciding, Deciding, TypeOK, requested,
        rows
<1>13. ASSUME NEW k \in Deciders, Cancel(k) PROVE TypeOK'
    BY <1>13 DEF Cancel, Answer, DecideEnds, NotDeciding, Deciding, TypeOK, requested,
        rows
<1>14. ASSUME NEW k \in Deciders, OpenRevoke(k) PROVE TypeOK'
    BY <1>14 DEF OpenRevoke, Deciding, TypeOK, requested, rows
<1>15. ASSUME NEW k \in Deciders, Revoke(k) PROVE TypeOK'
    BY <1>15 DEF Revoke, DecideEnds, NotDeciding, Deciding, TypeOK, requested, rows
<1>16. ASSUME NEW k \in Deciders, DecideFails(k) PROVE TypeOK'
    BY <1>16 DEF DecideFails, DecideEnds, NotDeciding, Deciding, TypeOK, requested,
        rows
<1>17. ASSUME NEW p \in Workers, ScanDue(p) PROVE TypeOK'
    BY <1>17 DEF ScanDue, TimedOut, TypeOK, requested, rows
<1>18. ASSUME NEW p \in Workers, NEW r \in Requests, EmitTimeout(p, r)
      PROVE  TypeOK'
    BY <1>18 DEF EmitTimeout, ScanMoves, TypeOK, requested, rows
<1>19. ASSUME NEW p \in Workers, NEW r \in Requests, EmitFails(p, r) PROVE TypeOK'
    BY <1>19 DEF EmitFails, ScanMoves, TypeOK, requested, rows
<1>20. ASSUME NEW r \in Requests, PassDeadline(r) PROVE TypeOK'
    BY <1>20 DEF PassDeadline, TypeOK, requested, rows
<1>21. ASSUME GrantExpires PROVE TypeOK'
    BY <1>21 DEF GrantExpires, TypeOK, requested, rows
<1>22. ASSUME CooldownEnds PROVE TypeOK'
    BY <1>22 DEF CooldownEnds, TypeOK, requested, rows
<1>23. ASSUME OthersAsk PROVE TypeOK'
    BY <1>23 DEF OthersAsk, TypeOK, requested, rows
<1>24. ASSUME NEW p \in Workers, Restart(p) PROVE TypeOK'
    BY <1>24 DEF Restart, TypeOK, requested, rows
<1>25. CASE UNCHANGED vars
    BY <1>25, <1>1 DEF vars
<1> QED
    BY <1>1, <1>2, <1>3, <1>4, <1>5, <1>6, <1>7, <1>8, <1>9, <1>10, <1>11,
       <1>12, <1>13, <1>14, <1>15, <1>16, <1>17, <1>18, <1>19, <1>20, <1>21,
       <1>22, <1>23, <1>24, <1>25
    DEF Next, AskStep, DecideStep, WorkerStep, TimeStep

(* An asker keeps its handler while it is under way. *)
LEMMA ViaStep ==
    ASSUME TypeOK, ViaFitsLane, [Next]_vars
    PROVE  ViaFitsLane'
<1>r. lane' = lane
    BY DEF Next, vars
<1>s. ASSUME NEW h \in Askers, \A g \in Askers \ {h} : ask'[g] = ask[g],
             lane = "attr" => ask'[h].via = "developer",
             ask'[h].via = "a2a" => ask'[h].pc \in {"seeking", "inserting"}
      PROVE  ViaFitsLane'
    BY <1>r, <1>s DEF ViaFitsLane
<1>1. UNCHANGED ask => ViaFitsLane'
    BY <1>r DEF ViaFitsLane
<1>2. ASSUME NEW h \in Askers, NEW t \in Terms, NEW via \in {"developer", "a2a"},
             AskActive(h, t, via)
      PROVE  ViaFitsLane'
    <2>1. /\ ask'[h].pc = "seeking" /\ ask'[h].via = via
          /\ \A g \in Askers \ {h} : ask'[g] = ask[g]
          /\ lane = "attr" => via = "developer"
        BY <1>2 DEF AskActive, Asking, TypeOK
    <2> QED BY <1>s, <2>1
<1>3. ASSUME NEW h \in Askers, NEW pc, AskMoves(h, pc),
             pc = "idle" \/ ask[h].via = "developer" \/ pc = "inserting"
      PROVE  ViaFitsLane'
    <2>1. \A g \in Askers \ {h} : ask'[g] = ask[g]
        BY <1>3 DEF AskMoves, TypeOK
    <2>2. ask'[h] = IF pc = "idle" THEN NotAsking ELSE Asking(pc, ask[h].terms, ask[h].via)
        BY <1>3 DEF AskMoves, TypeOK
    <2>3. /\ ask'[h].via = IF pc = "idle" THEN "developer" ELSE ask[h].via
          /\ ask'[h].pc = pc
        BY <2>2 DEF NotAsking, Asking
    <2>4. lane = "attr" => ask'[h].via = "developer"
        BY <2>3 DEF ViaFitsLane
    <2>5. ask'[h].via = "a2a" => ask'[h].pc \in {"seeking", "inserting"}
        BY <1>3, <2>3
    <2> QED BY <1>s, <2>1, <2>4, <2>5
<1>4. ASSUME NEW h \in Askers, ask[h].pc \in {"cooling", "waiting", "locked"}
      PROVE  ask[h].via = "developer"
    BY <1>4 DEF ViaFitsLane, TypeOK
<1>5. ASSUME NEW h \in Askers, AskPending(h) PROVE ViaFitsLane'
    BY <1>3, <1>5 DEF AskPending
<1>6. ASSUME NEW h \in Askers, AskPendingA2A(h) PROVE ViaFitsLane'
    BY <1>3, <1>6 DEF AskPendingA2A
<1>7. ASSUME NEW h \in Askers, AskDenied(h) PROVE ViaFitsLane'
    BY <1>3, <1>4, <1>7 DEF AskDenied
<1>8. ASSUME NEW h \in Askers, Acquire(h) PROVE ViaFitsLane'
    BY <1>3, <1>4, <1>8 DEF Acquire
<1>9. ASSUME NEW h \in Askers, Recheck(h) PROVE ViaFitsLane'
    BY <1>3, <1>4, <1>9 DEF Recheck
<1>10. ASSUME NEW h \in Askers, Insert(h) \/ AskFails(h) PROVE ViaFitsLane'
    BY <1>3, <1>10 DEF Insert, AskFails
<1>11. ASSUME NEW k \in Deciders, DecideStep(k) PROVE UNCHANGED ask
    BY <1>11 DEF DecideStep, Open, Approve, Deny, Cancel, OpenRevoke, Revoke,
        DecideFails, Answer
<1>12. ASSUME NEW p \in Workers, WorkerStep(p) PROVE UNCHANGED ask
    BY <1>12 DEF WorkerStep, ScanDue, Restart, EmitTimeout, EmitFails
<1>13. ASSUME TimeStep PROVE UNCHANGED ask
    BY <1>13 DEF TimeStep, PassDeadline, GrantExpires, CooldownEnds, OthersAsk
<1>14. CASE UNCHANGED vars
    BY <1>14, <1>1 DEF vars
<1> QED
    BY <1>1, <1>2, <1>5, <1>6, <1>7, <1>8, <1>9, <1>10, <1>11, <1>12, <1>13, <1>14
    DEF Next, AskStep

(* Stamps are unique, and a request has rows exactly when it has a stamp. *)
LEMMA BornStep ==
    ASSUME TypeOK, BornFacts, KnownRequests, [Next]_vars
    PROVE  BornFacts'
<1>1. UNCHANGED <<born, latest, due, clock>> => BornFacts'
    BY DEF BornFacts
<1>2. ASSUME NEW h \in Askers, Insert(h) PROVE BornFacts'
    <2>1. PICK r \in Requests : /\ born[r] = 0
                               /\ born' = [born EXCEPT ![r] = clock + 1]
                               /\ latest' = [latest EXCEPT ![r] = "requested"]
        BY <1>2 DEF Insert
    <2>2. clock' = clock + 1 /\ due' = due
        BY <1>2 DEF Insert
    <2>3. /\ born'[r] = clock + 1
          /\ latest'[r] = "requested"
          /\ \A s \in Requests \ {r} : born'[s] = born[s] /\ latest'[s] = latest[s]
        BY <2>1 DEF TypeOK
    <2>4. clock \in Nat /\ \A s \in Requests : born[s] \in Nat /\ born[s] <= clock
        BY DEF TypeOK, BornFacts
    <2> QED BY <2>2, <2>3, <2>4 DEF BornFacts
<1>3. ASSUME NEW h \in Askers,
             \/ \E t \in Terms, via \in {"developer", "a2a"} : AskActive(h, t, via)
             \/ AskPending(h)
             \/ AskPendingA2A(h)
             \/ AskDenied(h)
             \/ Acquire(h)
             \/ Recheck(h)
             \/ AskFails(h)
      PROVE  UNCHANGED <<born, latest, due, clock>>
    BY <1>3 DEF AskActive, AskPending, AskPendingA2A, AskDenied, Acquire, Recheck,
        AskFails, requested, rows
<1>4. ASSUME NEW k \in Deciders, Approve(k) PROVE BornFacts'
    BY <1>4 DEF Approve, Answer, BornFacts, KnownRequests, TypeOK, Verbs, requested
<1>5. ASSUME NEW k \in Deciders, Deny(k) PROVE BornFacts'
    BY <1>5 DEF Deny, Answer, BornFacts, KnownRequests, TypeOK, Verbs, requested
<1>6. ASSUME NEW k \in Deciders, Cancel(k) PROVE BornFacts'
    BY <1>6 DEF Cancel, Answer, BornFacts, KnownRequests, TypeOK, Verbs, requested
<1>7. ASSUME NEW k \in Deciders, Revoke(k) PROVE BornFacts'
    BY <1>7 DEF Revoke, BornFacts, KnownRequests, TypeOK, Verbs, requested
<1>8. ASSUME NEW k \in Deciders,
             \/ \E verb \in Verbs, r \in Requests : Open(k, verb, r)
             \/ OpenRevoke(k)
             \/ DecideFails(k)
      PROVE  UNCHANGED <<born, latest, due, clock>>
    BY <1>8 DEF Open, OpenRevoke, DecideFails, requested, rows
<1>9. ASSUME NEW p \in Workers, NEW r \in Requests, EmitTimeout(p, r)
      PROVE  BornFacts'
    BY <1>9 DEF EmitTimeout, BornFacts, KnownRequests, TypeOK, requested
<1>10. ASSUME NEW p \in Workers,
             \/ ScanDue(p)
             \/ Restart(p)
             \/ \E r \in Requests : EmitFails(p, r)
      PROVE  UNCHANGED <<born, latest, due, clock>>
    BY <1>10 DEF ScanDue, Restart, EmitFails, requested, rows
<1>11. ASSUME NEW r \in Requests, PassDeadline(r) PROVE BornFacts'
    BY <1>11 DEF PassDeadline, BornFacts, TypeOK, requested, rows
<1>12. ASSUME
             \/ GrantExpires
             \/ CooldownEnds
             \/ OthersAsk
      PROVE  UNCHANGED <<born, latest, due, clock>>
    BY <1>12 DEF GrantExpires, CooldownEnds, OthersAsk, requested, rows
<1>13. CASE UNCHANGED vars
    BY <1>13, <1>1 DEF vars
<1> QED
    BY <1>1, <1>2, <1>3, <1>4, <1>5, <1>6, <1>7, <1>8, <1>9, <1>10, <1>11,
       <1>12, <1>13
    DEF Next, AskStep, DecideStep, WorkerStep, TimeStep

(* The advisory lock keeps other askers out of the second look. *)
LEMMA LockStep ==
    ASSUME TypeOK, ViaFitsLane, LockHeld, [Next]_vars
    PROVE  LockHeld'
<1>r. lane' = lane
    BY DEF Next, vars
<1> USE <1>r
<1>1. UNCHANGED <<ask, lock>> => LockHeld'
    BY DEF LockHeld
<1>2. ASSUME NEW h \in Askers, NEW t \in Terms, NEW via \in {"developer", "a2a"},
             AskActive(h, t, via)
      PROVE  LockHeld'
    BY <1>2, SomeTermsType, AskerAssumption
    DEF AskActive, Asking, LockHeld, TypeOK
<1>3. ASSUME NEW h \in Askers, AskPending(h) PROVE LockHeld'
    BY <1>3, SomeTermsType, AskerAssumption
    DEF AskPending, AskMoves, Asking, NotAsking, LockHeld, TypeOK
<1>4. ASSUME NEW h \in Askers, AskPendingA2A(h) PROVE LockHeld'
    BY <1>4, SomeTermsType, AskerAssumption
    DEF AskPendingA2A, AskMoves, Asking, NotAsking, LockHeld, TypeOK
<1>5. ASSUME NEW h \in Askers, AskDenied(h) PROVE LockHeld'
    BY <1>5, SomeTermsType, AskerAssumption
    DEF AskDenied, AskMoves, Asking, NotAsking, LockHeld, TypeOK
<1>6. ASSUME NEW h \in Askers, Acquire(h) PROVE LockHeld'
    BY <1>6, SomeTermsType, AskerAssumption
    DEF Acquire, AskMoves, Asking, NotAsking, LockHeld, TypeOK
<1>7. ASSUME NEW h \in Askers, Recheck(h) PROVE LockHeld'
    <2>1. ask[h].via = "developer" /\ lock = h
        BY <1>7 DEF Recheck, ViaFitsLane, LockHeld, TypeOK
    <2>2. /\ \A g \in Askers \ {h} : ask'[g] = ask[g]
          /\ ask'[h].pc = IF Matches(ask[h].terms) THEN "idle" ELSE "inserting"
          /\ lock' = IF Matches(ask[h].terms) THEN NoAsker ELSE lock
        BY <1>7 DEF Recheck, AskMoves, Asking, NotAsking, TypeOK
    <2> QED BY <2>1, <2>2 DEF LockHeld
<1>8. ASSUME NEW h \in Askers, Insert(h) PROVE LockHeld'
    BY <1>8, SomeTermsType, AskerAssumption
    DEF Insert, AskMoves, Asking, NotAsking, Unlock, LockHeld, TypeOK
<1>9. ASSUME NEW h \in Askers, AskFails(h) PROVE LockHeld'
    BY <1>9, SomeTermsType, AskerAssumption
    DEF AskFails, AskMoves, Asking, NotAsking, Unlock, LockHeld, TypeOK
<1>10. ASSUME NEW k \in Deciders,
             \/ \E verb \in Verbs, r \in Requests : Open(k, verb, r)
             \/ Approve(k)
             \/ Deny(k)
             \/ Cancel(k)
             \/ OpenRevoke(k)
             \/ Revoke(k)
             \/ DecideFails(k)
      PROVE  UNCHANGED <<ask, lock>>
    BY <1>10 DEF Open, Approve, Deny, Cancel, OpenRevoke, Revoke, DecideFails, Answer,
        requested, rows
<1>11. ASSUME NEW p \in Workers,
             \/ ScanDue(p)
             \/ Restart(p)
             \/ \E r \in Requests : EmitTimeout(p, r)
             \/ \E r \in Requests : EmitFails(p, r)
      PROVE  UNCHANGED <<ask, lock>>
    BY <1>11 DEF ScanDue, Restart, EmitTimeout, EmitFails, requested, rows
<1>12. ASSUME
             \/ \E r \in Requests : PassDeadline(r)
             \/ GrantExpires
             \/ CooldownEnds
             \/ OthersAsk
      PROVE  UNCHANGED <<ask, lock>>
    BY <1>12 DEF PassDeadline, GrantExpires, CooldownEnds, OthersAsk, requested, rows
<1>13. CASE UNCHANGED vars
    BY <1>13, <1>1 DEF vars
<1> QED
    BY <1>1, <1>2, <1>3, <1>4, <1>5, <1>6, <1>7, <1>8, <1>9, <1>10, <1>11,
       <1>12, <1>13
    DEF Next, AskStep, DecideStep, WorkerStep, TimeStep

(* Nothing that happens after the second look adds a pending request. *)
LEMMA LookStep ==
    ASSUME TypeOK, BornFacts, ViaFitsLane, LockHeld, SecondLookHolds,
           DuplicatesNeedDetour, [Next]_vars
    PROVE  SecondLookHolds'
<1>r. lane' = lane
    BY DEF Next, vars
<1> USE <1>r
<1>1. UNCHANGED <<ask, born, latest, due, terms>> => SecondLookHolds'
    BY DEF SecondLookHolds, Pending
<1>2. ASSUME NEW h \in Askers, NEW t \in Terms, NEW via \in {"developer", "a2a"},
             AskActive(h, t, via)
      PROVE  SecondLookHolds'
    BY <1>2 DEF AskActive, Asking, SecondLookHolds, Pending, requested, rows
<1>3. ASSUME NEW h \in Askers, AskPending(h) PROVE SecondLookHolds'
    BY <1>3 DEF AskPending, AskMoves, Asking, NotAsking, SecondLookHolds, Pending,
        requested, rows
<1>4. ASSUME NEW h \in Askers, AskPendingA2A(h) PROVE SecondLookHolds'
    BY <1>4 DEF AskPendingA2A, ViaFitsLane, SecondLookHolds
<1>5. ASSUME NEW h \in Askers, AskDenied(h) PROVE SecondLookHolds'
    BY <1>5 DEF AskDenied, AskMoves, Asking, NotAsking, SecondLookHolds, Pending,
        requested, rows
<1>6. ASSUME NEW h \in Askers, Acquire(h) PROVE SecondLookHolds'
    BY <1>6 DEF Acquire, AskMoves, Asking, NotAsking, SecondLookHolds, Pending,
        requested, rows
<1>7. ASSUME NEW h \in Askers, Recheck(h) PROVE SecondLookHolds'
    <2> SUFFICES ASSUME lane = "attr", NEW g \in Askers, NEW r \in Requests,
                        ask'[g].pc = "inserting", Pending(r)', terms'[r] = ask'[g].terms
                 PROVE  \E q \in Requests : born'[r] < born'[q] /\ terms'[q] # terms'[r]
        BY DEF SecondLookHolds
    <2>1. UNCHANGED <<born, latest, due, terms>>
        BY <1>7 DEF Recheck, requested, rows
    <2>2. Pending(r)
        BY <2>1 DEF Pending
    <2>3. CASE g # h
        <3>1. ask'[g] = ask[g]
            BY <2>3, <1>7 DEF Recheck, AskMoves, TypeOK
        <3> QED BY <2>1, <2>2, <3>1 DEF SecondLookHolds
    <2>4. CASE g = h
        <3>1. ~Matches(ask[h].terms) /\ ask'[h].terms = ask[h].terms
            BY <2>4, <1>7 DEF Recheck, AskMoves, Asking, NotAsking, TypeOK
        <3>2. ~NewestPending(r)
            BY <2>1, <2>4, <3>1 DEF Matches
        <3>3. PICK s \in Requests : Pending(s) /\ ~(born[s] <= born[r])
            BY <2>2, <3>2 DEF NewestPending
        <3>4. born[r] < born[s]
            BY <3>3 DEF TypeOK
        <3>5. CASE terms[s] # terms[r]
            BY <2>1, <3>4, <3>5
        <3>6. CASE terms[s] = terms[r]
            BY <2>1, <2>2, <3>3, <3>4, <3>6 DEF DuplicatesNeedDetour, Detour
        <3> QED BY <3>5, <3>6
    <2> QED BY <2>3, <2>4
<1>8. ASSUME NEW h \in Askers, Insert(h) PROVE SecondLookHolds'
    <2> SUFFICES ASSUME lane = "attr", NEW g \in Askers,
                        ask'[g].pc = "inserting"
                 PROVE  FALSE
        BY DEF SecondLookHolds
    <2>1. ask'[h].pc = "idle"
        BY <1>8 DEF Insert, AskMoves, NotAsking, Asking, TypeOK
    <2>2. g # h /\ ask'[g] = ask[g]
        BY <2>1, <1>8 DEF Insert, AskMoves, TypeOK
    <2>3. lock = g /\ lock = h
        BY <2>2, <1>8 DEF ViaFitsLane, LockHeld, Insert
    <2> QED BY <2>2, <2>3
<1>9. ASSUME NEW h \in Askers, AskFails(h) PROVE SecondLookHolds'
    BY <1>9 DEF AskFails, AskMoves, Asking, NotAsking, Unlock, SecondLookHolds,
        Pending, requested, rows
<1>10. ASSUME NEW k \in Deciders, Approve(k) PROVE SecondLookHolds'
    BY <1>10 DEF Approve, Answer, DecideEnds, NotDeciding, Deciding, SecondLookHolds,
        Pending, requested, rows
<1>11. ASSUME NEW k \in Deciders, Deny(k) PROVE SecondLookHolds'
    BY <1>11 DEF Deny, Answer, DecideEnds, NotDeciding, Deciding, SecondLookHolds,
        Pending, requested, rows
<1>12. ASSUME NEW k \in Deciders, Cancel(k) PROVE SecondLookHolds'
    BY <1>12 DEF Cancel, Answer, DecideEnds, NotDeciding, Deciding, SecondLookHolds,
        Pending, requested, rows
<1>13. ASSUME NEW k \in Deciders, Revoke(k) PROVE SecondLookHolds'
    BY <1>13 DEF Revoke, DecideEnds, NotDeciding, Deciding, SecondLookHolds, Pending,
        requested, rows
<1>14. ASSUME NEW k \in Deciders,
             \/ \E verb \in Verbs, r \in Requests : Open(k, verb, r)
             \/ OpenRevoke(k)
             \/ DecideFails(k)
      PROVE  UNCHANGED <<ask, born, latest, due, terms>>
    BY <1>14 DEF Open, OpenRevoke, DecideFails, requested, rows
<1>15. ASSUME NEW p \in Workers, NEW r \in Requests, EmitTimeout(p, r)
      PROVE  SecondLookHolds'
    BY <1>15 DEF EmitTimeout, ScanMoves, SecondLookHolds, Pending, requested, rows
<1>16. ASSUME NEW p \in Workers,
             \/ ScanDue(p)
             \/ Restart(p)
             \/ \E r \in Requests : EmitFails(p, r)
      PROVE  UNCHANGED <<ask, born, latest, due, terms>>
    BY <1>16 DEF ScanDue, Restart, EmitFails, requested, rows
<1>17. ASSUME NEW r \in Requests, PassDeadline(r) PROVE SecondLookHolds'
    BY <1>17 DEF PassDeadline, SecondLookHolds, Pending, requested, rows
<1>18. ASSUME
             \/ GrantExpires
             \/ CooldownEnds
             \/ OthersAsk
      PROVE  UNCHANGED <<ask, born, latest, due, terms>>
    BY <1>18 DEF GrantExpires, CooldownEnds, OthersAsk, requested, rows
<1>19. CASE UNCHANGED vars
    BY <1>19, <1>1 DEF vars
<1> QED
    BY <1>1, <1>2, <1>3, <1>4, <1>5, <1>6, <1>7, <1>8, <1>9, <1>10, <1>11,
       <1>12, <1>13, <1>14, <1>15, <1>16, <1>17, <1>18, <1>19
    DEF Next, AskStep, DecideStep, WorkerStep, TimeStep

(* Only requests that were asked for are opened, scanned or granted. *)
LEMMA KnownStep ==
    ASSUME TypeOK, KnownRequests, BornFacts, [Next]_vars
    PROVE  KnownRequests'
<1> USE DEF background
<1>1. UNCHANGED <<decide, born, scan, grant>> => KnownRequests'
    BY DEF KnownRequests
<1>2. ASSUME NEW h \in Askers, Insert(h) PROVE KnownRequests'
    <2>1. \A s \in Requests : born[s] # 0 => born'[s] = born[s]
        BY <1>2 DEF Insert, TypeOK
    <2>2. UNCHANGED <<decide, scan, grant>>
        BY <1>2 DEF Insert
    <2> QED BY <2>1, <2>2, RequestAssumption DEF KnownRequests, TypeOK
<1>3. ASSUME NEW h \in Askers,
             \/ \E t \in Terms, via \in {"developer", "a2a"} : AskActive(h, t, via)
             \/ AskPending(h)
             \/ AskPendingA2A(h)
             \/ AskDenied(h)
             \/ Acquire(h)
             \/ Recheck(h)
             \/ AskFails(h)
      PROVE  UNCHANGED <<decide, born, scan, grant>>
    BY <1>3 DEF AskActive, AskPending, AskPendingA2A, AskDenied, Acquire, Recheck,
        AskFails, requested, rows
<1>4. ASSUME NEW k \in Deciders, NEW verb \in Verbs, NEW r \in Requests, Open(k, verb, r)
      PROVE  KnownRequests'
    <2>1. born[r] # 0 /\ UNCHANGED <<born, scan, grant>>
        BY <1>4 DEF Open, Decidable, BornFacts, requested
    <2>2. /\ decide'[k].request = r
          /\ \A j \in Deciders \ {k} : decide'[j] = decide[j]
        BY <1>4 DEF Open, Deciding, TypeOK
    <2> QED BY <2>1, <2>2 DEF KnownRequests
<1>5. ASSUME NEW k \in Deciders, Approve(k) PROVE KnownRequests'
    <2>1. decide[k].request \in Requests /\ born[decide[k].request] # 0
        BY <1>5 DEF Approve, Answer, KnownRequests
    <2>2. UNCHANGED <<born, scan>> /\ grant' = decide[k].request
        BY <1>5 DEF Approve, Answer, requested
    <2>3. /\ decide'[k].verb = "idle"
          /\ \A j \in Deciders \ {k} : decide'[j] = decide[j]
        BY <1>5 DEF Approve, Answer, DecideEnds, NotDeciding, Deciding, TypeOK
    <2> QED BY <2>1, <2>2, <2>3 DEF KnownRequests
<1>6. ASSUME NEW k \in Deciders, Deny(k) PROVE KnownRequests'
    BY <1>6 DEF Deny, Answer, DecideEnds, NotDeciding, Deciding, KnownRequests,
        requested, rows
<1>7. ASSUME NEW k \in Deciders, Cancel(k) PROVE KnownRequests'
    BY <1>7 DEF Cancel, Answer, DecideEnds, NotDeciding, Deciding, KnownRequests,
        requested, rows
<1>8. ASSUME NEW k \in Deciders, OpenRevoke(k) PROVE KnownRequests'
    <2>1. grant \in Requests /\ born[grant] # 0 /\ UNCHANGED <<born, scan, grant>>
        BY <1>8 DEF OpenRevoke, KnownRequests, TypeOK, requested
    <2>2. /\ decide'[k].request = grant
          /\ \A j \in Deciders \ {k} : decide'[j] = decide[j]
        BY <1>8 DEF OpenRevoke, Deciding, TypeOK
    <2> QED BY <2>1, <2>2 DEF KnownRequests
<1>9. ASSUME NEW k \in Deciders, Revoke(k) PROVE KnownRequests'
    BY <1>9 DEF Revoke, DecideEnds, NotDeciding, Deciding, KnownRequests, requested,
        rows
<1>10. ASSUME NEW k \in Deciders, DecideFails(k) PROVE KnownRequests'
    BY <1>10 DEF DecideFails, DecideEnds, NotDeciding, Deciding, KnownRequests,
        requested, rows
<1>11. ASSUME NEW p \in Workers, ScanDue(p) PROVE KnownRequests'
    <2>1. UNCHANGED <<born, decide, grant>>
        BY <1>11 DEF ScanDue, requested
    <2>2. \A r \in TimedOut : born[r] # 0
        BY DEF TimedOut, TypeOK
    <2>3. /\ scan'[p] = TimedOut
          /\ \A o \in Workers \ {p} : scan'[o] = scan[o]
        BY <1>11 DEF ScanDue, TypeOK
    <2> QED BY <2>1, <2>2, <2>3 DEF KnownRequests
<1>12. ASSUME NEW p \in Workers, NEW r \in Requests, EmitTimeout(p, r)
      PROVE  KnownRequests'
    BY <1>12 DEF EmitTimeout, ScanMoves, KnownRequests, requested, rows
<1>13. ASSUME NEW p \in Workers, NEW r \in Requests, EmitFails(p, r) PROVE KnownRequests'
    BY <1>13 DEF EmitFails, ScanMoves, KnownRequests, requested, rows
<1>14. ASSUME GrantExpires PROVE KnownRequests'
    BY <1>14 DEF GrantExpires, KnownRequests, requested, rows
<1>15. ASSUME
             \/ \E r \in Requests : PassDeadline(r)
             \/ CooldownEnds
             \/ OthersAsk
      PROVE  UNCHANGED <<decide, born, scan, grant>>
    BY <1>15 DEF PassDeadline, CooldownEnds, OthersAsk, requested, rows
<1>16. ASSUME NEW p \in Workers, Restart(p) PROVE KnownRequests'
    <2>1. UNCHANGED <<born, decide, grant>>
        BY <1>16 DEF Restart, requested
    <2>2. \A o \in Workers : scan'[o] \subseteq scan[o]
        BY <1>16 DEF Restart, TypeOK
    <2> QED BY <2>1, <2>2 DEF KnownRequests
<1>17. CASE UNCHANGED vars
    BY <1>17, <1>1 DEF vars
<1> QED
    BY <1>1, <1>2, <1>3, <1>4, <1>5, <1>6, <1>7, <1>8, <1>9, <1>10, <1>11,
       <1>12, <1>13, <1>14, <1>15, <1>16, <1>17
    DEF Next, AskStep, DecideStep, WorkerStep, TimeStep

(* An answer takes the request out of the state it can be answered in. *)
LEMMA UnansweredStep ==
    ASSUME TypeOK, KnownRequests, OpenUnanswered, BornFacts, [Next]_vars
    PROVE  OpenUnanswered'
<1>1. UNCHANGED <<answers, latest>> => OpenUnanswered'
    BY DEF OpenUnanswered
<1>2. ASSUME NEW h \in Askers, Insert(h) PROVE OpenUnanswered'
    BY <1>2 DEF Insert, OpenUnanswered, BornFacts, TypeOK
<1>3. ASSUME NEW h \in Askers,
             \/ \E t \in Terms, via \in {"developer", "a2a"} : AskActive(h, t, via)
             \/ AskPending(h)
             \/ AskPendingA2A(h)
             \/ AskDenied(h)
             \/ Acquire(h)
             \/ Recheck(h)
             \/ AskFails(h)
      PROVE  UNCHANGED <<answers, latest>>
    BY <1>3 DEF AskActive, AskPending, AskPendingA2A, AskDenied, Acquire, Recheck,
        AskFails, requested, rows
<1>4. ASSUME NEW k \in Deciders, Approve(k) PROVE OpenUnanswered'
    BY <1>4 DEF Approve, Answer, OpenUnanswered, KnownRequests, TypeOK
<1>5. ASSUME NEW k \in Deciders, Deny(k) PROVE OpenUnanswered'
    BY <1>5 DEF Deny, Answer, OpenUnanswered, KnownRequests, TypeOK
<1>6. ASSUME NEW k \in Deciders, Cancel(k) PROVE OpenUnanswered'
    BY <1>6 DEF Cancel, Answer, OpenUnanswered, KnownRequests, TypeOK
<1>7. ASSUME NEW k \in Deciders, Revoke(k) PROVE OpenUnanswered'
    BY <1>7 DEF Revoke, OpenUnanswered, TypeOK
<1>8. ASSUME NEW k \in Deciders,
             \/ \E verb \in Verbs, r \in Requests : Open(k, verb, r)
             \/ OpenRevoke(k)
             \/ DecideFails(k)
      PROVE  UNCHANGED <<answers, latest>>
    BY <1>8 DEF Open, OpenRevoke, DecideFails, requested, rows
<1>9. ASSUME NEW p \in Workers, NEW r \in Requests, EmitTimeout(p, r)
      PROVE  OpenUnanswered'
    BY <1>9 DEF EmitTimeout, OpenUnanswered, TypeOK
<1>10. ASSUME NEW p \in Workers,
             \/ ScanDue(p)
             \/ Restart(p)
             \/ \E r \in Requests : EmitFails(p, r)
      PROVE  UNCHANGED <<answers, latest>>
    BY <1>10 DEF ScanDue, Restart, EmitFails, requested, rows
<1>11. ASSUME
             \/ \E r \in Requests : PassDeadline(r)
             \/ GrantExpires
             \/ CooldownEnds
             \/ OthersAsk
      PROVE  UNCHANGED <<answers, latest>>
    BY <1>11 DEF PassDeadline, GrantExpires, CooldownEnds, OthersAsk, requested, rows
<1>12. CASE UNCHANGED vars
    BY <1>12, <1>1 DEF vars
<1> QED
    BY <1>1, <1>2, <1>3, <1>4, <1>5, <1>6, <1>7, <1>8, <1>9, <1>10, <1>11,
       <1>12
    DEF Next, AskStep, DecideStep, WorkerStep, TimeStep

(* An uncontested answer stays the first and only one. *)
LEMMA OpenStep ==
    ASSUME TypeOK, KnownRequests, OpenUnanswered, OpenIsFirst, [Next]_vars
    PROVE  OpenIsFirst'
<1>1. UNCHANGED <<decide, contested, answers>> => OpenIsFirst'
    BY DEF OpenIsFirst
<1>2. ASSUME NEW h \in Askers,
             \/ \E t \in Terms, via \in {"developer", "a2a"} : AskActive(h, t, via)
             \/ AskPending(h)
             \/ AskPendingA2A(h)
             \/ AskDenied(h)
             \/ Acquire(h)
             \/ Recheck(h)
             \/ Insert(h)
             \/ AskFails(h)
      PROVE  UNCHANGED <<decide, contested, answers>>
    BY <1>2 DEF AskActive, AskPending, AskPendingA2A, AskDenied, Acquire, Recheck,
        Insert, AskFails, requested, rows
<1>3. ASSUME NEW k \in Deciders, NEW verb \in Verbs, NEW r \in Requests, Open(k, verb, r)
      PROVE  OpenIsFirst'
    <2>1. answers' = answers /\ answers[r] = {}
        BY <1>3 DEF Open, Decidable, OpenUnanswered, rows
    <2>2. /\ decide'[k] = Deciding(verb, r)
          /\ \A j \in Deciders \ {k} : decide'[j] = decide[j]
        BY <1>3 DEF Open, TypeOK
    <2>3. decide'[k].request = r
        BY <2>2 DEF Deciding
    <2>4. CASE \E j \in Deciders : decide[j].verb \in Verbs /\ decide[j].request = r
        <3>1. contested' = contested \cup {r}
            BY <2>4, <1>3 DEF Open
        <3> QED BY <2>1, <2>2, <2>3, <3>1 DEF OpenIsFirst
    <2>5. CASE ~\E j \in Deciders : decide[j].verb \in Verbs /\ decide[j].request = r
        <3>1. contested' = contested
            BY <2>5, <1>3 DEF Open
        <3> QED BY <2>1, <2>2, <2>3, <2>5, <3>1 DEF OpenIsFirst
    <2> QED BY <2>4, <2>5
<1>4. ASSUME NEW k \in Deciders, Approve(k) PROVE OpenIsFirst'
    <2>1. /\ decide'[k].verb = "idle"
          /\ \A j \in Deciders \ {k} : decide'[j] = decide[j]
        BY <1>4 DEF Approve, Answer, DecideEnds, NotDeciding, Deciding, TypeOK
    <2>2. decide[k].verb \in Verbs /\ contested' = contested
        BY <1>4 DEF Approve, Answer, Verbs
    <2>3. \A s \in Requests : s # decide[k].request => answers'[s] = answers[s]
        BY <1>4 DEF Approve, Answer, TypeOK
    <2>4. \A j \in Deciders : decide[j].verb \in Verbs => decide[j].request \in Requests
        BY DEF KnownRequests, Verbs
    <2>5. "idle" \notin Verbs
        BY DEF Verbs
    <2> QED BY <2>1, <2>2, <2>3, <2>4, <2>5 DEF OpenIsFirst
<1>5. ASSUME NEW k \in Deciders, Deny(k) PROVE OpenIsFirst'
    <2>1. /\ decide'[k].verb = "idle"
          /\ \A j \in Deciders \ {k} : decide'[j] = decide[j]
        BY <1>5 DEF Deny, Answer, DecideEnds, NotDeciding, Deciding, TypeOK
    <2>2. decide[k].verb \in Verbs /\ contested' = contested
        BY <1>5 DEF Deny, Answer, Verbs
    <2>3. \A s \in Requests : s # decide[k].request => answers'[s] = answers[s]
        BY <1>5 DEF Deny, Answer, TypeOK
    <2>4. \A j \in Deciders : decide[j].verb \in Verbs => decide[j].request \in Requests
        BY DEF KnownRequests, Verbs
    <2>5. "idle" \notin Verbs
        BY DEF Verbs
    <2> QED BY <2>1, <2>2, <2>3, <2>4, <2>5 DEF OpenIsFirst
<1>6. ASSUME NEW k \in Deciders, Cancel(k) PROVE OpenIsFirst'
    <2>1. /\ decide'[k].verb = "idle"
          /\ \A j \in Deciders \ {k} : decide'[j] = decide[j]
        BY <1>6 DEF Cancel, Answer, DecideEnds, NotDeciding, Deciding, TypeOK
    <2>2. decide[k].verb \in Verbs /\ contested' = contested
        BY <1>6 DEF Cancel, Answer, Verbs
    <2>3. \A s \in Requests : s # decide[k].request => answers'[s] = answers[s]
        BY <1>6 DEF Cancel, Answer, TypeOK
    <2>4. \A j \in Deciders : decide[j].verb \in Verbs => decide[j].request \in Requests
        BY DEF KnownRequests, Verbs
    <2>5. "idle" \notin Verbs
        BY DEF Verbs
    <2> QED BY <2>1, <2>2, <2>3, <2>4, <2>5 DEF OpenIsFirst
<1>7. ASSUME NEW k \in Deciders, OpenRevoke(k) PROVE OpenIsFirst'
    <2>1. UNCHANGED <<contested, answers>>
        BY <1>7 DEF OpenRevoke, rows
    <2>2. /\ decide'[k].verb \notin Verbs
          /\ \A j \in Deciders \ {k} : decide'[j] = decide[j]
        BY <1>7 DEF OpenRevoke, Deciding, Verbs, TypeOK
    <2> QED BY <2>1, <2>2 DEF OpenIsFirst
<1>8. ASSUME NEW k \in Deciders, Revoke(k) PROVE OpenIsFirst'
    <2>1. UNCHANGED <<contested, answers>>
        BY <1>8 DEF Revoke, rows
    <2>2. /\ decide'[k].verb \notin Verbs
          /\ \A j \in Deciders \ {k} : decide'[j] = decide[j]
        BY <1>8 DEF Revoke, DecideEnds, NotDeciding, Deciding, Verbs, TypeOK
    <2> QED BY <2>1, <2>2 DEF OpenIsFirst
<1>9. ASSUME NEW k \in Deciders, DecideFails(k) PROVE OpenIsFirst'
    <2>1. UNCHANGED <<contested, answers>>
        BY <1>9 DEF DecideFails, rows
    <2>2. /\ decide'[k].verb \notin Verbs
          /\ \A j \in Deciders \ {k} : decide'[j] = decide[j]
        BY <1>9 DEF DecideFails, DecideEnds, NotDeciding, Deciding, Verbs, TypeOK
    <2> QED BY <2>1, <2>2 DEF OpenIsFirst
<1>10. ASSUME NEW p \in Workers,
             \/ ScanDue(p)
             \/ Restart(p)
             \/ \E r \in Requests : EmitTimeout(p, r)
             \/ \E r \in Requests : EmitFails(p, r)
      PROVE  UNCHANGED <<decide, contested, answers>>
    BY <1>10 DEF ScanDue, Restart, EmitTimeout, EmitFails, requested, rows
<1>11. ASSUME
             \/ \E r \in Requests : PassDeadline(r)
             \/ GrantExpires
             \/ CooldownEnds
             \/ OthersAsk
      PROVE  UNCHANGED <<decide, contested, answers>>
    BY <1>11 DEF PassDeadline, GrantExpires, CooldownEnds, OthersAsk, requested, rows
<1>12. CASE UNCHANGED vars
    BY <1>12, <1>1 DEF vars
<1> QED
    BY <1>1, <1>2, <1>3, <1>4, <1>5, <1>6, <1>7, <1>8, <1>9, <1>10, <1>11,
       <1>12
    DEF Next, AskStep, DecideStep, WorkerStep, TimeStep

(* An insert after the second look has its detour; nothing else makes a    *)
(* request pending.                                                        *)
LEMMA DetourStep ==
    ASSUME TypeOK, BornFacts, SecondLookHolds, DuplicatesNeedDetour,
           [Next]_vars
    PROVE  DuplicatesNeedDetour'
<1>r. lane' = lane
    BY DEF Next, vars
<1> USE <1>r
<1>1. UNCHANGED <<latest, due, terms, born>> => DuplicatesNeedDetour'
    BY DEF DuplicatesNeedDetour, Pending, Detour
<1>2. ASSUME NEW h \in Askers, Insert(h) PROVE DuplicatesNeedDetour'
    <2> SUFFICES ASSUME lane = "attr", NEW r \in Requests, NEW s \in Requests,
                        Pending(r)', Pending(s)', terms'[r] = terms'[s],
                        born'[r] < born'[s]
                 PROVE  Detour(r, s)'
        BY DEF DuplicatesNeedDetour
    <2>1. PICK n \in Requests : /\ born[n] = 0
                               /\ born' = [born EXCEPT ![n] = clock + 1]
                               /\ terms' = [terms EXCEPT ![n] = ask[h].terms]
                               /\ latest' = [latest EXCEPT ![n] = "requested"]
        BY <1>2 DEF Insert
    <2>2. /\ born'[n] = clock + 1 /\ terms'[n] = ask[h].terms
          /\ \A q \in Requests \ {n} : /\ born'[q] = born[q] /\ terms'[q] = terms[q]
                                      /\ latest'[q] = latest[q]
        BY <2>1 DEF TypeOK
    <2>3. \A q \in Requests : born[q] \in Nat /\ born[q] <= clock /\ clock \in Nat
        BY DEF TypeOK, BornFacts
    <2>4. r # n
        BY <2>2, <2>3
    <2>5. Pending(r) /\ (s # n => Pending(s))
        BY <2>2, <2>4, <1>2 DEF Pending, Insert
    <2>6. CASE s = n
        <3>1. PICK q \in Requests : born[r] < born[q] /\ terms[q] # terms[r]
            BY <2>2, <2>4, <2>5, <2>6, <1>2 DEF SecondLookHolds, Insert
        <3>2. q # n
            BY <2>1, <2>3, <3>1
        <3>3. born'[q] = born[q] /\ terms'[q] = terms[q] /\ born[q] < clock + 1
            BY <2>2, <2>3, <3>2
        <3> QED BY <2>2, <2>4, <2>6, <3>1, <3>3 DEF Detour
    <2>7. CASE s # n
        <3>1. PICK q \in Requests : /\ born[r] < born[q] /\ born[q] < born[s]
                                   /\ terms[q] # terms[r]
            BY <2>2, <2>4, <2>5, <2>7 DEF DuplicatesNeedDetour, Detour
        <3>2. q # n
            BY <2>1, <2>3, <3>1
        <3> QED BY <2>2, <2>4, <2>7, <3>1, <3>2 DEF Detour
    <2> QED BY <2>6, <2>7
<1>3. ASSUME NEW h \in Askers,
             \/ \E t \in Terms, via \in {"developer", "a2a"} : AskActive(h, t, via)
             \/ AskPending(h)
             \/ AskPendingA2A(h)
             \/ AskDenied(h)
             \/ Acquire(h)
             \/ Recheck(h)
             \/ AskFails(h)
      PROVE  UNCHANGED <<latest, due, terms, born>>
    BY <1>3 DEF AskActive, AskPending, AskPendingA2A, AskDenied, Acquire, Recheck,
        AskFails, requested, rows
<1>4. ASSUME NEW k \in Deciders, Approve(k) PROVE DuplicatesNeedDetour'
    BY <1>4 DEF Approve, Answer, DecideEnds, NotDeciding, Deciding,
        DuplicatesNeedDetour, Pending, Detour, requested, rows
<1>5. ASSUME NEW k \in Deciders, Deny(k) PROVE DuplicatesNeedDetour'
    BY <1>5 DEF Deny, Answer, DecideEnds, NotDeciding, Deciding, DuplicatesNeedDetour,
        Pending, Detour, requested, rows
<1>6. ASSUME NEW k \in Deciders, Cancel(k) PROVE DuplicatesNeedDetour'
    BY <1>6 DEF Cancel, Answer, DecideEnds, NotDeciding, Deciding,
        DuplicatesNeedDetour, Pending, Detour, requested, rows
<1>7. ASSUME NEW k \in Deciders, Revoke(k) PROVE DuplicatesNeedDetour'
    BY <1>7 DEF Revoke, DecideEnds, NotDeciding, Deciding, DuplicatesNeedDetour,
        Pending, Detour, requested, rows
<1>8. ASSUME NEW k \in Deciders,
             \/ \E verb \in Verbs, r \in Requests : Open(k, verb, r)
             \/ OpenRevoke(k)
             \/ DecideFails(k)
      PROVE  UNCHANGED <<latest, due, terms, born>>
    BY <1>8 DEF Open, OpenRevoke, DecideFails, requested, rows
<1>9. ASSUME NEW p \in Workers, NEW r \in Requests, EmitTimeout(p, r)
      PROVE  DuplicatesNeedDetour'
    BY <1>9 DEF EmitTimeout, ScanMoves, DuplicatesNeedDetour, Pending, Detour,
        requested, rows
<1>10. ASSUME NEW p \in Workers,
             \/ ScanDue(p)
             \/ Restart(p)
             \/ \E r \in Requests : EmitFails(p, r)
      PROVE  UNCHANGED <<latest, due, terms, born>>
    BY <1>10 DEF ScanDue, Restart, EmitFails, requested, rows
<1>11. ASSUME NEW r \in Requests, PassDeadline(r) PROVE DuplicatesNeedDetour'
    BY <1>11 DEF PassDeadline, DuplicatesNeedDetour, Pending, Detour, requested, rows
<1>12. ASSUME
             \/ GrantExpires
             \/ CooldownEnds
             \/ OthersAsk
      PROVE  UNCHANGED <<latest, due, terms, born>>
    BY <1>12 DEF GrantExpires, CooldownEnds, OthersAsk, requested, rows
<1>13. CASE UNCHANGED vars
    BY <1>13, <1>1 DEF vars
<1> QED
    BY <1>1, <1>2, <1>3, <1>4, <1>5, <1>6, <1>7, <1>8, <1>9, <1>10, <1>11,
       <1>12, <1>13
    DEF Next, AskStep, DecideStep, WorkerStep, TimeStep

(* An answer is added to a request only if it is contested or has none. *)
LEMMA AnswerStep ==
    ASSUME TypeOK, OpenIsFirst, OneAnswer, [Next]_vars
    PROVE  OneAnswer'
<1>1. UNCHANGED <<contested, answers>> => OneAnswer'
    BY DEF OneAnswer
<1>2. ASSUME NEW h \in Askers,
             \/ \E t \in Terms, via \in {"developer", "a2a"} : AskActive(h, t, via)
             \/ AskPending(h)
             \/ AskPendingA2A(h)
             \/ AskDenied(h)
             \/ Acquire(h)
             \/ Recheck(h)
             \/ Insert(h)
             \/ AskFails(h)
      PROVE  UNCHANGED <<contested, answers>>
    BY <1>2 DEF AskActive, AskPending, AskPendingA2A, AskDenied, Acquire, Recheck,
        Insert, AskFails, requested, rows
<1>3. ASSUME NEW k \in Deciders, NEW verb \in Verbs, NEW r \in Requests, Open(k, verb, r)
      PROVE  OneAnswer'
    BY <1>3 DEF Open, Deciding, OneAnswer, requested, rows
<1>4. ASSUME NEW k \in Deciders, Approve(k) PROVE OneAnswer'
    <2> DEFINE r == decide[k].request
    <2>1. /\ contested' = contested
          /\ answers' = [answers EXCEPT ![r] = answers[r] \cup {"approve"}]
          /\ decide[k].verb \in Verbs
        BY <1>4 DEF Approve, Answer, Verbs
    <2>2. r \notin contested => answers[r] = {}
        BY <2>1 DEF OpenIsFirst
    <2> QED BY <2>1, <2>2 DEF OneAnswer, TypeOK
<1>5. ASSUME NEW k \in Deciders, Deny(k) PROVE OneAnswer'
    <2> DEFINE r == decide[k].request
    <2>1. /\ contested' = contested
          /\ answers' = [answers EXCEPT ![r] = answers[r] \cup {"deny"}]
          /\ decide[k].verb \in Verbs
        BY <1>5 DEF Deny, Answer, Verbs
    <2>2. r \notin contested => answers[r] = {}
        BY <2>1 DEF OpenIsFirst
    <2> QED BY <2>1, <2>2 DEF OneAnswer, TypeOK
<1>6. ASSUME NEW k \in Deciders, Cancel(k) PROVE OneAnswer'
    <2> DEFINE r == decide[k].request
    <2>1. /\ contested' = contested
          /\ answers' = [answers EXCEPT ![r] = answers[r] \cup {"cancel"}]
          /\ decide[k].verb \in Verbs
        BY <1>6 DEF Cancel, Answer, Verbs
    <2>2. r \notin contested => answers[r] = {}
        BY <2>1 DEF OpenIsFirst
    <2> QED BY <2>1, <2>2 DEF OneAnswer, TypeOK
<1>7. ASSUME NEW k \in Deciders,
             \/ OpenRevoke(k)
             \/ Revoke(k)
             \/ DecideFails(k)
      PROVE  UNCHANGED <<contested, answers>>
    BY <1>7 DEF OpenRevoke, Revoke, DecideFails, requested, rows
<1>8. ASSUME NEW p \in Workers,
             \/ ScanDue(p)
             \/ Restart(p)
             \/ \E r \in Requests : EmitTimeout(p, r)
             \/ \E r \in Requests : EmitFails(p, r)
      PROVE  UNCHANGED <<contested, answers>>
    BY <1>8 DEF ScanDue, Restart, EmitTimeout, EmitFails, requested, rows
<1>9. ASSUME
             \/ \E r \in Requests : PassDeadline(r)
             \/ GrantExpires
             \/ CooldownEnds
             \/ OthersAsk
      PROVE  UNCHANGED <<contested, answers>>
    BY <1>9 DEF PassDeadline, GrantExpires, CooldownEnds, OthersAsk, requested, rows
<1>10. CASE UNCHANGED vars
    BY <1>10, <1>1 DEF vars
<1> QED
    BY <1>1, <1>2, <1>3, <1>4, <1>5, <1>6, <1>7, <1>8, <1>9, <1>10
    DEF Next, AskStep, DecideStep, WorkerStep, TimeStep

(* What was answered is not asked for again, and no deadline moves.        *)
LEMMA GrantStep ==
    ASSUME TypeOK, BornFacts, KnownRequests, GrantsAnswered, [Next]_vars
    PROVE  GrantsAnswered'
<1> USE DEF background
<1> DEFINE Answered(r) == latest[r] \notin {"none", "requested"}
<1>s. ASSUME \A r \in Requests : Answered(r) => latest'[r] \notin {"none", "requested"},
             \A r \in Requests : due[r] => due'[r],
             \/ grant' = grant
             \/ grant' = NoRequest
             \/ grant' \in Requests /\ latest'[grant'] \notin {"none", "requested"},
             \A k \in Deciders : decide'[k].verb = "revoke" =>
                 \/ decide'[k] = decide[k]
                 \/ decide'[k].request = grant /\ grant # NoRequest,
             \A p \in Workers : scan'[p] \subseteq {r \in Requests : due[r]} \cup scan[p]
      PROVE  GrantsAnswered'
    <2>1. grant # NoRequest => grant \in Requests /\ Answered(grant)
        BY DEF TypeOK, GrantsAnswered
    <2>2. \A k \in Deciders : decide[k].verb = "revoke" =>
              decide[k].request \in Requests /\ Answered(decide[k].request)
        BY DEF KnownRequests, GrantsAnswered
    <2>3. \A p \in Workers : \A r \in scan[p] : r \in Requests /\ due[r]
        BY DEF TypeOK, GrantsAnswered
    <2>4. grant' # NoRequest => latest'[grant'] \notin {"none", "requested"}
        BY <1>s, <2>1
    <2>5. \A k \in Deciders : decide'[k].verb = "revoke" =>
              latest'[decide'[k].request] \notin {"none", "requested"}
        BY <1>s, <2>1, <2>2
    <2>6. \A p \in Workers : \A r \in scan'[p] : due'[r]
        BY <1>s, <2>3
    <2> QED BY <2>4, <2>5, <2>6 DEF GrantsAnswered
<1> HIDE DEF Answered
<1>1. ASSUME \A r \in Requests : Answered(r) => latest'[r] \notin {"none", "requested"},
             UNCHANGED <<due, scan>>,
             \/ grant' = grant
             \/ grant' = NoRequest
             \/ grant' \in Requests /\ latest'[grant'] \notin {"none", "requested"},
             \A k \in Deciders : decide'[k].verb = "revoke" =>
                 \/ decide'[k] = decide[k]
                 \/ decide'[k].request = grant /\ grant # NoRequest
      PROVE  GrantsAnswered'
    BY <1>1, <1>s
<1>2. ASSUME UNCHANGED <<latest, due, grant, decide, scan>> PROVE GrantsAnswered'
    BY <1>2 DEF GrantsAnswered
<1>3. ASSUME NEW h \in Askers, Insert(h) PROVE GrantsAnswered'
    <2>1. PICK r \in Requests : /\ born[r] = 0
                               /\ latest' = [latest EXCEPT ![r] = "requested"]
        BY <1>3 DEF Insert
    <2>2. latest[r] = "none"
        BY <2>1 DEF BornFacts
    <2>3. \A q \in Requests : Answered(q) => latest'[q] \notin {"none", "requested"}
        BY <2>1, <2>2 DEF Answered, TypeOK
    <2> QED BY <1>1, <1>3, <2>3 DEF Insert
<1>4. ASSUME NEW h \in Askers,
             \/ \E t \in Terms, via \in {"developer", "a2a"} : AskActive(h, t, via)
             \/ AskPending(h)
             \/ AskPendingA2A(h)
             \/ AskDenied(h)
             \/ Acquire(h)
             \/ Recheck(h)
             \/ AskFails(h)
      PROVE  UNCHANGED <<latest, due, grant, decide, scan>>
    BY <1>4 DEF AskActive, AskPending, AskPendingA2A, AskDenied, Acquire, Recheck,
        AskFails, rows
<1>5. ASSUME NEW k \in Deciders, NEW verb \in Verbs, NEW r \in Requests, Open(k, verb, r)
      PROVE  GrantsAnswered'
    <2>1. \A j \in Deciders : decide'[j].verb = "revoke" => decide'[j] = decide[j]
        BY <1>5 DEF Open, Deciding, Verbs, TypeOK
    <2>2. UNCHANGED <<latest, due, grant, scan>>
        BY <1>5 DEF Open, rows
    <2> QED BY <1>1, <2>1, <2>2 DEF Answered
<1>6. ASSUME NEW k \in Deciders, Approve(k) \/ Deny(k) \/ Cancel(k) \/ Revoke(k)
      PROVE  GrantsAnswered'
    <2>1. PICK a \in Actions \ {"none", "requested"} :
              latest' = [latest EXCEPT ![decide[k].request] = a]
        BY <1>6 DEF Approve, Deny, Cancel, Revoke, Answer, Actions
    <2>2. decide[k].verb # "idle" /\ decide[k].request \in Requests
        BY <1>6 DEF Approve, Deny, Cancel, Revoke, Answer, KnownRequests
    <2>3. /\ latest'[decide[k].request] \notin {"none", "requested"}
          /\ \A q \in Requests : Answered(q) => latest'[q] \notin {"none", "requested"}
        BY <2>1, <2>2 DEF Answered, TypeOK
    <2>4. grant' = grant \/ grant' = NoRequest \/ grant' = decide[k].request
        BY <1>6 DEF Approve, Deny, Cancel, Revoke
    <2>5. UNCHANGED <<due, scan>> /\ decide' = [decide EXCEPT ![k] = NotDeciding]
        BY <1>6 DEF Approve, Deny, Cancel, Revoke, Answer, DecideEnds
    <2>6. \A j \in Deciders : decide'[j].verb = "revoke" => decide'[j] = decide[j]
        BY <2>5 DEF NotDeciding, Deciding, TypeOK
    <2> QED BY <1>1, <2>2, <2>3, <2>4, <2>5, <2>6
<1>7. ASSUME NEW k \in Deciders, OpenRevoke(k) PROVE GrantsAnswered'
    <2>1. /\ decide'[k].request = grant /\ grant # NoRequest
          /\ \A j \in Deciders \ {k} : decide'[j] = decide[j]
        BY <1>7 DEF OpenRevoke, Deciding, TypeOK
    <2>2. UNCHANGED <<latest, due, grant, scan>>
        BY <1>7 DEF OpenRevoke, rows
    <2> QED BY <1>1, <2>1, <2>2 DEF Answered
<1>8. ASSUME NEW k \in Deciders, DecideFails(k) PROVE GrantsAnswered'
    <2>1. \A j \in Deciders : decide'[j].verb = "revoke" => decide'[j] = decide[j]
        BY <1>8 DEF DecideFails, DecideEnds, NotDeciding, Deciding, TypeOK
    <2>2. UNCHANGED <<latest, due, grant, scan>>
        BY <1>8 DEF DecideFails, rows
    <2> QED BY <1>1, <2>1, <2>2 DEF Answered
<1>9. ASSUME NEW p \in Workers, ScanDue(p) PROVE GrantsAnswered'
    <2>1. UNCHANGED <<latest, due, grant, decide>>
        BY <1>9 DEF ScanDue, rows
    <2>2. \A q \in Workers : scan'[q] \subseteq {r \in Requests : due[r]} \cup scan[q]
        BY <1>9 DEF ScanDue, TimedOut, TypeOK
    <2> QED BY <1>s, <2>1, <2>2 DEF Answered
<1>10. ASSUME NEW p \in Workers, NEW r \in Requests, EmitTimeout(p, r)
      PROVE  GrantsAnswered'
    <2>1. UNCHANGED <<due, grant, decide>>
        BY <1>10 DEF EmitTimeout
    <2>2. \A q \in Requests : Answered(q) => latest'[q] \notin {"none", "requested"}
        BY <1>10 DEF EmitTimeout, Answered, TypeOK
    <2>3. \A q \in Workers : scan'[q] \subseteq {s \in Requests : due[s]} \cup scan[q]
        BY <1>10 DEF EmitTimeout, ScanMoves, TypeOK
    <2> QED BY <1>s, <2>1, <2>2, <2>3
<1>11. ASSUME NEW p \in Workers, NEW r \in Requests, EmitFails(p, r)
      PROVE  GrantsAnswered'
    <2>1. UNCHANGED <<latest, due, grant, decide>>
        BY <1>11 DEF EmitFails, rows
    <2>2. \A q \in Workers : scan'[q] \subseteq {s \in Requests : due[s]} \cup scan[q]
        BY <1>11 DEF EmitFails, ScanMoves, TypeOK
    <2> QED BY <1>s, <2>1, <2>2 DEF Answered
<1>12. ASSUME NEW r \in Requests, PassDeadline(r) PROVE GrantsAnswered'
    <2>1. UNCHANGED <<latest, grant, decide, scan>>
        BY <1>12 DEF PassDeadline, rows
    <2>2. \A q \in Requests : due[q] => due'[q]
        BY <1>12 DEF PassDeadline, TypeOK
    <2> QED BY <1>s, <2>1, <2>2 DEF Answered
<1>13. ASSUME GrantExpires PROVE GrantsAnswered'
    BY <1>1, <1>13 DEF GrantExpires, rows, Answered
<1>14. ASSUME CooldownEnds \/ OthersAsk
      PROVE  UNCHANGED <<latest, due, grant, decide, scan>>
    BY <1>14 DEF CooldownEnds, OthersAsk, rows
<1>15. ASSUME NEW p \in Workers, Restart(p) PROVE GrantsAnswered'
    <2>1. UNCHANGED <<latest, due, grant, decide>>
        BY <1>15 DEF Restart, rows
    <2>2. \A q \in Workers : scan'[q] \subseteq {s \in Requests : due[s]} \cup scan[q]
        BY <1>15 DEF Restart, TypeOK
    <2> QED BY <1>s, <2>1, <2>2 DEF Answered
<1>16. CASE UNCHANGED vars
    BY <1>16, <1>2 DEF vars
<1> QED
    BY <1>2, <1>3, <1>4, <1>5, <1>6, <1>7, <1>8, <1>9, <1>10, <1>11,
       <1>12, <1>13, <1>14, <1>15, <1>16
    DEF Next, AskStep, DecideStep, WorkerStep, TimeStep

-----------------------------------------------------------------------------
(* Counting the racing askers. *)

(* What RaceCounted says of one pending request. *)
CountedAt(r) ==
    /\ IsFiniteSet(Twins(r))
    /\ Cardinality(Twins(r)) <= Cardinality(Askers)
    /\ GroupOpen(r) => Cardinality(Twins(r)) + Cardinality(Inserters(terms[r]))
                         <= Cardinality(Askers)

(* A part of a finite set is finite and no larger. *)
LEMMA Fewer ==
    ASSUME NEW B, IsFiniteSet(B), NEW A, A \subseteq B
    PROVE  /\ IsFiniteSet(A)
           /\ Cardinality(A) \in Nat /\ Cardinality(B) \in Nat
           /\ Cardinality(A) <= Cardinality(B)
<1>1. IsFiniteSet(A) /\ Cardinality(A) <= Cardinality(B)
    BY FS_Subset
<1>2. Cardinality(A) \in Nat /\ Cardinality(B) \in Nat
    BY <1>1, FS_CardinalityType
<1> QED BY <1>1, <1>2

(* A bounded set of numbers that is not empty has a largest one. *)
LEMMA Largest ==
    ASSUME NEW S, S \subseteq Nat, S # {}, NEW n \in Nat, \A s \in S : s <= n
    PROVE  \E m \in S : \A s \in S : s <= m
<1> DEFINE T == {n - s : s \in S}
           Below == OpToRel(<, Nat)
<1>1. T \subseteq Nat /\ T # {}
    <2>1. \A s \in S : n - s \in Nat
        OBVIOUS
    <2> QED BY <2>1
<1>2. IsWellFoundedOn(Below, Nat)
    BY NatLessThanWellFounded
<1>3. \A x, y \in Nat : <<y, x>> \in Below <=> y < x
    BY DEF OpToRel
<1> HIDE DEF T, Below
<1>4. PICK x \in T : \A y \in T : ~(<<y, x>> \in Below)
    BY <1>1, <1>2, WFMin
<1>5. PICK m \in S : x = n - m
    BY DEF T
<1>6. ASSUME NEW s \in S PROVE s <= m
    <2>1. n - s \in T /\ n - m \in T
        BY <1>5 DEF T
    <2>2. ~(n - s < n - m)
        BY <1>1, <1>3, <1>4, <1>5, <2>1
    <2> QED BY <2>2
<1> QED BY <1>6

(* Where something is pending something is pending newest. *)
LEMMA NewestExists ==
    ASSUME TypeOK, BornFacts, NEW r \in Requests, Pending(r)
    PROVE  \E q \in Requests : NewestPending(q) /\ born[r] <= born[q]
<1> DEFINE S == {born[s] : s \in {s \in Requests : Pending(s)}}
<1>1. /\ S \subseteq Nat /\ S # {} /\ clock \in Nat
      /\ \A s \in S : s <= clock
    BY DEF TypeOK, BornFacts
<1>2. \A s \in Requests : Pending(s) => born[s] \in S
    OBVIOUS
<1>3. \A m \in S : \E q \in Requests : Pending(q) /\ m = born[q]
    OBVIOUS
<1> HIDE DEF S
<1>4. PICK m \in S : \A s \in S : s <= m
    BY <1>1, Largest
<1>5. PICK q \in Requests : Pending(q) /\ m = born[q]
    BY <1>3
<1> QED BY <1>2, <1>4, <1>5 DEF NewestPending

(* So an ask for the same as a pending request is referred to it unless    *)
(* something else was asked for since.                                     *)
LEMMA GroupMatches ==
    ASSUME TypeOK, BornFacts, NEW r \in Requests, Pending(r), GroupOpen(r)
    PROVE  Matches(terms[r])
<1>1. PICK q \in Requests : NewestPending(q) /\ born[r] <= born[q]
    BY NewestExists
<1>2. born[r] \in Nat /\ born[q] \in Nat /\ born[r] # 0
    BY DEF TypeOK, BornFacts, Pending
<1>3. CASE born[r] < born[q]
    BY <1>1, <1>3 DEF GroupOpen, Matches
<1>4. CASE born[r] = born[q]
    BY <1>1, <1>2, <1>4 DEF BornFacts, Matches
<1> QED BY <1>1, <1>2, <1>3, <1>4

(* A request that gets no twin and no new inserter of its terms keeps its  *)
(* count.                                                                  *)
LEMMA RaceShrinks ==
    ASSUME RaceCounted, NEW r \in Requests, Pending(r),
           Twins(r)' \subseteq Twins(r),
           GroupOpen(r)' => /\ GroupOpen(r)
                            /\ Inserters(terms[r])' \subseteq Inserters(terms[r])
    PROVE  CountedAt(r)'
<1>1. CountedAt(r)
    BY DEF RaceCounted, CountedAt
<1>2. /\ IsFiniteSet(Twins(r)')
      /\ Cardinality(Twins(r)) \in Nat /\ Cardinality(Twins(r)') \in Nat
      /\ Cardinality(Twins(r)') <= Cardinality(Twins(r))
    BY <1>1, Fewer DEF CountedAt
<1>3. Cardinality(Askers) \in Nat
    BY AskerAssumption, FS_CardinalityType
<1>4. Cardinality(Twins(r)') <= Cardinality(Askers)
    BY <1>1, <1>2, <1>3 DEF CountedAt
<1>5. ASSUME GroupOpen(r)'
      PROVE  Cardinality(Twins(r)') + Cardinality(Inserters(terms[r])')
                 <= Cardinality(Askers)
    <2>1. IsFiniteSet(Inserters(terms[r]))
        BY AskerAssumption, Fewer DEF Inserters
    <2>2. /\ Cardinality(Inserters(terms[r])) \in Nat
          /\ Cardinality(Inserters(terms[r])') \in Nat
          /\ Cardinality(Inserters(terms[r])') <= Cardinality(Inserters(terms[r]))
        BY <1>5, <2>1, Fewer
    <2>3. Cardinality(Twins(r)) + Cardinality(Inserters(terms[r])) <= Cardinality(Askers)
        BY <1>1, <1>5 DEF CountedAt
    <2> QED BY <1>2, <1>3, <2>2, <2>3
<1> QED BY <1>2, <1>4, <1>5 DEF CountedAt

(* A step that asks for nothing, makes nothing pending and takes no asker  *)
(* to its insert keeps every count.                                        *)
LEMMA RaceQuiet ==
    ASSUME RaceCounted, UNCHANGED <<born, terms>>,
           \A s \in Requests : Pending(s)' => Pending(s),
           \A h \in Askers : ask'[h].pc = "inserting" => ask'[h] = ask[h]
    PROVE  RaceCounted'
<1> SUFFICES ASSUME NEW r \in Requests, Pending(r)'
             PROVE  CountedAt(r)'
    BY DEF RaceCounted, CountedAt
<1>1. Twins(r)' \subseteq Twins(r) /\ (GroupOpen(r)' => GroupOpen(r))
    BY DEF Twins, Detour, GroupOpen
<1>2. Inserters(terms[r])' \subseteq Inserters(terms[r])
    BY DEF Inserters
<1> QED BY <1>1, <1>2, RaceShrinks

(* Where the askers do not move, neither does anyone get to its insert. *)
LEMMA RaceRows ==
    ASSUME RaceCounted, UNCHANGED <<ask, born, terms>>,
           \A s \in Requests : Pending(s)' => Pending(s)
    PROVE  RaceCounted'
BY RaceQuiet

(* The A2A handler goes on to its insert only when nothing is pending.     *)
LEMMA RaceLook ==
    ASSUME TypeOK, RaceCounted, NEW h \in Askers, AskPendingA2A(h)
    PROVE  RaceCounted'
<1>1. /\ \A g \in Askers \ {h} : ask'[g] = ask[g]
      /\ ask'[h].pc = IF \E r \in Requests : Pending(r) THEN "idle" ELSE "inserting"
    BY DEF AskPendingA2A, AskMoves, NotAsking, Asking, TypeOK
<1>2. UNCHANGED <<born, terms, latest, due>>
    BY DEF AskPendingA2A, requested, rows
<1>3. \A s \in Requests : Pending(s)' => Pending(s)
    BY <1>2 DEF Pending
<1>4. CASE \E r \in Requests : Pending(r)
    <2>1. \A g \in Askers : ask'[g].pc = "inserting" => ask'[g] = ask[g]
        BY <1>1, <1>4
    <2> QED BY <1>2, <1>3, <2>1, RaceQuiet
<1>5. CASE ~\E r \in Requests : Pending(r)
    BY <1>3, <1>5 DEF RaceCounted
<1> QED BY <1>4, <1>5

(* The second look lets an asker on only if the newest pending request is  *)
(* for something else.                                                     *)
LEMMA RaceRecheck ==
    ASSUME TypeOK, BornFacts, RaceCounted, NEW h \in Askers, Recheck(h)
    PROVE  RaceCounted'
<1>1. /\ \A g \in Askers \ {h} : ask'[g] = ask[g]
      /\ ask'[h].pc = IF Matches(ask[h].terms) THEN "idle" ELSE "inserting"
      /\ ~Matches(ask[h].terms) => ask'[h].terms = ask[h].terms
    BY DEF Recheck, AskMoves, NotAsking, Asking, TypeOK
<1>2. UNCHANGED <<born, terms, latest, due>>
    BY DEF Recheck, requested, rows
<1>3. \A s \in Requests : Pending(s)' => Pending(s)
    BY <1>2 DEF Pending
<1>4. CASE Matches(ask[h].terms)
    <2>1. \A g \in Askers : ask'[g].pc = "inserting" => ask'[g] = ask[g]
        BY <1>1, <1>4
    <2> QED BY <1>2, <1>3, <2>1, RaceQuiet
<1>5. CASE ~Matches(ask[h].terms)
    <2> SUFFICES ASSUME NEW r \in Requests, Pending(r)'
                 PROVE  CountedAt(r)'
        BY DEF RaceCounted, CountedAt
    <2>1. /\ Twins(r)' \subseteq Twins(r)
          /\ GroupOpen(r)' => GroupOpen(r)
        BY <1>2, <1>3 DEF Twins, Detour, GroupOpen
    <2>2. GroupOpen(r) => terms[r] # ask[h].terms
        BY <1>3, <1>5, GroupMatches
    <2>3. GroupOpen(r) => Inserters(terms[r])' \subseteq Inserters(terms[r])
        BY <1>1, <1>2, <1>5, <2>2 DEF Inserters
    <2> QED BY <1>3, <2>1, <2>3, RaceShrinks
<1> QED BY <1>4, <1>5

(* An insert gives the requests of its terms one twin more and takes one   *)
(* inserter away; for all others something else has been asked for since.  *)
LEMMA RaceInsert ==
    ASSUME TypeOK, BornFacts, RaceCounted, NEW h \in Askers, Insert(h)
    PROVE  RaceCounted'
<1>1. PICK n \in Requests : /\ born[n] = 0
                           /\ born' = [born EXCEPT ![n] = clock + 1]
                           /\ terms' = [terms EXCEPT ![n] = ask[h].terms]
                           /\ latest' = [latest EXCEPT ![n] = "requested"]
    BY DEF Insert
<1>2. /\ born'[n] = clock + 1 /\ terms'[n] = ask[h].terms
      /\ \A q \in Requests \ {n} : born'[q] = born[q] /\ terms'[q] = terms[q]
      /\ \A q \in Requests \ {n} : Pending(q)' <=> Pending(q)
    BY <1>1 DEF TypeOK, Insert, Pending
<1>3. /\ \A q \in Requests : born[q] \in Nat /\ born[q] <= clock
      /\ clock \in Nat
    BY DEF TypeOK, BornFacts
<1>4. /\ ask[h].pc = "inserting" /\ ask'[h].pc = "idle"
      /\ \A g \in Askers \ {h} : ask'[g] = ask[g]
    BY DEF Insert, AskMoves, NotAsking, Asking, TypeOK
<1> DEFINE t == ask[h].terms
<1>5. /\ IsFiniteSet(Inserters(t)) /\ IsFiniteSet(Inserters(t) \ {h})
      /\ Cardinality(Inserters(t)) \in Nat
      /\ Cardinality(Inserters(t) \ {h}) = Cardinality(Inserters(t)) - 1
      /\ Cardinality(Inserters(t)) <= Cardinality(Askers)
      /\ Cardinality(Askers) \in Nat
    <2>1. h \in Inserters(t) /\ Inserters(t) \subseteq Askers
        BY <1>4 DEF Inserters
    <2>2. /\ IsFiniteSet(Inserters(t)) /\ Cardinality(Inserters(t)) \in Nat
          /\ Cardinality(Inserters(t)) <= Cardinality(Askers)
          /\ Cardinality(Askers) \in Nat
        BY <2>1, AskerAssumption, Fewer
    <2>3. /\ IsFiniteSet(Inserters(t) \ {h})
          /\ Cardinality(Inserters(t) \ {h}) = Cardinality(Inserters(t)) - 1
        BY <2>1, <2>2, FS_RemoveElement
    <2> QED BY <2>2, <2>3
<1>6. ASSUME NEW r \in Requests, terms'[r] = t
      PROVE  /\ Cardinality(Inserters(terms[r])') \in Nat
             /\ Cardinality(Inserters(terms[r])') <= Cardinality(Inserters(t)) - 1
    <2>1. Inserters(terms[r])' = {g \in Askers : ask'[g].pc = "inserting"
                                                 /\ ask'[g].terms = terms'[r]}
        BY DEF Inserters
    <2>2. Inserters(terms[r])' \subseteq Inserters(t) \ {h}
        BY <1>4, <1>6, <2>1 DEF Inserters
    <2> QED BY <1>5, <2>2, Fewer
<1>7. CountedAt(n)'
    <2>1. Twins(n)' \subseteq {n}
        BY <1>2, <1>3 DEF Twins
    <2>2. IsFiniteSet({n}) /\ Cardinality({n}) = 1
        BY FS_Singleton
    <2>3. /\ IsFiniteSet(Twins(n)')
          /\ Cardinality(Twins(n)') \in Nat /\ Cardinality(Twins(n)') <= 1
        BY <2>1, <2>2, Fewer
    <2>4. Cardinality(Inserters(terms[n])') + 1 <= Cardinality(Inserters(t))
        BY <1>2, <1>5, <1>6
    <2>5. /\ Cardinality(Twins(n)') <= Cardinality(Askers)
          /\ Cardinality(Twins(n)') + Cardinality(Inserters(terms[n])')
                 <= Cardinality(Askers)
        BY <1>2, <1>5, <1>6, <2>3, <2>4
    <2> QED BY <2>3, <2>5 DEF CountedAt
<1>8. ASSUME NEW r \in Requests \ {n}, Pending(r)' PROVE CountedAt(r)'
    <2>1. Pending(r) /\ born'[r] = born[r] /\ terms'[r] = terms[r]
        BY <1>2, <1>8
    <2>2. ASSUME NEW s \in Requests \ {n}, Detour(r, s) PROVE Detour(r, s)'
        <3>1. PICK q \in Requests : /\ born[r] < born[q] /\ born[q] < born[s]
                                   /\ terms[q] # terms[r]
            BY <2>2 DEF Detour
        <3>2. q # n
            BY <1>1, <1>3, <3>1
        <3> QED BY <1>2, <2>1, <3>1, <3>2 DEF Detour
    <2>3. Twins(r)' \subseteq Twins(r) \cup {n}
        BY <1>2, <2>1, <2>2 DEF Twins
    <2>4. CASE terms[r] # t
        <3>1. n \notin Twins(r)'
            BY <1>2, <2>1, <2>4 DEF Twins
        <3>2. ~GroupOpen(r)'
            BY <1>2, <1>3, <2>1, <2>4 DEF GroupOpen
        <3> QED BY <2>1, <2>3, <3>1, <3>2, RaceShrinks
    <2>5. CASE ~GroupOpen(r)
        <3>1. PICK q \in Requests : born[r] < born[q] /\ terms[q] # terms[r]
            BY <2>5 DEF GroupOpen
        <3>2. q # n /\ born[q] < clock + 1
            BY <1>1, <1>3, <3>1
        <3>3. Detour(r, n)' /\ ~GroupOpen(r)'
            BY <1>2, <2>1, <3>1, <3>2 DEF Detour, GroupOpen
        <3>4. n \notin Twins(r)'
            BY <3>3 DEF Twins
        <3> QED BY <2>1, <2>3, <3>3, <3>4, RaceShrinks
    <2>6. CASE terms[r] = t /\ GroupOpen(r)
        <3>1. /\ IsFiniteSet(Twins(r))
              /\ Cardinality(Twins(r)) + Cardinality(Inserters(t)) <= Cardinality(Askers)
            BY <2>1, <2>6 DEF RaceCounted
        <3>2. /\ IsFiniteSet(Twins(r) \cup {n})
              /\ Cardinality(Twins(r)) \in Nat
              /\ Cardinality(Twins(r) \cup {n}) <= Cardinality(Twins(r)) + 1
            <4>1. Cardinality(Twins(r)) \in Nat
                BY <3>1, FS_CardinalityType
            <4>2. /\ IsFiniteSet(Twins(r) \cup {n})
                  /\ \/ Cardinality(Twins(r) \cup {n}) = Cardinality(Twins(r))
                     \/ Cardinality(Twins(r) \cup {n}) = Cardinality(Twins(r)) + 1
                BY <3>1, FS_AddElement
            <4> QED BY <4>1, <4>2
        <3>3. /\ IsFiniteSet(Twins(r)') /\ Cardinality(Twins(r)') \in Nat
              /\ Cardinality(Twins(r) \cup {n}) \in Nat
              /\ Cardinality(Twins(r)') <= Cardinality(Twins(r) \cup {n})
            BY <2>3, <3>2, Fewer
        <3>4. /\ Cardinality(Inserters(terms[r])') \in Nat
              /\ Cardinality(Inserters(terms[r])') + 1 <= Cardinality(Inserters(t))
            BY <1>5, <1>6, <2>1, <2>6
        <3>5. /\ Cardinality(Twins(r)') <= Cardinality(Askers)
              /\ Cardinality(Twins(r)') + Cardinality(Inserters(terms[r])')
                     <= Cardinality(Askers)
            BY <1>5, <3>1, <3>2, <3>3, <3>4
        <3> QED BY <3>3, <3>5 DEF CountedAt
    <2> QED BY <2>4, <2>5, <2>6
<1> QED BY <1>7, <1>8 DEF RaceCounted, CountedAt

(* Every step keeps the count. *)
LEMMA RaceStep ==
    ASSUME TypeOK, BornFacts, RaceCounted, [Next]_vars
    PROVE  RaceCounted'
<1>a. ASSUME NEW h \in Askers, UNCHANGED <<born, terms, latest, due>>,
             \A g \in Askers \ {h} : ask'[g] = ask[g],
             ask'[h].pc # "inserting"
      PROVE  RaceCounted'
    <2>1. \A g \in Askers : ask'[g].pc = "inserting" => ask'[g] = ask[g]
        BY <1>a
    <2>2. \A s \in Requests : Pending(s)' => Pending(s)
        BY <1>a DEF Pending
    <2> QED BY <1>a, <2>1, <2>2, RaceQuiet
<1>1. ASSUME UNCHANGED <<ask, born, terms, latest, due>> PROVE RaceCounted'
    <2>1. \A s \in Requests : Pending(s)' => Pending(s)
        BY <1>1 DEF Pending
    <2> QED BY <1>1, <2>1, RaceRows
<1>2. ASSUME NEW h \in Askers, NEW t \in Terms, NEW via \in {"developer", "a2a"},
             AskActive(h, t, via)
      PROVE  RaceCounted'
    <2>1. /\ ask'[h].pc = "seeking"
          /\ \A g \in Askers \ {h} : ask'[g] = ask[g]
          /\ UNCHANGED <<born, terms, latest, due>>
        BY <1>2 DEF AskActive, Asking, TypeOK, requested, rows
    <2> QED BY <1>a, <2>1
<1>3. ASSUME NEW h \in Askers, NEW pc, pc # "inserting", AskMoves(h, pc),
             UNCHANGED <<born, terms, latest, due>>
      PROVE  RaceCounted'
    <2>1. /\ ask'[h].pc # "inserting"
          /\ \A g \in Askers \ {h} : ask'[g] = ask[g]
        BY <1>3 DEF AskMoves, NotAsking, Asking, TypeOK
    <2> QED BY <1>a, <1>3, <2>1
<1>4. ASSUME NEW h \in Askers, AskPending(h) PROVE RaceCounted'
    BY <1>3, <1>4 DEF AskPending, requested, rows
<1>5. ASSUME NEW h \in Askers, AskDenied(h) PROVE RaceCounted'
    BY <1>3, <1>5 DEF AskDenied, requested, rows
<1>6. ASSUME NEW h \in Askers, Acquire(h) PROVE RaceCounted'
    BY <1>3, <1>6 DEF Acquire, requested, rows
<1>7. ASSUME NEW h \in Askers, AskFails(h) PROVE RaceCounted'
    BY <1>3, <1>7 DEF AskFails, requested, rows
<1>8. ASSUME NEW h \in Askers, AskPendingA2A(h) \/ Recheck(h) \/ Insert(h)
      PROVE  RaceCounted'
    BY <1>8, RaceLook, RaceRecheck, RaceInsert
<1>9. ASSUME UNCHANGED <<ask, born, terms, due>>, NEW q, NEW a, a # "requested",
             latest' = [latest EXCEPT ![q] = a]
      PROVE  RaceCounted'
    <2>1. \A r \in Requests : latest'[r] = "requested" => latest[r] = "requested"
        BY <1>9 DEF TypeOK
    <2>2. \A s \in Requests : Pending(s)' => Pending(s)
        BY <1>9, <2>1 DEF Pending
    <2> QED BY <1>9, <2>2, RaceRows
<1>10. ASSUME NEW k \in Deciders, Approve(k) \/ Deny(k) \/ Cancel(k) \/ Revoke(k)
      PROVE  RaceCounted'
    <2>1. UNCHANGED <<ask, born, terms, due>>
        BY <1>10 DEF Approve, Deny, Cancel, Revoke, Answer, requested
    <2>2. PICK a : /\ a # "requested"
                   /\ latest' = [latest EXCEPT ![decide[k].request] = a]
        BY <1>10 DEF Approve, Deny, Cancel, Revoke, Answer
    <2> QED BY <1>9, <2>1, <2>2
<1>11. ASSUME NEW k \in Deciders,
             \/ \E verb \in Verbs, r \in Requests : Open(k, verb, r)
             \/ OpenRevoke(k)
             \/ DecideFails(k)
      PROVE  UNCHANGED <<ask, born, terms, latest, due>>
    BY <1>11 DEF Open, OpenRevoke, DecideFails, requested, rows
<1>12. ASSUME NEW p \in Workers, NEW r \in Requests, EmitTimeout(p, r)
      PROVE  RaceCounted'
    BY <1>9, <1>12 DEF EmitTimeout, requested
<1>13. ASSUME NEW p \in Workers,
             \/ ScanDue(p)
             \/ Restart(p)
             \/ \E r \in Requests : EmitFails(p, r)
      PROVE  UNCHANGED <<ask, born, terms, latest, due>>
    BY <1>13 DEF ScanDue, Restart, EmitFails, requested, rows
<1>14. ASSUME NEW r \in Requests, PassDeadline(r) PROVE RaceCounted'
    <2>1. UNCHANGED <<ask, born, terms, latest>> /\ \A s \in Requests : ~due'[s] => ~due[s]
        BY <1>14 DEF PassDeadline, requested, rows, TypeOK
    <2>2. \A s \in Requests : Pending(s)' => Pending(s)
        BY <2>1 DEF Pending
    <2> QED BY <2>1, <2>2, RaceRows
<1>15. ASSUME GrantExpires \/ CooldownEnds \/ OthersAsk
      PROVE  UNCHANGED <<ask, born, terms, latest, due>>
    BY <1>15 DEF GrantExpires, CooldownEnds, OthersAsk, requested, rows
<1>16. CASE UNCHANGED vars
    BY <1>16, <1>1 DEF vars
<1> QED
    BY <1>1, <1>2, <1>4, <1>5, <1>6, <1>7, <1>8, <1>10, <1>11, <1>12, <1>13,
       <1>14, <1>15, <1>16
    DEF Next, AskStep, DecideStep, WorkerStep, TimeStep

-----------------------------------------------------------------------------
(* The invariant holds initially ... *)
LEMMA InitSafety == Init => SafetyInv
<1> SUFFICES ASSUME Init PROVE SafetyInv
    OBVIOUS
<1>1. TypeOK
    <2>1. NotAsking \in [pc : {"idle", "seeking", "cooling", "waiting", "locked",
                               "inserting"}, terms : Terms, via : {"developer", "a2a"}]
        BY SomeTermsType DEF NotAsking, Asking
    <2>2. NotDeciding \in [verb : Verbs \cup {"idle", "revoke"},
                           request : Requests \cup {NoRequest}]
        BY DEF NotDeciding, Deciding
    <2>3. ask \in [Askers -> [pc : {"idle", "seeking", "cooling", "waiting", "locked",
                                    "inserting"},
                              terms : Terms, via : {"developer", "a2a"}]]
        BY <2>1 DEF Init
    <2>4. decide \in [Deciders -> [verb : Verbs \cup {"idle", "revoke"},
                                    request : Requests \cup {NoRequest}]]
        BY <2>2 DEF Init
    <2>5. /\ terms \in [Requests -> Terms]
          /\ latest \in [Requests -> Actions]
        BY SomeTermsType DEF Init, Actions
    <2>6. /\ born \in [Requests -> Nat] /\ clock \in Nat
          /\ faults \in 0..MaxFaults
        BY LimitAssumption DEF Init
    <2>7. /\ due \in [Requests -> BOOLEAN] /\ timedOut \in [Requests -> BOOLEAN]
          /\ cooling \in BOOLEAN
        BY DEF Init
    <2>8. /\ scan \in [Workers -> SUBSET Requests]
          /\ answers \in [Requests -> SUBSET Verbs]
          /\ contested \in SUBSET Requests
          /\ grant \in Requests \cup {NoRequest}
          /\ lock \in Askers \cup {NoAsker}
          /\ lane \in {"attr", "invoke"}
          /\ jobs \in SUBSET Workers /\ horizon \in Nat
        BY DEF Init
    <2> QED BY <2>3, <2>4, <2>5, <2>6, <2>7, <2>8 DEF TypeOK
<1>2. BornFacts /\ KnownRequests /\ OpenUnanswered
    BY DEF Init, BornFacts, KnownRequests, OpenUnanswered, NotDeciding, Deciding
<1>3. ViaFitsLane /\ LockHeld /\ SecondLookHolds
    BY DEF Init, ViaFitsLane, LockHeld, SecondLookHolds, NotAsking, Asking
<1>4. OpenIsFirst /\ OneAnswer /\ GrantsAnswered
    BY DEF Init, OpenIsFirst, OneAnswer, GrantsAnswered, NotDeciding, Deciding, Verbs
<1>5. DuplicatesNeedDetour
    BY DEF Init, DuplicatesNeedDetour, Pending
<1>6. RaceCounted
    BY DEF Init, RaceCounted, Pending
<1> QED BY <1>1, <1>2, <1>3, <1>4, <1>5, <1>6 DEF SafetyInv

(* ... and every step keeps it. *)
LEMMA SafetyStep == SafetyInv /\ [Next]_vars => SafetyInv'
BY TypeStep, BornStep, ViaStep, LockStep, LookStep, KnownStep, UnansweredStep, OpenStep,
   DetourStep, AnswerStep, GrantStep, RaceStep
DEF SafetyInv

(* So it holds in every reachable state. *)
LEMMA SafetyAlways == Spec => []SafetyInv
BY InitSafety, SafetyStep, PTL DEF Spec

(* The handlers and the timeout job keep the tables' types. *)
THEOREM TypeCorrect == Spec => []TypeOK
<1>1. SafetyInv => TypeOK
    BY DEF SafetyInv
<1> QED BY <1>1, SafetyAlways, PTL

(* The advisory lock and the second look of request_consent leave no way   *)
(* to a duplicate pending request but asking for something else in         *)
(* between, for any number of racing askers.                               *)
THEOREM NoRacingDuplicates == Spec => []DuplicatesNeedDetour
<1>1. SafetyInv => DuplicatesNeedDetour
    BY DEF SafetyInv
<1> QED BY <1>1, SafetyAlways, PTL

(* Reading the latest row keeps the owner's answers apart unless two       *)
(* handlers had read the request before either wrote.                      *)
THEOREM AnswersApart == Spec => []OneAnswer
<1>1. SafetyInv => OneAnswer
    BY DEF SafetyInv
<1> QED BY <1>1, SafetyAlways, PTL

(* Where asks without the lock race with each other and with asks that     *)
(* take it, a request never gets more twins than there are handlers racing. *)
THEOREM RaceBounded == Spec => []RacingDuplicatesBounded
<1>1. SafetyInv => RacingDuplicatesBounded
    BY DEF SafetyInv, RaceCounted, RacingDuplicatesBounded
<1> QED BY <1>1, SafetyAlways, PTL

-----------------------------------------------------------------------------
(* The promise of ConsentPromise, step by step. *)

(* A row written for a request moves its phase and no other. *)
LEMMA PhasesMove ==
    ASSUME TypeOK, NEW r \in Requests, NEW a, latest' = [latest EXCEPT ![r] = a]
    PROVE  /\ Phases' = [Phases EXCEPT ![r] = PhaseOf(a)]
           /\ Phases[r] = PhaseOf(latest[r])
BY DEF Phases, TypeOK

(* What the mapping reads is what it shows. *)
LEMMA PromiseFrame ==
    /\ UNCHANGED latest => UNCHANGED Phases
    /\ UNCHANGED due => UNCHANGED Overdue
    /\ UNCHANGED decide => UNCHANGED Shown
BY DEF Phases, Overdue, Shown

LEMMA PromiseUnseen ==
    ASSUME UNCHANGED <<latest, due, decide, contested, answers, grant>>
    PROVE  UNCHANGED Promise!vars
BY PromiseFrame DEF Promise!vars

(* A handler that ends leaves the request shown only to others. *)
LEMMA ShownLeaves ==
    ASSUME TypeOK, NEW k \in Deciders, DecideEnds(k), NEW r, r = decide[k].request
    PROVE  /\ Shown' = Shown \/ Shown' = Shown \ {r}
           /\ decide[k].verb \notin Verbs => Shown' = Shown
           /\ (\A j \in Deciders \ {k} : decide[j].verb \in Verbs => decide[j].request # r)
                  => Shown' = Shown \ {r}
<1>1. /\ decide'[k].verb \notin Verbs
      /\ \A j \in Deciders \ {k} : decide'[j] = decide[j]
    BY DEF DecideEnds, NotDeciding, Deciding, Verbs, TypeOK
<1>2. Shown' = {q \in Requests :
                  \E j \in Deciders : decide'[j].verb \in Verbs /\ decide'[j].request = q}
    BY DEF Shown
<1>3. Shown' \subseteq Shown /\ Shown \ {r} \subseteq Shown'
    BY <1>1, <1>2 DEF Shown
<1>4. decide[k].verb \notin Verbs => Shown \subseteq Shown'
    BY <1>1, <1>2 DEF Shown
<1>5. ASSUME \A j \in Deciders \ {k} : decide[j].verb \in Verbs => decide[j].request # r
      PROVE  r \notin Shown'
    BY <1>1, <1>2, <1>5
<1>6. Shown' = Shown \/ Shown' = Shown \ {r}
    BY <1>3
<1> QED BY <1>3, <1>4, <1>5, <1>6

(* Recording an answer is a Decide of the promise. *)
LEMMA AnswerDecides ==
    ASSUME SafetyInv, NEW k \in Deciders, NEW verb \in Verbs,
           NEW action \in Actions \ {"none", "requested"}, Answer(k, verb, action),
           grant' = IF verb = "approve" THEN decide[k].request ELSE grant
    PROVE  \E r \in Requests : Promise!Decide(r, verb)
<1> DEFINE r == decide[k].request
<1> USE DEF SafetyInv
<1>1. /\ decide[k].verb = verb /\ verb # "idle"
      /\ latest' = [latest EXCEPT ![r] = action]
      /\ answers' = [answers EXCEPT ![r] = answers[r] \cup {verb}]
      /\ DecideEnds(k)
      /\ UNCHANGED <<due, contested>>
    BY DEF Answer, Verbs
<1>2. r \in Requests
    BY <1>1 DEF KnownRequests
<1>3. r \in Shown
    BY <1>1, <1>2 DEF Shown
<1>4. Phases' = [Phases EXCEPT ![r] = "settled"]
    <2>1. PhaseOf(action) = "settled"
        BY DEF PhaseOf
    <2>2. latest' = [latest EXCEPT ![r] = action]
        BY <1>1
    <2>3. Phases' = [Phases EXCEPT ![r] = PhaseOf(action)]
        BY <1>2, <2>2, PhasesMove
    <2> QED BY <2>1, <2>3
<1>5. r \notin contested =>
          /\ answers[r] = {}
          /\ \A j \in Deciders \ {k} : decide[j].verb \in Verbs => decide[j].request # r
    BY <1>1 DEF OpenIsFirst
<1>6. Promise!DoneWith(r)
    BY <1>1, <1>5, ShownLeaves DEF Promise!DoneWith
<1>7. UNCHANGED Overdue
    BY <1>1, PromiseFrame
<1> HIDE DEF r
<1>8. Promise!Decide(r, verb)
    BY <1>1, <1>3, <1>4, <1>5, <1>6, <1>7 DEF Promise!Decide, r
<1> QED BY <1>2, <1>8

(* The initial state is one of the promise. *)
LEMMA PromiseInit == Init => Promise!Init
<1> SUFFICES ASSUME Init PROVE Promise!Init
    OBVIOUS
<1>1. Phases = [r \in Requests |-> "unasked"]
    BY DEF Init, Phases, PhaseOf
<1>2. Overdue = {} /\ Shown = {}
    BY DEF Init, Overdue, Shown, NotDeciding, Deciding, Verbs
<1> QED BY <1>1, <1>2 DEF Init, Promise!Init

(* Every step is a step of the promise or shows nothing. *)
LEMMA PromiseStep ==
    ASSUME SafetyInv, [Next]_vars
    PROVE  [Promise!Next]_(Promise!vars)
<1> USE DEF SafetyInv
<1>1. ASSUME UNCHANGED <<latest, due, decide, contested, answers, grant>>
      PROVE  [Promise!Next]_(Promise!vars)
    BY <1>1, PromiseUnseen
<1>2. ASSUME NEW h \in Askers, Insert(h) PROVE Promise!Next
    <2>1. PICK r \in Requests : /\ born[r] = 0
                               /\ latest' = [latest EXCEPT ![r] = "requested"]
        BY <1>2 DEF Insert
    <2>2. latest[r] = "none"
        BY <2>1 DEF BornFacts
    <2>3. Phases[r] = "unasked" /\ Phases' = [Phases EXCEPT ![r] = "open"]
        BY <2>1, <2>2, PhasesMove DEF PhaseOf
    <2>4. UNCHANGED <<Overdue, Shown, contested, answers, grant>>
        BY <1>2, PromiseFrame DEF Insert
    <2>5. Promise!Ask(r)
        BY <2>3, <2>4 DEF Promise!Ask
    <2> QED BY <2>5 DEF Promise!Next
<1>3. ASSUME NEW h \in Askers,
             \/ \E t \in Terms, via \in {"developer", "a2a"} : AskActive(h, t, via)
             \/ AskPending(h)
             \/ AskPendingA2A(h)
             \/ AskDenied(h)
             \/ Acquire(h)
             \/ Recheck(h)
             \/ AskFails(h)
      PROVE  UNCHANGED <<latest, due, decide, contested, answers, grant>>
    BY <1>3 DEF AskActive, AskPending, AskPendingA2A, AskDenied, Acquire, Recheck,
        AskFails, rows
<1>4. ASSUME NEW k \in Deciders, NEW verb \in Verbs, NEW r \in Requests, Open(k, verb, r)
      PROVE  Promise!Next
    <2>1. /\ latest[r] = "requested" /\ answers[r] = {}
          /\ UNCHANGED <<latest, due, answers, grant>>
        BY <1>4 DEF Open, Decidable, OpenUnanswered, rows
    <2>2. Phases[r] = "open"
        BY <2>1 DEF Phases, PhaseOf
    <2>3. /\ decide[k].verb = "idle"
          /\ decide'[k].verb = verb /\ decide'[k].request = r
          /\ \A j \in Deciders \ {k} : decide'[j] = decide[j]
        BY <1>4 DEF Open, Deciding, TypeOK
    <2>4. Shown' = {q \in Requests :
                      \E j \in Deciders : decide'[j].verb \in Verbs /\ decide'[j].request = q}
        BY DEF Shown
    <2>5. Shown' = Shown \cup {r}
        <3>1. "idle" \notin Verbs
            BY DEF Verbs
        <3> QED BY <2>3, <2>4, <3>1 DEF Shown
    <2>6. contested' = IF r \in Shown THEN contested \cup {r} ELSE contested
        BY <1>4 DEF Open, Shown
    <2>7. UNCHANGED <<Phases, Overdue>>
        BY <2>1, PromiseFrame
    <2>8. Promise!Show(r)
        BY <2>1, <2>2, <2>5, <2>6, <2>7 DEF Promise!Show
    <2> QED BY <2>8 DEF Promise!Next
<1>5. ASSUME NEW k \in Deciders, Approve(k) PROVE Promise!Next
    <2>1. \E r \in Requests : Promise!Decide(r, "approve")
        BY <1>5, AnswerDecides DEF Approve, Verbs, Actions
    <2> QED BY <2>1 DEF Promise!Next, Verbs
<1>6. ASSUME NEW k \in Deciders, Deny(k) PROVE Promise!Next
    <2>1. \E r \in Requests : Promise!Decide(r, "deny")
        BY <1>6, AnswerDecides DEF Deny, Verbs, Actions
    <2> QED BY <2>1 DEF Promise!Next, Verbs
<1>7. ASSUME NEW k \in Deciders, Cancel(k) PROVE Promise!Next
    <2>1. \E r \in Requests : Promise!Decide(r, "cancel")
        BY <1>7, AnswerDecides DEF Cancel, Verbs, Actions
    <2> QED BY <2>1 DEF Promise!Next, Verbs
<1>8. ASSUME NEW k \in Deciders, OpenRevoke(k) PROVE [Promise!Next]_(Promise!vars)
    <2>1. /\ decide[k].verb \notin Verbs /\ decide'[k].verb \notin Verbs
          /\ \A j \in Deciders \ {k} : decide'[j] = decide[j]
        BY <1>8 DEF OpenRevoke, Deciding, Verbs, TypeOK
    <2>2. Shown' = {q \in Requests :
                      \E j \in Deciders : decide'[j].verb \in Verbs /\ decide'[j].request = q}
        BY DEF Shown
    <2>3. Shown' = Shown
        BY <2>1, <2>2 DEF Shown
    <2>4. UNCHANGED <<Phases, Overdue, contested, answers, grant>>
        BY <1>8, PromiseFrame DEF OpenRevoke, rows
    <2> QED BY <2>3, <2>4 DEF Promise!vars
<1>9. ASSUME NEW k \in Deciders, Revoke(k) PROVE Promise!Next
    <2>1. /\ decide[k].verb = "revoke" /\ decide[k].request \in Requests
          /\ latest[decide[k].request] \notin {"none", "requested"}
        BY <1>9 DEF Revoke, KnownRequests, GrantsAnswered
    <2>2. /\ Phases' = [Phases EXCEPT ![decide[k].request] = PhaseOf("revoked")]
          /\ Phases[decide[k].request] = PhaseOf(latest[decide[k].request])
        BY <1>9, <2>1, PhasesMove DEF Revoke
    <2>3. Phases' = Phases
        BY <2>1, <2>2 DEF PhaseOf, Phases
    <2>4. Shown' = Shown
        BY <1>9, <2>1, ShownLeaves DEF Revoke, Verbs
    <2>5. grant' = NoRequest /\ UNCHANGED <<Overdue, contested, answers>>
        BY <1>9, PromiseFrame DEF Revoke
    <2>6. Promise!End
        BY <2>3, <2>4, <2>5 DEF Promise!End
    <2> QED BY <2>6 DEF Promise!Next
<1>10. ASSUME NEW k \in Deciders, DecideFails(k) PROVE [Promise!Next]_(Promise!vars)
    <2>1. UNCHANGED <<Phases, Overdue, contested, answers, grant>>
        BY <1>10, PromiseFrame DEF DecideFails, rows
    <2>2. DecideEnds(k) /\ decide[k].verb # "idle" /\ decide[k].request \in Requests
        BY <1>10 DEF DecideFails, KnownRequests
    <2>3. CASE Shown' = Shown
        BY <2>1, <2>3 DEF Promise!vars
    <2>4. CASE Shown' # Shown
        <3>1. Shown' = Shown \ {decide[k].request} /\ decide[k].verb \in Verbs
            BY <2>2, <2>4, ShownLeaves
        <3>2. decide[k].request \in Shown
            BY <2>2, <3>1 DEF Shown
        <3>3. Promise!Abandon(decide[k].request)
            BY <2>1, <3>1, <3>2 DEF Promise!Abandon
        <3> QED BY <2>2, <3>3 DEF Promise!Next
    <2> QED BY <2>3, <2>4
<1>11. ASSUME NEW p \in Workers, NEW r \in Requests, EmitTimeout(p, r)
      PROVE  Promise!Next
    <2>1. due[r] /\ latest' = [latest EXCEPT ![r] = "timeout"]
        BY <1>11 DEF EmitTimeout, GrantsAnswered
    <2>2. r \in Overdue
        BY <2>1 DEF Overdue
    <2>3. Phases' = [Phases EXCEPT ![r] = "settled"]
        <3>1. Phases' = [Phases EXCEPT ![r] = PhaseOf("timeout")]
            BY <2>1, PhasesMove
        <3>2. PhaseOf("timeout") = "settled"
            BY DEF PhaseOf
        <3> QED BY <3>1, <3>2
    <2>4. UNCHANGED <<Overdue, Shown, contested, answers, grant>>
        BY <1>11, PromiseFrame DEF EmitTimeout
    <2>5. Promise!Lapse(r)
        BY <2>2, <2>3, <2>4 DEF Promise!Lapse
    <2> QED BY <2>5 DEF Promise!Next
<1>12. ASSUME NEW p \in Workers,
             \/ ScanDue(p)
             \/ Restart(p)
             \/ \E r \in Requests : EmitFails(p, r)
      PROVE  UNCHANGED <<latest, due, decide, contested, answers, grant>>
    BY <1>12 DEF ScanDue, Restart, EmitFails, rows
<1>13. ASSUME NEW r \in Requests, PassDeadline(r) PROVE Promise!Next
    <2>1. latest[r] # "none" /\ due' = [due EXCEPT ![r] = TRUE]
        BY <1>13 DEF PassDeadline, BornFacts
    <2>2. Phases[r] # "unasked"
        BY <2>1 DEF Phases, PhaseOf
    <2>3. Overdue' = {q \in Requests : due'[q]}
        BY DEF Overdue
    <2>4. Overdue' = Overdue \cup {r}
        BY <2>1, <2>3 DEF Overdue, TypeOK
    <2>5. UNCHANGED <<Phases, Shown, contested, answers, grant>>
        BY <1>13, PromiseFrame DEF PassDeadline, rows
    <2>6. Promise!FallDue(r)
        BY <2>2, <2>4, <2>5 DEF Promise!FallDue
    <2> QED BY <2>6 DEF Promise!Next
<1>14. ASSUME GrantExpires PROVE Promise!Next
    <2>1. grant' = NoRequest /\ UNCHANGED <<Phases, Overdue, Shown, contested, answers>>
        BY <1>14, PromiseFrame DEF GrantExpires, rows
    <2>2. Promise!End
        BY <2>1 DEF Promise!End
    <2> QED BY <2>2 DEF Promise!Next
<1>15. ASSUME CooldownEnds \/ OthersAsk
      PROVE  UNCHANGED <<latest, due, decide, contested, answers, grant>>
    BY <1>15 DEF CooldownEnds, OthersAsk, rows
<1>16. CASE UNCHANGED vars
    BY <1>16, <1>1 DEF vars
<1> QED
    BY <1>1, <1>2, <1>3, <1>4, <1>5, <1>6, <1>7, <1>8, <1>9, <1>10, <1>11,
       <1>12, <1>13, <1>14, <1>15, <1>16
    DEF Next, AskStep, DecideStep, WorkerStep, TimeStep

(* ConsentRequests implements ConsentPromise: whatever handlers, workers   *)
(* and failures interleave on a lane, app and owner see a request settled  *)
(* once, lapsing only after its deadline and answered only by someone who  *)
(* was shown it open, a second time only in a dispute.                     *)
THEOREM Refinement == Spec => KeepsConsentPromise
<1>1. Init => Promise!Init
    BY PromiseInit
<1>2. SafetyInv /\ [Next]_vars => [Promise!Next]_(Promise!vars)
    BY PromiseStep
<1> QED BY <1>1, <1>2, SafetyAlways, PTL DEF Spec, KeepsConsentPromise, Promise!Spec
=============================================================================
