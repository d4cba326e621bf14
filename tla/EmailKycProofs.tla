--------------------------- MODULE EmailKycProofs ---------------------------
(* Proofs about EmailKyc, for any number of concurrent calls and any bound on  *)
(* the export revisions: the rows have their types, and up to the first lost    *)
(* update the counterparty gets one reply, a ready draft is bound to an export   *)
(* and the PKM writeback follows the reply.                                    *)
(*                                                                         *)
(* The argument is about what the handlers carry rather than about the row:     *)
(* while nobody is sending, the row that a handler with a fresh snapshot would  *)
(* leave is as good as the one that is there; while somebody is, every other    *)
(* write is one of the losses the properties exclude.                          *)
EXTENDS EmailKyc, TLAPS

-----------------------------------------------------------------------------
(* Rows and updates, column by column. *)

(* The columns of a workflow's row. *)
LEMMA ColumnsAre ==
    Columns = {"status", "refused", "draft", "send", "wb", "sel", "req", "bound", "barred"}
BY DEF Columns, NoRow

(* A function with the columns of a row, each of its type, is a row. *)
LEMMA RowFrom ==
    ASSUME NEW f, f = [c \in DOMAIN f |-> f[c]], DOMAIN f = Columns,
           f.status \in Statuses, f.refused \in BOOLEAN, f.draft \in Drafts,
           f.send \in {"not_started", "sending", "sent"},
           f.wb \in {"not_started", "pending", "succeeded"},
           f.sel \in BOOLEAN, f.req \in Requests \cup {"none"},
           f.bound \in 0..MaxRev, f.barred \in BOOLEAN
    PROVE  f \in Rows
BY ColumnsAre DEF Rows

(* With takes a column from the update if it is there. *)
LEMMA WithIs ==
    ASSUME NEW row, NEW u
    PROVE  /\ DOMAIN With(row, u) = DOMAIN row \cup DOMAIN u
           /\ With(row, u) = [c \in DOMAIN With(row, u) |-> With(row, u)[c]]
           /\ \A c \in DOMAIN u : With(row, u)[c] = u[c]
           /\ \A c \in DOMAIN row : c \notin DOMAIN u => With(row, u)[c] = row[c]
BY DEF With

(* The columns of an updated row, named. *)
LEMMA Written ==
    ASSUME NEW row \in Rows, NEW u
    PROVE  /\ With(row, u).status = IF "status" \in DOMAIN u THEN u.status ELSE row.status
           /\ With(row, u).draft = IF "draft" \in DOMAIN u THEN u.draft ELSE row.draft
           /\ With(row, u).send = IF "send" \in DOMAIN u THEN u.send ELSE row.send
           /\ With(row, u).wb = IF "wb" \in DOMAIN u THEN u.wb ELSE row.wb
           /\ With(row, u).req = IF "req" \in DOMAIN u THEN u.req ELSE row.req
           /\ With(row, u).bound = IF "bound" \in DOMAIN u THEN u.bound ELSE row.bound
BY DEF With, Rows

(* An update of the right type leaves a row. *)
LEMMA RowWritten ==
    ASSUME NEW row \in Rows, NEW u, Typed(u)
    PROVE  With(row, u) \in Rows
BY DEF Typed, Rows, Columns, NoRow, With

(* The metadata of a row or a snapshot. *)
LEMMA MetaIs ==
    ASSUME NEW w
    PROVE  /\ DOMAIN Meta(w) = {"sel", "req", "bound", "barred"}
           /\ Meta(w).sel = w.sel /\ Meta(w).req = w.req
           /\ Meta(w).bound = w.bound /\ Meta(w).barred = w.barred
BY DEF Meta

(* What an update that carries the metadata of w writes. *)
LEMMA Carried ==
    ASSUME NEW w, NEW x, NEW u, u = With(Meta(w), x)
    PROVE  /\ DOMAIN u = {"sel", "req", "bound", "barred"} \cup DOMAIN x
           /\ \A c \in DOMAIN x : u[c] = x[c]
           /\ "req" \notin DOMAIN x => u.req = w.req
           /\ "bound" \notin DOMAIN x => u.bound = w.bound
           /\ "sel" \notin DOMAIN x => u.sel = w.sel
           /\ "barred" \notin DOMAIN x => u.barred = w.barred
<1>1. DOMAIN u = {"sel", "req", "bound", "barred"} \cup DOMAIN x
  BY DEF With, Meta
<1>2. \A c \in DOMAIN x : u[c] = x[c]
  BY DEF With, Meta
<1>3. /\ "req" \notin DOMAIN x => u.req = w.req
      /\ "bound" \notin DOMAIN x => u.bound = w.bound
      /\ "sel" \notin DOMAIN x => u.sel = w.sel
      /\ "barred" \notin DOMAIN x => u.barred = w.barred
  BY DEF With, Meta
<1> QED
  BY <1>1, <1>2, <1>3

(* It is of the right type if x is and w is a snapshot or a row. *)
LEMMA CarriedTyped ==
    ASSUME NEW w, w \in Snapshots \/ w \in Rows, NEW x, Typed(x)
    PROVE  Typed(With(Meta(w), x))
<1> DEFINE u == With(Meta(w), x)
           f == With(NoRow, u)
<1>1. /\ w.sel \in BOOLEAN /\ w.req \in Requests \cup {"none"}
      /\ w.bound \in 0..MaxRev /\ w.barred \in BOOLEAN
  BY DEF Snapshots, Rows
<1>2. /\ DOMAIN x \subseteq Columns /\ With(NoRow, x) \in Rows
  BY DEF Typed
<1>3. /\ DOMAIN u = {"sel", "req", "bound", "barred"} \cup DOMAIN x
      /\ \A c \in DOMAIN x : u[c] = x[c]
      /\ "req" \notin DOMAIN x => u.req = w.req
      /\ "bound" \notin DOMAIN x => u.bound = w.bound
      /\ "sel" \notin DOMAIN x => u.sel = w.sel
      /\ "barred" \notin DOMAIN x => u.barred = w.barred
  BY Carried
<1>4. DOMAIN u \subseteq Columns
  BY <1>2, <1>3, ColumnsAre
<1> HIDE DEF u
<1>5. /\ f = [c \in DOMAIN f |-> f[c]] /\ DOMAIN f = Columns
  BY <1>4 DEF Columns, With
<1>6. /\ f.status \in Statuses /\ f.refused \in BOOLEAN /\ f.draft \in Drafts
      /\ f.send \in {"not_started", "sending", "sent"}
      /\ f.wb \in {"not_started", "pending", "succeeded"}
  BY <1>2, <1>3 DEF With, NoRow, Rows
<1>7. /\ f.sel \in BOOLEAN /\ f.req \in Requests \cup {"none"}
      /\ f.bound \in 0..MaxRev /\ f.barred \in BOOLEAN
  BY <1>1, <1>2, <1>3 DEF With, NoRow, Rows
<1>8. f \in Rows
  BY <1>5, <1>6, <1>7, RowFrom
<1> QED
  BY <1>4, <1>8 DEF Typed, u

(* Columns of the right types are an update of the right type. *)
LEMMA TypedFrom ==
    ASSUME NEW x, DOMAIN x \subseteq Columns,
           "status" \in DOMAIN x => x.status \in Statuses,
           "refused" \in DOMAIN x => x.refused \in BOOLEAN,
           "draft" \in DOMAIN x => x.draft \in Drafts,
           "send" \in DOMAIN x => x.send \in {"not_started", "sending", "sent"},
           "wb" \in DOMAIN x => x.wb \in {"not_started", "pending", "succeeded"},
           "sel" \in DOMAIN x => x.sel \in BOOLEAN,
           "req" \in DOMAIN x => x.req \in Requests \cup {"none"},
           "bound" \in DOMAIN x => x.bound \in 0..MaxRev,
           "barred" \in DOMAIN x => x.barred \in BOOLEAN
    PROVE  Typed(x)
<1> DEFINE f == With(NoRow, x)
<1>1. f = [c \in DOMAIN f |-> f[c]] /\ DOMAIN f = Columns
  BY DEF Columns, With
<1>2. 0 \in 0..MaxRev
  BY RevAssumption
<1>3. /\ f.status \in Statuses /\ f.refused \in BOOLEAN /\ f.draft \in Drafts
      /\ f.send \in {"not_started", "sending", "sent"}
      /\ f.wb \in {"not_started", "pending", "succeeded"}
  <2>1. f.status \in Statuses
    BY DEF With, NoRow, Statuses
  <2>2. f.refused \in BOOLEAN
    BY DEF With, NoRow
  <2>3. f.draft \in Drafts
    BY DEF With, NoRow, Drafts
  <2>4. f.send \in {"not_started", "sending", "sent"}
    BY DEF With, NoRow
  <2>5. f.wb \in {"not_started", "pending", "succeeded"}
    BY DEF With, NoRow
  <2> QED
    BY <2>1, <2>2, <2>3, <2>4, <2>5
<1>4. /\ f.sel \in BOOLEAN /\ f.req \in Requests \cup {"none"}
      /\ f.bound \in 0..MaxRev /\ f.barred \in BOOLEAN
  BY <1>2 DEF With, NoRow
<1>5. f \in Rows
  BY <1>1, <1>3, <1>4, RowFrom
<1> QED
  BY <1>5 DEF Typed

(* The metadata alone, and no column at all, are updates. *)
LEMMA MetaTyped ==
    ASSUME NEW w, w \in Snapshots \/ w \in Rows
    PROVE  Typed(Meta(w))
<1>1. /\ w.sel \in BOOLEAN /\ w.req \in Requests \cup {"none"}
      /\ w.bound \in 0..MaxRev /\ w.barred \in BOOLEAN
  BY DEF Snapshots, Rows
<1> QED
  BY <1>1, MetaIs, ColumnsAre, TypedFrom

LEMMA NothingTyped == Typed(NoUpdate)
<1>1. DOMAIN NoUpdate = {}
  BY DEF NoUpdate
<1> QED
  BY <1>1, TypedFrom

(* What a handler reads is a snapshot, with the metadata of the row. *)
LEMMA SnapshotFits ==
    ASSUME NEW row \in Rows, NEW pc
    PROVE  /\ Snapshot(pc, row) \in Snapshots
           /\ Meta(Snapshot(pc, row)) = Meta(row)
           /\ pc \in {"redeliver", "refresh", "look", "ask"} =>
                Snapshot(pc, row).status = row.status
<1> DEFINE s == Snapshot(pc, row)
<1>1. CASE pc \in {"redeliver", "refresh", "look", "ask"}
  <2>1. s = With(Meta(row), [status |-> row.status, draft |-> row.draft])
    BY <1>1 DEF Snapshot
  <2>2. /\ s = [c \in DOMAIN s |-> s[c]]
        /\ DOMAIN s = {"status", "draft", "sel", "req", "bound", "barred"}
        /\ s.status = row.status /\ s.draft = row.draft /\ s.sel = row.sel
        /\ s.req = row.req /\ s.bound = row.bound /\ s.barred = row.barred
    BY <2>1 DEF With, Meta
  <2> QED
    BY <1>1, <2>2 DEF Rows, Snapshots, Meta
<1>2. CASE pc \notin {"redeliver", "refresh", "look", "ask"}
  <2>1. s = With(Unread, Meta(row))
    BY <1>2 DEF Snapshot
  <2>2. /\ s = [c \in DOMAIN s |-> s[c]]
        /\ DOMAIN s = {"status", "draft", "sel", "req", "bound", "barred"}
        /\ s.status = "none" /\ s.draft = "not_ready" /\ s.sel = row.sel
        /\ s.req = row.req /\ s.bound = row.bound /\ s.barred = row.barred
    BY <2>1 DEF With, Meta, Unread
  <2> QED
    BY <1>2, <2>2 DEF Rows, Snapshots, Meta, Statuses, Drafts
<1> QED
  BY <1>1, <1>2

LEMMA UnreadFits == Unread \in Snapshots
BY RevAssumption DEF Unread, Snapshots, Statuses, Drafts

-----------------------------------------------------------------------------
(* Handlers. *)

RunTyped(x) == x \in RunRow(x.u) /\ Typed(x.u)

(* An idle handler carries nothing. *)
LEMMA IdleFits ==
    /\ RunTyped(Idle) /\ Idle.pc = "idle" /\ Idle.fresh = TRUE
    /\ \A row : MovesOn(Idle, row)
    /\ \A row, led, n : Careful(Idle, row, led, n)
<1>1. RunTyped(Idle)
  BY NothingTyped, UnreadFits DEF RunTyped, Idle, RunRow, Pcs, Continuations
<1>2. Idle.pc = "idle" /\ Idle.fresh = TRUE
  BY DEF Idle
<1>3. \A row : MovesOn(Idle, row)
  BY <1>2 DEF MovesOn
<1>4. \A row, led, n : Careful(Idle, row, led, n)
  BY <1>2 DEF Careful
<1> QED
  BY <1>1, <1>2, <1>3, <1>4

(* A handler that has just read the row. *)
Reader(pc, row) == [Idle EXCEPT !.pc = pc, !.w = Snapshot(pc, row)]

LEMMA ReadFits ==
    ASSUME NEW row \in Rows, NEW pc \in Pcs
    PROVE  LET x == Reader(pc, row)
           IN /\ RunTyped(x) /\ x.pc = pc /\ x.fresh = TRUE /\ x.w = Snapshot(pc, row)
              /\ x.u = NoUpdate /\ x.then = "idle"
<1>1. Snapshot(pc, row) \in Snapshots
  BY SnapshotFits
<1> QED
  BY <1>1, NothingTyped DEF Reader, RunTyped, Idle, RunRow, Pcs, Continuations

(* A handler that is about to write a row it has just read. *)
Writer(u, then) == [Idle EXCEPT !.pc = "write", !.u = u, !.then = then]

LEMMA EditFits ==
    ASSUME NEW u, Typed(u), NEW then \in Continuations
    PROVE  LET x == Writer(u, then)
           IN /\ RunTyped(x) /\ x.pc = "write" /\ x.fresh = TRUE /\ x.u = u
              /\ x.then = then
BY UnreadFits DEF Writer, RunTyped, Idle, RunRow, Pcs, Continuations

(* A handler that goes on, or plans an update, from what it has read. *)
Goes(y, pc) == [y EXCEPT !.pc = pc]

LEMMA GotoFits ==
    ASSUME NEW y, RunTyped(y), NEW pc \in Pcs
    PROVE  LET x == Goes(y, pc)
           IN /\ RunTyped(x) /\ x.pc = pc /\ x.fresh = y.fresh /\ x.w = y.w /\ x.u = y.u
              /\ x.then = y.then
BY DEF Goes, RunTyped, RunRow

Planner(y, u, then) == [y EXCEPT !.pc = "write", !.w = Unread, !.u = u, !.then = then]

LEMMA PlanFits ==
    ASSUME NEW y, RunTyped(y), NEW u, Typed(u), NEW then \in Continuations
    PROVE  LET x == Planner(y, u, then)
           IN /\ RunTyped(x) /\ x.pc = "write" /\ x.fresh = y.fresh /\ x.u = u
              /\ x.then = then
BY UnreadFits DEF Planner, RunTyped, RunRow, Pcs

(* A handler whose snapshot has become stale. *)
Stale(y) == [y EXCEPT !.fresh = FALSE]

LEMMA StaleFits ==
    ASSUME NEW y, RunTyped(y)
    PROVE  LET x == Stale(y)
           IN /\ RunTyped(x) /\ x.pc = y.pc /\ x.fresh = FALSE /\ x.w = y.w /\ x.u = y.u
              /\ x.then = y.then
BY DEF Stale, RunTyped, RunRow

-----------------------------------------------------------------------------
(* The ledger moves on. *)

LedgerGrows ==
  /\ ledger' \in [Requests -> LedgerRow]
  /\ \A r \in Requests : ledger'[r].action = "GRANTED" => ledger'[r].rev > 0
  /\ \A r \in Requests : ledger'[r].rev >= ledger[r].rev

(* Revisions only grow, so what was bound to an export stays bound to one. *)
LEMMA BoundStays ==
    ASSUME TypeOK, LedgerGrows, NEW row \in Rows, BoundRow(row, ledger)
    PROVE  BoundRow(row, ledger')
<1>1. SUFFICES ASSUME Ready(row)
               PROVE  row.req # "none" /\ row.bound \in 1..ledger'[row.req].rev
  BY DEF BoundRow
<1>2. row.req # "none" /\ row.bound \in 1..ledger[row.req].rev
  BY <1>1 DEF BoundRow
<1>3. row.req \in Requests
  BY <1>2 DEF Rows
<1>4. ledger[row.req].rev \in Nat /\ ledger'[row.req].rev \in Nat
  BY <1>3, RevAssumption DEF TypeOK, LedgerGrows, LedgerRow
<1>5. ledger'[row.req].rev >= ledger[row.req].rev
  BY <1>3 DEF LedgerGrows
<1>6. row.bound \in 1..ledger'[row.req].rev
  BY <1>2, <1>4, <1>5
<1> QED
  BY <1>2, <1>6

LEMMA CarefulStays ==
    ASSUME TypeOK, LedgerGrows, NEW row \in Rows, NEW x, RunTyped(x), NEW n,
           Careful(x, row, ledger, n)
    PROVE  Careful(x, row, ledger', n)
<1>1. CASE x.pc = "write"
  <2>1. With(row, x.u) \in Rows
    BY RowWritten DEF RunTyped
  <2>2. GoodWrite(x, row, ledger, n)
    BY <1>1 DEF Careful
  <2>3. BoundRow(With(row, x.u), ledger')
    BY <2>1, <2>2, BoundStays DEF GoodWrite
  <2>4. GoodWrite(x, row, ledger', n)
    BY <2>2, <2>3 DEF GoodWrite
  <2> QED
    BY <1>1, <2>4 DEF Careful
<1>2. CASE x.pc # "write"
  BY <1>2 DEF Careful
<1> QED
  BY <1>1, <1>2

-----------------------------------------------------------------------------
(* Steps in which one handler goes on and the row stays as it is. *)

(* Such a step keeps the invariant if the new state of the handler fits the row. *)
LEMMA Turn ==
    ASSUME SafetyInv, NEW h \in Handlers, NEW x, run' = [run EXCEPT ![h] = x],
           UNCHANGED <<wf, mailed, blurred>>, LedgerGrows,
           ~Mailing(h), x.pc \notin Sending, RunTyped(x), MovesOn(x, wf),
           ~blurred /\ Undisturbed /\ Quiet /\ x.fresh => Careful(x, wf, ledger', mailed)
    PROVE  SafetyInv'
<1>1. /\ TypeOK /\ wf \in Rows /\ run = [g \in Handlers |-> run[g]]
      /\ \A g \in Handlers : RunTyped(run[g])
  BY DEF SafetyInv, TypeOK, RunTyped
<1>2. /\ run' = [g \in Handlers |-> run'[g]] /\ run'[h] = x
      /\ \A g \in Handlers : g # h => run'[g] = run[g]
  BY <1>1
<1>3. \A g \in Handlers : RunTyped(run'[g])
  BY <1>1, <1>2
<1>4. TypeOK'
  BY <1>1, <1>2, <1>3 DEF TypeOK, RunTyped, LedgerGrows
<1>5. GrantsHaveExports'
  BY DEF LedgerGrows, GrantsHaveExports
<1>6. RowsMoveOn'
  BY <1>2 DEF SafetyInv, RowsMoveOn
<1>7. ASSUME ~blurred' PROVE Undisturbed'
  <2>1. Undisturbed
    BY <1>7 DEF SafetyInv
  <2>2. \A g \in Handlers : Mailing(g)' <=> Mailing(g)
    BY <1>2 DEF Mailing
  <2>3. Quiet' <=> Quiet
    BY <2>2 DEF Quiet
  <2>4. BoundRow(wf', ledger')
    BY <1>1, <2>1, BoundStays DEF Undisturbed
  <2>5. ASSUME NEW g \in Handlers, Mailing(g)' PROVE Sender(g)'
    <3>1. Mailing(g) /\ g # h /\ run'[g] = run[g]
      BY <1>2, <2>2, <2>5
    <3>2. Sender(g)
      BY <2>1, <3>1 DEF Undisturbed
    <3> QED
      BY <2>2, <3>1, <3>2 DEF Sender
  <2>6. ASSUME Quiet, NEW g \in Handlers, run'[g].fresh
        PROVE  Careful(run'[g], wf', ledger', mailed')
    <3>1. CASE g = h
      BY <1>2, <1>7, <2>1, <2>6, <3>1
    <3>2. CASE g # h
      <4>1. Careful(run[g], wf, ledger, mailed)
        BY <1>2, <2>1, <2>6, <3>2 DEF Undisturbed
      <4>2. Careful(run[g], wf, ledger', mailed)
        BY <1>1, <4>1, CarefulStays
      <4> QED
        BY <1>2, <3>2, <4>2
    <3> QED
      BY <3>1, <3>2
  <2>7. ASSUME Quiet PROVE ToldRow(wf', mailed') /\ WritebackRow(wf', mailed')
    BY <2>1, <2>7 DEF Undisturbed
  <2> QED
    BY <2>3, <2>4, <2>5, <2>6, <2>7 DEF Undisturbed
<1> QED
  BY <1>4, <1>5, <1>6, <1>7 DEF SafetyInv

(* Most steps leave the ledger alone. *)
LEMMA LedgerStays ==
    ASSUME SafetyInv, UNCHANGED ledger
    PROVE  LedgerGrows
<1>1. \A r \in Requests : ledger[r].rev \in Nat
  BY RevAssumption DEF SafetyInv, TypeOK, LedgerRow
<1> QED
  BY <1>1 DEF SafetyInv, TypeOK, GrantsHaveExports, LedgerGrows

(* A handler stops. *)
LEMMA StopStep ==
    ASSUME SafetyInv, NEW h \in Handlers, ~Mailing(h), Goto(h, "idle"),
           UNCHANGED <<wf, ledger, mailed, blurred>>
    PROVE  SafetyInv'
<1>1. run' = [run EXCEPT ![h] = Idle]
  BY DEF Goto
<1>2. Idle.pc \notin Sending
  BY IdleFits DEF Sending
<1> QED
  BY <1>1, <1>2, IdleFits, LedgerStays, Turn

(* What is known of a row nobody is disturbing, before the reply is out. *)
LEMMA NotTold ==
    ASSUME Undisturbed, Quiet, wf.status # "waiting_on_counterparty"
    PROVE  mailed = 0
BY DEF Undisturbed, ToldRow

(* A handler reads the row. *)
LEMMA ReadStep ==
    ASSUME SafetyInv, NEW h \in Handlers, run[h].pc \in {"idle", "select"},
           NEW pc \in {"redeliver", "recover", "refresh", "look", "selected", "send"},
           Read(h, pc), wf.status # "waiting_on_counterparty",
           pc \in {"redeliver", "refresh"} => wf.status \in Open
    PROVE  SafetyInv'
<1> DEFINE x == Reader(pc, wf)
<1>1. /\ run' = [run EXCEPT ![h] = x] /\ wf.status # "none"
      /\ UNCHANGED <<wf, ledger, mailed, blurred>>
  BY DEF Read, Reader
<1>2. wf \in Rows /\ pc \in Pcs
  BY DEF SafetyInv, TypeOK, Pcs, Continuations
<1>3. /\ RunTyped(x) /\ x.pc = pc /\ x.fresh = TRUE /\ x.w = Snapshot(pc, wf)
      /\ x.u = NoUpdate /\ x.then = "idle"
  BY <1>2, ReadFits
<1> HIDE DEF x
<1>4. /\ Meta(x.w) = Meta(wf)
      /\ pc \in {"redeliver", "refresh", "look", "ask"} => x.w.status = wf.status
  BY <1>2, <1>3, SnapshotFits
<1>5. MovesOn(x, wf)
  BY <1>1, <1>3, <1>4 DEF MovesOn
<1>6. ASSUME Undisturbed, Quiet PROVE Careful(x, wf, ledger', mailed)
  <2>1. mailed = 0
    BY <1>6, NotTold
  <2> QED
    BY <1>3, <1>4, <2>1 DEF Careful
<1>7. ~Mailing(h) /\ x.pc \notin Sending
  BY <1>3 DEF Mailing, Sending
<1> QED
  BY <1>1, <1>3, <1>5, <1>6, <1>7, LedgerStays, Turn

(* A handler goes on from what it has read. *)
LEMMA GotoStep ==
    ASSUME SafetyInv, NEW h \in Handlers,
           run[h].pc \in {"redeliver", "refresh"}, NEW pc \in {"ensure", "look"}, Goto(h, pc),
           UNCHANGED <<wf, mailed, blurred>>, LedgerGrows
    PROVE  SafetyInv'
<1> DEFINE x == Goes(run[h], pc)
<1>1. run' = [run EXCEPT ![h] = x]
  BY DEF Goto, Goes
<1>2. RunTyped(run[h]) /\ pc \in Pcs
  BY DEF SafetyInv, TypeOK, RunTyped, Pcs, Continuations
<1>3. /\ RunTyped(x) /\ x.pc = pc /\ x.fresh = run[h].fresh /\ x.w = run[h].w
      /\ x.u = run[h].u /\ x.then = run[h].then
  BY <1>2, GotoFits
<1> HIDE DEF x
<1>4. MovesOn(run[h], wf)
  BY DEF SafetyInv, RowsMoveOn
<1>5. MovesOn(x, wf)
  BY <1>3, <1>4 DEF MovesOn
<1>6. ASSUME Undisturbed, Quiet, x.fresh PROVE Careful(x, wf, ledger', mailed)
  <2>1. Careful(run[h], wf, ledger, mailed)
    BY <1>3, <1>6 DEF Undisturbed
  <2> QED
    BY <1>3, <2>1 DEF Careful
<1>7. ~Mailing(h) /\ x.pc \notin Sending
  BY <1>3 DEF Mailing, Sending
<1> QED
  BY <1>1, <1>3, <1>5, <1>6, <1>7, Turn

(* A handler plans an update from a row it has just read. *)
LEMMA EditStep ==
    ASSUME SafetyInv, NEW h \in Handlers, run[h].pc = "idle", wf.status # "none",
           NEW u, Typed(u), "status" \in DOMAIN u => u.status # "none",
           NEW then \in {"idle", "select"},
           run' = [run EXCEPT ![h] = Writer(u, then)],
           UNCHANGED <<wf, ledger, mailed, blurred>>,
           Undisturbed /\ Quiet =>
             /\ BoundRow(With(wf, u), ledger)
             /\ ToldRow(With(wf, u), mailed)
             /\ WritebackRow(With(wf, u), mailed)
             /\ then # "idle" => mailed = 0
    PROVE  SafetyInv'
<1> DEFINE x == Writer(u, then)
<1>1. then \in Continuations
  BY DEF Continuations
<1>2. /\ RunTyped(x) /\ x.pc = "write" /\ x.fresh = TRUE /\ x.u = u /\ x.then = then
  <2>1. Typed(u)
    OBVIOUS
  <2> QED
    BY ONLY <1>1, <2>1, EditFits
<1>3. run' = [run EXCEPT ![h] = x]
  OBVIOUS
<1> HIDE DEF x
<1>4. MovesOn(x, wf)
  BY <1>2 DEF MovesOn
<1>5. ASSUME Undisturbed, Quiet PROVE Careful(x, wf, ledger', mailed)
  <2> DEFINE result == With(wf, x.u)
  <2>1. With(wf, u) = result
    BY <1>2
  <2>2. BoundRow(result, ledger) /\ ToldRow(result, mailed) /\ WritebackRow(result, mailed)
    BY <1>5, <2>1
  <2>3. (x.then # "idle" => mailed = 0) /\ x.then # "mail"
    BY <1>2, <1>5
  <2>4. GoodWrite(x, wf, ledger, mailed)
    BY <2>2, <2>3 DEF GoodWrite
  <2> QED
    BY <1>2, <2>4 DEF Careful
<1>6. ~Mailing(h) /\ x.pc \notin Sending
  BY <1>2 DEF Mailing, Sending
<1> QED
  BY <1>2, <1>3, <1>4, <1>5, <1>6, LedgerStays, Turn

(* An update that moves the row on without telling the counterparty anything, *)
(* and that makes a draft ready only together with the export it is bound to.  *)
MovesRow(u, led) ==
  /\ Typed(u) /\ "status" \in DOMAIN u /\ "wb" \notin DOMAIN u
  /\ u.status \notin {"none", "waiting_on_counterparty"}
  /\ u.status = "waiting_on_user" =>
       /\ "req" \in DOMAIN u /\ "bound" \in DOMAIN u
       /\ u.req \in Requests /\ u.bound \in 1..led[u.req].rev

(* A handler plans such an update from what it has read. *)
LEMMA PlanStep ==
    ASSUME SafetyInv, NEW h \in Handlers, ~Mailing(h),
           run[h].pc \notin {"idle", "intake", "write"},
           NEW u, MovesRow(u, ledger'), NEW then \in Continuations \ {"mail"},
           then = "ask" => u.status \in Open,
           Plan(h, u, then), UNCHANGED <<wf, mailed, blurred>>, LedgerGrows
    PROVE  SafetyInv'
<1> DEFINE x == Planner(run[h], u, then)
<1>1. run' = [run EXCEPT ![h] = x]
  BY DEF Plan, Planner
<1>2. RunTyped(run[h]) /\ Typed(u) /\ wf \in Rows
  BY DEF SafetyInv, TypeOK, RunTyped, MovesRow
<1>3. /\ RunTyped(x) /\ x.pc = "write" /\ x.fresh = run[h].fresh /\ x.u = u
      /\ x.then = then
  BY <1>2, PlanFits
<1> HIDE DEF x
<1>4. MovesOn(run[h], wf)
  BY DEF SafetyInv, RowsMoveOn
<1>5. MovesOn(x, wf)
  BY <1>3, <1>4 DEF MovesOn, MovesRow
<1>6. ASSUME Undisturbed, Quiet, x.fresh PROVE Careful(x, wf, ledger', mailed)
  <2> DEFINE result == With(wf, u)
  <2>1. mailed = 0
    BY <1>3, <1>6 DEF Undisturbed, Careful
  <2>2. /\ result.status = u.status
        /\ result.wb = wf.wb
        /\ "req" \in DOMAIN u => result.req = u.req
        /\ "bound" \in DOMAIN u => result.bound = u.bound
    BY <1>2, Written DEF MovesRow
  <2> HIDE DEF result
  <2>3. ToldRow(result, mailed)
    BY <2>1, <2>2 DEF ToldRow, MovesRow
  <2>4. WritebackRow(result, mailed)
    BY <1>6, <2>2 DEF Undisturbed, WritebackRow
  <2>5. BoundRow(result, ledger')
    <3>1. SUFFICES ASSUME u.status = "waiting_on_user"
                   PROVE  result.req # "none" /\ result.bound \in 1..ledger'[result.req].rev
      BY <2>2 DEF BoundRow, Ready
    <3>2. /\ u.req \in Requests /\ u.bound \in 1..ledger'[u.req].rev
          /\ result.req = u.req /\ result.bound = u.bound
      BY <2>2, <3>1 DEF MovesRow
    <3> QED
      BY <3>2 DEF Requests
  <2>6. GoodWrite(x, wf, ledger', mailed)
    BY <1>3, <2>1, <2>3, <2>4, <2>5 DEF GoodWrite, result
  <2> QED
    BY <1>3, <2>6 DEF Careful
<1>7. x.pc \notin Sending
  BY <1>3 DEF Sending
<1> QED
  BY <1>1, <1>3, <1>5, <1>6, <1>7, Turn

-----------------------------------------------------------------------------
(* The updates. *)

(* An update keeps moving the row on when it also carries the metadata. *)
LEMMA MovesCarried ==
    ASSUME NEW w \in Snapshots, NEW led, NEW x, MovesRow(x, led)
    PROVE  /\ MovesRow(With(Meta(w), x), led)
           /\ With(Meta(w), x).status = x.status
<1> DEFINE u == With(Meta(w), x)
<1>1. Typed(u)
  BY CarriedTyped DEF MovesRow
<1>2. /\ DOMAIN u = {"sel", "req", "bound", "barred"} \cup DOMAIN x
      /\ \A c \in DOMAIN x : u[c] = x[c]
  BY DEF With, Meta
<1>3. /\ "status" \in DOMAIN x /\ u.status = x.status
      /\ "req" \in DOMAIN x => u.req = x.req
      /\ "bound" \in DOMAIN x => u.bound = x.bound
  BY <1>2 DEF MovesRow
<1> HIDE DEF u
<1>4. MovesRow(u, led)
  BY <1>1, <1>2, <1>3 DEF MovesRow
<1> QED
  BY <1>3, <1>4 DEF u

(* The row is ready on the strength of a grant, and bound to its export. *)
LEMMA ReadyFits ==
    ASSUME TypeOK, GrantsHaveExports, NEW w \in Snapshots,
           NEW r \in Requests, ledger[r].action = "GRANTED"
    PROVE  MovesRow(ReadyUpdate(w, r), ledger)
<1> DEFINE n == ledger[r].rev
           x == [status |-> "waiting_on_user", draft |-> "ready", refused |-> FALSE,
                 sel |-> TRUE, req |-> r, bound |-> n]
<1>1. n \in 0..MaxRev /\ n > 0
  BY DEF TypeOK, GrantsHaveExports, LedgerRow
<1>2. n \in 1..n
  BY <1>1, RevAssumption
<1> HIDE DEF n
<1>3. Typed(x)
  BY <1>1, ColumnsAre, TypedFrom DEF Statuses, Drafts
<1>4. /\ "status" \in DOMAIN x /\ "wb" \notin DOMAIN x
      /\ "req" \in DOMAIN x /\ "bound" \in DOMAIN x
      /\ x.status = "waiting_on_user" /\ x.req = r /\ x.bound = n
  OBVIOUS
<1>5. ReadyUpdate(w, r) = With(Meta(w), x)
  BY DEF ReadyUpdate, n
<1>6. n = ledger[r].rev
  BY DEF n
<1> HIDE DEF x
<1>7. MovesRow(x, ledger)
  BY <1>2, <1>3, <1>4, <1>6 DEF MovesRow
<1> QED
  BY <1>5, <1>7, MovesCarried

(* The owner is asked to confirm, or to have a key registered. *)
LEMMA OpenFits ==
    ASSUME NEW w \in Snapshots, NEW led, NEW status \in Open \cup {"blocked"}
    PROVE  LET x == [status |-> status, refused |-> FALSE]
               y == [status |-> status, refused |-> FALSE, sel |-> TRUE]
               z == [status |-> status, req |-> "own"]
           IN /\ MovesRow(With(Meta(w), x), led) /\ With(Meta(w), x).status = status
              /\ MovesRow(With(Meta(w), y), led) /\ With(Meta(w), y).status = status
              /\ MovesRow(With(Meta(w), z), led) /\ With(Meta(w), z).status = status
<1> DEFINE x == [status |-> status, refused |-> FALSE]
           y == [status |-> status, refused |-> FALSE, sel |-> TRUE]
           z == [status |-> status, req |-> "own"]
<1>1. status \in Statuses \ {"none", "waiting_on_counterparty", "waiting_on_user"}
  BY DEF Open, Statuses
<1>2. Typed(x) /\ Typed(y) /\ Typed(z)
  <2>1. Typed(x)
    BY <1>1, ColumnsAre, TypedFrom
  <2>2. Typed(y)
    BY <1>1, ColumnsAre, TypedFrom
  <2>3. Typed(z)
    BY <1>1, ColumnsAre, TypedFrom DEF Requests
  <2> QED
    BY <2>1, <2>2, <2>3
<1>3. /\ MovesRow(x, led) /\ x.status = status
      /\ MovesRow(y, led) /\ y.status = status
      /\ MovesRow(z, led) /\ z.status = status
  BY <1>1, <1>2 DEF MovesRow
<1> HIDE DEF x, y, z
<1>4. /\ MovesRow(With(Meta(w), x), led) /\ With(Meta(w), x).status = status
      /\ MovesRow(With(Meta(w), y), led) /\ With(Meta(w), y).status = status
      /\ MovesRow(With(Meta(w), z), led) /\ With(Meta(w), z).status = status
  BY <1>3, MovesCarried
<1> QED
  BY <1>4 DEF x, y, z

(* The selection starts over, the export is gone, the owner has refused. *)
LEMMA BackFits ==
    ASSUME NEW w \in Snapshots, NEW led
    PROVE  LET x == [status |-> "needs_scope", draft |-> "not_ready",
                     send |-> "not_started", refused |-> FALSE,
                     sel |-> TRUE, req |-> "none", bound |-> 0]
           IN /\ MovesRow(With(Meta(w), x), led) /\ With(Meta(w), x).status = "needs_scope"
              /\ MovesRow(PendingUpdate(w), led)
              /\ MovesRow(RefusedUpdate(w), led)
<1> DEFINE x == [status |-> "needs_scope", draft |-> "not_ready",
                 send |-> "not_started", refused |-> FALSE,
                 sel |-> TRUE, req |-> "none", bound |-> 0]
           y == [status |-> "needs_scope", draft |-> "not_ready", refused |-> FALSE,
                 bound |-> 0]
           z == [status |-> "blocked", draft |-> "not_ready", refused |-> TRUE,
                 bound |-> 0, barred |-> TRUE]
<1>1. 0 \in 0..MaxRev
  BY RevAssumption
<1>2. Typed(x)
  BY <1>1, ColumnsAre, TypedFrom DEF Statuses, Drafts
<1>3. Typed(y)
  BY <1>1, ColumnsAre, TypedFrom DEF Statuses, Drafts
<1>4. Typed(z)
  BY <1>1, ColumnsAre, TypedFrom DEF Statuses, Drafts
<1>5. MovesRow(x, led) /\ x.status = "needs_scope" /\ MovesRow(y, led) /\ MovesRow(z, led)
  BY <1>2, <1>3, <1>4 DEF MovesRow
<1>6. PendingUpdate(w) = With(Meta(w), y) /\ RefusedUpdate(w) = With(Meta(w), z)
  BY DEF PendingUpdate, RefusedUpdate
<1> HIDE DEF x, y, z
<1>7. /\ MovesRow(With(Meta(w), x), led) /\ With(Meta(w), x).status = "needs_scope"
      /\ MovesRow(PendingUpdate(w), led) /\ MovesRow(RefusedUpdate(w), led)
  BY <1>5, <1>6, MovesCarried
<1> QED
  BY <1>7 DEF x

-----------------------------------------------------------------------------
(* The operations, up to the writing. *)

(* What a handler carries. *)
LEMMA Carries ==
    ASSUME SafetyInv, NEW h \in Handlers
    PROVE  /\ TypeOK /\ GrantsHaveExports /\ wf \in Rows
           /\ run = [g \in Handlers |-> run[g]]
           /\ RunTyped(run[h]) /\ run[h].w \in Snapshots /\ Typed(run[h].u)
           /\ run[h].then \in Continuations /\ run[h].pc \in Pcs /\ run[h].fresh \in BOOLEAN
           /\ MovesOn(run[h], wf)
           /\ run[h].pc \notin {"idle", "intake"} => wf.status # "none"
           /\ run[h].pc \in {"redeliver", "refresh", "ensure", "ask"} => run[h].w.status \in Open
<1>1. /\ TypeOK /\ GrantsHaveExports /\ wf \in Rows
      /\ run = [g \in Handlers |-> run[g]] /\ RunTyped(run[h]) /\ MovesOn(run[h], wf)
  BY DEF SafetyInv, RowsMoveOn, TypeOK, RunTyped
<1>2. /\ run[h].w \in Snapshots /\ Typed(run[h].u)
      /\ run[h].then \in Continuations /\ run[h].pc \in Pcs /\ run[h].fresh \in BOOLEAN
  BY <1>1 DEF RunTyped, RunRow
<1>3. /\ run[h].pc \notin {"idle", "intake"} => wf.status # "none"
      /\ run[h].pc \in {"redeliver", "refresh", "ensure", "ask"} => run[h].w.status \in Open
  BY <1>1 DEF MovesOn
<1> QED
  BY <1>1, <1>2, <1>3

LEMMA IntakeStep ==
    ASSUME SafetyInv, NEW h \in Handlers, Intake(h)
    PROVE  SafetyInv'
<1>1. PICK verdict \in {"routed", "unsupported"}, connector \in ActiveConnector :
        run' = [run EXCEPT ![h] = [Idle EXCEPT !.pc = "intake",
                   !.w = [Unread EXCEPT !.status = IntakeStatus(verdict, connector)]]]
  BY DEF Intake
<1>2. run[h].pc = "idle" /\ UNCHANGED <<wf, ledger, mailed, blurred>>
  BY DEF Intake
<1> DEFINE status == IntakeStatus(verdict, connector)
           w == [Unread EXCEPT !.status = status]
           x == [Idle EXCEPT !.pc = "intake", !.w = w]
<1>3. status \in Open \cup {"blocked"}
  BY DEF IntakeStatus, Open
<1> HIDE DEF status
<1>4. w \in Snapshots /\ w.status = status
  <2>1. status \in Statuses
    BY <1>3 DEF Open, Statuses
  <2> QED
    BY <2>1, UnreadFits DEF Unread, Snapshots
<1> HIDE DEF w
<1>5. /\ x \in RunRow(x.u) /\ x.u = NoUpdate /\ x.pc = "intake" /\ x.w = w
  BY <1>4 DEF Idle, RunRow, Pcs, Continuations
<1>6. run' = [run EXCEPT ![h] = x]
  BY <1>1 DEF w, status
<1> HIDE DEF x
<1>7. RunTyped(x)
  BY <1>5, NothingTyped DEF RunTyped
<1>8. MovesOn(x, wf)
  BY <1>3, <1>4, <1>5 DEF MovesOn
<1>9. Careful(x, wf, ledger', mailed)
  BY <1>5 DEF Careful
<1>10. ~Mailing(h) /\ x.pc \notin Sending
  BY <1>2, <1>5 DEF Mailing, Sending
<1> QED
  BY <1>2, <1>6, <1>7, <1>8, <1>9, <1>10, LedgerStays, Turn

LEMMA RedeliverStep ==
    ASSUME SafetyInv, NEW h \in Handlers, Redeliver(h)
    PROVE  SafetyInv'
<1>1. /\ run[h].pc = "idle" /\ Read(h, "redeliver")
      /\ wf.status \in {"needs_client_connector", "needs_scope"}
  BY DEF Redeliver
<1> QED
  BY <1>1, ReadStep DEF Open

LEMMA RepairStep ==
    ASSUME SafetyInv, NEW h \in Handlers, Repair(h)
    PROVE  SafetyInv'
<1> DEFINE w == run[h].w
           u == With(Meta(w), [status |-> "needs_confirm", refused |-> FALSE])
<1>1. /\ run[h].pc = "redeliver" /\ UNCHANGED <<wf, ledger, mailed, blurred>>
      /\ \/ Plan(h, u, "idle")
         \/ Goto(h, "ensure")
         \/ Goto(h, "idle")
  BY DEF Repair
<1>2. ~Mailing(h)
  BY <1>1 DEF Mailing, Sending
<1>3. CASE Plan(h, u, "idle")
  <2>1. w \in Snapshots
    BY Carries
  <2>2. MovesRow(u, ledger')
    BY <2>1, OpenFits DEF Open
  <2> HIDE DEF u
  <2> QED
    BY <1>1, <1>2, <1>3, <2>2, LedgerStays, PlanStep DEF Continuations
<1>4. CASE Goto(h, "ensure")
  BY <1>1, <1>4, LedgerStays, GotoStep
<1>5. CASE Goto(h, "idle")
  BY <1>1, <1>2, <1>5, StopStep
<1> QED
  BY <1>1, <1>3, <1>4, <1>5

(* A request recorded by _ensure_consent_request leaves every export alone. *)
LEMMA AskedGrows ==
    ASSUME SafetyInv, ledger' = [ledger EXCEPT !["own"].action = "REQUESTED"]
    PROVE  LedgerGrows
<1>1. ledger \in [Requests -> LedgerRow]
  BY DEF SafetyInv, TypeOK
<1>2. /\ ledger' \in [Requests -> LedgerRow]
      /\ ledger'["own"].action = "REQUESTED"
      /\ \A r \in Requests : r # "own" => ledger'[r] = ledger[r]
      /\ \A r \in Requests : ledger'[r].rev = ledger[r].rev
  <2> DEFINE row == [ledger["own"] EXCEPT !.action = "REQUESTED"]
  <2>1. ledger["own"] \in LedgerRow /\ "own" \in Requests
    BY <1>1 DEF Requests
  <2>2. row \in LedgerRow /\ row.action = "REQUESTED" /\ row.rev = ledger["own"].rev
    BY <2>1 DEF LedgerRow, Actions
  <2>3. ledger' = [ledger EXCEPT !["own"] = row]
    OBVIOUS
  <2> HIDE DEF row
  <2> QED
    BY <1>1, <2>1, <2>2, <2>3
<1>3. \A r \in Requests : ledger[r].rev \in Nat
  BY <1>1, RevAssumption DEF LedgerRow
<1> QED
  BY <1>2, <1>3 DEF SafetyInv, GrantsHaveExports, LedgerGrows

LEMMA EnsureStep ==
    ASSUME SafetyInv, NEW h \in Handlers, EnsureConsentRequest(h)
    PROVE  SafetyInv'
<1> DEFINE w == run[h].w
           then == IF run[h].pc = "refresh" THEN "look" ELSE "idle"
           noKey == With(Meta(w), [status |-> "needs_client_connector", refused |-> FALSE])
           onward == With(Meta(w), [status |-> Advanced(w), refused |-> FALSE])
           asking == With(Meta(w), [status |-> Advanced(w), req |-> "own"])
<1>1. /\ run[h].pc \in {"ensure", "refresh", "ask"} /\ UNCHANGED <<wf, mailed, blurred>>
      /\ \/ Plan(h, noKey, then) /\ UNCHANGED ledger
         \/ \E r \in Active : Plan(h, ReadyUpdate(w, r), then) /\ UNCHANGED ledger
         \/ Plan(h, onward, then) /\ UNCHANGED ledger
         \/ Goto(h, then) /\ UNCHANGED ledger
         \/ /\ ledger' = [ledger EXCEPT !["own"].action = "REQUESTED"]
            /\ Plan(h, asking, then)
  BY DEF EnsureConsentRequest
<1>2. /\ ~Mailing(h) /\ run[h].pc \notin {"idle", "intake", "write"}
      /\ then \in {"look", "idle"} /\ then \in Continuations \ {"mail"} /\ then # "ask"
      /\ then = "look" => run[h].pc = "refresh"
  BY <1>1 DEF Mailing, Sending, Continuations
<1>3. /\ w \in Snapshots /\ TypeOK /\ GrantsHaveExports /\ w.status \in Open
  BY <1>1, Carries
<1>4. Advanced(w) \in Open
  BY <1>3 DEF Advanced, Open
<1>5. MovesRow(noKey, ledger')
  BY <1>3, OpenFits DEF Open
<1>6. MovesRow(onward, ledger')
  BY <1>3, <1>4, OpenFits
<1>7. MovesRow(asking, ledger')
  BY <1>3, <1>4, OpenFits
<1> HIDE DEF then, noKey, onward, asking
<1>8. CASE Plan(h, noKey, then) /\ UNCHANGED ledger
  BY <1>1, <1>2, <1>5, <1>8, LedgerStays, PlanStep
<1>9. CASE \E r \in Active : Plan(h, ReadyUpdate(w, r), then) /\ UNCHANGED ledger
  <2>1. PICK r \in Active : Plan(h, ReadyUpdate(w, r), then) /\ UNCHANGED ledger
    BY <1>9
  <2>2. r \in Requests /\ ledger[r].action = "GRANTED"
    BY DEF Active
  <2>3. MovesRow(ReadyUpdate(w, r), ledger')
    BY <1>3, <2>1, <2>2, ReadyFits
  <2> QED
    BY <1>1, <1>2, <2>1, <2>3, LedgerStays, PlanStep
<1>10. CASE Plan(h, onward, then) /\ UNCHANGED ledger
  BY <1>1, <1>2, <1>6, <1>10, LedgerStays, PlanStep
<1>11. CASE Goto(h, then) /\ UNCHANGED ledger
  <2>1. CASE then = "look"
    BY <1>1, <1>2, <1>11, <2>1, LedgerStays, GotoStep
  <2>2. CASE then = "idle"
    BY <1>1, <1>2, <1>11, <2>2, StopStep
  <2> QED
    BY <1>2, <2>1, <2>2
<1>12. CASE /\ ledger' = [ledger EXCEPT !["own"].action = "REQUESTED"]
            /\ Plan(h, asking, then)
  BY <1>1, <1>2, <1>7, <1>12, AskedGrows, PlanStep
<1> QED
  BY <1>1, <1>8, <1>9, <1>10, <1>11, <1>12

(* The row left by an update that carries its own metadata. *)
LEMMA Kept ==
    ASSUME NEW row \in Rows, NEW w, Meta(w) = Meta(row), NEW x,
           "req" \notin DOMAIN x, "bound" \notin DOMAIN x
    PROVE  LET result == With(row, With(Meta(w), x))
           IN /\ result.status = IF "status" \in DOMAIN x THEN x.status ELSE row.status
              /\ result.draft = IF "draft" \in DOMAIN x THEN x.draft ELSE row.draft
              /\ result.send = IF "send" \in DOMAIN x THEN x.send ELSE row.send
              /\ result.wb = IF "wb" \in DOMAIN x THEN x.wb ELSE row.wb
              /\ result.req = row.req /\ result.bound = row.bound
<1> DEFINE u == With(Meta(w), x)
<1>1. /\ DOMAIN u = {"sel", "req", "bound", "barred"} \cup DOMAIN x
      /\ \A c \in DOMAIN x : u[c] = x[c]
  BY DEF With, Meta
<1>2. u.req = Meta(row).req /\ u.bound = Meta(row).bound
  BY DEF With, Meta
<1>3. u.req = row.req /\ u.bound = row.bound
  BY <1>2 DEF Meta
<1>4. /\ "status" \in DOMAIN x => u.status = x.status
      /\ "draft" \in DOMAIN x => u.draft = x.draft
      /\ "send" \in DOMAIN x => u.send = x.send
      /\ "wb" \in DOMAIN x => u.wb = x.wb
  BY <1>1
<1> HIDE DEF u
<1>5. LET result == With(row, u)
      IN /\ result.status = IF "status" \in DOMAIN x THEN x.status ELSE row.status
         /\ result.draft = IF "draft" \in DOMAIN x THEN x.draft ELSE row.draft
         /\ result.send = IF "send" \in DOMAIN x THEN x.send ELSE row.send
         /\ result.wb = IF "wb" \in DOMAIN x THEN x.wb ELSE row.wb
         /\ result.req = row.req /\ result.bound = row.bound
  BY <1>1, <1>3, <1>4, Written
<1> QED
  BY <1>5 DEF u

(* And by the metadata alone. *)
LEMMA KeptBare ==
    ASSUME NEW row \in Rows
    PROVE  LET result == With(row, Meta(row))
           IN /\ result.status = row.status /\ result.draft = row.draft
              /\ result.send = row.send /\ result.wb = row.wb
              /\ result.req = row.req /\ result.bound = row.bound
BY MetaIs, Written

(* Rows that agree on these columns are alike to the invariant. *)
LEMMA Alike ==
    ASSUME NEW row, NEW other,
           other.status = row.status, other.draft = row.draft, other.send = row.send,
           other.wb = row.wb, other.req = row.req, other.bound = row.bound
    PROVE  /\ Ready(other) <=> Ready(row)
           /\ \A led : BoundRow(row, led) => BoundRow(other, led)
           /\ \A n : ToldRow(row, n) => ToldRow(other, n)
           /\ \A n : WritebackRow(row, n) => WritebackRow(other, n)
BY DEF Ready, BoundRow, ToldRow, WritebackRow

(* Writing the metadata back as it was read changes nothing. *)
LEMMA EditBareStep ==
    ASSUME SafetyInv, NEW h \in Handlers, run[h].pc = "idle", wf.status # "none",
           NEW then \in {"idle", "select"},
           then # "idle" => wf.status # "waiting_on_counterparty",
           run' = [run EXCEPT ![h] = Writer(Meta(wf), then)],
           UNCHANGED <<wf, ledger, mailed, blurred>>
    PROVE  SafetyInv'
<1>1. wf \in Rows
  BY Carries
<1>2. Typed(Meta(wf)) /\ "status" \notin DOMAIN Meta(wf)
  BY <1>1, MetaTyped, MetaIs
<1>3. ASSUME Undisturbed, Quiet
      PROVE  /\ BoundRow(With(wf, Meta(wf)), ledger)
             /\ ToldRow(With(wf, Meta(wf)), mailed)
             /\ WritebackRow(With(wf, Meta(wf)), mailed)
  <2> DEFINE result == With(wf, Meta(wf))
  <2>1. /\ result.status = wf.status /\ result.draft = wf.draft
        /\ result.send = wf.send /\ result.wb = wf.wb
        /\ result.req = wf.req /\ result.bound = wf.bound
    BY <1>1, KeptBare
  <2> HIDE DEF result
  <2>2. BoundRow(wf, ledger) /\ ToldRow(wf, mailed) /\ WritebackRow(wf, mailed)
    BY <1>3 DEF Undisturbed
  <2>3. BoundRow(result, ledger) /\ ToldRow(result, mailed) /\ WritebackRow(result, mailed)
    BY <2>1, <2>2, Alike
  <2> QED
    BY <2>3 DEF result
<1>4. ASSUME Undisturbed, Quiet, then # "idle" PROVE mailed = 0
  BY <1>4, NotTold
<1> QED
  BY <1>2, <1>3, <1>4, EditStep

LEMMA ConfirmStep ==
    ASSUME SafetyInv, NEW h \in Handlers, ConfirmProposal(h)
    PROVE  SafetyInv'
<1>1. /\ run[h].pc = "idle" /\ wf.status = "needs_confirm"
      /\ run' = [run EXCEPT ![h] = Writer(Meta(wf), "select")]
      /\ UNCHANGED <<wf, ledger, mailed, blurred>>
  BY DEF ConfirmProposal, PlanNow, Writer
<1> QED
  BY <1>1, EditBareStep

LEMMA SelectStep ==
    ASSUME SafetyInv, NEW h \in Handlers, SelectScopes(h)
    PROVE  SafetyInv'
<1>1. /\ run[h].pc \in {"idle", "select"} /\ wf.status # "waiting_on_counterparty"
      /\ Read(h, "selected")
  BY DEF SelectScopes, Selectable
<1> QED
  BY <1>1, ReadStep

LEMMA PrepareStep ==
    ASSUME SafetyInv, NEW h \in Handlers, Prepare(h)
    PROVE  SafetyInv'
<1> DEFINE w == run[h].w
           again == With(Meta(w), [status |-> "needs_scope", draft |-> "not_ready",
                                   send |-> "not_started", refused |-> FALSE,
                                   sel |-> TRUE, req |-> "none", bound |-> 0])
           noKey == With(Meta(w), [status |-> "needs_client_connector", refused |-> FALSE,
                                   sel |-> TRUE])
<1>1. /\ run[h].pc = "selected" /\ UNCHANGED <<wf, ledger, mailed, blurred>>
      /\ Plan(h, again, "ask") \/ Plan(h, noKey, "idle")
  BY DEF Prepare
<1>2. ~Mailing(h)
  BY <1>1 DEF Mailing, Sending
<1>3. w \in Snapshots
  BY Carries
<1>4. MovesRow(again, ledger') /\ again.status \in Open
  BY <1>3, BackFits DEF Open
<1>5. MovesRow(noKey, ledger')
  BY <1>3, OpenFits DEF Open
<1> HIDE DEF again, noKey
<1>6. CASE Plan(h, again, "ask")
  BY <1>1, <1>2, <1>4, <1>6, LedgerStays, PlanStep DEF Continuations
<1>7. CASE Plan(h, noKey, "idle")
  BY <1>1, <1>2, <1>5, <1>7, LedgerStays, PlanStep DEF Continuations
<1> QED
  BY <1>1, <1>6, <1>7

LEMMA RefreshStep ==
    ASSUME SafetyInv, NEW h \in Handlers, RefreshWorkflow(h)
    PROVE  SafetyInv'
<1>1. CASE wf.status = "blocked" /\ Read(h, "recover")
  <2>1. run[h].pc = "idle"
    BY DEF RefreshWorkflow
  <2> QED
    BY <1>1, <2>1, ReadStep
<1>2. CASE wf.status \in Open /\ Read(h, "refresh")
  <2>1. run[h].pc = "idle" /\ wf.status # "waiting_on_counterparty"
    BY <1>2 DEF RefreshWorkflow, Open
  <2> QED
    BY <1>2, <2>1, ReadStep
<1>3. CASE Ready(wf) /\ Read(h, "look")
  <2>1. run[h].pc = "idle" /\ wf.status = "waiting_on_user"
    BY <1>3 DEF RefreshWorkflow, Ready
  <2> QED
    BY <1>3, <2>1, ReadStep
<1> QED
  BY <1>1, <1>2, <1>3 DEF RefreshWorkflow, Open

(* The grant a look-up finds readable is one. *)
LEMMA ReadyPlanStep ==
    ASSUME SafetyInv, NEW h \in Handlers, run[h].pc \in {"recover", "look"},
           NEW r \in Requests, ledger[r].action = "GRANTED",
           Plan(h, ReadyUpdate(run[h].w, r), "idle"),
           UNCHANGED <<wf, ledger, mailed, blurred>>
    PROVE  SafetyInv'
<1> DEFINE u == ReadyUpdate(run[h].w, r)
<1>1. TypeOK /\ GrantsHaveExports /\ run[h].w \in Snapshots
  BY Carries
<1>2. MovesRow(u, ledger')
  BY <1>1, ReadyFits
<1> HIDE DEF u
<1>3. Plan(h, u, "idle")
  BY DEF u
<1>4. ~Mailing(h)
  BY DEF Mailing, Sending
<1> QED
  BY <1>2, <1>3, <1>4, LedgerStays, PlanStep DEF Continuations

LEMMA RecoverStep ==
    ASSUME SafetyInv, NEW h \in Handlers, Recover(h)
    PROVE  SafetyInv'
<1>1. run[h].pc = "recover" /\ ~Mailing(h) /\ UNCHANGED <<wf, ledger, mailed, blurred>>
  BY DEF Recover, Mailing, Sending
<1>2. CASE \E r \in Active : Plan(h, ReadyUpdate(run[h].w, r), "idle")
  BY <1>1, <1>2, ReadyPlanStep DEF Active
<1>3. CASE Goto(h, "idle")
  BY <1>1, <1>3, StopStep
<1> QED
  BY <1>2, <1>3 DEF Recover

LEMMA LookStep ==
    ASSUME SafetyInv, NEW h \in Handlers, Look(h)
    PROVE  SafetyInv'
<1> DEFINE w == run[h].w
<1>1. run[h].pc = "look" /\ ~Mailing(h) /\ UNCHANGED <<wf, ledger, mailed, blurred>>
  BY DEF Look, Mailing, Sending
<1>2. w \in Snapshots
  BY Carries
<1>3. \/ Goto(h, "idle")
      \/ w.req \in Requests /\ \E g \in Standing(w.req) : Plan(h, ReadyUpdate(w, g), "idle")
      \/ Plan(h, PendingUpdate(w), "idle")
      \/ Plan(h, RefusedUpdate(w), "idle")
  <2>1. CASE w.req # "none" /\ (w.status = "needs_scope" \/ Ready(w))
    <3>1. w.req \in Requests
      BY <1>2, <2>1 DEF Snapshots
    <3>2. RefreshSelected(h, w, w.req)
      BY <2>1 DEF Look
    <3> QED
      BY <3>1, <3>2 DEF RefreshSelected
  <2>2. CASE ~(w.req # "none" /\ (w.status = "needs_scope" \/ Ready(w)))
    BY <2>2 DEF Look
  <2> QED
    BY <2>1, <2>2
<1>4. CASE Goto(h, "idle")
  BY <1>1, <1>4, StopStep
<1>5. CASE w.req \in Requests /\ \E g \in Standing(w.req) : Plan(h, ReadyUpdate(w, g), "idle")
  <2>1. PICK g \in Standing(w.req) : Plan(h, ReadyUpdate(w, g), "idle")
    BY <1>5
  <2>2. g \in Requests /\ ledger[g].action = "GRANTED"
    BY <1>5 DEF Standing, Active
  <2> QED
    BY <1>1, <2>1, <2>2, ReadyPlanStep
<1>6. CASE Plan(h, PendingUpdate(w), "idle")
  <2>1. MovesRow(PendingUpdate(w), ledger')
    BY <1>2, BackFits
  <2> QED
    BY <1>1, <1>6, <2>1, LedgerStays, PlanStep DEF Continuations
<1>7. CASE Plan(h, RefusedUpdate(w), "idle")
  <2>1. MovesRow(RefusedUpdate(w), ledger')
    BY <1>2, BackFits
  <2> QED
    BY <1>1, <1>7, <2>1, LedgerStays, PlanStep DEF Continuations
<1> QED
  BY <1>3, <1>4, <1>5, <1>6, <1>7

LEMMA SendStep ==
    ASSUME SafetyInv, NEW h \in Handlers, SendApprovedReply(h)
    PROVE  SafetyInv'
<1>1. run[h].pc = "idle" /\ wf.status = "waiting_on_user" /\ Read(h, "send")
  BY DEF SendApprovedReply, MayApprove, Ready
<1> QED
  BY <1>1, ReadStep

LEMMA RequireStep ==
    ASSUME SafetyInv, NEW h \in Handlers, RequireSendable(h)
    PROVE  SafetyInv'
<1> DEFINE w == run[h].w
           sent == [send |-> "sending", wb |-> "pending"]
           u == With(Meta(w), sent)
           x == Planner(run[h], u, "mail")
<1>1. /\ run[h].pc = "send" /\ UNCHANGED <<wf, ledger, mailed, blurred>>
      /\ Plan(h, u, "mail") \/ Goto(h, "idle")
  BY DEF RequireSendable
<1>2. ~Mailing(h)
  BY <1>1 DEF Mailing, Sending
<1>3. CASE Plan(h, u, "mail")
  <2>1. w \in Snapshots /\ wf \in Rows /\ RunTyped(run[h]) /\ MovesOn(run[h], wf)
    BY Carries
  <2>2. Typed(sent)
    BY ColumnsAre, TypedFrom
  <2>3. /\ "status" \notin DOMAIN sent /\ "draft" \notin DOMAIN sent
        /\ "req" \notin DOMAIN sent /\ "bound" \notin DOMAIN sent
        /\ "wb" \in DOMAIN sent /\ sent.wb = "pending"
        /\ DOMAIN sent = {"send", "wb"}
    OBVIOUS
  <2> HIDE DEF sent
  <2>4. Typed(u) /\ "status" \notin DOMAIN u
    <3>1. Typed(u)
      BY <2>1, <2>2, CarriedTyped
    <3>2. DOMAIN u = {"sel", "req", "bound", "barred"} \cup DOMAIN sent
      BY DEF With, Meta
    <3> QED
      BY <2>3, <3>1, <3>2
  <2>5. ASSUME Meta(w) = Meta(wf)
        PROVE  /\ With(wf, u).status = wf.status /\ With(wf, u).draft = wf.draft
               /\ With(wf, u).wb = "pending"
               /\ With(wf, u).req = wf.req /\ With(wf, u).bound = wf.bound
    BY <2>1, <2>3, <2>5, Kept
  <2> HIDE DEF u
  <2>6. run' = [run EXCEPT ![h] = x]
    BY <1>3 DEF Plan, Planner
  <2>7. /\ RunTyped(x) /\ x.pc = "write" /\ x.fresh = run[h].fresh /\ x.u = u
        /\ x.then = "mail"
    <3>1. "mail" \in Continuations
      BY DEF Continuations
    <3> QED
      BY <2>1, <2>4, <3>1, PlanFits
  <2> HIDE DEF x
  <2>8. MovesOn(x, wf)
    BY <1>1, <2>1, <2>4, <2>7 DEF MovesOn
  <2>9. ASSUME Undisturbed, Quiet, x.fresh PROVE Careful(x, wf, ledger', mailed)
    <3> DEFINE result == With(wf, u)
    <3>1. Careful(run[h], wf, ledger, mailed)
      BY <2>7, <2>9 DEF Undisturbed
    <3>2. mailed = 0 /\ Meta(w) = Meta(wf)
      BY <1>1, <3>1 DEF Careful
    <3>3. /\ result.status = wf.status /\ result.draft = wf.draft /\ result.wb = "pending"
          /\ result.req = wf.req /\ result.bound = wf.bound
      BY <2>5, <3>2
    <3> HIDE DEF result
    <3>4. BoundRow(wf, ledger) /\ ToldRow(wf, mailed)
      BY <2>9 DEF Undisturbed
    <3>5. BoundRow(result, ledger)
      BY <3>3, <3>4 DEF BoundRow, Ready
    <3>6. ToldRow(result, mailed)
      BY <3>2, <3>3, <3>4 DEF ToldRow
    <3>7. GoodWrite(x, wf, ledger, mailed)
      BY <2>7, <3>2, <3>3, <3>5, <3>6 DEF GoodWrite, result
    <3> QED
      BY <1>1, <2>7, <3>7 DEF Careful
  <2>10. x.pc \notin Sending
    BY <2>7 DEF Sending
  <2> QED
    BY <1>1, <1>2, <2>6, <2>7, <2>8, <2>9, <2>10, LedgerStays, Turn
<1>4. CASE Goto(h, "idle")
  BY <1>1, <1>2, <1>4, StopStep
<1> QED
  BY <1>1, <1>3, <1>4

(* An edit that carries the metadata of the row it read. *)
LEMMA EditKeptStep ==
    ASSUME SafetyInv, NEW h \in Handlers, wf.status # "none",
           NEW x, Typed(x), "req" \notin DOMAIN x, "bound" \notin DOMAIN x,
           "status" \in DOMAIN x => x.status # "none",
           Edit(h, With(Meta(wf), x)),
           NEW row,
           row.status = IF "status" \in DOMAIN x THEN x.status ELSE wf.status,
           row.draft = IF "draft" \in DOMAIN x THEN x.draft ELSE wf.draft,
           row.send = IF "send" \in DOMAIN x THEN x.send ELSE wf.send,
           row.wb = IF "wb" \in DOMAIN x THEN x.wb ELSE wf.wb,
           row.req = wf.req, row.bound = wf.bound,
           Undisturbed /\ Quiet =>
             BoundRow(row, ledger) /\ ToldRow(row, mailed) /\ WritebackRow(row, mailed)
    PROVE  SafetyInv'
<1> DEFINE u == With(Meta(wf), x)
           result == With(wf, u)
<1>1. run[h].pc = "idle" /\ UNCHANGED <<wf, ledger, mailed, blurred>>
  BY DEF Edit, PlanNow
<1>2. run' = [run EXCEPT ![h] = Writer(u, "idle")]
  BY DEF Edit, PlanNow, Writer
<1>3. wf \in Rows
  BY Carries
<1>4. Typed(u)
  BY <1>3, CarriedTyped
<1>5. "status" \in DOMAIN u => u.status # "none"
  <2>1. /\ DOMAIN u = {"sel", "req", "bound", "barred"} \cup DOMAIN x
        /\ \A c \in DOMAIN x : u[c] = x[c]
    BY DEF With, Meta
  <2> QED
    BY <2>1
<1>6. /\ result.status = row.status /\ result.draft = row.draft
      /\ result.send = row.send /\ result.wb = row.wb
      /\ result.req = row.req /\ result.bound = row.bound
  BY <1>3, Kept
<1> HIDE DEF u, result
<1>7. ASSUME Undisturbed, Quiet
      PROVE  BoundRow(result, ledger) /\ ToldRow(result, mailed) /\ WritebackRow(result, mailed)
  <2>1. BoundRow(row, ledger) /\ ToldRow(row, mailed) /\ WritebackRow(row, mailed)
    BY <1>7
  <2> QED
    BY <1>6, <2>1, Alike
<1> QED
  BY <1>1, <1>2, <1>4, <1>5, <1>7, EditStep DEF result

LEMMA RedraftStep ==
    ASSUME SafetyInv, NEW h \in Handlers, Redraft(h)
    PROVE  SafetyInv'
<1>1. Ready(wf) /\ wf.status = "waiting_on_user" /\ wf.draft = "ready"
  BY DEF Redraft, Ready
<1>2. CASE Edit(h, With(Meta(wf), [draft |-> "ready"]))
  <2> DEFINE x == [draft |-> "ready"]
  <2>1. Typed(x)
    BY ColumnsAre, TypedFrom DEF Drafts
  <2>2. DOMAIN x = {"draft"} /\ x.draft = "ready"
    OBVIOUS
  <2>3. Edit(h, With(Meta(wf), x))
    BY <1>2
  <2> HIDE DEF x
  <2>4. Undisturbed /\ Quiet =>
          BoundRow(wf, ledger) /\ ToldRow(wf, mailed) /\ WritebackRow(wf, mailed)
    BY DEF Undisturbed
  <2>5. wf.draft = IF "draft" \in DOMAIN x THEN x.draft ELSE wf.draft
    BY <1>1, <2>2
  <2> QED
    BY <1>1, <2>1, <2>2, <2>3, <2>4, <2>5, EditKeptStep
<1>3. CASE Edit(h, With(Meta(wf), [status |-> "needs_scope", draft |-> "not_ready",
                                   refused |-> FALSE]))
  <2> DEFINE x == [status |-> "needs_scope", draft |-> "not_ready", refused |-> FALSE]
             row == [wf EXCEPT !.status = "needs_scope", !.draft = "not_ready"]
  <2>1. Typed(x)
    BY ColumnsAre, TypedFrom DEF Statuses, Drafts
  <2>2. /\ DOMAIN x = {"status", "draft", "refused"}
        /\ x.status = "needs_scope" /\ x.draft = "not_ready"
    OBVIOUS
  <2>3. Edit(h, With(Meta(wf), x))
    BY <1>3
  <2>4. wf \in Rows
    BY DEF SafetyInv, TypeOK
  <2>5. /\ row.status = "needs_scope" /\ row.draft = "not_ready"
        /\ row.send = wf.send /\ row.wb = wf.wb /\ row.req = wf.req /\ row.bound = wf.bound
    BY <2>4 DEF Rows
  <2> HIDE DEF x, row
  <2>6. ASSUME Undisturbed, Quiet
        PROVE  BoundRow(row, ledger) /\ ToldRow(row, mailed) /\ WritebackRow(row, mailed)
    <3>1. ToldRow(wf, mailed) /\ WritebackRow(wf, mailed)
      BY <2>6 DEF Undisturbed
    <3>2. ToldRow(row, mailed)
      BY <1>1, <2>5, <3>1 DEF ToldRow
    <3>3. WritebackRow(row, mailed)
      BY <2>5, <3>1 DEF WritebackRow
    <3>4. BoundRow(row, ledger)
      BY <2>5 DEF BoundRow, Ready
    <3> QED
      BY <3>2, <3>3, <3>4
  <2> QED
    BY <1>1, <2>1, <2>2, <2>3, <2>5, <2>6, EditKeptStep
<1> QED
  BY <1>2, <1>3 DEF Redraft

LEMMA BareStep ==
    ASSUME SafetyInv, NEW h \in Handlers, wf.status # "none", Edit(h, Meta(wf))
    PROVE  SafetyInv'
<1>1. /\ run[h].pc = "idle" /\ UNCHANGED <<wf, ledger, mailed, blurred>>
      /\ run' = [run EXCEPT ![h] = Writer(Meta(wf), "idle")]
  BY DEF Edit, PlanNow, Writer
<1> QED
  BY <1>1, EditBareStep

LEMMA RejectStep ==
    ASSUME SafetyInv, NEW h \in Handlers, RejectDraft(h)
    PROVE  SafetyInv'
<1> DEFINE x == [status |-> "blocked", draft |-> "not_ready", refused |-> FALSE]
           row == [wf EXCEPT !.status = "blocked", !.draft = "not_ready"]
<1>1. wf.status = "waiting_on_user" /\ Edit(h, With(Meta(wf), x))
  BY DEF RejectDraft, Ready
<1>2. Typed(x)
  BY ColumnsAre, TypedFrom DEF Statuses, Drafts
<1>3. /\ DOMAIN x = {"status", "draft", "refused"}
      /\ x.status = "blocked" /\ x.draft = "not_ready"
  OBVIOUS
<1>4. wf \in Rows
  BY DEF SafetyInv, TypeOK
<1>5. /\ row.status = "blocked" /\ row.draft = "not_ready"
      /\ row.send = wf.send /\ row.wb = wf.wb /\ row.req = wf.req /\ row.bound = wf.bound
  BY <1>4 DEF Rows
<1> HIDE DEF x, row
<1>6. ASSUME Undisturbed, Quiet
      PROVE  BoundRow(row, ledger) /\ ToldRow(row, mailed) /\ WritebackRow(row, mailed)
  <2>1. ToldRow(wf, mailed) /\ WritebackRow(wf, mailed)
    BY <1>6 DEF Undisturbed
  <2>2. ToldRow(row, mailed)
    BY <1>1, <1>5, <2>1 DEF ToldRow
  <2>3. WritebackRow(row, mailed)
    BY <1>5, <2>1 DEF WritebackRow
  <2>4. BoundRow(row, ledger)
    BY <1>5 DEF BoundRow, Ready
  <2> QED
    BY <2>2, <2>3, <2>4
<1> QED
  BY <1>1, <1>2, <1>3, <1>5, <1>6, EditKeptStep

LEMMA MarkStep ==
    ASSUME SafetyInv, NEW h \in Handlers, MarkWriteback(h)
    PROVE  SafetyInv'
<1>1. PICK outcome \in {"succeeded", "pending"} : Edit(h, With(Meta(wf), [wb |-> outcome]))
  BY DEF MarkWriteback
<1> DEFINE x == [wb |-> outcome]
           row == [wf EXCEPT !.wb = outcome]
<1>2. wf.status = "waiting_on_counterparty"
  BY DEF MarkWriteback, WritebackReady
<1>3. Typed(x)
  BY ColumnsAre, TypedFrom
<1>4. DOMAIN x = {"wb"} /\ x.wb = outcome
  OBVIOUS
<1>5. Edit(h, With(Meta(wf), x))
  BY <1>1
<1>6. wf \in Rows
  BY DEF SafetyInv, TypeOK
<1>7. /\ row.status = wf.status /\ row.draft = wf.draft /\ row.send = wf.send
      /\ row.wb = outcome /\ row.req = wf.req /\ row.bound = wf.bound
  BY <1>6 DEF Rows
<1> HIDE DEF x, row
<1>8. ASSUME Undisturbed, Quiet
      PROVE  BoundRow(row, ledger) /\ ToldRow(row, mailed) /\ WritebackRow(row, mailed)
  <2>1. ToldRow(wf, mailed) /\ BoundRow(wf, ledger)
    BY <1>8 DEF Undisturbed
  <2>2. mailed = 1
    BY <1>2, <2>1 DEF ToldRow
  <2>3. ToldRow(row, mailed)
    BY <1>7, <2>1 DEF ToldRow
  <2>4. WritebackRow(row, mailed)
    BY <2>2 DEF WritebackRow
  <2>5. BoundRow(row, ledger)
    BY <1>7, <2>1 DEF BoundRow, Ready
  <2> QED
    BY <2>3, <2>4, <2>5
<1> QED
  BY <1>2, <1>3, <1>4, <1>5, <1>7, <1>8, EditKeptStep

-----------------------------------------------------------------------------
(* Steps that write the row. *)

(* One handler writes the row and goes on as x; the snapshots of the others    *)
(* become stale.  The invariant is kept if the step disturbed nobody's send and *)
(* the new row and x are as they should be.                                    *)
LEMMA Overwrite ==
    ASSUME SafetyInv, NEW h \in Handlers, run[h].pc \notin {"idle", "intake"},
           NEW row \in Rows, row.status # "none",
           NEW x, RunTyped(x), MovesOn(x, row), x.pc \in Sending => x.pc = "mail",
           wf' = row,
           run' = [g \in Handlers |-> IF g = h THEN x
                                      ELSE IF run[g].pc = "idle" THEN run[g]
                                      ELSE Stale(run[g])],
           UNCHANGED <<ledger, mailed>>, blurred' \in BOOLEAN,
           ~blurred' =>
             /\ ~blurred
             /\ \A g \in Handlers : g # h => ~Mailing(g)
             /\ BoundRow(row, ledger)
             /\ x.pc \in Sending =>
                  /\ x.fresh /\ Meta(x.w) = Meta(row) /\ row.wb = "pending"
                  /\ row.status # "waiting_on_counterparty" /\ mailed = 0
             /\ x.pc \notin Sending =>
                  /\ ToldRow(row, mailed) /\ WritebackRow(row, mailed)
                  /\ Careful(x, row, ledger, mailed)
    PROVE  SafetyInv'
<1>1. /\ TypeOK /\ GrantsHaveExports
      /\ \A g \in Handlers : RunTyped(run[g]) /\ MovesOn(run[g], wf)
  BY Carries
<1>2. /\ run' = [g \in Handlers |-> run'[g]] /\ run'[h] = x
      /\ \A g \in Handlers : g # h /\ run[g].pc = "idle" => run'[g] = run[g]
      /\ \A g \in Handlers : g # h /\ run[g].pc # "idle" => run'[g] = Stale(run[g])
  OBVIOUS
<1>3. \A g \in Handlers : g # h /\ run[g].pc # "idle" =>
        /\ RunTyped(run'[g]) /\ run'[g].pc = run[g].pc /\ run'[g].fresh = FALSE
        /\ run'[g].w = run[g].w /\ run'[g].u = run[g].u /\ run'[g].then = run[g].then
  BY <1>1, <1>2, StaleFits
<1>4. \A g \in Handlers : RunTyped(run'[g])
  BY <1>1, <1>2, <1>3
<1>5. TypeOK'
  BY <1>1, <1>2, <1>4 DEF TypeOK, RunTyped
<1>6. GrantsHaveExports'
  BY <1>1 DEF GrantsHaveExports
<1>7. ASSUME NEW g \in Handlers PROVE MovesOn(run'[g], row)
  <2>1. CASE g = h
    BY <1>2, <2>1
  <2>2. CASE g # h /\ run[g].pc = "idle"
    <3>1. MovesOn(run[g], wf) /\ run'[g] = run[g]
      BY <1>1, <1>2, <2>2
    <3> QED
      BY <2>2, <3>1 DEF MovesOn
  <2>3. CASE g # h /\ run[g].pc # "idle"
    <3>1. MovesOn(run[g], wf)
      BY <1>1
    <3> QED
      BY <1>3, <2>3, <3>1 DEF MovesOn
  <2> QED
    BY <2>1, <2>2, <2>3
<1>8. RowsMoveOn'
  BY <1>7 DEF RowsMoveOn
<1>9. ASSUME ~blurred' PROVE Undisturbed'
  <2>1. \A g \in Handlers : g # h => run'[g].pc \notin Sending
    BY <1>2, <1>3, <1>9 DEF Mailing
  <2>2. BoundRow(wf', ledger')
    BY <1>9
  <2>3. ASSUME NEW g \in Handlers, Mailing(g)' PROVE Sender(g)'
    <3>1. g = h /\ x.pc \in Sending
      BY <1>2, <2>1, <2>3 DEF Mailing
    <3>2. /\ x.fresh /\ Meta(x.w) = Meta(row) /\ row.wb = "pending"
          /\ row.status # "waiting_on_counterparty" /\ mailed = 0 /\ x.pc = "mail"
      BY <1>9, <3>1
    <3>3. \A k \in Handlers : Mailing(k)' => k = h
      BY <2>1 DEF Mailing
    <3> QED
      BY <1>2, <3>1, <3>2, <3>3 DEF Sender
  <2>4. ASSUME Quiet' PROVE ToldRow(wf', mailed') /\ WritebackRow(wf', mailed')
    <3>1. x.pc \notin Sending
      BY <1>2, <2>4 DEF Quiet, Mailing
    <3> QED
      BY <1>9, <3>1
  <2>5. ASSUME Quiet', NEW g \in Handlers, run'[g].fresh
        PROVE  Careful(run'[g], wf', ledger', mailed')
    <3>1. x.pc \notin Sending
      BY <1>2, <2>5 DEF Quiet, Mailing
    <3>2. CASE g = h
      BY <1>2, <1>9, <3>1, <3>2
    <3>3. CASE g # h
      <4>1. run'[g].pc = "idle"
        BY <1>2, <1>3, <2>5, <3>3
      <4> QED
        BY <4>1 DEF Careful
    <3> QED
      BY <3>2, <3>3
  <2> QED
    BY <2>2, <2>3, <2>4, <2>5 DEF Undisturbed
<1> QED
  BY <1>5, <1>6, <1>8, <1>9 DEF SafetyInv

LEMMA WriteStep ==
    ASSUME SafetyInv, NEW h \in Handlers, Write(h)
    PROVE  SafetyInv'
<1> DEFINE row == With(wf, run[h].u)
           then == run[h].then
           x == IF then = "idle" THEN Idle ELSE Reader(then, row)
<1>1. /\ run[h].pc = "write" /\ wf' = row /\ UNCHANGED <<ledger, mailed>>
      /\ run' = [g \in Handlers |-> IF g = h THEN x
                                    ELSE IF run[g].pc = "idle" THEN run[g]
                                    ELSE Stale(run[g])]
      /\ blurred' = (blurred \/ ~run[h].fresh \/ \E g \in Handlers \ {h} : Mailing(g))
  BY DEF Write, Reader, Stale
<1>2. /\ wf \in Rows /\ Typed(run[h].u) /\ then \in Continuations /\ MovesOn(run[h], wf)
      /\ wf.status # "none" /\ TypeOK
  BY <1>1, Carries
<1>3. row \in Rows
  BY <1>2, RowWritten
<1>4. row.status = IF "status" \in DOMAIN run[h].u THEN run[h].u.status ELSE wf.status
  BY <1>2, Written
<1>5. row.status # "none" /\ (then = "ask" => row.status \in Open)
  BY <1>1, <1>2, <1>4 DEF MovesOn
<1> HIDE DEF row
<1>6. ASSUME then # "idle"
      PROVE  /\ RunTyped(x) /\ x.pc = then /\ x.fresh = TRUE /\ x.w = Snapshot(then, row)
             /\ x.u = NoUpdate /\ Meta(x.w) = Meta(row)
             /\ then = "ask" => x.w.status = row.status
  <2>1. x = Reader(then, row) /\ then \in Pcs
    BY <1>2, <1>6 DEF Pcs
  <2> HIDE DEF x
  <2>2. /\ RunTyped(x) /\ x.pc = then /\ x.fresh = TRUE /\ x.w = Snapshot(then, row)
        /\ x.u = NoUpdate
    BY <1>3, <2>1, ReadFits
  <2>3. Meta(Snapshot(then, row)) = Meta(row)
    BY <1>3, SnapshotFits
  <2>4. then = "ask" => Snapshot(then, row).status = row.status
    BY <1>3, SnapshotFits
  <2> QED
    BY <2>2, <2>3, <2>4
<1>7. then = "idle" => x = Idle
  OBVIOUS
<1> HIDE DEF x, then
<1>8. RunTyped(x) /\ MovesOn(x, row) /\ (x.pc \in Sending => x.pc = "mail") /\ x.pc = then
  <2>1. CASE then = "idle"
    BY <1>7, <2>1, IdleFits DEF Sending
  <2>2. CASE then # "idle"
    <3>1. MovesOn(x, row)
      BY <1>2, <1>5, <1>6, <2>2 DEF MovesOn, Continuations
    <3>2. x.pc \in Sending => x.pc = "mail"
      BY <1>2, <1>6, <2>2 DEF Sending, Continuations
    <3> QED
      BY <1>6, <2>2, <3>1, <3>2
  <2> QED
    BY <2>1, <2>2
<1>9. blurred' \in BOOLEAN
  BY <1>1
<1>10. ASSUME ~blurred'
       PROVE  /\ ~blurred
              /\ \A g \in Handlers : g # h => ~Mailing(g)
              /\ BoundRow(row, ledger)
              /\ x.pc \in Sending =>
                   /\ x.fresh /\ Meta(x.w) = Meta(row) /\ row.wb = "pending"
                   /\ row.status # "waiting_on_counterparty" /\ mailed = 0
              /\ x.pc \notin Sending =>
                   /\ ToldRow(row, mailed) /\ WritebackRow(row, mailed)
                   /\ Careful(x, row, ledger, mailed)
  <2>1. ~blurred /\ run[h].fresh /\ \A g \in Handlers : g # h => ~Mailing(g)
    BY <1>1, <1>10
  <2>2. Quiet
    BY <1>1, <2>1 DEF Quiet, Mailing, Sending
  <2>3. Careful(run[h], wf, ledger, mailed)
    BY <2>1, <2>2 DEF SafetyInv, Undisturbed
  <2>4. GoodWrite(run[h], wf, ledger, mailed)
    BY <1>1, <2>3 DEF Careful
  <2>5. /\ BoundRow(row, ledger) /\ ToldRow(row, mailed)
        /\ then # "idle" => mailed = 0
        /\ IF then = "mail" THEN row.wb = "pending" ELSE WritebackRow(row, mailed)
    BY <2>4 DEF GoodWrite, row, then
  <2>6. ASSUME x.pc \in Sending
        PROVE  /\ x.fresh /\ Meta(x.w) = Meta(row) /\ row.wb = "pending"
               /\ row.status # "waiting_on_counterparty" /\ mailed = 0
    <3>1. then = "mail" /\ mailed = 0 /\ row.wb = "pending"
      BY <1>8, <2>5, <2>6
    <3>2. row.status # "waiting_on_counterparty"
      BY <2>5, <3>1 DEF ToldRow
    <3>3. x.fresh /\ Meta(x.w) = Meta(row)
      BY <1>6, <3>1
    <3> QED
      BY <3>1, <3>2, <3>3
  <2>7. ASSUME x.pc \notin Sending
        PROVE  /\ ToldRow(row, mailed) /\ WritebackRow(row, mailed)
               /\ Careful(x, row, ledger, mailed)
    <3>1. then # "mail"
      BY <1>8, <2>7 DEF Sending
    <3>2. Careful(x, row, ledger, mailed)
      BY <1>2, <1>8, <2>5 DEF Careful, Continuations
    <3> QED
      BY <2>5, <3>1, <3>2
  <2> QED
    BY <2>1, <2>5, <2>6, <2>7
<1> QED
  BY <1>1, <1>3, <1>5, <1>8, <1>9, <1>10, Overwrite

LEMMA RecordStep ==
    ASSUME SafetyInv, NEW h \in Handlers, RecordSend(h)
    PROVE  SafetyInv'
<1> DEFINE w == run[h].w
           pc == run[h].pc
           told == [status |-> "waiting_on_counterparty", draft |-> "sent", send |-> "sent"]
           undone == [send |-> "not_started", wb |-> "not_started"]
           y == IF pc = "delivered" THEN told ELSE undone
           row == With(wf, With(Meta(w), y))
<1>1. /\ run[h].pc \in {"delivered", "undelivered"} /\ wf' = row
      /\ UNCHANGED <<ledger, mailed>>
      /\ run' = [g \in Handlers |-> IF g = h THEN Idle
                                    ELSE IF run[g].pc = "idle" THEN run[g]
                                    ELSE Stale(run[g])]
      /\ blurred' = (blurred \/ ~run[h].fresh \/ \E g \in Handlers \ {h} : Mailing(g))
  BY DEF RecordSend, SendOutcome, Stale
<1>2. wf \in Rows /\ w \in Snapshots /\ TypeOK /\ wf.status # "none"
  BY <1>1, Carries
<1>3. Typed(told) /\ Typed(undone)
  <2>1. Typed(told)
    BY ColumnsAre, TypedFrom DEF Statuses, Drafts
  <2>2. Typed(undone)
    BY ColumnsAre, TypedFrom
  <2> QED
    BY <2>1, <2>2
<1>4. /\ DOMAIN told = {"status", "draft", "send"} /\ DOMAIN undone = {"send", "wb"}
      /\ told.status = "waiting_on_counterparty" /\ told.send = "sent"
      /\ undone.wb = "not_started"
  OBVIOUS
<1> HIDE DEF told, undone
<1>5. /\ Typed(y)
      /\ pc = "delivered" => y = told
      /\ pc # "delivered" => y = undone
  BY <1>3
<1> HIDE DEF y
<1>6. row \in Rows
  <2>1. Typed(With(Meta(w), y))
    BY <1>2, <1>5, CarriedTyped
  <2> QED
    BY <1>2, <2>1, RowWritten
<1>7. row.status # "none"
  <2> DEFINE u == With(Meta(w), y)
  <2>1. /\ DOMAIN u = {"sel", "req", "bound", "barred"} \cup DOMAIN y
        /\ \A c \in DOMAIN y : u[c] = y[c]
    BY DEF With, Meta
  <2>2. "status" \in DOMAIN u => u.status = "waiting_on_counterparty"
    BY <1>4, <1>5, <2>1
  <2> HIDE DEF u
  <2>3. With(wf, u).status = IF "status" \in DOMAIN u THEN u.status ELSE wf.status
    BY <1>2, Written
  <2>4. With(wf, u).status # "none"
    BY <1>2, <2>2, <2>3
  <2> QED
    BY <2>4 DEF u
<1>8. ASSUME Meta(w) = Meta(wf)
      PROVE  /\ row.status = IF "status" \in DOMAIN y THEN y.status ELSE wf.status
             /\ row.draft = IF "draft" \in DOMAIN y THEN y.draft ELSE wf.draft
             /\ row.send = IF "send" \in DOMAIN y THEN y.send ELSE wf.send
             /\ row.wb = IF "wb" \in DOMAIN y THEN y.wb ELSE wf.wb
             /\ row.req = wf.req /\ row.bound = wf.bound
  <2>1. "req" \notin DOMAIN y /\ "bound" \notin DOMAIN y
    BY <1>4, <1>5
  <2> QED
    BY <1>2, <1>8, <2>1, Kept
<1> HIDE DEF row
<1>9. ASSUME ~blurred'
      PROVE  /\ ~blurred
             /\ \A g \in Handlers : g # h => ~Mailing(g)
             /\ BoundRow(row, ledger)
             /\ ToldRow(row, mailed) /\ WritebackRow(row, mailed)
  <2>1. /\ ~blurred /\ Mailing(h) /\ Undisturbed
        /\ \A g \in Handlers : g # h => ~Mailing(g)
    BY <1>1, <1>9 DEF SafetyInv, Mailing, Sending
  <2>2. Sender(h) /\ BoundRow(wf, ledger)
    BY <2>1 DEF Undisturbed
  <2>3. /\ Meta(w) = Meta(wf) /\ wf.status # "waiting_on_counterparty"
        /\ mailed = IF pc = "delivered" THEN 1 ELSE 0
    BY <2>2 DEF Sender
  <2>4. CASE pc = "delivered"
    <3>1. /\ row.status = "waiting_on_counterparty" /\ row.send = "sent" /\ mailed = 1
      BY <1>4, <1>5, <1>8, <2>3, <2>4
    <3>2. BoundRow(row, ledger)
      BY <3>1 DEF BoundRow, Ready
    <3>3. ToldRow(row, mailed) /\ WritebackRow(row, mailed)
      BY <3>1 DEF ToldRow, WritebackRow
    <3> QED
      BY <2>1, <3>2, <3>3
  <2>5. CASE pc # "delivered"
    <3>1. /\ row.status = wf.status /\ row.draft = wf.draft /\ row.wb = "not_started"
          /\ row.req = wf.req /\ row.bound = wf.bound /\ mailed = 0
      BY <1>4, <1>5, <1>8, <2>3, <2>5
    <3>2. BoundRow(row, ledger)
      BY <2>2, <3>1 DEF BoundRow, Ready
    <3>3. ToldRow(row, mailed)
      BY <2>3, <3>1 DEF ToldRow
    <3>4. WritebackRow(row, mailed)
      BY <3>1 DEF WritebackRow
    <3> QED
      BY <2>1, <3>2, <3>3, <3>4
  <2> QED
    BY <2>4, <2>5
<1>10. blurred' \in BOOLEAN /\ run[h].pc \notin {"idle", "intake"}
  BY <1>1
<1>11. Idle.pc \notin Sending
  BY IdleFits DEF Sending
<1> QED
  BY <1>1, <1>6, <1>7, <1>9, <1>10, <1>11, IdleFits, Overwrite

(* _insert_workflow: nobody can have read the row before it is there. *)
LEMMA InsertStep ==
    ASSUME SafetyInv, NEW h \in Handlers, InsertWorkflow(h)
    PROVE  SafetyInv'
<1> DEFINE w == run[h].w
           row == With(NoRow, w)
<1>1. /\ run[h].pc = "intake" /\ Goto(h, "idle") /\ UNCHANGED <<ledger, mailed, blurred>>
      /\ ~Mailing(h)
  BY DEF InsertWorkflow, Mailing, Sending
<1>2. CASE wf.status # "none"
  <2>1. UNCHANGED wf
    BY <1>2 DEF InsertWorkflow
  <2> QED
    BY <1>1, <2>1, StopStep
<1>3. CASE wf.status = "none"
  <2>1. wf' = row
    BY <1>3 DEF InsertWorkflow
  <2>2. w \in Snapshots /\ w.status \in Open \cup {"blocked"} /\ TypeOK
    BY <1>1, Carries DEF MovesOn
  <2>3. row \in Rows /\ row.status = w.status /\ row.wb = "not_started"
    <3>1. row = [c \in DOMAIN row |-> row[c]] /\ DOMAIN row = Columns
      BY <2>2, ColumnsAre DEF With, Snapshots, Columns
    <3>2. /\ row.status = w.status /\ row.draft = w.draft /\ row.sel = w.sel
          /\ row.req = w.req /\ row.bound = w.bound /\ row.barred = w.barred
          /\ row.refused = FALSE /\ row.send = "not_started" /\ row.wb = "not_started"
      BY <2>2 DEF With, NoRow, Snapshots
    <3>3. /\ w.status \in Statuses /\ w.draft \in Drafts /\ w.sel \in BOOLEAN
          /\ w.req \in Requests \cup {"none"} /\ w.bound \in 0..MaxRev /\ w.barred \in BOOLEAN
      BY <2>2 DEF Snapshots
    <3> HIDE DEF row, w
    <3>4. row \in Rows
      BY <3>1, <3>2, <3>3, RowFrom
    <3> QED
      BY <3>2, <3>4
  <2> HIDE DEF row
  <2>4. /\ run = [g \in Handlers |-> run[g]]
        /\ \A g \in Handlers : RunTyped(run[g]) /\ MovesOn(run[g], wf)
        /\ \A g \in Handlers : run[g].pc \in {"idle", "intake"}
    BY <1>3, Carries DEF MovesOn
  <2>5. /\ run' = [g \in Handlers |-> run'[g]] /\ run'[h] = Idle
        /\ \A g \in Handlers : g # h => run'[g] = run[g]
    BY <1>1, <2>4 DEF Goto
  <2>6. \A g \in Handlers : RunTyped(run'[g]) /\ run'[g].pc \in {"idle", "intake"}
    BY <2>4, <2>5, IdleFits
  <2>7. TypeOK'
    BY <1>1, <2>1, <2>2, <2>3, <2>5, <2>6 DEF TypeOK, RunTyped
  <2>8. GrantsHaveExports'
    BY <1>1 DEF SafetyInv, GrantsHaveExports
  <2>9. ASSUME NEW g \in Handlers PROVE MovesOn(run'[g], row)
    <3>1. MovesOn(run'[g], wf)
      BY <2>4, <2>5, IdleFits
    <3> QED
      BY <2>6, <3>1 DEF MovesOn
  <2>10. RowsMoveOn'
    BY <2>1, <2>9 DEF RowsMoveOn
  <2>11. ASSUME ~blurred' PROVE Undisturbed'
    <3>1. Quiet /\ Undisturbed
      BY <1>1, <2>4, <2>11 DEF Quiet, Mailing, Sending, SafetyInv
    <3>2. mailed = 0
      BY <1>3, <3>1, NotTold
    <3>3. row.status \notin {"waiting_on_user", "waiting_on_counterparty"}
      BY <2>2, <2>3 DEF Open
    <3>4. BoundRow(row, ledger)
      BY <3>3 DEF BoundRow, Ready
    <3>5. ToldRow(row, mailed) /\ WritebackRow(row, mailed)
      BY <2>3, <3>2, <3>3 DEF ToldRow, WritebackRow
    <3>6. \A g \in Handlers : ~Mailing(g)'
      BY <2>6 DEF Mailing, Sending
    <3>7. \A g \in Handlers : Careful(run'[g], row, ledger, mailed)
      BY <2>6 DEF Careful
    <3> QED
      BY <1>1, <2>1, <3>4, <3>5, <3>6, <3>7 DEF Undisturbed
  <2> QED
    BY <2>7, <2>8, <2>10, <2>11 DEF SafetyInv
<1> QED
  BY <1>2, <1>3

(* What a step of one handler that leaves the row alone keeps in any case, *)
(* mails sent and updates lost included.                                   *)
LEMMA Moved ==
    ASSUME SafetyInv, NEW h \in Handlers, NEW x, run' = [run EXCEPT ![h] = x],
           UNCHANGED <<wf, ledger>>, mailed' \in 0..2, blurred' \in BOOLEAN,
           RunTyped(x), MovesOn(x, wf)
    PROVE  /\ TypeOK' /\ GrantsHaveExports' /\ RowsMoveOn'
           /\ run'[h] = x /\ \A g \in Handlers : g # h => run'[g] = run[g]
<1>1. /\ TypeOK /\ run = [g \in Handlers |-> run[g]]
      /\ \A g \in Handlers : RunTyped(run[g]) /\ MovesOn(run[g], wf)
  BY Carries
<1>2. /\ run' = [g \in Handlers |-> run'[g]] /\ run'[h] = x
      /\ \A g \in Handlers : g # h => run'[g] = run[g]
  BY <1>1
<1>3. \A g \in Handlers : RunTyped(run'[g]) /\ MovesOn(run'[g], wf)
  BY <1>1, <1>2
<1>4. TypeOK'
  BY <1>1, <1>2, <1>3 DEF TypeOK, RunTyped
<1>5. GrantsHaveExports'
  BY DEF SafetyInv, GrantsHaveExports
<1>6. RowsMoveOn'
  BY <1>3 DEF RowsMoveOn
<1> QED
  BY <1>2, <1>4, <1>5, <1>6

(* The mail goes out, or does not, while nobody else is sending. *)
LEMMA MailStep ==
    ASSUME SafetyInv, NEW h \in Handlers, Mail(h)
    PROVE  SafetyInv'
<1>1. PICK pc \in {"delivered", "undelivered"} :
        /\ Goto(h, pc) /\ UNCHANGED <<wf, ledger>>
        /\ \/ pc = "delivered" /\ mailed' = mailed + 1 /\ UNCHANGED blurred
           \/ blurred' = TRUE /\ mailed' = mailed + 1
           \/ pc = "undelivered" /\ UNCHANGED <<mailed, blurred>>
  BY DEF Mail
<1> DEFINE x == Goes(run[h], pc)
<1>2. run[h].pc = "mail" /\ mailed < 2
  BY DEF Mail
<1>3. run' = [run EXCEPT ![h] = x]
  BY <1>1 DEF Goto, Goes
<1>4. /\ TypeOK /\ RunTyped(run[h]) /\ MovesOn(run[h], wf) /\ wf.status # "none"
      /\ mailed \in 0..2 /\ blurred \in BOOLEAN
  BY <1>2, Carries DEF TypeOK
<1>5. pc \in Pcs
  BY DEF Pcs
<1>6. /\ RunTyped(x) /\ x.pc = pc /\ x.fresh = run[h].fresh /\ x.w = run[h].w
      /\ x.u = run[h].u /\ x.then = run[h].then
  BY <1>4, <1>5, GotoFits
<1> HIDE DEF x
<1>7. MovesOn(x, wf)
  BY <1>4, <1>6 DEF MovesOn
<1>8. mailed' \in 0..2 /\ blurred' \in BOOLEAN
  <2>1. mailed + 1 \in 0..2
    BY <1>2, <1>4
  <2>2. mailed' \in 0..2
    BY <1>1, <1>4, <2>1
  <2>3. blurred' \in BOOLEAN
    BY <1>1, <1>4
  <2> QED
    BY <2>2, <2>3
<1>9. /\ TypeOK' /\ GrantsHaveExports' /\ RowsMoveOn'
      /\ run'[h] = x /\ \A g \in Handlers : g # h => run'[g] = run[g]
  BY <1>1, <1>3, <1>6, <1>7, <1>8, Moved
<1>10. ASSUME ~blurred' PROVE Undisturbed'
  <2>1. ~blurred /\ Undisturbed /\ Mailing(h)
    BY <1>1, <1>2, <1>10 DEF SafetyInv, Mailing, Sending
  <2>2. Sender(h) /\ BoundRow(wf, ledger)
    BY <2>1 DEF Undisturbed
  <2>3. mailed = 0
    BY <1>2, <2>2 DEF Sender
  <2>4. mailed' = IF pc = "delivered" THEN 1 ELSE 0
    BY <1>1, <1>10, <2>3
  <2>5. \A g \in Handlers : Mailing(g)' => g = h
    BY <1>9, <2>2 DEF Sender, Mailing
  <2>6. Mailing(h)'
    BY <1>6, <1>9 DEF Mailing, Sending
  <2>7. Sender(h)'
    BY <1>1, <1>6, <1>9, <2>2, <2>4, <2>5 DEF Sender
  <2>8. ~Quiet'
    BY <2>6 DEF Quiet
  <2> QED
    BY <1>1, <2>2, <2>5, <2>7, <2>8 DEF Undisturbed
<1> QED
  BY <1>9, <1>10 DEF SafetyInv

(* A call dies; if it was sending, what became of the send is lost. *)
LEMMA FailStep ==
    ASSUME SafetyInv, NEW h \in Handlers, Fails(h)
    PROVE  SafetyInv'
<1>1. /\ Goto(h, "idle") /\ UNCHANGED <<wf, ledger, mailed>>
      /\ blurred' = (blurred \/ Mailing(h)) /\ run' = [run EXCEPT ![h] = Idle]
  BY DEF Fails, Goto
<1>2. TypeOK /\ mailed \in 0..2 /\ blurred \in BOOLEAN
  BY DEF SafetyInv, TypeOK
<1>3. CASE ~Mailing(h)
  <2>1. UNCHANGED blurred
    BY <1>1, <1>2, <1>3
  <2> QED
    BY <1>1, <1>3, <2>1, StopStep
<1>4. CASE Mailing(h)
  <2>1. blurred' = TRUE
    BY <1>1, <1>4
  <2>2. TypeOK' /\ GrantsHaveExports' /\ RowsMoveOn'
    BY <1>1, <1>2, <2>1, IdleFits, Moved
  <2> QED
    BY <2>1, <2>2 DEF SafetyInv
<1> QED
  BY <1>3, <1>4

-----------------------------------------------------------------------------
(* Steps of the ledger. *)

(* An answer, an end, a renewal: no request loses the export it had. *)
LEMMA LedgerMovesGrow ==
    ASSUME SafetyInv, LedgerMoves
    PROVE  LedgerGrows
<1> DEFINE Fine(r, row) == /\ row \in LedgerRow /\ row.rev >= ledger[r].rev
                           /\ row.action = "GRANTED" => row.rev > 0
<1>1. ledger \in [Requests -> LedgerRow]
  BY DEF SafetyInv, TypeOK
<1>2. \A r \in Requests :
        /\ ledger[r] \in LedgerRow /\ ledger[r].rev \in Nat
        /\ ledger[r].action = "GRANTED" => ledger[r].rev > 0
  BY <1>1, RevAssumption DEF SafetyInv, GrantsHaveExports, LedgerRow
<1>3. ASSUME NEW r \in Requests, NEW row, Fine(r, row), ledger' = [ledger EXCEPT ![r] = row]
      PROVE  LedgerGrows
  <2>1. \A q \in Requests : ledger'[q] = IF q = r THEN row ELSE ledger[q]
    BY <1>1, <1>3
  <2>2. ledger' \in [Requests -> LedgerRow]
    BY <1>1, <1>3
  <2>3. ASSUME NEW q \in Requests
        PROVE  /\ ledger'[q].rev >= ledger[q].rev
               /\ ledger'[q].action = "GRANTED" => ledger'[q].rev > 0
    <3>1. CASE q = r
      BY <1>3, <2>1, <3>1
    <3>2. CASE q # r
      BY <1>2, <2>1, <3>2
    <3> QED
      BY <3>1, <3>2
  <2> QED
    BY <2>2, <2>3 DEF LedgerGrows
<1>4. ASSUME NEW r \in Requests, Grant(r) PROVE LedgerGrows
  <2>1. PICK n \in Newer : ledger' = [ledger EXCEPT ![r] =
                             [action |-> "GRANTED", live |-> TRUE, rev |-> n]]
    BY <1>4 DEF Grant
  <2> DEFINE row == [action |-> "GRANTED", live |-> TRUE, rev |-> n]
  <2>2. n \in 1..MaxRev /\ n > ledger[r].rev /\ n \in Nat
    BY RevAssumption DEF Newer
  <2>3. row \in LedgerRow /\ row.rev = n
    BY <2>2, RevAssumption DEF LedgerRow, Actions
  <2>4. ledger' = [ledger EXCEPT ![r] = row]
    BY <2>1
  <2> HIDE DEF row
  <2>5. Fine(r, row)
    BY <1>2, <2>2, <2>3, RevAssumption
  <2> QED
    BY <1>3, <2>4, <2>5
<1>5. CASE Answer
  <2>1. CASE Grant("own")
    BY <1>4, <2>1 DEF Requests
  <2>2. CASE \E a \in {"REFUSED", "TIMEOUT"} : ledger' = [ledger EXCEPT !["own"].action = a]
    <3>1. PICK a \in {"REFUSED", "TIMEOUT"} : ledger' = [ledger EXCEPT !["own"].action = a]
      BY <2>2
    <3> DEFINE row == [ledger["own"] EXCEPT !.action = a]
    <3>2. "own" \in Requests /\ ledger["own"] \in LedgerRow /\ ledger["own"].rev \in Nat
      BY <1>2 DEF Requests
    <3>3. row \in LedgerRow /\ row.rev = ledger["own"].rev /\ row.action = a
      BY <3>2 DEF LedgerRow, Actions
    <3>4. ledger' = [ledger EXCEPT !["own"] = row]
      BY <3>1
    <3> HIDE DEF row
    <3>5. Fine("own", row)
      BY <3>2, <3>3
    <3> QED
      BY <1>3, <3>2, <3>4, <3>5
  <2> QED
    BY <1>5, <2>1, <2>2 DEF Answer
<1>6. CASE GrantElsewhere
  BY <1>4, <1>6 DEF GrantElsewhere, Requests
<1>7. CASE Revoke
  <2>1. PICK r \in Active : ledger' = [ledger EXCEPT ![r].action = "REFUSED", ![r].live = FALSE]
    BY <1>7 DEF Revoke
  <2> DEFINE row == [ledger[r] EXCEPT !.action = "REFUSED", !.live = FALSE]
  <2>2. r \in Requests /\ ledger[r] \in LedgerRow /\ ledger[r].rev \in Nat
    BY <1>2 DEF Active
  <2>3. row \in LedgerRow /\ row.rev = ledger[r].rev /\ row.action = "REFUSED"
    BY <2>2 DEF LedgerRow, Actions
  <2>4. ledger' = [ledger EXCEPT ![r] = row]
    BY <1>1, <2>1, <2>2
  <2> HIDE DEF row
  <2>5. Fine(r, row)
    BY <2>2, <2>3
  <2> QED
    BY <1>3, <2>2, <2>4, <2>5
<1>8. CASE Expire
  <2>1. PICK r \in Active : ledger' = [ledger EXCEPT ![r].live = FALSE]
    BY <1>8 DEF Expire
  <2> DEFINE row == [ledger[r] EXCEPT !.live = FALSE]
  <2>2. r \in Requests /\ ledger[r] \in LedgerRow /\ ledger[r].rev \in Nat
    BY <1>2 DEF Active
  <2>3. row \in LedgerRow /\ row.rev = ledger[r].rev /\ row.action = ledger[r].action
    BY <2>2 DEF LedgerRow
  <2>4. ledger' = [ledger EXCEPT ![r] = row]
    BY <2>1
  <2> HIDE DEF row
  <2>5. Fine(r, row)
    BY <1>2, <2>2, <2>3
  <2> QED
    BY <1>3, <2>2, <2>4, <2>5
<1>9. CASE RefreshExport
  <2>1. PICK r \in Active, n \in Newer : ledger' = [ledger EXCEPT ![r].rev = n]
    BY <1>9 DEF RefreshExport
  <2> DEFINE row == [ledger[r] EXCEPT !.rev = n]
  <2>2. r \in Requests /\ ledger[r] \in LedgerRow /\ ledger[r].rev \in Nat
    BY <1>2 DEF Active
  <2>3. n \in 1..MaxRev /\ n > ledger[r].rev /\ n \in Nat
    BY <2>2, RevAssumption DEF Newer
  <2>4. row \in LedgerRow /\ row.rev = n
    BY <2>2, <2>3, RevAssumption DEF LedgerRow
  <2>5. ledger' = [ledger EXCEPT ![r] = row]
    BY <2>1
  <2> HIDE DEF row
  <2>6. Fine(r, row)
    BY <2>2, <2>3, <2>4
  <2> QED
    BY <1>3, <2>2, <2>5, <2>6
<1> QED
  BY <1>5, <1>6, <1>7, <1>8, <1>9 DEF LedgerMoves

LEMMA LedgerStep ==
    ASSUME SafetyInv, LedgerMoves
    PROVE  SafetyInv'
<1>1. LedgerGrows /\ UNCHANGED <<wf, run, mailed, blurred>>
  BY LedgerMovesGrow DEF LedgerMoves
<1>2. /\ TypeOK /\ wf \in Rows /\ \A h \in Handlers : RunTyped(run[h])
  BY DEF SafetyInv, TypeOK, RunTyped
<1>3. TypeOK' /\ GrantsHaveExports' /\ RowsMoveOn'
  BY <1>1, <1>2 DEF SafetyInv, TypeOK, LedgerGrows, GrantsHaveExports, RowsMoveOn
<1>4. ASSUME ~blurred' PROVE Undisturbed'
  <2>1. Undisturbed
    BY <1>1, <1>4 DEF SafetyInv
  <2>2. BoundRow(wf, ledger')
    BY <1>1, <1>2, <2>1, BoundStays DEF Undisturbed
  <2>3. \A h \in Handlers : Mailing(h)' <=> Mailing(h)
    BY <1>1 DEF Mailing
  <2>4. ASSUME NEW h \in Handlers, Mailing(h)' PROVE Sender(h)'
    <3>1. Sender(h)
      BY <2>1, <2>3, <2>4 DEF Undisturbed
    <3> QED
      BY <1>1, <2>3, <3>1 DEF Sender
  <2>5. ASSUME Quiet, NEW h \in Handlers, run[h].fresh
        PROVE  Careful(run[h], wf, ledger', mailed)
    <3>1. Careful(run[h], wf, ledger, mailed)
      BY <2>1, <2>5 DEF Undisturbed
    <3> QED
      BY <1>1, <1>2, <3>1, CarefulStays
  <2>6. Quiet' <=> Quiet
    BY <2>3 DEF Quiet
  <2>7. Quiet => ToldRow(wf, mailed) /\ WritebackRow(wf, mailed)
    BY <2>1 DEF Undisturbed
  <2> QED
    BY <1>1, <2>2, <2>4, <2>5, <2>6, <2>7 DEF Undisturbed
<1> QED
  BY <1>3, <1>4 DEF SafetyInv

-----------------------------------------------------------------------------
(* The invariant and the theorems. *)

LEMMA SafetyInit ==
    ASSUME Init
    PROVE  SafetyInv
<1>1. 0 \in 0..MaxRev
  BY RevAssumption
<1>2. NoRow \in Rows /\ NoRow.status = "none" /\ NoRow.wb = "not_started"
  BY <1>1 DEF NoRow, Rows, Statuses, Drafts
<1>3. /\ run = [h \in Handlers |-> run[h]]
      /\ \A h \in Handlers : run[h] = Idle
  BY DEF Init
<1>4. \A h \in Handlers : RunTyped(run[h]) /\ MovesOn(run[h], wf) /\ run[h].pc = "idle"
  BY <1>3, IdleFits
<1>5. ledger \in [Requests -> LedgerRow]
  BY <1>1 DEF Init, LedgerRow, Actions
<1>6. TypeOK
  <2>1. wf \in Rows /\ mailed \in 0..2 /\ blurred \in BOOLEAN
    <3>1. wf \in Rows
      BY <1>2 DEF Init
    <3>2. mailed \in 0..2
      BY DEF Init
    <3>3. blurred \in BOOLEAN
      BY DEF Init
    <3> QED
      BY <3>1, <3>2, <3>3
  <2>2. \A h \in Handlers : run[h] \in RunRow(run[h].u) /\ Typed(run[h].u)
    BY <1>4 DEF RunTyped
  <2>3. run = [h \in Handlers |-> run[h]]
    BY <1>3
  <2> QED
    BY <1>5, <2>1, <2>2, <2>3 DEF TypeOK
<1>7. GrantsHaveExports
  BY DEF Init, GrantsHaveExports
<1>8. RowsMoveOn
  BY <1>4 DEF RowsMoveOn
<1>9. Undisturbed
  <2>1. \A h \in Handlers : ~Mailing(h)
    BY <1>4 DEF Mailing, Sending
  <2>2. BoundRow(wf, ledger) /\ ToldRow(wf, mailed) /\ WritebackRow(wf, mailed)
    BY <1>2 DEF Init, BoundRow, Ready, ToldRow, WritebackRow
  <2>3. \A h \in Handlers : Careful(run[h], wf, ledger, mailed)
    BY <1>3, IdleFits
  <2> QED
    BY <2>1, <2>2, <2>3 DEF Undisturbed
<1> QED
  BY <1>6, <1>7, <1>8, <1>9 DEF SafetyInv

LEMMA SafetyStep ==
    ASSUME SafetyInv, [Next]_vars
    PROVE  SafetyInv'
<1>1. CASE LedgerMoves
  BY <1>1, LedgerStep
<1>2. ASSUME NEW h \in Handlers, Step(h) PROVE SafetyInv'
  <2>1. CASE Intake(h)
    BY <2>1, IntakeStep
  <2>2. CASE InsertWorkflow(h)
    BY <2>2, InsertStep
  <2>3. CASE Redeliver(h)
    BY <2>3, RedeliverStep
  <2>4. CASE Repair(h)
    BY <2>4, RepairStep
  <2>5. CASE ConfirmProposal(h)
    BY <2>5, ConfirmStep
  <2>6. CASE SelectScopes(h)
    BY <2>6, SelectStep
  <2>7. CASE Prepare(h)
    BY <2>7, PrepareStep
  <2>8. CASE EnsureConsentRequest(h)
    BY <2>8, EnsureStep
  <2>9. CASE RefreshWorkflow(h)
    BY <2>9, RefreshStep
  <2>10. CASE Recover(h)
    BY <2>10, RecoverStep
  <2>11. CASE Look(h)
    BY <2>11, LookStep
  <2>12. CASE Write(h)
    BY <2>12, WriteStep
  <2>13. CASE SendApprovedReply(h)
    BY <2>13, SendStep
  <2>14. CASE RequireSendable(h)
    BY <2>14, RequireStep
  <2>15. CASE Mail(h)
    BY <2>15, MailStep
  <2>16. CASE RecordSend(h)
    BY <2>16, RecordStep
  <2>17. CASE Redraft(h)
    BY <2>17, RedraftStep
  <2>18. CASE RedraftModel(h)
    BY <2>18, BareStep DEF RedraftModel, Ready
  <2>19. CASE RejectDraft(h)
    BY <2>19, RejectStep
  <2>20. CASE ArchiveWorkflow(h)
    BY <2>20, BareStep DEF ArchiveWorkflow
  <2>21. CASE MarkWriteback(h)
    BY <2>21, MarkStep
  <2>22. CASE Fails(h)
    BY <2>22, FailStep
  <2> QED
    BY <1>2, <2>1, <2>2, <2>3, <2>4, <2>5, <2>6, <2>7, <2>8, <2>9, <2>10, <2>11, <2>12,
       <2>13, <2>14, <2>15, <2>16, <2>17, <2>18, <2>19, <2>20, <2>21, <2>22 DEF Step
<1>3. CASE UNCHANGED vars
  <2>1. /\ wf' = wf /\ ledger' = ledger /\ run' = run /\ mailed' = mailed
        /\ blurred' = blurred
    BY <1>3 DEF vars
  <2>2. TypeOK' /\ GrantsHaveExports' /\ RowsMoveOn'
    BY <2>1 DEF SafetyInv, TypeOK, GrantsHaveExports, RowsMoveOn
  <2>3. Undisturbed' <=> Undisturbed
    BY <2>1 DEF Undisturbed, Quiet, Mailing, Sender
  <2> QED
    BY <2>1, <2>2, <2>3 DEF SafetyInv
<1> QED
  BY <1>1, <1>2, <1>3 DEF Next

LEMMA SafetyAlways == Spec => []SafetyInv
<1>1. Init => SafetyInv
  BY SafetyInit
<1>2. SafetyInv /\ [Next]_vars => SafetyInv'
  BY SafetyStep
<1> QED
  BY <1>1, <1>2, PTL DEF Spec

(* Every row, ledger entry and handler keeps its type: an update names columns *)
(* of the row only and writes values the service declares, whatever order the  *)
(* calls read, write, fail and overwrite each other in.                        *)
THEOREM TypeCorrect == Spec => []TypeOK
<1>1. SafetyInv => TypeOK
  BY DEF SafetyInv
<1> QED
  BY <1>1, SafetyAlways, PTL

(* send_approved_reply: up to the first lost update, disturbed send or lost    *)
(* outcome the counterparty gets at most one reply, though send_status is      *)
(* never checked: the reply moves the row to a status no call sends from.      *)
THEOREM RepliesOnce == Spec => []OneReply
<1>1. SafetyInv => OneReply
  <2>1. SUFFICES ASSUME SafetyInv, ~blurred
                 PROVE  ~(mailed > 1)
    BY DEF OneReply, SafetyInv, TypeOK
  <2>2. Undisturbed
    BY <2>1 DEF SafetyInv
  <2>3. CASE Quiet
    <3>1. ToldRow(wf, mailed)
      BY <2>2, <2>3 DEF Undisturbed
    <3> QED
      BY <3>1 DEF ToldRow
  <2>4. CASE ~Quiet
    <3>1. PICK h \in Handlers : Mailing(h)
      BY <2>4 DEF Quiet
    <3>2. Sender(h)
      BY <2>2, <3>1 DEF Undisturbed
    <3> QED
      BY <3>2 DEF Sender
  <2> QED
    BY <2>3, <2>4
<1> QED
  BY <1>1, SafetyAlways, PTL

(* refresh_workflow, select_scopes: a ready draft names a request and is bound  *)
(* to an export of it, not to a later one than there is.                       *)
THEOREM ReadyBound == Spec => []ReadyIsBound
<1>1. SafetyInv => ReadyIsBound
  BY DEF SafetyInv, Undisturbed, BoundRow, ReadyIsBound
<1> QED
  BY <1>1, SafetyAlways, PTL

(* send_approved_reply, mark_writeback_complete: the writeback is open or done  *)
(* only if the reply is out and recorded, or its sending is under way.         *)
THEOREM WritebackFollows == Spec => []WritebackFollowsSend
<1>1. SafetyInv => WritebackFollowsSend
  <2>1. SUFFICES ASSUME SafetyInv, ~blurred, wf.wb # "not_started"
                 PROVE  \/ mailed = 1 /\ wf.send = "sent"
                        \/ wf.wb = "pending" /\ \E h \in Handlers : Mailing(h)
    BY DEF WritebackFollowsSend
  <2>2. Undisturbed
    BY <2>1 DEF SafetyInv
  <2>3. CASE Quiet
    <3>1. ToldRow(wf, mailed) /\ WritebackRow(wf, mailed)
      BY <2>2, <2>3 DEF Undisturbed
    <3>2. mailed = 1
      BY <2>1, <3>1 DEF WritebackRow
    <3> QED
      BY <3>1, <3>2 DEF ToldRow
  <2>4. CASE ~Quiet
    <3>1. PICK h \in Handlers : Mailing(h)
      BY <2>4 DEF Quiet
    <3>2. Sender(h)
      BY <2>2, <3>1 DEF Undisturbed
    <3> QED
      BY <3>1, <3>2 DEF Sender
  <2> QED
    BY <2>3, <2>4
<1> QED
  BY <1>1, SafetyAlways, PTL

=============================================================================
