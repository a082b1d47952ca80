-------------------------- MODULE PayrollRunsProofs --------------------------
(***************************************************************************)
(* Proofs about PayrollRuns for any runs, employees, items and number of   *)
(* worker threads: type correctness, and that an item is bound only to a   *)
(* run that is locked.                                                     *)
(*                                                                         *)
(* The inductive invariant adds what a thread knows while it holds the row *)
(* lock of a run (Holding): the run it is about to rebuild or lock has     *)
(* still the status it read.                                               *)
(***************************************************************************)
EXTENDS PayrollRuns, TLAPS

\* A request has the objects its kind of operation works on.
Complete(p) ==
    /\ req[p].op \in RunOp => req[p].run \in Run
    /\ req[p].op = "settle" => req[p].emp \in Employee
    /\ req[p].op \in {"edit", "drop"} => req[p].item \in Item

\* What a request knows of the run whose row lock it holds.
Holding(p) ==
    /\ req[p].op = "build_read" =>
         /\ rowLock[req[p].run] = p
         /\ OnItsLines(req[p].snap)
         /\ req[p].snap.status \in {"draft", "locked"}
         /\ req[p].snap.deleted = FALSE
         /\ \/ run[req[p].run].status = req[p].snap.status
            \/ run[req[p].run].status = "absent"
    /\ req[p].op = "lock_read" =>
         /\ rowLock[req[p].run] = p
         /\ run[req[p].run].status = "draft"
         /\ run[req[p].run].deleted = FALSE

RequestsKnow == \A p \in Proc : Complete(p) /\ Holding(p)

IInv == TypeOK /\ BoundToLocked /\ LockedIsVisible /\ RequestsKnow

-----------------------------------------------------------------------------
(* Records and helpers *)

LEMMA NoRowType ==
    ASSUME NEW status \in RunStatus
    PROVE  NoRow(status) \in Row /\ OnItsLines(NoRow(status))
BY DEF NoRow, Row, OnItsLines

LEMMA IdleType == Idle \in Request
<1>1. NoRow("absent") \in Row
  BY NoRowType DEF RunStatus
<1> QED
  BY <1>1 DEF Idle, Request, Op

LEMMA UnboundType ==
    ASSUME NEW r \in Run, applied \in [Item -> Run \cup {NoRun}]
    PROVE  /\ Unbound(r) \in [Item -> Run \cup {NoRun}]
           /\ \A i \in Item : Unbound(r)[i] = IF applied[i] = r THEN NoRun
                                                                 ELSE applied[i]
BY DEF Unbound

LEMMA ReleasedType ==
    ASSUME NEW p \in Proc, rowLock \in [Run -> Proc \cup {NoProc}]
    PROVE  /\ Released(p) \in [Run -> Proc \cup {NoProc}]
           /\ \A r \in Run : Released(p)[r] = IF rowLock[r] = p THEN NoProc
                                                                ELSE rowLock[r]
BY DEF Released

LEMMA RebuiltType ==
    ASSUME TypeOK, NEW r \in Run, run[r].status # "gone"
    PROVE  /\ Rebuilt(r) \in Row
           /\ OnItsLines(Rebuilt(r))
           /\ Rebuilt(r).deleted = FALSE
           /\ Rebuilt(r).counted = Rebuilt(r).lines
           /\ Rebuilt(r).status \in {"draft", "locked"}
           /\ Rebuilt(r).status = run[r].status \/ run[r].status = "absent"
           /\ Rebuilt(r).status = "locked" => run[r].status = "locked"
<1> DEFINE lines == (Members[KeyOf[r]] \ terminated) \ LockedElsewhere(r)
           status == IF run[r].status = "absent" THEN "draft" ELSE run[r].status
<1>1. KeyOf[r] \in Key
  BY PayrollAssumption
<1>2. Members[KeyOf[r]] \subseteq Employee
  BY <1>1, PayrollAssumption
<1>3. lines \subseteq Employee
  BY <1>2
<1>4. Chargeable(r, lines) \subseteq Item
  BY DEF Chargeable
<1>5. \A i \in Chargeable(r, lines) : OwnerOf[i] \in lines
  BY DEF Chargeable
<1>6. run[r] \in Row
  BY DEF TypeOK
<1>7. run[r].status \in RunStatus
  BY <1>6 DEF Row
<1>8. status \in {"draft", "locked"}
  BY <1>7 DEF RunStatus
<1>9. Rebuilt(r) = [status |-> status, deleted |-> FALSE, lines |-> lines,
                    charged |-> Chargeable(r, lines), counted |-> lines]
  BY DEF Rebuilt
<1> HIDE DEF lines
<1>10. Rebuilt(r) \in Row
  BY <1>3, <1>4, <1>8, <1>9 DEF Row, RunStatus
<1>11. OnItsLines(Rebuilt(r))
  BY <1>5, <1>9 DEF OnItsLines
<1> QED
  BY <1>7, <1>8, <1>9, <1>10, <1>11

LEMMA WithoutLineType ==
    ASSUME NEW row \in Row, OnItsLines(row), NEW e
    PROVE  /\ WithoutLine(row, e) \in Row
           /\ OnItsLines(WithoutLine(row, e))
           /\ WithoutLine(row, e).status = row.status
           /\ WithoutLine(row, e).deleted = row.deleted
<1>1. /\ row.lines \ {e} \in SUBSET Employee
      /\ {i \in row.charged : OwnerOf[i] # e} \in SUBSET Item
  BY DEF Row
<1>2. WithoutLine(row, e) = [row EXCEPT !.lines = row.lines \ {e},
                               !.charged = {i \in row.charged : OwnerOf[i] # e}]
  BY DEF WithoutLine
<1>3. /\ WithoutLine(row, e).lines = row.lines \ {e}
      /\ WithoutLine(row, e).charged = {i \in row.charged : OwnerOf[i] # e}
      /\ WithoutLine(row, e).status = row.status
      /\ WithoutLine(row, e).deleted = row.deleted
  BY <1>2 DEF Row
<1>4. WithoutLine(row, e) \in Row
  BY <1>1, <1>2 DEF Row
<1>5. OnItsLines(WithoutLine(row, e))
  BY <1>3 DEF OnItsLines
<1> QED
  BY <1>3, <1>4, <1>5

LEMMA InitIInv == Init => IInv
<1> SUFFICES ASSUME Init PROVE IInv
  OBVIOUS
<1>1. NoRow("absent") \in Row /\ OnItsLines(NoRow("absent"))
  BY NoRowType DEF RunStatus
<1>2. \A p \in Proc : req[p].op = "idle"
  BY DEF Init, Idle
<1>3. TypeOK
  BY <1>1, IdleType DEF Init, TypeOK, ItemStatus
<1>4. BoundToLocked
  BY DEF Init, BoundToLocked
<1>5. LockedIsVisible
  BY DEF Init, LockedIsVisible, NoRow
<1>6. RequestsKnow
  BY <1>2 DEF RequestsKnow, Complete, Holding, RunOp
<1> QED
  BY <1>3, <1>4, <1>5, <1>6 DEF IInv
-----------------------------------------------------------------------------
(* Steps *)

\* What the other requests know survives a step of p that respects their locks.
LEMMA OthersKnow ==
    ASSUME IInv, NEW p \in Proc,
           \A q \in Proc \ {p} :
             /\ req'[q].op = req[q].op
             /\ req'[q].run = req[q].run
             /\ req'[q].snap = req[q].snap
             /\ req'[q].emp = req[q].emp
             /\ req'[q].item = req[q].item,
           \A r \in Run : rowLock[r] \in Proc \ {p} =>
             /\ rowLock'[r] = rowLock[r]
             /\ run'[r].status = run[r].status
             /\ run'[r].deleted = run[r].deleted,
           Complete(p)', Holding(p)'
    PROVE  RequestsKnow'
<1> SUFFICES ASSUME NEW q \in Proc PROVE Complete(q)' /\ Holding(q)'
  BY DEF RequestsKnow
<1>1. CASE q = p
  BY <1>1
<1>2. CASE q # p
  <2>1. Complete(q) /\ Holding(q) /\ q \in Proc \ {p}
    BY <1>2 DEF IInv, RequestsKnow
  <2>2. Complete(q)'
    BY <2>1 DEF Complete
  <2>3. CASE req[q].op = "build_read"
    <3>1. req[q].run \in Run /\ rowLock[req[q].run] = q
      BY <2>1, <2>3 DEF Complete, Holding, RunOp
    <3>2. /\ rowLock'[req[q].run] = q
          /\ run'[req[q].run].status = run[req[q].run].status
      BY <2>1, <3>1
    <3> QED
      BY <2>1, <2>2, <2>3, <3>2 DEF Holding, OnItsLines
  <2>4. CASE req[q].op = "lock_read"
    <3>1. req[q].run \in Run /\ rowLock[req[q].run] = q
      BY <2>1, <2>4 DEF Complete, Holding, RunOp
    <3>2. /\ rowLock'[req[q].run] = q
          /\ run'[req[q].run].status = run[req[q].run].status
          /\ run'[req[q].run].deleted = run[req[q].run].deleted
      BY <2>1, <3>1
    <3> QED
      BY <2>1, <2>2, <2>4, <3>2 DEF Holding
  <2>5. CASE req[q].op \notin {"build_read", "lock_read"}
    BY <2>1, <2>2, <2>5 DEF Holding
  <2> QED
    BY <2>3, <2>4, <2>5
<1> QED
  BY <1>1, <1>2

\* A step in which p loads what its request works on, and nothing else happens.
LEMMA LoadStep ==
    ASSUME IInv, NEW p \in Proc, NEW r \in Request,
           req' = [req EXCEPT ![p] = r],
           UNCHANGED <<run, item, applied, terminated, rowLock>>,
           r.op \notin {"build_read", "lock_read"},
           r.op \in RunOp => r.run \in Run,
           r.op = "settle" => r.emp \in Employee,
           r.op \in {"edit", "drop"} => r.item \in Item
    PROVE  IInv'
<1>1. req'[p] = r /\ \A q \in Proc \ {p} : req'[q] = req[q]
  BY DEF IInv, TypeOK
<1>2. TypeOK' /\ BoundToLocked' /\ LockedIsVisible'
  BY DEF IInv, TypeOK, BoundToLocked, LockedIsVisible, OnItsLines
<1>3. Complete(p)' /\ Holding(p)'
  BY <1>1 DEF Complete, Holding
<1>4. RequestsKnow'
  BY <1>1, <1>3, OthersKnow
<1> QED
  BY <1>2, <1>4 DEF IInv

LEMMA FinishFacts ==
    ASSUME TypeOK, NEW p \in Proc, Finish(p)
    PROVE  /\ req' \in [Proc -> Request]
           /\ req'[p].op = "idle"
           /\ \A q \in Proc \ {p} : req'[q] = req[q]
<1>1. req'[p] = Idle
  BY DEF TypeOK, Finish
<1> QED
  BY <1>1, IdleType DEF TypeOK, Finish, Idle

\* A step after which p is idle: what remains to be shown of it.
LEMMA QuietStep ==
    ASSUME IInv, NEW p \in Proc,
           req' \in [Proc -> Request],
           req'[p].op = "idle",
           \A q \in Proc \ {p} :
             /\ req'[q].op = req[q].op
             /\ req'[q].run = req[q].run
             /\ req'[q].snap = req[q].snap
             /\ req'[q].emp = req[q].emp
             /\ req'[q].item = req[q].item,
           run' \in [Run -> Row],
           \A r \in Run : OnItsLines(run'[r]),
           item' \in [Item -> ItemStatus],
           applied' \in [Item -> Run \cup {NoRun}],
           terminated' \subseteq Employee,
           rowLock' \in [Run -> Proc \cup {NoProc}],
           \A r \in Run : rowLock[r] \in Proc \ {p} =>
             /\ rowLock'[r] = rowLock[r]
             /\ run'[r].status = run[r].status
             /\ run'[r].deleted = run[r].deleted,
           BoundToLocked', LockedIsVisible'
    PROVE  IInv'
<1>1. TypeOK'
  BY DEF TypeOK, OnItsLines
<1>2. Complete(p)' /\ Holding(p)'
  BY DEF Complete, Holding, RunOp
<1>3. RequestsKnow'
  BY <1>2, OthersKnow
<1> QED
  BY <1>1, <1>3 DEF IInv

LEMMA OnRunType ==
    ASSUME TypeOK, NEW op \in Op, NEW r \in Run
    PROVE  [Idle EXCEPT !.op = op, !.run = r, !.snap = run[r]] \in Request
<1>1. run[r] \in Row
  BY DEF TypeOK
<1> QED
  BY <1>1, IdleType DEF Request, Idle

LEMMA LoadsKeep ==
    ASSUME IInv, NEW p \in Proc,
           \/ \E r \in Run : BuildStart(p, r) \/ DiscardLoad(p, r) \/ LockAudit(p, r)
           \/ \E e \in Employee : SettleLoad(p, e)
           \/ \E i \in Item, op \in {"edit", "drop"} : ItemLoad(p, op, i)
    PROVE  IInv'
<1>1. ASSUME NEW r \in Run, NEW op \in {"build", "discard", "lock"},
             OnRun(p, op, r), UNCHANGED <<run, item, applied, terminated, rowLock>>
      PROVE  IInv'
  <2> DEFINE new == [Idle EXCEPT !.op = op, !.run = r, !.snap = run[r]]
  <2>1. new \in Request /\ new.op = op /\ new.run = r
    BY OnRunType DEF IInv, Op, RunOp, Idle
  <2>2. req' = [req EXCEPT ![p] = new]
    BY <1>1 DEF OnRun, Start
  <2> HIDE DEF new
  <2> QED
    BY <1>1, <2>1, <2>2, LoadStep
<1>2. ASSUME NEW r \in Run, BuildStart(p, r) \/ DiscardLoad(p, r) \/ LockAudit(p, r)
      PROVE  IInv'
  BY <1>1, <1>2 DEF BuildStart, DiscardLoad, LockAudit
<1>3. ASSUME NEW e \in Employee, SettleLoad(p, e)
      PROVE  IInv'
  <2> DEFINE new == [Idle EXCEPT !.op = "settle", !.emp = e, !.drafts = DraftsOf(e)]
  <2>1. DraftsOf(e) \in SUBSET Run
    BY DEF DraftsOf
  <2>2. new \in Request /\ new.op = "settle" /\ new.emp = e
    BY <2>1, IdleType DEF Request, Idle, Op
  <2>3. req' = [req EXCEPT ![p] = new]
    BY <1>3 DEF SettleLoad, Start
  <2> HIDE DEF new
  <2> QED
    BY <1>3, <2>2, <2>3, LoadStep DEF SettleLoad, RunOp
<1>4. ASSUME NEW i \in Item, NEW op \in {"edit", "drop"}, ItemLoad(p, op, i)
      PROVE  IInv'
  <2> DEFINE new == [Idle EXCEPT !.op = op, !.item = i]
  <2>1. new \in Request /\ new.op = op /\ new.item = i
    BY IdleType DEF Request, Idle, Op
  <2>2. req' = [req EXCEPT ![p] = new]
    BY <1>4 DEF ItemLoad, Start
  <2> HIDE DEF new
  <2> QED
    BY <1>4, <2>1, <2>2, LoadStep DEF ItemLoad, RunOp
<1> QED
  BY <1>2, <1>3, <1>4
LEMMA BuildReadKeeps ==
    ASSUME IInv, NEW p \in Proc, BuildRead(p)
    PROVE  IInv'
<1> DEFINE r == req[p].run
           new == Rebuilt(r)
<1>1. /\ r \in Run /\ TypeOK /\ rowLock[r] = NoProc
      /\ run[r].status # "gone" /\ req[p].op = "build"
  BY DEF IInv, RequestsKnow, Complete, RunOp, BuildRead, StillThere, Hold, RowFree
<1>2. /\ new \in Row /\ OnItsLines(new) /\ new.deleted = FALSE
      /\ new.status \in {"draft", "locked"}
      /\ run[r].status = new.status \/ run[r].status = "absent"
  BY <1>1, RebuiltType
<1>3. /\ req' = [req EXCEPT ![p].op = "build_read", ![p].snap = new]
      /\ rowLock' = [rowLock EXCEPT ![r] = p]
      /\ UNCHANGED <<run, item, applied, terminated>>
  BY DEF BuildRead, Hold
<1> HIDE DEF new
<1>4. req[p] \in Request /\ req \in [Proc -> Request]
  BY <1>1 DEF TypeOK
<1>5. /\ req'[p].op = "build_read" /\ req'[p].snap = new
      /\ req'[p].run = r /\ req'[p].emp = req[p].emp /\ req'[p].item = req[p].item
      /\ \A q \in Proc \ {p} : req'[q] = req[q]
  BY <1>3, <1>4 DEF Request
<1>6. req' \in [Proc -> Request]
  BY <1>2, <1>3, <1>4 DEF Request, Op, RunOp
<1>7. /\ rowLock' \in [Run -> Proc \cup {NoProc}] /\ rowLock'[r] = p
      /\ \A s \in Run \ {r} : rowLock'[s] = rowLock[s]
  BY <1>1, <1>3 DEF TypeOK
<1>8. TypeOK'
  BY <1>1, <1>3, <1>6, <1>7 DEF TypeOK, OnItsLines
<1>9. Complete(p)'
  BY <1>1, <1>5 DEF Complete
<1>10. Holding(p)'
  BY <1>2, <1>3, <1>5, <1>7 DEF Holding, OnItsLines
<1>11. \A s \in Run : rowLock[s] \in Proc \ {p} =>
         rowLock'[s] = rowLock[s] /\ run'[s] = run[s]
  BY <1>1, <1>3, <1>7, PayrollNullAssumption
<1>12. RequestsKnow'
  BY <1>5, <1>9, <1>10, <1>11, OthersKnow
<1>13. BoundToLocked' /\ LockedIsVisible'
  BY <1>3 DEF IInv, BoundToLocked, LockedIsVisible
<1> QED
  BY <1>8, <1>12, <1>13 DEF IInv

LEMMA LockReadKeeps ==
    ASSUME IInv, NEW p \in Proc, LockRead(p)
    PROVE  IInv'
<1> DEFINE r == req[p].run
<1>1. /\ r \in Run /\ TypeOK /\ rowLock[r] = NoProc
      /\ run[r].status = "draft" /\ ~run[r].deleted /\ req[p].op = "lock"
  BY DEF IInv, RequestsKnow, Complete, RunOp, LockRead, LiveDraft, Live, Hold, RowFree
<1>2. run[r] \in Row /\ run[r].deleted = FALSE
  BY <1>1 DEF TypeOK, Row
<1>3. /\ req' = [req EXCEPT ![p].op = "lock_read", ![p].snap = run[r]]
      /\ rowLock' = [rowLock EXCEPT ![r] = p]
      /\ UNCHANGED <<run, item, applied, terminated>>
  BY DEF LockRead, Hold
<1>4. req[p] \in Request /\ req \in [Proc -> Request]
  BY <1>1 DEF TypeOK
<1>5. /\ req'[p].op = "lock_read" /\ req'[p].run = r
      /\ \A q \in Proc \ {p} : req'[q] = req[q]
  BY <1>3, <1>4 DEF Request
<1>6. req' \in [Proc -> Request]
  BY <1>2, <1>3, <1>4 DEF Request, Op, RunOp
<1>7. /\ rowLock' \in [Run -> Proc \cup {NoProc}] /\ rowLock'[r] = p
      /\ \A s \in Run \ {r} : rowLock'[s] = rowLock[s]
  BY <1>1, <1>3 DEF TypeOK
<1>8. TypeOK'
  BY <1>1, <1>3, <1>6, <1>7 DEF TypeOK, OnItsLines
<1>9. Complete(p)'
  BY <1>1, <1>5 DEF Complete
<1>10. Holding(p)'
  BY <1>1, <1>2, <1>3, <1>5, <1>7 DEF Holding
<1>11. \A s \in Run : rowLock[s] \in Proc \ {p} =>
         rowLock'[s] = rowLock[s] /\ run'[s] = run[s]
  BY <1>1, <1>3, <1>7, PayrollNullAssumption
<1>12. RequestsKnow'
  BY <1>5, <1>9, <1>10, <1>11, OthersKnow
<1>13. BoundToLocked' /\ LockedIsVisible'
  BY <1>3 DEF IInv, BoundToLocked, LockedIsVisible
<1> QED
  BY <1>8, <1>12, <1>13 DEF IInv
\* The commit of a rebuild: r is stored or hard-deleted, the standard drafts it
\* replaces are soft-deleted.
LEMMA BuildCommitKeeps ==
    ASSUME IInv, NEW p \in Proc, BuildCommit(p)
    PROVE  IInv'
<1> DEFINE r == req[p].run
           k == KeyOf[r]
           new == Stored(k, req[p].snap)
<1>1. /\ r \in Run /\ TypeOK /\ req[p].op = "build_read" /\ Holding(p)
      /\ k \in Key
  BY PayrollAssumption
  DEF IInv, RequestsKnow, Complete, RunOp, BuildCommit
<1>2. req[p] \in Request /\ req[p].snap \in Row
  BY <1>1 DEF TypeOK, Request
<1>3. /\ new \in Row /\ OnItsLines(new) /\ new.deleted = FALSE
      /\ new.status \in {"draft", "locked", "gone"}
      /\ new.status = "gone" \/ run[r].status = new.status \/ run[r].status = "absent"
  <2>1. CASE new = NoRow("gone")
    BY <2>1, NoRowType DEF NoRow, RunStatus
  <2>2. CASE new = req[p].snap
    BY <1>1, <1>2, <2>2 DEF Holding
  <2> QED
    BY <2>1, <2>2 DEF Stored
<1>4. /\ run' = [s \in Run |->
                   IF s = r THEN new
                   ELSE IF s \in Purged(k) THEN [run[s] EXCEPT !.deleted = TRUE]
                   ELSE run[s]]
      /\ applied' = IF new.status = "gone" THEN Unbound(r) ELSE applied
      /\ rowLock' = Released(p)
      /\ req' = [q \in Proc |-> IF q = p THEN Idle
                               ELSE [req[q] EXCEPT !.drafts = @ \ {r}]]
      /\ UNCHANGED <<item, terminated>>
      /\ \A s \in Purged(k) : RowFree(s)
  BY DEF BuildCommit
<1> HIDE DEF new
<1>5. \A s \in Purged(k) :
        s \in Run /\ run[s].status = "draft" /\ rowLock[s] = NoProc
  BY <1>4 DEF Purged, Purgeable, LiveDraft, RowFree
<1>6. \A s \in Run : run[s] \in Row /\ OnItsLines(run[s])
  BY <1>1 DEF TypeOK
<1>7. ASSUME NEW s \in Run
      PROVE  /\ run'[s] \in Row /\ OnItsLines(run'[s])
             /\ run'[s].status = IF s = r THEN new.status ELSE run[s].status
             /\ s \in Purged(k) /\ s # r => run'[s].status = "draft"
             /\ s \notin Purged(k) /\ s # r => run'[s] = run[s]
             /\ s = r => run'[s].deleted = FALSE
  <2>1. CASE s = r
    BY <1>3, <1>4, <2>1
  <2>2. CASE s # r /\ s \in Purged(k)
    <3>1. run'[s] = [run[s] EXCEPT !.deleted = TRUE]
      BY <1>4, <2>2
    <3>2. /\ run'[s] \in Row
          /\ run'[s].status = run[s].status /\ run'[s].lines = run[s].lines
          /\ run'[s].charged = run[s].charged
      BY <1>6, <3>1 DEF Row
    <3> QED
      BY <1>5, <1>6, <2>2, <3>2 DEF OnItsLines
  <2>3. CASE s # r /\ s \notin Purged(k)
    BY <1>4, <1>6, <2>3
  <2> QED
    BY <2>1, <2>2, <2>3
<1>8. run' \in [Run -> Row]
  BY <1>4, <1>7
<1>9. /\ applied' \in [Item -> Run \cup {NoRun}]
      /\ \A i \in Item :
           /\ applied'[i] \in {applied[i], NoRun}
           /\ new.status = "gone" => applied'[i] # r
  BY <1>1, <1>4, UnboundType, PayrollNullAssumption DEF TypeOK
<1>10. BoundToLocked'
  <2> SUFFICES ASSUME NEW i \in Item, applied'[i] # NoRun
               PROVE  run'[applied'[i]].status = "locked"
    BY DEF BoundToLocked
  <2>1. /\ applied'[i] = applied[i] /\ applied[i] \in Run
        /\ run[applied[i]].status = "locked"
    BY <1>1, <1>9 DEF IInv, BoundToLocked, TypeOK
  <2>2. CASE applied[i] = r
    BY <1>1, <1>3, <1>7, <1>9, <2>1, <2>2
  <2>3. CASE applied[i] # r
    BY <1>7, <2>1, <2>3
  <2> QED
    BY <2>2, <2>3
<1>11. LockedIsVisible'
  <2> SUFFICES ASSUME NEW s \in Run, run'[s].deleted
               PROVE  run'[s].status = "draft"
    BY DEF LockedIsVisible
  <2> QED
    BY <1>7 DEF IInv, LockedIsVisible
<1>12. /\ rowLock' \in [Run -> Proc \cup {NoProc}]
       /\ \A s \in Run : rowLock[s] \in Proc \ {p} => rowLock'[s] = rowLock[s]
  BY <1>1, <1>4, ReleasedType DEF TypeOK
<1>13. \A s \in Run : rowLock[s] \in Proc \ {p} => run'[s] = run[s]
  BY <1>1, <1>5, <1>7, PayrollNullAssumption DEF Holding
<1>14. /\ req' \in [Proc -> Request]
       /\ req'[p].op = "idle"
       /\ \A q \in Proc \ {p} :
            /\ req'[q].op = req[q].op
            /\ req'[q].run = req[q].run
            /\ req'[q].snap = req[q].snap
            /\ req'[q].emp = req[q].emp
            /\ req'[q].item = req[q].item
  <2>1. \A q \in Proc : req[q] \in Request
    BY <1>1 DEF TypeOK
  <2>2. req'[p] = Idle
    BY <1>4
  <2>3. ASSUME NEW q \in Proc \ {p}
        PROVE  /\ req'[q] \in Request
               /\ req'[q].op = req[q].op
               /\ req'[q].run = req[q].run
               /\ req'[q].snap = req[q].snap
               /\ req'[q].emp = req[q].emp
               /\ req'[q].item = req[q].item
    <3>1. req'[q] = [req[q] EXCEPT !.drafts = req[q].drafts \ {r}]
      BY <1>4
    <3> QED
      BY <2>1, <3>1 DEF Request
  <2>4. req' \in [Proc -> Request]
    BY <1>4, <2>2, <2>3, IdleType
  <2> QED
    BY <2>2, <2>3, <2>4 DEF Idle
<1>15. item' \in [Item -> ItemStatus] /\ terminated' \subseteq Employee
  BY <1>1, <1>4 DEF TypeOK
<1>16. \A s \in Run : OnItsLines(run'[s])
  BY <1>7
<1>17. \A s \in Run : rowLock[s] \in Proc \ {p} =>
         /\ rowLock'[s] = rowLock[s]
         /\ run'[s].status = run[s].status
         /\ run'[s].deleted = run[s].deleted
  BY <1>12, <1>13
<1>18. applied' \in [Item -> Run \cup {NoRun}]
  BY <1>9
<1> QED
  BY <1>8, <1>10, <1>11, <1>12, <1>14, <1>15, <1>16, <1>17, <1>18, QuietStep

LEMMA LockCommitKeeps ==
    ASSUME IInv, NEW p \in Proc, LockCommit(p)
    PROVE  IInv'
<1> DEFINE r == req[p].run
<1>1. /\ r \in Run /\ TypeOK /\ rowLock[r] = p
      /\ run[r].status = "draft" /\ run[r].deleted = FALSE
      /\ BoundToLocked /\ LockedIsVisible
  BY DEF IInv, RequestsKnow, Complete, Holding, RunOp, LockCommit
<1>2. /\ run' = [run EXCEPT ![r].status = "locked"]
      /\ applied' = [i \in Item |->
                       IF /\ i \in req[p].snap.charged
                          /\ item[i] = "live"
                          /\ applied[i] = NoRun
                         THEN r ELSE applied[i]]
      /\ rowLock' = Released(p) /\ Finish(p)
      /\ UNCHANGED <<item, terminated>>
  BY DEF LockCommit
<1>3. /\ run' \in [Run -> Row]
      /\ run'[r].status = "locked" /\ run'[r].deleted = FALSE
      /\ run'[r].charged = run[r].charged /\ run'[r].lines = run[r].lines
      /\ \A s \in Run \ {r} : run'[s] = run[s]
  BY <1>1, <1>2 DEF TypeOK, Row, RunStatus
<1>4. \A s \in Run : OnItsLines(run'[s])
  BY <1>1, <1>3 DEF TypeOK, OnItsLines
<1>5. /\ applied' \in [Item -> Run \cup {NoRun}]
      /\ \A i \in Item : applied'[i] \in {applied[i], r}
  BY <1>1, <1>2 DEF TypeOK
<1>6. BoundToLocked'
  BY <1>1, <1>3, <1>5 DEF BoundToLocked, TypeOK
<1>7. LockedIsVisible'
  BY <1>1, <1>3 DEF LockedIsVisible
<1>8. /\ rowLock' \in [Run -> Proc \cup {NoProc}]
      /\ \A s \in Run : rowLock[s] \in Proc \ {p} =>
           rowLock'[s] = rowLock[s] /\ run'[s] = run[s]
  BY <1>1, <1>2, <1>3, ReleasedType DEF TypeOK
<1>9. /\ req' \in [Proc -> Request] /\ req'[p].op = "idle"
      /\ \A q \in Proc \ {p} : req'[q] = req[q]
  BY <1>1, <1>2, FinishFacts
<1> QED
  BY <1>1, <1>2, <1>3, <1>4, <1>5, <1>6, <1>7, <1>8, <1>9, QuietStep DEF TypeOK

LEMMA DiscardCommitKeeps ==
    ASSUME IInv, NEW p \in Proc, DiscardCommit(p)
    PROVE  IInv'
<1> DEFINE r == req[p].run
<1>1. /\ r \in Run /\ TypeOK /\ rowLock[r] = NoProc
      /\ BoundToLocked /\ LockedIsVisible
  BY DEF IInv, RequestsKnow, Complete, RunOp, DiscardCommit, RowFree
<1>2. /\ run' = [run EXCEPT ![r] = NoRow("gone")]
      /\ applied' = Unbound(r) /\ Finish(p)
      /\ UNCHANGED <<item, terminated, rowLock>>
  BY DEF DiscardCommit
<1>3. NoRow("gone") \in Row /\ OnItsLines(NoRow("gone"))
  BY NoRowType DEF RunStatus
<1>4. /\ run' \in [Run -> Row]
      /\ run'[r] = NoRow("gone")
      /\ \A s \in Run \ {r} : run'[s] = run[s]
      /\ \A s \in Run : OnItsLines(run'[s])
  BY <1>1, <1>2, <1>3 DEF TypeOK
<1>5. /\ applied' \in [Item -> Run \cup {NoRun}]
      /\ \A i \in Item : applied'[i] = IF applied[i] = r THEN NoRun ELSE applied[i]
  BY <1>1, <1>2, UnboundType DEF TypeOK
<1>6. BoundToLocked'
  BY <1>1, <1>4, <1>5 DEF BoundToLocked, TypeOK
<1>7. LockedIsVisible'
  BY <1>1, <1>4 DEF LockedIsVisible, NoRow
<1>8. \A s \in Run : rowLock[s] \in Proc \ {p} => run'[s] = run[s]
  BY <1>1, <1>4, PayrollNullAssumption
<1>9. /\ req' \in [Proc -> Request] /\ req'[p].op = "idle"
      /\ \A q \in Proc \ {p} : req'[q] = req[q]
  BY <1>1, <1>2, FinishFacts
<1> QED
  BY <1>1, <1>2, <1>4, <1>5, <1>6, <1>7, <1>8, <1>9, QuietStep DEF TypeOK

LEMMA UnlockKeeps ==
    ASSUME IInv, NEW p \in Proc, NEW r \in Run, Unlock(p, r)
    PROVE  IInv'
<1>1. /\ TypeOK /\ rowLock[r] = NoProc /\ ~run[r].deleted
      /\ BoundToLocked /\ LockedIsVisible /\ req[p].op = "idle"
  BY DEF IInv, Unlock, RowFree, Live
<1>2. /\ run' = [run EXCEPT ![r].status = "draft"]
      /\ applied' = Unbound(r)
      /\ UNCHANGED <<item, terminated, rowLock, req>>
  BY DEF Unlock
<1>3. /\ run' \in [Run -> Row]
      /\ run'[r].status = "draft" /\ run'[r].deleted = run[r].deleted
      /\ run'[r].charged = run[r].charged /\ run'[r].lines = run[r].lines
      /\ \A s \in Run \ {r} : run'[s] = run[s]
  BY <1>1, <1>2 DEF TypeOK, Row, RunStatus
<1>4. \A s \in Run : OnItsLines(run'[s])
  BY <1>1, <1>3 DEF TypeOK, OnItsLines
<1>5. /\ applied' \in [Item -> Run \cup {NoRun}]
      /\ \A i \in Item : applied'[i] = IF applied[i] = r THEN NoRun ELSE applied[i]
  BY <1>1, <1>2, UnboundType DEF TypeOK
<1>6. BoundToLocked'
  BY <1>1, <1>3, <1>5 DEF BoundToLocked, TypeOK
<1>7. LockedIsVisible'
  BY <1>1, <1>3 DEF LockedIsVisible
<1>8. \A s \in Run : rowLock[s] \in Proc \ {p} => run'[s] = run[s]
  BY <1>1, <1>3, PayrollNullAssumption
<1> QED
  BY <1>1, <1>2, <1>3, <1>4, <1>5, <1>6, <1>7, <1>8, QuietStep DEF TypeOK
LEMMA SettleCommitKeeps ==
    ASSUME IInv, NEW p \in Proc, SettleCommit(p)
    PROVE  IInv'
<1> DEFINE e == req[p].emp
<1>1. /\ e \in Employee /\ TypeOK /\ BoundToLocked /\ LockedIsVisible
  BY DEF IInv, RequestsKnow, Complete, SettleCommit
<1>2. /\ terminated' = terminated \cup {e}
      /\ run' = [r \in Run |-> IF r \in req[p].drafts THEN WithoutLine(run[r], e)
                                                    ELSE run[r]]
      /\ Finish(p)
      /\ UNCHANGED <<item, applied, rowLock>>
  BY DEF SettleCommit
<1>3. ASSUME NEW r \in Run
      PROVE  /\ run'[r] \in Row /\ OnItsLines(run'[r])
             /\ run'[r].status = run[r].status
             /\ run'[r].deleted = run[r].deleted
  <2>1. run[r] \in Row /\ OnItsLines(run[r])
    BY <1>1 DEF TypeOK
  <2>2. run'[r] \in {WithoutLine(run[r], e), run[r]}
    BY <1>2
  <2> QED
    BY <2>1, <2>2, WithoutLineType
<1>4. run' \in [Run -> Row]
  BY <1>2, <1>3
<1>5. BoundToLocked' /\ LockedIsVisible'
  BY <1>1, <1>2, <1>3 DEF BoundToLocked, LockedIsVisible, TypeOK
<1>6. /\ req' \in [Proc -> Request] /\ req'[p].op = "idle"
      /\ \A q \in Proc \ {p} : req'[q] = req[q]
  BY <1>1, <1>2, FinishFacts
<1> QED
  BY <1>1, <1>2, <1>3, <1>4, <1>5, <1>6, QuietStep DEF TypeOK

\* Steps that leave the runs alone and bind no item.
LEMMA OtherStepsKeep ==
    ASSUME IInv, NEW p \in Proc,
           \/ \E e \in Employee : Reactivate(p, e)
           \/ \E i \in Item : RecordItem(p, i)
           \/ EditCommit(p)
           \/ DropCommit(p)
           \/ RequestEnds(p)
    PROVE  IInv'
<1>1. TypeOK /\ BoundToLocked /\ LockedIsVisible
  BY DEF IInv
<1>2. UNCHANGED run
  BY DEF Reactivate, RecordItem, EditCommit, DropCommit, RequestEnds
<1>3. /\ run' \in [Run -> Row] /\ LockedIsVisible'
      /\ \A r \in Run : OnItsLines(run'[r])
  BY <1>1, <1>2 DEF TypeOK, LockedIsVisible
<1>4. item' \in [Item -> ItemStatus]
  BY <1>1 DEF Reactivate, RecordItem, EditCommit, DropCommit, RequestEnds, TypeOK,
              ItemStatus
<1>5. /\ applied' \in [Item -> Run \cup {NoRun}]
      /\ \A i \in Item : applied'[i] \in {applied[i], NoRun}
  BY <1>1 DEF Reactivate, RecordItem, EditCommit, DropCommit, RequestEnds, TypeOK
<1>6. terminated' \subseteq Employee
  BY <1>1 DEF Reactivate, RecordItem, EditCommit, DropCommit, RequestEnds, TypeOK
<1>7. /\ rowLock' \in [Run -> Proc \cup {NoProc}]
      /\ \A r \in Run : rowLock[r] \in Proc \ {p} => rowLock'[r] = rowLock[r]
  BY <1>1, ReleasedType
  DEF Reactivate, RecordItem, EditCommit, DropCommit, RequestEnds, TypeOK
<1>8. /\ req' \in [Proc -> Request] /\ req'[p].op = "idle"
      /\ \A q \in Proc \ {p} : req'[q] = req[q]
  <2>1. CASE Finish(p)
    BY <1>1, <2>1, FinishFacts
  <2>2. CASE UNCHANGED req /\ req[p].op = "idle"
    BY <1>1, <2>2 DEF TypeOK
  <2> QED
    BY <2>1, <2>2 DEF Reactivate, RecordItem, EditCommit, DropCommit, RequestEnds
<1>9. BoundToLocked'
  BY <1>1, <1>2, <1>5 DEF BoundToLocked, TypeOK
<1>10. \A r \in Run : rowLock[r] \in Proc \ {p} => run'[r] = run[r]
  BY <1>2
<1> QED
  BY <1>3, <1>4, <1>5, <1>6, <1>7, <1>8, <1>9, <1>10, QuietStep

LEMMA StutterKeeps == IInv /\ UNCHANGED vars => IInv'
BY DEF IInv, vars, TypeOK, OnItsLines, BoundToLocked, LockedIsVisible,
       RequestsKnow, Complete, Holding

LEMMA StepKeepsIInv == IInv /\ [Next]_vars => IInv'
<1> SUFFICES ASSUME IInv, Next PROVE IInv'
  BY StutterKeeps
<1> PICK p \in Proc :
      \/ \E r \in Run : BuildStart(p, r)
      \/ BuildRead(p)
      \/ BuildCommit(p)
      \/ \E r \in Run : DiscardLoad(p, r)
      \/ DiscardCommit(p)
      \/ \E r \in Run : LockAudit(p, r)
      \/ LockRead(p)
      \/ LockCommit(p)
      \/ \E r \in Run : Unlock(p, r)
      \/ \E e \in Employee : SettleLoad(p, e)
      \/ SettleCommit(p)
      \/ \E e \in Employee : Reactivate(p, e)
      \/ \E i \in Item : RecordItem(p, i)
      \/ \E i \in Item, op \in {"edit", "drop"} : ItemLoad(p, op, i)
      \/ EditCommit(p)
      \/ DropCommit(p)
      \/ RequestEnds(p)
  BY DEF Next
<1> QED
  BY LoadsKeep, BuildReadKeeps, BuildCommitKeeps, LockReadKeeps, LockCommitKeeps,
     DiscardCommitKeeps, UnlockKeeps, SettleCommitKeeps, OtherStepsKeep

LEMMA SpecIInv == Spec => []IInv
BY InitIInv, StepKeepsIInv, PTL DEF Spec

\* Every state of the payroll is well typed, and a run charges only the items
\* of the employees on its lines, whatever settlements and rebuilds race.
THEOREM PayrollTypeCorrect == Spec => []TypeOK
<1>1. IInv => TypeOK
  BY DEF IInv
<1> QED
  BY SpecIInv, <1>1, PTL

\* With any number of concurrent requests an item is bound to a locked run or
\* to none.
THEOREM BoundItemsAreLocked == Spec => []BoundToLocked
<1>1. IInv => BoundToLocked
  BY DEF IInv
<1> QED
  BY SpecIInv, <1>1, PTL

\* With any number of concurrent requests no purge hides a locked run.
THEOREM LockedRunsAreVisible == Spec => []LockedIsVisible
<1>1. IInv => LockedIsVisible
  BY DEF IInv
<1> QED
  BY SpecIInv, <1>1, PTL
=============================================================================
