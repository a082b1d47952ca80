---------------------- MODULE PayrollRunsSerialProofs ----------------------
(***************************************************************************)
(* What holds when payroll requests are served one after the other: a      *)
(* locked run is frozen, and every item it charges is bound to it.  With   *)
(* two threads both fail (PayrollRunsChargedTwice.cfg shows the second): a *)
(* request writes on the strength of what it loaded before another one     *)
(* locked the run.  FreshLoads names what is lost.  Together they are the   *)
(* refinement of PayrollPromise.  After them, on the days that make up     *)
(* what a settlement pays: DuesOnlyGrow.                                   *)
(***************************************************************************)
EXTENDS PayrollRunsSerial, PayrollRunsProofs, Entitlements

SerialInv == FreshLoads /\ LockedChargesBound /\ LockedTotalsOfLines

LEMMA InitSerialInv == Init => SerialInv
BY DEF Init, SerialInv, FreshLoads, FreshLoad, LockedChargesBound,
       LockedTotalsOfLines, Idle, NoRow

\* There is no other thread: when p is idle no request has loaded anything.
LEMMA QuietIsFresh ==
    ASSUME NEW p \in Proc, req'[p].op = "idle"
    PROVE  FreshLoads'
BY OneThread DEF FreshLoads, FreshLoad

\* A step that leaves alone the runs that are locked after it, and their items.
LEMMA LockedUntouched ==
    ASSUME SerialInv,
           \A r \in Run : run'[r].status = "locked" => run'[r] = run[r],
           \A r \in Run : KeepsLocked(r),
           \A r \in Run : \A i \in run[r].charged :
             /\ run'[r].status = "locked" /\ item[i] = "live" /\ applied[i] = r
             => item'[i] = "live" /\ applied'[i] = r
    PROVE  LockedChargesBound' /\ LockedTotalsOfLines' /\ AllKeepLocked
<1>1. LockedChargesBound'
  <2> SUFFICES ASSUME NEW r \in Run, run'[r].status = "locked",
                      NEW i \in run'[r].charged
               PROVE  item'[i] = "live" /\ applied'[i] = r
    BY DEF LockedChargesBound
  <2>1. run'[r] = run[r]
    OBVIOUS
  <2>2. run[r].status = "locked" /\ i \in run[r].charged
    BY <2>1
  <2>3. item[i] = "live" /\ applied[i] = r
    BY <2>2 DEF SerialInv, LockedChargesBound
  <2> QED
    BY <2>2, <2>3
<1>2. LockedTotalsOfLines'
  BY DEF SerialInv, LockedTotalsOfLines
<1> QED
  BY <1>1, <1>2 DEF AllKeepLocked

LEMMA RunsUnchanged ==
    ASSUME SerialInv, UNCHANGED <<run, item, applied>>
    PROVE  LockedChargesBound' /\ LockedTotalsOfLines' /\ AllKeepLocked
<1>1. \A r \in Run : KeepsLocked(r)
  BY DEF KeepsLocked
<1> QED
  BY <1>1, LockedUntouched

LEMMA LoadsAreFresh ==
    ASSUME IInv, SerialInv, NEW p \in Proc,
           \/ \E r \in Run : BuildStart(p, r) \/ DiscardLoad(p, r) \/ LockAudit(p, r)
           \/ \E e \in Employee : SettleLoad(p, e)
           \/ \E i \in Item, op \in {"edit", "drop"} : ItemLoad(p, op, i)
    PROVE  SerialInv' /\ AllKeepLocked
<1>0. req \in [Proc -> Request]
  BY DEF IInv, TypeOK
<1>1. UNCHANGED <<run, item, applied>>
  BY DEF BuildStart, DiscardLoad, LockAudit, SettleLoad, ItemLoad
<1>2. ASSUME NEW r \in Run, NEW op \in {"build", "discard", "lock"}, OnRun(p, op, r),
             op = "build" => run[r].status # "locked",
             op # "build" => run[r].status = "draft",
             op = "lock" => Balanced(run[r])
      PROVE  FreshLoad(p)'
  <2>1. req'[p].op = op /\ req'[p].run = r /\ req'[p].snap = run[r]
    BY <1>0, <1>2 DEF OnRun, Start, Idle
  <2> QED
    BY <1>1, <1>2, <2>1 DEF FreshLoad, Balanced
<1>3. ASSUME NEW r \in Run, BuildStart(p, r) \/ DiscardLoad(p, r) \/ LockAudit(p, r)
      PROVE  FreshLoad(p)'
  BY <1>2, <1>3 DEF BuildStart, MayBuild, DiscardLoad, LockAudit, LiveDraft,
                    AuditPasses, Balanced
<1>4. ASSUME NEW e \in Employee, SettleLoad(p, e)
      PROVE  FreshLoad(p)'
  <2>1. req'[p].op = "settle" /\ req'[p].drafts = DraftsOf(e)
    BY <1>0, <1>4 DEF SettleLoad, Start, Idle
  <2> QED
    BY <1>1, <2>1 DEF FreshLoad, DraftsOf
<1>5. ASSUME NEW i \in Item, NEW op \in {"edit", "drop"}, ItemLoad(p, op, i)
      PROVE  FreshLoad(p)'
  <2>1. req'[p].op = op /\ req'[p].item = i
    BY <1>0, <1>5 DEF ItemLoad, Start, Idle
  <2> QED
    BY <1>1, <1>5, <2>1 DEF FreshLoad, ItemLoad
<1>6. FreshLoads'
  BY <1>3, <1>4, <1>5, OneThread DEF FreshLoads
<1> QED
  BY <1>1, <1>6, RunsUnchanged DEF SerialInv

LEMMA BuildReadIsFresh ==
    ASSUME IInv, SerialInv, NEW p \in Proc, BuildRead(p)
    PROVE  SerialInv' /\ AllKeepLocked
<1> DEFINE r == req[p].run
           new == Rebuilt(r)
<1>1. /\ r \in Run /\ TypeOK /\ run[r].status # "gone" /\ req[p].op = "build"
      /\ run[r].status # "locked"
  BY DEF IInv, RequestsKnow, Complete, RunOp, BuildRead, StillThere, SerialInv,
         FreshLoads, FreshLoad
<1>2. new.status # "locked" /\ Balanced(new)
  BY <1>1, RebuiltType DEF Balanced
<1>3. /\ req'[p].op = "build_read" /\ req'[p].snap = new
      /\ UNCHANGED <<run, item, applied>>
  BY <1>1 DEF BuildRead, Hold, TypeOK, Request
<1>4. FreshLoad(p)'
  BY <1>2, <1>3 DEF FreshLoad, Balanced
<1> QED
  BY <1>3, <1>4, RunsUnchanged, OneThread DEF SerialInv, FreshLoads

LEMMA LockReadIsFresh ==
    ASSUME IInv, SerialInv, NEW p \in Proc, LockRead(p)
    PROVE  SerialInv' /\ AllKeepLocked
<1> DEFINE r == req[p].run
<1>1. req \in [Proc -> Request] /\ req[p].op = "lock"
  BY DEF IInv, TypeOK, LockRead
<1>2. Balanced(run[r]) /\ CanBind(run[r])
  BY <1>1 DEF LockRead, SerialInv, FreshLoads, FreshLoad
<1>3. /\ req'[p].op = "lock_read" /\ req'[p].snap = run[r] /\ req'[p].run = r
      /\ UNCHANGED <<run, item, applied>>
  BY <1>1 DEF LockRead, Hold, Request
<1>4. FreshLoad(p)'
  BY <1>2, <1>3 DEF FreshLoad, Balanced, CanBind
<1> QED
  BY <1>3, <1>4, RunsUnchanged, OneThread DEF SerialInv, FreshLoads

LEMMA BuildCommitIsFresh ==
    ASSUME IInv, SerialInv, NEW p \in Proc, BuildCommit(p)
    PROVE  SerialInv' /\ AllKeepLocked
<1> DEFINE r == req[p].run
           k == KeyOf[r]
           new == Stored(k, req[p].snap)
<1>1. /\ r \in Run /\ TypeOK /\ req[p].op = "build_read" /\ Holding(p)
      /\ FreshLoad(p)
  BY DEF IInv, RequestsKnow, Complete, RunOp, BuildCommit, SerialInv, FreshLoads
<1>2. run[r].status # "locked" /\ new.status # "locked"
  BY <1>1 DEF Holding, FreshLoad, Stored, NoRow
<1>3. /\ run' = [s \in Run |->
                   IF s = r THEN new
                   ELSE IF s \in Purged(k) THEN [run[s] EXCEPT !.deleted = TRUE]
                   ELSE run[s]]
      /\ applied' = IF new.status = "gone" THEN Unbound(r) ELSE applied
      /\ UNCHANGED item
      /\ req'[p].op = "idle"
  BY <1>1 DEF BuildCommit, Idle
<1> HIDE DEF new
<1>4. \A s \in Purged(k) : s \in Run /\ run[s].status = "draft"
  BY DEF Purged, Purgeable, LiveDraft
<1>5. \A s \in Run : run[s] \in Row
  BY <1>1 DEF TypeOK
<1>6. ASSUME NEW s \in Run
      PROVE  /\ run'[s].status = "locked" => s # r /\ run'[s] = run[s]
             /\ run[s].status = "locked" => run'[s] = run[s]
  <2>1. CASE s = r
    BY <1>2, <1>3, <2>1
  <2>2. CASE s # r /\ s \in Purged(k)
    <3>1. run'[s].status = "draft" /\ run[s].status = "draft"
      BY <1>3, <1>4, <1>5, <2>2 DEF Row
    <3> QED
      BY <3>1
  <2>3. CASE s # r /\ s \notin Purged(k)
    BY <1>3, <2>3
  <2> QED
    BY <2>1, <2>2, <2>3
<1>7. \A s \in Run : KeepsLocked(s)
  BY <1>6 DEF KeepsLocked
<1>8. \A i \in Item : applied[i] # r => applied'[i] = applied[i]
  BY <1>1, <1>3, UnboundType DEF TypeOK
<1>9. \A s \in Run : \A i \in run[s].charged :
        /\ run'[s].status = "locked" /\ item[i] = "live" /\ applied[i] = s
        => item'[i] = "live" /\ applied'[i] = s
  <2> SUFFICES ASSUME NEW s \in Run, NEW i \in run[s].charged,
                      run'[s].status = "locked", applied[i] = s
               PROVE  applied'[i] = s
    BY <1>3
  <2>1. i \in Item /\ s # r
    BY <1>5, <1>6 DEF Row
  <2> QED
    BY <1>8, <2>1
<1> QED
  BY <1>3, <1>6, <1>7, <1>9, LockedUntouched, QuietIsFresh DEF SerialInv
\* The commit of a lock binds every item that LockRead found unbound.
LEMMA LockCommitIsFresh ==
    ASSUME IInv, SerialInv, NEW p \in Proc, LockCommit(p)
    PROVE  SerialInv' /\ AllKeepLocked
<1> DEFINE r == req[p].run
<1>1. /\ r \in Run /\ TypeOK /\ run[r].status = "draft"
      /\ run[r] = req[p].snap /\ Balanced(run[r]) /\ CanBind(run[r])
  BY DEF IInv, RequestsKnow, Complete, Holding, RunOp, LockCommit, SerialInv,
         FreshLoads, FreshLoad
<1>2. /\ run' = [run EXCEPT ![r].status = "locked"]
      /\ applied' = [i \in Item |->
                       IF /\ i \in req[p].snap.charged
                          /\ item[i] = "live"
                          /\ applied[i] = NoRun
                         THEN r ELSE applied[i]]
      /\ UNCHANGED item
      /\ req'[p].op = "idle"
  BY <1>1 DEF LockCommit, Finish, TypeOK, Idle
<1>3. /\ run'[r].charged = run[r].charged /\ run'[r].lines = run[r].lines
      /\ run'[r].counted = run[r].counted /\ run[r].charged \subseteq Item
      /\ \A s \in Run \ {r} : run'[s] = run[s] /\ run[s].charged \subseteq Item
  BY <1>1, <1>2 DEF TypeOK, Row
<1>4. LockedChargesBound'
  <2>1. ASSUME NEW i \in run[r].charged
        PROVE  item'[i] = "live" /\ applied'[i] = r
    BY <1>1, <1>2, <1>3 DEF CanBind
  <2>2. ASSUME NEW s \in Run \ {r}, run[s].status = "locked",
               NEW i \in run[s].charged
        PROVE  item'[i] = "live" /\ applied'[i] = s
    <3>1. item[i] = "live" /\ applied[i] = s /\ i \in Item
      BY <1>3, <2>2 DEF SerialInv, LockedChargesBound
    <3> QED
      BY <1>2, <3>1, PayrollNullAssumption
  <2> QED
    BY <1>3, <2>1, <2>2 DEF LockedChargesBound
<1>5. LockedTotalsOfLines'
  BY <1>1, <1>3 DEF SerialInv, LockedTotalsOfLines, Balanced
<1>6. AllKeepLocked
  BY <1>1, <1>3 DEF AllKeepLocked, KeepsLocked
<1> QED
  BY <1>2, <1>4, <1>5, <1>6, QuietIsFresh DEF SerialInv

\* Deleting a draft and unlocking a run let go of the items of that run only.
LEMMA LetGoIsFresh ==
    ASSUME IInv, SerialInv, NEW p \in Proc,
           DiscardCommit(p) \/ \E r \in Run : Unlock(p, r)
    PROVE  SerialInv' /\ AllKeepLocked
<1>1. /\ TypeOK /\ \A s \in Run : run[s] \in Row
  BY DEF IInv, TypeOK
<1>2. ASSUME NEW r \in Run, applied' = Unbound(r), UNCHANGED item,
             run'[r].status # "locked", KeepsLocked(r),
             \A s \in Run \ {r} : run'[s] = run[s],
             req'[p].op = "idle"
      PROVE  SerialInv' /\ AllKeepLocked
  <2>1. \A i \in Item : applied[i] # r => applied'[i] = applied[i]
    BY <1>1, <1>2, UnboundType DEF TypeOK
  <2>2. \A s \in Run : \A i \in run[s].charged :
          /\ run'[s].status = "locked" /\ item[i] = "live" /\ applied[i] = s
          => item'[i] = "live" /\ applied'[i] = s
    BY <1>1, <1>2, <2>1 DEF Row
  <2>3. \A s \in Run : KeepsLocked(s)
    BY <1>2 DEF KeepsLocked
  <2>4. \A s \in Run : run'[s].status = "locked" => run'[s] = run[s]
    BY <1>2
  <2> QED
    BY <1>2, <2>2, <2>3, <2>4, LockedUntouched, QuietIsFresh DEF SerialInv
<1>3. ASSUME DiscardCommit(p)
      PROVE  SerialInv' /\ AllKeepLocked
  <2> DEFINE r == req[p].run
  <2>1. r \in Run /\ run[r].status = "draft"
    BY <1>3 DEF IInv, RequestsKnow, Complete, RunOp, DiscardCommit, SerialInv,
                FreshLoads, FreshLoad
  <2>2. /\ run'[r] = NoRow("gone") /\ \A s \in Run \ {r} : run'[s] = run[s]
        /\ applied' = Unbound(r) /\ UNCHANGED item /\ req'[p].op = "idle"
    BY <1>1, <1>3, <2>1 DEF DiscardCommit, TypeOK, Finish, Idle
  <2>3. run'[r].status # "locked" /\ KeepsLocked(r)
    BY <2>1, <2>2 DEF NoRow, KeepsLocked
  <2> QED
    BY <1>2, <2>1, <2>2, <2>3
<1>4. ASSUME NEW r \in Run, Unlock(p, r)
      PROVE  SerialInv' /\ AllKeepLocked
  <2>1. /\ run'[r] = [run[r] EXCEPT !.status = "draft"]
        /\ \A s \in Run \ {r} : run'[s] = run[s]
        /\ applied' = Unbound(r) /\ UNCHANGED item /\ req'[p].op = "idle"
    BY <1>1, <1>4 DEF Unlock, TypeOK
  <2>2. run'[r].status # "locked" /\ KeepsLocked(r)
    BY <1>1, <2>1 DEF Row, KeepsLocked
  <2> QED
    BY <1>2, <2>1, <2>2
<1> QED
  BY <1>3, <1>4

LEMMA SettleCommitIsFresh ==
    ASSUME IInv, SerialInv, NEW p \in Proc, SettleCommit(p)
    PROVE  SerialInv' /\ AllKeepLocked
<1> DEFINE e == req[p].emp
<1>1. /\ TypeOK /\ \A s \in Run : run[s] \in Row /\ OnItsLines(run[s])
      /\ \A s \in req[p].drafts : run[s].status = "draft"
  BY DEF IInv, TypeOK, SettleCommit, SerialInv, FreshLoads, FreshLoad
<1>2. /\ \A s \in Run : run'[s] = IF s \in req[p].drafts THEN WithoutLine(run[s], e)
                                                        ELSE run[s]
      /\ UNCHANGED <<item, applied>> /\ req'[p].op = "idle"
  BY <1>1 DEF SettleCommit, TypeOK, Finish, Idle
<1>3. \A s \in Run : /\ run'[s].status = "locked" => run'[s] = run[s]
                     /\ run[s].status = "locked" => run'[s] = run[s]
  BY <1>1, <1>2, WithoutLineType
<1>4. \A s \in Run : KeepsLocked(s)
  BY <1>3 DEF KeepsLocked
<1> QED
  BY <1>2, <1>3, <1>4, LockedUntouched, QuietIsFresh DEF SerialInv

\* An item that may be edited or deleted is charged by no locked run.
LEMMA OtherStepsAreFresh ==
    ASSUME IInv, SerialInv, NEW p \in Proc,
           \/ \E e \in Employee : Reactivate(p, e)
           \/ \E i \in Item : RecordItem(p, i)
           \/ EditCommit(p)
           \/ DropCommit(p)
           \/ RequestEnds(p)
    PROVE  SerialInv' /\ AllKeepLocked
<1>1. TypeOK /\ \A s \in Run : run[s] \in Row
  BY DEF IInv, TypeOK
<1>2. UNCHANGED run /\ \A s \in Run : KeepsLocked(s)
  BY DEF Reactivate, RecordItem, EditCommit, DropCommit, RequestEnds, KeepsLocked
<1>3. req'[p].op = "idle"
  BY <1>1 DEF Reactivate, RecordItem, EditCommit, DropCommit, RequestEnds, Finish,
              TypeOK, Idle
<1>4. \A i \in Item : item[i] = "live" /\ applied[i] # NoRun =>
                     item'[i] = "live" /\ applied'[i] = applied[i]
  <2>1. CASE EditCommit(p)
    BY <1>1, <2>1 DEF EditCommit, TypeOK, SerialInv, FreshLoads, FreshLoad
  <2>2. CASE DropCommit(p)
    BY <1>1, <2>2 DEF DropCommit, TypeOK, SerialInv, FreshLoads, FreshLoad
  <2>3. CASE \E i \in Item : RecordItem(p, i)
    BY <1>1, <2>3 DEF RecordItem, TypeOK
  <2>4. CASE RequestEnds(p) \/ \E e \in Employee : Reactivate(p, e)
    BY <2>4 DEF RequestEnds, Reactivate
  <2> QED
    BY <2>1, <2>2, <2>3, <2>4
<1>5. \A s \in Run : \A i \in run[s].charged :
        /\ run'[s].status = "locked" /\ item[i] = "live" /\ applied[i] = s
        => item'[i] = "live" /\ applied'[i] = s
  BY <1>1, <1>4, PayrollNullAssumption DEF Row
<1> QED
  BY <1>2, <1>3, <1>5, LockedUntouched, QuietIsFresh DEF SerialInv

LEMMA StutterIsFresh ==
    ASSUME SerialInv, UNCHANGED vars
    PROVE  SerialInv'
<1>1. FreshLoads'
  BY DEF vars, SerialInv, FreshLoads, FreshLoad, Balanced, CanBind
<1> QED
  BY <1>1, RunsUnchanged DEF vars, SerialInv

LEMMA PayrollSerialStep ==
    ASSUME IInv, SerialInv, Next
    PROVE  SerialInv' /\ AllKeepLocked
<1> PICK p \in Proc :
      \/ \E r \in Run : BuildStart(p, r)
      \/ BuildRead(p)
      \/ BuildCommit(p)
      \/ \E r \in Run : DiscardLoad(p, r)
      \/ DiscardCommit(p)
      \/ \E r \in Run : LockAudit(p, r)
      \/ LockRead(p)
      \/ LockCommit(p)
      \/ \E r \in Run : Unlock(p, r)
      \/ \E e \in Employee : SettleLoad(p, e)
      \/ SettleCommit(p)
      \/ \E e \in Employee : Reactivate(p, e)
      \/ \E i \in Item : RecordItem(p, i)
      \/ \E i \in Item, op \in {"edit", "drop"} : ItemLoad(p, op, i)
      \/ EditCommit(p)
      \/ DropCommit(p)
      \/ RequestEnds(p)
  BY DEF Next
<1> QED
  BY LoadsAreFresh, BuildReadIsFresh, BuildCommitIsFresh, LockReadIsFresh,
     LockCommitIsFresh, LetGoIsFresh, SettleCommitIsFresh, OtherStepsAreFresh

LEMMA SpecSerialInv == Spec => []SerialInv
<1>1. IInv /\ SerialInv /\ [Next]_vars => SerialInv'
  BY PayrollSerialStep, StutterIsFresh
<1> QED
  BY SpecIInv, InitSerialInv, <1>1, PTL DEF Spec

\* With one worker thread a locked run changes in no way until it is unlocked:
\* it is not rebuilt, not deleted, loses no line and keeps its totals.
THEOREM SerialLockedIsFrozen == Spec => LockedIsFrozen
<1>1. IInv /\ SerialInv /\ [Next]_vars => [AllKeepLocked]_vars
  BY PayrollSerialStep
<1> QED
  BY SpecIInv, SpecSerialInv, <1>1, PTL DEF Spec, LockedIsFrozen

\* With one worker thread every item a locked run charges is bound to it.
THEOREM SerialChargesAreBound == Spec => []LockedChargesBound
<1>1. SerialInv => LockedChargesBound
  BY DEF SerialInv
<1> QED
  BY SpecSerialInv, <1>1, PTL

\* With one worker thread the totals of a locked run are those of its lines,
\* unless a settlement took them all.
THEOREM SerialTotalsOfLines == Spec => []LockedTotalsOfLines
<1>1. SerialInv => LockedTotalsOfLines
  BY DEF SerialInv
<1> QED
  BY SpecSerialInv, <1>1, PTL

(***************************************************************************)
(* The promise of the closed runs: but for locking and unlocking a run,    *)
(* no step is seen in them and in the items they have taken.               *)
(***************************************************************************)
Unseen ==
    /\ applied' = applied
    /\ \A r \in Run : run[r].status = "locked" \/ run'[r].status = "locked"
                        => run'[r] = run[r]

\* Nothing is bound to a run that is not locked: letting go of its items is no
\* change.
LEMMA NothingToLetGo ==
    ASSUME IInv, NEW r \in Run, run[r].status # "locked"
    PROVE  Unbound(r) = applied
<1>1. applied \in [Item -> Run \cup {NoRun}] /\ \A i \in Item : applied[i] # r
  BY PayrollNullAssumption DEF IInv, TypeOK, BoundToLocked
<1>2. \A i \in Item : Unbound(r)[i] = applied[i]
  BY <1>1 DEF Unbound
<1> QED
  BY <1>1, <1>2 DEF Unbound

LEMMA BuildCommitUnseen ==
    ASSUME IInv, SerialInv, NEW p \in Proc, BuildCommit(p)
    PROVE  Unseen
<1> DEFINE r == req[p].run
           k == KeyOf[r]
           new == Stored(k, req[p].snap)
<1>1. r \in Run /\ req[p].op = "build_read" /\ Holding(p) /\ FreshLoad(p)
  BY DEF IInv, RequestsKnow, Complete, RunOp, BuildCommit, SerialInv, FreshLoads
<1>2. run[r].status # "locked" /\ new.status # "locked"
  BY <1>1 DEF Holding, FreshLoad, Stored, NoRow
<1>3. /\ run' = [s \in Run |->
                   IF s = r THEN new
                   ELSE IF s \in Purged(k) THEN [run[s] EXCEPT !.deleted = TRUE]
                   ELSE run[s]]
      /\ applied' = IF new.status = "gone" THEN Unbound(r) ELSE applied
  BY DEF BuildCommit
<1> HIDE DEF new
<1>4. \A s \in Purged(k) : s \in Run /\ run[s].status = "draft" /\ run[s] \in Row
  BY DEF Purged, Purgeable, LiveDraft, IInv, TypeOK
<1>5. ASSUME NEW s \in Run, run[s].status = "locked" \/ run'[s].status = "locked"
      PROVE  run'[s] = run[s]
  <2>1. s # r
    BY <1>2, <1>3, <1>5
  <2>2. s \notin Purged(k)
    <3>1. SUFFICES ASSUME s \in Purged(k) PROVE FALSE
      OBVIOUS
    <3>2. run'[s].status = "draft" /\ run[s].status = "draft"
      BY <1>3, <1>4, <2>1, <3>1 DEF Row
    <3> QED
      BY <1>5, <3>2
  <2> QED
    BY <1>3, <2>1, <2>2
<1> QED
  BY <1>1, <1>2, <1>3, <1>5, NothingToLetGo DEF Unseen

LEMMA DiscardCommitUnseen ==
    ASSUME IInv, SerialInv, NEW p \in Proc, DiscardCommit(p)
    PROVE  Unseen
<1> DEFINE r == req[p].run
<1>1. r \in Run /\ run[r].status = "draft"
  BY DEF IInv, RequestsKnow, Complete, RunOp, DiscardCommit, SerialInv, FreshLoads, FreshLoad
<1>2. /\ run'[r] = NoRow("gone") /\ \A s \in Run \ {r} : run'[s] = run[s]
      /\ applied' = Unbound(r)
  BY <1>1 DEF DiscardCommit, IInv, TypeOK
<1>3. applied' = applied
  BY <1>1, <1>2, NothingToLetGo
<1> QED
  BY <1>1, <1>2, <1>3 DEF Unseen, NoRow

LEMMA SettleCommitUnseen ==
    ASSUME IInv, SerialInv, NEW p \in Proc, SettleCommit(p)
    PROVE  Unseen
<1> DEFINE e == req[p].emp
<1>1. \A s \in Run : run[s] \in Row /\ OnItsLines(run[s])
  BY DEF IInv, TypeOK
<1>2. \A s \in req[p].drafts : run[s].status = "draft"
  BY DEF SettleCommit, SerialInv, FreshLoads, FreshLoad
<1>3. /\ \A s \in Run : run'[s] = IF s \in req[p].drafts THEN WithoutLine(run[s], e) ELSE run[s]
      /\ applied' = applied
  BY DEF SettleCommit
<1> QED
  BY <1>1, <1>2, <1>3, WithoutLineType DEF Unseen

LEMMA OtherStepsUnseen ==
    ASSUME IInv, SerialInv, NEW p \in Proc,
           \/ \E r \in Run : BuildStart(p, r) \/ DiscardLoad(p, r) \/ LockAudit(p, r)
           \/ BuildRead(p) \/ LockRead(p)
           \/ \E e \in Employee : SettleLoad(p, e) \/ Reactivate(p, e)
           \/ \E i \in Item : RecordItem(p, i)
           \/ \E i \in Item, op \in {"edit", "drop"} : ItemLoad(p, op, i)
           \/ EditCommit(p) \/ DropCommit(p) \/ RequestEnds(p)
    PROVE  Unseen
<1>1. UNCHANGED run
  BY DEF BuildStart, DiscardLoad, LockAudit, BuildRead, LockRead, SettleLoad, Reactivate,
         RecordItem, ItemLoad, EditCommit, DropCommit, RequestEnds
<1>2. CASE EditCommit(p)
  <2>1. /\ applied \in [Item -> Run \cup {NoRun}] /\ applied[req[p].item] = NoRun
        /\ applied' = [applied EXCEPT ![req[p].item] = NoRun]
    BY <1>2 DEF EditCommit, IInv, TypeOK, SerialInv, FreshLoads, FreshLoad
  <2>2. applied' = applied
    BY <2>1
  <2> QED
    BY <1>1, <2>2 DEF Unseen
<1>3. CASE ~EditCommit(p)
  <2>1. applied' = applied
    BY <1>3 DEF BuildStart, DiscardLoad, LockAudit, BuildRead, LockRead, SettleLoad, Reactivate,
         RecordItem, ItemLoad, DropCommit, RequestEnds
  <2> QED
    BY <1>1, <2>1 DEF Unseen
<1> QED
  BY <1>2, <1>3

LEMMA UnseenKeepsPromise ==
    ASSUME Unseen
    PROVE  UNCHANGED Promise!payrollPromiseVars
<1>1. closedBar' = closedBar
  BY DEF Unseen, closedBar
<1>2. sheetBar' = sheetBar
  BY <1>1 DEF Unseen, sheetBar, closedBar
<1> QED
  BY <1>1, <1>2 DEF Unseen, Promise!payrollPromiseVars

\* A lock closes the run with what it has read, which is what the run still is.
LEMMA LockCommitCloses ==
    ASSUME IInv, SerialInv, NEW p \in Proc, LockCommit(p)
    PROVE  \E r \in Run : Promise!Close(r)
<1> DEFINE r == req[p].run
           s == [lines |-> run[r].lines, charged |-> run[r].charged, counted |-> run[r].counted]
<1>1. /\ r \in Run /\ TypeOK /\ run[r].status = "draft"
      /\ run[r] = req[p].snap /\ Balanced(run[r]) /\ CanBind(run[r])
  BY DEF IInv, RequestsKnow, Complete, Holding, RunOp, LockCommit, SerialInv,
         FreshLoads, FreshLoad
<1>2. run[r] \in Row /\ OnItsLines(run[r]) /\ run \in [Run -> Row]
  BY <1>1 DEF TypeOK
<1>3. run' = [run EXCEPT ![r].status = "locked"]
  BY DEF LockCommit
<1>4. s \in Promise!Sheet
  BY <1>2 DEF Row, Promise!Sheet
<1>5. /\ s.lines # {} => s.counted = s.lines
      /\ \A i \in s.charged : applied[i] = NoRun /\ OwnerOf[i] \in s.lines
  BY <1>1, <1>2 DEF Balanced, CanBind, OnItsLines
<1>6. /\ run'[r].status = "locked" /\ run'[r].lines = run[r].lines
      /\ run'[r].charged = run[r].charged /\ run'[r].counted = run[r].counted
      /\ \A q \in Run \ {r} : run'[q] = run[q]
  <2>1. run'[r] = [run[r] EXCEPT !.status = "locked"] /\ \A q \in Run \ {r} : run'[q] = run[q]
    BY <1>1, <1>2, <1>3
  <2>2. run[r] \in Row
    BY <1>2
  <2> HIDE DEF r
  <2> QED
    BY <2>1, <2>2 DEF Row
<1>7. r \notin closedBar /\ closedBar' = closedBar \cup {r}
  BY <1>1, <1>6 DEF closedBar
<1>8. sheetBar' = [sheetBar EXCEPT ![r] = s]
  <2>1. \A q \in Run : sheetBar'[q] = IF q = r THEN s ELSE sheetBar[q]
    BY <1>6, <1>7 DEF sheetBar
  <2>2. sheetBar' = [q \in Run |-> sheetBar'[q]] /\ sheetBar = [q \in Run |-> sheetBar[q]]
    BY DEF sheetBar
  <2> HIDE DEF s
  <2>3. [sheetBar EXCEPT ![r] = s] = [q \in Run |-> IF q = r THEN s ELSE sheetBar[q]]
    BY <1>1, <2>2
  <2> QED
    BY <2>1, <2>2, <2>3
<1>9. applied' = [i \in Item |-> IF i \in s.charged THEN r ELSE applied[i]]
  <2>1. applied' = [i \in Item |->
                      IF /\ i \in req[p].snap.charged /\ item[i] = "live" /\ applied[i] = NoRun
                      THEN r ELSE applied[i]]
    BY DEF LockCommit
  <2>2. \A i \in run[r].charged : item[i] = "live" /\ applied[i] = NoRun
    BY <1>1 DEF CanBind
  <2> QED
    BY <1>1, <2>1, <2>2
<1> HIDE DEF s
<1>10. Promise!Close(r)
  BY <1>4, <1>5, <1>7, <1>8, <1>9 DEF Promise!Close
<1> QED
  BY <1>1, <1>10

LEMMA UnlockReopens ==
    ASSUME IInv, NEW p \in Proc, NEW r \in Run, Unlock(p, r)
    PROVE  Promise!Reopen(r)
<1>1. run \in [Run -> Row] /\ run[r] \in Row /\ run[r].status = "locked"
  BY DEF IInv, TypeOK, Unlock
<1>2. run' = [run EXCEPT ![r].status = "draft"] /\ applied' = Unbound(r)
  BY DEF Unlock
<1>3. run'[r].status = "draft" /\ \A q \in Run \ {r} : run'[q] = run[q]
  BY <1>1, <1>2 DEF Row
<1>4. r \in closedBar /\ closedBar' = closedBar \ {r}
  BY <1>1, <1>3 DEF closedBar
<1>5. sheetBar' = [sheetBar EXCEPT ![r] = Promise!Blank]
  <2>1. \A q \in Run : sheetBar'[q] = IF q = r THEN Promise!Blank ELSE sheetBar[q]
    BY <1>3, <1>4 DEF sheetBar, Promise!Blank
  <2>2. sheetBar' = [q \in Run |-> sheetBar'[q]] /\ sheetBar = [q \in Run |-> sheetBar[q]]
    BY DEF sheetBar
  <2>3. [sheetBar EXCEPT ![r] = Promise!Blank]
          = [q \in Run |-> IF q = r THEN Promise!Blank ELSE sheetBar[q]]
    BY <2>2
  <2> QED
    BY <2>1, <2>2, <2>3
<1>6. applied' = [i \in Item |-> IF applied[i] = r THEN NoRun ELSE applied[i]]
  BY <1>2 DEF Unbound
<1> QED
  BY <1>4, <1>5, <1>6 DEF Promise!Reopen

LEMMA StepKeepsPromise ==
    ASSUME IInv, SerialInv, [Next]_vars
    PROVE  [Promise!Next]_Promise!payrollPromiseVars
<1>1. CASE UNCHANGED vars
  <2>1. Unseen
    BY <1>1 DEF vars, Unseen
  <2> QED
    BY <2>1, UnseenKeepsPromise
<1>2. CASE Next
  <2> PICK p \in Proc :
        \/ \E r \in Run : BuildStart(p, r)
        \/ BuildRead(p)
        \/ BuildCommit(p)
        \/ \E r \in Run : DiscardLoad(p, r)
        \/ DiscardCommit(p)
        \/ \E r \in Run : LockAudit(p, r)
        \/ LockRead(p)
        \/ LockCommit(p)
        \/ \E r \in Run : Unlock(p, r)
        \/ \E e \in Employee : SettleLoad(p, e)
        \/ SettleCommit(p)
        \/ \E e \in Employee : Reactivate(p, e)
        \/ \E i \in Item : RecordItem(p, i)
        \/ \E i \in Item, op \in {"edit", "drop"} : ItemLoad(p, op, i)
        \/ EditCommit(p)
        \/ DropCommit(p)
        \/ RequestEnds(p)
    BY <1>2 DEF Next
  <2>1. CASE LockCommit(p)
    BY <2>1, LockCommitCloses DEF Promise!Next
  <2>2. CASE \E r \in Run : Unlock(p, r)
    BY <2>2, UnlockReopens DEF Promise!Next
  <2>3. CASE BuildCommit(p) \/ DiscardCommit(p) \/ SettleCommit(p)
    BY <2>3, BuildCommitUnseen, DiscardCommitUnseen, SettleCommitUnseen, UnseenKeepsPromise
  <2>4. CASE ~(LockCommit(p) \/ (\E r \in Run : Unlock(p, r))
               \/ BuildCommit(p) \/ DiscardCommit(p) \/ SettleCommit(p))
    BY <2>4, OtherStepsUnseen, UnseenKeepsPromise
  <2> QED
    BY <2>1, <2>2, <2>3, <2>4
<1> QED
  BY <1>1, <1>2

\* With one worker thread the payroll implements PayrollPromise: a run is closed
\* with all its items, each for the first time, and nothing that is built, purged,
\* deleted, settled or edited is seen in it until it is unlocked.
THEOREM PayrollKeepsPromise == Spec => KeepsPayrollPromise
<1>1. Init => Promise!Init
  <2> SUFFICES ASSUME Init PROVE Promise!Init
    OBVIOUS
  <2>1. closedBar = {}
    BY DEF Init, closedBar, NoRow
  <2>2. sheetBar = [r \in Run |-> Promise!Blank]
    BY <2>1 DEF sheetBar, Promise!Blank
  <2> QED
    BY <2>1, <2>2 DEF Init, Promise!Init
<1>2. IInv /\ SerialInv /\ [Next]_vars => [Promise!Next]_Promise!payrollPromiseVars
  BY StepKeepsPromise
<1> QED
  BY <1>1, <1>2, SpecIInv, SpecSerialInv, PTL DEF Spec, KeepsPayrollPromise, Promise!Spec

\* With one worker thread each item is charged by a single locked run, as the
\* documentation says; with two it is not.
THEOREM SerialChargedOnce == Spec => []ChargedOnce
<1>1. LockedChargesBound => ChargedOnce
  BY DEF LockedChargesBound, ChargedOnce
<1> QED
  BY <1>1, SerialChargesAreBound, PTL

(***************************************************************************)
(* Entitlements: what is owed on leaving never shrinks from a day to the   *)
(* next.  Rounding keeps the order of amounts; so do the two tiers of the  *)
(* benefit and the factors of a resignation, for the third and the two     *)
(* thirds of an amount are in the order of the years that earn them.       *)
(***************************************************************************)

(* Rounding, a half to the even neighbour, keeps the order of amounts.     *)
LEMMA QuantizedBy2 ==
  ASSUME NEW n \in Nat
  PROVE  Quantized(n, 2) \in Nat /\ Quantized(n, 2) <= n
BY DEF Quantized

LEMMA ThirdsGrow ==
  ASSUME NEW m \in Nat, NEW n \in Nat, m <= n
  PROVE  /\ Quantized(m, 3) \in Nat /\ Quantized(m, 3) <= Quantized(n, 3)
BY DEF Quantized

LEMMA TenThousandthsGrow ==
  ASSUME NEW m \in Nat, NEW n \in Nat, m <= n
  PROVE  Quantized(m, 10000) \in Nat /\ Quantized(m, 10000) <= Quantized(n, 10000)
BY DEF Quantized

LEMMA DaysOfYearGrow ==
  ASSUME NEW m \in Nat, NEW n \in Nat, m <= n
  PROVE  Quantized(m, 360) \in Nat /\ Quantized(m, 360) <= Quantized(n, 360)
BY DEF Quantized

LEMMA TwoThirdsAtMost ==
  ASSUME NEW n \in Nat
  PROVE  Quantized(n, 3) <= Quantized(2 * n, 3) /\ Quantized(2 * n, 3) <= n
BY DEF Quantized

LEMMA Whole ==
  ASSUME NEW n \in Nat
  PROVE  Quantized(n * 50000, 10000) = n * 5
BY DEF Quantized

(* Products of natural numbers, where SMT is asked for nothing else.          *)
LEMMA ProductGrows ==
  ASSUME NEW a \in Nat, NEW m \in Nat, NEW n \in Nat, m <= n
  PROVE  a * m \in Nat /\ a * m <= a * n
<1>1. PICK k \in Nat : n = m + k
  <2>1. n - m \in Nat /\ n = m + (n - m)
    OBVIOUS
  <2> QED
    BY <2>1
<1>2. a * n = a * m + a * k /\ a * m \in Nat /\ a * k \in Nat
  BY <1>1
<1> QED
  BY <1>2

(* What is owed for so many years, to the halala: up to the end of the first  *)
(* tier and beyond it, at rates of which the second is not the smaller.       *)
Tiers(years, before, after) ==
  IF years <= 50000 THEN Quantized(before * years, 10000)
  ELSE before * 5 + Quantized(after * (years - 50000), 10000)

LEMMA TiersGrow ==
  ASSUME NEW b \in Nat, NEW a \in Nat, NEW y \in Nat, NEW z \in Nat, y <= z
  PROVE  /\ Tiers(y, b, a) \in Nat /\ Tiers(z, b, a) \in Nat
         /\ Tiers(y, b, a) <= Tiers(z, b, a)
<1>1. PICK five \in Nat : five = b * 5
  OBVIOUS
<1>2. ASSUME NEW v \in Nat, NEW w \in Nat, v <= w, w <= 50000
      PROVE  /\ Tiers(v, b, a) \in Nat /\ Tiers(w, b, a) \in Nat
             /\ Tiers(v, b, a) <= Tiers(w, b, a) /\ Tiers(w, b, a) <= five
  <2>1. PICK m \in Nat, n \in Nat, c \in Nat :
          m = b * v /\ n = b * w /\ c = b * 50000 /\ m <= n /\ n <= c
    BY <1>2, ProductGrows
  <2>2. /\ Quantized(m, 10000) \in Nat /\ Quantized(m, 10000) <= Quantized(n, 10000)
        /\ Quantized(n, 10000) \in Nat /\ Quantized(n, 10000) <= Quantized(c, 10000)
    BY <2>1, TenThousandthsGrow
  <2>3. Quantized(c, 10000) = five
    BY <1>1, <2>1, Whole
  <2>4. Tiers(v, b, a) = Quantized(m, 10000) /\ Tiers(w, b, a) = Quantized(n, 10000)
    BY <1>2, <2>1 DEF Tiers
  <2> QED
    BY <2>2, <2>3, <2>4
<1>3. ASSUME NEW v \in Nat, NEW w \in Nat, v <= w, v > 50000
      PROVE  /\ Tiers(v, b, a) \in Nat /\ Tiers(w, b, a) \in Nat
             /\ Tiers(v, b, a) <= Tiers(w, b, a) /\ Tiers(v, b, a) >= five
  <2>1. v - 50000 \in Nat /\ w - 50000 \in Nat /\ v - 50000 <= w - 50000 /\ w > 50000
    BY <1>3
  <2>2. PICK m \in Nat, n \in Nat :
          m = a * (v - 50000) /\ n = a * (w - 50000) /\ m <= n
    BY <2>1, ProductGrows
  <2>3. /\ Quantized(m, 10000) \in Nat /\ Quantized(m, 10000) <= Quantized(n, 10000)
        /\ Quantized(n, 10000) \in Nat
    BY <2>2, TenThousandthsGrow
  <2>4. Tiers(v, b, a) = five + Quantized(m, 10000) /\ Tiers(w, b, a) = five + Quantized(n, 10000)
    BY <1>1, <1>3, <2>1, <2>2 DEF Tiers
  <2> QED
    BY <1>1, <2>3, <2>4
<1>4. CASE z <= 50000
  BY <1>2, <1>4
<1>5. CASE y > 50000
  BY <1>3, <1>5
<1>6. CASE y <= 50000 /\ z > 50000
  <2>1. Tiers(y, b, a) \in Nat /\ Tiers(y, b, a) <= five
    BY <1>2, <1>6
  <2>2. Tiers(z, b, a) \in Nat /\ Tiers(z, b, a) >= five
    BY <1>3, <1>6
  <2> QED
    BY <1>1, <2>1, <2>2
<1> QED
  BY <1>4, <1>5, <1>6

(* The days served, and what they come to.                                    *)
DueTypes == served \in Nat /\ hire \in Date /\ now \in Date /\ (served = 0 => now = hire)

LEMMA YearsGrow ==
  ASSUME DueTypes, served' = served + 1
  PROVE  ServiceYears \in Nat /\ ServiceYears' \in Nat /\ ServiceYears <= ServiceYears'
<1>1. /\ served * 10000 \in Nat /\ (served + 1) * 10000 \in Nat
      /\ served * 10000 <= (served + 1) * 10000
  BY DEF DueTypes
<1>2. PICK m \in Nat, n \in Nat : m = served * 10000 /\ n = (served + 1) * 10000 /\ m <= n
  BY <1>1
<1>3. ServiceYears = Quantized(m, 360) /\ ServiceYears' = Quantized(n, 360)
  BY <1>2 DEF ServiceYears
<1>4. Quantized(m, 360) \in Nat /\ Quantized(m, 360) <= Quantized(n, 360) /\ Quantized(n, 360) \in Nat
  BY <1>2, DaysOfYearGrow
<1> QED
  BY <1>3, <1>4

LEMMA TwoTiersGrow ==
  ASSUME DueTypes, served' = served + 1, NEW b \in Nat, NEW a \in Nat
  PROVE  /\ TwoTier(b, a) \in Nat /\ TwoTier(b, a)' \in Nat /\ TwoTier(b, a) <= TwoTier(b, a)'
<1>1. PICK y \in Nat, z \in Nat : y = ServiceYears /\ z = ServiceYears' /\ y <= z
  BY YearsGrow
<1>2. TwoTier(b, a) = Tiers(y, b, a) /\ TwoTier(b, a)' = Tiers(z, b, a)
  BY <1>1 DEF TwoTier, Tiers, Years
<1> QED
  BY <1>1, <1>2, TiersGrow

LEMMA StandardGrows ==
  ASSUME DueTypes, served' = served + 1
  PROVE  /\ Standard \in Nat /\ Standard' \in Nat /\ Standard <= Standard'
         /\ ByConsent \in Nat /\ ByConsent' \in Nat /\ ByConsent <= ByConsent'
<1>1. PICK half \in Nat, third \in Nat, both \in Nat :
        half = Quantized(Salary, 2) /\ third = Quantized(Salary, 3) /\ both = Quantized(2 * Salary, 3)
  <2>1. Salary \in Nat /\ 2 * Salary \in Nat
    BY EntitlementsAssumption
  <2>2. Quantized(Salary, 2) \in Nat
    BY <2>1, QuantizedBy2
  <2>3. Quantized(Salary, 3) \in Nat /\ Quantized(2 * Salary, 3) \in Nat
    BY <2>1, ThirdsGrow
  <2> QED
    BY <2>2, <2>3
<1>2. Salary \in Nat /\ served \in Nat
  BY EntitlementsAssumption DEF DueTypes
<1>3. /\ TwoTier(half, Salary) \in Nat /\ TwoTier(half, Salary)' \in Nat
      /\ TwoTier(half, Salary) <= TwoTier(half, Salary)'
      /\ TwoTier(third, both) \in Nat /\ TwoTier(third, both)' \in Nat
      /\ TwoTier(third, both) <= TwoTier(third, both)'
  BY <1>2, TwoTiersGrow
<1>4. /\ Standard = IF served <= 180 THEN 0 ELSE TwoTier(half, Salary)
      /\ Standard' = IF served + 1 <= 180 THEN 0 ELSE TwoTier(half, Salary)'
      /\ ByConsent = IF served <= 180 THEN 0 ELSE TwoTier(third, both)
      /\ ByConsent' = IF served + 1 <= 180 THEN 0 ELSE TwoTier(third, both)'
  BY <1>1 DEF Standard, ByConsent, Probation
<1> QED
  BY <1>2, <1>3, <1>4

LEMMA ResignedGrows ==
  ASSUME DueTypes, served' = served + 1
  PROVE  /\ Resigned(Standard) \in Nat /\ Resigned(Standard)' \in Nat
         /\ Resigned(Standard) <= Resigned(Standard)'
<1>1. PICK y \in Nat, z \in Nat : y = ServiceYears /\ z = ServiceYears' /\ y <= z
  BY YearsGrow
<1>2. PICK m \in Nat, n \in Nat : m = Standard /\ n = Standard' /\ m <= n
  BY StandardGrows
<1>3. /\ Resigned(Standard) = IF y < 20000 THEN 0
                              ELSE IF y < 50000 THEN Quantized(m, 3)
                              ELSE IF y < 100000 THEN Quantized(2 * m, 3) ELSE m
      /\ Resigned(Standard)' = IF z < 20000 THEN 0
                               ELSE IF z < 50000 THEN Quantized(n, 3)
                               ELSE IF z < 100000 THEN Quantized(2 * n, 3) ELSE n
  BY <1>1, <1>2 DEF Resigned, Years
<1>4. /\ Quantized(m, 3) \in Nat /\ Quantized(n, 3) \in Nat
      /\ Quantized(m, 3) <= Quantized(n, 3)
  BY <1>2, ThirdsGrow
<1>5. /\ Quantized(2 * m, 3) \in Nat /\ Quantized(2 * n, 3) \in Nat
      /\ Quantized(2 * m, 3) <= Quantized(2 * n, 3)
  <2>1. m <= n
    BY <1>2
  <2>2. 2 * m \in Nat /\ 2 * n \in Nat /\ 2 * m <= 2 * n
    BY <2>1
  <2> QED
    BY <2>2, ThirdsGrow
<1>6. /\ Quantized(m, 3) <= Quantized(2 * m, 3) /\ Quantized(2 * m, 3) <= m
      /\ Quantized(n, 3) <= Quantized(2 * n, 3) /\ Quantized(2 * n, 3) <= n
  BY TwoThirdsAtMost
<1>7. PICK a \in Nat, b \in Nat, c \in Nat, d \in Nat :
        /\ a = Quantized(m, 3) /\ b = Quantized(n, 3)
        /\ c = Quantized(2 * m, 3) /\ d = Quantized(2 * n, 3)
        /\ a <= b /\ c <= d /\ a <= c /\ c <= m /\ b <= d /\ d <= n
  BY <1>4, <1>5, <1>6
<1>8. m <= n
  BY <1>2
<1>9. /\ Resigned(Standard) = IF y < 20000 THEN 0
                              ELSE IF y < 50000 THEN a
                              ELSE IF y < 100000 THEN c ELSE m
      /\ Resigned(Standard)' = IF z < 20000 THEN 0
                               ELSE IF z < 50000 THEN b
                               ELSE IF z < 100000 THEN d ELSE n
  BY <1>3, <1>7
<1>10. y <= z
  BY <1>1
<1>11. ASSUME NEW r, NEW s,
              r = IF y < 20000 THEN 0 ELSE IF y < 50000 THEN a
                  ELSE IF y < 100000 THEN c ELSE m,
              s = IF z < 20000 THEN 0 ELSE IF z < 50000 THEN b
                  ELSE IF z < 100000 THEN d ELSE n
       PROVE  r \in Nat /\ s \in Nat /\ r <= s
  BY <1>7, <1>8, <1>10, <1>11
<1> QED
  BY <1>9, <1>11

LEMMA BenefitGrows ==
  ASSUME DueTypes, served' = served + 1, NEW k \in Kinds, NEW p \in Parties
  PROVE  Benefit(k, p)' >= Benefit(k, p)
<1>1. PICK m \in Nat, n \in Nat, c \in Nat, d \in Nat :
        /\ m = Standard /\ n = Standard' /\ m <= n
        /\ c = ByConsent /\ d = ByConsent' /\ c <= d
  BY StandardGrows
<1>2. PICK r \in Nat, s \in Nat : r = Resigned(Standard) /\ s = Resigned(Standard)' /\ r <= s
  BY ResignedGrows
<1>3. CASE k \in {"article_80", "probation_end"}
  <2>1. Benefit(k, p) = 0 /\ Benefit(k, p)' = 0
    BY <1>3 DEF Benefit
  <2> QED
    BY <2>1
<1>4. CASE k = "article_74"
  <2>1. /\ Benefit(k, p) = IF p = "employee" THEN c ELSE m
        /\ Benefit(k, p)' = IF p = "employee" THEN d ELSE n
    BY <1>1, <1>4 DEF Benefit
  <2> QED
    BY <1>1, <2>1
<1>5. CASE k = "employee" \/ (k = "article_77" /\ p = "employee")
  <2>1. Benefit(k, p) = r /\ Benefit(k, p)' = s
    BY <1>2, <1>5 DEF Benefit
  <2> QED
    BY <1>2, <2>1
<1>6. CASE /\ k \notin {"article_80", "probation_end", "article_74", "employee"}
           /\ ~ (k = "article_77" /\ p = "employee")
  <2>1. Benefit(k, p) = m /\ Benefit(k, p)' = n
    BY <1>1, <1>6 DEF Benefit
  <2> QED
    BY <1>1, <2>1
<1> QED
  BY <1>3, <1>4, <1>5, <1>6

(* The calendar: a day later is the next of the month, or the first of the    *)
(* month that follows.                                                        *)
MonthOf(t) == t.y * 12 + t.m

LEMMA TheNextDay ==
  ASSUME NEW t \in Date
  PROVE  /\ Tomorrow(t) \in Date
         /\ \/ Tomorrow(t).d = t.d + 1 /\ MonthOf(Tomorrow(t)) = MonthOf(t)
            \/ Tomorrow(t).d = 1 /\ MonthOf(Tomorrow(t)) = MonthOf(t) + 1
<1>1. t.y \in Nat /\ t.m \in 1..12 /\ t.d \in 1..31 /\ t = [y |-> t.y, m |-> t.m, d |-> t.d]
  BY DEF Date
<1>2. MonthDays(t.y, t.m) \in 28..31
  BY <1>1 DEF MonthDays
<1>3. CASE t.d < MonthDays(t.y, t.m)
  <2>1. t.d + 1 \in 1..31
    BY <1>1, <1>2, <1>3
  <2>2. Tomorrow(t) = [y |-> t.y, m |-> t.m, d |-> t.d + 1]
    BY <1>1, <1>3 DEF Tomorrow
  <2> QED
    BY <1>1, <2>1, <2>2 DEF Date, MonthOf
<1>4. CASE ~ (t.d < MonthDays(t.y, t.m)) /\ t.m < 12
  <2>1. Tomorrow(t) = [y |-> t.y, m |-> t.m + 1, d |-> 1]
    BY <1>4 DEF Tomorrow
  <2> QED
    BY <1>1, <1>4, <2>1 DEF Date, MonthOf
<1>5. CASE ~ (t.d < MonthDays(t.y, t.m)) /\ ~ (t.m < 12)
  <2>1. Tomorrow(t) = [y |-> t.y + 1, m |-> 1, d |-> 1]
    BY <1>5 DEF Tomorrow
  <2> QED
    BY <1>1, <1>5, <2>1 DEF Date, MonthOf
<1> QED
  BY <1>3, <1>4, <1>5

LEMMA MonthsFollow ==
  ASSUME DueTypes, NextDay
  PROVE  /\ CompletedMonths(hire, now) \in Int /\ CompletedMonths(hire, now)' \in Int
         /\ CompletedMonths(hire, now)' - CompletedMonths(hire, now) \in 0..1
<1>1. hire' = hire /\ now' = Tomorrow(now) /\ served' = served + 1 /\ served \in Nat
  BY DEF NextDay, DueTypes
<1>2. PICK h \in Int, d \in 1..31 : h = MonthOf(hire) /\ d = hire.d
  BY DEF DueTypes, Date, MonthOf
<1>3. PICK a \in Int, b \in Int, i \in 1..31, j \in 1..31 :
        /\ a = MonthOf(now) /\ b = MonthOf(now') /\ i = now.d /\ j = (now').d
        /\ (j = i + 1 /\ b = a) \/ (j = 1 /\ b = a + 1)
  BY <1>1, TheNextDay DEF DueTypes, Date, MonthOf
<1>4. CompletedMonths(hire, now) =
        IF served = 0 THEN 0
        ELSE IF d = 1 THEN (IF i # 1 THEN a - h + 1 ELSE a - h)
        ELSE IF i < d THEN a - h - 1 ELSE a - h
  <2>1. (now.y - hire.y) * 12 + (now.m - hire.m) = a - h
    BY <1>2, <1>3 DEF DueTypes, Date, MonthOf
  <2> QED
    BY <1>2, <1>3, <2>1 DEF CompletedMonths
<1>5. CompletedMonths(hire, now)' =
        IF d = 1 THEN (IF j # 1 THEN b - h + 1 ELSE b - h)
        ELSE IF j < d THEN b - h - 1 ELSE b - h
  <2>1. now' \in Date
    BY <1>1, TheNextDay DEF DueTypes
  <2>2. ((now').y - hire.y) * 12 + ((now').m - hire.m) = b - h
    BY <1>2, <1>3, <2>1 DEF DueTypes, Date, MonthOf
  <2>3. served' # 0
    BY <1>1
  <2> QED
    BY <1>1, <1>2, <1>3, <2>2, <2>3 DEF CompletedMonths
<1>6. served = 0 => a = h /\ i = d
  BY <1>2, <1>3 DEF DueTypes
<1>7. ASSUME NEW v, NEW w,
             v = IF served = 0 THEN 0
                 ELSE IF d = 1 THEN (IF i # 1 THEN a - h + 1 ELSE a - h)
                 ELSE IF i < d THEN a - h - 1 ELSE a - h,
             w = IF d = 1 THEN (IF j # 1 THEN b - h + 1 ELSE b - h)
                 ELSE IF j < d THEN b - h - 1 ELSE b - h
      PROVE  v \in Int /\ w \in Int /\ w - v \in 0..1
  <2>1. (j = i + 1 /\ b = a) \/ (j = 1 /\ b = a + 1)
    BY <1>3
  <2> QED
    BY <1>6, <1>7, <2>1
<1> QED
  BY <1>4, <1>5, <1>7

LEMMA LeaveFollows ==
  ASSUME NEW m \in Int, NEW n \in Int, n - m \in 0..1, NEW flat \in BOOLEAN
  PROVE  AccruedLeave(n, flat) - AccruedLeave(m, flat) \in 0..250
BY DEF AccruedLeave, FirstTier

(* A day longer never costs any of the dues, whatever the date of hire and    *)
(* the salary: neither of the benefit of any settlement, by whoever ends the  *)
(* contract, nor of the leave, which accrues month by month and skips none    *)
(* (compute_settlement_eosb, completed_employment_months,                     *)
(* accrued_annual_leave_days).                                                *)
THEOREM DuesOnlyGrow == EntitlementsSpec => DuesNeverShrink
<1>1. EntitlementsInit => DueTypes
  BY EntitlementsAssumption DEF EntitlementsInit, DueTypes
<1>2. DueTypes /\ [NextDay]_dueVars => DueTypes'
  <2>1. ASSUME DueTypes, NextDay
        PROVE  DueTypes'
    <3>1. now' \in Date
      BY <2>1, TheNextDay DEF NextDay, DueTypes
    <3>2. hire' = hire /\ served' = served + 1
      BY <2>1 DEF NextDay
    <3> QED
      BY <2>1, <3>1, <3>2 DEF DueTypes
  <2>2. ASSUME DueTypes, UNCHANGED dueVars
        PROVE  DueTypes'
    BY <2>2 DEF DueTypes, dueVars
  <2> QED
    BY <2>1, <2>2
<1>3. ASSUME DueTypes, NextDay
      PROVE  /\ \A k \in Kinds, p \in Parties : Benefit(k, p)' >= Benefit(k, p)
             /\ CompletedMonths(hire, now)' - CompletedMonths(hire, now) \in 0..1
             /\ \A flat \in BOOLEAN :
                  AccruedLeave(CompletedMonths(hire, now)', flat)
                    - AccruedLeave(CompletedMonths(hire, now), flat) \in 0..250
  <2>1. served' = served + 1
    BY <1>3 DEF NextDay
  <2>2. \A k \in Kinds, p \in Parties : Benefit(k, p)' >= Benefit(k, p)
    BY <1>3, <2>1, BenefitGrows
  <2>3. PICK m \in Int, n \in Int :
          /\ m = CompletedMonths(hire, now) /\ n = CompletedMonths(hire, now)'
          /\ n - m \in 0..1
    BY <1>3, MonthsFollow
  <2>4. \A flat \in BOOLEAN : AccruedLeave(n, flat) - AccruedLeave(m, flat) \in 0..250
    BY <2>3, LeaveFollows
  <2> QED
    BY <2>2, <2>3, <2>4
<1>4. DueTypes /\ [NextDay]_dueVars
        => [NextDay =>
             /\ \A k \in Kinds, p \in Parties : Benefit(k, p)' >= Benefit(k, p)
             /\ CompletedMonths(hire, now)' - CompletedMonths(hire, now) \in 0..1
             /\ \A flat \in BOOLEAN :
                  AccruedLeave(CompletedMonths(hire, now)', flat)
                    - AccruedLeave(CompletedMonths(hire, now), flat) \in 0..250]_dueVars
  BY <1>3
<1> QED
  BY <1>1, <1>2, <1>4, PTL DEF EntitlementsSpec, DuesNeverShrink
=============================================================================
