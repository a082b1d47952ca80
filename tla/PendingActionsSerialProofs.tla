--------------------- MODULE PendingActionsSerialProofs ---------------------
(***************************************************************************)
(* What holds when requests are served one after the other, by a single    *)
(* worker thread: an employee leaves TERMINATED only through an executed   *)
(* reactivation.  With two threads it fails, because a request writes a    *)
(* status it read before the other one committed; FreshReads names what is *)
(* lost.                                                                   *)
(***************************************************************************)
EXTENDS PendingActionsSerial, PendingActionsProofs, FiniteSetTheorems

LEMMA InitFreshReads == Init => FreshReads
BY DEF Init, FreshReads, Relying, Idle

LEMMA SerialStep ==
    ASSUME IInv, FreshReads, [Next]_vars
    PROVE  FreshReads' /\ \A e \in Employee : LeavesByReactivation(e)
<1> USE OneThread
<1> DEFINE Goal == FreshReads' /\ \A e \in Employee : LeavesByReactivation(e)
<1>0. /\ empStatus \in [Employee -> EmpStatus]
      /\ effects \in [Action -> Nat]
      /\ \A p \in Proc : req[p] \in Request
      /\ req \in [Proc -> Request]
      /\ \A p \in Proc : req[p].op # "idle" =>
           req[p].emp \in Employee /\ req[p].seen \in EmpStatus
  BY DEF IInv, TypeOK, RequestsComplete
\* A thread that ends its request relies on nothing; there is no other thread.
<1>1. ASSUME NEW p \in Proc, Finish(p)
      PROVE  FreshReads'
  <2>1. \A q \in Proc : req'[q] = Idle
    BY <1>0, <1>1 DEF Finish
  <2> QED
    BY <2>1 DEF FreshReads, Relying, Idle
\* Without a write to the statuses only what the thread relies on may change.
<1>2. ASSUME UNCHANGED empStatus
      PROVE  \A e \in Employee : LeavesByReactivation(e)
  BY <1>2 DEF LeavesByReactivation
<1>3. ASSUME NEW p \in Proc, NEW op \in EmployeeOp \cup ActionOp, Continue(p, op),
             UNCHANGED empStatus, req[p].op \in Relying
      PROVE  FreshReads'
  <2>1. /\ req'[p].emp = req[p].emp /\ req'[p].seen = req[p].seen
    BY <1>0, <1>3 DEF Continue, Request
  <2> QED
    BY <1>3, <2>1 DEF FreshReads
<1>4. ASSUME NEW p \in Proc, NEW op \in EmployeeOp, NEW e \in Employee,
             LoadEmployee(p, op, e)
      PROVE  Goal
  <2>1. /\ req'[p].emp = e /\ req'[p].seen = empStatus[e] /\ UNCHANGED empStatus
    BY <1>0, <1>4 DEF LoadEmployee, Begin
  <2> QED
    BY <1>2, <2>1 DEF FreshReads
<1>5. ASSUME NEW p \in Proc, NEW a \in Action, LockRow(p, a)
      PROVE  Goal
  <2>1. req'[p].op = "review" /\ UNCHANGED empStatus
    BY <1>0, <1>5 DEF LockRow, Begin
  <2> QED
    BY <1>2, <2>1 DEF FreshReads, Relying
<1>6. ASSUME NEW p \in Proc, NEW a \in Action, NEW u \in User, DeleteLoad(p, a, u)
      PROVE  Goal
  <2>1. /\ req'[p].emp = row[a].subject /\ req'[p].seen = empStatus[row[a].subject]
        /\ UNCHANGED empStatus
    BY <1>0, <1>6 DEF DeleteLoad, Begin
  <2> QED
    BY <1>2, <2>1 DEF FreshReads
<1>7. ASSUME NEW p \in Proc, SettleCheckOpen(p) \/ QueueCheckOpen(p)
      PROVE  Goal
  BY <1>2, <1>3, <1>7 DEF SettleCheckOpen, QueueCheckOpen, EmployeeOp, Relying
<1>8. ASSUME NEW p \in Proc, NEW a \in Action, NEW u \in User,
             SettleCommit(p, a, u)
      PROVE  Goal
  BY <1>0, <1>1, <1>8 DEF SettleCommit, LeavesByReactivation
<1>9. ASSUME NEW p \in Proc, NEW a \in Action, NEW u \in User,
             QueueRequest(p, a, u) \/ QueueInsert(p, a, u)
      PROVE  Goal
  BY <1>1, <1>2, <1>9 DEF QueueRequest, QueueInsert
<1>10. ASSUME NEW p \in Proc, QueueSuspend(p)
       PROVE  Goal
  <2>1. req'[p].op = "queue_suspended"
    BY <1>0, <1>10 DEF QueueSuspend, Continue
  <2>2. FreshReads'
    BY <2>1 DEF FreshReads, Relying
  <2>3. req[p].seen = empStatus[req[p].emp]
    BY <1>10 DEF FreshReads, QueueSuspend, Relying
  <2>4. \A e \in Employee : LeavesByReactivation(e)
    BY <1>0, <1>10, <2>3 DEF QueueSuspend, MaySuspend, LeavesByReactivation
  <2> QED
    BY <2>2, <2>4
<1>11. ASSUME NEW p \in Proc, EditSave(p)
       PROVE  Goal
  <2>1. req[p].seen = empStatus[req[p].emp]
    BY <1>11 DEF FreshReads, EditSave, Relying
  <2>2. \A e \in Employee : LeavesByReactivation(e)
    BY <1>0, <1>11, <2>1 DEF EditSave, LeavesByReactivation
  <2> QED
    BY <1>1, <1>11, <2>2 DEF EditSave
<1>12. ASSUME NEW p \in Proc, NEW u \in User, NEW s \in EmpStatus,
              OfficerApprove(p, u, s)
       PROVE  Goal
  <2> DEFINE a == req[p].act
  <2>1. /\ req[p].op = "review" /\ Finish(p)
        /\ effects' = [effects EXCEPT ![a] = effects[a] + 1]
        /\ empStatus' = [empStatus EXCEPT ![req[p].snap.subject] = s]
        /\ s \in ExecutedStatus(req[p].snap.kind, empStatus[req[p].snap.subject])
    BY <1>12 DEF OfficerApprove, Reviewing, Commit, Performed
  <2>2. a \in Action /\ req[p].snap = row[a]
    BY <2>1 DEF IInv, RequestsComplete, ReviewsAreFresh, ActionOp
  <2>3. Executes(a)
    BY <1>0, <2>1, <2>2 DEF Executes
  <2>4. SUFFICES ASSUME NEW e \in Employee, empStatus[e] = "terminated",
                        empStatus'[e] # "terminated"
                 PROVE  row[a].kind = "reactivate" /\ row[a].subject = e
    BY <1>1, <2>1, <2>2, <2>3 DEF LeavesByReactivation
  <2>5. row[a].subject = e /\ s # "terminated"
    BY <1>0, <2>1, <2>2, <2>4
  <2> QED
    BY <2>1, <2>2, <2>4, <2>5 DEF ExecutedStatus
<1>13. ASSUME NEW p \in Proc,
              \/ \E u, o \in User : GmApprove(p, u, o)
              \/ \E u \in User : Return(p, u)
              \/ \E u \in User : Resubmit(p, u)
              \/ DeleteCommit(p)
              \/ RequestEnds(p)
       PROVE  Goal
  <2>1. Finish(p) /\ UNCHANGED empStatus
    BY <1>13 DEF GmApprove, Return, Resubmit, Commit, DeleteCommit, RequestEnds
  <2> QED
    BY <1>1, <1>2, <2>1
<1>14. ASSUME NEW p \in Proc, DeleteRevert(p)
       PROVE  Goal
  <2>1. req'[p].op = "delete_reverted" /\ req[p].op = "delete"
    BY <1>0, <1>14 DEF DeleteRevert, Continue
  <2>2. FreshReads'
    BY <2>1 DEF FreshReads, Relying
  <2>3. req[p].seen = empStatus[req[p].emp]
    BY <2>1 DEF FreshReads, Relying
  <2>4. \A e \in Employee : LeavesByReactivation(e)
    BY <1>0, <1>14, <2>3 DEF DeleteRevert, Reverts, LeavesByReactivation
  <2> QED
    BY <2>2, <2>4
<1>15. UNCHANGED vars => Goal
  BY DEF vars, FreshReads, LeavesByReactivation
<1>16. ASSUME NEW p \in Proc, RequestStep(p)
       PROVE  Goal
  BY <1>16, <1>7, <1>8, <1>9, <1>10, <1>11, <1>12, <1>13, <1>14 DEF RequestStep
<1> QED
  BY <1>4, <1>5, <1>6, <1>13, <1>15, <1>16 DEF Next

\* With one worker thread no request writes on the strength of a stale status.
THEOREM SerialReadsAreFresh == Spec => []FreshReads
<1>1. IInv /\ FreshReads /\ [Next]_vars => FreshReads'
  BY SerialStep
<1> QED
  BY SpecIInv, InitFreshReads, <1>1, PTL DEF Spec

\* With one worker thread a settled employee comes back only by an executed
\* reactivation request.
THEOREM SerialTermination == Spec => TerminatedUntilReactivated
<1>1. IInv /\ FreshReads /\ [Next]_vars => [AllLeaveByReactivation]_vars
  BY SerialStep DEF AllLeaveByReactivation
<1> QED
  BY SpecIInv, SerialReadsAreFresh, <1>1, PTL
  DEF Spec, TerminatedUntilReactivated
-----------------------------------------------------------------------------
(* One open settlement *)

\* Two rows are never open settlements of one employee.
OneOpen ==
    \A e \in Employee : \A a, b \in OpenSettlements(e) : a = b

\* A settlement under way has found none open, and none has come since.
NoneOpenYet ==
    \A p \in Proc :
      req[p].op \in {"settle_checked", "queue_checked", "queue_suspended"} =>
        OpenSettlements(req[p].emp) = {}

\* Of the rows that a migration left, one at most is an open settlement.
LEMMA InitOneOpen ==
    ASSUME Init, \A a, b \in LegacyRow : a = b
    PROVE  OneOpen /\ NoneOpenYet
<1>1. \A a \in Action \ LegacyRow : row[a].status = "absent"
  BY DEF Init, NoRow
<1> QED
  BY <1>1 DEF Init, OneOpen, NoneOpenYet, OpenSettlements, Live, Idle

\* A step that makes no row open leaves one at most.
LEMMA NoneOpened ==
    ASSUME OneOpen, \A e \in Employee : OpenSettlements(e)' \subseteq OpenSettlements(e)
    PROVE  OneOpen'
BY DEF OneOpen

\* One row is written, and it is no open settlement or already was this one.
LEMMA RowWritten ==
    ASSUME IInv, NEW a \in Action, NEW r \in Row, row' = [row EXCEPT ![a] = r],
           \/ r.kind # "settlement" \/ r.executed \/ r.deleted
           \/ /\ Live(a) /\ r.subject = row[a].subject /\ r.kind = row[a].kind
              /\ r.executed = row[a].executed
    PROVE  \A e \in Employee : OpenSettlements(e)' \subseteq OpenSettlements(e)
<1>1. \A b \in Action : row'[b] = IF b = a THEN r ELSE row[b]
  BY DEF IInv, TypeOK
<1> QED
  BY <1>1 DEF OpenSettlements, Live

LEMMA OneOpenStep ==
    ASSUME IInv, OneOpen, NoneOpenYet, [Next]_vars
    PROVE  OneOpen' /\ NoneOpenYet'
<1> USE OneThread
<1>0. /\ row \in [Action -> Row]
      /\ req \in [Proc -> Request]
      /\ \A p \in Proc : req[p].op # "idle" =>
           req[p].emp \in Employee /\ req[p].seen \in EmpStatus
  BY DEF IInv, TypeOK, RequestsComplete
\* A thread that ends has nothing left to keep; there is no other thread.
<1>1. ASSUME NEW p \in Proc, Finish(p)
      PROVE  NoneOpenYet'
  <2>1. \A q \in Proc : req'[q].op = "idle"
    BY <1>0, <1>1 DEF Finish, Idle
  <2> QED
    BY <2>1 DEF NoneOpenYet
<1>2. ASSUME UNCHANGED row
      PROVE  OneOpen'
  BY <1>2 DEF OneOpen, OpenSettlements, Live
\* A thread that goes on has checked, and has itself written nothing since.
<1>3. ASSUME NEW p \in Proc, NEW op \in EmployeeOp \cup ActionOp, Continue(p, op),
             UNCHANGED row,
             op \in {"settle_checked", "queue_checked", "queue_suspended"} =>
               OpenSettlements(req[p].emp) = {}
      PROVE  NoneOpenYet'
  <2>1. req'[p].op = op /\ req'[p].emp = req[p].emp
    BY <1>0, <1>3 DEF Continue, Request
  <2>2. \A q \in Proc : q = p
    OBVIOUS
  <2> QED
    BY <1>3, <2>1, <2>2 DEF NoneOpenYet, OpenSettlements, Live
<1>4. ASSUME NEW p \in Proc, NEW op, NEW a, NEW e,
             Begin(p, op, a, e), UNCHANGED row,
             op \notin {"settle_checked", "queue_checked", "queue_suspended"}
      PROVE  OneOpen' /\ NoneOpenYet'
  <2>1. req'[p].op = op
    BY <1>0, <1>4 DEF Begin
  <2> QED
    BY <1>2, <1>4, <2>1 DEF NoneOpenYet
<1>5. ASSUME NEW p \in Proc, SettleCheckOpen(p) \/ QueueCheckOpen(p)
      PROVE  OneOpen' /\ NoneOpenYet'
  BY <1>2, <1>3, <1>5 DEF SettleCheckOpen, QueueCheckOpen, EmployeeOp
<1>6. ASSUME NEW p \in Proc, QueueSuspend(p)
      PROVE  OneOpen' /\ NoneOpenYet'
  <2>1. OpenSettlements(req[p].emp) = {}
    BY <1>6 DEF QueueSuspend, NoneOpenYet
  <2> QED
    BY <1>2, <1>3, <1>6, <2>1 DEF QueueSuspend, EmployeeOp
<1>7. ASSUME NEW p \in Proc, DeleteRevert(p)
      PROVE  OneOpen' /\ NoneOpenYet'
  BY <1>2, <1>3, <1>7 DEF DeleteRevert, ActionOp
\* What a settlement of today commits is executed at once.
<1>8. ASSUME NEW p \in Proc, NEW a \in Action, NEW u \in User, SettleCommit(p, a, u)
      PROVE  OneOpen' /\ NoneOpenYet'
  <2> DEFINE r == DirectRow(req[p].emp, u)
  <2>1. row' = [row EXCEPT ![a] = r] /\ req[p].emp \in Employee /\ Finish(p)
    BY <1>0, <1>8 DEF SettleCommit
  <2>2. r \in Row
    BY <2>1, NewRowType
  <2>3. r.executed
    BY DEF DirectRow, NoRow
  <2> HIDE DEF r
  <2> QED
    BY <1>1, <2>1, <2>2, <2>3, RowWritten, NoneOpened
\* No view queues a settlement as it queues the other requests.
<1>9. ASSUME NEW p \in Proc, NEW a \in Action, NEW u \in User, QueueRequest(p, a, u)
      PROVE  OneOpen' /\ NoneOpenYet'
  <2>1. PICK kind \in Kind : /\ MayRequest(kind, req[p].seen)
                             /\ row' = [row EXCEPT ![a] = QueuedRow(kind, req[p].emp, u, "none")]
    BY <1>9 DEF QueueRequest
  <2> DEFINE r == QueuedRow(kind, req[p].emp, u, "none")
  <2>2. req[p].emp \in Employee /\ Finish(p)
    BY <1>0, <1>9 DEF QueueRequest
  <2>3. r \in Row
    BY <2>2, NewRowType
  <2>4. r.kind # "settlement"
    BY <2>1 DEF MayRequest, QueuedRow, NoRow
  <2>5. row' = [row EXCEPT ![a] = r]
    BY <2>1
  <2> HIDE DEF r
  <2> QED
    BY <1>1, <2>2, <2>3, <2>4, <2>5, RowWritten, NoneOpened
\* The row that is queued is the first open one of its employee.
<1>10. ASSUME NEW p \in Proc, NEW a \in Action, NEW u \in User, QueueInsert(p, a, u)
       PROVE  OneOpen' /\ NoneOpenYet'
  <2>1. PICK f \in Employee : f = req[p].emp
    BY <1>0, <1>10 DEF QueueInsert
  <2> DEFINE before == IF req[p].seen = "terminated" THEN "none" ELSE req[p].seen
             r == QueuedRow("settlement", f, u, before)
  <2>2. row' = [row EXCEPT ![a] = r] /\ Finish(p) /\ OpenSettlements(f) = {}
    BY <1>10, <2>1 DEF QueueInsert, NoneOpenYet
  <2>3. r.subject = f
    BY DEF QueuedRow, NoRow
  <2> HIDE DEF r
  <2>4. \A b \in Action : row'[b] = IF b = a THEN r ELSE row[b]
    BY <1>0, <2>2
  <2>5. \A b \in Action : b \notin OpenSettlements(f)
    BY <2>2
  <2>6. \A e \in Employee : \A b \in OpenSettlements(e)' :
          IF b = a THEN e = f ELSE b \in OpenSettlements(e) /\ e # f
    BY <2>3, <2>4, <2>5 DEF OpenSettlements, Live
  <2>7. OneOpen'
    BY <2>6 DEF OneOpen
  <2> QED
    BY <1>1, <2>2, <2>7
\* The other handlers rewrite a row that keeps its employee, kind and execution, or
\* is executed or deleted.
<1>11. ASSUME NEW p \in Proc, NEW r \in Row, Reviewing(p), Commit(p, r),
              \/ r.executed
              \/ /\ r.subject = row[req[p].act].subject /\ r.kind = row[req[p].act].kind
                 /\ r.executed = row[req[p].act].executed
       PROVE  OneOpen' /\ NoneOpenYet'
  <2>1. /\ req[p].act \in Action /\ Live(req[p].act)
    BY <1>11 DEF Reviewing, IInv, RequestsComplete, ReviewsAreFresh, ActionOp, Live
  <2>2. row' = [row EXCEPT ![req[p].act] = r] /\ Finish(p)
    BY <1>11 DEF Commit
  <2> QED
    BY <1>1, <1>11, <2>1, <2>2, RowWritten, NoneOpened
<1>12. ASSUME NEW p \in Proc, Reviewing(p)
       PROVE  row[req[p].act] \in Row
  BY <1>0, <1>12 DEF Reviewing, IInv, RequestsComplete, ActionOp
<1>13. ASSUME NEW p \in Proc, NEW u \in User, NEW o \in User, GmApprove(p, u, o)
       PROVE  OneOpen' /\ NoneOpenYet'
  <2> DEFINE q == row[req[p].act]
             r == Endorsed(q, u, o)
  <2>1. Reviewing(p) /\ Commit(p, r) /\ q \in Row
    BY <1>12, <1>13 DEF GmApprove
  <2>2. r \in Row
    BY <2>1, UpdatedRowType
  <2>3. r.subject = q.subject /\ r.kind = q.kind /\ r.executed = q.executed
    BY <2>1 DEF Endorsed, Row
  <2> HIDE DEF r
  <2> QED
    BY <1>11, <2>1, <2>2, <2>3
<1>14. ASSUME NEW p \in Proc, NEW u \in User, NEW s \in EmpStatus, OfficerApprove(p, u, s)
       PROVE  OneOpen' /\ NoneOpenYet'
  <2> DEFINE r == Executed(row[req[p].act])
  <2>1. Reviewing(p) /\ Commit(p, r) /\ row[req[p].act] \in Row
    BY <1>12, <1>14 DEF OfficerApprove
  <2>2. r \in Row
    BY <2>1, UpdatedRowType
  <2>3. r.executed
    BY <2>1 DEF Executed, Row
  <2> HIDE DEF r
  <2> QED
    BY <1>11, <2>1, <2>2, <2>3
<1>15. ASSUME NEW p \in Proc, NEW u \in User, Return(p, u)
       PROVE  OneOpen' /\ NoneOpenYet'
  <2> DEFINE q == row[req[p].act]
             r == [q EXCEPT !.status = "returned"]
  <2>1. Reviewing(p) /\ Commit(p, r) /\ q \in Row
    BY <1>12, <1>15 DEF Return
  <2>2. r \in Row
    BY <2>1, UpdatedRowType
  <2>3. r.subject = q.subject /\ r.kind = q.kind /\ r.executed = q.executed
    BY <2>1 DEF Row
  <2> HIDE DEF r
  <2> QED
    BY <1>11, <2>1, <2>2, <2>3
<1>16. ASSUME NEW p \in Proc, NEW u \in User, Resubmit(p, u)
       PROVE  OneOpen' /\ NoneOpenYet'
  <2> DEFINE q == row[req[p].act]
             r == Resubmitted(q)
  <2>1. Reviewing(p) /\ Commit(p, r) /\ q \in Row
    BY <1>12, <1>16 DEF Resubmit
  <2>2. r \in Row
    BY <2>1, UpdatedRowType
  <2>3. r.subject = q.subject /\ r.kind = q.kind /\ r.executed = q.executed
    BY <2>1 DEF Resubmitted, Row
  <2> HIDE DEF r
  <2> QED
    BY <1>11, <2>1, <2>2, <2>3
<1>17. ASSUME NEW p \in Proc, DeleteCommit(p)
       PROVE  OneOpen' /\ NoneOpenYet'
  <2> DEFINE a == req[p].act
             r == [row[a] EXCEPT !.deleted = TRUE]
  <2>1. a \in Action /\ row[a] \in Row /\ row' = [row EXCEPT ![a] = r] /\ Finish(p)
    BY <1>0, <1>17 DEF DeleteCommit, IInv, RequestsComplete, ActionOp
  <2>2. r \in Row /\ r.deleted
    BY <2>1, UpdatedRowType DEF Row
  <2> HIDE DEF r, a
  <2> QED
    BY <1>1, <2>1, <2>2, RowWritten, NoneOpened
<1>18. ASSUME NEW p \in Proc, EditSave(p) \/ RequestEnds(p)
       PROVE  OneOpen' /\ NoneOpenYet'
  BY <1>1, <1>2, <1>18 DEF EditSave, RequestEnds
<1>19. ASSUME NEW p \in Proc,
              \/ \E op \in EmployeeOp, e \in Employee : LoadEmployee(p, op, e)
              \/ \E a \in Action : LockRow(p, a)
              \/ \E a \in Action, u \in User : DeleteLoad(p, a, u)
       PROVE  OneOpen' /\ NoneOpenYet'
  BY <1>4, <1>19 DEF LoadEmployee, LockRow, DeleteLoad
<1>20. UNCHANGED vars => OneOpen' /\ NoneOpenYet'
  BY DEF vars, OneOpen, NoneOpenYet, OpenSettlements, Live
<1>21. ASSUME NEW p \in Proc, RequestStep(p)
       PROVE  OneOpen' /\ NoneOpenYet'
  BY <1>5, <1>6, <1>7, <1>8, <1>9, <1>10, <1>13, <1>14, <1>15, <1>16, <1>17, <1>18, <1>21
  DEF RequestStep
<1> QED
  BY <1>18, <1>19, <1>20, <1>21 DEF Next

\* With one worker thread, and one settlement at most among the rows of earlier
\* releases, an employee has one open settlement at most, however requests are
\* returned, sent again, deleted or die half-way (_open_settlement_pending_action_qs).
THEOREM OneSettlementAtATime ==
    ASSUME \A a, b \in LegacyRow : a = b
    PROVE  Spec => []AtMostOneOpenSettlement
<1>1. Init => OneOpen /\ NoneOpenYet
  BY InitOneOpen
<1>2. IInv /\ (OneOpen /\ NoneOpenYet) /\ [Next]_vars => (OneOpen /\ NoneOpenYet)'
  BY OneOpenStep
<1>3. OneOpen => AtMostOneOpenSettlement
  <2> SUFFICES ASSUME OneOpen, NEW e \in Employee
               PROVE  Cardinality(OpenSettlements(e)) <= 1
    BY DEF AtMostOneOpenSettlement
  <2>1. CASE OpenSettlements(e) = {}
    BY <2>1, FS_EmptySet
  <2>2. CASE OpenSettlements(e) # {}
    <3>1. PICK a : OpenSettlements(e) = {a}
      BY <2>2 DEF OneOpen
    <3> QED
      BY <3>1, FS_Singleton
  <2> QED
    BY <2>1, <2>2
<1> QED
  BY SpecIInv, <1>1, <1>2, <1>3, PTL DEF Spec
=============================================================================
