------------------------ MODULE PendingActionsProofs ------------------------
(***************************************************************************)
(* Theorems about PendingActions, for any number of requests, employees,   *)
(* users and worker threads.                                               *)
(***************************************************************************)
EXTENDS PendingActions, Inbox, FiniteSetTheorems, SequenceTheorems, TLAPS

-----------------------------------------------------------------------------
(* The inductive invariant *)

\* A stored row names its employee and what it asks for; an unused one is NoRow.
RowsComplete ==
    \A a \in Action :
      IF row[a].status = "absent"
        THEN row[a] = NoRow
        ELSE row[a].subject \in Employee /\ row[a].kind \in Kind

\* A running request has loaded the employee, and the action it works on.
RequestsComplete ==
    \A p \in Proc :
      /\ req[p].op # "idle" => req[p].emp \in Employee /\ req[p].seen \in EmpStatus
      /\ req[p].op \in ActionOp =>
           req[p].act \in Action /\ row[req[p].act].status # "absent"

IInv ==
    /\ TypeOK
    /\ RowsComplete
    /\ RequestsComplete
    /\ ReviewsAreFresh
    /\ ExecutedExactlyOnce
    /\ BoxesMatchStage

-----------------------------------------------------------------------------
(* Lemmas about the records *)

LEMMA NoRowType == NoRow \in Row
BY DEF NoRow, Row, Status

LEMMA IdleType == Idle \in Request
BY NoRowType DEF Idle, Request

\* The rows that the three ways of making a request store.
LEMMA NewRowType ==
    ASSUME NEW e \in Employee, NEW u \in User
    PROVE  /\ DirectRow(e, u) \in Row
           /\ \A kind \in Kind, b \in EmpStatus \cup {"none"} :
                QueuedRow(kind, e, u, b) \in Row
BY DEF DirectRow, QueuedRow, NoRow, Row, Status, Kind

\* The rows that the handlers of a stored row write.
LEMMA UpdatedRowType ==
    ASSUME NEW r \in Row
    PROVE  /\ \A u, o \in User : Endorsed(r, u, o) \in Row
           /\ Executed(r) \in Row
           /\ [r EXCEPT !.status = "returned"] \in Row
           /\ Resubmitted(r) \in Row
           /\ [r EXCEPT !.deleted = TRUE] \in Row
<1>1. \A u, o \in User : Endorsed(r, u, o) \in Row
  BY DEF Endorsed, Row, Status
<1>2. Executed(r) \in Row
  BY DEF Executed, Row, Status
<1>3. [r EXCEPT !.status = "returned"] \in Row
  BY DEF Row, Status
<1>4. Resubmitted(r) \in Row
  <2>1. \A n \in Nat : [r EXCEPT !.status = "pending_gm", !.gm = Nobody,
                               !.officer = Nobody, !.resubmits = n] \in Row
    BY DEF Row, Status
  <2>2. r.resubmits \in Nat
    BY DEF Row
  <2>3. r.resubmits + 1 \in Nat
    BY <2>2
  <2> QED
    BY <2>1, <2>3 DEF Resubmitted
<1>5. [r EXCEPT !.deleted = TRUE] \in Row
  BY DEF Row
<1> QED
  BY <1>1, <1>2, <1>3, <1>4, <1>5

-----------------------------------------------------------------------------
(* Type correctness *)

LEMMA InitIInv == Init => IInv
<1> SUFFICES ASSUME Init PROVE IInv
  OBVIOUS
<1> USE RoleAssumption, NullAssumption
<1>1. PICK e \in Employee, kind \in LegacyKind, u \in User,
           status \in {"pending_branch", "returned"} :
        /\ row = [a \in Action |->
                     IF a \in LegacyRow THEN LegacyRowOf(kind, e, u, status)
                                        ELSE NoRow]
        /\ empStatus \in [Employee -> EmpStatus]
  BY DEF Init, EmpStatus
<1>2. kind \in Kind
  BY DEF LegacyKind
<1>3. LegacyRowOf(kind, e, u, status) \in Row
  BY <1>2, NewRowType DEF LegacyRowOf, Row, Status
<1>4. /\ effects = [a \in Action |-> 0]
      /\ rowLock = [a \in Action |-> NoProc]
      /\ req = [p \in Proc |-> Idle]
  BY DEF Init
<1>5. TypeOK
  BY <1>1, <1>3, <1>4, NoRowType, IdleType DEF TypeOK
<1>6. RowsComplete /\ ExecutedExactlyOnce /\ BoxesMatchStage
  BY <1>1, <1>2, <1>4
  DEF RowsComplete, ExecutedExactlyOnce, BoxesMatchStage, LegacyRowOf,
      QueuedRow, NoRow
<1>7. RequestsComplete /\ ReviewsAreFresh
  BY <1>4 DEF RequestsComplete, ReviewsAreFresh, Idle, ActionOp
<1> QED
  BY <1>5, <1>6, <1>7 DEF IInv

-----------------------------------------------------------------------------
(* The invariant is preserved.  Every action is one of five kinds of step.  *)

\* A step of a request that keeps what it loaded for later, or ends without a
\* lock: rows, effects and locks stay.
LEMMA QuietStep ==
    ASSUME IInv, NEW p \in Proc, NEW new \in Request,
           new.op # "review",
           new.op # "idle" => new.emp \in Employee /\ new.seen \in EmpStatus,
           new.op \in ActionOp =>
             new.act \in Action /\ row[new.act].status # "absent",
           req' = [req EXCEPT ![p] = new],
           empStatus' \in [Employee -> EmpStatus],
           UNCHANGED <<row, effects, rowLock>>
    PROVE  IInv'
<1>1. TypeOK'
  BY DEF IInv, TypeOK
<1>2. RowsComplete' /\ ExecutedExactlyOnce' /\ BoxesMatchStage'
  BY DEF IInv, RowsComplete, ExecutedExactlyOnce, BoxesMatchStage
<1>3. \A q \in Proc : req'[q] = IF q = p THEN new ELSE req[q]
  BY DEF IInv, TypeOK
<1>4. RequestsComplete'
  BY <1>3 DEF IInv, RequestsComplete
<1>5. ReviewsAreFresh'
  BY <1>3 DEF IInv, ReviewsAreFresh
<1> QED
  BY <1>1, <1>2, <1>4, <1>5 DEF IInv

\* A request that stores a new row and ends.
LEMMA NewRowStep ==
    ASSUME IInv, NEW p \in Proc, NEW a \in Action, NEW r \in Row, NEW n \in Nat,
           row[a] = NoRow,
           r.status \in {"pending_gm", "approved"},
           r.executed <=> r.status = "approved",
           n = IF r.executed THEN 1 ELSE 0,
           r.subject \in Employee, r.kind \in Kind,
           r.gm = Nobody, r.officer = Nobody,
           row' = [row EXCEPT ![a] = r],
           effects' = [effects EXCEPT ![a] = n],
           req' = [req EXCEPT ![p] = Idle],
           empStatus' \in [Employee -> EmpStatus],
           UNCHANGED rowLock
    PROVE  IInv'
<1>1. TypeOK'
  BY IdleType DEF IInv, TypeOK
<1>2. \A b \in Action : row'[b] = IF b = a THEN r ELSE row[b]
  BY DEF IInv, TypeOK
<1>3. \A b \in Action : effects'[b] = IF b = a THEN n ELSE effects[b]
  BY DEF IInv, TypeOK
<1>4. \A q \in Proc : req'[q] = IF q = p THEN Idle ELSE req[q]
  BY DEF IInv, TypeOK
<1>5. RowsComplete'
  BY <1>2 DEF IInv, RowsComplete
<1>6. ExecutedExactlyOnce'
  BY <1>2, <1>3 DEF IInv, ExecutedExactlyOnce
<1>7. BoxesMatchStage'
  BY <1>2 DEF IInv, BoxesMatchStage
<1>8. RequestsComplete'
  BY <1>2, <1>4 DEF IInv, RequestsComplete, Idle, ActionOp
<1>9. ReviewsAreFresh'
  <2> SUFFICES ASSUME NEW q \in Proc, req'[q].op = "review"
               PROVE  /\ rowLock[req'[q].act] = q
                      /\ req'[q].snap = row'[req'[q].act]
                      /\ ~row'[req'[q].act].deleted
    BY DEF ReviewsAreFresh
  <2>1. req'[q] = req[q] /\ req[q].op = "review"
    BY <1>4 DEF Idle
  <2>2. /\ req[q].act \in Action
        /\ row[req[q].act].status # "absent"
    BY <2>1 DEF IInv, RequestsComplete, ActionOp
  <2>3. req[q].act # a
    BY <2>2 DEF NoRow
  <2> QED
    BY <1>2, <2>1, <2>2, <2>3 DEF IInv, ReviewsAreFresh
<1> QED
  BY <1>1, <1>5, <1>6, <1>7, <1>8, <1>9 DEF IInv

\* A review handler that writes the row r, commits and releases the lock.
LEMMA CommitStep ==
    ASSUME IInv, NEW p \in Proc, NEW r \in Row, NEW n \in Nat,
           req[p].op = "review",
           r.status # "absent",
           r.executed <=> r.status = "approved",
           n = IF r.executed THEN 1 ELSE 0,
           r.subject = row[req[p].act].subject,
           r.kind = row[req[p].act].kind,
           r.status \in {"pending_branch", "pending_gm"} =>
             r.gm = Nobody /\ r.officer = Nobody,
           r.status = "pending_officer" =>
             r.gm \in Manager /\ r.officer \in Assignable,
           row' = [row EXCEPT ![req[p].act] = r],
           rowLock' = [rowLock EXCEPT ![req[p].act] = NoProc],
           req' = [req EXCEPT ![p] = Idle],
           effects' = [effects EXCEPT ![req[p].act] = n],
           empStatus' \in [Employee -> EmpStatus]
    PROVE  IInv'
<1> DEFINE a == req[p].act
<1>1. /\ a \in Action
      /\ rowLock[a] = p
      /\ row[a].status # "absent"
  BY DEF IInv, RequestsComplete, ReviewsAreFresh, ActionOp
<1>2. /\ row' = [row EXCEPT ![a] = r]
      /\ rowLock' = [rowLock EXCEPT ![a] = NoProc]
      /\ effects' = [effects EXCEPT ![a] = n]
  OBVIOUS
<1> HIDE DEF a
<1>3. TypeOK'
  <2>1. row' \in [Action -> Row]
    BY <1>1, <1>2 DEF IInv, TypeOK
  <2>0. effects' \in [Action -> Nat]
    <3>1. effects \in [Action -> Nat]
      BY DEF IInv, TypeOK
    <3> QED
      BY <1>2, <3>1
  <2>2. rowLock' \in [Action -> Proc \cup {NoProc}] /\ req' \in [Proc -> Request]
    BY <1>1, <1>2, IdleType DEF IInv, TypeOK
  <2> QED
    BY <2>0, <2>1, <2>2 DEF TypeOK
<1>4. \A b \in Action :
        /\ row'[b] = IF b = a THEN r ELSE row[b]
        /\ effects'[b] = IF b = a THEN n ELSE effects[b]
        /\ rowLock'[b] = IF b = a THEN NoProc ELSE rowLock[b]
  BY <1>1, <1>2 DEF IInv, TypeOK
<1>5. \A q \in Proc : req'[q] = IF q = p THEN Idle ELSE req[q]
  BY DEF IInv, TypeOK
<1>6. RowsComplete'
  BY <1>1, <1>4 DEF IInv, RowsComplete, a
<1>7. ExecutedExactlyOnce'
  BY <1>4 DEF IInv, ExecutedExactlyOnce
<1>8. BoxesMatchStage'
  BY <1>4 DEF IInv, BoxesMatchStage
<1>9. RequestsComplete'
  BY <1>1, <1>4, <1>5 DEF IInv, RequestsComplete, Idle, ActionOp
<1>10. ReviewsAreFresh'
  <2> SUFFICES ASSUME NEW q \in Proc, req'[q].op = "review"
               PROVE  /\ rowLock'[req'[q].act] = q
                      /\ req'[q].snap = row'[req'[q].act]
                      /\ ~row'[req'[q].act].deleted
    BY DEF ReviewsAreFresh
  <2>1. req'[q] = req[q] /\ req[q].op = "review" /\ q # p
    BY <1>5 DEF Idle
  <2>2. req[q].act \in Action /\ rowLock[req[q].act] = q
    BY <2>1 DEF IInv, RequestsComplete, ReviewsAreFresh, ActionOp
  <2>3. req[q].act # a
    BY <1>1, <2>1, <2>2
  <2> QED
    BY <1>4, <2>1, <2>2, <2>3 DEF IInv, ReviewsAreFresh
<1> QED
  BY <1>3, <1>6, <1>7, <1>8, <1>9, <1>10 DEF IInv

\* The soft delete, which waits until no review holds the row.
LEMMA DeleteStep ==
    ASSUME IInv, NEW p \in Proc, DeleteCommit(p)
    PROVE  IInv'
<1> DEFINE a == req[p].act
           r == [row[a] EXCEPT !.deleted = TRUE]
<1>1. /\ a \in Action
      /\ rowLock[a] = NoProc
      /\ row[a] \in Row
      /\ row[a].status # "absent"
  BY DEF IInv, TypeOK, RequestsComplete, ActionOp, DeleteCommit, RowFree
<1>2. /\ row' = [row EXCEPT ![a] = r]
      /\ req' = [req EXCEPT ![p] = Idle]
      /\ UNCHANGED <<effects, empStatus, rowLock>>
  BY DEF DeleteCommit, Finish
<1>3. /\ r \in Row
      /\ r.status = row[a].status /\ r.executed = row[a].executed
      /\ r.subject = row[a].subject /\ r.kind = row[a].kind
      /\ r.gm = row[a].gm /\ r.officer = row[a].officer
  BY <1>1, UpdatedRowType DEF Row
<1> HIDE DEF a, r
<1>4. TypeOK'
  BY <1>1, <1>2, <1>3, IdleType DEF IInv, TypeOK
<1>5. \A b \in Action : row'[b] = IF b = a THEN r ELSE row[b]
  BY <1>1, <1>2 DEF IInv, TypeOK
<1>6. \A q \in Proc : req'[q] = IF q = p THEN Idle ELSE req[q]
  BY <1>2 DEF IInv, TypeOK
<1>7. RowsComplete'
  BY <1>1, <1>3, <1>5 DEF IInv, RowsComplete
<1>8. ExecutedExactlyOnce'
  BY <1>1, <1>2, <1>3, <1>5 DEF IInv, ExecutedExactlyOnce
<1>9. BoxesMatchStage'
  BY <1>1, <1>3, <1>5 DEF IInv, BoxesMatchStage
<1>10. RequestsComplete'
  BY <1>1, <1>3, <1>5, <1>6 DEF IInv, RequestsComplete, Idle, ActionOp
<1>11. ReviewsAreFresh'
  <2> SUFFICES ASSUME NEW q \in Proc, req'[q].op = "review"
               PROVE  /\ rowLock'[req'[q].act] = q
                      /\ req'[q].snap = row'[req'[q].act]
                      /\ ~row'[req'[q].act].deleted
    BY DEF ReviewsAreFresh
  <2>1. req'[q] = req[q] /\ req[q].op = "review"
    BY <1>6 DEF Idle
  <2>2. req[q].act \in Action /\ rowLock[req[q].act] = q
    BY <2>1 DEF IInv, RequestsComplete, ReviewsAreFresh, ActionOp
  <2>3. req[q].act # a
    BY <1>1, <2>2, NullAssumption
  <2> QED
    BY <1>2, <1>5, <2>1, <2>2, <2>3 DEF IInv, ReviewsAreFresh
<1> QED
  BY <1>4, <1>7, <1>8, <1>9, <1>10, <1>11 DEF IInv

\* A review that begins.
LEMMA LockStep ==
    ASSUME IInv, NEW p \in Proc, NEW a \in Action, LockRow(p, a)
    PROVE  IInv'
<1> DEFINE new == [op |-> "review", act |-> a, snap |-> row[a],
                   emp |-> row[a].subject, seen |-> empStatus[row[a].subject]]
<1>1. /\ row[a] \in Row /\ row[a].status # "absent" /\ ~row[a].deleted
      /\ row[a].subject \in Employee
      /\ rowLock[a] = NoProc
      /\ req' = [req EXCEPT ![p] = new]
      /\ rowLock' = [rowLock EXCEPT ![a] = p]
      /\ UNCHANGED <<row, effects, empStatus>>
  BY DEF LockRow, Begin, Live, RowFree, IInv, TypeOK, RowsComplete
<1>2. /\ new \in Request
      /\ new.op = "review" /\ new.act = a /\ new.snap = row[a]
      /\ new.emp \in Employee /\ new.seen \in EmpStatus
  BY <1>1 DEF Request, ActionOp, IInv, TypeOK
<1> HIDE DEF new
<1>3. TypeOK'
  BY <1>1, <1>2 DEF IInv, TypeOK
<1>4. \A q \in Proc : req'[q] = IF q = p THEN new ELSE req[q]
  BY <1>1 DEF IInv, TypeOK
<1>5. \A b \in Action : rowLock'[b] = IF b = a THEN p ELSE rowLock[b]
  BY <1>1 DEF IInv, TypeOK
<1>6. RowsComplete' /\ ExecutedExactlyOnce' /\ BoxesMatchStage'
  BY <1>1 DEF IInv, RowsComplete, ExecutedExactlyOnce, BoxesMatchStage
<1>7. RequestsComplete'
  BY <1>1, <1>2, <1>4 DEF IInv, RequestsComplete
<1>8. ReviewsAreFresh'
  <2> SUFFICES ASSUME NEW q \in Proc, req'[q].op = "review", q # p
               PROVE  /\ rowLock'[req'[q].act] = q
                      /\ req'[q].snap = row'[req'[q].act]
                      /\ ~row'[req'[q].act].deleted
    BY <1>1, <1>2, <1>4, <1>5 DEF ReviewsAreFresh
  <2>1. req'[q] = req[q] /\ req[q].op = "review"
    BY <1>4
  <2>2. req[q].act \in Action /\ rowLock[req[q].act] = q
    BY <2>1 DEF IInv, RequestsComplete, ReviewsAreFresh, ActionOp
  <2>3. req[q].act # a
    BY <1>1, <2>2, NullAssumption
  <2> QED
    BY <1>1, <1>5, <2>1, <2>2, <2>3 DEF IInv, ReviewsAreFresh
<1> QED
  BY <1>3, <1>6, <1>7, <1>8 DEF IInv

\* A request that is refused or dies.
LEMMA EndStep ==
    ASSUME IInv, NEW p \in Proc, RequestEnds(p)
    PROVE  IInv'
<1>1. /\ req' = [req EXCEPT ![p] = Idle]
      /\ rowLock' = [a \in Action |-> IF rowLock[a] = p THEN NoProc ELSE rowLock[a]]
      /\ UNCHANGED <<row, effects, empStatus>>
  BY DEF RequestEnds, Finish, Released
<1>2. TypeOK'
  BY <1>1, IdleType DEF IInv, TypeOK
<1>3. \A q \in Proc : req'[q] = IF q = p THEN Idle ELSE req[q]
  BY <1>1 DEF IInv, TypeOK
<1>4. RowsComplete' /\ ExecutedExactlyOnce' /\ BoxesMatchStage'
  BY <1>1 DEF IInv, RowsComplete, ExecutedExactlyOnce, BoxesMatchStage
<1>5. RequestsComplete'
  BY <1>1, <1>3 DEF IInv, RequestsComplete, Idle, ActionOp
<1>6. ReviewsAreFresh'
  BY <1>1, <1>3 DEF IInv, RequestsComplete, ReviewsAreFresh, Idle, ActionOp
<1> QED
  BY <1>2, <1>4, <1>5, <1>6 DEF IInv

-----------------------------------------------------------------------------
(* Every action is one of those steps *)

LEMMA EmployeeStep ==
    ASSUME IInv, NEW p \in Proc
    PROVE  /\ \A op \in EmployeeOp, e \in Employee : LoadEmployee(p, op, e) => IInv'
           /\ SettleCheckOpen(p) => IInv'
           /\ \A a \in Action, u \in User : SettleCommit(p, a, u) => IInv'
           /\ \A a \in Action, u \in User : QueueRequest(p, a, u) => IInv'
           /\ QueueCheckOpen(p) => IInv'
           /\ QueueSuspend(p) => IInv'
           /\ \A a \in Action, u \in User : QueueInsert(p, a, u) => IInv'
           /\ EditSave(p) => IInv'
<1>0. /\ req[p] \in Request
      /\ \A a \in Action : row[a] \in Row
      /\ empStatus \in [Employee -> EmpStatus]
      /\ effects \in [Action -> Nat]
      /\ req[p].op # "idle" => req[p].emp \in Employee /\ req[p].seen \in EmpStatus
  BY DEF IInv, TypeOK, RequestsComplete
<1> DEFINE Next1(op) == [req[p] EXCEPT !.op = op]
<1>1. \A op \in EmployeeOp : Next1(op) \in Request
  BY <1>0 DEF Request
<1>2. ASSUME NEW op \in EmployeeOp, req[p].op # "idle",
             Continue(p, op), UNCHANGED <<row, effects, rowLock>>,
             empStatus' \in [Employee -> EmpStatus]
      PROVE  IInv'
  <2>1. req' = [req EXCEPT ![p] = Next1(op)]
    BY <1>2 DEF Continue
  <2>2. Next1(op).op = op /\ Next1(op).emp = req[p].emp /\ Next1(op).seen = req[p].seen
    BY <1>0 DEF Request
  <2> QED
    BY <1>0, <1>1, <1>2, <2>1, <2>2, QuietStep DEF EmployeeOp, ActionOp
<1>3. ASSUME NEW a \in Action, NEW r \in Row, NEW e \in Employee, NEW kind \in Kind,
             row[a] = NoRow, row' = [row EXCEPT ![a] = r],
             r.status = "pending_gm", ~r.executed, r.subject = e, r.kind = kind,
             r.gm = Nobody, r.officer = Nobody,
             Finish(p), UNCHANGED <<effects, empStatus, rowLock>>
      PROVE  IInv'
  <2>1. effects[a] = 0
    BY <1>3 DEF IInv, ExecutedExactlyOnce, NoRow
  <2>2. effects' = [effects EXCEPT ![a] = 0]
    BY <1>0, <1>3, <2>1
  <2>3. req' = [req EXCEPT ![p] = Idle]
    BY <1>3 DEF Finish
  <2> QED
    BY <1>0, <1>3, <2>2, <2>3, NewRowStep
<1>4. ASSUME NEW op \in EmployeeOp, NEW e \in Employee, LoadEmployee(p, op, e)
      PROVE  IInv'
  <2> DEFINE new == [op |-> op, act |-> NoAction, snap |-> NoRow,
                     emp |-> e, seen |-> empStatus[e]]
  <2>1. req' = [req EXCEPT ![p] = new] /\ UNCHANGED <<row, effects, empStatus, rowLock>>
    BY <1>4, NullAssumption DEF LoadEmployee, Begin
  <2>2. new \in Request
    BY <1>0, NoRowType DEF Request
  <2>3. op \notin ActionOp /\ op # "review"
    BY DEF EmployeeOp, ActionOp
  <2> QED
    BY <1>0, <2>1, <2>2, <2>3, QuietStep
<1>5. SettleCheckOpen(p) => IInv'
  BY <1>0, <1>2 DEF SettleCheckOpen, EmployeeOp
<1>6. ASSUME NEW a \in Action, NEW u \in User, SettleCommit(p, a, u)
      PROVE  IInv'
  <2> DEFINE r == DirectRow(req[p].emp, u)
  <2>1. /\ row[a] = NoRow /\ row' = [row EXCEPT ![a] = r]
        /\ effects' = [effects EXCEPT ![a] = effects[a] + 1]
        /\ empStatus' = [empStatus EXCEPT ![req[p].emp] = "terminated"]
        /\ req' = [req EXCEPT ![p] = Idle]
        /\ UNCHANGED rowLock
        /\ req[p].op = "settle_checked"
    BY <1>6 DEF SettleCommit, Performed, Finish
  <2>2. effects[a] = 0
    BY <2>1 DEF IInv, ExecutedExactlyOnce, NoRow
  <2>3. r \in Row
    BY <1>0, <2>1, NewRowType
  <2>4. /\ r.status = "approved" /\ r.executed /\ r.subject = req[p].emp
        /\ r.kind = "settlement" /\ r.gm = Nobody /\ r.officer = Nobody
    BY DEF DirectRow, NoRow
  <2>5. empStatus' \in [Employee -> EmpStatus]
    BY <1>0, <2>1 DEF EmpStatus
  <2>6. effects' = [effects EXCEPT ![a] = 1]
    BY <1>0, <2>1, <2>2
  <2> HIDE DEF r
  <2> QED
    BY <1>0, <2>1, <2>3, <2>4, <2>5, <2>6, NewRowStep DEF Kind
<1>7. ASSUME NEW a \in Action, NEW u \in User, QueueRequest(p, a, u)
      PROVE  IInv'
  <2>1. PICK kind \in Kind :
          row' = [row EXCEPT ![a] = QueuedRow(kind, req[p].emp, u, "none")]
    BY <1>7 DEF QueueRequest
  <2> DEFINE r == QueuedRow(kind, req[p].emp, u, "none")
  <2>2. /\ row[a] = NoRow /\ req[p].op = "request" /\ Finish(p)
        /\ UNCHANGED <<effects, empStatus, rowLock>>
    BY <1>7 DEF QueueRequest
  <2>3. r \in Row
    BY <1>0, <2>2, NewRowType
  <2>4. /\ r.status = "pending_gm" /\ ~r.executed /\ r.subject = req[p].emp
        /\ r.kind = kind /\ r.gm = Nobody /\ r.officer = Nobody
    BY DEF QueuedRow, NoRow
  <2> HIDE DEF r
  <2> QED
    BY <1>0, <1>3, <2>1, <2>2, <2>3, <2>4 DEF r
<1>8. QueueCheckOpen(p) => IInv'
  BY <1>0, <1>2 DEF QueueCheckOpen, EmployeeOp
<1>9. ASSUME QueueSuspend(p)
      PROVE  IInv'
  <2>1. empStatus' \in [Employee -> EmpStatus]
    BY <1>0, <1>9 DEF QueueSuspend, EmpStatus
  <2> QED
    BY <1>2, <1>9, <2>1 DEF QueueSuspend, EmployeeOp
<1>10. ASSUME NEW a \in Action, NEW u \in User, QueueInsert(p, a, u)
       PROVE  IInv'
  <2> DEFINE before == IF req[p].seen = "terminated" THEN "none" ELSE req[p].seen
             r == QueuedRow("settlement", req[p].emp, u, before)
  <2>1. /\ row[a] = NoRow /\ req[p].op = "queue_suspended" /\ Finish(p)
        /\ row' = [row EXCEPT ![a] = r]
        /\ UNCHANGED <<effects, empStatus, rowLock>>
    BY <1>10 DEF QueueInsert
  <2>2. before \in EmpStatus \cup {"none"}
    BY <1>0, <2>1
  <2>3. r \in Row
    BY <1>0, <2>1, <2>2, NewRowType DEF Kind
  <2>4. /\ r.status = "pending_gm" /\ ~r.executed /\ r.subject = req[p].emp
        /\ r.kind = "settlement" /\ r.gm = Nobody /\ r.officer = Nobody
    BY DEF QueuedRow, NoRow
  <2> HIDE DEF r
  <2> QED
    BY <1>0, <1>3, <2>1, <2>3, <2>4 DEF Kind
<1>11. ASSUME EditSave(p)
       PROVE  IInv'
  <2>1. empStatus' \in [Employee -> EmpStatus]
    BY <1>0, <1>11 DEF EditSave
  <2>2. Idle.op = "idle"
    BY DEF Idle
  <2> QED
    BY <1>11, <2>1, <2>2, IdleType, QuietStep DEF EditSave, Finish, ActionOp
<1> QED
  BY <1>4, <1>5, <1>6, <1>7, <1>8, <1>9, <1>10, <1>11

LEMMA ReviewStep ==
    ASSUME IInv, NEW p \in Proc
    PROVE  /\ \A u, o \in User : GmApprove(p, u, o) => IInv'
           /\ \A u \in User, s \in EmpStatus : OfficerApprove(p, u, s) => IInv'
           /\ \A u \in User : Return(p, u) => IInv'
           /\ \A u \in User : Resubmit(p, u) => IInv'
<1> DEFINE a == req[p].act
<1>0. ASSUME req[p].op = "review"
      PROVE  /\ a \in Action /\ row[a] \in Row /\ row[a].status # "absent"
             /\ req[p].snap = row[a]
             /\ effects[a] = IF row[a].executed THEN 1 ELSE 0
             /\ row[a].executed <=> row[a].status = "approved"
             /\ row[a].status = "pending_branch" \/ row[a].status = "pending_gm" =>
                  row[a].gm = Nobody /\ row[a].officer = Nobody
  BY <1>0 DEF IInv, TypeOK, RequestsComplete, ReviewsAreFresh, ActionOp,
              ExecutedExactlyOnce, BoxesMatchStage
<1>1. /\ empStatus \in [Employee -> EmpStatus]
      /\ effects \in [Action -> Nat]
      /\ row \in [Action -> Row]
  BY DEF IInv, TypeOK
<1>2. ASSUME NEW r \in Row, req[p].op = "review", Commit(p, r),
             ~row[a].executed, ~r.executed,
             r.status \in {"pending_gm", "pending_officer", "returned"},
             r.subject = row[a].subject, r.kind = row[a].kind,
             r.status = "pending_gm" => r.gm = Nobody /\ r.officer = Nobody,
             r.status = "pending_officer" =>
               r.gm \in Manager /\ r.officer \in Assignable,
             UNCHANGED <<effects, empStatus>>
      PROVE  IInv'
  <2>1. effects' = [effects EXCEPT ![a] = 0]
    BY <1>0, <1>1, <1>2
  <2>2. /\ row' = [row EXCEPT ![a] = r]
        /\ rowLock' = [rowLock EXCEPT ![a] = NoProc]
        /\ req' = [req EXCEPT ![p] = Idle]
    BY <1>2 DEF Commit, Finish
  <2> QED
    BY <1>1, <1>2, <2>1, <2>2, CommitStep
<1>3. ASSUME NEW u \in User, NEW o \in User, GmApprove(p, u, o)
      PROVE  IInv'
  <2> DEFINE r == Endorsed(row[a], u, o)
  <2>1. /\ req[p].op = "review" /\ Commit(p, r) /\ UNCHANGED <<effects, empStatus>>
        /\ MayEndorse(req[p].snap, u, o)
    BY <1>3 DEF GmApprove, Reviewing
  <2>2. r \in Row
    BY <1>0, <2>1, UpdatedRowType
  <2>3. /\ r.status = "pending_officer" /\ r.executed = row[a].executed
        /\ r.subject = row[a].subject /\ r.kind = row[a].kind
        /\ r.gm = u /\ r.officer = o
    BY <1>0, <2>1 DEF Endorsed, Row
  <2>4. ~row[a].executed /\ u \in Manager /\ o \in Assignable
    BY <1>0, <2>1 DEF MayEndorse
  <2> HIDE DEF r
  <2> QED
    BY <1>2, <2>1, <2>2, <2>3, <2>4
<1>4. ASSUME NEW u \in User, NEW s \in EmpStatus, OfficerApprove(p, u, s)
      PROVE  IInv'
  <2> DEFINE r == Executed(row[a])
  <2>1. /\ req[p].op = "review"
        /\ MayExecute(req[p].snap, u)
        /\ row' = [row EXCEPT ![a] = r]
        /\ rowLock' = [rowLock EXCEPT ![a] = NoProc]
        /\ req' = [req EXCEPT ![p] = Idle]
        /\ effects' = [effects EXCEPT ![a] = effects[a] + 1]
        /\ empStatus' = [empStatus EXCEPT ![req[p].snap.subject] = s]
    BY <1>4 DEF OfficerApprove, Reviewing, Commit, Finish, Performed
  <2>2. r \in Row
    BY <1>0, <2>1, UpdatedRowType
  <2>3. /\ r.status = "approved" /\ r.executed
        /\ r.subject = row[a].subject /\ r.kind = row[a].kind
    BY <1>0, <2>1 DEF Executed, Row
  <2>4. effects[a] = 0
    BY <1>0, <2>1 DEF MayExecute
  <2>5. effects' = [effects EXCEPT ![a] = 1]
    BY <2>1, <2>4
  <2>6. empStatus' \in [Employee -> EmpStatus]
    BY <1>1, <2>1
  <2> HIDE DEF r
  <2> QED
    BY <2>1, <2>2, <2>3, <2>5, <2>6, CommitStep
<1>5. ASSUME NEW u \in User, Return(p, u)
      PROVE  IInv'
  <2> DEFINE r == [row[a] EXCEPT !.status = "returned"]
  <2>1. /\ req[p].op = "review" /\ Commit(p, r) /\ UNCHANGED <<effects, empStatus>>
        /\ req[p].snap.status \in Pending
    BY <1>5 DEF Return, Reviewing, MayReturn
  <2>2. r \in Row
    BY <1>0, <2>1, UpdatedRowType
  <2>3. /\ r.status = "returned" /\ r.executed = row[a].executed
        /\ r.subject = row[a].subject /\ r.kind = row[a].kind
    BY <1>0, <2>1 DEF Row
  <2>4. ~row[a].executed
    BY <1>0, <2>1 DEF Pending
  <2> HIDE DEF r
  <2> QED
    BY <1>2, <2>1, <2>2, <2>3, <2>4
<1>6. ASSUME NEW u \in User, Resubmit(p, u)
      PROVE  IInv'
  <2> DEFINE r == Resubmitted(row[a])
  <2>1. /\ req[p].op = "review" /\ Commit(p, r) /\ UNCHANGED <<effects, empStatus>>
        /\ req[p].snap.status = "returned"
    BY <1>6 DEF Resubmit, Reviewing, MayResubmit
  <2>2. r \in Row
    BY <1>0, <2>1, UpdatedRowType
  <2>3. /\ r.status = "pending_gm" /\ r.executed = row[a].executed
        /\ r.subject = row[a].subject /\ r.kind = row[a].kind
        /\ r.gm = Nobody /\ r.officer = Nobody
    BY <1>0, <2>1 DEF Resubmitted, Row
  <2>4. ~row[a].executed
    BY <1>0, <2>1
  <2> HIDE DEF r
  <2> QED
    BY <1>2, <2>1, <2>2, <2>3, <2>4
<1> QED
  BY <1>3, <1>4, <1>5, <1>6

LEMMA DeletionStep ==
    ASSUME IInv, NEW p \in Proc
    PROVE  /\ \A a \in Action, u \in User : DeleteLoad(p, a, u) => IInv'
           /\ DeleteRevert(p) => IInv'
<1>0. /\ req[p] \in Request
      /\ \A a \in Action : row[a] \in Row
      /\ empStatus \in [Employee -> EmpStatus]
  BY DEF IInv, TypeOK
<1>1. ASSUME NEW a \in Action, NEW u \in User, DeleteLoad(p, a, u)
      PROVE  IInv'
  <2> DEFINE new == [op |-> "delete", act |-> a, snap |-> row[a],
                     emp |-> row[a].subject, seen |-> empStatus[row[a].subject]]
  <2>1. /\ req' = [req EXCEPT ![p] = new]
        /\ UNCHANGED <<row, effects, empStatus, rowLock>>
        /\ row[a].status # "absent"
    BY <1>1 DEF DeleteLoad, Begin, Live
  <2>2. row[a].subject \in Employee
    BY <2>1 DEF IInv, RowsComplete
  <2>3. new \in Request
    BY <1>0, <2>2 DEF Request, ActionOp
  <2>4. /\ new.op = "delete" /\ new.act = a
        /\ new.emp \in Employee /\ new.seen \in EmpStatus
    BY <1>0, <2>2
  <2> HIDE DEF new
  <2> QED
    BY <1>0, <2>1, <2>3, <2>4, QuietStep
<1>2. ASSUME DeleteRevert(p)
      PROVE  IInv'
  <2> DEFINE new == [req[p] EXCEPT !.op = "delete_reverted"]
  <2>1. /\ req' = [req EXCEPT ![p] = new]
        /\ UNCHANGED <<row, effects, rowLock>>
        /\ req[p].op = "delete"
    BY <1>2 DEF DeleteRevert, Continue
  <2>2. /\ req[p].emp \in Employee /\ req[p].seen \in EmpStatus
        /\ req[p].act \in Action /\ row[req[p].act].status # "absent"
    BY <2>1 DEF IInv, RequestsComplete, ActionOp
  <2>3. new \in Request
    BY <1>0 DEF Request, ActionOp
  <2>4. /\ new.op = "delete_reverted" /\ new.act = req[p].act
        /\ new.emp = req[p].emp /\ new.seen = req[p].seen
    BY <1>0 DEF Request
  <2>5. req[p].snap \in Row
    BY <1>0 DEF Request
  <2>6. RevertedStatus(req[p].snap) \in EmpStatus
    BY <2>5 DEF RevertedStatus, Row, EmpStatus
  <2>7. empStatus' \in [Employee -> EmpStatus]
    BY <1>0, <1>2, <2>6 DEF DeleteRevert
  <2> HIDE DEF new
  <2> QED
    BY <2>1, <2>2, <2>3, <2>4, <2>7, QuietStep
<1> QED
  BY <1>1, <1>2

\* IInv is inductive.
LEMMA NextIInv == IInv /\ [Next]_vars => IInv'
<1> SUFFICES ASSUME IInv, [Next]_vars PROVE IInv'
  OBVIOUS
<1>1. CASE UNCHANGED vars
  BY <1>1 DEF vars, IInv, TypeOK, RowsComplete, RequestsComplete,
              ReviewsAreFresh, ExecutedExactlyOnce, BoxesMatchStage
<1>2. ASSUME NEW p \in Proc, RequestStep(p)
      PROVE  IInv'
  BY <1>2, EmployeeStep, ReviewStep, DeletionStep, DeleteStep DEF RequestStep
<1>3. ASSUME NEW p \in Proc, ~RequestStep(p),
             \/ \E op \in EmployeeOp, e \in Employee : LoadEmployee(p, op, e)
             \/ \E a \in Action : LockRow(p, a)
             \/ \E a \in Action, u \in User : DeleteLoad(p, a, u)
             \/ RequestEnds(p)
      PROVE  IInv'
  BY <1>3, EmployeeStep, LockStep, DeletionStep, EndStep
<1> QED
  BY <1>1, <1>2, <1>3 DEF Next

THEOREM SpecIInv == Spec => []IInv
BY InitIInv, NextIInv, PTL DEF Spec

-----------------------------------------------------------------------------
(* The theorems *)

\* Every variable keeps its type: in particular no deletion writes a status that
\* Employee.status does not have.
THEOREM TypeCorrect == Spec => []TypeOK
<1>1. IInv => TypeOK
  BY DEF IInv
<1> QED
  BY SpecIInv, <1>1, PTL

\* The effects of a request are committed exactly once, with its approval.
THEOREM ExecutionIsExact == Spec => []ExecutedExactlyOnce
<1>1. IInv => ExecutedExactlyOnce
  BY DEF IInv
<1> QED
  BY SpecIInv, <1>1, PTL

\* The stage boxes of a request belong to its current round.
THEOREM BoxesAreCurrent == Spec => []BoxesMatchStage
<1>1. IInv => BoxesMatchStage
  BY DEF IInv
<1> QED
  BY SpecIInv, <1>1, PTL

\* No review works on a row that somebody else changed or deleted.
THEOREM ReviewsSeeTheRow == Spec => []ReviewsAreFresh
<1>1. IInv => ReviewsAreFresh
  BY DEF IInv
<1> QED
  BY SpecIInv, <1>1, PTL

-----------------------------------------------------------------------------
(* What a step may do to a row *)

\* The row of a becomes r, and the number of its executions n, by an operation
\* of the workflow.
RowChange(a, r, n) ==
    \/ /\ row[a] = NoRow                                        \* requested
       /\ r.status = "pending_gm" /\ r.kind \in Kind /\ r.officer = Nobody
       /\ ~r.deleted /\ n = effects[a]
    \/ /\ row[a] = NoRow                                        \* settled
       /\ r.status = "approved" /\ r.kind = "settlement" /\ r.officer = Nobody
       /\ ~r.deleted /\ n = effects[a] + 1
    \/ /\ ~row[a].deleted /\ ~r.deleted /\ r.kind = row[a].kind  \* reviewed
       /\ \/ /\ row[a].status \in {"pending_gm", "pending_branch"}
             /\ r.status = "pending_officer" /\ r.officer \in Assignable
             /\ n = effects[a]
          \/ /\ row[a].status = "pending_officer"
             /\ r.status = "approved" /\ r.officer = row[a].officer
             /\ n = effects[a] + 1
          \/ /\ row[a].status \in Pending
             /\ r.status = "returned" /\ r.officer = row[a].officer
             /\ n = effects[a]
          \/ /\ row[a].status = "returned"
             /\ r.status = "pending_gm" /\ r.officer = Nobody
             /\ n = effects[a]
    \/ /\ row[a].status # "absent"                              \* deleted
       /\ r = [row[a] EXCEPT !.deleted = TRUE] /\ n = effects[a]

SomeRowChanges ==
    \E a \in Action, r \in Row, n \in Nat :
      /\ row' = [row EXCEPT ![a] = r]
      /\ effects' = [effects EXCEPT ![a] = n]
      /\ RowChange(a, r, n)

\* A step changes at most one row, by one of these operations.
LEMMA StepChangesOneRow ==
    ASSUME IInv, [Next]_vars
    PROVE  UNCHANGED <<row, effects>> \/ SomeRowChanges
<1>0. /\ row \in [Action -> Row]
      /\ effects \in [Action -> Nat]
      /\ \A p \in Proc : req[p] \in Request
      /\ \A p \in Proc : req[p].op # "idle" =>
           req[p].emp \in Employee /\ req[p].seen \in EmpStatus
  BY DEF IInv, TypeOK, RequestsComplete
<1>1. ASSUME NEW a \in Action, NEW r \in Row, NEW n \in Nat,
             row' = [row EXCEPT ![a] = r], effects' = [effects EXCEPT ![a] = n],
             RowChange(a, r, n)
      PROVE  SomeRowChanges
  BY <1>1 DEF SomeRowChanges
<1>2. ASSUME NEW a \in Action, NEW r \in Row, row' = [row EXCEPT ![a] = r],
             UNCHANGED effects, RowChange(a, r, effects[a])
      PROVE  SomeRowChanges
  <2>1. effects' = [effects EXCEPT ![a] = effects[a]] /\ effects[a] \in Nat
    BY <1>0, <1>2
  <2> QED
    BY <1>1, <1>2, <2>1
<1>3. ASSUME NEW p \in Proc, req[p].op = "review"
      PROVE  /\ req[p].act \in Action /\ row[req[p].act] \in Row
             /\ req[p].snap = row[req[p].act] /\ ~row[req[p].act].deleted
  BY <1>0, <1>3 DEF IInv, RequestsComplete, ReviewsAreFresh, ActionOp
<1>4. ASSUME NEW p \in Proc, NEW a \in Action, NEW u \in User, SettleCommit(p, a, u)
      PROVE  SomeRowChanges
  <2> DEFINE r == DirectRow(req[p].emp, u)
  <2>1. /\ row[a] = NoRow /\ row' = [row EXCEPT ![a] = r]
        /\ effects' = [effects EXCEPT ![a] = effects[a] + 1]
        /\ req[p].emp \in Employee
    BY <1>0, <1>4 DEF SettleCommit, Performed
  <2>2. r \in Row /\ effects[a] + 1 \in Nat
    BY <1>0, <2>1, NewRowType
  <2>3. /\ r.status = "approved" /\ r.kind = "settlement" /\ r.officer = Nobody
        /\ ~r.deleted
    BY DEF DirectRow, NoRow
  <2> HIDE DEF r
  <2>4. RowChange(a, r, effects[a] + 1)
    BY <2>1, <2>3 DEF RowChange
  <2> QED
    BY <1>1, <2>1, <2>2, <2>4
<1>5. ASSUME NEW p \in Proc, NEW a \in Action, NEW u \in User,
             QueueRequest(p, a, u) \/ QueueInsert(p, a, u)
      PROVE  SomeRowChanges
  <2>1. PICK kind \in Kind, before \in EmpStatus \cup {"none"} :
          row' = [row EXCEPT ![a] = QueuedRow(kind, req[p].emp, u, before)]
    BY <1>0, <1>5 DEF QueueRequest, QueueInsert, Kind
  <2> DEFINE r == QueuedRow(kind, req[p].emp, u, before)
  <2>2. row[a] = NoRow /\ UNCHANGED effects /\ req[p].emp \in Employee
    BY <1>0, <1>5 DEF QueueRequest, QueueInsert
  <2>3. r \in Row
    BY <2>2, NewRowType
  <2>4. /\ r.status = "pending_gm" /\ r.kind = kind /\ r.officer = Nobody
        /\ ~r.deleted
    BY DEF QueuedRow, NoRow
  <2> HIDE DEF r
  <2>5. RowChange(a, r, effects[a])
    BY <2>2, <2>4 DEF RowChange
  <2> QED
    BY <1>2, <2>1, <2>2, <2>3, <2>5 DEF r
<1>6. ASSUME NEW p \in Proc, NEW u \in User, NEW o \in User, GmApprove(p, u, o)
      PROVE  SomeRowChanges
  <2> DEFINE a == req[p].act
             r == Endorsed(row[a], u, o)
  <2>1. /\ req[p].op = "review" /\ MayEndorse(req[p].snap, u, o)
        /\ row' = [row EXCEPT ![a] = r] /\ UNCHANGED effects
    BY <1>6 DEF GmApprove, Reviewing, Commit
  <2>2. a \in Action /\ r \in Row
    BY <1>3, <2>1, UpdatedRowType
  <2>3. /\ r.status = "pending_officer" /\ r.officer = o /\ o \in Assignable
        /\ r.kind = row[a].kind /\ ~r.deleted /\ ~row[a].deleted
        /\ row[a].status \in {"pending_gm", "pending_branch"}
    BY <1>3, <2>1 DEF Endorsed, MayEndorse, Row
  <2> HIDE DEF a, r
  <2>4. RowChange(a, r, effects[a])
    BY <2>3 DEF RowChange
  <2> QED
    BY <1>2, <2>1, <2>2, <2>4
<1>7. ASSUME NEW p \in Proc, NEW u \in User, NEW s \in EmpStatus,
             OfficerApprove(p, u, s)
      PROVE  SomeRowChanges
  <2> DEFINE a == req[p].act
             r == Executed(row[a])
  <2>1. /\ req[p].op = "review" /\ MayExecute(req[p].snap, u)
        /\ row' = [row EXCEPT ![a] = r]
        /\ effects' = [effects EXCEPT ![a] = effects[a] + 1]
    BY <1>7 DEF OfficerApprove, Reviewing, Commit, Performed
  <2>0. a \in Action /\ r \in Row
    BY <1>3, <2>1, UpdatedRowType
  <2>2. effects[a] + 1 \in Nat
    BY <1>0, <2>0
  <2>3. /\ r.status = "approved" /\ r.officer = row[a].officer
        /\ r.kind = row[a].kind /\ ~r.deleted /\ ~row[a].deleted
        /\ row[a].status = "pending_officer"
    BY <1>3, <2>1 DEF Executed, MayExecute, Row
  <2> HIDE DEF a, r
  <2>4. RowChange(a, r, effects[a] + 1)
    BY <2>3 DEF RowChange
  <2> QED
    BY <1>1, <2>0, <2>1, <2>2, <2>4
<1>8. ASSUME NEW p \in Proc, NEW u \in User, Return(p, u)
      PROVE  SomeRowChanges
  <2> DEFINE a == req[p].act
             r == [row[a] EXCEPT !.status = "returned"]
  <2>1. /\ req[p].op = "review" /\ req[p].snap.status \in Pending
        /\ row' = [row EXCEPT ![a] = r] /\ UNCHANGED effects
    BY <1>8 DEF Return, Reviewing, Commit, MayReturn
  <2>2. a \in Action /\ r \in Row
    BY <1>3, <2>1, UpdatedRowType
  <2>3. /\ r.status = "returned" /\ r.officer = row[a].officer
        /\ r.kind = row[a].kind /\ ~r.deleted /\ ~row[a].deleted
        /\ row[a].status \in Pending
    BY <1>3, <2>1 DEF Row
  <2> HIDE DEF a, r
  <2>4. RowChange(a, r, effects[a])
    BY <2>3 DEF RowChange
  <2> QED
    BY <1>2, <2>1, <2>2, <2>4
<1>9. ASSUME NEW p \in Proc, NEW u \in User, Resubmit(p, u)
      PROVE  SomeRowChanges
  <2> DEFINE a == req[p].act
             r == Resubmitted(row[a])
  <2>1. /\ req[p].op = "review" /\ req[p].snap.status = "returned"
        /\ row' = [row EXCEPT ![a] = r] /\ UNCHANGED effects
    BY <1>9 DEF Resubmit, Reviewing, Commit, MayResubmit
  <2>2. a \in Action /\ r \in Row
    BY <1>3, <2>1, UpdatedRowType
  <2>3. /\ r.status = "pending_gm" /\ r.officer = Nobody
        /\ r.kind = row[a].kind /\ ~r.deleted /\ ~row[a].deleted
        /\ row[a].status = "returned"
    BY <1>3, <2>1 DEF Resubmitted, Row
  <2> HIDE DEF a, r
  <2>4. RowChange(a, r, effects[a])
    BY <2>3 DEF RowChange
  <2> QED
    BY <1>2, <2>1, <2>2, <2>4
<1>10. ASSUME NEW p \in Proc, DeleteCommit(p)
       PROVE  SomeRowChanges
  <2> DEFINE a == req[p].act
             r == [row[a] EXCEPT !.deleted = TRUE]
  <2>1. row' = [row EXCEPT ![a] = r] /\ UNCHANGED effects
    BY <1>10 DEF DeleteCommit
  <2>2. a \in Action /\ row[a].status # "absent" /\ row[a] \in Row
    BY <1>0, <1>10 DEF IInv, RequestsComplete, ActionOp, DeleteCommit
  <2>3. r \in Row
    BY <2>2, UpdatedRowType
  <2>4. RowChange(a, r, effects[a])
    BY <2>2 DEF RowChange
  <2> HIDE DEF a, r
  <2> QED
    BY <1>2, <2>1, <2>2, <2>3, <2>4
<1>11. ASSUME NEW p \in Proc,
              \/ \E op \in EmployeeOp, e \in Employee : LoadEmployee(p, op, e)
              \/ \E a \in Action : LockRow(p, a)
              \/ \E a \in Action, u \in User : DeleteLoad(p, a, u)
              \/ SettleCheckOpen(p) \/ QueueCheckOpen(p) \/ QueueSuspend(p)
              \/ EditSave(p) \/ DeleteRevert(p) \/ RequestEnds(p)
       PROVE  UNCHANGED <<row, effects>>
  BY <1>11 DEF LoadEmployee, LockRow, DeleteLoad, SettleCheckOpen,
     QueueCheckOpen, QueueSuspend, EditSave, DeleteRevert, RequestEnds
<1>12. UNCHANGED vars => UNCHANGED <<row, effects>>
  BY DEF vars
<1>13. ASSUME NEW p \in Proc, RequestStep(p)
       PROVE  UNCHANGED <<row, effects>> \/ SomeRowChanges
  BY <1>13, <1>4, <1>5, <1>6, <1>7, <1>8, <1>9, <1>10, <1>11 DEF RequestStep
<1> QED
  BY <1>11, <1>12, <1>13 DEF Next

\* No step changes a deleted row or executes it.
THEOREM DeletedStaysDeleted == Spec => DeletedRowsInert
<1>1. ASSUME IInv, [Next]_vars, NEW a \in Action, row[a].deleted
      PROVE  row'[a] = row[a] /\ effects'[a] = effects[a]
  <2>0. /\ row \in [Action -> Row]
        /\ effects \in [Action -> Nat]
    BY <1>1 DEF IInv, TypeOK
  <2>1. CASE UNCHANGED <<row, effects>>
    BY <2>1
  <2>2. ASSUME NEW b \in Action, NEW r \in Row, NEW n \in Nat,
               row' = [row EXCEPT ![b] = r], effects' = [effects EXCEPT ![b] = n],
               RowChange(b, r, n)
        PROVE  row'[a] = row[a] /\ effects'[a] = effects[a]
    <3>1. CASE b # a
      BY <2>0, <2>2, <3>1
    <3>2. CASE b = a
      <4>1. r = [row[a] EXCEPT !.deleted = TRUE] /\ n = effects[a]
        BY <1>1, <2>2, <3>2 DEF RowChange, NoRow
      <4>2. r = row[a]
        BY <1>1, <2>0, <4>1 DEF Row
      <4> QED
        BY <2>0, <2>2, <3>2, <4>1, <4>2
    <3> QED
      BY <3>1, <3>2
  <2> QED
    BY <1>1, <2>1, <2>2, StepChangesOneRow DEF SomeRowChanges
<1>2. IInv /\ [Next]_vars =>
        [\A a \in Action : row[a].deleted =>
           row'[a] = row[a] /\ effects'[a] = effects[a]]_vars
  BY <1>1
<1> QED
  BY SpecIInv, <1>2, PTL DEF Spec, DeletedRowsInert

-----------------------------------------------------------------------------
(* Refinement *)

phaseBar == [a \in Action |-> PhaseOf(row[a].status)]
kindBar == [a \in Action |-> row[a].kind]
officerBar == [a \in Action |-> row[a].officer]
withdrawnBar == [a \in Action |-> row[a].deleted]

LEMMA InitKeepsPromise == Init => Promise!Init
<1> SUFFICES ASSUME Init PROVE Promise!Init
  OBVIOUS
<1>1. PICK e \in Employee, kind \in LegacyKind, u \in User,
           status \in {"pending_branch", "returned"} :
        row = [a \in Action |->
                 IF a \in LegacyRow THEN LegacyRowOf(kind, e, u, status)
                                    ELSE NoRow]
  BY DEF Init
<1>2. kind \in Kind /\ kind # "none"
  BY DEF LegacyKind, Kind
<1> DEFINE r == LegacyRowOf(kind, e, u, status)
<1>3. /\ r.status = status /\ r.kind = kind /\ r.officer = Nobody
      /\ r.deleted = FALSE
  BY DEF LegacyRowOf, QueuedRow, NoRow
<1>4. /\ NoRow.status = "absent" /\ NoRow.kind = "none" /\ NoRow.officer = Nobody
      /\ NoRow.deleted = FALSE
  BY DEF NoRow
<1> HIDE DEF r
<1>5. \A a \in Action : row[a] = IF a \in LegacyRow THEN r ELSE NoRow
  BY <1>1 DEF r
<1>6. \A a \in Action :
        /\ PhaseOf(row[a].status) \in {"none", "waiting", "returned"}
        /\ PhaseOf(row[a].status) = "none" <=> row[a].kind = "none"
        /\ row[a].kind \in Kind \cup {"none"}
        /\ row[a].officer = Nobody
        /\ row[a].deleted = FALSE
  BY <1>2, <1>3, <1>4, <1>5 DEF PhaseOf
<1>7. effects = [a \in Action |-> 0]
  BY DEF Init
<1> QED
  BY <1>6, <1>7 DEF Promise!Init

\* Every step is a step of ApprovalPromise on one request, or a stutter.
LEMMA NextKeepsPromise ==
    ASSUME IInv, [Next]_vars
    PROVE  [Promise!Next]_(Promise!promiseVars)
<1>0. /\ row \in [Action -> Row]
      /\ effects \in [Action -> Nat]
  BY DEF IInv, TypeOK
<1>1. CASE UNCHANGED <<row, effects>>
  BY <1>1 DEF Promise!promiseVars
<1>2. ASSUME NEW a \in Action, NEW r \in Row, NEW n \in Nat,
             row' = [row EXCEPT ![a] = r], effects' = [effects EXCEPT ![a] = n],
             RowChange(a, r, n)
      PROVE  [Promise!Next]_(Promise!promiseVars)
  <2>0. /\ row[a] \in Row /\ row[a].deleted \in BOOLEAN /\ r.deleted \in BOOLEAN
    BY <1>0 DEF Row
  <2>1. /\ phaseBar' = [phaseBar EXCEPT ![a] = PhaseOf(r.status)]
        /\ kindBar' = [kindBar EXCEPT ![a] = r.kind]
        /\ officerBar' = [officerBar EXCEPT ![a] = r.officer]
        /\ withdrawnBar' = [withdrawnBar EXCEPT ![a] = r.deleted]
    BY <1>0, <1>2 DEF phaseBar, kindBar, officerBar, withdrawnBar
  <2>2. /\ phaseBar[a] = PhaseOf(row[a].status) /\ kindBar[a] = row[a].kind
        /\ officerBar[a] = row[a].officer /\ withdrawnBar[a] = row[a].deleted
    BY DEF phaseBar, kindBar, officerBar, withdrawnBar
  <2>3. /\ kindBar[a] = r.kind => kindBar' = kindBar
        /\ officerBar[a] = r.officer => officerBar' = officerBar
        /\ withdrawnBar[a] = r.deleted => withdrawnBar' = withdrawnBar
        /\ effects[a] = n => effects' = effects
        /\ phaseBar[a] = PhaseOf(r.status) => phaseBar' = phaseBar
    BY <1>0, <1>2, <2>1 DEF phaseBar, kindBar, officerBar, withdrawnBar
  <2>4. CASE row[a] = NoRow /\ r.status = "pending_gm"
    <3>1. /\ phaseBar[a] = "none" /\ officerBar[a] = r.officer
          /\ withdrawnBar[a] = r.deleted /\ r.kind \in Kind /\ effects[a] = n
      <4>1. /\ row[a].status = "absent" /\ row[a].officer = Nobody
            /\ row[a].deleted = FALSE
        BY <2>4 DEF NoRow
      <4>2. /\ r.kind \in Kind /\ r.officer = Nobody /\ r.deleted = FALSE
            /\ n = effects[a]
        BY <1>2, <2>0, <2>4, <4>1 DEF RowChange
      <4> QED
        BY <2>2, <4>1, <4>2 DEF PhaseOf
    <3>2. phaseBar' = [phaseBar EXCEPT ![a] = "waiting"]
      BY <2>1, <2>4 DEF PhaseOf
    <3>3. Promise!Ask(a)
      BY <2>1, <2>3, <3>1, <3>2
      DEF Promise!Ask, phaseBar, kindBar, officerBar, withdrawnBar
    <3> QED
      BY <3>3 DEF Promise!Next
  <2>5. CASE /\ row[a] = NoRow
             /\ r.status = "approved" /\ r.kind = "settlement" /\ r.officer = Nobody
             /\ ~r.deleted /\ n = effects[a] + 1
    <3>1. /\ phaseBar[a] = "none" /\ officerBar[a] = r.officer
          /\ withdrawnBar[a] = r.deleted /\ r.kind = "settlement"
          /\ n = effects[a] + 1
      <4>1. /\ row[a].status = "absent" /\ row[a].officer = Nobody
            /\ row[a].deleted = FALSE
        BY <2>5 DEF NoRow
      <4>2. r.deleted = FALSE
        BY <2>0, <2>5
      <4> QED
        BY <2>2, <2>5, <4>1, <4>2 DEF PhaseOf
    <3>2. phaseBar' = [phaseBar EXCEPT ![a] = "done"]
      BY <2>1, <2>5 DEF PhaseOf
    <3>3. Promise!Direct(a)
      BY <1>2, <2>1, <2>3, <2>5, <3>1, <3>2
      DEF Promise!Direct, phaseBar, kindBar, officerBar, withdrawnBar
    <3> QED
      BY <3>3 DEF Promise!Next
  <2>6. CASE /\ ~row[a].deleted /\ ~r.deleted /\ r.kind = row[a].kind
             /\ row[a].status \in {"pending_gm", "pending_branch"}
             /\ r.status = "pending_officer" /\ r.officer \in Assignable
             /\ n = effects[a]
    <3>1. /\ kindBar[a] = r.kind /\ withdrawnBar[a] = r.deleted
          /\ ~withdrawnBar[a] /\ phaseBar[a] = "waiting"
          /\ effects[a] = n /\ r.officer \in Assignable
      BY <1>2, <2>0, <2>2, <2>6 DEF PhaseOf, NoRow, Pending
    <3>2. phaseBar' = [phaseBar EXCEPT ![a] = "endorsed"]
      BY <2>1, <2>6 DEF PhaseOf
    <3>3. Promise!Endorse(a, r.officer)
      BY <2>1, <2>3, <3>1, <3>2
      DEF Promise!Endorse, Promise!Open, phaseBar, kindBar, officerBar, withdrawnBar
    <3> QED
      BY <3>1, <3>3 DEF Promise!Next
  <2>7. CASE /\ ~row[a].deleted /\ ~r.deleted /\ r.kind = row[a].kind
             /\ row[a].status = "pending_officer"
             /\ r.status = "approved" /\ r.officer = row[a].officer
             /\ n = effects[a] + 1
    <3>1. /\ kindBar[a] = r.kind /\ withdrawnBar[a] = r.deleted
          /\ ~withdrawnBar[a] /\ phaseBar[a] = "endorsed"
          /\ officerBar[a] = r.officer /\ officerBar[a] \in Assignable
          /\ n = effects[a] + 1
      BY <2>0, <2>2, <2>7 DEF PhaseOf, IInv, BoxesMatchStage
    <3>2. phaseBar' = [phaseBar EXCEPT ![a] = "done"]
      BY <2>1, <2>7 DEF PhaseOf
    <3>3. Promise!Perform(a)
      BY <1>2, <2>1, <2>3, <2>7, <3>1, <3>2
      DEF Promise!Perform, Promise!Open, phaseBar, kindBar, officerBar, withdrawnBar
    <3> QED
      BY <3>3 DEF Promise!Next
  <2>8. CASE /\ ~row[a].deleted /\ ~r.deleted /\ r.kind = row[a].kind
             /\ row[a].status \in Pending
             /\ r.status = "returned" /\ r.officer = row[a].officer
             /\ n = effects[a]
    <3>1. /\ kindBar[a] = r.kind /\ withdrawnBar[a] = r.deleted
          /\ ~withdrawnBar[a] /\ phaseBar[a] \in {"waiting", "endorsed"}
          /\ officerBar[a] = r.officer /\ effects[a] = n
      BY <1>2, <2>0, <2>2, <2>8 DEF PhaseOf, NoRow, Pending
    <3>2. phaseBar' = [phaseBar EXCEPT ![a] = "returned"]
      BY <2>1, <2>8 DEF PhaseOf
    <3>3. Promise!SendBack(a)
      BY <2>1, <2>3, <3>1, <3>2
      DEF Promise!SendBack, Promise!Open, phaseBar, kindBar, officerBar, withdrawnBar
    <3> QED
      BY <3>3 DEF Promise!Next
  <2>9. CASE /\ ~row[a].deleted /\ ~r.deleted /\ r.kind = row[a].kind
             /\ row[a].status = "returned"
             /\ r.status = "pending_gm" /\ r.officer = Nobody
             /\ n = effects[a]
    <3>1. /\ kindBar[a] = r.kind /\ withdrawnBar[a] = r.deleted
          /\ ~withdrawnBar[a] /\ phaseBar[a] = "returned"
          /\ effects[a] = n /\ r.officer = Nobody
      BY <1>2, <2>0, <2>2, <2>9 DEF PhaseOf, NoRow, Pending
    <3>2. phaseBar' = [phaseBar EXCEPT ![a] = "waiting"]
      BY <2>1, <2>9 DEF PhaseOf
    <3>3. Promise!AskAgain(a)
      BY <2>1, <2>3, <3>1, <3>2
      DEF Promise!AskAgain, Promise!Open, phaseBar, kindBar, officerBar, withdrawnBar
    <3> QED
      BY <3>3 DEF Promise!Next
  <2>10. CASE /\ row[a].status # "absent"
              /\ r = [row[a] EXCEPT !.deleted = TRUE] /\ n = effects[a]
    <3>2. /\ r.status = row[a].status /\ r.kind = row[a].kind
          /\ r.officer = row[a].officer /\ r.deleted = TRUE
      BY <2>0, <2>10 DEF Row
    <3>3. /\ phaseBar' = phaseBar /\ kindBar' = kindBar /\ officerBar' = officerBar
          /\ effects' = effects
      BY <2>1, <2>2, <2>3, <2>10, <3>2 DEF phaseBar
    <3>4. CASE row[a].deleted
      <4>1. withdrawnBar' = withdrawnBar
        BY <2>2, <2>3, <3>2, <3>4
      <4> QED
        BY <3>3, <4>1
        DEF Promise!promiseVars, phaseBar, kindBar, officerBar, withdrawnBar
    <3>5. CASE ~row[a].deleted
      <4>1. phaseBar[a] \in Promise!Phase \ {"none"} /\ ~withdrawnBar[a]
        BY <2>2, <2>0, <2>10, <3>5 DEF PhaseOf, Promise!Phase, Row, Status
      <4>2. Promise!Withdraw(a)
        BY <2>1, <3>2, <3>3, <4>1
        DEF Promise!Withdraw, Promise!Open, phaseBar, kindBar, officerBar, withdrawnBar
      <4> QED
        BY <4>2 DEF Promise!Next
    <3> QED
      BY <2>0, <3>4, <3>5
  <2> QED
    BY <1>2, <2>4, <2>5, <2>6, <2>7, <2>8, <2>9, <2>10 DEF RowChange
<1> QED
  BY <1>1, <1>2, StepChangesOneRow DEF SomeRowChanges

\* The workflow implements ApprovalPromise.
THEOREM WorkflowKeepsPromise == Spec => KeepsPromise
BY SpecIInv, InitKeepsPromise, NextKeepsPromise, PTL
DEF Spec, KeepsPromise, Promise!Spec

-----------------------------------------------------------------------------
(***************************************************************************)
(* Inbox: no waiting request is hidden from whoever may take it further,   *)
(* for any number of users and requests, any permissions and any length of *)
(* list.  That the conditions of the pages include those of the handlers   *)
(* is shown case by case; that a list that leaves a request out is full    *)
(* needs the sets of requests to be finite, which the type invariant gives.*)
(***************************************************************************)

(* A request that changes status and officer stays one of the rows.         *)
LEMMA ChangedRow ==
    ASSUME InboxTypeOK, NEW i \in Requests,
           NEW s \in Waiting \cup {"pending", "returned", "closed"},
           NEW o \in Users \cup {Unassigned}, Become(i, s, o)
    PROVE  InboxTypeOK'
<1> DEFINE entry == [request[i] EXCEPT !.status = s, !.officer = o]
<1>1. i \in 1..Len(request) /\ request[i] \in Entry
  BY ElementOfSeq, LenProperties DEF InboxTypeOK, Requests
<1>2. entry \in Entry
  BY <1>1 DEF Entry
<1>3. request' = [request EXCEPT ![i] = entry]
  BY <1>1 DEF Become
<1>4. request \in Seq(Entry)
  BY DEF InboxTypeOK
<1> HIDE DEF entry
<1>5. request' \in Seq(Entry) /\ Len(request') = Len(request)
  BY <1>1, <1>2, <1>3, <1>4, ExceptSeq
<1> QED
  BY <1>5 DEF InboxTypeOK, Become

(* The users, their roles and the requests keep their types.                *)
LEMMA InboxTypeInvariant == InboxSpec => []InboxTypeOK
<1>1. InboxInit => InboxTypeOK
  <2> SUFFICES ASSUME InboxInit PROVE InboxTypeOK
    OBVIOUS
  <2>1. \A r \in Legacy : <<r>> \in Seq(Entry) /\ Len(<<r>>) = 1
    BY DEF Legacy
  <2> QED
    <3>1. role \in [Users -> Roles] /\ present \subseteq Users /\ grants \in Grants
      BY DEF InboxInit
    <3>2. request \in Seq(Entry) /\ Len(request) \in {0, 1}
      <4>1. CASE request = <<>>
        BY <4>1, EmptySeq
      <4>2. CASE request # <<>>
        <5>1. PICK r \in Legacy : request = <<r>>
          BY <4>2 DEF InboxInit
        <5> QED
          BY <5>1, <2>1
      <4> QED
        BY <4>1, <4>2
    <3>3. MaxRequests \in Nat /\ MaxRequests >= 1
      BY InboxAssumption
    <3>4. Len(request) <= MaxRequests
      BY <3>2, <3>3
    <3> QED
      BY <3>1, <3>2, <3>4 DEF InboxTypeOK
<1>2. InboxTypeOK /\ [InboxNext]_inboxVars => InboxTypeOK'
  <2> SUFFICES ASSUME InboxTypeOK, [InboxNext]_inboxVars PROVE InboxTypeOK'
    OBVIOUS
  <2> USE DEF InboxTypeOK
  <2>0. \A i \in Requests : \A s \in Waiting \cup {"pending", "returned", "closed"} :
          \A o \in Users \cup {Unassigned} : Become(i, s, o) => InboxTypeOK'
    BY ChangedRow, Zenon
  <2>1. CASE SaveGrants
    BY <2>1 DEF SaveGrants
  <2>2. ASSUME NEW u \in Users, SwitchUser(u) PROVE InboxTypeOK'
    BY <2>2 DEF SwitchUser
  <2>3. ASSUME NEW u \in Users, NEW r \in Roles, ChangeRole(u, r) PROVE InboxTypeOK'
    BY <2>3 DEF ChangeRole
  <2>4. ASSUME NEW u \in present, NEW kind \in {"action", "hire"}, Raise(u, kind)
        PROVE  InboxTypeOK'
    <3> DEFINE entry == [kind |-> kind, status |-> "pending_gm", by |-> u, officer |-> Unassigned]
    <3>1. entry \in Entry
      BY DEF Entry, Waiting
    <3>2. Append(request, entry) \in Seq(Entry) /\ Len(Append(request, entry)) = Len(request) + 1
      BY <3>1, AppendProperties
    <3> QED
      BY <2>4, <3>2, LenProperties, InboxAssumption DEF Raise
  <2>5. ASSUME NEW u \in present, NEW i \in Requests,
               \/ Endorse(u, i) \/ Complete(u, i) \/ SendBack(u, i) \/ AskAgain(u, i)
               \/ ApproveHire(u, i) \/ RejectHire(u, i) \/ Remove(u, i)
        PROVE  InboxTypeOK'
    <3>1. request[i] \in Entry
      BY ElementOfSeq, LenProperties DEF Requests
    <3>2. request[i].officer \in Users \cup {Unassigned} /\ request[i].by \in Users
      BY <3>1 DEF Entry
    <3>3. CASE Endorse(u, i)
      <4>1. PICK o \in EntryStaff \cup {request[i].by} : Become(i, "pending_officer", o)
        BY <3>3 DEF Endorse
      <4>2. o \in Users
        BY <3>2 DEF EntryStaff
      <4> QED
        BY <2>0, <4>1, <4>2 DEF Waiting
    <3>4. CASE SendBack(u, i)
      BY <2>0, <3>2, <3>4 DEF SendBack
    <3>5. CASE AskAgain(u, i)
      BY <2>0, <3>5 DEF AskAgain, Waiting
    <3>6. CASE Complete(u, i) \/ ApproveHire(u, i) \/ RejectHire(u, i) \/ Remove(u, i)
      BY <2>0, <3>6 DEF Complete, ApproveHire, RejectHire, Remove, Closed
    <3> QED
      BY <2>5, <3>3, <3>4, <3>5, <3>6
  <2>6. CASE UNCHANGED inboxVars
    BY <2>6 DEF inboxVars
  <2> QED
    BY <2>1, <2>2, <2>3, <2>4, <2>5, <2>6 DEF InboxNext, Act
<1> QED
  BY <1>1, <1>2, PTL DEF InboxSpec

(* A request that a list leaves out is hidden by as many newer ones as the   *)
(* list takes.                                                              *)
LEMMA LeftOutWhenFull ==
    ASSUME InboxTypeOK, NEW S \in SUBSET Requests, NEW i \in S
    PROVE  i \in Newest(S) \/ Cardinality({j \in S : j > i}) >= MergeLimit
<1> DEFINE newer == {j \in S : j > i}
<1>1. IsFiniteSet(1..Len(request)) /\ Requests = 1..Len(request)
  BY LenProperties, FS_Interval DEF InboxTypeOK, Requests
<1>2. Cardinality(newer) \in Nat
  BY <1>1, FS_Subset, FS_CardinalityType
<1> QED
  BY <1>2, InboxAssumption DEF Newest

(* Whoever may act at a stage may see requests at all.                      *)
LEMMA ActorsSee ==
    \A u : (HasStage(u, "gm") \/ HasStage(u, "officer") \/ Has(u, "resubmit")) => CanView(u)
BY DEF HasStage, CanView, Has, Powers

(* What a user may take further is on the user's pages, in the list unless   *)
(* it is full, and in the numbers (_can_act_at_stage against _inbox_for and  *)
(* _compute_sidebar_counts).                                                *)
LEMMA WaitingIsShown ==
    ASSUME InboxTypeOK, NEW u \in present, NEW i \in WaitsOn(u)
    PROVE  /\ CanView(u) /\ MayOpen(u, i)
           /\ request[i].kind = "hire" => i \in HirePage(u)
           /\ i \in InboxActions(u) \cup InboxHires(u)
           /\ Counted(i) => i \in Badge(u)
           /\ request[i].status \in Waiting /\ ~IsManager(u) => i \in MenuCount(u)
<1>1. CASE i \in With("action", {"pending_branch", "pending_gm"}) /\ CanAct(u, i, "gm")
  <2>1. IsManager(u) /\ CanView(u)
    BY <1>1, ActorsSee DEF CanAct, IsManager, CanView
  <2> QED
    BY <1>1, <2>1 DEF With, Of, MayOpen, VisibleActions, InboxActions, Waiting, Counted, Badge
<1>2. CASE i \in With("action", {"pending_officer"}) \cap AssignedTo(u) /\ CanAct(u, i, "officer")
  <2>1. CanView(u) /\ (u \in Super \/ IsEntry(u))
    BY <1>2, ActorsSee DEF CanAct, CanView
  <2>2. i \in VisibleActions(u)
    BY <1>2, <2>1 DEF With, Of, VisibleActions, IsManager
  <2>3. i \in InboxActions(u)
    BY <1>2, <2>1, <2>2 DEF InboxActions, With, Waiting, IsManager
  <2>4. i \in Badge(u)
    BY <1>2, <2>1 DEF Badge
  <2>5. i \in MenuCount(u)
    BY <1>2, <2>1 DEF MenuCount, With, Waiting
  <2> QED
    BY <1>2, <2>1, <2>2, <2>3, <2>4, <2>5 DEF With, Of, MayOpen
<1>3. CASE /\ IsEntry(u) /\ Has(u, "resubmit")
           /\ i \in With("action", {"returned"}) \cap RaisedBy(u)
  <2>1. CanView(u)
    BY <1>3, ActorsSee
  <2>2. i \in VisibleActions(u)
    BY <1>3 DEF With, Of, VisibleActions
  <2> QED
    BY <1>3, <2>1, <2>2 DEF With, Of, MayOpen, InboxActions, Badge, Waiting
<1>4. CASE IsManager(u) /\ HasStage(u, "gm") /\ i \in With("hire", Waiting \cup {"pending"})
  <2>1. CanView(u)
    BY <1>4, ActorsSee
  <2> QED
    BY <1>4, <2>1 DEF With, Of, MayOpen, VisibleHires, InboxHires, HirePage, Counted, Badge
<1> QED
  BY <1>1, <1>2, <1>3, <1>4 DEF WaitsOn

(* What the dashboard shows to a manager or an officer can be opened, but    *)
(* for employment requests of the officer's stage (dashboard_view against    *)
(* pending_action_detail and edit_employment_request).                      *)
LEMMA DashboardOpens ==
    ASSUME NEW u, CanView(u), IsManager(u) \/ IsEntry(u),
           NEW i \in DashboardTasks(u) \ With("hire", {"pending_officer"})
    PROVE  MayOpen(u, i)
<1>1. CASE IsManager(u)
  BY <1>1 DEF DashboardTasks, DashboardPanels, With, Of, InboxActions, InboxHires, VisibleActions,
              VisibleHires, MayOpen
<1>2. CASE ~IsManager(u)
  <2>1. u \notin Super
    BY <1>2 DEF IsManager
  <2>2. i \in (AssignedTo(u) \cap With("action", {"pending_officer"})) \cup InboxActions(u)
    BY <1>2, <2>1 DEF DashboardTasks, DashboardPanels, InboxHires, With
  <2>3. i \in VisibleActions(u)
    BY <1>2, <2>2 DEF InboxActions, VisibleActions, With
  <2> QED
    BY <2>3, <1>2 DEF VisibleActions, Of, MayOpen
<1> QED
  BY <1>1, <1>2

(* Nothing waits unseen: for every assignment of roles and permissions the   *)
(* lists, badge, menu and dashboard show a request to whoever the handlers   *)
(* let take it further, unless the list is full of newer ones.              *)
THEOREM InboxShowsWork == InboxSpec => []WorkIsSeen
<1>1. InboxTypeOK => WorkIsSeen
  <2> SUFFICES ASSUME InboxTypeOK, NEW u \in present
               PROVE  /\ \A i \in WaitsOn(u) :
                           /\ CanView(u) /\ MayOpen(u, i)
                           /\ request[i].kind = "hire" => i \in HirePage(u)
                           /\ \/ i \in ListedInbox(u)
                              \/ \E S \in {InboxActions(u), InboxHires(u)} :
                                   i \in S /\ Cardinality({j \in S : j > i}) >= MergeLimit
                           /\ Counted(i) => i \in Badge(u)
                           /\ request[i].status \in Waiting /\ ~IsManager(u) => i \in MenuCount(u)
                      /\ CanView(u) /\ (IsManager(u) \/ IsEntry(u)) =>
                           \A i \in DashboardTasks(u) \ With("hire", {"pending_officer"}) :
                             MayOpen(u, i)
    BY DEF WorkIsSeen
  <2>1. ASSUME NEW i \in WaitsOn(u)
        PROVE  \/ i \in ListedInbox(u)
               \/ \E S \in {InboxActions(u), InboxHires(u)} :
                    i \in S /\ Cardinality({j \in S : j > i}) >= MergeLimit
    <3>1. PICK S \in {InboxActions(u), InboxHires(u)} : i \in S
      BY WaitingIsShown
    <3>2. S \in SUBSET Requests
      BY DEF InboxActions, InboxHires, VisibleActions, VisibleHires, With, Of
    <3>3. i \in Newest(S) \/ Cardinality({j \in S : j > i}) >= MergeLimit
      BY <3>1, <3>2, LeftOutWhenFull
    <3> QED
      BY <3>1, <3>3 DEF ListedInbox
  <2> QED
    BY <2>1, WaitingIsShown, DashboardOpens
<1> QED
  BY <1>1, InboxTypeInvariant, PTL
=============================================================================
