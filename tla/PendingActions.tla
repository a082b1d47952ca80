--------------------------- MODULE PendingActions ---------------------------
(***************************************************************************)
(* The approval workflow of HR_SEED: requests on employees ("pending       *)
(* actions") queued by the web, endorsed by an HR manager, executed by the *)
(* assigned HR entry officer, returned, resubmitted, deleted; settlements  *)
(* executed directly; and the employee edit form, which shares the         *)
(* employee's row with them.                                               *)
(*                                                                         *)
(* Each element of Proc is a worker thread of the web server, running one  *)
(* request at a time.  PostgreSQL is READ COMMITTED and requests are not   *)
(* wrapped in a transaction, so a request is a sequence of steps: what it  *)
(* loaded (req[p]) may be stale when it writes.  Only the review handlers  *)
(* take the row lock of the pending action (rowLock).                      *)
(***************************************************************************)
EXTENDS Naturals, FiniteSets

CONSTANTS
    Action,             \* primary keys of pending actions
    Employee,
    User,
    Manager,            \* superusers and users with role ADMIN or HR_MANAGER
    Admin,              \* superusers and users with role ADMIN
    Superuser,
    EntryOfficer,       \* users with role SPECIALIST
    Proc,               \* worker threads of the web server
    LegacyRow,          \* rows a migration left in pending_branch
    QueuedSettlements,  \* are there callers (or old rows) that queue settlements?
    MaxResubmit,        \* bound of the model on resubmissions of a row
    Nobody, NoAction, NoEmployee, NoProc

ASSUME RoleAssumption ==
    /\ Superuser \subseteq Admin
    /\ Admin \subseteq Manager
    /\ Manager \subseteq User
    /\ EntryOfficer \subseteq User
    /\ LegacyRow \subseteq Action
    /\ QueuedSettlements \in BOOLEAN
    /\ MaxResubmit \in Nat

ASSUME NullAssumption ==
    /\ Nobody \notin User
    /\ NoAction \notin Action
    /\ NoEmployee \notin Employee
    /\ NoProc \notin Proc

VARIABLES
    row,        \* row[a]: the PendingAction record a
    effects,    \* effects[a]: how many times the executor's writes for a committed
    empStatus,  \* empStatus[e]: Employee.status
    rowLock,    \* rowLock[a]: the thread that holds SELECT ... FOR UPDATE on a
    req         \* req[p]: the request thread p is in, with what it has loaded

vars == <<row, effects, empStatus, rowLock, req>>

-----------------------------------------------------------------------------
(* Types *)

Status == {"absent", "pending_branch", "pending_gm", "pending_officer",
           "approved", "returned"}
Pending == {"pending_branch", "pending_gm", "pending_officer"}

\* Action types by what their executor does to Employee.status.
Kind == {"settlement", "reactivate", "other"}

EmpStatus == {"active", "leave", "suspended", "terminated"}

\* An assignee must be an active HR entry officer or a superuser.
Assignable == EntryOfficer \cup Superuser

Row == [status : Status,
        kind : Kind \cup {"none"},
        subject : Employee \cup {NoEmployee},
        requester : User \cup {Nobody},
        gm : User \cup {Nobody},          \* gm_reviewed_by
        officer : User \cup {Nobody},     \* assigned_officer
        executed : BOOLEAN,               \* executed_at is set
        before : EmpStatus \cup {"none"}, \* payload['status_before_settlement']
        resubmits : Nat,
        deleted : BOOLEAN]                \* soft delete

NoRow == [status |-> "absent", kind |-> "none", subject |-> NoEmployee,
          requester |-> Nobody, gm |-> Nobody, officer |-> Nobody,
          executed |-> FALSE, before |-> "none", resubmits |-> 0,
          deleted |-> FALSE]

\* What a request thread is doing:
\*   settle, settle_checked            create_and_execute_settlement_action
\*   request                           a view that queues a request
\*   queue, queue_checked, queue_suspended
\*                                     create_pending_action of a settlement
\*   edit                              edit_employee
\*   review                            gm/officer approval, return, resubmit
\*   delete, delete_reverted           delete_pending_action
EmployeeOp == {"settle", "settle_checked", "request", "queue",
               "queue_checked", "queue_suspended", "edit"}
ActionOp == {"review", "delete", "delete_reverted"}

Request == [op : EmployeeOp \cup ActionOp \cup {"idle"},
            act : Action \cup {NoAction},
            snap : Row,                    \* the action as loaded
            emp : Employee \cup {NoEmployee},
            seen : EmpStatus \cup {"none"}] \* the employee's status as loaded

Idle == [op |-> "idle", act |-> NoAction, snap |-> NoRow,
         emp |-> NoEmployee, seen |-> "none"]

TypeOK ==
    /\ row \in [Action -> Row]
    /\ effects \in [Action -> Nat]
    /\ empStatus \in [Employee -> EmpStatus]
    /\ rowLock \in [Action -> Proc \cup {NoProc}]
    /\ req \in [Proc -> Request]

-----------------------------------------------------------------------------
(* Helpers *)

\* Rows the default manager returns.
Live_WithDeleted(a) == row[a].status # "absent" \* mutant: all_objects

Live(a) == row[a].status # "absent" /\ ~row[a].deleted

\* Mutant: open means waiting for a stage.
OpenSettlements_ByStatus(e) ==
    {a \in Action : /\ Live(a)
                    /\ row[a].subject = e
                    /\ row[a].kind = "settlement"
                    /\ row[a].status \in Pending}

\* The queryset of _open_settlement_pending_action_qs(e).
OpenSettlements(e) ==
    {a \in Action : /\ Live(a)
                    /\ row[a].subject = e
                    /\ row[a].kind = "settlement"
                    /\ ~row[a].executed}

RowFree_NoLock(a) == TRUE \* mutant: select_for_update() dropped

\* Nobody holds the row lock of a: SELECT ... FOR UPDATE and UPDATE go through.
RowFree(a) == rowLock[a] = NoProc

\* _user_visible_actions
Visible(u, r) ==
    \/ u \in Manager
    \/ r.requester = u
    \/ u \in EntryOfficer /\ r.officer = u

Begin(p, op, a, e) ==
    /\ req[p].op = "idle"
    /\ req' = [req EXCEPT ![p] =
                 [op |-> op, act |-> a,
                  snap |-> IF a \in Action THEN row[a] ELSE NoRow,
                  emp |-> e, seen |-> empStatus[e]]]

Continue(p, op) == req' = [req EXCEPT ![p].op = op]

Finish(p) == req' = [req EXCEPT ![p] = Idle]

\* A row as create_pending_action stores it.
QueuedRow(kind, e, u, before) ==
    [NoRow EXCEPT !.status = "pending_gm", !.kind = kind, !.subject = e,
                  !.requester = u, !.before = before]

\* A row as create_and_execute_settlement_action commits it.
DirectRow(e, u) ==
    [NoRow EXCEPT !.status = "approved", !.kind = "settlement",
                  !.subject = e, !.requester = u, !.executed = TRUE]

\* The records an executor writes for the request, once more.
Performed(a) == [effects EXCEPT ![a] = @ + 1]

\* The employee statuses an executed request of this kind may leave behind.
ExecutedStatus(kind, current) ==
    CASE kind = "settlement" -> {"terminated"}
      [] kind = "reactivate" -> {"active", "leave"}
      [] OTHER -> {current}

-----------------------------------------------------------------------------
(* Requests that start from the employee's page *)

\* get_object_or_404(Employee) and the entry check of the view on the status read.
MayEnter(op, status) ==
    CASE op = "settle" -> status # "terminated"
      [] op = "queue" -> QueuedSettlements
      [] OTHER -> TRUE

LoadEmployee(p, op, e) ==
    /\ op \in {"settle", "request", "queue", "edit"}
    /\ MayEnter(op, empStatus[e])
    /\ Begin(p, op, NoAction, e)
    /\ UNCHANGED <<row, effects, empStatus, rowLock>>

\* terminate_employee, end_of_service_employee: the transaction of
\* create_and_execute_settlement_action reads that no settlement is open ...
SettleCheckOpen(p) ==
    /\ req[p].op = "settle"
    /\ OpenSettlements(req[p].emp) = {}
    /\ Continue(p, "settle_checked")
    /\ UNCHANGED <<row, effects, empStatus, rowLock>>

\* ... and later inserts the approved row, executes it and commits.
SettleCommit(p, a, u) ==
    /\ req[p].op = "settle_checked"
    /\ row[a] = NoRow
    /\ row' = [row EXCEPT ![a] = DirectRow(req[p].emp, u)]
    /\ effects' = Performed(a)
    /\ empStatus' = [empStatus EXCEPT ![req[p].emp] = "terminated"]
    /\ Finish(p)
    /\ UNCHANGED rowLock

\* The views that call create_pending_action.  reactivate_employee requires a
\* terminated employee; most of the others refuse one, clear_employee_custody
\* does not look.  The status tested is the one that was loaded.
MayRequest(kind, status) ==
    kind = "other" \/ (kind = "reactivate" /\ status = "terminated")

QueueRequest(p, a, u) ==
    /\ req[p].op = "request"
    /\ row[a] = NoRow
    /\ \E kind \in Kind :
         /\ MayRequest(kind, req[p].seen)
         /\ row' = [row EXCEPT ![a] = QueuedRow(kind, req[p].emp, u, "none")]
    /\ Finish(p)
    /\ UNCHANGED <<effects, empStatus, rowLock>>

\* create_pending_action of a settlement: three autocommitted statements.
QueueCheckOpen(p) ==
    /\ req[p].op = "queue"
    /\ OpenSettlements(req[p].emp) = {}
    /\ Continue(p, "queue_checked")
    /\ UNCHANGED <<row, effects, empStatus, rowLock>>

\* mark_employee_settlement_pending, on the employee as loaded
MaySuspend_Terminated(status) == status # "suspended" \* mutant: no early return

MaySuspend(status) == status \notin {"terminated", "suspended"}

QueueSuspend(p) ==
    /\ req[p].op = "queue_checked"
    /\ empStatus' = IF MaySuspend(req[p].seen)
                      THEN [empStatus EXCEPT ![req[p].emp] = "suspended"]
                      ELSE empStatus
    /\ Continue(p, "queue_suspended")
    /\ UNCHANGED <<row, effects, rowLock>>

QueueInsert(p, a, u) ==
    /\ req[p].op = "queue_suspended"
    /\ row[a] = NoRow
    /\ LET before == IF req[p].seen = "terminated" THEN "none" ELSE req[p].seen
       IN  row' = [row EXCEPT ![a] =
                     QueuedRow("settlement", req[p].emp, u, before)]
    /\ Finish(p)
    /\ UNCHANGED <<effects, empStatus, rowLock>>

\* edit_employee saves every column of the instance it loaded, the status too.
EditSave(p) ==
    /\ req[p].op = "edit"
    /\ empStatus' = [empStatus EXCEPT ![req[p].emp] = req[p].seen]
    /\ Finish(p)
    /\ UNCHANGED <<row, effects, rowLock>>

-----------------------------------------------------------------------------
(* Review handlers: they hold the row lock from the read to the commit *)

LockRow(p, a) ==
    /\ Live(a)
    /\ RowFree(a)
    /\ Begin(p, "review", a, row[a].subject)
    /\ rowLock' = [rowLock EXCEPT ![a] = p]
    /\ UNCHANGED <<row, effects, empStatus>>

Reviewing(p) == req[p].op = "review"

\* Write the fields of update_fields and commit.
Commit(p, newRow) ==
    /\ row' = [row EXCEPT ![req[p].act] = newRow]
    /\ rowLock' = [rowLock EXCEPT ![req[p].act] = NoProc]
    /\ Finish(p)

\* gm_approve_and_assign
MayEndorse(r, u, o) ==
    /\ r.status \in {"pending_gm", "pending_branch"}
    /\ u \in Manager
    /\ o \in Assignable

Endorsed(r, u, o) == [r EXCEPT !.status = "pending_officer", !.gm = u,
                               !.officer = o]

GmApprove(p, u, o) ==
    /\ Reviewing(p)
    /\ MayEndorse(req[p].snap, u, o)
    /\ Commit(p, Endorsed(row[req[p].act], u, o))
    /\ UNCHANGED <<effects, empStatus>>

\* Mutant: any pending status may be executed.
MayExecute_AnyPending(r, u) ==
    /\ r.status \in Pending
    /\ ~r.executed
    /\ u \in Superuser \/ (u \in EntryOfficer /\ r.officer = u)

\* _can_act_at_stage(OFFICER) and officer_approve
MayExecute(r, u) ==
    /\ r.status = "pending_officer"
    /\ ~r.executed
    /\ u \in Superuser \/ (u \in EntryOfficer /\ r.officer = u)

Executed(r) == [r EXCEPT !.status = "approved", !.executed = TRUE]

\* The executor runs inside the same transaction: when it raises, the request
\* rolls back as a whole (RequestEnds).
OfficerApprove(p, u, s) ==
    LET r == req[p].snap IN
    /\ Reviewing(p)
    /\ MayExecute(r, u)
    /\ s \in ExecutedStatus(r.kind, empStatus[r.subject])
    /\ Commit(p, Executed(row[req[p].act]))
    /\ effects' = Performed(req[p].act)
    /\ empStatus' = [empStatus EXCEPT ![r.subject] = s]

\* _can_return_at_stage and return_action; the boxes of the stages are kept.
MayReturn(r, u) ==
    /\ r.status \in Pending
    /\ Visible(u, r)
    /\ \/ u \in Superuser
       \/ r.status = "pending_branch" /\ u \in Manager
       \/ r.status = "pending_gm"
       \/ r.status = "pending_officer" /\ r.officer = u

Return(p, u) ==
    /\ Reviewing(p)
    /\ MayReturn(req[p].snap, u)
    /\ Commit(p, [row[req[p].act] EXCEPT !.status = "returned"])
    /\ UNCHANGED <<effects, empStatus>>

\* resubmit_action starts the approval over and empties the boxes.
MayResubmit(r, u) ==
    /\ r.status = "returned"
    /\ u \in Superuser \/ r.requester = u
    /\ r.resubmits < MaxResubmit

\* Mutant: the boxes of the previous round are kept.
Resubmitted_KeepsBoxes(r) == [r EXCEPT !.status = "pending_gm", !.resubmits = @ + 1]

Resubmitted(r) ==
    [r EXCEPT !.status = "pending_gm", !.gm = Nobody, !.officer = Nobody,
              !.resubmits = @ + 1]

Resubmit(p, u) ==
    /\ Reviewing(p)
    /\ MayResubmit(req[p].snap, u)
    /\ Commit(p, Resubmitted(row[req[p].act]))
    /\ UNCHANGED <<effects, empStatus>>

-----------------------------------------------------------------------------
(* delete_pending_action: no lock and no transaction *)

\* can_delete_pending_action, on the row as loaded
MayDelete(r, u) ==
    \/ u \in Admin
    \/ r.requester = u /\ r.status \in {"returned", "pending_branch", "approved"}

DeleteLoad(p, a, u) ==
    /\ Live(a)
    /\ Visible(u, row[a])
    /\ MayDelete(row[a], u)
    /\ Begin(p, "delete", a, row[a].subject)
    /\ UNCHANGED <<row, effects, empStatus, rowLock>>

\* revert_employee_settlement_pending_status, on the loaded action and employee
Reverts(r, seen) ==
    r.kind = "settlement" /\ ~r.executed /\ seen = "suspended"

RevertedStatus(r) ==
    IF r.before \in {"none", "terminated"} THEN "active" ELSE r.before

DeleteRevert(p) ==
    /\ req[p].op = "delete"
    /\ empStatus' = IF Reverts(req[p].snap, req[p].seen)
                      THEN [empStatus EXCEPT ![req[p].emp] =
                              RevertedStatus(req[p].snap)]
                      ELSE empStatus
    /\ Continue(p, "delete_reverted")
    /\ UNCHANGED <<row, effects, rowLock>>

\* The UPDATE of the soft delete waits for a review that holds the row.
DeleteCommit(p) ==
    /\ req[p].op = "delete_reverted"
    /\ RowFree(req[p].act)
    /\ row' = [row EXCEPT ![req[p].act].deleted = TRUE]
    /\ Finish(p)
    /\ UNCHANGED <<effects, empStatus, rowLock>>

\* The locks left when the transaction of p is rolled back.
Released_Never(p) == rowLock \* mutant: the transaction is left open

Released(p) == [a \in Action |-> IF rowLock[a] = p THEN NoProc ELSE rowLock[a]]

\* The request is refused, raises, or its worker dies: the open transaction is
\* rolled back and its lock released, what was autocommitted stays.
RequestEnds(p) ==
    /\ req[p].op # "idle"
    /\ rowLock' = Released(p)
    /\ Finish(p)
    /\ UNCHANGED <<row, effects, empStatus>>

-----------------------------------------------------------------------------
\* Rows of earlier releases, migrated: pending became pending_branch, rejected
\* became returned.  They have no status before the settlement.
LegacyRowOf(kind, e, u, status) ==
    [QueuedRow(kind, e, u, "none") EXCEPT !.status = status]

LegacyKind == IF QueuedSettlements THEN Kind ELSE Kind \ {"settlement"}

Init ==
    /\ \E e \in Employee, kind \in LegacyKind, u \in User,
          status \in {"pending_branch", "returned"} :
         /\ row = [a \in Action |->
                     IF a \in LegacyRow THEN LegacyRowOf(kind, e, u, status)
                                        ELSE NoRow]
         /\ empStatus = [f \in Employee |->
                           IF LegacyRow # {} /\ f = e
                             THEN CASE kind = "settlement" -> "suspended"
                                    [] kind = "reactivate" -> "terminated"
                                    [] OTHER -> "active"
                             ELSE "active"]
    /\ effects = [a \in Action |-> 0]
    /\ rowLock = [a \in Action |-> NoProc]
    /\ req = [p \in Proc |-> Idle]

\* The steps of p's request once it has begun, other than dying.
RequestStep(p) ==
    \/ SettleCheckOpen(p)
    \/ \E a \in Action, u \in User : SettleCommit(p, a, u)
    \/ \E a \in Action, u \in User : QueueRequest(p, a, u)
    \/ QueueCheckOpen(p)
    \/ QueueSuspend(p)
    \/ \E a \in Action, u \in User : QueueInsert(p, a, u)
    \/ EditSave(p)
    \/ \E u, o \in User : GmApprove(p, u, o)
    \/ \E u \in User, s \in EmpStatus : OfficerApprove(p, u, s)
    \/ \E u \in User : Return(p, u)
    \/ \E u \in User : Resubmit(p, u)
    \/ DeleteRevert(p)
    \/ DeleteCommit(p)

Next ==
    \E p \in Proc :
      \/ \E op \in EmployeeOp, e \in Employee : LoadEmployee(p, op, e)
      \/ \E a \in Action : LockRow(p, a)
      \/ \E a \in Action, u \in User : DeleteLoad(p, a, u)
      \/ RequestStep(p)
      \/ RequestEnds(p)

Spec == Init /\ [][Next]_vars

\* A running request goes on: its handler takes its next step or ends by a
\* refusal.  A soft delete that waits for the row has nothing else to do, and
\* PostgreSQL serves the waiters of a row lock in order.
Progress(p) ==
    RequestStep(p) \/ (req[p].op # "delete_reverted" /\ RequestEnds(p))

FairSpec ==
    /\ Spec
    /\ \A p \in Proc : WF_vars(Progress(p)) /\ SF_vars(DeleteCommit(p))

-----------------------------------------------------------------------------
(* Properties that hold whatever the interleaving *)

\* The effects of a request are committed exactly once, and exactly when it is
\* marked approved and executed: two approvals, an approval that races a
\* return, a deletion or a resubmission never execute it twice or not at all.
ExecutedExactlyOnce ==
    \A a \in Action :
      /\ effects[a] = IF row[a].executed THEN 1 ELSE 0
      /\ row[a].executed <=> row[a].status = "approved"

\* The stage boxes belong to the current round: a request that waits for the
\* manager carries no endorsement of an earlier round, and one that waits for
\* its officer was endorsed by a manager to someone who can execute it.
BoxesMatchStage ==
    \A a \in Action :
      /\ row[a].status \in {"absent", "pending_branch", "pending_gm"} =>
           row[a].gm = Nobody /\ row[a].officer = Nobody
      /\ row[a].status = "pending_officer" =>
           row[a].gm \in Manager /\ row[a].officer \in Assignable

\* A review handler holds the row lock, and nobody has changed or deleted the
\* row since it read it: this is what select_for_update() buys.
ReviewsAreFresh ==
    \A p \in Proc : req[p].op = "review" =>
      /\ rowLock[req[p].act] = p
      /\ req[p].snap = row[req[p].act]
      /\ ~row[req[p].act].deleted

\* A deleted request is frozen: a review that was under way when it was deleted
\* cannot endorse, execute, return or resubmit it afterwards.
DeletedRowsInert ==
    [][\A a \in Action : row[a].deleted =>
         row'[a] = row[a] /\ effects'[a] = effects[a]]_vars

\* The workflow keeps the promise of ApprovalPromise for every request.
PhaseOf(status) ==
    CASE status = "absent" -> "none"
      [] status \in {"pending_branch", "pending_gm"} -> "waiting"
      [] status = "pending_officer" -> "endorsed"
      [] status = "returned" -> "returned"
      [] OTHER -> "done"

Promise == INSTANCE ApprovalPromise WITH
    phase <- [a \in Action |-> PhaseOf(row[a].status)],
    kind <- [a \in Action |-> row[a].kind],
    officer <- [a \in Action |-> row[a].officer],
    performed <- effects,
    withdrawn <- [a \in Action |-> row[a].deleted]

KeepsPromise == Promise!Spec

\* Every request ends, a deletion that waits for a review included: no thread
\* keeps a row lock for ever.
RequestsEnd == \A p \in Proc : req[p].op # "idle" ~> req[p].op = "idle"

-----------------------------------------------------------------------------
(* Properties of requests served one after the other *)

\* An employee has at most one settlement under way
\* (_open_settlement_pending_action_qs).
AtMostOneOpenSettlement ==
    \A e \in Employee : Cardinality(OpenSettlements(e)) <= 1

Executes(a) == effects'[a] > effects[a]

\* What a step may do to an employee who was settled.
LeavesByReactivation(e) ==
    empStatus[e] = "terminated" /\ empStatus'[e] # "terminated" =>
      \E a \in Action : /\ Executes(a)
                        /\ row[a].kind = "reactivate"
                        /\ row[a].subject = e

AllLeaveByReactivation == \A e \in Employee : LeavesByReactivation(e)

\* Only an executed reactivation takes an employee out of TERMINATED.
TerminatedUntilReactivated == [][AllLeaveByReactivation]_vars

-----------------------------------------------------------------------------
(* Statements of the code's documentation that the code does not keep *)

\* A settlement is executed on an employee who is still employed: nobody is
\* settled twice ("الموظف منتهي الخدمة بالفعل").
SettlesOnlyEmployed ==
    [][\A a \in Action :
         Executes(a) /\ row'[a].kind = "settlement" =>
           empStatus[row'[a].subject] # "terminated"]_vars

\* The edit form changes no employee's status (edit_employee).
EditKeepsStatus ==
    [][\A p \in Proc : req[p].op = "edit" /\ req'[p].op = "idle" =>
         empStatus'[req[p].emp] = empStatus[req[p].emp]]_vars
=============================================================================
