---------------------------- MODULE RecordsProofs ----------------------------
(* Of the records that share no row, for every number of clerks, pages,       *)
(* threads, users, roles and employees:                                       *)
(*   EmploymentRequests  EmployedOnce, DecisionsStand                         *)
(*   Maintenance         ColumnsTellOneStory                                  *)
(*   Accounts            RolesOutliveUsers, FormSavesChoice                   *)
(*   NavigationCaches    OverviewServedIsFresh                                *)
(*   SetupLists          ListsAreFresh                                        *)
(*   OperationsReport    ReportOnceADay                                       *)
(*   Deployment          MigrationsAreRecoverable                             *)
(*   EmployeeFile        ReturnedOnce, LeaveIsEarned                          *)
(*   Loans               ScheduleIsWhole                                      *)
(* Each part states its inductive invariant, proves that the steps keep it    *)
(* one by one, and ends in its theorem.                                       *)
EXTENDS EmploymentRequests, Maintenance, Accounts, NavigationCaches, SetupLists,
        OperationsReport, Deployment, EmployeeFile, Loans, FiniteSetTheorems,
        WellFoundedInduction, TLAPS


-----------------------------------------------------------------------------
(* Employment requests *)

(* A page has loaded a request, and requests do not vanish.                   *)
PagesHaveRequest == \A c \in Clerks : desk[c] # NoRow => request # NoRow

(* The rows, the loaded copies and the notification keep their types.        *)
LEMMA HireTypeInvariant == HireSpec => [](HireTypeOK /\ PagesHaveRequest)
<1> DEFINE Typed == HireTypeOK /\ PagesHaveRequest
<1>1. HireInit => Typed
  <2>1. HireInit => overlapped \in BOOLEAN
    BY DEF HireInit
  <2> QED
    BY <2>1 DEF HireInit, HireTypeOK, PagesHaveRequest
<1>2. Typed /\ [HireNext]_hireVars => Typed'
  <2> SUFFICES ASSUME HireTypeOK, PagesHaveRequest, [HireNext]_hireVars PROVE Typed'
    OBVIOUS
  <2>a. overlapped' \in BOOLEAN
    BY DEF HireNext, Alone, hireVars, HireTypeOK
  <2> USE <2>a DEF HireTypeOK
  <2>1. \A s \in HireStatus : FirstStage(s) \in HireStatus
    BY DEF FirstStage, HireStatus, Pending
  <2>2. ASSUME NEW complete \in BOOLEAN, CreateRequest(complete) PROVE Typed'
    <3>1. request' \in Request
      BY <2>1, <2>2 DEF CreateRequest, HireStatus, Pending, Request
    <3> QED
      BY <2>2, <3>1, HireAssumption DEF CreateRequest, PagesHaveRequest
  <2>3. CASE NoticeReads
    <3>1. notice' \in {"none", "queued"} \cup HireStatus
      BY <2>3 DEF NoticeReads, Present, Request
    <3> QED
      BY <2>3, <3>1 DEF NoticeReads, PagesHaveRequest
  <2>4. CASE NoticeWrites
    <3>1. request' = request \/ request' \in Request
      BY <2>1, <2>4 DEF NoticeWrites, Present, Request
    <3> QED
      BY <2>4, <3>1, HireAssumption DEF NoticeWrites, PagesHaveRequest
  <2>5. CASE DeleteEmployee
    BY <2>5 DEF DeleteEmployee, Hire, PagesHaveRequest
  <2>6. ASSUME NEW c \in Clerks, NEW p \in Pages, Open(c, p) PROVE Typed'
    BY <2>6 DEF Open, Present, PagesHaveRequest
  <2>7. ASSUME NEW c \in Clerks, Approve(c) PROVE Typed'
    <3>1. desk[c].copy \in Request /\ request \in Request
      BY <2>7 DEF Approve, Serving, PagesHaveRequest
    <3>2. request' \in Request
      BY <2>7, <3>1 DEF Approve, HireStatus, Request
    <3>3. employee' \in Hire \cup {NoRow} /\ hires' \in Nat
      <4>1. [complete |-> desk[c].copy.complete, live |-> TRUE] \in Hire
        BY <3>1 DEF Request, Hire
      <4>2. \/ UNCHANGED <<employee, hires>>
            \/ /\ employee' = [complete |-> desk[c].copy.complete, live |-> TRUE]
               /\ hires' = hires + 1
        BY <2>7 DEF Approve, Hired
      <4>3. employee \in Hire \cup {NoRow} /\ hires \in Nat
        OBVIOUS
      <4>4. employee' \in Hire \cup {NoRow}
        BY <4>1, <4>2, <4>3, Zenon
      <4>5. hires' = hires \/ hires' = hires + 1
        BY <4>2
      <4> QED
        BY <4>3, <4>4, <4>5
    <3>4. desk' \in [Clerks -> [page : Pages, copy : Request] \cup {NoRow}] /\ notice' = notice
      BY <2>7 DEF Approve, Closed
    <3>5. PagesHaveRequest'
      BY <3>2, HireAssumption DEF PagesHaveRequest
    <3> QED
      BY <3>2, <3>3, <3>4, <3>5
  <2>8. ASSUME NEW c \in Clerks, Reject(c) \/ DeleteRequest(c) PROVE Typed'
    <3>1. request \in Request
      BY <2>8 DEF Reject, DeleteRequest, Serving, PagesHaveRequest
    <3>2. request' \in Request
      BY <2>8, <3>1 DEF Reject, DeleteRequest, HireStatus, Request
    <3>3. PagesHaveRequest'
      BY <3>2, HireAssumption DEF PagesHaveRequest
    <3> QED
      BY <2>8, <3>2, <3>3 DEF Reject, DeleteRequest, Closed
  <2>9. ASSUME NEW c \in Clerks, NEW complete \in BOOLEAN, EditSave(c, complete)
        PROVE  Typed'
    <3>1. desk[c] \in [page : Pages, copy : Request]
      BY <2>9 DEF EditSave, Serving
    <3>2. request' \in Request
      BY <2>9, <3>1 DEF EditSave, Request
    <3>3. PagesHaveRequest'
      BY <3>2, HireAssumption DEF PagesHaveRequest
    <3> QED
      BY <2>9, <3>2, <3>3 DEF EditSave, Pages
  <2>10. CASE UNCHANGED hireVars
    BY <2>10 DEF hireVars, PagesHaveRequest
  <2> QED
    BY <2>2, <2>3, <2>4, <2>5, <2>6, <2>7, <2>8, <2>9, <2>10 DEF HireNext, HireStep
<1> QED
  BY <1>1, <1>2, PTL DEF HireSpec

(* One request makes one employee at most, and only from complete data,      *)
(* however many approvals, edits and deletions overlap (manager_approve).    *)
THEOREM EmployedOnce == HireSpec => []HiredOnceComplete
<1>1. HireInit => HiredOnceComplete
  BY DEF HireInit, HiredOnceComplete
<1>2. HireTypeOK /\ HiredOnceComplete /\ [HireNext]_hireVars => HiredOnceComplete'
  <2> SUFFICES ASSUME HireTypeOK, HiredOnceComplete, [HireNext]_hireVars
               PROVE  HiredOnceComplete'
    OBVIOUS
  <2>1. CASE UNCHANGED <<employee, hires>>
    BY <2>1 DEF HiredOnceComplete
  <2>2. CASE DeleteEmployee
    <3>1. employee' \in Hire /\ employee'.complete = employee.complete
      BY <2>2 DEF DeleteEmployee, HireTypeOK, Hire
    <3> QED
      BY <2>2, <3>1, HireAssumption DEF DeleteEmployee, HiredOnceComplete
  <2>3. ASSUME NEW c \in Clerks, Approve(c), ~UNCHANGED <<employee, hires>>
        PROVE  HiredOnceComplete'
    <3>1. /\ desk[c].copy.complete /\ employee = NoRow
          /\ employee' = [complete |-> desk[c].copy.complete, live |-> TRUE]
          /\ hires' = hires + 1
      BY <2>3 DEF Approve, Hired, MayCreate
    <3>2. desk[c].copy \in Request
      BY <2>3 DEF Approve, Serving, HireTypeOK
    <3>3. employee' \in Hire /\ employee'.complete
      BY <3>1, <3>2 DEF Hire, Request
    <3>4. employee' # NoRow
      BY <3>3, HireAssumption
    <3>5. hires' = 1
      BY <3>1 DEF HiredOnceComplete
    <3> QED
      BY <3>3, <3>4, <3>5 DEF HiredOnceComplete
  <2> QED
    BY <2>1, <2>2, <2>3 DEF HireNext, HireStep, hireVars, CreateRequest, NoticeReads, NoticeWrites, Open,
                           Reject, DeleteRequest, EditSave
<1> QED
  BY <1>1, <1>2, HireTypeInvariant, PTL DEF HireSpec

-----------------------------------------------------------------------------
(* Maintenance *)

(* The row and the calls keep their types.                                   *)
LEMMA MaintTypeInvariant == MaintSpec => []MaintTypeOK
<1>1. MaintInit => MaintTypeOK
  BY DEF MaintInit, MaintTypeOK, Order, Stages
<1>2. MaintTypeOK /\ [MaintNext]_maintVars => MaintTypeOK'
  <2> SUFFICES ASSUME MaintTypeOK, [MaintNext]_maintVars PROVE MaintTypeOK'
    OBVIOUS
  <2> USE DEF MaintTypeOK
  <2>1. CASE StaffChanges
    BY <2>1 DEF StaffChanges
  <2>2. ASSUME NEW c \in Callers, NEW service \in Services, CallService(c, service)
        PROVE  MaintTypeOK'
    BY <2>2 DEF CallService, Order
  <2>3. ASSUME NEW c \in Callers, Refused(c) PROVE MaintTypeOK'
    BY <2>3 DEF Refused
  <2>4. ASSUME NEW c \in Callers,
               \/ Assign(c) \/ Report(c) \/ Close(c) \/ Confirm(c)
               \/ ReturnOrder(c) \/ ResubmitOrder(c)
        PROVE  MaintTypeOK'
    <3>1. order' \in Order
      <4>1. CASE Assign(c)
        <5>1. PICK w \in staff :
                order' = [order EXCEPT !.status = "assigned", !.worker = w, !.token = TRUE,
                                       !.reported = FALSE, !.returned = FALSE]
          BY <4>1 DEF Assign
        <5>2. w \in Crew \cup {Nothing} /\ "assigned" \in Stages
          BY DEF Stages
        <5> QED
          BY <5>1, <5>2 DEF Order
      <4>2. CASE Report(c)
        BY <4>2 DEF Order, Stages, Report
      <4>4. CASE Close(c)
        BY <4>4 DEF Order, Stages, Close
      <4>5. CASE Confirm(c)
        BY <4>5 DEF Order, Stages, Confirm
      <4>3. CASE ReturnOrder(c)
        <5>1. order' = [order EXCEPT !.status = "returned", !.returned = TRUE,
                                     !.worker = Nothing, !.token = FALSE]
          BY <4>3 DEF ReturnOrder
        <5>2. Nothing \in Crew \cup {Nothing} /\ "returned" \in Stages
          BY DEF Stages
        <5> QED
          BY <5>1, <5>2 DEF Order
      <4>6. CASE ResubmitOrder(c)
        <5> DEFINE more == order.again + 1
        <5>1. order' = [order EXCEPT !.status = "pending", !.returned = FALSE, !.again = more]
          BY <4>6 DEF ResubmitOrder
        <5>2. more \in Nat /\ "pending" \in Stages
          BY DEF Stages, Order
        <5> HIDE DEF more
        <5> QED
          BY <5>1, <5>2 DEF Order
      <4> QED
        BY <2>4, <4>1, <4>2, <4>3, <4>4, <4>5, <4>6
    <3>2. call' = [call EXCEPT ![c] = Nothing] /\ UNCHANGED staff
      BY <2>4 DEF In, Assign, Report, Close, Confirm, ReturnOrder, ResubmitOrder
    <3> QED
      BY <3>1, <3>2
  <2>5. CASE UNCHANGED maintVars
    BY <2>5 DEF maintVars
  <2> QED
    BY <2>1, <2>2, <2>3, <2>4, <2>5 DEF MaintNext
<1> QED
  BY <1>1, <1>2, PTL DEF MaintSpec

(* What a service has loaded is what the row still says.                     *)
SeenIsCurrent == \A c \in Callers : call[c] # Nothing => call[c].seen = order.status

(* With one caller at a time the columns of a maintenance request tell one   *)
(* story: worker, link, report, closing and return note are those of its     *)
(* status (the update_fields of the services).                               *)
THEOREM ColumnsTellOneStory ==
    ASSUME \A c, d \in Callers : c = d
    PROVE  MaintSpec => []ColumnsFollowStatus
<1> DEFINE Inv == SeenIsCurrent /\ ColumnsFollowStatus
<1>1. MaintInit => Inv
  BY DEF MaintInit, SeenIsCurrent, ColumnsFollowStatus
<1>2. MaintTypeOK /\ Inv /\ [MaintNext]_maintVars => Inv'
  <2> SUFFICES ASSUME MaintTypeOK, Inv, [MaintNext]_maintVars PROVE Inv'
    OBVIOUS
  <2>1. CASE StaffChanges \/ UNCHANGED maintVars
    BY <2>1 DEF StaffChanges, maintVars, SeenIsCurrent, ColumnsFollowStatus
  <2>2. ASSUME NEW c \in Callers, NEW service \in Services, CallService(c, service) PROVE Inv'
    BY <2>2 DEF CallService, SeenIsCurrent, ColumnsFollowStatus, MaintTypeOK
  <2>3. ASSUME NEW c \in Callers, Refused(c) PROVE Inv'
    BY <2>3 DEF Refused, SeenIsCurrent, ColumnsFollowStatus, MaintTypeOK
  <2>4. ASSUME NEW c \in Callers,
               \/ Assign(c) \/ Report(c) \/ Close(c) \/ Confirm(c)
               \/ ReturnOrder(c) \/ ResubmitOrder(c)
        PROVE  Inv'
    <3>1. call[c] # Nothing /\ call' = [call EXCEPT ![c] = Nothing]
      BY <2>4 DEF In, Assign, Report, Close, Confirm, ReturnOrder, ResubmitOrder
    <3>2. SeenIsCurrent'
      <4>1. \A d \in Callers : call'[d] = Nothing
        BY <3>1 DEF MaintTypeOK
      <4> QED
        BY <4>1 DEF SeenIsCurrent
    <3>3. order \in Order /\ order.status = call[c].seen
      BY <3>1 DEF SeenIsCurrent, MaintTypeOK
    <3>4. CASE Assign(c)
      <4>1. PICK w \in staff :
              order' = [order EXCEPT !.status = "assigned", !.worker = w, !.token = TRUE,
                                     !.reported = FALSE, !.returned = FALSE]
        BY <3>4 DEF Assign
      <4>2. w # Nothing /\ order.status \in {"pending", "returned"}
        BY <3>3, <3>4, MaintenanceAssumption DEF MaintTypeOK, Assign, In
      <4> QED
        BY <3>2, <3>3, <4>1, <4>2 DEF ColumnsFollowStatus, Order
    <3>5. CASE Report(c)
      BY <3>2, <3>3, <3>5 DEF Report, In, ColumnsFollowStatus, Order
    <3>6. CASE Close(c)
      BY <3>2, <3>3, <3>6 DEF Close, In, ColumnsFollowStatus, Order
    <3>7. CASE Confirm(c)
      BY <3>2, <3>3, <3>7 DEF Confirm, In, ColumnsFollowStatus, Order
    <3>8. CASE ReturnOrder(c)
      BY <3>2, <3>3, <3>8 DEF ReturnOrder, In, ColumnsFollowStatus, Order
    <3>9. CASE ResubmitOrder(c)
      BY <3>2, <3>3, <3>9 DEF ResubmitOrder, In, ColumnsFollowStatus, Order
    <3> QED
      BY <2>4, <3>4, <3>5, <3>6, <3>7, <3>8, <3>9
  <2> QED
    BY <2>1, <2>2, <2>3, <2>4 DEF MaintNext
<1> QED
  BY <1>1, <1>2, MaintTypeInvariant, PTL DEF MaintSpec

(* Until something overlaps, a page serves the request as it is, and was      *)
(* allowed to; the notification has read the status that it still has.        *)
PagesAreCurrent ==
  ~overlapped =>
    /\ Alone
    /\ \A c \in Clerks : desk[c] # NoRow =>
         desk[c].copy = request /\ (desk[c].page # "delete" => desk[c].copy.status \in Pending)
    /\ notice \in HireStatus /\ request # NoRow => notice = request.status

LEMMA PagesAreCurrentStep ==
  ASSUME HireTypeOK, PagesHaveRequest, PagesAreCurrent, HireNext
  PROVE  /\ PagesAreCurrent'
         /\ Present /\ request.status \in {"approved", "rejected"} /\ request'.live /\ ~overlapped'
              => request'.status = request.status
<1> SUFFICES ASSUME ~overlapped'
             PROVE  /\ \A c \in Clerks : desk'[c] # NoRow =>
                         /\ desk'[c].copy = request'
                         /\ desk'[c].page # "delete" => desk'[c].copy.status \in Pending
                    /\ notice' \in HireStatus /\ request' # NoRow => notice' = request'.status
                    /\ Present /\ request.status \in {"approved", "rejected"} /\ request'.live
                         => request'.status = request.status
  BY DEF HireNext, PagesAreCurrent
<1>1. /\ ~overlapped /\ Alone /\ Alone'
      /\ \A c \in Clerks : desk[c] # NoRow =>
           desk[c].copy = request /\ (desk[c].page # "delete" => desk[c].copy.status \in Pending)
      /\ notice \in HireStatus /\ request # NoRow => notice = request.status
  BY DEF HireNext, PagesAreCurrent
<1>2. "approved" \notin Pending /\ "rejected" \notin Pending /\ "none" \notin HireStatus /\ "queued" \notin HireStatus
  BY DEF Pending, HireStatus
<1>3. ASSUME NEW complete \in BOOLEAN, CreateRequest(complete)
      PROVE  \A c \in Clerks : desk'[c] = NoRow
  BY <1>3 DEF CreateRequest, PagesHaveRequest
<1>4. CASE \E complete \in BOOLEAN : CreateRequest(complete)
  BY <1>2, <1>3, <1>4 DEF CreateRequest, Present
<1>5. CASE NoticeReads
  BY <1>1, <1>2, <1>5 DEF NoticeReads
<1>6. CASE NoticeWrites
  <2>1. \A c \in Clerks : desk'[c] = NoRow
    BY <1>1, <1>2, <1>6 DEF NoticeWrites, Alone
  <2>2. Present => notice = request.status
    BY <1>1, <1>6 DEF NoticeWrites, Present
  <2>3. request.status \in {"approved", "rejected"} => FirstStage(request.status) = request.status
    BY DEF FirstStage
  <2> QED
    BY <1>2, <1>6, <2>1, <2>2, <2>3 DEF NoticeWrites
<1>7. CASE DeleteEmployee
  BY <1>1, <1>7 DEF DeleteEmployee
<1>8. ASSUME NEW c \in Clerks, NEW p \in Pages, Open(c, p)
      PROVE  \A d \in Clerks : desk'[d] # NoRow =>
               desk'[d].copy = request /\ (desk'[d].page # "delete" => desk'[d].copy.status \in Pending)
  <2>1. request \in Request /\ Allowed(p, request) /\ desk' = [desk EXCEPT ![c] = [page |-> p, copy |-> request]]
    BY <1>8 DEF Open, Present, HireTypeOK
  <2>2. p # "delete" => request.status \in Pending
    BY <2>1 DEF Allowed, Pages, Request, HireStatus
  <2> QED
    BY <1>1, <2>1, <2>2 DEF HireTypeOK
<1>9. CASE \E c \in Clerks, p \in Pages : Open(c, p)
  BY <1>1, <1>8, <1>9 DEF Open
<1>10. ASSUME NEW c \in Clerks, desk[c] # NoRow
       PROVE  /\ \A d \in Clerks \ {c} : desk[d] = NoRow
              /\ desk[c].copy = request /\ request \in Request
              /\ notice = "none"
              /\ desk[c].page # "delete" => request.status \notin {"approved", "rejected"}
  BY <1>1, <1>2, <1>10 DEF Alone, HireTypeOK, PagesHaveRequest
<1>11. ASSUME NEW c \in Clerks, Approve(c) \/ Reject(c) \/ DeleteRequest(c)
       PROVE  /\ \A d \in Clerks : desk'[d] = NoRow
              /\ notice' = "none"
              /\ request.status \in {"approved", "rejected"} => request'.status = request.status
  <2>1. desk[c] # NoRow /\ desk' = [desk EXCEPT ![c] = NoRow] /\ notice' = notice
    BY <1>11 DEF Approve, Reject, DeleteRequest, Serving, Closed
  <2>2. \A d \in Clerks : desk'[d] = NoRow
    BY <1>10, <2>1 DEF HireTypeOK
  <2>3. CASE DeleteRequest(c)
    BY <1>10, <2>1, <2>2, <2>3 DEF DeleteRequest, Request
  <2>4. CASE Approve(c) \/ Reject(c)
    BY <1>10, <2>1, <2>2, <2>4 DEF Approve, Reject, Serving
  <2> QED
    BY <1>11, <2>3, <2>4
<1>12. CASE \E c \in Clerks : Approve(c) \/ Reject(c) \/ DeleteRequest(c)
  BY <1>2, <1>11, <1>12
<1>13. ASSUME NEW c \in Clerks, NEW complete \in BOOLEAN, EditSave(c, complete)
       PROVE  /\ \A d \in Clerks : desk'[d] # NoRow =>
                   desk'[d].copy = request' /\ desk'[d].copy.status \in Pending
              /\ notice' = "none"
              /\ request'.status = request.status
  <2>1. desk[c] # NoRow /\ desk[c].page \in {"edit", "edit_approve"} /\ notice' = notice
        /\ request' = [desk[c].copy EXCEPT !.complete = complete]
        /\ \/ desk' = [desk EXCEPT ![c] = NoRow]
           \/ desk' = [desk EXCEPT ![c] = [page |-> "approve", copy |-> request']]
    BY <1>13 DEF EditSave, Serving
  <2>2. request'.status = request.status /\ request.status \in Pending
    BY <1>1, <1>10, <2>1 DEF Request
  <2>3. CASE desk' = [desk EXCEPT ![c] = NoRow]
    BY <1>10, <2>1, <2>2, <2>3 DEF HireTypeOK
  <2>4. CASE desk' = [desk EXCEPT ![c] = [page |-> "approve", copy |-> request']]
    <3> DEFINE row == [page |-> "approve", copy |-> request']
    <3>a. row.copy = request'
      OBVIOUS
    <3> HIDE DEF row
    <3>b. desk' = [desk EXCEPT ![c] = row] /\ DOMAIN desk = Clerks
      BY <2>4 DEF row, HireTypeOK
    <3>1. desk'[c].copy = request' /\ \A d \in Clerks \ {c} : desk'[d] = NoRow
      BY <1>10, <2>1, <3>a, <3>b
    <3> QED
      BY <1>10, <2>1, <2>2, <3>1
  <2> QED
    BY <2>1, <2>3, <2>4
<1>14. CASE \E c \in Clerks, complete \in BOOLEAN : EditSave(c, complete)
  BY <1>2, <1>13, <1>14
<1> QED
  BY <1>4, <1>5, <1>6, <1>7, <1>9, <1>12, <1>14 DEF HireNext, HireStep

(* A decided request keeps its decision as long as no pages overlap, and no   *)
(* page and the notification: what each page saves is then the request as it  *)
(* is, and no page but the deletion is open for a decided one (reject).       *)
THEOREM DecisionsStand == HireSpec => DecisionIsFinal
<1>1. HireInit => PagesAreCurrent
  BY DEF HireInit, PagesAreCurrent, Alone, HireStatus, Pending
<1>2. HireTypeOK /\ PagesHaveRequest /\ PagesAreCurrent /\ [HireNext]_hireVars => PagesAreCurrent'
  <2>1. CASE UNCHANGED hireVars
    BY <2>1 DEF hireVars, PagesAreCurrent, Alone
  <2> QED
    BY <2>1, PagesAreCurrentStep
<1>3. HireTypeOK /\ PagesHaveRequest /\ PagesAreCurrent /\ [HireNext]_hireVars =>
        [Present /\ request.status \in {"approved", "rejected"} /\ request'.live
           /\ ~overlapped' => request'.status = request.status]_hireVars
  BY PagesAreCurrentStep
<1> QED
  BY <1>1, <1>2, <1>3, HireTypeInvariant, PTL DEF HireSpec, DecisionIsFinal

(***************************************************************************)
(* Accounts: no user is left with a deleted role, and what is chosen in a  *)
(* form is what is saved.                                                  *)
(***************************************************************************)

LEMMA NewRow ==
  /\ \A r \in RoleIds \cup {NoRole}, on \in BOOLEAN : NewUser(r, on) \in User
  /\ NoUser \in User
BY DEF NewUser, NoUser, User

(* The row a role is created from is a role.                                 *)
LEMMA BlankRow == Blank \in Role
BY DEF Blank, NewRole, Role, Types

(* The first superuser, when it is created, is given a live role or none.    *)
LEMMA BootstrapGivesLive ==
  ASSUME AccountsTypeOK, NEW u \in Users
  PROVE  /\ Bootstrapped[u] \in User
         /\ \/ Bootstrapped[u] = users[u]
            \/ Bootstrapped[u].role \in LiveRoles \cup {NoRole}
<1> DEFINE r == IF OfType("admin") = {} THEN NoRole ELSE CHOOSE q \in OfType("admin") : TRUE
<1>1. r \in LiveRoles \cup {NoRole} /\ r \in RoleIds \cup {NoRole}
  BY DEF OfType, LiveRoles
<1> HIDE DEF r
<1>2. NewUser(r, TRUE) \in User /\ NewUser(r, TRUE).role = r
  BY <1>1 DEF NewUser, User
<1>3. Bootstrapped[u] = IF u \in Supers /\ ~users[u].there THEN NewUser(r, TRUE) ELSE users[u]
  BY DEF Bootstrapped, r
<1> QED
  BY <1>1, <1>2, <1>3 DEF AccountsTypeOK

(* The roles a user may be left with: the live ones, and those given while    *)
(* they were being deleted.                                                   *)
Kept == {r \in RoleIds : roles[r].state = "live" \/ r \in overtaken} \cup {NoRole}
RolesKept ==
  /\ \A u \in Users : users[u].there => RoleOf(u) \in Kept
  /\ chosen # NoPage => chosen.role \in Kept
  /\ counted \cap (HeldRoles \cup DueRole) \subseteq overtaken

(* An edited user keeps its role or is given a live one, or none.            *)
LEMMA EditGivesLive ==
  ASSUME AccountsTypeOK, RolesKept, NEW a \in Acting, NEW u \in Users,
         NEW r \in RoleIds \cup {NoRole}, NEW on \in BOOLEAN, EditUser(a, u, r, on)
  PROVE  r \in Kept
<1>1. r \in LiveRoles \cup {NoRole, RoleOf(u)} /\ users[u].there
  BY DEF EditUser, EditedOnPage, EditedOverApi, Assigned, Assignable, OnRoles
<1> QED
  BY <1>1 DEF RolesKept, Kept, LiveRoles

(* What setup_roles leaves: no user of an erased role keeps it, users of old  *)
(* roles get a live one, and a role that was live and is not erased stays.    *)
LEMMA SetupKeepsLive ==
  ASSUME AccountsTypeOK, RolesKept, NEW reset \in BOOLEAN, SetupRoles(reset),
         overtaken' = overtaken \cup (counted' \cap (DueRole' \cup (HeldRoles' \ HeldRoles)))
  PROVE  AccountsTypeOK' /\ RolesKept'
<1> DEFINE left == [t \in ActiveTypes |-> OfType(t) \ Erased(reset)]
           spare == {r \in RoleIds : roles[r].state = "missing" \/ r \in Erased(reset)}
<1>1. PICK pick \in [ActiveTypes -> RoleIds] :
       /\ \A t \in ActiveTypes :
            IF left[t] = {} THEN pick[t] \in spare ELSE left[t] = {pick[t]}
       /\ \A s, t \in ActiveTypes : pick[s] = pick[t] => s = t
       /\ roles' = [r \in RoleIds |->
            IF \E t \in ActiveTypes : pick[t] = r
            THEN LET t == CHOOSE t \in ActiveTypes : pick[t] = r
                 IN [state |-> "live", type |-> t, system |-> TRUE, on |-> TRUE,
                     has |-> IF t = "admin" THEN known ELSE DefaultsOf[t] \cap known]
            ELSE IF r \in Erased(reset) THEN Blank
            ELSE IF roles[r].system /\ roles[r].type \notin ActiveTypes
            THEN [roles[r] EXCEPT !.on = FALSE] ELSE roles[r]]
       /\ users' = [u \in Users |->
            IF RoleOf(u) \in Erased(reset) THEN [users[u] EXCEPT !.role = NoRole]
            ELSE IF TypeOf(u) = "hr_officer" THEN [users[u] EXCEPT !.role = pick["specialist"]]
            ELSE users[u]]
  BY DEF SetupRoles
<1>2. ASSUME NEW r \in RoleIds, \E t \in ActiveTypes : pick[t] = r
      PROVE  roles'[r].state = "live"
  BY <1>1, <1>2
<1>3. ASSUME NEW r \in RoleIds, r \notin Erased(reset), roles[r].state = "live"
      PROVE  roles'[r].state = "live"
  BY <1>1, <1>2, <1>3 DEF AccountsTypeOK, Role
<1>4. "specialist" \in ActiveTypes /\ pick["specialist"] \in RoleIds
  BY DEF ActiveTypes, Types
<1>5. ASSUME NEW r \in RoleIds \cup {NoRole}, r \in Kept, r \notin Erased(reset) PROVE r \in Kept'
  BY <1>3, <1>5 DEF Kept
<1>a. RolesKept'
  <2>1. ASSUME NEW u \in Users, users'[u].there PROVE RoleOf(u)' \in Kept'
    <3>1. users[u].there /\ users[u] \in User /\ RoleOf(u) \in Kept
      BY <1>1, <2>1 DEF AccountsTypeOK, User, RolesKept
    <3>2. RoleOf(u) \in RoleIds \cup {NoRole}
      BY <3>1 DEF RoleOf, User
    <3>3. CASE RoleOf(u) \in Erased(reset)
      BY <1>1, <3>1, <3>3 DEF RoleOf, User, Kept
    <3>4. CASE RoleOf(u) \notin Erased(reset) /\ TypeOf(u) = "hr_officer"
      <4>1. users'[u].role = pick["specialist"]
        BY <1>1, <3>1, <3>4 DEF User
      <4> QED
        BY <1>2, <1>4, <4>1 DEF RoleOf, Kept
    <3>5. CASE RoleOf(u) \notin Erased(reset) /\ TypeOf(u) # "hr_officer"
      <4>1. users'[u] = users[u]
        BY <1>1, <3>5
      <4> QED
        BY <1>5, <3>1, <3>2, <3>5, <4>1 DEF RoleOf
    <3> QED
      BY <3>3, <3>4, <3>5
  <2>2. ASSUME chosen' # NoPage PROVE chosen'.role \in Kept'
    <3>1. chosen' = chosen /\ chosen # NoPage /\ chosen.role \notin Erased(reset)
      BY <2>2 DEF SetupRoles
    <3> QED
      BY <1>5, <3>1 DEF RolesKept, AccountsTypeOK, Choice
  <2>3. counted' \subseteq counted
    BY DEF SetupRoles
  <2>4. counted' \cap (HeldRoles' \cup DueRole') \subseteq overtaken'
    BY <2>3 DEF RolesKept
  <2> QED
    BY <2>1, <2>2, <2>4 DEF RolesKept
<1>6. roles' \in [RoleIds -> Role]
  <2>1. ASSUME NEW t \in ActiveTypes
        PROVE  [state |-> "live", type |-> t, system |-> TRUE, on |-> TRUE,
                has |-> IF t = "admin" THEN known ELSE DefaultsOf[t] \cap known] \in Role
    BY AccountsAssumption DEF AccountsTypeOK, Role, ActiveTypes
  <2>2. Blank \in Role
    BY BlankRow
  <2>3. ASSUME NEW r \in RoleIds PROVE [roles[r] EXCEPT !.on = FALSE] \in Role
    <3>1. roles[r] \in Role
      BY DEF AccountsTypeOK
    <3> QED
      BY <3>1 DEF Role
  <2>4. ASSUME NEW r \in RoleIds PROVE roles'[r] \in Role
    <3>1. CASE \E t \in ActiveTypes : pick[t] = r
      <4> DEFINE t == CHOOSE t \in ActiveTypes : pick[t] = r
      <4>1. t \in ActiveTypes
        BY <3>1
      <4>2. roles'[r] = [state |-> "live", type |-> t, system |-> TRUE, on |-> TRUE,
                         has |-> IF t = "admin" THEN known ELSE DefaultsOf[t] \cap known]
        BY <1>1, <3>1
      <4> HIDE DEF t
      <4> QED
        BY <2>1, <4>1, <4>2
    <3>2. CASE ~\E t \in ActiveTypes : pick[t] = r
      <4>1. roles'[r] \in {Blank, [roles[r] EXCEPT !.on = FALSE], roles[r]}
        BY <1>1, <3>2
      <4> QED
        BY <2>2, <2>3, <4>1 DEF AccountsTypeOK
    <3> QED
      BY <3>1, <3>2
  <2> QED
    BY <1>1, <2>4
<1>7. users' \in [Users -> User]
  <2>1. ASSUME NEW u \in Users, NEW q \in RoleIds \cup {NoRole}
        PROVE  [users[u] EXCEPT !.role = q] \in User
    BY DEF AccountsTypeOK, User
  <2> QED
    BY <1>1, <1>4, <2>1 DEF AccountsTypeOK
<1>8. UNCHANGED <<known, sheet>> /\ writes' \in 0..MaxWrites
  BY AccountsAssumption DEF SetupRoles, Write, AccountsTypeOK
<1>9. chosen' \in Choice \cup {NoPage} /\ counted' \subseteq RoleIds /\ overtaken' \subseteq RoleIds
  BY DEF SetupRoles, AccountsTypeOK
<1> QED
  BY <1>a, <1>6, <1>7, <1>8, <1>9 DEF AccountsTypeOK

(* Rows keep their types, and no user is left with a deleted role, unless it  *)
(* was given while its deletion was under way: delete_role counts the users   *)
(* of the role and deletes it later without a lock, and neither the pages,    *)
(* the API, releases nor the setup commands bring the two apart otherwise.    *)
THEOREM RolesOutliveUsers == AccountsSpec => [](AccountsTypeOK /\ NoGhostRole)
<1> DEFINE Inv == AccountsTypeOK /\ RolesKept
<1>1. AccountsInit => Inv
  <2> SUFFICES ASSUME AccountsInit PROVE Inv
    OBVIOUS
  <2>1. NewUser(NoRole, TRUE) \in User /\ NoUser \in User /\ Blank \in Role
    BY NewRow, BlankRow
  <2>2. AccountsTypeOK
    <3>1. MaxWrites \in Nat
      BY AccountsAssumption
    <3>2. users \in [Users -> User] /\ roles \in [RoleIds -> Role]
      BY <2>1 DEF AccountsInit
    <3>3. /\ known = {} /\ sheet = NoPage /\ writes = 0
          /\ chosen = NoPage /\ counted = {} /\ overtaken = {}
      BY DEF AccountsInit
    <3> QED
      BY <3>1, <3>2, <3>3 DEF AccountsTypeOK
  <2>3. RolesKept
    BY <2>1 DEF AccountsInit, RolesKept, RoleOf, NewUser, NoUser, Kept
  <2> QED
    BY <2>2, <2>3
<1>2. Inv /\ [AccountsNext]_accountVars => Inv'
  <2> SUFFICES ASSUME Inv, [AccountsNext]_accountVars PROVE Inv'
    OBVIOUS
  <2>0. Write => writes' \in 0..MaxWrites
    BY AccountsAssumption DEF Write, AccountsTypeOK
  <2>g. \/ overtaken' = overtaken \cup (counted' \cap (DueRole' \cup (HeldRoles' \ HeldRoles)))
        \/ UNCHANGED accountVars
    BY DEF AccountsNext
  <2>h. /\ overtaken \subseteq overtaken'
        /\ counted' \cap HeldRoles \subseteq counted => counted' \cap (HeldRoles' \cup DueRole') \subseteq overtaken'
        /\ counted' \subseteq RoleIds => overtaken' \subseteq RoleIds
    <3>1. CASE overtaken' = overtaken \cup (counted' \cap (DueRole' \cup (HeldRoles' \ HeldRoles)))
      BY <3>1 DEF AccountsTypeOK, RolesKept
    <3>2. CASE UNCHANGED accountVars
      BY <3>2 DEF accountVars, AccountsTypeOK, RolesKept, HeldRoles, DueRole, RoleOf
    <3> QED
      BY <2>g, <3>1, <3>2
  <2>i. ASSUME \A v \in Users : users'[v].there => RoleOf(v)' \in Kept',
               chosen' # NoPage => chosen'.role \in Kept',
               counted' \cap HeldRoles \subseteq counted
        PROVE  RolesKept'
    BY <2>h, <2>i DEF RolesKept
  <2>k. ASSUME NEW r \in Kept, r = NoRole \/ roles'[r].state = roles[r].state \/ roles'[r].state = "live"
               \/ r \in overtaken
        PROVE  r \in Kept'
    BY <2>h, <2>k DEF Kept
  <2>a. ASSUME NEW u \in Users, NEW row \in User, users' = [users EXCEPT ![u] = row],
               ~row.there \/ row.role \in Kept,
               UNCHANGED <<known, roles, sheet, counted>>, writes' \in 0..MaxWrites,
               chosen' \in {chosen, NoPage}
        PROVE  Inv'
    <3>1. AccountsTypeOK'
      BY <2>h, <2>a DEF AccountsTypeOK
    <3>2. ASSUME NEW v \in Users, users'[v].there PROVE RoleOf(v)' \in Kept'
      <4>1. RoleOf(v)' \in Kept
        BY <2>a, <3>2 DEF AccountsTypeOK, RolesKept, RoleOf
      <4> QED
        BY <2>a, <2>k, <4>1
    <3>3. chosen' # NoPage => chosen'.role \in Kept'
      BY <2>a, <2>k DEF RolesKept
    <3> QED
      BY <2>a, <2>i, <3>1, <3>2, <3>3
  <2>b. ASSUME NEW r \in RoleIds, NEW row \in Role, roles' = [roles EXCEPT ![r] = row],
               UNCHANGED <<known, users, sheet, chosen>>, writes' \in 0..MaxWrites,
               counted' \subseteq counted,
               row.state = "live" \/ r \in counted
        PROVE  Inv'
    <3>1. AccountsTypeOK'
      BY <2>h, <2>b DEF AccountsTypeOK
    <3>2. ASSUME NEW q \in Kept, q \in HeldRoles \cup DueRole PROVE q \in Kept'
      <4>1. CASE q = r
        BY <2>b, <2>k, <3>2, <4>1 DEF RolesKept, AccountsTypeOK
      <4>2. CASE q # r
        BY <2>b, <2>k, <4>2 DEF AccountsTypeOK, Kept
      <4> QED
        BY <4>1, <4>2
    <3>3. ASSUME NEW v \in Users, users'[v].there PROVE RoleOf(v)' \in Kept'
      BY <2>b, <3>2, <3>3 DEF RolesKept, RoleOf, HeldRoles
    <3>4. chosen' # NoPage => chosen'.role \in Kept'
      BY <2>b, <3>2 DEF RolesKept, DueRole
    <3> QED
      BY <2>b, <2>i, <3>1, <3>3, <3>4
  <2>c. ASSUME NEW c \in Choice, c.role \in Kept, chosen' = c,
               UNCHANGED <<known, roles, users, sheet, counted>>, writes' \in 0..MaxWrites
        PROVE  Inv'
    <3>1. AccountsTypeOK'
      BY <2>h, <2>c DEF AccountsTypeOK
    <3>2. ASSUME NEW q \in Kept PROVE q \in Kept'
      BY <2>c, <2>k
    <3> QED
      BY <2>c, <2>h, <3>1, <3>2 DEF RolesKept, RoleOf
  <2>d. ASSUME UNCHANGED <<known, roles, users>>, writes' \in 0..MaxWrites,
               chosen' \in {chosen, NoPage}, sheet' \in Form \cup {NoPage},
               counted' \subseteq RoleIds, counted' \cap HeldRoles \subseteq counted
        PROVE  Inv'
    <3>1. AccountsTypeOK'
      BY <2>h, <2>d DEF AccountsTypeOK
    <3>2. ASSUME NEW q \in Kept PROVE q \in Kept'
      BY <2>d, <2>k
    <3> QED
      BY <2>d, <2>h, <3>1, <3>2 DEF RolesKept, RoleOf
  <2>1. ASSUME NEW a \in Acting, NEW u \in Users, NEW r \in RoleIds \cup {NoRole},
               NEW on \in BOOLEAN, AddUser(a, u, r, on)
        PROVE  Inv'
    <3>1. r \in Kept
      BY <2>1 DEF AddUser, AddedOnPage, AddedOverApi, OnRoles, LiveRoles, Kept
    <3> DEFINE c == [of |-> u, role |-> r, on |-> on, new |-> TRUE]
    <3>2. c \in Choice /\ c.role = r
      BY DEF Choice
    <3> QED
      BY <2>0, <2>1, <2>c, <3>1, <3>2 DEF AddUser, Choose
  <2>2. ASSUME NEW a \in Acting, NEW u \in Users, NEW r \in RoleIds \cup {NoRole},
               NEW on \in BOOLEAN, EditUser(a, u, r, on)
        PROVE  Inv'
    <3>1. r \in Kept
      BY <2>2, EditGivesLive
    <3> DEFINE c == [of |-> u, role |-> r, on |-> on, new |-> FALSE]
    <3>2. c \in Choice /\ c.role = r
      BY DEF Choice
    <3> QED
      BY <2>0, <2>2, <2>c, <3>1, <3>2 DEF EditUser, Choose
  <2>3. ASSUME NEW a \in Acting, NEW u \in Users, DeleteUser(a, u) PROVE Inv'
    <3>1. NoUser \in User /\ ~NoUser.there
      BY NewRow DEF NoUser, NewUser
    <3> QED
      BY <2>0, <2>a, <2>3, <3>1 DEF DeleteUser, OnlyUsers, Underway
  <2>4. ASSUME NEW a \in Acting, NEW u \in Users, OpenForm(a, u) PROVE Inv'
    <3>1. [by |-> a, of |-> u, shown |-> known, ticked |-> Ticked(u)] \in Form
      BY DEF Form, Acting, Ticked, RoleCodes, RoleOf, AccountsTypeOK, User, Role
    <3> QED
      BY <2>4, <2>d, <3>1 DEF OpenForm, Underway, AccountsTypeOK
  <2>5. CASE LeaveForm
    BY <2>5, <2>d DEF LeaveForm, Underway, AccountsTypeOK
  <2>s. CASE SaveUser
    <3> DEFINE u == chosen.of
               row == IF chosen.new THEN NewUser(chosen.role, chosen.on)
                      ELSE [users[u] EXCEPT !.role = chosen.role, !.on = chosen.on]
    <3>1. chosen \in Choice /\ u \in Users /\ users[u] \in User /\ chosen.role \in Kept
      BY <2>s DEF SaveUser, AccountsTypeOK, Choice, RolesKept
    <3>2. row \in User /\ row.role = chosen.role
      BY <3>1, NewRow DEF Choice, User, NewUser
    <3>3. users' = [users EXCEPT ![u] = row]
      BY <2>s DEF SaveUser
    <3> HIDE DEF row
    <3> QED
      BY <2>s, <2>a, <3>1, <3>2, <3>3 DEF SaveUser, AccountsTypeOK
  <2>t. CASE SaveFails
    BY <2>t, <2>d DEF SaveFails, AccountsTypeOK
  <2>6. ASSUME NEW S \in SUBSET Codes, SaveForm(S) PROVE Inv'
    <3> DEFINE u == sheet.of
               row == [users[u] EXCEPT !.extra = S \ RoleCodes(u),
                                       !.denied = (sheet.shown \ S) \cap RoleCodes(u)]
    <3>1. sheet \in Form /\ u \in Users /\ users[u] \in User
      BY <2>6 DEF SaveForm, AccountsTypeOK, Form
    <3>2. row \in User /\ row.role = users[u].role /\ row.there = users[u].there
      BY <3>1 DEF User, Form
    <3>3. users' = [users EXCEPT ![u] = row]
      BY <2>6, <3>1 DEF SaveForm, User
    <3> HIDE DEF row
    <3>4. AccountsTypeOK'
      BY <2>0, <2>6, <2>h, <3>1, <3>2, <3>3 DEF SaveForm, Underway, AccountsTypeOK
    <3>5. ASSUME NEW v \in Users, users'[v].there PROVE RoleOf(v)' \in Kept'
      <4>1. RoleOf(v)' \in Kept
        BY <3>1, <3>2, <3>3, <3>5 DEF AccountsTypeOK, RolesKept, RoleOf
      <4> QED
        BY <2>6, <2>k, <4>1 DEF SaveForm
    <3>6. chosen' # NoPage => chosen'.role \in Kept'
      BY <2>6, <2>k DEF SaveForm, Underway, RolesKept
    <3> QED
      BY <2>6, <2>i, <3>4, <3>5, <3>6 DEF SaveForm, Underway
  <2>7. ASSUME NEW a \in Acting, NEW r \in RoleIds, NEW t \in Types, NEW on \in BOOLEAN,
               AddRole(a, r, t, on)
        PROVE  Inv'
    <3>1. NewRole(t, on) \in Role /\ NewRole(t, on).state = "live"
      BY DEF NewRole, Role
    <3> QED
      BY <2>0, <2>b, <2>7, <3>1 DEF AddRole, OnlyRoles, Underway, AccountsTypeOK
  <2>8. ASSUME NEW a \in Acting, NEW r \in RoleIds, NEW t \in Types, NEW on \in BOOLEAN,
               EditRole(a, r, t, on)
        PROVE  Inv'
    <3>1. PICK S \in Grantable(a, r) \cup {roles[r].has} :
            roles' = [roles EXCEPT ![r].type = IF roles[r].system THEN @ ELSE t,
                                   ![r].on = on, ![r].has = S]
      BY <2>8 DEF EditRole
    <3> DEFINE row == [roles[r] EXCEPT !.type = IF roles[r].system THEN @ ELSE t,
                                       !.on = on, !.has = S]
    <3>2. roles[r] \in Role /\ roles[r].state = "live"
      BY <2>8 DEF EditRole, LiveRoles, AccountsTypeOK
    <3>3. S \in SUBSET Codes
      BY <3>2 DEF Grantable, AccountsTypeOK, Role
    <3>4. row \in Role /\ row.state = "live"
      BY <3>2, <3>3 DEF Role
    <3>5. roles' = [roles EXCEPT ![r] = row]
      BY <3>1, <3>2 DEF Role
    <3> HIDE DEF row
    <3> QED
      BY <2>0, <2>b, <2>8, <3>4, <3>5 DEF EditRole, OnlyRoles, Underway, AccountsTypeOK
  <2>9. ASSUME NEW a \in Acting, NEW r \in RoleIds, SetRolePermissions(a, r) PROVE Inv'
    <3>1. PICK S \in SUBSET Codes : roles' = [roles EXCEPT ![r].has = S]
      BY <2>9 DEF SetRolePermissions
    <3> DEFINE row == [roles[r] EXCEPT !.has = S]
    <3>2. roles[r] \in Role /\ roles[r].state = "live"
      BY <2>9 DEF SetRolePermissions, LiveRoles, AccountsTypeOK
    <3>3. row \in Role /\ row.state = "live"
      BY <3>2 DEF Role
    <3>4. roles' = [roles EXCEPT ![r] = row]
      BY <3>1
    <3> HIDE DEF row
    <3> QED
      BY <2>0, <2>b, <2>9, <3>3, <3>4 DEF SetRolePermissions, OnlyRoles, Underway, AccountsTypeOK
  <2>10. ASSUME NEW a \in Acting, NEW r \in RoleIds, CountRole(a, r) PROVE Inv'
    BY <2>0, <2>10, <2>d DEF CountRole, HeldRoles, RoleOf, AccountsTypeOK
  <2>u. ASSUME NEW r \in RoleIds, DropRole(r) PROVE Inv'
    <3> DEFINE row == [roles[r] EXCEPT !.state = "deleted"]
    <3>1. row \in Role
      BY DEF Role, AccountsTypeOK
    <3>2. roles' = [roles EXCEPT ![r] = row]
      BY <2>u DEF DropRole
    <3> HIDE DEF row
    <3> QED
      BY <2>b, <2>u, <3>1, <3>2 DEF DropRole, AccountsTypeOK
  <2>v. ASSUME NEW r \in RoleIds, DeletionDies(r) PROVE Inv'
    BY <2>v, <2>d DEF DeletionDies, AccountsTypeOK
  <2>11. ASSUME NEW S \in SUBSET Codes, Release(S) PROVE Inv'
    <3>1. /\ known' = known \cup S /\ roles' = Registered(S) /\ users' = Bootstrapped
          /\ sheet' = sheet /\ writes' \in 0..MaxWrites /\ chosen' = chosen /\ counted' = counted
      BY <2>0, <2>11 DEF Release, Underway
    <3>2. roles' \in [RoleIds -> Role] /\ \A r \in RoleIds : roles'[r].state = roles[r].state
      BY <3>1 DEF Registered, AccountsTypeOK, Role
    <3>3. users' \in [Users -> User]
      <4>1. \A u \in Users : Bootstrapped[u] \in User
        BY BootstrapGivesLive
      <4> QED
        BY <3>1, <4>1 DEF Bootstrapped
    <3>4. ASSUME NEW r \in Kept PROVE r \in Kept'
      BY <2>k, <3>2 DEF Kept
    <3>5. ASSUME NEW u \in Users, users'[u].there PROVE RoleOf(u)' \in Kept'
      <4>1. RoleOf(u)' \in Kept
        BY <3>1, <3>5, BootstrapGivesLive DEF RolesKept, RoleOf, LiveRoles, Kept
      <4> QED
        BY <3>4, <4>1
    <3>6. AccountsTypeOK'
      BY <2>h, <3>1, <3>2, <3>3 DEF AccountsTypeOK
    <3> QED
      BY <2>h, <3>1, <3>4, <3>5, <3>6 DEF RolesKept
  <2>12. ASSUME NEW reset \in BOOLEAN, SetupRoles(reset), ~UNCHANGED accountVars PROVE Inv'
    BY <2>g, <2>12, SetupKeepsLive
  <2>13. CASE LinkProfiles
    <3> DEFINE r == CHOOSE r \in OfType("admin") : TRUE
    <3>1. r \in OfType("admin")
      <4>1. OfType("admin") # {}
        BY <2>13, FS_EmptySet DEF LinkProfiles
      <4> QED
        BY <4>1
    <3>2. r \in RoleIds /\ r \in Kept
      BY <3>1 DEF OfType, LiveRoles, Kept
    <3>3. users' = [u \in Users |-> IF u \in Supers /\ users[u].there
                                   THEN [users[u] EXCEPT !.role = r] ELSE users[u]]
      BY <2>13 DEF LinkProfiles
    <3> HIDE DEF r
    <3>4. ASSUME NEW u \in Users
          PROVE  [users[u] EXCEPT !.role = r] \in User /\ [users[u] EXCEPT !.role = r].role = r
      BY <3>2 DEF AccountsTypeOK, User
    <3>5. AccountsTypeOK'
      BY <2>0, <2>13, <2>h, <3>3, <3>4 DEF LinkProfiles, OnlyUsers, Underway, AccountsTypeOK
    <3>6. ASSUME NEW u \in Users, users'[u].there PROVE RoleOf(u)' \in Kept'
      <4>1. RoleOf(u)' \in Kept
        BY <3>2, <3>3, <3>4, <3>6 DEF AccountsTypeOK, RolesKept, RoleOf
      <4> QED
        BY <2>13, <2>k, <4>1 DEF LinkProfiles, OnlyUsers
    <3>7. chosen' # NoPage => chosen'.role \in Kept'
      BY <2>13, <2>k DEF LinkProfiles, OnlyUsers, Underway, RolesKept
    <3> QED
      BY <2>13, <2>i, <3>5, <3>6, <3>7 DEF LinkProfiles, OnlyUsers, Underway
  <2>14. CASE UNCHANGED accountVars
    BY <2>14 DEF accountVars, AccountsTypeOK, RolesKept, Kept, HeldRoles, DueRole, RoleOf
  <2> QED
    BY <2>1, <2>2, <2>3, <2>4, <2>5, <2>s, <2>t, <2>6, <2>7, <2>8, <2>9, <2>10, <2>u, <2>v, <2>11,
       <2>12, <2>13, <2>14
       DEF AccountsNext, AccountsStep
<1>3. Inv => NoGhostRole
  BY DEF RolesKept, Kept, NoGhostRole
<1> QED
  BY <1>1, <1>2, <1>3, PTL DEF AccountsSpec

(* What the form writes, and what the user may do after it.                   *)
LEMMA FormSaved ==
  ASSUME AccountsTypeOK, NEW S \in SUBSET known, SaveForm(S), NEW u \in {sheet.of},
         RoleOf(u) # NoRole, NEW c \in sheet.shown
  PROVE  IF c \in S THEN c \in Effective(u)'
         ELSE c \in Effective(u)' => \E d \in Effective(u)' : d # c /\ c \in Implies[d]
<1> DEFINE has == RoleCodes(u)
           denied == (sheet.shown \ S) \cap has
           base == (has \cup (S \ has)) \ denied
<1>1. u \in Users /\ S \subseteq sheet.shown /\ u = sheet.of
  BY DEF SaveForm, AccountsTypeOK, Form
<1>2. users[u] \in User /\ UNCHANGED roles
      /\ users'[u] = [users[u] EXCEPT !.extra = S \ has, !.denied = denied]
  BY <1>1 DEF SaveForm, AccountsTypeOK
<1>3. users'[u].role = users[u].role /\ users'[u].extra = S \ has /\ users'[u].denied = denied
  BY <1>2 DEF User
<1>4. u \notin Supers /\ ~(TypeOf(u) = "admin")
  BY DEF SaveForm, IsAdmin
<1>5. RoleOf(u)' = RoleOf(u) /\ RoleCodes(u)' = has /\ TypeOf(u)' = TypeOf(u)
  BY <1>2, <1>3 DEF RoleOf, RoleCodes, TypeOf, RoleType
<1>6. ~IsAdmin(u)' /\ RoleOf(u)' # NoRole
  BY <1>4, <1>5 DEF IsAdmin
<1> HIDE DEF has, denied
<1>7. (RoleCodes(u)' \cup users'[u].extra) \ users'[u].denied = base
  BY <1>3, <1>5
<1> HIDE DEF base
<1>8. Effective(u)' = Expand(base) \ denied
  BY <1>3, <1>4, <1>6, <1>7 DEF Effective, Expand
<1>9. CASE c \in S
  BY <1>8, <1>9 DEF Expand, base, denied
<1>10. ASSUME c \notin S, c \in Effective(u)'
       PROVE  \E d \in Effective(u)' : d # c /\ c \in Implies[d]
  <2>1. c \notin base /\ c \in Expand(base)
    BY <1>8, <1>10 DEF base, denied
  <2>2. PICK d \in base : c \in Implies[d]
    BY <2>1 DEF Expand
  <2>3. d \in Effective(u)'
    BY <1>8 DEF Expand, base
  <2> QED
    BY <2>1, <2>2, <2>3
<1> QED
  BY <1>9, <1>10

(* What the page of permissions saves is what was chosen on it, for any       *)
(* number of users, roles and permissions.                                    *)
THEOREM FormSavesChoice == AccountsSpec => SavedAsChosen
<1>1. AccountsTypeOK =>
        (sheet' # sheet => \A S \in SUBSET known : SaveForm(S) =>
           \A u \in {sheet.of} : RoleOf(u) # NoRole =>
             \A c \in sheet.shown :
               IF c \in S THEN c \in Effective(u)'
               ELSE c \in Effective(u)' => \E d \in Effective(u)' : d # c /\ c \in Implies[d])
  BY FormSaved
<1> QED
  BY <1>1, RolesOutliveUsers, PTL DEF SavedAsChosen

(***************************************************************************)
(* NavigationCaches: the overview is fresh.                                *)
(***************************************************************************)

(* What a thread is doing; those whose invalidation is still to come.         *)
Job == [op : {"none", "commit"}] \cup [op : {"overview"}, key : Versions, seen : Nat]
       \cup [op : {"sidebar"}, seen : Nat] \cup [op : {"saved", "deleted", "set"}, atomic : BOOLEAN]
ToFollow == {t \in Requests : doing[t].op \in {"saved", "deleted", "set"}}
CacheTypes ==
  /\ data \in Nat /\ saves \in 0..MaxSaves /\ version \in Nat \cup {Missing}
  /\ overview \in [Versions -> Nat \cup {Missing}] /\ sidebar \in Nat \cup {Missing}
  /\ doing \in [Requests -> Job] /\ told \in 0..data /\ met \in BOOLEAN

(* Each save increases the version once at most.                              *)
VersionsSuffice == IsFiniteSet(ToFollow) /\ Version + Cardinality(ToFollow) <= saves

(* Unless two met, one thread at a time finds no version, and nothing is      *)
(* under a later version than the current one.                                *)
OneSets ==
  \A t \in Requests : doing[t].op = "set" =>
    version = Missing /\ \A o \in Requests : doing[o].op = "set" => o = t
NoneLater ==
  /\ \A v \in Versions : v > Version => overview[v] = Missing
  /\ \A t \in Requests : doing[t].op = "overview" => doing[t].key <= Version

(* What is stored or will be stored under the current version is no older     *)
(* than the last invalidation.                                                *)
CurrentIsFresh ==
  /\ overview[Version] = Missing \/ overview[Version] >= told
  /\ \A t \in Requests : doing[t].op = "overview" /\ doing[t].key = Version => doing[t].seen >= told

CacheInv ==
  /\ CacheTypes /\ VersionsSuffice
  /\ ~met => OneSets /\ NoneLater /\ CurrentIsFresh

(* The pending ones, as a thread begins or ends an invalidation.              *)
LEMMA InvalidationBegins ==
  ASSUME IsFiniteSet(ToFollow), NEW t \in Requests, t \notin ToFollow, ToFollow' = ToFollow \cup {t}
  PROVE  IsFiniteSet(ToFollow') /\ Cardinality(ToFollow') = Cardinality(ToFollow) + 1
         /\ Cardinality(ToFollow) \in Nat
BY FS_AddElement, FS_CardinalityType

LEMMA InvalidationEnds ==
  ASSUME IsFiniteSet(ToFollow), NEW t \in ToFollow, ToFollow' = ToFollow \ {t}
  PROVE  IsFiniteSet(ToFollow') /\ Cardinality(ToFollow') = Cardinality(ToFollow) - 1
         /\ Cardinality(ToFollow) \in Nat \ {0}
BY FS_RemoveElement, FS_CardinalityType, FS_EmptySet

LEMMA VersionIsOne ==
  ASSUME CacheTypes, VersionsSuffice
  PROVE  Version \in Versions /\ Version \in Nat /\ Cardinality(ToFollow) \in Nat
BY FS_CardinalityType, CachesAssumption DEF CacheTypes, VersionsSuffice, Version, Versions

(* Reading and storing move no version and begin and end no invalidation.     *)
LEMMA ReadersKeep ==
  ASSUME CacheInv, CacheTypes', UNCHANGED <<data, saves, version, told, met>>,
         NEW t \in Requests, \A o \in Requests \ {t} : doing'[o] = doing[o],
         doing[t].op \in {"none", "overview", "sidebar"}, doing'[t].op \in {"none", "overview", "sidebar"},
         doing'[t].op = "overview" => doing'[t].key = Version /\ doing'[t].seen = data,
         \A v \in Versions : \/ overview'[v] = overview[v] \/ overview'[v] = Missing
                             \/ /\ doing[t].op = "overview" /\ doing[t].key = v
                                /\ overview'[v] = doing[t].seen
  PROVE  CacheInv'
<1>1. Version \in Versions /\ Version \in Nat /\ Version' = Version
  BY VersionIsOne DEF CacheInv, Version
<1>2. ToFollow' = ToFollow
  BY DEF ToFollow
<1>3. VersionsSuffice'
  BY <1>1, <1>2 DEF CacheInv, VersionsSuffice
<1>4. \A o \in Requests : doing'[o].op = "set" => o # t /\ doing[o].op = "set"
  OBVIOUS
<1>5. ASSUME ~met PROVE OneSets' /\ NoneLater'
  <2>1. OneSets'
    BY <1>4, <1>5 DEF CacheInv, OneSets
  <2>2. \A v \in Versions : v > Version => overview'[v] = Missing
    <3> SUFFICES ASSUME NEW v \in Versions, v > Version PROVE overview'[v] = Missing
      OBVIOUS
    <3>1. overview[v] = Missing
      BY <1>5 DEF CacheInv, NoneLater
    <3>2. ~(doing[t].op = "overview" /\ doing[t].key = v)
      <4>1. v \in Nat
        BY DEF Versions
      <4>2. doing[t].op = "overview" => doing[t].key <= Version
        BY <1>5 DEF CacheInv, NoneLater
      <4> QED
        BY <1>1, <4>1, <4>2
    <3> QED
      BY <3>1, <3>2
  <2>3. \A o \in Requests : doing'[o].op = "overview" => doing'[o].key <= Version
    <3> TAKE o \in Requests
    <3>1. CASE o = t
      BY <1>1, <3>1
    <3>2. CASE o # t
      BY <1>5, <3>2 DEF CacheInv, NoneLater
    <3> QED
      BY <3>1, <3>2
  <2> QED
    BY <1>1, <2>1, <2>2, <2>3 DEF NoneLater
<1>6. ASSUME ~met PROVE CurrentIsFresh'
  <2>1. CurrentIsFresh /\ told \in Nat /\ data \in Nat /\ told <= data
    BY <1>6 DEF CacheInv, CacheTypes
  <2>2. overview'[Version] = Missing \/ overview'[Version] >= told
    BY <1>1, <2>1 DEF CurrentIsFresh
  <2>3. ASSUME NEW o \in Requests, doing'[o].op = "overview", doing'[o].key = Version
        PROVE  doing'[o].seen >= told
    <3>1. CASE o = t
      BY <2>1, <2>3, <3>1
    <3>2. CASE o # t
      BY <2>1, <2>3, <3>2 DEF CurrentIsFresh
    <3> QED
      BY <3>1, <3>2
  <2> QED
    BY <1>1, <2>2, <2>3 DEF CurrentIsFresh
<1> QED
  BY <1>2, <1>3, <1>5, <1>6 DEF CacheInv

(* A new version has nothing stored under it, nor computed for it.            *)
LEMMA NewVersionIsEmpty ==
  ASSUME CacheTypes, CacheTypes', VersionsSuffice, VersionsSuffice', NoneLater,
         UNCHANGED overview, Version' = Version + 1,
         \A o \in Requests : doing'[o].op = "overview" => doing'[o] = doing[o]
  PROVE  NoneLater' /\ CurrentIsFresh'
<1>1. /\ Version \in Nat
      /\ \A v \in Versions : v \in Nat
      /\ \A o \in Requests : doing[o].op = "overview" => doing[o].key \in Nat
  BY VersionIsOne DEF CacheTypes, Job, Versions
<1>2. Version' \in Versions
  <2>1. Cardinality(ToFollow') \in Nat /\ Version' + Cardinality(ToFollow') <= saves'
        /\ saves' \in 0..MaxSaves
    BY FS_CardinalityType DEF VersionsSuffice, CacheTypes
  <2> QED
    BY <1>1, <2>1, CachesAssumption DEF Versions
<1>3. \A v \in Versions : v > Version => overview[v] = Missing
  BY DEF NoneLater
<1>4. overview'[Version'] = Missing
  BY <1>1, <1>2, <1>3
<1>5. \A o \in Requests : doing'[o].op = "overview" =>
        doing'[o].key <= Version' /\ doing'[o].key # Version'
  BY <1>1 DEF NoneLater
<1>6. \A v \in Versions : v > Version' => overview'[v] = Missing
  BY <1>1, <1>3
<1> QED
  BY <1>4, <1>5, <1>6 DEF NoneLater, CurrentIsFresh

LEMMA CachesStep == CacheInv /\ [CachesNext]_cacheVars => CacheInv'
<1> SUFFICES ASSUME CacheInv, [CachesNext]_cacheVars PROVE CacheInv'
  OBVIOUS
<1>0. CacheTypes /\ VersionsSuffice
  BY DEF CacheInv
<1>v. Version \in Versions /\ Version \in Nat
  BY <1>0, VersionIsOne
<1>m. 0 \in Versions /\ Missing \notin Nat /\ MaxSaves \in Nat
  BY CachesAssumption DEF Versions
<1>1. ASSUME NEW t \in Requests, ReadOverview(t) PROVE CacheInv'
  <2>1. doing' = [doing EXCEPT ![t] = [op |-> "overview", key |-> Version, seen |-> data]]
    BY <1>1 DEF ReadOverview, Become, KeyOf
  <2>2. [op |-> "overview", key |-> Version, seen |-> data] \in Job
    BY <1>0, <1>v DEF Job, CacheTypes
  <2>3. CacheTypes'
    BY <1>0, <1>1, <2>1, <2>2 DEF ReadOverview, CacheTypes
  <2>4. doing'[t] = [op |-> "overview", key |-> Version, seen |-> data]
        /\ \A o \in Requests \ {t} : doing'[o] = doing[o]
    BY <1>0, <2>1 DEF CacheTypes
  <2> QED
    BY <1>1, <2>3, <2>4, ReadersKeep DEF ReadOverview, Is
<1>2. ASSUME NEW t \in Requests, StoreOverview(t) PROVE CacheInv'
  <2>1. doing[t].key \in Versions /\ doing[t].seen \in Nat
    BY <1>0, <1>2 DEF StoreOverview, Is, CacheTypes, Job
  <2>2. CacheTypes'
    BY <1>0, <1>2, <2>1 DEF StoreOverview, Become, Nobody, CacheTypes, Job
  <2>3. doing'[t] = Nobody /\ \A o \in Requests \ {t} : doing'[o] = doing[o]
    BY <1>0, <1>2 DEF StoreOverview, Become, CacheTypes
  <2>4. \A v \in Versions : overview'[v] = IF v = doing[t].key THEN doing[t].seen ELSE overview[v]
    BY <1>0, <1>2, <2>1 DEF StoreOverview, CacheTypes
  <2> QED
    BY <1>2, <2>2, <2>3, <2>4, ReadersKeep DEF StoreOverview, Is, Nobody
<1>3. ASSUME NEW t \in Requests, ReadSidebar(t) PROVE CacheInv'
  <2>1. CacheTypes'
    BY <1>0, <1>3 DEF ReadSidebar, Become, CacheTypes, Job
  <2>2. doing'[t].op = "sidebar" /\ \A o \in Requests \ {t} : doing'[o] = doing[o]
    BY <1>0, <1>3 DEF ReadSidebar, Become, CacheTypes
  <2> QED
    BY <1>3, <2>1, <2>2, ReadersKeep DEF ReadSidebar, Is
<1>4. ASSUME NEW t \in Requests, StoreSidebar(t) PROVE CacheInv'
  <2>1. CacheTypes'
    BY <1>0, <1>4 DEF StoreSidebar, Become, Nobody, Is, CacheTypes, Job
  <2>2. doing'[t].op = "none" /\ \A o \in Requests \ {t} : doing'[o] = doing[o]
    BY <1>0, <1>4 DEF StoreSidebar, Become, Nobody, CacheTypes
  <2> QED
    BY <1>4, <2>1, <2>2, ReadersKeep DEF StoreSidebar, Is
<1>b. ASSUME NEW t \in Requests, NEW atomic \in BOOLEAN, Is(t, "none"), saves < MaxSaves,
             saves' = saves + 1, data' \in {data, data + 1},
             Become(t, [op |-> "saved", atomic |-> atomic]),
             UNCHANGED <<version, overview, sidebar, told, met>>
      PROVE  CacheInv'
  <2>1. doing' = [doing EXCEPT ![t] = [op |-> "saved", atomic |-> atomic]]
    BY <1>b DEF Become
  <2>2. CacheTypes'
    BY <1>0, <1>b, <2>1, <1>m DEF CacheTypes, Job
  <2>3. doing'[t] = [op |-> "saved", atomic |-> atomic]
        /\ \A o \in Requests \ {t} : doing'[o] = doing[o]
    BY <1>0, <2>1 DEF CacheTypes
  <2>4. ToFollow' = ToFollow \cup {t} /\ t \notin ToFollow
    BY <1>b, <2>3 DEF ToFollow, Is
  <2>5. VersionsSuffice' /\ Version' = Version
    <3>1. Version' = Version /\ saves \in Nat
      BY <1>0, <1>b, <1>m DEF Version, CacheTypes
    <3> QED
      <4>1. IsFiniteSet(ToFollow') /\ Cardinality(ToFollow') = Cardinality(ToFollow) + 1
            /\ Cardinality(ToFollow) \in Nat
        BY <1>0, <2>4, InvalidationBegins DEF VersionsSuffice
      <4> QED
        BY <1>0, <1>v, <1>b, <3>1, <4>1 DEF VersionsSuffice
  <2>6. ~met => OneSets' /\ NoneLater' /\ CurrentIsFresh'
    <3>1. \A o \in Requests : doing'[o].op \in {"set", "overview"} => doing'[o] = doing[o]
      BY <2>3
    <3> QED
      BY <1>b, <2>5, <3>1 DEF CacheInv, OneSets, NoneLater, CurrentIsFresh
  <2> QED
    BY <1>b, <2>2, <2>5, <2>6 DEF CacheInv
<1>5. ASSUME NEW t \in Requests, NEW atomic \in BOOLEAN, Save(t, atomic) PROVE CacheInv'
  BY <1>5, <1>b DEF Save
<1>14. ASSUME NEW t \in Requests, Login(t) PROVE CacheInv'
  BY <1>14, <1>b DEF Login
<1>15. CASE SaveElsewhere
  <2>1. Version' = Version /\ ToFollow' = ToFollow
    BY <1>15 DEF SaveElsewhere, Version, ToFollow
  <2>2. CacheTypes'
    BY <1>0, <1>15, <1>m DEF SaveElsewhere, CacheTypes
  <2>3. VersionsSuffice'
    <3>1. Cardinality(ToFollow) \in Nat /\ saves \in Nat
      BY <1>0, <1>m, FS_CardinalityType DEF VersionsSuffice, CacheTypes
    <3> QED
      BY <1>0, <1>v, <1>15, <2>1, <3>1 DEF SaveElsewhere, VersionsSuffice
  <2> QED
    BY <1>15, <2>1, <2>2, <2>3
       DEF SaveElsewhere, CacheInv, OneSets, NoneLater, CurrentIsFresh
<1>16. ASSUME NEW t \in Requests, Killed(t) PROVE CacheInv'
  <2>1. doing'[t] = Nobody /\ (\A o \in Requests \ {t} : doing'[o] = doing[o])
        /\ UNCHANGED <<data, saves, version, overview, sidebar, told, met>>
    BY <1>0, <1>16 DEF Killed, Become, CacheTypes
  <2>2. CacheTypes'
    BY <1>0, <1>16 DEF Killed, Become, Nobody, CacheTypes, Job
  <2>3. Version' = Version
    BY <2>1 DEF Version
  <2>4. VersionsSuffice'
    <3>1. CASE t \in ToFollow
      <4>1. ToFollow' = ToFollow \ {t}
        BY <2>1 DEF ToFollow, Nobody
      <4>2. IsFiniteSet(ToFollow') /\ Cardinality(ToFollow') = Cardinality(ToFollow) - 1
            /\ Cardinality(ToFollow) \in Nat \ {0} /\ saves \in Nat
        BY <1>0, <1>m, <3>1, <4>1, InvalidationEnds DEF VersionsSuffice, CacheTypes
      <4> QED
        BY <1>0, <1>v, <2>1, <2>3, <4>2 DEF VersionsSuffice
    <3>2. CASE t \notin ToFollow
      <4>1. ToFollow' = ToFollow
        BY <2>1, <3>2 DEF ToFollow, Nobody
      <4> QED
        BY <1>0, <2>1, <2>3, <4>1 DEF VersionsSuffice
    <3> QED
      BY <3>1, <3>2
  <2>5. ~met => OneSets' /\ NoneLater' /\ CurrentIsFresh'
    <3>1. \A o \in Requests : doing'[o].op \in {"set", "overview"} => doing'[o] = doing[o]
      BY <2>1 DEF Nobody
    <3> QED
      BY <2>1, <2>3, <3>1 DEF CacheInv, OneSets, NoneLater, CurrentIsFresh
  <2> QED
    BY <2>1, <2>2, <2>4, <2>5 DEF CacheInv
<1>6. ASSUME NEW t \in Requests, NEW job \in Job, doing' = [doing EXCEPT ![t] = job],
             t \in ToFollow, job.op \in {"deleted", "set"}, sidebar' \in {sidebar, Missing},
             job.op = "set" => version = Missing /\ (~met' => \A o \in Requests : doing[o].op # "set"),
             met' \in BOOLEAN, met => met', UNCHANGED <<data, saves, version, overview, told>>
      PROVE  CacheInv'
  <2>1. doing'[t] = job /\ \A o \in Requests \ {t} : doing'[o] = doing[o]
    BY <1>0, <1>6 DEF CacheTypes
  <2>2. CacheTypes'
    BY <1>0, <1>6 DEF CacheTypes
  <2>3. ToFollow' = ToFollow /\ Version' = Version
    BY <1>6, <2>1 DEF ToFollow, Version
  <2>4. VersionsSuffice'
    BY <1>0, <1>6, <2>3 DEF VersionsSuffice
  <2>5. ~met' => OneSets' /\ NoneLater' /\ CurrentIsFresh'
    <3>1. \A o \in Requests : doing'[o].op = "overview" => doing'[o] = doing[o]
      BY <1>6, <2>1
    <3>2. ~met' => NoneLater' /\ CurrentIsFresh'
      BY <1>6, <2>3, <3>1 DEF CacheInv, NoneLater, CurrentIsFresh
    <3>3. ~met' => OneSets'
      BY <1>6, <2>1 DEF CacheInv, OneSets
    <3> QED
      BY <3>2, <3>3
  <2> QED
    BY <2>2, <2>4, <2>5 DEF CacheInv
<1>7. ASSUME NEW t \in Requests, DeleteSidebar(t) PROVE CacheInv'
  <2> DEFINE job == [doing[t] EXCEPT !.op = "deleted"]
  <2>1. job \in Job /\ job.op = "deleted" /\ t \in ToFollow
    BY <1>0, <1>7 DEF DeleteSidebar, Is, CacheTypes, Job, ToFollow
  <2>2. doing' = [doing EXCEPT ![t] = job] /\ sidebar' = Missing
        /\ UNCHANGED <<data, saves, version, overview, told, met>>
    BY <1>7 DEF DeleteSidebar, Become
  <2> HIDE DEF job
  <2> QED
    BY <1>0, <1>6, <2>1, <2>2 DEF CacheTypes
<1>8. ASSUME NEW t \in Requests, FindNoVersion(t) PROVE CacheInv'
  <2> DEFINE job == [doing[t] EXCEPT !.op = "set"]
  <2>1. job \in Job /\ job.op = "set" /\ t \in ToFollow
    BY <1>0, <1>8 DEF FindNoVersion, Is, CacheTypes, Job, ToFollow
  <2>2. doing' = [doing EXCEPT ![t] = job] /\ version = Missing
        /\ UNCHANGED <<data, saves, version, overview, sidebar, told>>
    BY <1>8 DEF FindNoVersion, Become
  <2>3. met' = (met \/ \E o \in Requests : doing[o].op = "set")
    BY <1>8 DEF FindNoVersion, Is
  <2>4. met' \in BOOLEAN /\ (met => met') /\ (~met' => \A o \in Requests : doing[o].op # "set")
    BY <1>0, <2>3 DEF CacheTypes
  <2> HIDE DEF job
  <2> QED
    BY <1>6, <2>1, <2>2, <2>4
<1>9. ASSUME NEW t \in Requests, IncreaseVersion(t) \/ SetVersion(t) PROVE CacheInv'
  <2>1. t \in ToFollow /\ doing[t] \in [op : {"saved", "deleted", "set"}, atomic : BOOLEAN]
    BY <1>0, <1>9 DEF IncreaseVersion, SetVersion, Is, ToFollow, CacheTypes, Job
  <2>2. PICK job \in Job : doing' = [doing EXCEPT ![t] = job] /\ job.op \in {"commit", "none"}
    <3>1. [op |-> "commit"] \in Job /\ Nobody \in Job
      BY DEF Job, Nobody
    <3> QED
      BY <1>9, <2>1, <3>1 DEF IncreaseVersion, SetVersion, Invalidated, Become, Nobody
  <2>3. doing'[t] = job /\ \A o \in Requests \ {t} : doing'[o] = doing[o]
    BY <1>0, <2>2 DEF CacheTypes
  <2>4. ToFollow' = ToFollow \ {t}
    BY <2>1, <2>2, <2>3 DEF ToFollow
  <2>5. /\ UNCHANGED <<data, saves, overview, sidebar, met>> /\ told' = data
        /\ version' \in Nat /\ Version' = version'
        /\ \/ Version' = Version + 1
           \/ version' = 1
    <3>1. CASE IncreaseVersion(t)
      BY <1>0, <3>1, <1>m DEF IncreaseVersion, Version, CacheTypes
    <3>2. CASE SetVersion(t)
      BY <3>2, <1>m DEF SetVersion, Version
    <3> QED
      BY <1>9, <3>1, <3>2
  <2>6. CacheTypes'
    BY <1>0, <2>2, <2>5 DEF CacheTypes
  <2>7. VersionsSuffice'
    <3>1. IsFiniteSet(ToFollow') /\ Cardinality(ToFollow') = Cardinality(ToFollow) - 1
          /\ Cardinality(ToFollow) \in Nat \ {0}
      BY <1>0, <2>1, <2>4, InvalidationEnds DEF VersionsSuffice
    <3>2. saves \in Nat /\ saves' = saves
      BY <1>0, <2>5, <1>m DEF CacheTypes
    <3> QED
      BY <1>0, <1>v, <2>5, <3>1, <3>2 DEF VersionsSuffice
  <2>8. ASSUME ~met PROVE OneSets' /\ NoneLater' /\ CurrentIsFresh'
    <3>1. OneSets /\ NoneLater
      BY <2>8 DEF CacheInv
    <3>2. Version' = Version + 1
      <4>1. CASE IncreaseVersion(t)
        BY <1>0, <4>1, <1>m DEF IncreaseVersion, Version, CacheTypes
      <4>2. CASE SetVersion(t)
        <5>1. version = Missing
          BY <3>1, <4>2 DEF SetVersion, Is, OneSets
        <5> QED
          BY <4>2, <5>1, <1>m DEF SetVersion, Version
      <4> QED
        BY <1>9, <4>1, <4>2
    <3>3. \A o \in Requests : doing'[o].op = "overview" => doing'[o] = doing[o]
      BY <2>2, <2>3
    <3>4. NoneLater' /\ CurrentIsFresh'
      BY <1>0, <2>5, <2>6, <2>7, <3>1, <3>2, <3>3, NewVersionIsEmpty
    <3>5. OneSets'
      <4> SUFFICES ASSUME NEW o \in Requests, doing'[o].op = "set" PROVE FALSE
        BY DEF OneSets
      <4>1. o # t /\ doing[o].op = "set"
        BY <2>2, <2>3
      <4>2. version = Missing
        BY <3>1, <4>1 DEF OneSets
      <4>3. doing[t].op = "set"
        BY <1>9, <4>2 DEF IncreaseVersion, SetVersion, Is
      <4> QED
        BY <3>1, <4>1, <4>3 DEF OneSets
    <3> QED
      BY <3>4, <3>5
  <2> QED
    BY <2>5, <2>6, <2>7, <2>8 DEF CacheInv
<1>10. ASSUME NEW t \in Requests, Commit(t) PROVE CacheInv'
  <2>1. doing'[t] = Nobody /\ \A o \in Requests \ {t} : doing'[o] = doing[o]
    BY <1>0, <1>10 DEF Commit, Become, CacheTypes
  <2>2. CacheTypes'
    BY <1>0, <1>10 DEF Commit, Become, Nobody, CacheTypes, Job
  <2>3. ToFollow' = ToFollow /\ Version' = Version
    BY <1>10, <2>1 DEF ToFollow, Version, Commit, Is, Nobody
  <2>4. VersionsSuffice'
    BY <1>0, <1>10, <2>3 DEF VersionsSuffice, Commit
  <2>5. ~met => OneSets' /\ NoneLater' /\ CurrentIsFresh'
    <3>1. \A o \in Requests : doing'[o].op \in {"set", "overview"} => doing'[o] = doing[o]
      BY <2>1 DEF Nobody
    <3> QED
      BY <1>10, <2>3, <3>1 DEF CacheInv, OneSets, NoneLater, CurrentIsFresh, Commit
  <2> QED
    BY <1>10, <2>2, <2>4, <2>5 DEF CacheInv, Commit
<1>11. ASSUME UNCHANGED <<data, saves, version, doing, told, met>>, CacheTypes',
              \A v \in Versions : overview'[v] \in {overview[v], Missing}
       PROVE  CacheInv'
  <2>1. ToFollow' = ToFollow /\ Version' = Version
    BY <1>11 DEF ToFollow, Version
  <2>2. VersionsSuffice' /\ (OneSets => OneSets')
    BY <1>0, <1>11, <2>1 DEF VersionsSuffice, OneSets
  <2>3. NoneLater => NoneLater'
    BY <1>11, <2>1 DEF NoneLater
  <2>4. CurrentIsFresh => CurrentIsFresh'
    BY <1>11, <1>v, <2>1 DEF CurrentIsFresh
  <2> QED
    BY <1>11, <2>1, <2>2, <2>3, <2>4 DEF CacheInv
<1>12. CASE Expire
  <2>1. /\ UNCHANGED <<data, saves, version, doing, told, met>>
        /\ \A v \in Versions : overview'[v] \in {overview[v], Missing}
    BY <1>0, <1>12 DEF Expire, CacheTypes
  <2>2. CacheTypes'
    BY <1>0, <1>12 DEF Expire, CacheTypes
  <2> QED
    BY <1>11, <2>1, <2>2
<1>13. CASE UNCHANGED cacheVars
  <2>1. CacheTypes'
    BY <1>0, <1>13 DEF cacheVars, CacheTypes
  <2> QED
    BY <1>11, <1>13, <2>1 DEF cacheVars
<1> QED
  BY <1>1, <1>2, <1>3, <1>4, <1>5, <1>7, <1>8, <1>9, <1>10, <1>12, <1>13, <1>14,
     <1>15, <1>16
     DEF CachesNext

(* A page is served an overview that counts every change committed before the *)
(* last invalidation, for any number of requests and saves: what was computed *)
(* before an invalidation is stored under a version that is not read any more.*)
THEOREM OverviewServedIsFresh == CachesSpec => []OverviewIsFresh
<1>1. CachesInit => CacheInv
  <2> SUFFICES ASSUME CachesInit PROVE CacheInv
    OBVIOUS
  <2>1. ToFollow = {} /\ Version = 0 /\ 0 \in Versions
    BY CachesAssumption DEF CachesInit, ToFollow, Nobody, Version, Versions
  <2>2. CacheTypes
    <3>1. Nobody \in Job
      BY DEF Nobody, Job
    <3>2. saves \in 0..MaxSaves
      BY CachesAssumption DEF CachesInit
    <3>3. data = 0 /\ told = 0
      BY DEF CachesInit
    <3>4. told \in 0..data
      BY <3>3
    <3>5. met \in BOOLEAN
      BY DEF CachesInit
    <3> QED
      BY <3>1, <3>2, <3>3, <3>4, <3>5 DEF CachesInit, CacheTypes
  <2>3. VersionsSuffice
    BY <2>1, FS_EmptySet DEF CachesInit, VersionsSuffice
  <2> QED
    BY <2>1, <2>2, <2>3 DEF CachesInit, CacheInv, OneSets, NoneLater, CurrentIsFresh, Nobody
<1>2. CacheInv => OverviewIsFresh
  BY DEF CacheInv, CurrentIsFresh, OverviewIsFresh, KeyOf
<1> QED
  BY <1>1, <1>2, CachesStep, PTL DEF CachesSpec

(***************************************************************************)
(* SetupLists: the cached list of a lookup is fresh.                       *)
(***************************************************************************)

(* Every page that stores, saves or deletes the lists is about a table.       *)
ListTypes ==
  /\ DOMAIN table = Tables /\ DOMAIN list = Tables /\ DOMAIN late = Tables
  /\ DOMAIN untold = Tables /\ DOMAIN page = Servers
  /\ \A p \in Servers : page[p].op \in {"store", "save", "clear"} => page[p].of \in Tables
  /\ \A p \in Servers : page[p].op = "save" => page[p].empties \in BOOLEAN

(* What a page that has changed a row does next.                              *)
LEMMA ChangedPage ==
  ASSUME ListTypes, NEW p \in Servers, NEW t \in Tables, NEW r, NEW empties \in BOOLEAN,
         Changed(p, t, r, empties)
  PROVE  /\ DOMAIN page' = Servers /\ \A q \in Servers \ {p} : page'[q] = page[q]
         /\ page'[p].op \in {"idle", "clear"} /\ (page'[p].op = "clear" => page'[p].of = t)
         /\ empties => page'[p].op = "clear"
         /\ untold' = [untold EXCEPT ![t] = @ \/ ~empties]
BY DEF Changed, ListTypes, AtRest

LEMMA ListTypesInvariant == SetupSpec => []ListTypes
<1>1. SetupInit => ListTypes
  BY DEF SetupInit, ListTypes, AtRest
<1>2. ListTypes /\ [SetupNext]_setupVars => ListTypes'
  <2> SUFFICES ASSUME ListTypes, [SetupNext]_setupVars PROVE ListTypes'
    OBVIOUS
  <2> USE DEF ListTypes
  <2>0. Lookups \subseteq Tables /\ Units \subseteq Tables
    BY DEF Tables
  <2>1. ASSUME NEW p \in Servers, StoreList(p) \/ SaveRow(p) \/ ClearLists(p) \/ WorkerDies(p)
        PROVE  ListTypes'
    <3>1. CASE StoreList(p)
      BY <3>1 DEF StoreList, AtRest
    <3>2. CASE ClearLists(p)
      BY <3>2 DEF ClearLists, AtRest
    <3>3. CASE WorkerDies(p)
      BY <3>3 DEF WorkerDies, AtRest
    <3>4. CASE SaveRow(p)
      <4>1. DOMAIN table' = Tables /\ UNCHANGED <<list, late>> /\ page[p].of \in Tables
        BY <3>4 DEF SaveRow
      <4>2. CASE page' = [page EXCEPT ![p] = AtRest] /\ UNCHANGED untold
        BY <4>1, <4>2 DEF AtRest
      <4>3. ASSUME NEW q, Changed(p, page[p].of, q, page[p].empties) PROVE ListTypes'
        BY <4>1, <4>3 DEF Changed, AtRest
      <4> QED
        BY <3>4, <4>2, <4>3 DEF SaveRow
    <3> QED
      BY <2>1, <3>1, <3>2, <3>3, <3>4
  <2>2. ASSUME NEW p \in Servers, NEW t \in Tables, ReadList(p, t) PROVE ListTypes'
    BY <2>2 DEF ReadList
  <2>3. ASSUME NEW p \in Servers, NEW t \in Tables, NEW r \in Rows, NEW empties \in BOOLEAN,
               RemoveRow(p, t, r, empties)
        PROVE  ListTypes'
    <3>1. DOMAIN table' = Tables /\ UNCHANGED <<list, late>> /\ Changed(p, t, r, empties)
      BY <2>3 DEF RemoveRow
    <3> QED
      BY <3>1, ChangedPage
  <2>4. ASSUME NEW p \in Servers, NEW t \in Tables, NEW r \in Rows, NEW v, NEW empties \in BOOLEAN,
               CheckRow(p, t, r, v, empties)
        PROVE  ListTypes'
    BY <2>4 DEF CheckRow
  <2>5. ASSUME NEW t \in Tables, ExpireList(t) PROVE ListTypes'
    BY <2>5 DEF ExpireList
  <2>6. CASE FixSwapped
    BY <2>6 DEF FixSwapped
  <2> QED
    BY <2>0, <2>1, <2>2, <2>3, <2>4, <2>5, <2>6
       DEF SetupNext, LookupForm, UnitForm, AdminForm, setupVars
<1> QED
  BY <1>1, <1>2, PTL DEF SetupSpec

(* A step that, for each lookup, leaves its rows and the excuses alone or     *)
(* gives one of them, and stores nothing that is not current or late.         *)
LEMMA ListsStayFresh ==
  ASSUME ListTypes, ListIsFresh,
         \A t \in Lookups :
           \/ Clearing(t)' \/ untold'[t]
           \/ table'[t] = table[t] /\ ~Clearing(t) /\ ~untold[t],
         \A t \in Lookups : list'[t] = NoEntry \/ (list'[t] = list[t] /\ late'[t] = late[t])
  PROVE  ListIsFresh'
<1>1. ASSUME NEW t \in Lookups, NEW l, table'[t] = table[t] PROVE Current(t, l)' <=> Current(t, l)
  BY <1>1 DEF Current, Listing, Undeleted, InUse, There
<1>2. SUFFICES ASSUME NEW t \in Lookups, ~Clearing(t)', ~untold'[t], list'[t] # NoEntry, ~late'[t]
               PROVE  Current(t, list[t])'
  BY DEF ListIsFresh
<1>3. table'[t] = table[t] /\ list'[t] = list[t] /\ Current(t, list[t])
  BY <1>2 DEF ListIsFresh
<1> QED
  BY <1>1, <1>3

(* Changing the rows of one table leaves the other lookups as they were, and  *)
(* is followed by the deletion of the lists or leaves the change untold.      *)
LEMMA ChangeIsTold ==
  ASSUME ListTypes, ListIsFresh, NEW p \in Servers, NEW t \in Tables, NEW r, NEW empties \in BOOLEAN,
         Changed(p, t, r, empties), page[p].op # "clear",
         \A u \in Tables \ {t} : table'[u] = table[u],
         UNCHANGED <<list, late>>
  PROVE  ListIsFresh'
<1>0. Lookups \subseteq Tables /\ \A u \in Tables : untold[u] => untold'[u]
  BY DEF Tables, ListTypes, Changed
<1>2. untold'[t] \/ (page'[p].op = "clear" /\ page'[p].of = t)
  <2>1. CASE empties
    BY <2>1 DEF ListTypes, Changed
  <2>2. CASE ~empties
    BY <2>2 DEF ListTypes, Changed
  <2> QED
    BY <2>1, <2>2
<1>1. ASSUME NEW u \in Lookups
      PROVE  \/ Clearing(u)' \/ untold'[u]
             \/ table'[u] = table[u] /\ ~Clearing(u) /\ ~untold[u]
  <2>1. Clearing(u) => Clearing(u)'
    BY ChangedPage DEF Clearing
  <2>2. CASE u = t
    BY <1>2, <2>2 DEF Clearing
  <2>3. CASE u # t
    BY <1>0, <2>1, <2>3
  <2> QED
    BY <2>2, <2>3
<1> QED
  BY <1>1, ListsStayFresh

(* The cached list of a lookup is the one a page would compute now, unless    *)
(* its deletion is still to come, a page stored it late, or a row was saved   *)
(* since by the admin or a worker that died: for any number of tables, rows   *)
(* and servers.                                                               *)
THEOREM ListsAreFresh == SetupSpec => []ListIsFresh
<1>1. SetupInit => ListIsFresh
  BY DEF SetupInit, ListIsFresh, Tables
<1>2. ListTypes /\ ListTypes' /\ ListIsFresh /\ [SetupNext]_setupVars => ListIsFresh'
  <2> SUFFICES ASSUME ListTypes, ListTypes', ListIsFresh, [SetupNext]_setupVars PROVE ListIsFresh'
    OBVIOUS
  <2> USE DEF ListTypes
  <2>0. Lookups \subseteq Tables /\ Units \subseteq Tables /\ Lookups \cap Units = {}
    BY SetupAssumption DEF Tables
  <2>1. ASSUME NEW p \in Servers, StoreList(p) PROVE ListIsFresh'
    <3> DEFINE s == page[p].of
    <3>1. s \in Tables /\ UNCHANGED table /\ \A q \in Servers \ {p} : page'[q] = page[q]
      BY <2>1 DEF StoreList
    <3>2. \A t \in Tables : \A l : Current(t, l)' <=> Current(t, l)
      BY <3>1 DEF Current, Listing, Undeleted, InUse, There
    <3>3. \A t : Clearing(t) => Clearing(t)'
      BY <2>1, <3>1 DEF StoreList, Clearing
    <3>4. ASSUME NEW t \in Lookups, t # s
          PROVE  list'[t] = list[t] /\ late'[t] = late[t] /\ untold'[t] = untold[t]
      BY <2>0, <2>1, <3>4 DEF StoreList
    <3>5. list'[s] = page[p].seen /\ late'[s] = ~Current(s, page[p].seen)
      BY <2>1, <3>1 DEF StoreList
    <3> HIDE DEF s
    <3> QED
      BY <2>0, <3>2, <3>3, <3>4, <3>5 DEF ListIsFresh
  <2>2. ASSUME NEW p \in Servers, SaveRow(p) PROVE ListIsFresh'
    <3>1. UNCHANGED <<list, late>> /\ page[p].of \in Tables /\ page[p].op = "save"
      BY <2>2 DEF SaveRow
    <3>2. CASE page' = [page EXCEPT ![p] = AtRest] /\ UNCHANGED <<table, untold, changes>>
      <4>1. \A t : Clearing(t) => Clearing(t)'
        BY <3>1, <3>2 DEF Clearing
      <4> QED
        BY <3>1, <3>2, <4>1, ListsStayFresh
    <3>3. ASSUME NEW q, table' = [table EXCEPT ![page[p].of][q] = page[p].value],
                 Changed(p, page[p].of, q, page[p].empties)
          PROVE  ListIsFresh'
      <4>1. \A u \in Tables \ {page[p].of} : table'[u] = table[u]
        BY <3>3
      <4> QED
        BY <3>1, <3>3, <4>1, ChangeIsTold
    <3> QED
      BY <2>2, <3>2, <3>3 DEF SaveRow
  <2>3. ASSUME NEW p \in Servers, ClearLists(p) PROVE ListIsFresh'
    BY <2>0, <2>3 DEF ClearLists, ListIsFresh
  <2>4. ASSUME NEW p \in Servers, NEW t \in Tables, ReadList(p, t) PROVE ListIsFresh'
    <3>1. \A u : Clearing(u) => Clearing(u)'
      BY <2>4 DEF ReadList, Clearing, AtRest
    <3> QED
      BY <2>4, <3>1, ListsStayFresh DEF ReadList
  <2>5. ASSUME NEW p \in Servers, NEW t \in Tables, NEW r \in Rows, NEW empties \in BOOLEAN,
               RemoveRow(p, t, r, empties)
        PROVE  ListIsFresh'
    BY <2>5, ChangeIsTold DEF RemoveRow, AtRest
  <2>6. ASSUME NEW p \in Servers, NEW t \in Tables, NEW r \in Rows, NEW v, NEW empties \in BOOLEAN,
               CheckRow(p, t, r, v, empties)
        PROVE  ListIsFresh'
    <3>1. \A u : Clearing(u) => Clearing(u)'
      BY <2>6 DEF CheckRow, Clearing, AtRest
    <3> QED
      BY <2>6, <3>1, ListsStayFresh DEF CheckRow
  <2>7. ASSUME NEW t \in Tables, ExpireList(t) PROVE ListIsFresh'
    <3>1. UNCHANGED <<table, page, untold>> /\ \A u : Clearing(u)' = Clearing(u)
      BY <2>7 DEF ExpireList, Clearing
    <3>2. \A u \in Tables : list'[u] = NoEntry \/ (list'[u] = list[u] /\ late'[u] = late[u])
      BY <2>7 DEF ExpireList
    <3> QED
      BY <2>0, <3>1, <3>2, ListsStayFresh
  <2>8. CASE FixSwapped
    <3>1. \A t \in Lookups : table'[t] = table[t] /\ (untold[t] => untold'[t])
      BY <2>0, <2>8 DEF FixSwapped
    <3>2. \A t \in Lookups : Clearing(t)' = Clearing(t)
      BY <2>8 DEF FixSwapped, Clearing
    <3> QED
      BY <2>8, <3>1, <3>2, ListsStayFresh DEF FixSwapped
  <2>9. ASSUME NEW p \in Servers, WorkerDies(p) PROVE ListIsFresh'
    <3>1. UNCHANGED <<table, list, late>> /\ \A t \in Tables : untold[t] => untold'[t]
      BY <2>9 DEF WorkerDies
    <3>2. \A t \in Tables : Clearing(t) => Clearing(t)' \/ untold'[t]
      BY <2>9 DEF WorkerDies, Clearing
    <3> QED
      BY <2>0, <3>1, <3>2, ListsStayFresh
  <2>10. CASE UNCHANGED setupVars
    BY <2>10, ListsStayFresh DEF setupVars, Clearing
  <2> QED
    BY <2>0, <2>1, <2>2, <2>3, <2>4, <2>5, <2>6, <2>7, <2>8, <2>9, <2>10
       DEF SetupNext, LookupForm, UnitForm, AdminForm
<1> QED
  BY <1>1, <1>2, ListTypesInvariant, PTL DEF SetupSpec

(***************************************************************************)
(* OperationsReport: once a day, and once more for each mishap.            *)
(***************************************************************************)

Works(j) == work[j] # Resting
One(b) == IF b THEN 1 ELSE 0
JobOfReport == {Resting} \cup [at : {"roles", "all"}, since : Time, left : SUBSET Roles, sent : BOOLEAN]
Past(x) == x = Never \/ x.day < clock.day \/ (x.day = clock.day /\ x.minute <= clock.minute)

(* Today's report is recorded for a minute that is not before its time, so    *)
(* that it is not due again; a role may still get it from a process.          *)
Served == SentOn(clock.day) /\ lastSent.minute >= sendAt
MayGet(j, r) == r \in work[j].left \/ (work[j].at = "roles" /\ ~work[j].sent)

ReportTypes ==
  /\ clock \in Time /\ ticked \in BOOLEAN /\ sendAt \in 0..(Minutes - 1)
  /\ lastSent \in Time \cup {Never} /\ (form # NoForm => form.last \in Time \cup {Never})
  /\ work \in [Jobs -> JobOfReport] /\ hasData \subseteq Roles
  /\ received \in [Roles -> Nat] /\ mishaps \in Nat

OneProcess ==
  /\ Past(lastSent) /\ (form # NoForm => Past(form.last))
  /\ \A j \in Jobs : Works(j) =>
       ticked /\ work[j].since = clock /\ \A k \in Jobs : Works(k) => k = j

(* The mishaps pay for every report but one; a loaded form has paid for what  *)
(* saving it may undo.                                                        *)
MishapsPay ==
  /\ (\A j \in Jobs : ~Works(j)) =>
       \A r \in Roles : received[r] + One(form # NoForm) <= mishaps + One(Served)
  /\ \A j \in Jobs : Works(j) => \A r \in Roles :
       /\ received[r] + One(MayGet(j, r)) + One(form # NoForm)
            <= mishaps + One(clock.minute >= sendAt)
       /\ ~work[j].sent => received[r] + One(form # NoForm) <= mishaps

ReportInv == ReportTypes /\ OneProcess /\ MishapsPay

LEMMA TimeIsNat ==
  /\ \A x \in Time : x.day \in Nat /\ x.minute \in Nat
  /\ \A x, y \in Time : x.day = y.day /\ x.minute = y.minute => x = y
  /\ Never \notin Time /\ Minutes \in Nat \ {0} /\ sendAt \in 0..(Minutes - 1) => sendAt \in Nat
BY ReportAssumption DEF Time

LEMMA ReportTypesStep ==
  ASSUME ReportTypes, [ReportNext(FALSE)]_reportVars
  PROVE  ReportTypes'
<1> USE DEF ReportTypes
<1>0. Resting \in JobOfReport /\ Minutes \in Nat \ {0} /\ LastReportDay \in Nat
  BY ReportAssumption DEF JobOfReport
<1>1. CASE Tick(FALSE)
  <2>1. clock' \in Time
    BY <1>0, <1>1 DEF Tick, Time
  <2>2. received' \in [Roles -> Nat] /\ mishaps' \in Nat /\ hasData' \subseteq Roles
    BY <1>1 DEF Tick
  <2> QED
    BY <1>1, <2>1, <2>2 DEF Tick
<1>2. CASE CronSkips
  BY <1>2 DEF CronSkips
<1>3. CASE LoadSettings
  BY <1>3 DEF LoadSettings
<1>4. ASSUME NEW minute \in 0..(Minutes - 1), SaveSettings(minute) PROVE ReportTypes'
  BY <1>4 DEF SaveSettings
<1>5. ASSUME NEW j \in Jobs, CronStarts(j) PROVE ReportTypes'
  <2>1. [at |-> "roles", since |-> clock, left |-> hasData, sent |-> FALSE] \in JobOfReport
    BY DEF JobOfReport
  <2> QED
    BY <1>5, <2>1 DEF CronStarts
<1>6. ASSUME NEW j \in Jobs, SendToAll(j) PROVE ReportTypes'
  <2>1. PICK all \in {{}, Roles} : work' = [work EXCEPT ![j] = [@ EXCEPT !.at = "all", !.left = all]]
    BY <1>6 DEF SendToAll
  <2>2. [work[j] EXCEPT !.at = "all", !.left = all] \in JobOfReport
    BY <1>6 DEF SendToAll, JobOfReport
  <2> QED
    BY <1>6, <2>1, <2>2 DEF SendToAll
<1>7. ASSUME NEW j \in Jobs, Finish(j) PROVE ReportTypes'
  <2>1. lastSent' \in Time \cup {Never}
    BY <1>7 DEF Finish, Recorded, JobOfReport
  <2> QED
    BY <1>0, <1>7, <2>1 DEF Finish
<1>8. ASSUME NEW j \in Jobs, Dies(j) PROVE ReportTypes'
  BY <1>0, <1>8 DEF Dies
<1>9. ASSUME NEW j \in Jobs, NEW r \in Roles, NEW ok \in BOOLEAN, Deliver(j, r, ok) PROVE ReportTypes'
  <2>1. work' = [work EXCEPT ![j] = [work[j] EXCEPT !.left = work[j].left \ {r}, !.sent = work[j].sent \/ ok]]
    BY <1>9 DEF Deliver
  <2>2. work[j].left \in SUBSET Roles /\ work[j].sent \in BOOLEAN /\ work[j] \in
          [at : {"roles", "all"}, since : Time, left : SUBSET Roles, sent : BOOLEAN]
    BY <1>9 DEF Deliver, JobOfReport
  <2>3. (work[j].sent \/ ok) \in BOOLEAN
    BY <2>2
  <2>4. [work[j] EXCEPT !.left = work[j].left \ {r}, !.sent = work[j].sent \/ ok] \in JobOfReport
    BY <2>2, <2>3 DEF JobOfReport
  <2>5. received' \in [Roles -> Nat]
    BY <1>9 DEF Deliver
  <2> QED
    BY <1>9, <2>1, <2>4, <2>5 DEF Deliver
<1>10. CASE UNCHANGED reportVars
  BY <1>10 DEF reportVars
<1> QED
  BY <1>1, <1>2, <1>3, <1>4, <1>5, <1>6, <1>7, <1>8, <1>9, <1>10 DEF ReportNext

(* A report that is recorded and not before its time is not due.              *)
LEMMA ServedIsNotDue ==
  ASSUME ReportTypes, OneProcess, ReportDue
  PROVE  ~Served /\ clock.minute >= sendAt
<1>1. clock \in Time /\ sendAt \in Nat /\ clock.minute \in Nat
  BY ReportAssumption DEF ReportTypes, Time
<1>2. clock.minute >= sendAt
  BY <1>1 DEF ReportDue
<1>3. SUFFICES ASSUME Served PROVE FALSE
  BY <1>2
<1>4. lastSent # Never /\ lastSent.day = clock.day /\ lastSent.minute >= sendAt /\ lastSent \in Time
  BY <1>3 DEF Served, SentOn, ReportTypes
<1>5. clock.minute = sendAt /\ lastSent # clock
  BY <1>1, <1>3, <1>4 DEF ReportDue, Served
<1>6. lastSent.minute <= clock.minute /\ lastSent.minute \in Nat
  BY <1>1, <1>4, TimeIsNat DEF OneProcess, Past
<1>7. lastSent.minute = clock.minute
  BY <1>1, <1>4, <1>5, <1>6
<1> QED
  BY <1>1, <1>4, <1>5, <1>7, TimeIsNat

LEMMA OneProcessStep ==
  ASSUME ReportTypes, OneProcess, [ReportNext(FALSE)]_reportVars
  PROVE  OneProcess'
<1> USE DEF OneProcess, ReportTypes
<1>1. CASE Tick(FALSE)
  <2>1. \A j \in Jobs : ~Works(j) /\ ~Works(j)'
    BY <1>1 DEF Tick, Works
  <2>2. \A x \in Time \cup {Never} : Past(x) => Past(x)'
    <3> SUFFICES ASSUME NEW x \in Time, Past(x), x # Never PROVE Past(x)'
      BY DEF Past
    <3>1. x.day \in Nat /\ x.minute \in Nat /\ clock.day \in Nat /\ clock.minute \in Nat
      BY TimeIsNat
    <3>2. \/ clock'.day = clock.day /\ clock'.minute = clock.minute + 1
          \/ clock'.day = clock.day + 1
      BY <1>1 DEF Tick, Time
    <3> QED
      BY <3>1, <3>2 DEF Past
  <2> QED
    BY <1>1, <2>1, <2>2 DEF Tick
<1>2. ASSUME UNCHANGED <<clock, lastSent, form>>, ticked => ticked', NEW j \in Jobs,
             \A k \in Jobs \ {j} : work'[k] = work[k],
             Works(j)' => Works(j) /\ work'[j].since = work[j].since
      PROVE  OneProcess'
  BY <1>2 DEF Past, Works
<1>3. CASE CronSkips
  BY <1>3 DEF CronSkips, Past, Works
<1>4. CASE LoadSettings
  BY <1>4 DEF LoadSettings, Past, Works
<1>5. ASSUME NEW minute \in 0..(Minutes - 1), SaveSettings(minute) PROVE OneProcess'
  BY <1>5 DEF SaveSettings, Past, Works
<1>6. ASSUME NEW j \in Jobs, CronStarts(j) PROVE OneProcess'
  <2>1. \A k \in Jobs : ~Works(k)
    BY <1>6 DEF CronStarts
  <2>2. work'[j].since = clock /\ \A k \in Jobs \ {j} : work'[k] = work[k]
    BY <1>6 DEF CronStarts
  <2> QED
    BY <1>6, <2>1, <2>2 DEF CronStarts, Past, Works
<1>7. ASSUME NEW j \in Jobs, SendToAll(j) PROVE OneProcess'
  <2>1. \A k \in Jobs \ {j} : work'[k] = work[k]
    BY <1>7 DEF SendToAll
  <2>2. Works(j) /\ work'[j].since = work[j].since
    BY <1>7 DEF SendToAll, Works, JobOfReport
  <2> QED
    BY <1>2, <1>7, <2>1, <2>2 DEF SendToAll
<1>8. ASSUME NEW j \in Jobs, Finish(j) PROVE OneProcess'
  <2>1. \A k \in Jobs : ~Works(k)'
    BY <1>8 DEF Finish, Works
  <2>2. Past(lastSent)'
    <3>1. lastSent' = clock \/ lastSent' = lastSent
      BY <1>8 DEF Finish, Recorded, Works
    <3> QED
      BY <1>8, <3>1, TimeIsNat DEF Finish, Past
  <2>3. form' # NoForm => Past(form.last)'
    BY <1>8 DEF Finish, Past
  <2> QED
    BY <2>1, <2>2, <2>3
<1>9. ASSUME NEW j \in Jobs, Dies(j) PROVE OneProcess'
  <2>1. \A k \in Jobs \ {j} : work'[k] = work[k]
    BY <1>9 DEF Dies
  <2>2. ~Works(j)'
    BY <1>9 DEF Dies, Works
  <2> QED
    BY <1>2, <1>9, <2>1, <2>2 DEF Dies
<1>10. ASSUME NEW j \in Jobs, NEW r \in Roles, NEW ok \in BOOLEAN, Deliver(j, r, ok) PROVE OneProcess'
  <2>1. \A k \in Jobs \ {j} : work'[k] = work[k]
    BY <1>10 DEF Deliver
  <2>2. Works(j) /\ work'[j].since = work[j].since
    BY <1>10 DEF Deliver, Works, JobOfReport
  <2> QED
    BY <1>2, <1>10, <2>1, <2>2 DEF Deliver
<1>11. CASE UNCHANGED reportVars
  BY <1>11 DEF reportVars, Past, Works
<1> QED
  BY <1>1, <1>3, <1>4, <1>5, <1>6, <1>7, <1>8, <1>9, <1>10, <1>11 DEF ReportNext

(* What a working process still owes, whoever works.                          *)
Paid(j, r) ==
  /\ received[r] + One(MayGet(j, r)) + One(form # NoForm)
       <= mishaps + One(clock.minute >= sendAt)
  /\ ~work[j].sent => received[r] + One(form # NoForm) <= mishaps

LEMMA OneOf == \A b : One(b) \in 0..1 /\ (b => One(b) = 1) /\ (~b => One(b) = 0)
BY DEF One

LEMMA MishapsPayStep ==
  ASSUME ReportTypes, OneProcess, MishapsPay, [ReportNext(FALSE)]_reportVars
  PROVE  MishapsPay'
<1>0. /\ \A r \in Roles : received[r] \in Nat
      /\ mishaps \in Nat /\ sendAt \in Nat
      /\ clock.minute \in Nat /\ clock.day \in Nat
  BY ReportAssumption DEF ReportTypes, Time
<1>a. ASSUME NEW j \in Jobs, Works(j), NEW r \in Roles PROVE Paid(j, r)
  BY <1>a DEF MishapsPay, Paid
<1>b. ASSUME \A j \in Jobs : ~Works(j), NEW r \in Roles
      PROVE  received[r] + One(form # NoForm) <= mishaps + One(Served)
  BY <1>b DEF MishapsPay
<1>1. CASE Tick(FALSE)
  <2>1. \A j \in Jobs : ~Works(j) /\ ~Works(j)'
    BY <1>1 DEF Tick, Works
  <2>2. SUFFICES ASSUME NEW r \in Roles
                 PROVE  (received[r] + One(form # NoForm) <= mishaps + One(Served))'
    BY <2>1 DEF MishapsPay
  <2>3. CASE clock' = [clock EXCEPT !.minute = @ + 1] /\ UNCHANGED <<received, mishaps>>
    <3>1. Served' = Served /\ form' = form
      BY <1>1, <2>3 DEF Tick, Served, SentOn, ReportTypes, Time
    <3> QED
      BY <1>b, <2>1, <2>3, <3>1
  <2>4. CASE form = NoForm /\ received' = [x \in Roles |-> 0] /\ mishaps' = 0
    <3>1. form' = NoForm /\ received'[r] = 0
      BY <1>1, <2>4 DEF Tick
    <3> QED
      BY <2>4, <3>1, OneOf, One(form' # NoForm) = 0, One(Served') \in 0..1
  <2> QED
    BY <1>1, <2>3, <2>4 DEF Tick
<1>2. CASE CronSkips
  <2>1. \A j \in Jobs : ~Works(j) /\ ~Works(j)'
    BY <1>2 DEF CronSkips, Works, OneProcess
  <2>2. Served' = Served /\ form' = form /\ received' = received /\ mishaps' >= mishaps /\ mishaps' \in Nat
    BY <1>0, <1>2 DEF CronSkips, Served, SentOn
  <2>3. One(Served) \in Nat /\ One(form # NoForm) \in Nat
    BY OneOf
  <2> QED
    BY <1>0, <1>b, <2>1, <2>2, <2>3 DEF MishapsPay
<1>3. CASE LoadSettings
  <2>1. form = NoForm /\ mishaps' = mishaps + 1
    BY <1>3 DEF LoadSettings
  <2>2. UNCHANGED <<clock, sendAt, lastSent, work, received>>
    BY <1>3 DEF LoadSettings
  <2>3. One(form # NoForm) = 0 /\ One(form' # NoForm) \in 0..1
    BY <2>1, OneOf
  <2>4. /\ Served' = Served /\ One(Served) \in 0..1
        /\ One(clock.minute >= sendAt) \in 0..1 /\ One(clock'.minute >= sendAt') = One(clock.minute >= sendAt)
        /\ \A j \in Jobs : Works(j)' = Works(j) /\ \A r \in Roles :
              MayGet(j, r)' = MayGet(j, r) /\ One(MayGet(j, r)) \in 0..1
    BY <2>2, OneOf DEF Served, SentOn, Works, MayGet
  <2>5. ASSUME NEW j \in Jobs, Works(j), NEW r \in Roles PROVE Paid(j, r)'
    BY <1>0, <1>a, <2>1, <2>2, <2>3, <2>4, <2>5 DEF Paid
  <2>6. ASSUME \A j \in Jobs : ~Works(j), NEW r \in Roles
        PROVE  (received[r] + One(form # NoForm) <= mishaps + One(Served))'
    BY <1>0, <1>b, <2>1, <2>2, <2>3, <2>4, <2>6
  <2> QED
    BY <2>4, <2>5, <2>6 DEF MishapsPay, Paid
<1>c. \A b : One(b) \in 0..1 /\ (b => One(b) = 1) /\ (~b => One(b) = 0)
  BY OneOf
<1>4. ASSUME NEW minute \in 0..(Minutes - 1), SaveSettings(minute) PROVE MishapsPay'
  <2>1. form # NoForm /\ form' = NoForm /\ UNCHANGED <<clock, work, received, mishaps>>
    BY <1>4 DEF SaveSettings
  <2>2. One(form # NoForm) = 1 /\ One(form' # NoForm) = 0
    BY <1>c, <2>1
  <2>3. /\ One(Served) \in 0..1 /\ One(Served') \in 0..1
        /\ One(clock.minute >= sendAt) \in 0..1 /\ One(clock'.minute >= sendAt') \in 0..1
        /\ \A j \in Jobs : Works(j)' = Works(j) /\ \A r \in Roles :
              MayGet(j, r)' = MayGet(j, r) /\ One(MayGet(j, r)) \in 0..1
    BY <1>c, <2>1 DEF Works, MayGet
  <2>5. ASSUME NEW j \in Jobs, Works(j), NEW r \in Roles PROVE Paid(j, r)'
    BY <1>0, <1>a, <2>1, <2>2, <2>3, <2>5 DEF Paid
  <2>6. ASSUME \A j \in Jobs : ~Works(j), NEW r \in Roles
        PROVE  (received[r] + One(form # NoForm) <= mishaps + One(Served))'
    BY <1>0, <1>b, <2>1, <2>2, <2>3, <2>6
  <2> QED
    BY <2>3, <2>5, <2>6 DEF MishapsPay, Paid
(* The actions of the process that works or starts.                           *)
<1>5. ASSUME NEW j \in Jobs, \A k \in Jobs \ {j} : ~Works(k)', Works(j)',
             \A r \in Roles : Paid(j, r)'
      PROVE  MishapsPay'
  BY <1>5 DEF MishapsPay, Paid
<1>6. ASSUME NEW j \in Jobs, \A k \in Jobs : ~Works(k)',
             \A r \in Roles : (received[r] + One(form # NoForm) <= mishaps + One(Served))'
      PROVE  MishapsPay'
  BY <1>6 DEF MishapsPay
<1>7. ASSUME NEW j \in Jobs, CronStarts(j) PROVE MishapsPay'
  <2>1. \A k \in Jobs : ~Works(k)
    BY <1>7 DEF CronStarts, OneProcess
  <2>2. work'[j] = [at |-> "roles", since |-> clock, left |-> hasData, sent |-> FALSE]
        /\ \A k \in Jobs \ {j} : work'[k] = work[k]
    BY <1>7 DEF CronStarts, ReportTypes
  <2>3. Works(j)' /\ ~work'[j].sent /\ \A k \in Jobs \ {j} : ~Works(k)'
    BY <2>1, <2>2 DEF Works, Resting
  <2>4. ~Served /\ clock.minute >= sendAt
    BY <1>7, ServedIsNotDue DEF CronStarts
  <2>5. ASSUME NEW r \in Roles PROVE Paid(j, r)'
    <3>1. UNCHANGED <<clock, sendAt, lastSent, form, received, mishaps>>
      BY <1>7 DEF CronStarts
    <3>2. received[r] + One(form # NoForm) <= mishaps + 0
      BY <1>b, <1>c, <2>1, <2>4
    <3>3. One(clock'.minute >= sendAt') = 1 /\ One(MayGet(j, r)') \in 0..1
          /\ One(form # NoForm) \in 0..1 /\ One(form' # NoForm) = One(form # NoForm)
      BY <1>c, <2>4, <3>1
    <3> QED
      BY <1>0, <3>1, <3>2, <3>3 DEF Paid
  <2> QED
    BY <1>5, <2>3, <2>5
<1>8. ASSUME NEW j \in Jobs, SendToAll(j) PROVE MishapsPay'
  <2>1. Works(j) /\ \A k \in Jobs \ {j} : ~Works(k) /\ work'[k] = work[k]
    <3>1. Works(j) /\ \A k \in Jobs \ {j} : work'[k] = work[k]
      BY <1>8 DEF SendToAll, Works, ReportTypes
    <3> QED
      BY <3>1 DEF OneProcess
  <2>2. /\ work[j].at = "roles" /\ ~work[j].sent
        /\ Works(j)' /\ work'[j].at = "all" /\ work'[j].sent = work[j].sent
    <3>1. work[j] \in [at : {"roles", "all"}, since : Time, left : SUBSET Roles, sent : BOOLEAN]
      BY <2>1 DEF ReportTypes, JobOfReport, Works
    <3>2. PICK all \in {{}, Roles} : work' = [work EXCEPT ![j] = [work[j] EXCEPT !.at = "all", !.left = all]]
      BY <1>8 DEF SendToAll
    <3>3. work'[j] = [work[j] EXCEPT !.at = "all", !.left = all]
      BY <3>2 DEF ReportTypes
    <3> QED
      BY <1>8, <3>1, <3>3 DEF SendToAll, Works, Resting
  <2>3. ASSUME NEW r \in Roles PROVE Paid(j, r)'
    <3>1. UNCHANGED <<clock, sendAt, lastSent, form, received, mishaps>>
      BY <1>8 DEF SendToAll
    <3>2. One(MayGet(j, r)) = 1 /\ One(MayGet(j, r)') \in 0..1
          /\ One(form # NoForm) \in 0..1 /\ One(clock.minute >= sendAt) \in 0..1
      BY <1>c, <2>2 DEF MayGet
    <3> QED
      BY <1>0, <1>a, <2>1, <2>2, <3>1, <3>2 DEF Paid
  <2> QED
    BY <1>5, <2>1, <2>2, <2>3 DEF Works
<1>9. ASSUME NEW j \in Jobs, Finish(j) PROVE MishapsPay'
  <2>1. Works(j) /\ \A k \in Jobs : ~Works(k)'
    BY <1>9 DEF Finish, OneProcess, Works, ReportTypes
  <2>2. ASSUME NEW r \in Roles
        PROVE  (received[r] + One(form # NoForm) <= mishaps + One(Served))'
    <3>1. UNCHANGED <<clock, sendAt, form, received, mishaps>>
      BY <1>9 DEF Finish
    <3>2. One(Served') \in 0..1 /\ One(form # NoForm) \in 0..1 /\ One(MayGet(j, r)) \in 0..1
      BY <1>c
    <3>3. CASE work[j].sent
      <4>1. lastSent' = clock /\ clock # Never
        <5>1. work[j].since = clock
          BY <2>1 DEF OneProcess
        <5>2. clock # Never
          BY ReportAssumption DEF ReportTypes
        <5> QED
          BY <1>9, <3>3, <5>1, <5>2 DEF Finish, Recorded
      <4>2. Served' = (clock.minute >= sendAt)
        BY <3>1, <4>1 DEF Served, SentOn
      <4> QED
        BY <1>0, <1>a, <2>1, <3>1, <3>2, <4>2 DEF Paid
    <3> QED
      BY <1>0, <1>a, <2>1, <3>1, <3>2, <3>3 DEF Paid
  <2> QED
    BY <1>6, <2>1, <2>2
<1>10. ASSUME NEW j \in Jobs, Dies(j) PROVE MishapsPay'
  <2>1. Works(j) /\ \A k \in Jobs : ~Works(k)'
    BY <1>10 DEF Dies, OneProcess, Works, ReportTypes
  <2>2. ASSUME NEW r \in Roles
        PROVE  (received[r] + One(form # NoForm) <= mishaps + One(Served))'
    <3>1. UNCHANGED <<clock, sendAt, form, received>> /\ mishaps' = mishaps + 1
      BY <1>10 DEF Dies
    <3>2. One(Served') \in 0..1 /\ One(form # NoForm) \in 0..1 /\ One(MayGet(j, r)) \in 0..1
          /\ One(clock.minute >= sendAt) \in 0..1
      BY <1>c
    <3> QED
      BY <1>0, <1>a, <2>1, <3>1, <3>2 DEF Paid
  <2> QED
    BY <1>6, <2>1, <2>2
<1>11. ASSUME NEW j \in Jobs, NEW r \in Roles, NEW ok \in BOOLEAN, Deliver(j, r, ok) PROVE MishapsPay'
  <2>1. Works(j) /\ r \in work[j].left
        /\ \A k \in Jobs \ {j} : ~Works(k) /\ work'[k] = work[k]
    <3>1. Works(j) /\ r \in work[j].left /\ \A k \in Jobs \ {j} : work'[k] = work[k]
      BY <1>11 DEF Deliver, Works, ReportTypes
    <3> QED
      BY <3>1 DEF OneProcess
  <2>2. /\ Works(j)' /\ work'[j].at = work[j].at
        /\ work'[j].left = work[j].left \ {r}
        /\ work'[j].sent <=> (work[j].sent \/ ok)
    <3>1. work[j] \in [at : {"roles", "all"}, since : Time, left : SUBSET Roles, sent : BOOLEAN]
      BY <2>1 DEF ReportTypes, JobOfReport, Works
    <3>2. work'[j] = [work[j] EXCEPT !.left = work[j].left \ {r}, !.sent = work[j].sent \/ ok]
      BY <1>11 DEF Deliver, ReportTypes
    <3> QED
      BY <2>1, <3>1, <3>2 DEF Works, Resting
  <2>3. ASSUME NEW q \in Roles PROVE Paid(j, q)'
    <3>1. UNCHANGED <<clock, sendAt, lastSent, form, mishaps>>
      BY <1>11 DEF Deliver
    <3>2. /\ One(MayGet(j, q)) \in 0..1 /\ One(MayGet(j, q)') \in 0..1
          /\ One(form # NoForm) \in 0..1 /\ One(clock.minute >= sendAt) \in 0..1
          /\ (MayGet(j, q) => One(MayGet(j, q)) = 1) /\ (~MayGet(j, q)' => One(MayGet(j, q)') = 0)
      BY <1>c
    <3>3. Paid(j, q) /\ received[q] \in Nat
      BY <1>0, <1>a, <2>1
    <3>4. MayGet(j, q)' => MayGet(j, q)
      BY <2>2 DEF MayGet
    <3>5. CASE ok /\ q = r
      <4>1. received'[q] = received[q] + 1
        BY <1>11, <3>5 DEF Deliver, ReportTypes
      <4>2. MayGet(j, q) /\ ~MayGet(j, q)' /\ work'[j].sent
        BY <2>1, <2>2, <3>5 DEF MayGet
      <4> QED
        <5>1. One(MayGet(j, q)) = 1 /\ One(MayGet(j, q)') = 0
          BY <1>c, <4>2
        <5>2. received[q] + 1 + One(form # NoForm) <= mishaps + One(clock.minute >= sendAt)
          BY <3>3, <5>1 DEF Paid
        <5>3. /\ One(form' # NoForm) = One(form # NoForm)
              /\ One(clock'.minute >= sendAt') = One(clock.minute >= sendAt)
          BY <3>1
        <5> QED
          BY <1>0, <3>1, <3>2, <4>1, <4>2, <5>1, <5>2, <5>3 DEF Paid
    <3>6. CASE ~(ok /\ q = r)
      <4>1. received'[q] = received[q]
        BY <1>11, <3>6 DEF Deliver, ReportTypes
      <4> QED
        BY <1>0, <2>2, <3>1, <3>2, <3>3, <3>4, <4>1 DEF Paid
    <3> QED
      BY <3>5, <3>6
  <2> QED
    BY <1>5, <2>1, <2>2, <2>3 DEF Works
<1>12. CASE UNCHANGED reportVars
  BY <1>12 DEF reportVars, MishapsPay, Works, MayGet, Served, SentOn
<1> QED
  BY <1>1, <1>2, <1>3, <1>4, <1>7, <1>8, <1>9, <1>10, <1>11, <1>12 DEF ReportNext

(* With one process at a time no role gets more reports in a day than one and *)
(* one more for each time the process died or the settings were saved         *)
(* (scheduled_send_due; operations_report_settings).                          *)
THEOREM ReportOnceADay == ReportSpec => []OnceADay
<1>1. ReportInit => ReportInv
  <2> SUFFICES ASSUME ReportInit PROVE ReportInv
    OBVIOUS
  <2>1. ReportTypes
    <3>1. 0 \in 0..LastReportDay /\ 0 \in 0..(Minutes - 1)
      BY ReportAssumption
    <3>2. clock \in Time
      BY <3>1 DEF ReportInit, Time
    <3>3. work \in [Jobs -> JobOfReport]
      BY DEF ReportInit, JobOfReport
    <3>4. form = NoForm /\ received \in [Roles -> Nat] /\ mishaps \in Nat
      BY DEF ReportInit
    <3> QED
      BY <3>2, <3>3, <3>4 DEF ReportInit, ReportTypes
  <2>2. OneProcess
    BY DEF ReportInit, OneProcess, Past, Works
  <2>3. MishapsPay
    <3>1. \A j \in Jobs : ~Works(j)
      BY DEF ReportInit, Works
    <3>2. One(form # NoForm) = 0 /\ One(Served) \in 0..1
      BY OneOf DEF ReportInit
    <3> QED
      BY <3>1, <3>2 DEF ReportInit, MishapsPay
  <2> QED
    BY <2>1, <2>2, <2>3 DEF ReportInv
<1>2. ReportInv /\ [ReportNext(FALSE)]_reportVars => ReportInv'
  BY ReportTypesStep, OneProcessStep, MishapsPayStep DEF ReportInv
<1>3. ReportInv => OnceADay
  <2> SUFFICES ASSUME ReportInv, NEW r \in Roles PROVE received[r] <= 1 + mishaps
    BY DEF OnceADay
  <2>1. received[r] \in Nat /\ mishaps \in Nat
    BY DEF ReportInv, ReportTypes
  <2>2. One(form # NoForm) \in 0..1 /\ One(Served) \in 0..1 /\ One(clock.minute >= sendAt) \in 0..1
    BY OneOf
  <2>3. \A j \in Jobs : One(MayGet(j, r)) \in 0..1
    BY OneOf
  <2> QED
    BY <2>1, <2>2, <2>3 DEF ReportInv, MishapsPay
<1> QED
  BY <1>1, <1>2, <1>3, PTL DEF ReportSpec

(***************************************************************************)
(* Deployment: a migration is recoverable.                                 *)
(***************************************************************************)

DeployTypes ==
  /\ db \in Databases /\ dumps \subseteq Dumps /\ date \in 0..LastDate
  /\ release \in 1..LastRelease

(* What is about to be migrated has been copied, at each attempt.             *)
CopiedBefore ==
  stage = "apply" /\ BackupFirst /\ BackupRequired /\ Behind
    => \E d \in dumps : d.whole /\ d.of = db
DeployInv == DeployTypes /\ CopiedBefore

LEMMA DumpIsDump ==
  ASSUME DeployTypes, NEW place \in {"disk", "r2"}, NEW whole \in BOOLEAN
  PROVE  /\ Dump(place, whole) \in Dumps
         /\ Dump(place, whole).whole = whole /\ Dump(place, whole).of = db
BY DEF Dump, Dumps, DeployTypes

LEMMA DeployTypesInvariant == DeploySpec => []DeployTypes
<1>1. DeployInit => DeployTypes
  BY DeploymentAssumption DEF DeployInit, DeployTypes, Fresh, Databases
<1>2. DeployTypes /\ [DeployNext]_deployVars => DeployTypes'
  <2> SUFFICES ASSUME DeployTypes, [DeployNext]_deployVars PROVE DeployTypes'
    OBVIOUS
  <2>0. /\ \A up \in BOOLEAN : Copied(dumps, up) \subseteq Dumps
        /\ Dump("disk", FALSE) \in Dumps
    BY DumpIsDump DEF Copied, DeployTypes
  <2>1. \A m \in db.applied..release : UpTo(m) \in Databases
    <3> SUFFICES ASSUME NEW m \in db.applied..release PROVE UpTo(m) \in Databases
      OBVIOUS
    <3>1. m \in 0..LastRelease /\ (db.applied + 1)..m \subseteq 1..LastRelease
      BY DeploymentAssumption DEF DeployTypes, Databases
    <3> QED
      BY <3>1 DEF UpTo, DeployTypes, Databases
  <2>2. CASE BackupBeforeMigrate
    BY <2>0, <2>2 DEF BackupBeforeMigrate, DeployTypes
  <2>3. CASE ApplyMigrations
    <3>1. db' \in Databases
      <4>1. release \in db.applied..release \/ ~(db.applied <= release)
        BY DeploymentAssumption DEF DeployTypes, Databases
      <4>2. CASE release \in db.applied..release
        BY <2>1, <2>3, <4>2 DEF ApplyMigrations
      <4>3. CASE ~(db.applied <= release)
        <5>1. db.applied..release = {} /\ (db.applied + 1)..release = {} /\ release \in 0..LastRelease
          BY <4>3, DeploymentAssumption DEF DeployTypes, Databases
        <5>2. UpTo(release) \in Databases
          BY <5>1 DEF UpTo, DeployTypes, Databases
        <5> QED
          BY <2>3, <5>1, <5>2 DEF ApplyMigrations
      <4> QED
        BY <4>1, <4>2, <4>3
    <3> QED
      BY <2>3, <3>1 DEF ApplyMigrations, DeployTypes
  <2>4. CASE NextAttempt \/ CheckSettings \/ Restart
    BY <2>4 DEF NextAttempt, CheckSettings, Restart, DeployTypes
  <2>5. CASE InitialData
    <3>1. db' \in {db, [db EXCEPT !.entries = 0], [db EXCEPT !.entries = 1]}
      BY <2>5 DEF InitialData, Imported
    <3> QED
      BY <2>5, <3>1, DeploymentAssumption DEF InitialData, Databases, DeployTypes
  <2>6. CASE Enter
    BY <2>6, DeploymentAssumption DEF Enter, Databases, DeployTypes
  <2>7. CASE DailyBackup
    BY <2>0, <2>7 DEF DailyBackup, DeployTypes
  <2>8. CASE BackupByHand
    BY <2>0, <2>8 DEF BackupByHand, DeployTypes
  <2>9. CASE Restore
    BY <2>9 DEF Restore, Dumps, Databases, DeployTypes
  <2>10. CASE Deploy
    BY <2>10, DeploymentAssumption DEF Deploy, DeployTypes
  <2>11. CASE PassDay
    BY <2>11, DeploymentAssumption DEF PassDay, DeployTypes
  <2> QED
    BY <2>2, <2>3, <2>4, <2>5, <2>6, <2>7, <2>8, <2>9, <2>10, <2>11
       DEF DeployNext, deployVars, DeployTypes
<1> QED
  BY <1>1, <1>2, PTL DEF DeploySpec

(* Where a backup is required, a migration leaves a whole copy of what it     *)
(* changes, for any number of attempts, failures, releases and copies.        *)
THEOREM MigrationsAreRecoverable == DeploySpec => MigrationIsRecoverable
<1>1. DeployInit => CopiedBefore
  BY DEF DeployInit, CopiedBefore
<1>2. DeployTypes /\ CopiedBefore /\ [DeployNext]_deployVars => CopiedBefore'
  <2> SUFFICES ASSUME DeployTypes, CopiedBefore, [DeployNext]_deployVars, stage' = "apply",
                      BackupFirst, BackupRequired, Behind'
               PROVE  \E d \in dumps' : d.whole /\ d.of = db'
    BY DEF CopiedBefore
  <2>1. CASE BackupBeforeMigrate
    <3>1. NeedsBackup /\ \E up \in BOOLEAN : dumps' = Copied(dumps, up)
      BY <2>1 DEF BackupBeforeMigrate, NeedsBackup, Behind
    <3>2. Dump("disk", TRUE) \in dumps'
      BY <3>1 DEF Copied
    <3> QED
      BY <2>1, <3>2, DumpIsDump DEF BackupBeforeMigrate
  <2>2. CASE PassDay \/ UNCHANGED deployVars
    BY <2>2 DEF PassDay, deployVars, CopiedBefore, Behind
  <2> QED
    BY <2>1, <2>2 DEF DeployNext, ApplyMigrations, NextAttempt, CheckSettings, InitialData, Enter,
       DailyBackup, BackupByHand, Restore, Restart, Deploy, Begin
<1>3. DeployTypes /\ CopiedBefore /\ [DeployNext]_deployVars =>
        (BackupFirst /\ BackupRequired /\ db'.applied > db.applied /\ stage = "apply"
           => \E d \in dumps' : d.whole /\ d.of = db)
  <2> SUFFICES ASSUME DeployTypes, CopiedBefore, [DeployNext]_deployVars, BackupFirst,
                      BackupRequired, db'.applied > db.applied, stage = "apply"
               PROVE  \E d \in dumps' : d.whole /\ d.of = db
    OBVIOUS
  <2>0. db.applied \in Nat /\ release \in Nat
    BY DeploymentAssumption DEF DeployTypes, Databases
  <2>1. ApplyMigrations
    BY <2>0 DEF DeployNext, BackupBeforeMigrate, NextAttempt, CheckSettings, InitialData, Enter,
       DailyBackup, BackupByHand, Restore, Restart, Deploy, Begin, PassDay, deployVars
  <2>2. PICK m \in Nat : db' = UpTo(m) /\ m <= release
    BY <2>0, <2>1 DEF ApplyMigrations
  <2>3. db'.applied = m
    BY <2>2 DEF UpTo, DeployTypes, Databases
  <2>4. Behind
    BY <2>0, <2>2, <2>3 DEF Behind
  <2> QED
    BY <2>1, <2>4 DEF CopiedBefore, ApplyMigrations
<1> QED
  BY <1>1, <1>2, <1>3, DeployTypesInvariant, PTL DEF DeploySpec, MigrationIsRecoverable

(***************************************************************************)
(* EmployeeFile: a custody item is returned once.                          *)
(***************************************************************************)

(* Items that wait to be received have never been given, and wait once; what  *)
(* was returned, or waits to be, had been given.  A request that read its item *)
(* alone still finds it held.                                                 *)
CustodyInv ==
  /\ kept \in [Items -> [given : Int \cup {NoDate}, returned : Int \cup {NoDate}]]
  /\ DOMAIN ticket = Tickets /\ now \in Int
  /\ \A i \in Items : kept[i].returned # NoDate => kept[i].given # NoDate
  /\ \A t \in Waiting("receive") \cup Waiting("clear") : ticket[t].item \in Items
  /\ \A t \in Waiting("clear") : kept[ticket[t].item].given # NoDate
  /\ \A t \in Waiting("receive") :
       /\ kept[ticket[t].item].given = NoDate
       /\ \A u \in Waiting("receive") : ticket[u].item = ticket[t].item => u = t
  /\ clearing \subseteq Waiting("clear")
  /\ \A t \in clearing : ticket[t].item \notin crossed =>
       /\ kept[ticket[t].item].returned = NoDate
       /\ \A u \in clearing : ticket[u].item = ticket[t].item => u = t

(* A step that is not about custody.                                          *)
LEMMA CustodyElsewhere ==
  ASSUME CustodyInv, UNCHANGED <<kept, crossed>>, now' \in Int, DOMAIN ticket' = Tickets,
         \A t \in clearing' : t \in clearing /\ ticket'[t] = ticket[t],
         \A t \in Tickets : \/ ticket'[t] = ticket[t] \/ ticket'[t] = NoTicket
                            \/ ticket'[t].what \notin {"receive", "clear"}
  PROVE  CustodyInv'
<1>1. \A w \in {"receive", "clear"} : \A t \in Waiting(w)' :
        t \in Tickets /\ t \in Waiting(w) /\ ticket'[t] = ticket[t]
  BY DEF Waiting
<1>2. clearing' \subseteq Waiting("clear")'
  BY DEF CustodyInv, Waiting
<1> QED
  BY <1>1, <1>2 DEF CustodyInv

LEMMA OneTicket ==
  ASSUME CustodyInv, NEW r, r.what \notin {"receive", "clear"}, Submit(r)
  PROVE  CustodyInv'
<1>1. PICK u \in Tickets : /\ ticket[u] = NoTicket /\ ticket' = [ticket EXCEPT ![u] = r]
                           /\ UNCHANGED <<kept, now, clearing, crossed>>
  BY DEF Submit, clears
<1>2. \A t \in clearing : t # u /\ t \in Tickets
  BY <1>1 DEF CustodyInv, Waiting
<1> QED
  BY <1>1, <1>2, CustodyElsewhere DEF CustodyInv

LEMMA AnsweredElsewhere ==
  ASSUME CustodyInv, NEW t \in Tickets, Answered(t), UNCHANGED kept
  PROVE  CustodyInv'
<1>1. \A u \in clearing' : u \in clearing /\ ticket'[u] = ticket[u]
  BY DEF Answered, CustodyInv, Waiting
<1> QED
  BY <1>1, CustodyElsewhere DEF Answered, CustodyInv

LEMMA TicketsAlone ==
  ASSUME CustodyInv, UNCHANGED <<kept, ticket, crossed>>, now' \in Int, clearing' \subseteq clearing
  PROVE  CustodyInv'
BY CustodyElsewhere DEF CustodyInv

(* The steps about custody.                                                   *)
LEMMA CustodyAsked ==
  ASSUME CustodyInv, NEW i \in Items, AskReceive(i) \/ AskClear(i)
  PROVE  CustodyInv'
<1>1. PICK t \in Tickets : ticket[t] = NoTicket /\ UNCHANGED <<kept, now, clearing, crossed>>
        /\ \/ AskReceive(i) /\ ticket' = [ticket EXCEPT ![t] = [what |-> "receive", item |-> i]]
           \/ AskClear(i) /\ ticket' = [ticket EXCEPT ![t] = [what |-> "clear", item |-> i]]
  BY DEF AskReceive, AskClear, Submit, clears
<1>2. \A u \in Tickets \ {t} : ticket'[u] = ticket[u]
  BY <1>1 DEF CustodyInv
<1>5. \A u \in clearing : u # t /\ ticket'[u] = ticket[u] /\ u \in Waiting("clear")'
  BY <1>1, <1>2 DEF CustodyInv, Waiting
<1>3. CASE AskReceive(i) /\ ticket' = [ticket EXCEPT ![t] = [what |-> "receive", item |-> i]]
  <2>1. ticket'[t] = [what |-> "receive", item |-> i] /\ t \notin Waiting("receive")
    BY <1>1, <1>3 DEF CustodyInv, Waiting
  <2>2. Waiting("receive")' \subseteq Waiting("receive") \cup {t}
        /\ Waiting("clear")' \subseteq Waiting("clear")
    BY <1>2, <2>1 DEF Waiting
  <2>3. kept[i].given = NoDate /\ \A u \in Waiting("receive") : ticket[u].item # i
    BY <1>3 DEF AskReceive
  <2>4. \A u \in Waiting("receive") \cup Waiting("clear") : u \in Tickets
    BY DEF Waiting
  <2>5. t \notin Waiting("clear")
    BY <1>1 DEF Waiting
  <2>6. \A u \in Waiting("receive") \cup Waiting("clear") : ticket'[u] = ticket[u]
    BY <1>2, <2>1, <2>4, <2>5
  <2> QED
    BY <1>1, <1>3, <1>5, <2>1, <2>2, <2>3, <2>6 DEF CustodyInv
<1>4. CASE AskClear(i) /\ ticket' = [ticket EXCEPT ![t] = [what |-> "clear", item |-> i]]
  <2>1. ticket'[t] = [what |-> "clear", item |-> i]
    BY <1>1, <1>4 DEF CustodyInv
  <2>2. Waiting("receive")' \subseteq Waiting("receive") \ {t}
        /\ Waiting("clear")' \subseteq Waiting("clear") \cup {t}
    BY <1>2, <2>1 DEF Waiting
  <2>3. \A u \in Waiting("receive") \cup Waiting("clear") : u # t => ticket'[u] = ticket[u]
    BY <1>2 DEF Waiting
  <2>4. kept[i].given # NoDate
    BY <1>4 DEF AskClear, Held
  <2> QED
    BY <1>1, <1>4, <1>5, <2>1, <2>2, <2>3, <2>4 DEF CustodyInv
<1> QED
  BY <1>1, <1>3, <1>4

LEMMA CustodyRead ==
  ASSUME CustodyInv, NEW t \in Tickets, ReadClear(t)
  PROVE  CustodyInv' /\ UNCHANGED kept
<1>1. /\ clearing' = clearing \cup {t} /\ UNCHANGED <<kept, ticket, now>>
      /\ crossed' = crossed \cup
           {ticket[o].item : o \in {o \in clearing : ticket[o].item = ticket[t].item}}
      /\ t \in Waiting("clear") \ clearing /\ kept[ticket[t].item].returned = NoDate
  BY DEF ReadClear, BeginClear, Held
<1>2. \A w : Waiting(w)' = Waiting(w)
  BY <1>1 DEF Waiting
<1>3. \A u \in clearing : ticket[u].item = ticket[t].item => ticket[t].item \in crossed'
  BY <1>1
<1>4. \A u \in clearing' : ticket[u].item \notin crossed' =>
        /\ kept[ticket[u].item].returned = NoDate
        /\ \A v \in clearing' : ticket[v].item = ticket[u].item => v = u
  BY <1>1, <1>3 DEF CustodyInv
<1> QED
  BY <1>1, <1>2, <1>4 DEF CustodyInv

LEMMA CustodyExecuted ==
  ASSUME CustodyInv, NEW t \in Tickets, ExecuteReceive(t) \/ SaveClear(t)
  PROVE  /\ CustodyInv'
         /\ \A i \in Items \ crossed : kept[i].returned # NoDate => kept'[i] = kept[i]
<1> DEFINE i == ticket[t].item
<1>1. /\ ticket' = [ticket EXCEPT ![t] = NoTicket] /\ UNCHANGED <<now, crossed>>
      /\ clearing' = clearing \ {t}
      /\ t \in Waiting("receive") \cup Waiting("clear") /\ i \in Items
  BY DEF ExecuteReceive, SaveClear, Answered, CustodyInv
<1>2. /\ \A w \in {"receive", "clear"} : \A u \in Waiting(w)' :
           u # t /\ u \in Waiting(w) /\ ticket'[u] = ticket[u]
      /\ \A u \in clearing' : u \in clearing /\ u # t /\ ticket'[u] = ticket[u] /\ u \in Waiting("clear")'
  BY <1>1 DEF Waiting, CustodyInv
<1>3. NoDate \notin Int
  BY FileAssumption
<1>4. /\ \A j \in Items \ {i} : kept'[j] = kept[j]
      /\ kept' \in [Items -> [given : Int \cup {NoDate}, returned : Int \cup {NoDate}]]
      /\ kept'[i].given # NoDate
  BY <1>1, <1>3 DEF ExecuteReceive, SaveClear, CustodyInv
<1>5. ASSUME NEW u \in Waiting("receive")' PROVE kept'[ticket'[u].item].given = NoDate
  <2>1. u # t /\ u \in Waiting("receive") /\ ticket'[u] = ticket[u]
    BY <1>2
  <2>2. CASE ticket[u].item # i
    BY <1>4, <2>1, <2>2 DEF CustodyInv
  <2>3. CASE ticket[u].item = i
    <3>1. SaveClear(t)
      BY <2>1, <2>3 DEF CustodyInv, ExecuteReceive
    <3>2. kept[i].given # NoDate
      BY <3>1 DEF SaveClear, CustodyInv
    <3> QED
      BY <2>1, <2>3, <3>2 DEF CustodyInv
  <2> QED
    BY <2>2, <2>3
<1>6. ASSUME NEW u \in clearing', ticket[u].item \notin crossed
      PROVE  kept'[ticket[u].item].returned = NoDate
  <2>1. u # t /\ u \in clearing /\ kept[ticket[u].item].returned = NoDate
    BY <1>2, <1>6 DEF CustodyInv
  <2>2. CASE ticket[u].item # i
    BY <1>4, <2>1, <2>2 DEF CustodyInv
  <2>3. CASE ticket[u].item = i
    <3>1. t \notin clearing
      BY <1>6, <2>1, <2>3 DEF CustodyInv
    <3>2. ExecuteReceive(t)
      BY <3>1 DEF SaveClear
    <3> QED
      BY <1>1, <2>1, <2>3, <3>2 DEF ExecuteReceive, CustodyInv
  <2> QED
    BY <2>2, <2>3
<1>7. \A j \in Items : kept'[j].returned # NoDate => kept'[j].given # NoDate
  BY <1>4 DEF CustodyInv
<1>8. /\ \A u \in Waiting("receive")' \cup Waiting("clear")' : ticket'[u].item \in Items
      /\ \A u \in Waiting("clear")' : kept'[ticket'[u].item].given # NoDate
      /\ \A u, v \in Waiting("receive")' : ticket'[u].item = ticket'[v].item => u = v
  BY <1>2, <1>4 DEF CustodyInv
<1>9. \A u, v \in clearing' : ticket[u].item \notin crossed /\ ticket[v].item = ticket[u].item => v = u
  BY <1>2 DEF CustodyInv
<1>10. DOMAIN ticket' = Tickets /\ now' \in Int
  BY <1>1 DEF CustodyInv
<1>11. CustodyInv'
  BY <1>1, <1>2, <1>4, <1>5, <1>6, <1>7, <1>8, <1>9, <1>10 DEF CustodyInv
<1>12. i \notin crossed => kept[i].returned = NoDate
  BY <1>1 DEF ExecuteReceive, SaveClear, CustodyInv
<1> QED
  BY <1>4, <1>11, <1>12

(* The steps that are not about custody, and the day.                         *)
LEMMA OtherFileSteps ==
  ASSUME CustodyInv, EmployeeNext
  PROVE  \/ CustodyInv' /\ UNCHANGED kept
         \/ \E i \in Items : AskReceive(i) \/ AskClear(i)
         \/ \E t \in Tickets : ExecuteReceive(t) \/ ReadClear(t) \/ SaveClear(t)
<1> DEFINE Done == CustodyInv' /\ UNCHANGED kept
<1>0. now \in Int
  BY DEF CustodyInv
<1>1. ASSUME NEW kind, NEW from, NEW days, AskLeave(kind, from, days) PROVE Done
  BY <1>1, OneTicket DEF AskLeave, Submit
<1>2. ASSUME NEW w, AskWage(w) PROVE Done
  BY <1>2, OneTicket DEF AskWage, Submit
<1>3. ASSUME NEW p, AskMove(p) PROVE Done
  BY <1>3, OneTicket DEF AskMove, Submit
<1>4. ASSUME NEW d, NEW status, AskReturn(d, status) PROVE Done
  BY <1>4, OneTicket DEF AskReturn, Submit
<1>5. ASSUME NEW d, AskTrip \/ AskAbsence(d) PROVE Done
  BY <1>5, OneTicket DEF AskTrip, AskAbsence, Submit
<1>6. ASSUME NEW t \in Tickets, Answered(t), UNCHANGED kept PROVE Done
  BY <1>6, AnsweredElsewhere
<1>7. ASSUME NEW t \in Tickets, Refuse(t) \/ ExecuteLeave(t) \/ ExecuteTrip(t) \/ ExecuteAbsence(t)
      PROVE  Done
  BY <1>6, <1>7 DEF Refuse, ExecuteLeave, ExecuteTrip, ExecuteAbsence, WriteRow
<1>8. ASSUME NEW t \in Tickets, ExecuteWage(t) \/ ExecuteMove(t) \/ ExecuteReturn(t) PROVE Done
  BY <1>6, <1>8 DEF ExecuteWage, ExecuteMove, ExecuteReturn, WriteDossier
<1>9. ASSUME UNCHANGED <<now, kept, ticket, clears>> PROVE Done
  BY <1>0, <1>9, TicketsAlone DEF clears
<1>21. ASSUME NEW t, DropClear(t) PROVE Done
  BY <1>0, <1>21, TicketsAlone DEF DropClear
<1>10. ASSUME NEW l, NEW kind, NEW from, NEW days, EditLeave(l, kind, from, days) PROVE Done
  BY <1>9, <1>10 DEF EditLeave
<1>11. ASSUME NEW l, DeleteLeave(l) \/ ApplyLeave(l) PROVE Done
  BY <1>9, <1>11 DEF DeleteLeave, ApplyLeave
<1>12. ASSUME NEW d, OnDossier(d) PROVE Done
  BY <1>9, <1>12 DEF OnDossier
<1>13. ASSUME NEW start, NEW opening, NEW used, SaveLeaveSettings(start, opening, used) PROVE Done
  BY <1>12, <1>13 DEF SaveLeaveSettings
<1>14. ASSUME NEW d, Settle(d) \/ SaveEdit(d) PROVE Done
  BY <1>12, <1>14 DEF Settle, SaveEdit
<1>15. ASSUME NEW n, NEW add, NEW confirmed, SaveSchedule(n, add, confirmed) PROVE Done
  BY <1>12, <1>15 DEF SaveSchedule
<1>16. CASE OpenEdit
  BY <1>9, <1>16 DEF OpenEdit
<1>17. CASE FileNextDay
  BY <1>0, <1>17, TicketsAlone DEF FileNextDay, clears
<1> HIDE DEF Done
<1>18. CASE LeaveNext
  BY <1>1, <1>7, <1>10, <1>11, <1>13, <1>18 DEF LeaveNext, Done
<1>19. CASE FileNext
  BY <1>2, <1>3, <1>5, <1>7, <1>8, <1>14, <1>15, <1>16, <1>19, <1>21 DEF FileNext, AskRaise, Done
<1>20. CASE SharedNext
  BY <1>4, <1>7, <1>8, <1>14, <1>17, <1>20 DEF SharedNext, Done
<1> QED
  BY <1>18, <1>19, <1>20 DEF EmployeeNext

(* The day an item was returned on is written once, for any number of items   *)
(* and of requests that wait, unless two are executed at once.                *)
THEOREM ReturnedOnce == EmployeeSpec => ReturnStands
<1>1. FileInit => CustodyInv
  BY DEF FileInit, CustodyInv, Waiting
<1>2. CustodyInv /\ [EmployeeNext]_fileVars =>
        CustodyInv' /\ \A i \in Items \ crossed : kept[i].returned # NoDate => kept'[i] = kept[i]
  <2> SUFFICES ASSUME CustodyInv, [EmployeeNext]_fileVars
               PROVE  CustodyInv' /\ \A i \in Items \ crossed :
                                       kept[i].returned # NoDate => kept'[i] = kept[i]
    OBVIOUS
  <2>1. CASE UNCHANGED fileVars
    BY <2>1, TicketsAlone DEF fileVars, clears, CustodyInv
  <2>2. ASSUME NEW i \in Items, AskReceive(i) \/ AskClear(i)
        PROVE  CustodyInv' /\ UNCHANGED kept
    BY <2>2, CustodyAsked DEF AskReceive, AskClear, Submit
  <2> QED
    BY <2>1, <2>2, OtherFileSteps, CustodyExecuted, CustodyRead
<1> QED
  BY <1>1, <1>2, PTL DEF EmployeeSpec, ReturnStands


(***************************************************************************)
(* Sums over finite sets, without induction: two functions on the subsets  *)
(* of a finite set that lose the value of an element with the element are  *)
(* the same, or there were a smallest set they differ on.                  *)
(***************************************************************************)

(* A set of numbers has a least one.                                          *)
LEMMA LeastOfNats ==
  ASSUME NEW S \in SUBSET Nat, S # {}
  PROVE  \E x \in S : \A y \in S : x <= y
<1> DEFINE Less == {ss \in Nat \X Nat : ss[1] < ss[2]}
<1>1. IsWellFoundedOn(Less, Nat)
  BY NatLessThanWellFounded DEF OpToRel
<1>2. \E x \in S : \A y \in S : ~(<<y, x>> \in Less)
  <2> HIDE DEF Less
  <2> QED
    BY <1>1, WFMin
<1>3. PICK x \in S : \A y \in S : ~(<<y, x>> \in Less)
  BY <1>2
<1>4. ASSUME NEW y \in S PROVE x <= y
  <2>1. ~(<<y, x>> \in Less)
    BY <1>3
  <2> QED
    BY <2>1
<1> QED
  BY <1>4

(* A sum over a finite set is what every other function is that loses the     *)
(* value of an element with the element.                                      *)
AddsSome(S, w, g) ==
  \A s \in SUBSET S : s # {} =>
    \E x \in s : g[s] = w[x] + g[s \ {x}] \/ g[s] = g[s \ {x}] + w[x]
AddsEach(S, w, g) ==
  \A s \in SUBSET S : \A x \in s : /\ g[s] = w[x] + g[s \ {x}]
                                  /\ g[s] = g[s \ {x}] + w[x]

LEMMA SumIsUnique ==
  ASSUME NEW S, IsFiniteSet(S), NEW w, NEW g, NEW G, g[{}] = G[{}],
         AddsSome(S, w, g), AddsEach(S, w, G)
  PROVE  \A s \in SUBSET S : g[s] = G[s]
<1> DEFINE Differ == {n \in Nat : \E s \in SUBSET S : Cardinality(s) = n /\ g[s] # G[s]}
<1>1. ASSUME NEW s \in SUBSET S PROVE IsFiniteSet(s) /\ Cardinality(s) \in Nat
  BY <1>1, FS_Subset, FS_CardinalityType
<1>2. SUFFICES Differ = {}
  BY <1>1
<1>3. SUFFICES ASSUME Differ # {} PROVE FALSE
  OBVIOUS
<1>4. PICK n \in Differ : \A m \in Differ : n <= m
  BY <1>3, LeastOfNats
<1>5. PICK s \in SUBSET S : Cardinality(s) = n /\ g[s] # G[s]
  BY <1>4
<1>6. PICK x \in s : g[s] = w[x] + g[s \ {x}] \/ g[s] = g[s \ {x}] + w[x]
  <2>1. s # {}
    BY <1>5
  <2> QED
    BY <2>1 DEF AddsSome
<1>7. g[s \ {x}] # G[s \ {x}]
  BY <1>5, <1>6 DEF AddsEach
<1>8. s \ {x} \in SUBSET S /\ Cardinality(s \ {x}) = n - 1
  BY <1>1, <1>5, <1>6, FS_RemoveElement
<1>9. Cardinality(s \ {x}) \in Nat
  BY <1>1, <1>8
<1>10. n - 1 \in Differ
  BY <1>7, <1>8, <1>9
<1> QED
  BY <1>4, <1>10


(***************************************************************************)
(* EmployeeFile: the leaves taken are not longer than the leave earned.    *)
(***************************************************************************)

(* The days of the leaves S of the file A.                                    *)
DaysOn(A, S) == FoldSet(LAMBDA l, n : n + A[l].days, 0, S)
DaysTyped(A, S) == \A l \in S : A[l].days \in Today

(* They are as many as there are days of leave, each of its leave.            *)
Nights(A, S) == {p \in S \X Today : p[2] <= A[p[1]].days}

LEMMA NightsOfOneMore ==
  ASSUME NEW A, NEW S, IsFiniteSet(S), DaysTyped(A, S), NEW x \in S
  PROVE  /\ IsFiniteSet(Nights(A, S)) /\ Cardinality(Nights(A, S)) \in Nat
         /\ Cardinality(Nights(A, S)) = A[x].days + Cardinality(Nights(A, S \ {x}))
<1>1. PICK d \in Today : d = A[x].days
  BY DEF DaysTyped
<1>2. LastNow \in Nat /\ Today = 1..LastNow
  BY FileAssumption DEF Today
<1>3. IsFiniteSet(Today)
  BY <1>2, FS_Interval
<1>4. IsFiniteSet(S \X Today)
  BY <1>3, FS_Product
<1>5. \A T \in SUBSET S : IsFiniteSet(Nights(A, T)) /\ Cardinality(Nights(A, T)) \in Nat
  <2> TAKE T \in SUBSET S
  <2>1. Nights(A, T) \in SUBSET (S \X Today)
    BY DEF Nights
  <2> QED
    BY <1>4, <2>1, FS_Subset, FS_CardinalityType
<1>6. IsFiniteSet({x} \X (1..d)) /\ Cardinality({x} \X (1..d)) = d
  <2>1. IsFiniteSet(1..d) /\ Cardinality(1..d) = d
    <3>1. d \in Nat /\ d > 0
      BY <1>2
    <3> QED
      BY <3>1, FS_Interval
  <2>2. IsFiniteSet({x}) /\ Cardinality({x}) = 1
    BY FS_Singleton
  <2>3. Cardinality({x} \X (1..d)) = 1 * d
    BY <2>1, <2>2, FS_Product
  <2>4. 1 * d = d
    BY <1>2
  <2> QED
    BY <2>1, <2>2, <2>3, <2>4, FS_Product
<1>7. Nights(A, S) = Nights(A, S \ {x}) \cup ({x} \X (1..d))
  BY <1>1, <1>2 DEF Nights
<1>8. Nights(A, S \ {x}) \cap ({x} \X (1..d)) = {}
  BY DEF Nights
<1>9. /\ IsFiniteSet(Nights(A, S \ {x})) /\ Cardinality(Nights(A, S \ {x})) \in Nat
      /\ IsFiniteSet(Nights(A, S)) /\ Cardinality(Nights(A, S)) \in Nat
  BY <1>5
<1>10. Cardinality(Nights(A, S)) = Cardinality(Nights(A, S \ {x})) + d
  <2>1. PICK N, M : N = Nights(A, S \ {x}) /\ M = {x} \X (1..d)
    OBVIOUS
  <2>2. /\ IsFiniteSet(N) /\ IsFiniteSet(M) /\ N \cap M = {}
        /\ Cardinality(N) \in Nat /\ Cardinality(M) = d
    BY <1>6, <1>8, <1>9, <2>1
  <2>3. Cardinality(N \cup M) = Cardinality(N) + Cardinality(M) - Cardinality(N \cap M)
    BY <2>2, FS_Union
  <2>4. Cardinality(N \cup M) = Cardinality(N) + d
    <3>1. Cardinality(N \cap M) = 0
      BY <2>2, FS_EmptySet
    <3>2. d \in Int
      BY <1>2
    <3> QED
      BY <2>2, <2>3, <3>1, <3>2
  <2> QED
    BY <1>7, <2>1, <2>4
<1> QED
  BY <1>1, <1>2, <1>9, <1>10

LEMMA DaysAreNights ==
  ASSUME NEW A, NEW S, IsFiniteSet(S), DaysTyped(A, S)
  PROVE  DaysOn(A, S) = Cardinality(Nights(A, S))
<1> DEFINE G == [s \in SUBSET S |-> Cardinality(Nights(A, s))]
           w == [l \in S |-> A[l].days]
           F(g) == [s \in SUBSET S |-> IF s = {} THEN 0
                                       ELSE g[s \ {CHOOSE x \in s : TRUE}]
                                            + A[CHOOSE x \in s : TRUE].days]
           iter == CHOOSE g : g = F(g)
           Pick(s) == CHOOSE x \in s : TRUE
<1>1. DaysOn(A, S) = iter[S]
  BY DEF DaysOn, FoldSet, MapThenFoldSet
<1>2. G[{}] = 0
  <2>1. Nights(A, {}) = {}
    BY DEF Nights
  <2> QED
    BY <2>1, FS_EmptySet
<1>3. ASSUME NEW s \in SUBSET S, NEW x \in s
      PROVE  /\ G[s] = w[x] + G[s \ {x}] /\ w[x] = A[x].days
             /\ w[x] \in Int /\ G[s \ {x}] \in Int
  <2>1. IsFiniteSet(s) /\ DaysTyped(A, s) /\ IsFiniteSet(s \ {x}) /\ DaysTyped(A, s \ {x})
    BY FS_Subset DEF DaysTyped
  <2>2. Cardinality(Nights(A, s)) = A[x].days + Cardinality(Nights(A, s \ {x}))
    BY <2>1, NightsOfOneMore
  <2>3. Cardinality(Nights(A, s \ {x})) \in Int
    <3>1. CASE s \ {x} = {}
      BY <1>2, <3>1
    <3>2. CASE s \ {x} # {}
      <4>1. PICK T : T = s \ {x}
        OBVIOUS
      <4>a. PICK y \in T : TRUE
        BY <3>2, <4>1
      <4>2. IsFiniteSet(T) /\ DaysTyped(A, T)
        BY <2>1, <4>1
      <4>3. Cardinality(Nights(A, T)) \in Nat
        BY <4>2, NightsOfOneMore
      <4> QED
        BY <4>1, <4>3
    <3> QED
      BY <3>1, <3>2
  <2>4. A[x].days \in Int
    BY FileAssumption DEF DaysTyped, Today
  <2> QED
    BY <2>2, <2>3, <2>4
<1>4. G = [s \in SUBSET S |-> G[s]]
  OBVIOUS
<1> HIDE DEF G, w
<1>5. G = F(G)
  <2>1. ASSUME NEW s \in SUBSET S
        PROVE  G[s] = IF s = {} THEN 0 ELSE G[s \ {Pick(s)}] + A[Pick(s)].days
    <3>1. CASE s = {}
      BY <1>2, <3>1
    <3>2. CASE s # {}
      <4>1. Pick(s) \in s
        BY <3>2
      <4> HIDE DEF Pick
      <4>2. /\ G[s] = w[Pick(s)] + G[s \ {Pick(s)}] /\ w[Pick(s)] = A[Pick(s)].days
            /\ w[Pick(s)] \in Int /\ G[s \ {Pick(s)}] \in Int
        BY <1>3, <4>1
      <4> QED
        BY <3>2, <4>2
    <3> QED
      BY <3>1, <3>2
  <2> QED
    BY <1>4, <2>1
<1>6. iter = F(iter)
  <2> HIDE DEF F
  <2> QED
    BY <1>5
<1>7. iter[{}] = 0
  <2> HIDE DEF iter
  <2> QED
    BY <1>6
<1>8. ASSUME NEW s \in SUBSET S, s # {}
      PROVE  \E x \in s : iter[s] = iter[s \ {x}] + w[x]
  <2>1. Pick(s) \in s
    BY <1>8
  <2>2. iter[s] = iter[s \ {Pick(s)}] + A[Pick(s)].days
    <3> HIDE DEF iter
    <3> QED
      BY <1>6, <1>8
  <2>3. w[Pick(s)] = A[Pick(s)].days
    <3> HIDE DEF Pick
    <3> QED
      BY <1>3, <2>1
  <2> HIDE DEF iter, Pick
  <2> QED
    BY <2>1, <2>2, <2>3
<1>9. iter[S] = G[S]
  <2>1. iter[{}] = G[{}]
    BY <1>2, <1>7
  <2> HIDE DEF iter
  <2>2. AddsSome(S, w, iter)
    BY <1>8 DEF AddsSome
  <2>3. AddsEach(S, w, G)
    <3>1. ASSUME NEW s \in SUBSET S, NEW x \in s
          PROVE  G[s] = w[x] + G[s \ {x}] /\ G[s] = G[s \ {x}] + w[x]
      <4>1. G[s] = w[x] + G[s \ {x}] /\ w[x] \in Int /\ G[s \ {x}] \in Int
        BY <1>3
      <4> QED
        BY <4>1
    <3> QED
      BY <3>1 DEF AddsEach
  <2>4. \A s \in SUBSET S : iter[s] = G[s]
    BY <2>1, <2>2, <2>3, SumIsUnique
  <2> QED
    BY <2>4
<1>10. G[S] = Cardinality(Nights(A, S))
  BY DEF G
<1> QED
  BY <1>1, <1>9, <1>10

(* A leave more or less, and leaves of the same days.                         *)
LEMMA DaysOfOneMore ==
  ASSUME NEW A, NEW S, IsFiniteSet(S), DaysTyped(A, S), NEW x \in S
  PROVE  /\ DaysOn(A, S \ {x}) \in Nat
         /\ DaysOn(A, S) = A[x].days + DaysOn(A, S \ {x})
<1>1. IsFiniteSet(S \ {x}) /\ DaysTyped(A, S \ {x})
  BY FS_Subset DEF DaysTyped
<1>2. DaysOn(A, S) = Cardinality(Nights(A, S)) /\ DaysOn(A, S \ {x}) = Cardinality(Nights(A, S \ {x}))
  BY <1>1, DaysAreNights
<1>3. Cardinality(Nights(A, S)) = A[x].days + Cardinality(Nights(A, S \ {x}))
  BY NightsOfOneMore
<1>4. IsFiniteSet(S \X Today)
  <2>1. IsFiniteSet(Today)
    BY FileAssumption, FS_Interval DEF Today
  <2> QED
    BY <2>1, FS_Product
<1>5. Nights(A, S \ {x}) \in SUBSET (S \X Today)
  BY DEF Nights
<1>6. Cardinality(Nights(A, S \ {x})) \in Nat
  BY <1>4, <1>5, FS_Subset, FS_CardinalityType
<1> QED
  BY <1>2, <1>3, <1>6

LEMMA DaysAreNat ==
  ASSUME NEW A, NEW S, IsFiniteSet(S), DaysTyped(A, S)
  PROVE  DaysOn(A, S) \in Nat
<1>1. IsFiniteSet(S \X Today)
  <2>1. IsFiniteSet(Today)
    BY FileAssumption, FS_Interval DEF Today
  <2> QED
    BY <2>1, FS_Product
<1>2. Nights(A, S) \in SUBSET (S \X Today)
  BY DEF Nights
<1> QED
  BY <1>1, <1>2, DaysAreNights, FS_Subset, FS_CardinalityType

LEMMA NoDays ==
  ASSUME NEW A
  PROVE  DaysOn(A, {}) = 0
<1>1. DaysTyped(A, {}) /\ IsFiniteSet({}) /\ Nights(A, {}) = {}
  BY FS_EmptySet DEF DaysTyped, Nights
<1> QED
  BY <1>1, DaysAreNights, FS_EmptySet

LEMMA SameDays ==
  ASSUME NEW A, NEW B, NEW S, IsFiniteSet(S), DaysTyped(A, S),
         \A l \in S : B[l].days = A[l].days
  PROVE  DaysOn(B, S) = DaysOn(A, S)
<1>1. DaysTyped(B, S) /\ Nights(B, S) = Nights(A, S)
  BY DEF DaysTyped, Nights
<1> QED
  BY <1>1, DaysAreNights

LEMMA FewerDays ==
  ASSUME NEW A, NEW S, IsFiniteSet(S), DaysTyped(A, S), NEW T \in SUBSET S
  PROVE  DaysOn(A, T) <= DaysOn(A, S)
<1>1. IsFiniteSet(T) /\ DaysTyped(A, T)
  BY FS_Subset DEF DaysTyped
<1>2. IsFiniteSet(S \X Today)
  <2>1. IsFiniteSet(Today)
    BY FileAssumption, FS_Interval DEF Today
  <2> QED
    BY <2>1, FS_Product
<1>3. Nights(A, S) \in SUBSET (S \X Today) /\ Nights(A, T) \in SUBSET Nights(A, S)
  BY DEF Nights
<1>4. IsFiniteSet(Nights(A, S))
  BY <1>2, <1>3, FS_Subset
<1>5. Cardinality(Nights(A, T)) <= Cardinality(Nights(A, S))
  BY <1>3, <1>4, FS_Subset
<1> QED
  BY <1>1, <1>5, DaysAreNights

(* The rows a leave balance is computed from keep their types.                *)
FileTypes ==
  /\ now \in Today /\ dossier \in Dossier /\ editing \in Dossier \cup {NoEdit}
  /\ away \in [LeaveRows -> LeaveRow \cup {NoLeave}]
  /\ ticket \in [Tickets -> Ticket \cup {NoTicket}]

LEMMA NewLeaveTyped ==
  ASSUME NEW kind \in {"annual", "unpaid"}, NEW from \in Today, NEW days \in Today
  PROVE  NewLeave(kind, from, days) \in LeaveRow
BY DEF NewLeave, LeaveRow, Today

LEMMA SubmitTyped ==
  ASSUME FileTypes, NEW r \in Ticket, Submit(r)
  PROVE  FileTypes'
BY DEF FileTypes, Submit

LEMMA AnsweredTyped ==
  ASSUME FileTypes, NEW t \in Tickets, Answered(t), dossier' \in Dossier,
         away' \in [LeaveRows -> LeaveRow \cup {NoLeave}]
  PROVE  FileTypes'
BY DEF FileTypes, Answered

LEMMA DossierTyped ==
  ASSUME FileTypes, NEW d \in Dossier, OnDossier(d), editing' \in Dossier \cup {NoEdit}
  PROVE  FileTypes'
BY DEF FileTypes, OnDossier

LEMMA AwayTyped ==
  ASSUME FileTypes, UNCHANGED <<now, dossier, ticket, editing>>,
         away' \in [LeaveRows -> LeaveRow \cup {NoLeave}]
  PROVE  FileTypes'
BY DEF FileTypes

(* What a ticket of each kind says.                                           *)
LEMMA TicketsSay ==
  ASSUME FileTypes, NEW w, NEW t \in Waiting(w)
  PROVE  /\ t \in Tickets
         /\ w = "leave" => ticket[t].row \in LeaveRow
         /\ w = "wage" => ticket[t].wage \in Nat
         /\ w = "move" => ticket[t].place \in Places \cup {NoDate}
         /\ w = "return" => ticket[t].hired \in Today /\ ticket[t].status \in {"active", "leave"}
<1>1. t \in Tickets /\ ticket[t] \in Ticket /\ ticket[t].what = w
  BY DEF Waiting, FileTypes
<1> QED
  BY <1>1 DEF Ticket, LeaveRequest, WageRequest, MoveRequest, ReturnRequest, CustodyRequest,
              TripRow, AbsenceRequest

LEMMA FileTypesKept ==
  ASSUME FileTypes, [EmployeeNext]_fileVars
  PROVE  FileTypes'
<1>0. /\ dossier \in Dossier /\ editing \in Dossier \cup {NoEdit}
      /\ away \in [LeaveRows -> LeaveRow \cup {NoLeave}]
  BY DEF FileTypes
<1>1. ASSUME NEW kind \in {"annual", "unpaid"}, NEW from \in Today, NEW days \in Today,
             AskLeave(kind, from, days)
      PROVE  FileTypes'
  <2>1. [what |-> "leave", row |-> NewLeave(kind, from, days)] \in Ticket
    BY NewLeaveTyped DEF Ticket, LeaveRequest
  <2> QED
    BY <1>1, <2>1, SubmitTyped DEF AskLeave
<1>2. ASSUME NEW kind \in {"annual", "unpaid"}, NEW from \in Today, NEW days \in Today,
             NEW l \in LeaveRows, EditLeave(l, kind, from, days)
      PROVE  FileTypes'
  BY <1>0, <1>2, NewLeaveTyped, AwayTyped DEF EditLeave
<1>3. ASSUME NEW t \in Tickets, ExecuteLeave(t)
      PROVE  FileTypes'
  <2>1. ticket[t].row \in LeaveRow
    BY <1>3, TicketsSay DEF ExecuteLeave
  <2>2. PICK row \in LeaveRow : row = ticket[t].row
    BY <2>1
  <2>3. away' \in [LeaveRows -> LeaveRow \cup {NoLeave}]
    BY <1>0, <1>3, <2>2 DEF ExecuteLeave
  <2>4. row.days \in Nat
    BY FileAssumption DEF LeaveRow
  <2>5. dossier' = [dossier EXCEPT !.used = @ + (IF row.kind = "annual" THEN row.days ELSE 0)]
    BY <1>3, <2>2 DEF ExecuteLeave
  <2>6. dossier.used + (IF row.kind = "annual" THEN row.days ELSE 0) \in Nat
    BY <1>0, <2>4 DEF Dossier
  <2>7. dossier' \in Dossier
    BY <1>0, <2>5, <2>6 DEF Dossier
  <2> QED
    BY <1>3, <2>3, <2>7, AnsweredTyped DEF ExecuteLeave
<1>4. ASSUME NEW l \in LeaveRows, DeleteLeave(l) PROVE FileTypes'
  BY <1>0, <1>4, AwayTyped DEF DeleteLeave
<1>5. ASSUME NEW l \in LeaveRows, ApplyLeave(l) PROVE FileTypes'
  <2>1. away[l] \in LeaveRow
    BY <1>0, <1>5 DEF ApplyLeave
  <2>2. [away[l] EXCEPT !.applied = TRUE] \in LeaveRow
    BY <2>1 DEF LeaveRow
  <2> QED
    BY <1>0, <1>5, <2>2, AwayTyped DEF ApplyLeave
<1>6. ASSUME NEW start \in Today \cup {NoDate}, NEW opening \in 0..1, NEW used \in 0..1,
             SaveLeaveSettings(start, opening, used)
      PROVE  FileTypes'
  <2>1. PICK u \in Nat : u = IF start = NoDate THEN used ELSE dossier.used
    BY <1>0 DEF Dossier
  <2>2. /\ dossier' = [dossier EXCEPT !.start = start, !.opening = opening, !.used = u]
        /\ UNCHANGED <<now, away, ticket, editing>>
    BY <1>0, <1>6, <2>1 DEF SaveLeaveSettings, OnDossier
  <2>3. opening \in Nat
    OBVIOUS
  <2>4. dossier' \in Dossier
    BY <1>0, <2>2, <2>3 DEF Dossier
  <2> QED
    BY <2>2, <2>4 DEF FileTypes
<1>7. ASSUME NEW w \in Wages, AskWage(w) PROVE FileTypes'
  <2>1. [what |-> "wage", wage |-> w] \in Ticket
    BY FileAssumption DEF Ticket, WageRequest
  <2> QED
    BY <1>7, <2>1, SubmitTyped DEF AskWage
<1>8. ASSUME NEW w \in Wages, SaveEdit(w) PROVE FileTypes'
  <2> DEFINE d == [editing EXCEPT !.status = dossier.status, !.ended = dossier.ended,
                                  !.months = dossier.months, !.wage = w]
  <2>1. editing \in Dossier /\ w \in Nat
    BY <1>0, <1>8, FileAssumption DEF SaveEdit
  <2>2. d \in Dossier
    BY <1>0, <2>1 DEF Dossier
  <2>3. OnDossier(d) /\ editing' = NoEdit
    BY <1>8 DEF SaveEdit
  <2> HIDE DEF d
  <2> QED
    BY <2>2, <2>3, DossierTyped
<1>9. ASSUME AskRaise(1) PROVE FileTypes'
  <2>1. [what |-> "wage", wage |-> dossier.wage + 1] \in Ticket
    BY <1>0 DEF Ticket, WageRequest, Dossier
  <2> QED
    BY <1>9, <2>1, SubmitTyped DEF AskRaise, AskWage
<1>10. ASSUME AskTrip PROVE FileTypes'
  <2>1. [what |-> "trip"] \in Ticket
    BY DEF Ticket, TripRow
  <2> QED
    BY <1>10, <2>1, SubmitTyped DEF AskTrip
<1>11. ASSUME OpenEdit PROVE FileTypes'
  BY <1>11 DEF OpenEdit, FileTypes
<1>12. ASSUME NEW d \in Today, AskAbsence(d) PROVE FileTypes'
  <2>1. [what |-> "absence", days |-> d] \in Ticket
    BY DEF Ticket, AbsenceRequest
  <2> QED
    BY <1>12, <2>1, SubmitTyped DEF AskAbsence
<1>13. ASSUME NEW p \in Places \cup {NoDate}, AskMove(p) PROVE FileTypes'
  <2>1. [what |-> "move", place |-> p] \in Ticket
    BY DEF Ticket, MoveRequest
  <2> QED
    BY <1>13, <2>1, SubmitTyped DEF AskMove
<1>14. ASSUME NEW i \in Items, AskReceive(i) \/ AskClear(i) PROVE FileTypes'
  <2>1. [what |-> "receive", item |-> i] \in Ticket /\ [what |-> "clear", item |-> i] \in Ticket
    BY DEF Ticket, CustodyRequest
  <2> QED
    BY <1>14, <2>1, SubmitTyped DEF AskReceive, AskClear
<1>15. ASSUME NEW t \in Tickets,
              ExecuteReceive(t) \/ SaveClear(t) \/ ExecuteTrip(t) \/ ExecuteAbsence(t) \/ Refuse(t)
       PROVE  FileTypes'
  <2>1. Answered(t) /\ UNCHANGED <<dossier, away>>
    BY <1>15 DEF ExecuteReceive, SaveClear, ExecuteTrip, ExecuteAbsence, WriteRow, Refuse
  <2> QED
    BY <1>0, <2>1, AnsweredTyped
<1>16. ASSUME NEW t \in Tickets, ExecuteWage(t) PROVE FileTypes'
  <2>1. ticket[t].wage \in Nat
    BY <1>16, TicketsSay DEF ExecuteWage
  <2>2. [dossier EXCEPT !.wage = ticket[t].wage] \in Dossier
    BY <1>0, <2>1 DEF Dossier
  <2> QED
    BY <1>0, <1>16, <2>2, AnsweredTyped DEF ExecuteWage, WriteDossier
<1>17. ASSUME NEW t \in Tickets, ExecuteMove(t) PROVE FileTypes'
  <2>1. dossier.place \in Places /\ ticket[t].place \in Places \cup {NoDate}
    BY <1>0, <1>17, TicketsSay DEF ExecuteMove, Dossier
  <2>2. PICK place \in Places : place = IF ticket[t].place = NoDate THEN dossier.place
                                        ELSE ticket[t].place
    BY <2>1
  <2>3. dossier' = [dossier EXCEPT !.place = place]
    BY <1>17, <2>2 DEF ExecuteMove, WriteDossier
  <2>4. dossier' \in Dossier
    BY <1>0, <2>3 DEF Dossier
  <2> QED
    BY <1>0, <1>17, <2>4, AnsweredTyped DEF ExecuteMove, WriteDossier
<1>18. ASSUME NEW t \in Tickets, ExecuteReturn(t) PROVE FileTypes'
  <2>1. ticket[t].hired \in Today /\ ticket[t].status \in {"active", "leave"}
    BY <1>18, TicketsSay DEF ExecuteReturn
  <2>2. [dossier EXCEPT !.hired = ticket[t].hired, !.ended = NoDate,
                        !.used = 0, !.status = ticket[t].status] \in Dossier
    BY <1>0, <2>1 DEF Dossier
  <2> QED
    BY <1>0, <1>18, <2>2, AnsweredTyped DEF ExecuteReturn, WriteDossier
<1>19. ASSUME NEW n \in 0..1, NEW add \in BOOLEAN, NEW confirmed \in BOOLEAN,
              SaveSchedule(n, add, confirmed)
       PROVE  FileTypes'
  <2>1. PICK months \in Nat : months = n + (IF add THEN dossier.months ELSE 0)
    BY <1>0 DEF Dossier
  <2>2. OnDossier([dossier EXCEPT !.months = months])
    BY <1>19, <2>1 DEF SaveSchedule
  <2>3. [dossier EXCEPT !.months = months] \in Dossier
    BY <1>0 DEF Dossier
  <2> QED
    BY <1>0, <1>19, <2>2, <2>3, DossierTyped DEF SaveSchedule
<1>20. ASSUME NEW d \in Today, AskReturn(d, "active") \/ AskReturn(d, "leave")
       PROVE  FileTypes'
  <2>1. \A status \in {"active", "leave"} :
          [what |-> "return", hired |-> d, status |-> status] \in Ticket
    BY DEF Ticket, ReturnRequest
  <2> QED
    BY <1>20, <2>1, SubmitTyped DEF AskReturn
<1>21. ASSUME NEW d \in Today, Settle(d) PROVE FileTypes'
  <2>1. [dossier EXCEPT !.status = "terminated", !.ended = d] \in Dossier
    BY <1>0 DEF Dossier
  <2> QED
    BY <1>0, <1>21, <2>1, DossierTyped DEF Settle
<1>22. ASSUME FileNextDay PROVE FileTypes'
  BY <1>22, FileAssumption DEF FileTypes, FileNextDay, Today
<1>23. ASSUME UNCHANGED fileVars PROVE FileTypes'
  BY <1>23 DEF fileVars, FileTypes
<1>27. ASSUME NEW t \in Tickets, ReadClear(t) \/ DropClear(t) PROVE FileTypes'
  BY <1>27 DEF ReadClear, BeginClear, DropClear, FileTypes
<1>24. CASE LeaveNext
  BY <1>24, <1>1, <1>2, <1>3, <1>4, <1>5, <1>6 DEF LeaveNext
<1>25. CASE FileNext
  BY <1>25, <1>7, <1>8, <1>9, <1>10, <1>11, <1>12, <1>13, <1>14, <1>15, <1>16, <1>17, <1>19, <1>27
  DEF FileNext
<1>26. CASE SharedNext
  BY <1>26, <1>15, <1>18, <1>20, <1>21, <1>22 DEF SharedNext
<1> QED
  BY <1>23, <1>24, <1>25, <1>26 DEF EmployeeNext

(* While the file is in order, one leave at most waits, and what is taken,    *)
(* with it, is within what is earned and what edits gave back uncounted; what *)
(* is earned grows.                                                           *)
Base == IF dossier.start # NoDate THEN dossier.start ELSE 0
Counted == {l \in AnnualRows : away[l].from >= Base}
Limit == EarnedLeave + lent
Covered ==
  /\ \A t, u \in Waiting("leave") : t = u
  /\ \A t \in Waiting("leave") :
       ticket[t].row.kind = "annual" => DaysOn(away, Counted) + ticket[t].row.days <= Limit
  /\ DaysOn(away, Counted) <= Limit

LeavesInv ==
  /\ FileTypes /\ lent \in Nat
  /\ Employed => dossier.ended = NoDate
  /\ IsFiniteSet(AnnualRows)
  /\ orderly => Covered

LEMMA FileIs ==
  ASSUME FileTypes
  PROVE  /\ now \in Nat /\ now > 0 /\ dossier.hired \in Nat /\ dossier.used \in Nat
         /\ dossier.opening \in Nat
         /\ dossier.start = NoDate \/ dossier.start \in Nat
         /\ dossier.ended = NoDate \/ dossier.ended \in Nat
         /\ AsOf \in Nat /\ Base \in Nat /\ EarnedLeave \in Nat
         /\ NoDate \notin Int
<1>1. LastNow \in Nat /\ NoDate \notin Int
  BY FileAssumption
<1>2. /\ now \in Today /\ dossier.hired \in Today /\ dossier.used \in Nat
      /\ dossier.opening \in Nat
      /\ dossier.start \in Today \cup {NoDate} /\ dossier.ended \in Today \cup {NoDate}
  BY DEF FileTypes, Dossier
<1>3. /\ now \in Nat /\ now > 0 /\ dossier.hired \in Nat
      /\ dossier.start = NoDate \/ dossier.start \in Nat
      /\ dossier.ended = NoDate \/ dossier.ended \in Nat
  BY <1>1, <1>2 DEF Today
<1>4. AsOf \in Nat
  BY <1>3 DEF AsOf
<1>5. EarnedLeave \in Nat
  BY <1>2, <1>3, <1>4 DEF EarnedLeave, Above
<1>6. Base \in Nat
  BY <1>3 DEF Base
<1> QED
  BY <1>1, <1>2, <1>3, <1>4, <1>5, <1>6

(* The annual leaves of the file.                                             *)
LEMMA LeavesAre ==
  ASSUME FileTypes
  PROVE  /\ \A l \in AnnualRows : away[l] \in LeaveRow /\ away[l].days \in Today
                                  /\ away[l].from \in Today
         /\ DaysTyped(away, AnnualRows) /\ DaysTyped(away, Counted)
<1>1. \A l \in AnnualRows : away[l] \in LeaveRow
  BY DEF AnnualRows, FileTypes
<1> QED
  BY <1>1 DEF LeaveRow, DaysTyped, Counted, Today

LEMMA LeavesCount ==
  ASSUME FileTypes, IsFiniteSet(AnnualRows)
  PROVE  /\ IsFiniteSet(Counted) /\ DaysOn(away, Counted) \in Nat
         /\ DaysOn(away, Counted) = TakenSince(Base)
         /\ dossier.start # NoDate => DaysOn(away, Counted) = UsedLeave
         /\ dossier.start = NoDate /\ AnnualRows # {} => DaysOn(away, Counted) = UsedLeave
         /\ dossier.start = NoDate /\ AnnualRows = {} =>
              DaysOn(away, Counted) = 0 /\ UsedLeave = dossier.used
<1>1. IsFiniteSet(Counted)
  BY FS_Subset DEF Counted
<1>2. DaysOn(away, Counted) \in Nat
  BY <1>1, LeavesAre, DaysAreNat
<1>3. DaysOn(away, Counted) = TakenSince(Base)
  BY DEF DaysOn, TakenSince, Counted
<1>4. AnnualRows = {} => DaysOn(away, Counted) = 0
  <2>1. AnnualRows = {} => Counted = {}
    BY DEF Counted
  <2> QED
    BY <2>1, NoDays
<1> QED
  BY <1>1, <1>2, <1>3, <1>4 DEF UsedLeave, Base

LEMMA LimitIs ==
  ASSUME LeavesInv
  PROVE  Limit \in Nat /\ Limit = EarnedLeave + lent /\ lent \in Nat
BY FileIs DEF LeavesInv, Limit

(* What may still be asked for is what is earned and not taken.               *)
LEMMA RemainingCovers ==
  ASSUME LeavesInv, orderly
  PROVE  RemainingLeave \in Nat /\ DaysOn(away, Counted) + RemainingLeave <= Limit
<1>1. EarnedLeave \in Nat /\ dossier.used \in Nat /\ DaysOn(away, Counted) \in Nat
      /\ DaysOn(away, Counted) <= Limit
  BY FileIs, LeavesCount DEF LeavesInv, Covered
<1>2. PICK e \in Nat, d \in Nat, m \in Nat :
        e = EarnedLeave /\ d = DaysOn(away, Counted) /\ m = Limit /\ e <= m /\ d <= m
  <2>1. PICK e \in Nat, n \in Nat : e = EarnedLeave /\ n = lent /\ Limit = e + n
    BY <1>1, LimitIs
  <2>2. PICK d \in Nat : d = DaysOn(away, Counted)
    BY <1>1
  <2>3. Limit \in Nat /\ e <= Limit /\ d <= Limit
    BY <1>1, <2>1, <2>2
  <2> QED
    BY <2>1, <2>2, <2>3
<1>3. CASE UsedLeave = d
  <2>1. RemainingLeave = Above(e - d)
    BY <1>2, <1>3 DEF RemainingLeave
  <2>2. RemainingLeave = IF e - d > 0 THEN e - d ELSE 0
    BY <1>1, <1>2, <2>1 DEF Above
  <2> QED
    BY <1>2, <2>2
<1>4. CASE UsedLeave = dossier.used /\ d = 0
  <2>1. RemainingLeave <= e /\ RemainingLeave \in Nat
    BY <1>1, <1>2, <1>4 DEF RemainingLeave, Above
  <2> QED
    BY <1>2, <1>4, <2>1
<1> QED
  BY <1>2, <1>3, <1>4, LeavesCount DEF LeavesInv

(* A step that leaves the leaves as they are and asks for none.               *)
LEMMA AboveGrows ==
  ASSUME NEW a \in Nat, NEW b \in Nat, NEW d \in Nat, a <= b
  PROVE  Above(b - d) >= Above(a - d)
BY DEF Above

LEMMA EarnedGrows ==
  ASSUME FileTypes, FileTypes', SameBasis(dossier'), AsOf' >= AsOf
  PROVE  EarnedLeave' >= EarnedLeave /\ Base' = Base
<1>1. /\ dossier'.hired = dossier.hired /\ dossier'.start = dossier.start
      /\ dossier'.opening = dossier.opening
  BY DEF SameBasis
<1>2. PICK a \in Nat, b \in Nat : a = AsOf /\ b = AsOf' /\ a <= b
  <2>1. AsOf \in Nat
    BY FileIs
  <2>2. AsOf' \in Nat
    BY FileAssumption DEF FileTypes, Dossier, Today, AsOf
  <2> QED
    BY <2>1, <2>2
<1>3. ASSUME NEW d \in Nat PROVE Above(b - d) >= Above(a - d)
  BY <1>2, AboveGrows
<1>4. Above(b - dossier.hired) \in Nat /\ Above(a - dossier.hired) \in Nat
  BY <1>2, FileIs DEF Above
<1>5. dossier.start # NoDate => Above(b - dossier.start) \in Nat /\ Above(a - dossier.start) \in Nat
  BY <1>2, FileIs DEF Above
<1>6. EarnedLeave = IF dossier.start # NoDate THEN dossier.opening + Above(a - dossier.start)
                    ELSE Above(a - dossier.hired)
  BY <1>2 DEF EarnedLeave
<1>7. EarnedLeave' = IF dossier.start # NoDate THEN dossier.opening + Above(b - dossier.start)
                     ELSE Above(b - dossier.hired)
  BY <1>1, <1>2 DEF EarnedLeave
<1>8. CASE dossier.start # NoDate
  <2>1. dossier.start \in Nat /\ dossier.opening \in Nat
    BY <1>8, FileIs
  <2>2. Above(b - dossier.start) >= Above(a - dossier.start)
    BY <1>3, <2>1
  <2> QED
    BY <1>1, <1>5, <1>6, <1>7, <1>8, <2>1, <2>2 DEF Base
<1>9. CASE dossier.start = NoDate
  <2>1. Above(b - dossier.hired) >= Above(a - dossier.hired)
    BY <1>3, FileIs
  <2> QED
    BY <1>1, <1>6, <1>7, <1>9, <2>1 DEF Base
<1> QED
  BY <1>8, <1>9

LEMMA LeavesStay ==
  ASSUME LeavesInv, FileTypes', UNCHANGED <<away, lent>>,
         orderly' => orderly /\ SameBasis(dossier') /\ AsOf' >= AsOf,
         Employed' => dossier'.ended = NoDate,
         \A t \in Waiting("leave")' : t \in Waiting("leave") /\ ticket'[t] = ticket[t]
  PROVE  LeavesInv'
<1>1. AnnualRows' = AnnualRows
  BY DEF AnnualRows
<1>2. ASSUME orderly' PROVE Covered'
  <2>1. EarnedLeave' >= EarnedLeave /\ Base' = Base
    BY <1>2, EarnedGrows DEF LeavesInv
  <2>2. Counted' = Counted
    BY <1>1, <2>1 DEF Counted
  <2>3. DaysOn(away, Counted)' = DaysOn(away, Counted)
    BY <2>2
  <2>4. Covered /\ DaysOn(away, Counted) \in Nat /\ EarnedLeave \in Nat /\ lent \in Nat
    BY <1>2, FileIs, LeavesCount DEF LeavesInv
  <2>5. Limit' >= Limit /\ Limit \in Nat /\ Limit' \in Int
    <3>1. EarnedLeave' \in Int
      BY FileAssumption DEF FileTypes, Dossier, Today, AsOf, EarnedLeave, Above
    <3>2. lent' = lent
      OBVIOUS
    <3> HIDE DEF EarnedLeave
    <3> QED
      BY <2>1, <2>4, <3>1, <3>2 DEF Limit
  <2>6. ASSUME NEW t \in Waiting("leave")', ticket'[t].row.kind = "annual"
        PROVE  DaysOn(away, Counted)' + ticket'[t].row.days <= Limit'
    <3>1. t \in Waiting("leave") /\ ticket'[t] = ticket[t]
      OBVIOUS
    <3>2. DaysOn(away, Counted) + ticket[t].row.days <= Limit
      BY <2>4, <2>6, <3>1 DEF Covered
    <3>3. ticket[t].row.days \in Int
      BY <3>1, TicketsSay, FileAssumption DEF LeavesInv, LeaveRow
    <3> QED
      BY <2>3, <2>4, <2>5, <3>1, <3>2, <3>3
  <2>7. DaysOn(away, Counted)' <= Limit'
    BY <2>3, <2>4, <2>5 DEF Covered
  <2>8. \A t, u \in Waiting("leave")' : t = u
    BY <2>4 DEF Covered
  <2> QED
    BY <2>6, <2>7, <2>8 DEF Covered
<1> QED
  BY <1>1, <1>2 DEF LeavesInv

(* A leave is asked for.                                                      *)
LEMMA AskLeaveCovered ==
  ASSUME LeavesInv, FileTypes', NEW kind \in {"annual", "unpaid"},
         NEW from \in Today, NEW days \in Today, AskLeave(kind, from, days)
  PROVE  LeavesInv'
<1>1. PICK u \in Tickets :
        /\ ticket[u] = NoTicket
        /\ ticket' = [ticket EXCEPT ![u] = [what |-> "leave", row |-> NewLeave(kind, from, days)]]
        /\ UNCHANGED <<now, dossier, away, lent>>
  BY DEF AskLeave, Submit
<1>2. /\ ticket'[u].row = NewLeave(kind, from, days)
      /\ \A t \in Tickets \ {u} : ticket'[t] = ticket[t]
  BY <1>1 DEF LeavesInv, FileTypes
<1>3. AnnualRows' = AnnualRows /\ Employed' = Employed
  BY <1>1 DEF AnnualRows, Employed
<1>4. ASSUME orderly' PROVE Covered'
  <2>1. orderly /\ Waiting("leave") = {}
    BY <1>4 DEF AskLeave
  <2>2. \A t \in Waiting("leave")' : t = u
    BY <1>2, <2>1 DEF Waiting
  <2>3. Base' = Base /\ Counted' = Counted /\ Limit' = Limit
    BY <1>1, <1>3 DEF Base, Counted, EarnedLeave, AsOf, Limit
  <2>4. DaysOn(away, Counted)' = DaysOn(away, Counted)
    BY <1>1, <2>3
  <2>5. DaysOn(away, Counted) <= Limit
    BY <2>1 DEF LeavesInv, Covered
  <2>6. ASSUME kind = "annual" PROVE DaysOn(away, Counted) + days <= Limit
    <3>1. days <= RemainingLeave
      BY <2>6 DEF AskLeave
    <3>2. days \in Nat /\ DaysOn(away, Counted) \in Nat /\ Limit \in Nat
      BY LeavesCount, LimitIs, FileAssumption DEF Today, LeavesInv
    <3>3. RemainingLeave \in Nat /\ DaysOn(away, Counted) + RemainingLeave <= Limit
      BY <2>1, RemainingCovers
    <3> QED
      BY <3>1, <3>2, <3>3
  <2>7. ticket'[u].row.kind = kind /\ ticket'[u].row.days = days
    BY <1>2 DEF NewLeave
  <2> QED
    BY <2>2, <2>3, <2>4, <2>5, <2>6, <2>7 DEF Covered
<1> QED
  BY <1>1, <1>3, <1>4 DEF LeavesInv

(* One leave changes: what is taken is what the others take and its own days. *)
LEMMA FileDaysTyped ==
  ASSUME NEW A \in [LeaveRows -> LeaveRow \cup {NoLeave}],
         NEW S \in SUBSET {l \in LeaveRows : A[l] # NoLeave}
  PROVE  DaysTyped(A, S)
BY DEF DaysTyped, LeaveRow, Today

LEMMA OneLeaveChanged ==
  ASSUME FileTypes, FileTypes', IsFiniteSet(AnnualRows), Base' = Base, NEW l \in LeaveRows,
         \A o \in LeaveRows \ {l} : away'[o] = away[o]
  PROVE  /\ IsFiniteSet(AnnualRows')
         /\ \E rest \in Nat :
              /\ DaysOn(away, Counted) = rest + (IF l \in Counted THEN away[l].days ELSE 0)
              /\ DaysOn(away, Counted)' = rest + (IF l \in Counted' THEN away'[l].days ELSE 0)
<1>1. IsFiniteSet(AnnualRows')
  <2>1. IsFiniteSet(AnnualRows \cup {l})
    BY FS_AddElement
  <2>2. AnnualRows' \in SUBSET (AnnualRows \cup {l})
    BY DEF AnnualRows
  <2> QED
    BY <2>1, <2>2, FS_Subset
<1>2. IsFiniteSet(Counted) /\ IsFiniteSet(Counted')
  BY <1>1, FS_Subset DEF Counted
<1>3. Counted' \ {l} = Counted \ {l}
  BY DEF Counted, AnnualRows
<1>4. DaysTyped(away, Counted) /\ DaysTyped(away', Counted')
  BY FileDaysTyped DEF FileTypes, Counted, AnnualRows
<1>5. IsFiniteSet(Counted \ {l}) /\ DaysTyped(away, Counted \ {l})
  BY <1>2, <1>4, FS_Subset DEF DaysTyped
<1>6. DaysOn(away', Counted \ {l}) = DaysOn(away, Counted \ {l})
  <2>1. \A o \in Counted \ {l} : away'[o].days = away[o].days
    BY DEF Counted, AnnualRows
  <2> QED
    BY <1>5, <2>1, SameDays
<1>7. PICK rest \in Nat : rest = DaysOn(away, Counted \ {l})
  BY <1>5, DaysAreNat
<1>8. DaysOn(away, Counted) = rest + (IF l \in Counted THEN away[l].days ELSE 0)
  <2>1. CASE l \in Counted
    <3>1. DaysOn(away, Counted) = away[l].days + DaysOn(away, Counted \ {l})
      BY <1>2, <1>4, <2>1, DaysOfOneMore
    <3>2. away[l].days \in Nat
      BY <1>4, <2>1, FileAssumption DEF DaysTyped, Today
    <3> QED
      BY <1>7, <2>1, <3>1, <3>2
  <2>2. CASE l \notin Counted
    <3>1. Counted \ {l} = Counted
      BY <2>2
    <3> QED
      BY <1>7, <2>2, <3>1
  <2> QED
    BY <2>1, <2>2
<1>9. DaysOn(away', Counted') = rest + (IF l \in Counted' THEN away'[l].days ELSE 0)
  <2>1. CASE l \in Counted'
    <3>1. DaysOn(away', Counted') = away'[l].days + DaysOn(away', Counted' \ {l})
      BY <1>2, <1>4, <2>1, DaysOfOneMore
    <3>2. away'[l].days \in Nat
      BY <1>4, <2>1, FileAssumption DEF DaysTyped, Today
    <3> QED
      BY <1>3, <1>6, <1>7, <2>1, <3>1, <3>2
  <2>2. CASE l \notin Counted'
    <3>1. Counted' = Counted \ {l}
      BY <1>3, <2>2
    <3>2. DaysOn(away', Counted') = rest
      BY <1>6, <1>7, <3>1
    <3> QED
      BY <2>2, <3>2
  <2> QED
    BY <2>1, <2>2
<1> QED
  BY <1>1, <1>8, <1>9

(* The leave that waited is taken.                                            *)
LEMMA ExecuteLeaveCovered ==
  ASSUME LeavesInv, FileTypes', NEW t \in Tickets, ExecuteLeave(t)
  PROVE  LeavesInv'
<1>1. t \in Waiting("leave") /\ ticket[t].row \in LeaveRow
  BY TicketsSay DEF ExecuteLeave, LeavesInv
<1>2. PICK row \in LeaveRow : row = ticket[t].row
  BY <1>1
<1>3. PICK l \in LeaveRows : away[l] = NoLeave /\ away' = [away EXCEPT ![l] = row]
  BY <1>2 DEF ExecuteLeave
<1>4. /\ dossier'.hired = dossier.hired /\ dossier'.start = dossier.start
      /\ dossier'.opening = dossier.opening /\ dossier'.ended = dossier.ended
      /\ dossier'.status = dossier.status /\ UNCHANGED <<now, orderly, lent>>
  BY DEF ExecuteLeave, Answered, LeavesInv, FileTypes, Dossier, credit
<1>5. Base' = Base /\ Limit' = Limit /\ (Employed' => dossier'.ended = NoDate)
  BY <1>4 DEF Base, EarnedLeave, AsOf, Employed, LeavesInv, Limit
<1>6. away'[l] = row /\ \A o \in LeaveRows \ {l} : away'[o] = away[o]
  BY <1>3 DEF LeavesInv, FileTypes
<1>7. l \notin Counted /\ (l \in Counted' => row.kind = "annual")
  BY <1>3, <1>6 DEF Counted, AnnualRows
<1>8. IsFiniteSet(AnnualRows')
      /\ \E rest \in Nat :
           /\ DaysOn(away, Counted) = rest + (IF l \in Counted THEN away[l].days ELSE 0)
           /\ DaysOn(away, Counted)' = rest + (IF l \in Counted' THEN away'[l].days ELSE 0)
  BY <1>5, <1>6, OneLeaveChanged DEF LeavesInv
<1>9. ASSUME orderly' PROVE Covered'
  <2>1. orderly /\ Covered /\ Limit \in Nat
    BY <1>4, <1>9, LimitIs DEF LeavesInv
  <2>2. Waiting("leave")' = {}
    <3>1. ticket' = [ticket EXCEPT ![t] = NoTicket]
      BY DEF ExecuteLeave, Answered
    <3>2. \A u \in Tickets : u = t \/ ticket'[u] = ticket[u]
      BY <3>1 DEF LeavesInv, FileTypes
    <3>3. ticket'[t] = NoTicket
      BY <3>1 DEF LeavesInv, FileTypes
    <3> QED
      BY <1>1, <2>1, <3>2, <3>3 DEF Waiting, Covered
  <2>3. row.days \in Nat
    BY FileAssumption DEF LeaveRow
  <2>4. row.kind = "annual" => DaysOn(away, Counted) + row.days <= Limit
    BY <1>1, <1>2, <2>1 DEF Covered
  <2>5. DaysOn(away, Counted) <= Limit
    BY <2>1 DEF Covered
  <2>6. PICK rest \in Nat :
          /\ DaysOn(away, Counted) = rest
          /\ DaysOn(away, Counted)' = rest + (IF l \in Counted' THEN row.days ELSE 0)
    BY <1>6, <1>7, <1>8
  <2>7. DaysOn(away, Counted)' <= Limit
    <3>1. CASE l \in Counted'
      BY <1>7, <2>3, <2>4, <2>6, <3>1
    <3>2. CASE l \notin Counted'
      BY <2>5, <2>6, <3>2
    <3> QED
      BY <3>1, <3>2
  <2> QED
    BY <1>5, <2>2, <2>7 DEF Covered
<1> QED
  BY <1>4, <1>5, <1>8, <1>9 DEF LeavesInv

(* A leave on record is changed, deleted, or charged by a run.                *)
LEMMA EditLeaveCovered ==
  ASSUME LeavesInv, FileTypes', NEW l \in LeaveRows, NEW kind \in {"annual", "unpaid"},
         NEW from \in Today, NEW days \in Today, EditLeave(l, kind, from, days)
  PROVE  LeavesInv'
<1>1. /\ away' = [away EXCEPT ![l] = NewLeave(kind, from, days)]
      /\ UNCHANGED <<now, dossier, ticket>> /\ away[l] # NoLeave
  BY DEF EditLeave
<1>2. Base' = Base /\ EarnedLeave' = EarnedLeave /\ (Employed' => dossier'.ended = NoDate)
      /\ Waiting("leave")' = Waiting("leave")
  BY <1>1 DEF Base, EarnedLeave, AsOf, Employed, LeavesInv, Waiting
<1>3. away'[l] = NewLeave(kind, from, days) /\ \A o \in LeaveRows \ {l} : away'[o] = away[o]
  BY <1>1 DEF LeavesInv, FileTypes
<1>4. away'[l].kind = kind /\ away'[l].days = days
  BY <1>3 DEF NewLeave
<1>5. IsFiniteSet(AnnualRows')
      /\ \E rest \in Nat :
           /\ DaysOn(away, Counted) = rest + (IF l \in Counted THEN away[l].days ELSE 0)
           /\ DaysOn(away, Counted)' = rest + (IF l \in Counted' THEN away'[l].days ELSE 0)
  BY <1>2, <1>3, OneLeaveChanged DEF LeavesInv
<1>6. away[l] \in LeaveRow
  BY <1>1 DEF LeavesInv, FileTypes
<1>7. PICK old \in Nat, extra \in Nat :
        /\ old = GivenBack(l) /\ extra = (IF kind = "annual" /\ Early(l) THEN old ELSE 0)
        /\ lent' = lent + extra
  <2>1. GivenBack(l) \in Nat
    BY <1>6, FileAssumption DEF LeaveRow, GivenBack
  <2> QED
    BY <2>1 DEF EditLeave
<1>8. Limit \in Nat /\ Limit' = Limit + extra /\ lent' \in Nat
  BY <1>2, <1>7, LimitIs, FileIs DEF Limit, LeavesInv
<1>9. ASSUME orderly' PROVE Covered'
  <2>1. orderly /\ Covered /\ Waiting("leave") = {}
    BY <1>9 DEF LeavesInv, EditLeave
  <2>2. l \in Counted <=> away[l].kind = "annual" /\ ~Early(l)
    <3>1. away[l].from \in Nat /\ away[l].from >= 0
      BY <1>6, FileAssumption DEF LeaveRow, Today
    <3>2. dossier.start = NoDate \/ dossier.start \in Nat
      BY FileIs DEF LeavesInv
    <3>3. away[l].from >= Base <=> ~Early(l)
      BY <3>1, <3>2 DEF Base, Early
    <3> QED
      BY <1>1, <3>3 DEF Counted, AnnualRows
  <2>3. PICK rest \in Nat :
          /\ DaysOn(away, Counted) = rest + (IF l \in Counted THEN old ELSE 0)
          /\ DaysOn(away, Counted)' = rest + (IF l \in Counted' THEN days ELSE 0)
    <3>1. PICK rest \in Nat :
            /\ DaysOn(away, Counted) = rest + (IF l \in Counted THEN away[l].days ELSE 0)
            /\ DaysOn(away, Counted)' = rest + (IF l \in Counted' THEN away'[l].days ELSE 0)
      BY <1>5
    <3>2. l \in Counted => away[l].days = old
      BY <1>7, <2>2 DEF GivenBack
    <3> QED
      BY <1>4, <3>1, <3>2
  <2>4. DaysOn(away, Counted) <= Limit
    BY <2>1 DEF Covered
  <2>5. days \in Nat
    BY FileAssumption DEF Today
  <2>6. ASSUME kind = "annual" PROVE rest + days <= Limit + extra
    <3>1. days <= RemainingLeave + old
      BY <1>7, <2>6 DEF EditLeave
    <3>2. RemainingLeave \in Nat /\ DaysOn(away, Counted) + RemainingLeave <= Limit
      BY <2>1, RemainingCovers
    <3>3. CASE l \in Counted
      BY <1>7, <1>8, <2>3, <2>5, <3>1, <3>2, <3>3
    <3>4. CASE l \notin Counted
      <4>1. old = 0 \/ extra = old
        <5>1. CASE away[l].kind = "annual"
          BY <1>7, <2>2, <2>6, <3>4, <5>1
        <5>2. CASE away[l].kind # "annual"
          BY <1>7, <5>2 DEF GivenBack
        <5> QED
          BY <5>1, <5>2
      <4> QED
        BY <1>7, <1>8, <2>3, <2>5, <3>1, <3>2, <3>4, <4>1
    <3> QED
      BY <3>3, <3>4
  <2>7. DaysOn(away, Counted)' <= Limit'
    <3>1. CASE l \in Counted'
      <4>1. kind = "annual"
        BY <1>4, <3>1 DEF Counted, AnnualRows
      <4> QED
        BY <1>8, <2>3, <2>6, <3>1, <4>1
    <3>2. CASE l \notin Counted'
      BY <1>7, <1>8, <2>3, <2>4, <3>2
    <3> QED
      BY <3>1, <3>2
  <2> QED
    BY <1>2, <2>1, <2>7 DEF Covered
<1> QED
  BY <1>2, <1>5, <1>8, <1>9 DEF LeavesInv

LEMMA FewerLeavesCovered ==
  ASSUME LeavesInv, FileTypes', NEW l \in LeaveRows, DeleteLeave(l) \/ ApplyLeave(l)
  PROVE  LeavesInv'
<1>1. UNCHANGED <<now, dossier, ticket, orderly, lent>> /\ l \notin Counted'
      /\ \A o \in LeaveRows \ {l} : away'[o] = away[o]
  BY DEF DeleteLeave, ApplyLeave, LeavesInv, FileTypes, Counted, AnnualRows, LeaveRow, credit
<1>2. Base' = Base /\ Limit' = Limit /\ (Employed' => dossier'.ended = NoDate)
      /\ Waiting("leave")' = Waiting("leave")
  BY <1>1 DEF Base, EarnedLeave, AsOf, Employed, LeavesInv, Waiting, Limit
<1>3. IsFiniteSet(AnnualRows')
      /\ \E rest \in Nat :
           /\ DaysOn(away, Counted) = rest + (IF l \in Counted THEN away[l].days ELSE 0)
           /\ DaysOn(away, Counted)' = rest + (IF l \in Counted' THEN away'[l].days ELSE 0)
  BY <1>1, <1>2, OneLeaveChanged DEF LeavesInv
<1>4. ASSUME orderly PROVE Covered'
  <2>1. Covered /\ Limit \in Nat
    BY <1>4, LimitIs DEF LeavesInv
  <2>2. PICK n \in Nat : n = IF l \in Counted THEN away[l].days ELSE 0
    BY FileAssumption DEF LeavesInv, FileTypes, Counted, AnnualRows, LeaveRow
  <2>3. PICK rest \in Nat : DaysOn(away, Counted) = rest + n /\ DaysOn(away, Counted)' = rest + 0
    BY <1>1, <1>3, <2>2
  <2>4. DaysOn(away, Counted)' <= DaysOn(away, Counted)
        /\ DaysOn(away, Counted)' \in Nat /\ DaysOn(away, Counted) \in Nat
    BY <2>3
  <2>5. ASSUME NEW t \in Waiting("leave"), ticket[t].row.kind = "annual"
        PROVE  DaysOn(away, Counted)' + ticket[t].row.days <= Limit
    <3>1. ticket[t].row.days \in Nat
      BY TicketsSay, FileAssumption DEF LeavesInv, LeaveRow
    <3>2. DaysOn(away, Counted) + ticket[t].row.days <= Limit
      BY <2>1, <2>5 DEF Covered
    <3> QED
      BY <2>1, <2>4, <3>1, <3>2
  <2>6. DaysOn(away, Counted)' <= Limit
    BY <2>1, <2>4 DEF Covered
  <2> QED
    BY <1>1, <1>2, <2>1, <2>5, <2>6 DEF Covered
<1> QED
  BY <1>1, <1>2, <1>3, <1>4 DEF LeavesInv

LEMMA OthersCovered ==
  ASSUME LeavesInv, FileTypes', UNCHANGED <<away, now, credit>>, SameBasis(dossier'),
         dossier'.ended = dossier.ended, dossier'.status = dossier.status,
         \A t \in Waiting("leave")' : t \in Waiting("leave") /\ ticket'[t] = ticket[t]
  PROVE  LeavesInv'
<1>1. Employed' => dossier'.ended = NoDate
  BY DEF Employed, LeavesInv
<1>2. AsOf' = AsOf /\ AsOf \in Nat
  BY FileIs DEF AsOf, LeavesInv
<1>3. AsOf' >= AsOf
  BY <1>2
<1> QED
  BY <1>1, <1>3, LeavesStay DEF credit

(* Tickets that are no leaves come and go.                                    *)
LEMMA OtherTicketCovered ==
  ASSUME LeavesInv, FileTypes', NEW r, r.what # "leave", Submit(r), UNCHANGED credit
  PROVE  LeavesInv'
<1>1. PICK u \in Tickets : ticket' = [ticket EXCEPT ![u] = r]
        /\ UNCHANGED <<now, dossier, away>>
  BY DEF Submit
<1>2. \A t \in Waiting("leave")' : t \in Waiting("leave") /\ ticket'[t] = ticket[t]
  BY <1>1 DEF Waiting, LeavesInv, FileTypes
<1> QED
  BY <1>1, <1>2, OthersCovered DEF SameBasis

LEMMA TicketsAnswered ==
  ASSUME FileTypes, NEW t \in Tickets, Answered(t)
  PROVE  \A u \in Waiting("leave")' : u \in Waiting("leave") /\ ticket'[u] = ticket[u]
BY DEF Answered, Waiting, FileTypes

LEMMA AnsweredCovered ==
  ASSUME LeavesInv, FileTypes', NEW t \in Tickets, Answered(t), UNCHANGED <<away, credit>>,
         SameBasis(dossier'), dossier'.ended = dossier.ended, dossier'.status = dossier.status
  PROVE  LeavesInv'
BY TicketsAnswered, OthersCovered DEF LeavesInv, Answered

LEMMA DossierCovered ==
  ASSUME LeavesInv, FileTypes', UNCHANGED <<away, now, ticket, lent>>,
         dossier'.ended = dossier.ended, dossier'.status = dossier.status,
         orderly' => orderly /\ SameBasis(dossier')
  PROVE  LeavesInv'
<1>1. Employed' => dossier'.ended = NoDate
  BY DEF Employed, LeavesInv
<1>2. AsOf' = AsOf /\ AsOf \in Nat
  BY FileIs DEF AsOf, LeavesInv
<1>3. AsOf' >= AsOf
  BY <1>2
<1>4. \A t \in Waiting("leave")' : t \in Waiting("leave") /\ ticket'[t] = ticket[t]
  BY DEF Waiting
<1> QED
  BY <1>1, <1>3, <1>4, LeavesStay

LEMMA FileCovered ==
  ASSUME LeavesInv, FileTypes', [EmployeeNext]_fileVars
  PROVE  LeavesInv'
<1>0. dossier \in Dossier /\ editing \in Dossier \cup {NoEdit}
  BY DEF LeavesInv, FileTypes
<1>1. ASSUME NEW start \in Today \cup {NoDate}, NEW opening \in 0..1, NEW used \in 0..1,
             SaveLeaveSettings(start, opening, used)
      PROVE  LeavesInv'
  <2>1. /\ UNCHANGED <<away, now, ticket, lent>> /\ (orderly' => orderly /\ SameBasis(dossier'))
        /\ dossier' = [dossier EXCEPT !.start = start, !.opening = opening,
                                     !.used = IF start = NoDate THEN used ELSE @]
    BY <1>1 DEF SaveLeaveSettings, OnDossier
  <2>2. dossier'.ended = dossier.ended /\ dossier'.status = dossier.status
    BY <1>0, <2>1 DEF Dossier
  <2> QED
    BY <2>1, <2>2, DossierCovered
<1>2. ASSUME NEW w \in Wages, AskWage(w) PROVE LeavesInv'
  BY <1>2, OtherTicketCovered DEF AskWage
<1>3. ASSUME NEW w \in Wages, SaveEdit(w) PROVE LeavesInv'
  <2>1. /\ UNCHANGED <<away, now, ticket, lent>> /\ (orderly' => orderly /\ SameBasis(dossier'))
        /\ dossier' = [editing EXCEPT !.status = dossier.status, !.ended = dossier.ended,
                                     !.months = dossier.months, !.wage = w]
        /\ editing \in Dossier
    BY <1>0, <1>3 DEF SaveEdit, OnDossier
  <2>2. dossier'.ended = dossier.ended /\ dossier'.status = dossier.status
    BY <2>1 DEF Dossier
  <2> QED
    BY <2>1, <2>2, DossierCovered
<1>4. ASSUME AskRaise(1) PROVE LeavesInv'
  BY <1>4, OtherTicketCovered DEF AskRaise, AskWage
<1>5. ASSUME AskTrip PROVE LeavesInv'
  BY <1>5, OtherTicketCovered DEF AskTrip
<1>6. ASSUME OpenEdit PROVE LeavesInv'
  BY <1>6, DossierCovered DEF OpenEdit, SameBasis, credit
<1>7. ASSUME NEW d \in Today, AskAbsence(d) PROVE LeavesInv'
  BY <1>7, OtherTicketCovered DEF AskAbsence
<1>8. ASSUME NEW p \in Places \cup {NoDate}, AskMove(p) PROVE LeavesInv'
  BY <1>8, OtherTicketCovered DEF AskMove
<1>9. ASSUME NEW i \in Items, AskReceive(i) \/ AskClear(i) PROVE LeavesInv'
  BY <1>9, OtherTicketCovered DEF AskReceive, AskClear
<1>10. ASSUME NEW t \in Tickets,
              ExecuteReceive(t) \/ SaveClear(t) \/ ExecuteTrip(t) \/ ExecuteAbsence(t) \/ Refuse(t)
       PROVE  LeavesInv'
  <2>1. Answered(t) /\ UNCHANGED <<dossier, away, credit>>
    BY <1>10 DEF ExecuteReceive, SaveClear, ExecuteTrip, ExecuteAbsence, WriteRow, Refuse
  <2> QED
    BY <2>1, AnsweredCovered DEF SameBasis
<1>11. ASSUME NEW t \in Tickets, ExecuteWage(t) \/ ExecuteMove(t) PROVE LeavesInv'
  <2>1. /\ SameBasis(dossier') /\ dossier'.ended = dossier.ended
        /\ dossier'.status = dossier.status
    BY <1>0, <1>11 DEF ExecuteWage, ExecuteMove, WriteDossier, SameBasis, Dossier
  <2>2. Answered(t) /\ UNCHANGED <<away, credit>>
    BY <1>11 DEF ExecuteWage, ExecuteMove, WriteDossier
  <2> QED
    BY <2>1, <2>2, AnsweredCovered
<1>12. ASSUME NEW t \in Tickets, ExecuteReturn(t) PROVE LeavesInv'
  <2>1. /\ Answered(t) /\ UNCHANGED <<away, lent>> /\ ~orderly'
        /\ dossier' = [dossier EXCEPT !.hired = ticket[t].hired, !.ended = NoDate,
                                     !.used = 0, !.status = ticket[t].status]
    BY <1>12 DEF ExecuteReturn, WriteDossier
  <2>2. dossier'.ended = NoDate
    BY <1>0, <2>1 DEF Dossier
  <2> QED
    BY <2>1, <2>2, TicketsAnswered, LeavesStay DEF LeavesInv
<1>13. ASSUME NEW n \in 0..1, NEW add \in BOOLEAN, NEW confirmed \in BOOLEAN,
              SaveSchedule(n, add, confirmed)
       PROVE  LeavesInv'
  <2>1. /\ UNCHANGED <<away, now, ticket, orderly, lent>>
        /\ dossier' = [dossier EXCEPT !.months = n + (IF add THEN @ ELSE 0)]
    BY <1>13 DEF SaveSchedule, OnDossier, credit
  <2>2. /\ SameBasis(dossier') /\ dossier'.ended = dossier.ended
        /\ dossier'.status = dossier.status
    BY <1>0, <2>1 DEF SameBasis, Dossier
  <2> QED
    BY <2>1, <2>2, DossierCovered
<1>14. ASSUME NEW d \in Today, AskReturn(d, "active") \/ AskReturn(d, "leave")
       PROVE  LeavesInv'
  BY <1>14, OtherTicketCovered DEF AskReturn
<1>15. ASSUME NEW d \in Today, Settle(d) PROVE LeavesInv'
  <2>1. /\ UNCHANGED <<away, now, ticket, lent>> /\ Employed /\ (orderly' => orderly /\ d >= now)
        /\ dossier' = [dossier EXCEPT !.status = "terminated", !.ended = d]
    BY <1>15 DEF Settle, OnDossier
  <2>2. /\ SameBasis(dossier') /\ dossier'.ended = d /\ ~Employed'
    BY <1>0, <2>1 DEF SameBasis, Employed, Dossier
  <2>3. d # NoDate /\ d \in Nat
    BY FileAssumption DEF Today
  <2>4. AsOf = now /\ AsOf' = d
    BY <2>1, <2>2, <2>3 DEF AsOf, LeavesInv
  <2>5. \A t \in Waiting("leave")' : t \in Waiting("leave") /\ ticket'[t] = ticket[t]
    BY <2>1 DEF Waiting
  <2> QED
    BY <2>1, <2>2, <2>4, <2>5, LeavesStay
<1>16. ASSUME FileNextDay PROVE LeavesInv'
  <2>1. UNCHANGED <<dossier, away, ticket, orderly, lent>> /\ now' = now + 1 /\ now \in Nat
    BY <1>16, FileIs DEF FileNextDay, LeavesInv, credit
  <2>2. AsOf' >= AsOf
    <3>1. CASE dossier.ended = NoDate
      BY <2>1, <3>1 DEF AsOf
    <3>2. CASE dossier.ended # NoDate
      BY <2>1, <3>2, FileIs DEF AsOf, LeavesInv
    <3> QED
      BY <3>1, <3>2
  <2>3. \A t \in Waiting("leave")' : t \in Waiting("leave") /\ ticket'[t] = ticket[t]
    BY <2>1 DEF Waiting
  <2>4. SameBasis(dossier') /\ (Employed' => dossier'.ended = NoDate)
    BY <2>1 DEF SameBasis, Employed, LeavesInv
  <2> QED
    BY <2>1, <2>2, <2>3, <2>4, LeavesStay
<1>17. ASSUME UNCHANGED fileVars PROVE LeavesInv'
  BY <1>17, DossierCovered DEF fileVars, SameBasis, credit
<1>21. ASSUME NEW t \in Tickets, ReadClear(t) \/ DropClear(t) PROVE LeavesInv'
  BY <1>21, DossierCovered DEF ReadClear, BeginClear, DropClear, SameBasis, credit
<1>18. CASE LeaveNext
  BY <1>18, <1>1, AskLeaveCovered, EditLeaveCovered, ExecuteLeaveCovered, FewerLeavesCovered
  DEF LeaveNext
<1>19. CASE FileNext
  BY <1>19, <1>2, <1>3, <1>4, <1>5, <1>6, <1>7, <1>8, <1>9, <1>10, <1>11, <1>13, <1>21 DEF FileNext
<1>20. CASE SharedNext
  BY <1>20, <1>10, <1>12, <1>14, <1>15, <1>16 DEF SharedNext
<1> QED
  BY <1>17, <1>18, <1>19, <1>20 DEF EmployeeNext

(* However leaves are asked for, approved, edited, deleted and charged, and   *)
(* however the employee is settled meanwhile: as long as one leave waits at a *)
(* time, what leave is earned from stays, and no settlement is dated back, the *)
(* leave taken exceeds the leave earned by no more than the days of leaves    *)
(* from before the accrual that edits gave back.                              *)
THEOREM LeaveIsEarned == EmployeeSpec => []TakenWithinEarned
<1>1. FileInit => LeavesInv
  <2> SUFFICES ASSUME FileInit PROVE LeavesInv
    OBVIOUS
  <2>1. /\ now = 1 /\ orderly = TRUE /\ lent = 0 /\ editing = NoEdit
        /\ away \in [LeaveRows -> LeaveRow \cup {NoLeave}] /\ \A l \in LeaveRows : away[l] = NoLeave
        /\ ticket \in [Tickets -> Ticket \cup {NoTicket}] /\ \A t \in Tickets : ticket[t] = NoTicket
    BY DEF FileInit
  <2>2. /\ (CHOOSE w \in Wages : TRUE) \in Nat /\ (CHOOSE p \in Places : TRUE) \in Places
        /\ 1 \in Today
    <3>1. Wages # {} /\ Places # {} /\ Wages \subseteq Nat /\ LastNow \in Nat \ {0}
      BY FileAssumption
    <3>2. (CHOOSE w \in Wages : TRUE) \in Wages
      BY <3>1
    <3>3. (CHOOSE p \in Places : TRUE) \in Places
      BY <3>1
    <3>4. 1 \in Today
      BY <3>1 DEF Today
    <3> QED
      BY <3>1, <3>2, <3>3, <3>4
  <2>3. /\ dossier \in Dossier /\ dossier.ended = NoDate
    <3>1. PICK w \in Nat, p \in Places :
            dossier \in [status : {"active"}, wage : {w}, place : {p}, hired : {1},
                         ended : {NoDate}, used : {0}, start : {1, NoDate}, opening : {0, 1},
                         months : {0}]
      BY <2>2 DEF FileInit
    <3> QED
      BY <2>2, <3>1 DEF Dossier
  <2>4. FileTypes
    BY <2>1, <2>2, <2>3 DEF FileTypes
  <2>5. AnnualRows = {} /\ Waiting("leave") = {} /\ Counted = {}
    BY <2>1 DEF AnnualRows, Waiting, Counted
  <2>6. Covered
    BY <2>1, <2>4, <2>5, NoDays, FileIs DEF Covered, Limit
  <2> QED
    BY <2>1, <2>3, <2>4, <2>5, <2>6, FS_EmptySet DEF LeavesInv
<1>2. LeavesInv /\ [EmployeeNext]_fileVars => LeavesInv'
  BY FileTypesKept, FileCovered DEF LeavesInv
<1>3. LeavesInv => TakenWithinEarned
  BY LeavesCount DEF LeavesInv, Covered, TakenWithinEarned, Base, Limit
<1> QED
  BY <1>1, <1>2, <1>3, PTL DEF EmployeeSpec


(***************************************************************************)
(* Loans: the installments of a loan are those of its terms and add up to  *)
(* its amount.                                                             *)
(***************************************************************************)

(* Products of natural numbers, where SMT is asked for nothing else.          *)
LEMMA Product ==
  ASSUME NEW a \in Nat, NEW b \in Nat
  PROVE  a * b \in Nat
OBVIOUS

LEMMA ProductByOneLess ==
  ASSUME NEW a \in Nat, NEW b \in Nat
  PROVE  a * (b - 1) = a * b - a
OBVIOUS

LEMMA ProductByNone ==
  ASSUME NEW a \in Nat
  PROVE  a * 0 = 0
OBVIOUS

LEMMA ProductByOne ==
  ASSUME NEW a \in Nat
  PROVE  a * 1 = a
OBVIOUS

(* What the form accepts.                                                     *)
LEMMA TermsAre ==
  ASSUME NEW t \in Terms
  PROVE  /\ t \in [amount : Amounts, per : Amounts, n : 1..MaxMonth, first : LoanMonths]
         /\ t.first + t.n - 1 <= MaxMonth /\ t.per <= t.amount
         /\ t.n > 1 => t.per * (t.n - 1) < t.amount
BY Zenon DEF Terms

LEMMA TermsTyped ==
  ASSUME NEW t \in Terms
  PROVE  /\ t.amount \in Nat /\ t.amount > 0 /\ t.per \in Nat /\ t.per > 0
         /\ t.n \in Nat /\ t.n > 0 /\ t.first \in Nat /\ t.first > 0
         /\ t.first + t.n - 1 \in LoanMonths /\ t.per <= t.amount
<1>0. /\ t \in [amount : Amounts, per : Amounts, n : 1..MaxMonth, first : LoanMonths]
      /\ t.first + t.n - 1 <= MaxMonth /\ t.per <= t.amount
  BY TermsAre
<1>1. t.amount \in Amounts /\ t.per \in Amounts /\ t.n \in 1..MaxMonth /\ t.first \in 1..MaxMonth
  BY <1>0 DEF LoanMonths
<1>2. t.amount \in Nat \ {0} /\ t.per \in Nat \ {0}
  BY <1>1, LoanAssumption
<1>3. MaxMonth \in Nat
  BY LoanAssumption
<1> QED
  BY <1>0, <1>1, <1>2, <1>3 DEF LoanMonths

(* The last share is what is left of the amount, where the product of the     *)
(* terms is a number of its own.                                              *)
LEMMA LastShareIs ==
  ASSUME NEW t \in Terms
  PROVE  \E p \in Nat : /\ p = t.per * t.n
                        /\ Share(t, LastShare(t)) = t.amount - (p - t.per)
                        /\ t.amount - (p - t.per) > 0
<1>1. t.per \in Nat /\ t.n \in Nat /\ t.n > 0 /\ t.amount \in Nat /\ t.amount > 0
  BY TermsTyped
<1>2. t.per * t.n \in Nat /\ t.per * (t.n - 1) = t.per * t.n - t.per
  BY <1>1, Product, ProductByOneLess
<1>3. PICK p \in Nat : p = t.per * t.n
  BY <1>2
<1>4. t.per * (t.n - 1) = p - t.per
  BY <1>2, <1>3
<1>5. Share(t, LastShare(t)) = t.amount - (p - t.per)
  BY <1>4 DEF Share
<1>6. p - t.per < t.amount
  <2>1. CASE t.n > 1
    BY <1>4, <2>1, TermsAre
  <2>2. CASE t.n = 1
    <3>1. p = t.per
      BY <1>1, <1>3, <2>2, ProductByOne
    <3> QED
      BY <1>1, <3>1
  <2> QED
    BY <1>1, <2>1, <2>2
<1>7. t.amount - (p - t.per) > 0
  BY <1>1, <1>6
<1> QED
  BY <1>3, <1>5, <1>7, Zenon

LEMMA OtherShareIs ==
  ASSUME NEW t \in Terms, NEW m, m # LastShare(t)
  PROVE  Share(t, m) = t.per
BY DEF Share

(* The multiples of a number, without products.                               *)
LEMMA Multiples ==
  ASSUME NEW a \in Nat
  PROVE  \E f \in [Nat -> Nat] : /\ f[0] = 0
                                 /\ \A k \in Nat : k > 0 => f[k] = a + f[k - 1]
                                 /\ \A k \in Nat : f[k] = a * k
<1> DEFINE f == [k \in Nat |-> a * k]
<1>1. ASSUME NEW k \in Nat PROVE a * k \in Nat
  BY Product
<1>2. f \in [Nat -> Nat]
  BY <1>1
<1>3. f[0] = 0
  BY ProductByNone
<1>4. ASSUME NEW k \in Nat, k > 0 PROVE f[k] = a + f[k - 1]
  <2>1. a * (k - 1) = a * k - a /\ a * k \in Nat
    BY ProductByOneLess, Product
  <2>2. f[k] = a * k
    OBVIOUS
  <2>3. k - 1 \in Nat
    BY <1>4
  <2>4. f[k - 1] = a * (k - 1)
    BY <2>3
  <2> HIDE DEF f
  <2> QED
    BY <2>1, <2>2, <2>4
<1>5. \A k \in Nat : f[k] = a * k
  OBVIOUS
<1> HIDE DEF f
<1> QED
  BY <1>2, <1>3, <1>4, <1>5

(* The shares of the terms are positive and together the amount.              *)
LEMMA SharesArePositive ==
  ASSUME NEW t \in Terms, NEW m
  PROVE  Share(t, m) \in Nat /\ Share(t, m) > 0
<1>1. PICK p \in Nat : /\ p = t.per * t.n
                       /\ Share(t, LastShare(t)) = t.amount - (p - t.per)
                       /\ t.amount - (p - t.per) > 0
  BY LastShareIs
<1>2. CASE m = LastShare(t)
  BY <1>1, <1>2, TermsTyped
<1>3. CASE m # LastShare(t)
  BY <1>3, OtherShareIs, TermsTyped
<1> QED
  BY <1>2, <1>3

(* What the shares of some months add up to.                                  *)
ShareSum(t) ==
  [s \in SUBSET Due(t) |-> t.per * Cardinality(s)
                           + (IF LastShare(t) \in s THEN t.amount - t.per * t.n ELSE 0)]

(* The same without products.                                                 *)
LEMMA ShareSumIs ==
  ASSUME NEW t \in Terms
  PROVE  \E f \in [Nat -> Nat], rest \in Int, last \in Due(t) :
           /\ f[0] = 0 /\ \A k \in Nat : k > 0 => f[k] = t.per + f[k - 1]
           /\ f[t.n] + rest = t.amount
           /\ \A m \in Due(t) : Share(t, m) = IF m = last THEN t.per + rest ELSE t.per
           /\ \A s \in SUBSET Due(t) :
                IsFiniteSet(s) /\ Cardinality(s) \in Nat
                /\ ShareSum(t)[s] = f[Cardinality(s)] + (IF last \in s THEN rest ELSE 0)
           /\ Cardinality(Due(t)) = t.n
<1> DEFINE last == LastShare(t)
<1>1. PICK p \in Nat : /\ p = t.per * t.n
                       /\ Share(t, last) = t.amount - (p - t.per)
  BY LastShareIs
<1>2. PICK f \in [Nat -> Nat] : /\ f[0] = 0
                                /\ \A k \in Nat : k > 0 => f[k] = t.per + f[k - 1]
                                /\ \A k \in Nat : f[k] = t.per * k
  BY Multiples, TermsTyped
<1>3. f[t.n] = p
  <2>1. f[t.n] = t.per * t.n
    BY <1>2, TermsTyped
  <2> QED
    BY <1>1, <2>1
<1>4. /\ p \in Nat /\ t.amount \in Nat /\ t.per \in Nat /\ t.n \in Nat /\ t.n > 0
      /\ Share(t, last) = t.amount - (p - t.per)
  BY <1>1, TermsTyped
<1>5. PICK rest \in Int : rest = t.amount - p
  BY <1>4
<1>6. IsFiniteSet(Due(t)) /\ Cardinality(Due(t)) = t.n /\ last \in Due(t)
  <2>1. /\ t.first \in Int /\ last \in Int /\ Due(t) = t.first..last
        /\ t.first <= last /\ last - t.first + 1 = t.n
    BY TermsTyped DEF Due, LastShare
  <2>2. last \in Due(t)
    BY <2>1
  <2> HIDE DEF last
  <2>3. \A a, b \in Int : /\ IsFiniteSet(a..b)
                          /\ Cardinality(a..b) = IF a > b THEN 0 ELSE b - a + 1
    BY FS_Interval
  <2>4. PICK a \in Int, b \in Int : a = t.first /\ b = last
    BY <2>1
  <2>5. IsFiniteSet(a..b) /\ Cardinality(a..b) = b - a + 1
    <3>1. IsFiniteSet(a..b) /\ Cardinality(a..b) = IF a > b THEN 0 ELSE b - a + 1
      BY <2>3
    <3>2. ~(a > b)
      BY <2>1, <2>4
    <3> QED
      BY <3>1, <3>2
  <2> QED
    BY <2>1, <2>2, <2>4, <2>5
<1>7. f[t.n] + rest = t.amount
  BY <1>3, <1>4, <1>5
<1>8. ASSUME NEW m \in Due(t)
      PROVE  Share(t, m) = IF m = last THEN t.per + rest ELSE t.per
  <2>1. CASE m = last
    BY <1>4, <1>5, <2>1
  <2>2. CASE m # last
    BY <2>2, OtherShareIs
  <2> QED
    BY <2>1, <2>2
<1>9. ASSUME NEW s \in SUBSET Due(t)
      PROVE  /\ IsFiniteSet(s) /\ Cardinality(s) \in Nat
             /\ ShareSum(t)[s] = f[Cardinality(s)] + (IF last \in s THEN rest ELSE 0)
  <2>1. IsFiniteSet(s) /\ Cardinality(s) \in Nat
    BY <1>6, FS_Subset, FS_CardinalityType
  <2>2. ShareSum(t)[s] = t.per * Cardinality(s) + (IF last \in s THEN t.amount - t.per * t.n ELSE 0)
    BY DEF ShareSum
  <2>3. f[Cardinality(s)] = t.per * Cardinality(s)
    BY <1>2, <2>1
  <2>4. t.amount - t.per * t.n = rest
    BY <1>1, <1>5
  <2> HIDE DEF last
  <2> QED
    BY <2>1, <2>2, <2>3, <2>4
<1>10. f[0] = 0 /\ \A k \in Nat : k > 0 => f[k] = t.per + f[k - 1]
  BY <1>2
<1> HIDE DEF last
<1> QED
  BY <1>6, <1>7, <1>8, <1>9, <1>10, Zenon

LEMMA SharesAddUp ==
  ASSUME NEW t \in Terms
  PROVE  /\ ShareSum(t)[{}] = 0 /\ ShareSum(t)[Due(t)] = t.amount
         /\ \A s \in SUBSET Due(t) : \A x \in s :
              /\ ShareSum(t)[s] = Share(t, x) + ShareSum(t)[s \ {x}]
              /\ ShareSum(t)[s] = ShareSum(t)[s \ {x}] + Share(t, x)
         /\ IsFiniteSet(Due(t))
<1>1. PICK f \in [Nat -> Nat], rest \in Int, last \in Due(t) :
           /\ f[0] = 0 /\ \A k \in Nat : k > 0 => f[k] = t.per + f[k - 1]
           /\ f[t.n] + rest = t.amount
           /\ \A m \in Due(t) : Share(t, m) = IF m = last THEN t.per + rest ELSE t.per
           /\ \A s \in SUBSET Due(t) :
                IsFiniteSet(s) /\ Cardinality(s) \in Nat
                /\ ShareSum(t)[s] = f[Cardinality(s)] + (IF last \in s THEN rest ELSE 0)
           /\ Cardinality(Due(t)) = t.n
  BY ShareSumIs
<1>2. ASSUME NEW s \in SUBSET Due(t), NEW x \in s
      PROVE  /\ ShareSum(t)[s] = Share(t, x) + ShareSum(t)[s \ {x}]
             /\ ShareSum(t)[s] = ShareSum(t)[s \ {x}] + Share(t, x)
  <2>1. IsFiniteSet(s) /\ Cardinality(s) \in Nat
    BY <1>1
  <2>2. s \ {x} \in SUBSET Due(t) /\ Cardinality(s \ {x}) = Cardinality(s) - 1
    BY <2>1, FS_RemoveElement
  <2>3. Cardinality(s \ {x}) \in Nat
    BY <1>1, <2>2
  <2>4. PICK c \in Nat : c = Cardinality(s)
    BY <2>1
  <2>5. c > 0 /\ Cardinality(s \ {x}) = c - 1
    BY <2>2, <2>3, <2>4
  <2>6. ShareSum(t)[s] = f[c] + (IF last \in s THEN rest ELSE 0)
    BY <1>1, <2>4
  <2>7. ShareSum(t)[s \ {x}] = f[c - 1] + (IF last \in s \ {x} THEN rest ELSE 0)
    BY <1>1, <2>2, <2>5
  <2>8. Share(t, x) = IF x = last THEN t.per + rest ELSE t.per
    BY <1>1
  <2>9. f[c] = t.per + f[c - 1] /\ f[c - 1] \in Nat /\ t.per \in Nat
    BY <1>1, <2>5, TermsTyped
  <2> QED
    BY <2>6, <2>7, <2>8, <2>9
<1>3. ShareSum(t)[{}] = 0
  <2>1. ShareSum(t)[{}] = f[Cardinality({})] + (IF last \in {} THEN rest ELSE 0)
    BY <1>1
  <2> QED
    BY <1>1, <2>1, FS_EmptySet
<1>4. ShareSum(t)[Due(t)] = t.amount
  BY <1>1
<1> QED
  BY <1>1, <1>2, <1>3, <1>4

(* The installments that are the shares of the terms add up to the amount.    *)
Total(l, S) == MapThenSumSet(LAMBDA m : inst[l, m].amount, S)
Follows(l, t) == \A m \in Due(t) : inst[l, m].amount = Share(t, m)

LEMMA InstallmentsAddUp ==
  ASSUME NEW l, NEW t \in Terms, Follows(l, t)
  PROVE  Total(l, Due(t)) = t.amount
<1> DEFINE S == Due(t)
           G == ShareSum(t)
           w == [m \in S |-> Share(t, m)]
           F(g) == [s \in SUBSET S |-> IF s = {} THEN 0
                                       ELSE inst[l, CHOOSE x \in s : TRUE].amount
                                            + g[s \ {CHOOSE x \in s : TRUE}]]
           iter == CHOOSE g : g = F(g)
           Pick(s) == CHOOSE x \in s : TRUE
<1>1. Total(l, S) = iter[S]
  BY DEF Total, MapThenSumSet, MapThenFoldSet
<1>2. ASSUME NEW m \in S PROVE w[m] = inst[l, m].amount /\ w[m] = Share(t, m)
  BY DEF Follows
<1>3. G[{}] = 0 /\ G[S] = t.amount /\ IsFiniteSet(S)
  BY SharesAddUp
<1>4. ASSUME NEW s \in SUBSET S, NEW x \in s
      PROVE  G[s] = w[x] + G[s \ {x}] /\ G[s] = G[s \ {x}] + w[x]
  <2>1. G[s] = Share(t, x) + G[s \ {x}] /\ G[s] = G[s \ {x}] + Share(t, x)
    BY SharesAddUp
  <2>2. w[x] = Share(t, x)
    BY <1>2
  <2> HIDE DEF G, w
  <2> QED
    BY <2>1, <2>2
<1>5. G = [s \in SUBSET S |-> G[s]]
  BY DEF ShareSum
<1> HIDE DEF G, w
<1>6. G = F(G)
  <2>1. ASSUME NEW s \in SUBSET S
        PROVE  G[s] = IF s = {} THEN 0 ELSE inst[l, Pick(s)].amount + G[s \ {Pick(s)}]
    <3>1. CASE s = {}
      BY <1>3, <3>1
    <3>2. CASE s # {}
      <4>1. Pick(s) \in s
        BY <3>2
      <4>2. w[Pick(s)] = inst[l, Pick(s)].amount
        BY <1>2, <4>1
      <4>3. G[s] = w[Pick(s)] + G[s \ {Pick(s)}]
        <5> HIDE DEF Pick
        <5> QED
          BY <1>4, <4>1
      <4> HIDE DEF Pick
      <4> QED
        BY <3>2, <4>2, <4>3
    <3> QED
      BY <3>1, <3>2
  <2> HIDE DEF S
  <2> QED
    BY <1>5, <2>1
<1>7. iter = F(iter)
  <2> HIDE DEF F
  <2> QED
    BY <1>6
<1>8. iter[{}] = 0
  <2> HIDE DEF iter
  <2> QED
    BY <1>7
<1>9. ASSUME NEW s \in SUBSET S, s # {} PROVE \E x \in s : iter[s] = w[x] + iter[s \ {x}]
  <2>1. Pick(s) \in s
    BY <1>9
  <2>2. iter[s] = inst[l, Pick(s)].amount + iter[s \ {Pick(s)}]
    <3> HIDE DEF iter
    <3> QED
      BY <1>7, <1>9
  <2>3. w[Pick(s)] = inst[l, Pick(s)].amount
    BY <1>2, <2>1
  <2> HIDE DEF iter, Pick
  <2> QED
    BY <2>1, <2>2, <2>3
<1>10. iter[S] = G[S]
  <2>1. iter[{}] = G[{}]
    BY <1>3, <1>8
  <2> HIDE DEF iter, S
  <2>2. AddsSome(S, w, iter) /\ AddsEach(S, w, G)
    BY <1>4, <1>9 DEF AddsSome, AddsEach
  <2>3. \A s \in SUBSET S : iter[s] = G[s]
    BY <1>3, <2>1, <2>2, SumIsUnique
  <2> QED
    BY <2>3
<1> QED
  BY <1>1, <1>3, <1>10

(* The installments of a loan that stands are those of its terms, live, and   *)
(* a loan not granted yet has none, deleted or not.                           *)
Scheduled(l, t) ==
  /\ loan[l] = Given(t)
  /\ \A m \in LoanMonths :
       IF m \in Due(t) THEN inst[l, m] = [amount |-> Share(t, m), live |-> TRUE]
       ELSE ~Owed(<<l, m>>)

LoanFits(l) ==
  /\ loan[l] = NoLoan => \A m \in LoanMonths : inst[l, m] = NoLoan
  /\ Standing(l) => \E t \in Terms : Scheduled(l, t)

LoanInv ==
  /\ loan \in [LoanIds -> Loan \cup {NoLoan}]
  /\ inst \in [LoanIds \X LoanMonths -> Installment \cup {NoLoan}]
  /\ \A l \in LoanIds : LoanFits(l)

LEMMA GivenIs ==
  ASSUME NEW t \in Terms
  PROVE  /\ Given(t) \in Loan /\ Given(t) # NoLoan /\ Given(t).live /\ Given(t).amount = t.amount
         /\ Due(Given(t)) = Due(t) /\ Due(t) \subseteq LoanMonths
         /\ \A m : Share(Given(t), m) = Share(t, m)
<1>1. t \in [amount : Amounts, per : Amounts, n : 1..MaxMonth, first : LoanMonths]
  BY TermsAre
<1>2. Given(t) \in Loan
  BY <1>1 DEF Given, Loan, LoanMonths
<1>3. Given(t) # NoLoan
  BY <1>2, LoanAssumption
<1>4. /\ Given(t).live /\ Given(t).amount = t.amount /\ Given(t).per = t.per
      /\ Given(t).n = t.n /\ Given(t).first = t.first
  BY DEF Given
<1>5. LastShare(Given(t)) = LastShare(t)
  BY <1>4 DEF LastShare
<1>6. Due(Given(t)) = Due(t) /\ \A m : Share(Given(t), m) = Share(t, m)
  BY <1>4, <1>5 DEF Due, Share
<1>7. Due(t) \subseteq LoanMonths
  <2>1. t.first \in Nat /\ t.first > 0 /\ LastShare(t) \in LoanMonths /\ MaxMonth \in Nat
    BY TermsTyped, LoanAssumption DEF LastShare
  <2> QED
    BY <2>1 DEF Due, LoanMonths
<1> QED
  BY <1>2, <1>3, <1>4, <1>6, <1>7

(* The installments of the other loans stay.                                  *)
LEMMA SameLoanFits ==
  ASSUME NEW l, LoanFits(l), loan'[l] = loan[l],
         \A m \in LoanMonths : inst'[l, m] = inst[l, m]
  PROVE  LoanFits(l)'
BY DEF LoanFits, Scheduled, Standing, Owed

(* Over rows none of which is live and none of which is in the way.           *)
Installments == [LoanIds \X LoanMonths -> Installment \cup {NoLoan}]
NoneLive(I, l) == \A m \in LoanMonths : I[l, m] = NoLoan \/ ~I[l, m].live
NewRows(I, J, l, t) ==
  \A o \in LoanIds : \A m \in LoanMonths :
    J[o, m] = IF o = l /\ m \in Due(t) THEN [amount |-> Share(t, m), live |-> TRUE] ELSE I[o, m]

LEMMA GeneratedAsTerms ==
  ASSUME NEW l \in LoanIds, NEW t \in Terms, NEW I \in Installments, NoneLive(I, l)
  PROVE  Generated(I, l, t) \in Installments /\ NewRows(I, Generated(I, l, t), l, t)
<1> DEFINE row(m) == [amount |-> Share(t, m), live |-> TRUE]
<1>1. Generated(I, l, t) =
        [k \in LoanIds \X LoanMonths |->
           IF k[1] = l /\ k[2] \in Due(t) THEN row(k[2]) ELSE I[k]]
  BY DEF Generated, NoneLive, Installments
<1>2. \A m : row(m) \in Installment
  BY SharesArePositive DEF Installment
<1>3. ASSUME NEW k \in LoanIds \X LoanMonths
      PROVE  (IF k[1] = l /\ k[2] \in Due(t) THEN row(k[2]) ELSE I[k]) \in Installment \cup {NoLoan}
  <2>1. I[k] \in Installment \cup {NoLoan}
    BY DEF Installments
  <2> HIDE DEF row
  <2> QED
    BY <1>2, <2>1
<1>4. Generated(I, l, t) \in Installments
  <2> HIDE DEF row
  <2> QED
    BY <1>1, <1>3 DEF Installments
<1>5. ASSUME NEW o \in LoanIds, NEW m \in LoanMonths
      PROVE  Generated(I, l, t)[o, m] = IF o = l /\ m \in Due(t) THEN row(m) ELSE I[o, m]
  <2> HIDE DEF row
  <2>1. PICK k \in LoanIds \X LoanMonths : k = <<o, m>>
    OBVIOUS
  <2>2. Generated(I, l, t)[k] = IF k[1] = l /\ k[2] \in Due(t) THEN row(k[2]) ELSE I[k]
    BY <1>1
  <2> QED
    BY <2>1, <2>2
<1> QED
  BY <1>4, <1>5 DEF NewRows

LEMMA NewTermsFit ==
  ASSUME LoanInv, NEW l \in LoanIds, NEW t \in Terms, NEW I \in Installments, NoneLive(I, l),
         \A o \in LoanIds \ {l} : \A m \in LoanMonths : I[o, m] = inst[o, m],
         loan' = [loan EXCEPT ![l] = Given(t)],
         inst' = Generated(I, l, t)
  PROVE  LoanInv'
<1>1. inst' \in Installments /\ NewRows(I, inst', l, t)
  BY GeneratedAsTerms
<1>2. loan' \in [LoanIds -> Loan \cup {NoLoan}] /\ loan'[l] = Given(t)
  BY GivenIs DEF LoanInv
<1>3. ASSUME NEW o \in LoanIds \ {l} PROVE LoanFits(o)'
  <2>1. loan'[o] = loan[o]
    BY DEF LoanInv
  <2>2. \A m \in LoanMonths : inst'[o, m] = inst[o, m]
    BY <1>1 DEF NewRows
  <2> QED
    BY <2>1, <2>2, SameLoanFits DEF LoanInv
<1>4. LoanFits(l)'
  <2>1. \A m \in LoanMonths : m \in Due(t) => inst'[l, m] = [amount |-> Share(t, m), live |-> TRUE]
    BY <1>1 DEF NewRows
  <2>2. ASSUME NEW m \in LoanMonths, m \notin Due(t) PROVE ~Owed(<<l, m>>)'
    <3>1. inst'[l, m] = I[l, m]
      BY <1>1, <2>2 DEF NewRows
    <3> QED
      BY <3>1 DEF Owed, NoneLive
  <2>3. Scheduled(l, t)'
    BY <1>2, <2>1, <2>2 DEF Scheduled
  <2> QED
    BY <1>2, <2>3, GivenIs DEF LoanFits
<1> QED
  BY <1>1, <1>2, <1>3, <1>4 DEF LoanInv, Installments

LEMMA GrantFits ==
  ASSUME LoanInv, NEW l \in LoanIds, NEW t \in Terms, Grant(l, t)
  PROVE  LoanInv'
<1>1. inst \in Installments
  BY DEF LoanInv, Installments
<1>2. NoneLive(inst, l)
  BY DEF NoneLive, Grant, LoanInv, LoanFits
<1> QED
  BY <1>1, <1>2, NewTermsFit DEF Grant

LEMMA EditFits ==
  ASSUME LoanInv, NEW l \in LoanIds, NEW t \in Terms, EditLoan(l, t)
  PROVE  LoanInv'
<1>1. inst \in [LoanIds \X LoanMonths -> Installment \cup {NoLoan}]
  BY DEF LoanInv
<1>2. Dropped(l) = [k \in LoanIds \X LoanMonths |->
                      IF k[1] = l /\ inst[k] # NoLoan THEN [inst[k] EXCEPT !.live = FALSE]
                      ELSE inst[k]]
  BY <1>1 DEF Dropped
<1>3. ASSUME NEW k \in LoanIds \X LoanMonths, inst[k] # NoLoan
      PROVE  /\ [inst[k] EXCEPT !.live = FALSE] \in Installment
             /\ ~[inst[k] EXCEPT !.live = FALSE].live
  BY <1>1, <1>3 DEF Installment
<1>4. Dropped(l) \in Installments
  <2>1. ASSUME NEW k \in LoanIds \X LoanMonths
        PROVE  (IF k[1] = l /\ inst[k] # NoLoan THEN [inst[k] EXCEPT !.live = FALSE] ELSE inst[k])
                 \in Installment \cup {NoLoan}
    BY <1>1, <1>3
  <2> QED
    BY <1>2, <2>1 DEF Installments
<1>5. NoneLive(Dropped(l), l)
  BY <1>2, <1>3 DEF NoneLive
<1>6. \A o \in LoanIds \ {l} : \A m \in LoanMonths : Dropped(l)[o, m] = inst[o, m]
  BY <1>2
<1>7. loan' = [loan EXCEPT ![l] = Given(t)] /\ inst' = Generated(Dropped(l), l, t)
  BY DEF EditLoan
<1> QED
  BY <1>4, <1>5, <1>6, <1>7, NewTermsFit

LEMMA DeleteFits ==
  ASSUME LoanInv, NEW l \in LoanIds, DeleteLoan(l)
  PROVE  LoanInv'
<1>1. loan[l] \in Loan /\ inst' = inst
  BY DEF DeleteLoan, LoanInv, Standing
<1>2. [loan[l] EXCEPT !.live = FALSE] \in Loan /\ ~[loan[l] EXCEPT !.live = FALSE].live
  BY <1>1 DEF Loan
<1>3. /\ loan' \in [LoanIds -> Loan \cup {NoLoan}]
      /\ loan'[l] = [loan[l] EXCEPT !.live = FALSE]
      /\ \A o \in LoanIds \ {l} : loan'[o] = loan[o]
  BY <1>2 DEF DeleteLoan, LoanInv
<1>4. LoanFits(l)'
  BY <1>2, <1>3, LoanAssumption DEF LoanFits, Standing
<1>5. ASSUME NEW o \in LoanIds \ {l} PROVE LoanFits(o)'
  BY <1>1, <1>3, SameLoanFits DEF LoanInv
<1> QED
  BY <1>1, <1>3, <1>4, <1>5 DEF LoanInv

(* The other steps touch neither loans nor installments.                      *)
LEMMA LoansStay ==
  ASSUME LoanInv, UNCHANGED <<loan, inst>>
  PROVE  LoanInv'
BY DEF LoanInv, LoanFits, Scheduled, Standing, Owed

LEMMA ScheduleFollows ==
  ASSUME LoanInv
  PROVE  ScheduleWhole
<1> SUFFICES ASSUME NEW l \in LoanIds, Standing(l)
             PROVE  LET due == {m \in LoanMonths : Owed(<<l, m>>)}
                    IN /\ due = Due(loan[l])
                       /\ \A m \in due : inst[l, m].amount > 0
                       /\ MapThenSumSet(LAMBDA m : inst[l, m].amount, due) = loan[l].amount
  BY DEF ScheduleWhole
<1>1. PICK t \in Terms : Scheduled(l, t)
  BY DEF LoanInv, LoanFits
<1>2. /\ loan[l] = Given(t) /\ Due(loan[l]) = Due(t) /\ Due(t) \subseteq LoanMonths
      /\ loan[l].amount = t.amount
  BY <1>1, GivenIs DEF Scheduled
<1>3. ASSUME NEW m \in Due(t)
      PROVE  Owed(<<l, m>>) /\ inst[l, m].amount = Share(t, m) /\ inst[l, m].amount > 0
  <2>1. inst[l, m] = [amount |-> Share(t, m), live |-> TRUE]
    BY <1>1, <1>2 DEF Scheduled
  <2>2. [amount |-> Share(t, m), live |-> TRUE] \in Installment
    BY SharesArePositive DEF Installment
  <2>3. inst[l, m] \in Installment /\ inst[l, m].live /\ inst[l, m].amount = Share(t, m)
    <3>1. PICK row : row = [amount |-> Share(t, m), live |-> TRUE]
      OBVIOUS
    <3>2. row \in Installment /\ row.live /\ row.amount = Share(t, m)
      BY <2>2, <3>1
    <3> QED
      BY <2>1, <3>1, <3>2
  <2>4. inst[l, m] # NoLoan
    BY <2>3, LoanAssumption
  <2> QED
    BY <2>3, <2>4, SharesArePositive DEF Owed
<1>4. {m \in LoanMonths : Owed(<<l, m>>)} = Due(t)
  BY <1>1, <1>2, <1>3 DEF Scheduled
<1>5. Follows(l, t)
  BY <1>3 DEF Follows
<1>6. Total(l, Due(t)) = t.amount
  BY <1>5, InstallmentsAddUp
<1>7. MapThenSumSet(LAMBDA m : inst[l, m].amount, {m \in LoanMonths : Owed(<<l, m>>)})
        = loan[l].amount
  <2>1. Total(l, {m \in LoanMonths : Owed(<<l, m>>)}) = loan[l].amount
    BY <1>2, <1>4, <1>6
  <2> QED
    BY <2>1 DEF Total
<1> QED
  BY <1>2, <1>3, <1>4, <1>7

(* However often a loan is edited, deleted and settled, the live installments *)
(* of a loan that stands are those of its terms and add up to its amount.     *)
THEOREM ScheduleIsWhole == LoanSpec => []ScheduleWhole
<1>1. LoanInit => LoanInv
  <2> SUFFICES ASSUME LoanInit PROVE LoanInv
    OBVIOUS
  <2>1. loan \in [LoanIds -> Loan \cup {NoLoan}] /\ \A l \in LoanIds : loan[l] = NoLoan
    BY DEF LoanInit
  <2>2. /\ inst \in [LoanIds \X LoanMonths -> Installment \cup {NoLoan}]
        /\ \A l \in LoanIds : \A m \in LoanMonths : inst[l, m] = NoLoan
    BY DEF LoanInit
  <2> QED
    BY <2>1, <2>2 DEF LoanInv, LoanFits, Standing
<1>2. LoanInv /\ [LoanNext]_loanVars => LoanInv'
  <2> SUFFICES ASSUME LoanInv, [LoanNext]_loanVars PROVE LoanInv'
    OBVIOUS
  <2>1. CASE \E l \in LoanIds : \E t \in Terms : Grant(l, t) \/ EditLoan(l, t)
    BY <2>1, GrantFits, EditFits
  <2>2. CASE \E l \in LoanIds : DeleteLoan(l)
    BY <2>2, DeleteFits
  <2>3. CASE \E m \in LoanMonths : BuildMonth(m) \/ LockMonth(m) \/ UnlockMonth(m)
    BY <2>3, LoansStay DEF BuildMonth, LockMonth, UnlockMonth
  <2>4. CASE SettleLoans \/ Rehire
    BY <2>4, LoansStay DEF SettleLoans, Rehire
  <2>5. CASE UNCHANGED loanVars
    BY <2>5, LoansStay DEF loanVars
  <2> QED
    BY <2>1, <2>2, <2>3, <2>4, <2>5 DEF LoanNext
<1>3. LoanInv => ScheduleWhole
  BY ScheduleFollows
<1> QED
  BY <1>1, <1>2, <1>3, PTL DEF LoanSpec
=============================================================================
