-------------------------- MODULE EmploymentRequests --------------------------
(* A request to employ somebody, from its insertion to the employee's row.    *)
(* The manager approves or rejects it, the entry officer completes its data   *)
(* tab by tab, and the insertion starts a background notification that moves  *)
(* it to its first stage.  Every page loads the request and later saves what  *)
(* it loaded; nothing locks the row.                                          *)
EXTENDS Naturals

CONSTANTS
  Clerks,        \* workers of the web server
  Threads,       \* WHATSAPP_ASYNC_DISPATCH: the notification runs in a thread
  NoRow          \* no request, no employee, no loaded copy

VARIABLES
  request,   \* EmploymentRequest: status, whether its data is complete, deleted
  employee,  \* the Employee row of the request
  desk,      \* the page each worker serves and the copy it has loaded
  notice,    \* the notification: whether it waits, and the status it has read
  hires,     \* history: employees created
  overlapped \* history: two pages overlapped, or a page and the notification
hireVars == <<request, employee, desk, notice, hires, overlapped>>

Pending == {"pending_branch", "pending", "pending_gm", "pending_officer"}
HireStatus == Pending \cup {"approved", "rejected"}
Request == [status : HireStatus, complete : BOOLEAN, live : BOOLEAN]
Pages == {"approve", "reject", "edit", "edit_approve", "delete"}
Hire == [complete : BOOLEAN, live : BOOLEAN]

ASSUME HireAssumption ==
  /\ Threads \in BOOLEAN
  /\ NoRow \notin Request \cup Hire \cup [page : Pages, copy : Request]

HireTypeOK ==
  /\ request \in Request \cup {NoRow}
  /\ employee \in Hire \cup {NoRow}
  /\ desk \in [Clerks -> [page : Pages, copy : Request] \cup {NoRow}]
  /\ notice \in {"none", "queued"} \cup HireStatus
  /\ hires \in Nat /\ overlapped \in BOOLEAN

HireInit ==
  /\ request = NoRow /\ employee = NoRow
  /\ desk = [c \in Clerks |-> NoRow] /\ notice = "none" /\ hires = 0
  /\ overlapped = FALSE

Present == request # NoRow /\ request.live

(* The first stage is the manager's; older rows keep their stage.             *)
FirstStage(status) == IF status \in {"pending_branch", "pending"} THEN "pending_gm" ELSE status

CreateRequest(complete) ==
  /\ request = NoRow
  /\ request' = [status |-> IF Threads THEN "pending_branch" ELSE FirstStage("pending_branch"),
                 complete |-> complete, live |-> TRUE]
  /\ notice' = IF Threads THEN "queued" ELSE "none"
  /\ UNCHANGED <<employee, desk, hires>>

NoticeReads ==
  /\ notice = "queued"
  /\ notice' = IF Present THEN request.status ELSE "none"
  /\ UNCHANGED <<request, employee, desk, hires>>

(* The status is set whatever it has become since it was read.                *)
NoticeWrites ==
  /\ notice \in HireStatus
  /\ request' = IF Present /\ FirstStage(notice) # notice
                THEN [request EXCEPT !.status = FirstStage(notice)] ELSE request
  /\ notice' = "none"
  /\ UNCHANGED <<employee, desk, hires>>

(* -------- the pages --------------------------------------------------------- *)
(* The guards are checked on the loaded copy.                                 *)
Mutant_AllowedRejectsAny(page, copy) == page \in {"reject", "delete"} \/ copy.status \in Pending
Allowed(page, copy) ==
  CASE page \in {"approve", "edit", "edit_approve"} -> copy.status \in Pending
    [] page = "reject" -> copy.status \notin {"approved", "rejected"}
    [] page = "delete" -> TRUE

Open(c, page) ==
  /\ desk[c] = NoRow /\ Present /\ Allowed(page, request)
  /\ desk' = [desk EXCEPT ![c] = [page |-> page, copy |-> request]]
  /\ UNCHANGED <<request, employee, notice, hires>>

Serving(c, page) == desk[c] # NoRow /\ desk[c].page = page
Closed(c) == desk' = [desk EXCEPT ![c] = NoRow]

(* The employee is created from the loaded copy unless there is one; the row  *)
(* of a deleted employee makes the insertion fail, and with it the approval.  *)
Mutant_MayCreateIncomplete(copy) == TRUE
MayCreate(copy) == copy.complete
Hired(copy) ==
  IF employee = NoRow
  THEN /\ employee' = [complete |-> copy.complete, live |-> TRUE]
       /\ hires' = hires + 1
  ELSE UNCHANGED <<employee, hires>>

Approve(c) ==
  /\ Serving(c, "approve")
  /\ LET copy == desk[c].copy
     IN IF MayCreate(copy) /\ (employee = NoRow \/ employee.live)
        THEN request' = [request EXCEPT !.status = "approved"] /\ Hired(copy)
        ELSE UNCHANGED <<request, employee, hires>>
  /\ Closed(c)
  /\ UNCHANGED notice

Reject(c) ==
  /\ Serving(c, "reject")
  /\ request' = [request EXCEPT !.status = "rejected"]
  /\ Closed(c)
  /\ UNCHANGED <<employee, notice, hires>>

(* Every column of the loaded copy is saved, the status and the deletion      *)
(* included.  The second button approves what was saved, as it is then.       *)
EditSave(c, complete) ==
  /\ Serving(c, "edit") \/ Serving(c, "edit_approve")
  /\ request' = [desk[c].copy EXCEPT !.complete = complete]
  /\ desk' = [desk EXCEPT ![c] =
       IF Serving(c, "edit") THEN NoRow ELSE [page |-> "approve", copy |-> request']]
  /\ UNCHANGED <<employee, notice, hires>>

DeleteRequest(c) ==
  /\ Serving(c, "delete")
  /\ request' = [request EXCEPT !.live = FALSE]
  /\ Closed(c)
  /\ UNCHANGED <<employee, notice, hires>>

DeleteEmployee ==
  /\ employee # NoRow /\ employee.live
  /\ employee' = [employee EXCEPT !.live = FALSE]
  /\ UNCHANGED <<request, desk, notice, hires>>

(* One page at a time, and none while the notification runs.                  *)
Alone ==
  /\ \A c, d \in Clerks : desk[c] # NoRow /\ desk[d] # NoRow => c = d
  /\ notice = "none" \/ \A c \in Clerks : desk[c] = NoRow

HireStep ==
  \/ \E complete \in BOOLEAN : CreateRequest(complete)
  \/ NoticeReads \/ NoticeWrites \/ DeleteEmployee
  \/ \E c \in Clerks :
       \/ \E page \in Pages : Open(c, page)
       \/ Approve(c) \/ Reject(c) \/ DeleteRequest(c)
       \/ \E complete \in BOOLEAN : EditSave(c, complete)

HireNext == HireStep /\ overlapped' = (overlapped \/ ~Alone')

HireSpec == HireInit /\ [][HireNext]_hireVars

(* -------- properties -------------------------------------------------------- *)
(* However many approvals, edits and deletions overlap, a request makes one   *)
(* employee at most, and only from complete data (manager_approve).           *)
HiredOnceComplete ==
  /\ hires = (IF employee = NoRow THEN 0 ELSE 1)
  /\ employee # NoRow => employee.complete

(* A request has an employee exactly when it is approved: an approval and its *)
(* employee are one, and no later page undoes the one without the other.      *)
ApprovedIffHired ==
  Present => (request.status = "approved" <=> employee # NoRow)

(* As long as no two pages overlapped, and no page and the notification, a    *)
(* decided request that is not deleted keeps its decision: "لا يمكن تغيير حالة  *)
(* طلب مكتمل." (reject).                                                       *)
DecisionIsFinal ==
  [][Present /\ request.status \in {"approved", "rejected"} /\ request'.live
       /\ ~overlapped' => request'.status = request.status]_hireVars
=============================================================================
