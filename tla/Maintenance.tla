----------------------------- MODULE Maintenance -----------------------------
(* A maintenance request of a branch: assigned to a worker, reported done by  *)
(* the worker through a link, closed by the manager, confirmed by the branch; *)
(* or returned to the branch and sent again.  The services take a request     *)
(* that the caller has loaded, check its status on that copy and save the     *)
(* columns they change.                                                       *)
EXTENDS Naturals

CONSTANTS
  Callers,       \* who may call a service at the same time
  Crew,          \* MaintenanceWorker
  Nothing,
  MaxReturns     \* bound: returns and resubmissions

ASSUME MaintenanceAssumption == Nothing \notin Crew /\ MaxReturns \in Nat

VARIABLES
  order,     \* MaintenanceRequest
  call,      \* the service each caller is in and the status it has loaded
  staff      \* workers that are active and have a telephone
maintVars == <<order, call, staff>>

Stages == {"pending", "assigned", "worker_reported", "manager_closed",
           "branch_confirmed", "returned"}
Order == [status : Stages, worker : Crew \cup {Nothing}, token : BOOLEAN,
          reported : BOOLEAN, closed : BOOLEAN, returned : BOOLEAN, again : Nat]
Services == {"assign", "report", "close", "confirm", "return", "resubmit"}

MaintTypeOK ==
  /\ order \in Order
  /\ call \in [Callers -> [service : Services, seen : Stages] \cup {Nothing}]
  /\ staff \subseteq Crew

MaintInit ==
  /\ order = [status |-> "pending", worker |-> Nothing, token |-> FALSE,
              reported |-> FALSE, closed |-> FALSE, returned |-> FALSE, again |-> 0]
  /\ call = [c \in Callers |-> Nothing]
  /\ staff \in SUBSET Crew

StaffChanges ==
  /\ staff' \in SUBSET Crew
  /\ UNCHANGED <<order, call>>

(* A report is only reached with the token of the link.                       *)
CallService(c, service) ==
  /\ call[c] = Nothing
  /\ service = "report" => order.token
  /\ call' = [call EXCEPT ![c] = [service |-> service, seen |-> order.status]]
  /\ UNCHANGED <<order, staff>>

In(c, service, stages) ==
  /\ call[c] # Nothing
  /\ call[c].service = service /\ call[c].seen \in stages
  /\ call' = [call EXCEPT ![c] = Nothing]
  /\ UNCHANGED staff

Refuses(seen, service) ==
  \/ service = "assign" /\ seen \notin {"pending", "returned"}
  \/ service = "report" /\ seen # "assigned"
  \/ service = "close" /\ seen # "worker_reported"
  \/ service = "confirm" /\ seen # "manager_closed"
  \/ service = "return" /\ seen \notin {"pending", "assigned"}
  \/ service = "resubmit" /\ seen # "returned"

Refused(c) ==
  /\ call[c] # Nothing
  /\ Refuses(call[c].seen, call[c].service) \/ (call[c].service = "assign" /\ staff # Crew)
  /\ call' = [call EXCEPT ![c] = Nothing]
  /\ UNCHANGED <<order, staff>>

Mutant_AssignKeepsReturn(c) ==
  /\ In(c, "assign", {"pending", "returned"})
  /\ \E w \in staff :
       order' = [order EXCEPT !.status = "assigned", !.worker = w, !.token = TRUE,
                              !.reported = FALSE]
Assign(c) ==
  /\ In(c, "assign", {"pending", "returned"})
  /\ \E w \in staff :
       order' = [order EXCEPT !.status = "assigned", !.worker = w, !.token = TRUE,
                              !.reported = FALSE, !.returned = FALSE]

Report(c) ==
  /\ In(c, "report", {"assigned"})
  /\ order' = [order EXCEPT !.status = "worker_reported", !.reported = TRUE]

Close(c) ==
  /\ In(c, "close", {"worker_reported"})
  /\ order' = [order EXCEPT !.status = "manager_closed", !.closed = TRUE]

Confirm(c) ==
  /\ In(c, "confirm", {"manager_closed"})
  /\ order' = [order EXCEPT !.status = "branch_confirmed"]

ReturnOrder(c) ==
  /\ In(c, "return", {"pending", "assigned"})
  /\ order' = [order EXCEPT !.status = "returned", !.returned = TRUE,
                            !.worker = Nothing, !.token = FALSE]

ResubmitOrder(c) ==
  /\ In(c, "resubmit", {"returned"}) /\ order.again < MaxReturns
  /\ order' = [order EXCEPT !.status = "pending", !.returned = FALSE, !.again = @ + 1]

MaintNext ==
  \/ StaffChanges
  \/ \E c \in Callers :
       \/ \E service \in Services : CallService(c, service)
       \/ Refused(c) \/ Assign(c) \/ Report(c) \/ Close(c) \/ Confirm(c)
       \/ ReturnOrder(c) \/ ResubmitOrder(c)

MaintSpec == MaintInit /\ [][MaintNext]_maintVars

(* -------- properties -------------------------------------------------------- *)
(* The columns tell one story: work that is assigned, reported, closed or     *)
(* confirmed has a worker and a link, what waits or was returned has none,    *)
(* and the reports, closings and return notes are those of the current round  *)
(* (the update_fields of the services).                                       *)
ColumnsFollowStatus ==
  /\ order.status \in {"pending", "returned"} <=> order.worker = Nothing
  /\ order.token <=> order.worker # Nothing
  /\ order.reported <=> order.status \in {"worker_reported", "manager_closed", "branch_confirmed"}
  /\ order.closed <=> order.status \in {"manager_closed", "branch_confirmed"}
  /\ order.returned <=> order.status = "returned"
=============================================================================
