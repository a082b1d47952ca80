------------------------ MODULE PendingActionsSerial ------------------------
(***************************************************************************)
(* PendingActions with a single worker thread: requests are served one     *)
(* after the other, though each still commits and dies step by step.       *)
(***************************************************************************)
EXTENDS PendingActions

ASSUME OneThread == \A p, q \in Proc : p = q

\* The operations that still rely on the status they loaded.
Relying == {"settle", "settle_checked", "request", "queue", "queue_checked",
            "edit", "delete"}

\* What a request relies on is still what the database holds: the check of the
\* employee's status made on loading is good until the request writes.
FreshReads ==
    \A p \in Proc : req[p].op \in Relying => req[p].seen = empStatus[req[p].emp]
=============================================================================
