----------------------- MODULE MCPendingActionsSerial -----------------------
(***************************************************************************)
(* Instances for TLC of PendingActionsSerial (one worker thread, p1) and,  *)
(* in other behaviours, of Inbox (what the users are shown of requests).   *)
(***************************************************************************)
EXTENDS PendingActionsSerial, Inbox

CONSTANTS a1, a2, e1, e2, boss, hr, eo, root, p1, p2, p3
VARIABLE part

\* The permissions as setup_roles gives them, and as somebody may tick them.
MCGrants ==
  {[r \in Roles |-> CASE r = "admin" -> Powers
                      [] r = "hr_manager" -> Powers \ {"approve_officer"}
                      [] r = "specialist" -> {"view", "approve_officer", "resubmit"}
                      [] r = "none" -> {}],
   [r \in Roles |-> CASE r = "admin" -> Powers \ {"approve_gm"}
                      [] r = "hr_manager" -> {"view", "return"}
                      [] r = "specialist" -> {"approve_officer", "return"}
                      [] r = "none" -> {}]}

MCInit ==
  /\ part \in {"requests", "inbox"}
  /\ Init /\ InboxInit
  /\ part = "requests" => /\ request = <<>> /\ role = [u \in Users |-> "none"]
                          /\ grants = CHOOSE g \in Grants : TRUE
  /\ part = "inbox" =>
       row = [a \in Action |-> IF a \in LegacyRow THEN LegacyRowOf("other", e1, eo, "returned")
                               ELSE NoRow]
MCNext ==
  /\ UNCHANGED part
  /\ \/ part = "requests" /\ Next /\ UNCHANGED inboxVars
     \/ part = "inbox" /\ InboxNext /\ UNCHANGED vars
MCSpec == MCInit /\ [][MCNext]_<<vars, inboxVars, part>>
=============================================================================
