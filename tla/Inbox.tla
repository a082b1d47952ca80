-------------------------------- MODULE Inbox --------------------------------
(***************************************************************************)
(* What each user is shown of the requests that wait: the list of requests *)
(* and its inbox, the counters of the sidebar, the dashboard and the page  *)
(* of employment requests.  Each page selects the requests with conditions *)
(* of its own, written apart from those of the handlers that act on them,  *)
(* while users change roles, leave, and requests go on.  Handlers run one  *)
(* at a time (PendingActions and EmploymentRequests are about overlaps),   *)
(* and counters are computed anew (NavigationCaches is about keeping them).*)
(***************************************************************************)
EXTENDS Naturals, FiniteSets, Sequences

CONSTANTS
    Users, Super,   \* users, and those who are superusers
    BranchHeads,    \* users with a branch or an administration to manage
    Grants,         \* what the roles may be allowed: functions of Roles to sets of Powers
    Movable,        \* bound: users whose role changes
    MergeLimit,     \* _MERGE_LIMIT: requests of a kind the list takes
    MaxRequests,    \* bound: requests raised
    Unassigned

Roles == {"admin", "hr_manager", "specialist", "none"}
Powers == {"view", "approve_gm", "approve_officer", "return", "resubmit"}

ASSUME InboxAssumption ==
    /\ Super \cup Movable \subseteq Users /\ BranchHeads \subseteq Users /\ Unassigned \notin Users
    /\ Grants \subseteq [Roles -> SUBSET Powers]
    /\ MergeLimit \in Nat \ {0} /\ MaxRequests \in Nat \ {0}

VARIABLES
    role,       \* the role type of each user
    present,    \* users with is_active
    grants,     \* the permissions of the roles
    request     \* PendingAction and EmploymentRequest rows, the oldest first
inboxVars == <<role, present, grants, request>>

Waiting == {"pending_branch", "pending_gm", "pending_officer"}
Entry == [kind : {"action", "hire"}, status : Waiting \cup {"pending", "returned", "closed"},
          by : Users, officer : Users \cup {Unassigned}]

\* Rows of the three-stage workflow of earlier releases.
Legacy ==
    {r \in Entry :
        /\ r.status \in Waiting \cup (IF r.kind = "hire" THEN {"pending"} ELSE {})
        /\ r.officer = Unassigned <=> r.status # "pending_officer"
        /\ {r.by, r.officer} \cap Super = {}}

InboxTypeOK ==
    /\ role \in [Users -> Roles] /\ present \subseteq Users /\ grants \in Grants
    /\ request \in Seq(Entry) /\ Len(request) <= MaxRequests

Requests == DOMAIN request
Of(kind) == {i \in Requests : request[i].kind = kind}
With(kind, statuses) == {i \in Of(kind) : request[i].status \in statuses}
RaisedBy(u) == {i \in Requests : request[i].by = u}
AssignedTo(u) == {i \in Requests : request[i].officer = u}

-----------------------------------------------------------------------------
(* Who may do what *)

\* is_simple_hr_manager, _is_general_manager and is_simple_hr_entry
IsManager(u) == u \in Super \/ role[u] \in {"admin", "hr_manager"}
IsEntry(u) == role[u] = "specialist"

Has(u, power) == u \in Super \/ power \in grants[role[u]]

\* can_view_operations: any power over requests will do.
CanView(u) == u \in Super \/ role[u] = "admin" \/ (\E power \in Powers : Has(u, power))

\* stage_permission_required; whoever is an ADMIN passes.
HasStage(u, stage) ==
    \/ u \in Super \/ role[u] = "admin"
    \/ Has(u, "approve_officer")
    \/ stage = "gm" /\ Has(u, "approve_gm")

\* _can_act_at_stage
CanAct(u, i, stage) ==
    \/ u \in Super
    \/ stage = "gm" /\ HasStage(u, stage) /\ IsManager(u)
    \/ stage = "officer" /\ i \in AssignedTo(u) /\ HasStage(u, stage) /\ IsEntry(u)

\* _can_return_at_stage: the stage of the manager asks for no role.
CanReturn(u, i) ==
    \/ u \in Super
    \/ /\ Has(u, "return")
       /\ \/ request[i].status = "pending_branch" /\ IsManager(u)
          \/ request[i].status = "pending_gm"
          \/ request[i].status = "pending_officer" /\ i \in AssignedTo(u)

\* user_can_reject_employment_request
CanReject(u) == u \in Super \/ role[u] = "admin" \/ (Has(u, "return") /\ IsManager(u))

\* can_delete_pending_action, can_delete_employment_request
CanDelete(u, i) ==
    \/ u \in Super \/ role[u] = "admin"
    \/ i \in RaisedBy(u) /\ request[i].status \in
         IF request[i].kind = "action" THEN {"returned", "pending_branch"}
         ELSE {"pending_branch", "pending"}

\* _validate_entry_officer
IsAssignable(u) == u \in present /\ (u \in Super \/ IsEntry(u))

\* get_hr_entry_staff: those the page of a request offers.
EntryStaff == {u \in present : IsEntry(u)}

-----------------------------------------------------------------------------
(* What the pages show *)

\* _user_visible_actions
VisibleActions(u) ==
    IF IsManager(u) THEN Of("action")
    ELSE Of("action") \cap (RaisedBy(u) \cup (IF IsEntry(u) THEN AssignedTo(u) ELSE {}))

\* _user_visible_hire_requests
VisibleHires(u) == IF IsManager(u) THEN Of("hire") ELSE Of("hire") \cap RaisedBy(u)

Mutant_InboxOfEndorsed(u) ==
    VisibleActions(u) \cap
      ((IF IsManager(u) THEN With("action", Waiting) ELSE {})
       \cup (IF IsEntry(u) THEN With("action", {"returned"}) \cap RaisedBy(u) ELSE {}))
\* _inbox_for
InboxActions(u) ==
    VisibleActions(u) \cap
      ((IF IsManager(u) THEN With("action", Waiting) ELSE {})
       \cup (IF IsEntry(u) THEN (With("action", {"returned"}) \cap RaisedBy(u))
                                  \cup (With("action", {"pending_officer"}) \cap AssignedTo(u))
             ELSE {}))

\* _inbox_for_hire
InboxHires(u) ==
    IF IsManager(u) THEN VisibleHires(u) \cap With("hire", Waiting \cup {"pending"}) ELSE {}

\* The newest of a set, as many as the list merges; it is paged after that.
Newest(S) == {i \in S : Cardinality({j \in S : j > i}) < MergeLimit}
ListedInbox(u) == Newest(InboxActions(u)) \cup Newest(InboxHires(u))

\* first_stage_pending_q is a condition on no row, but it is a condition: nothing
\* is counted at the first stage, for a superuser either.
FirstStage(u) == {}

\* _compute_sidebar_counts, pending_for_me_count: the number on the tab of the inbox.
Badge(u) ==
  IF ~CanView(u) THEN {}
  ELSE
    (IF IsManager(u) THEN With("action", {"pending_gm"}) \cup With("hire", {"pending_gm"}) ELSE {})
    \cup FirstStage(u)
    \cup (LET atOfficer == With("action", {"pending_officer"}) \cup With("hire", {"pending_officer"})
          IN IF IsEntry(u) THEN atOfficer \cap AssignedTo(u)
             ELSE IF u \in Super THEN atOfficer ELSE {})
    \cup (With("action", {"returned"}) \cap RaisedBy(u))

\* pending_actions_count: the number in the menu goes by the user and by what the
\* user manages (the requests are of branches the heads manage), not by the role.
MenuCount(u) ==
    LET open == IF CanView(u) THEN With("action", Waiting) \cup With("hire", Waiting) ELSE {}
    IN IF u \in Super \cup BranchHeads THEN open
       ELSE open \cap (RaisedBy(u) \cup AssignedTo(u))

\* dashboard_view: the panels of the officer, of the manager and of the superuser,
\* and an inbox; each shows as much as fits its page.
DashboardPanels(u) ==
    (AssignedTo(u) \cap (With("action", {"pending_officer"}) \cup With("hire", {"pending_officer"})))
    \cup (IF IsManager(u) THEN With("action", {"pending_gm"}) \cup With("hire", {"pending_gm"})
          ELSE {})
    \cup (IF u \in Super THEN With("hire", {"pending", "pending_branch"}) ELSE {})
DashboardTasks(u) == DashboardPanels(u) \cup InboxActions(u) \cup InboxHires(u)

\* pending_action_detail and edit_employment_request
MayOpen(u, i) ==
    IF request[i].kind = "action" THEN CanView(u) /\ i \in VisibleActions(u)
    ELSE IsManager(u) \/ i \in RaisedBy(u)

\* list_employment_requests, without a filter
HirePage(u) ==
    IF u \in Super \/ IsManager(u) THEN Of("hire")
    ELSE Of("hire") \cap (RaisedBy(u) \cup (IF IsEntry(u) THEN AssignedTo(u) ELSE {}))

-----------------------------------------------------------------------------
(* Users *)

ChangeRole(u, r) ==
    /\ u \in Movable /\ r # role[u] /\ role' = [role EXCEPT ![u] = r]
    /\ UNCHANGED <<present, grants, request>>

SwitchUser(u) ==
    /\ u \notin Super
    /\ present' = IF u \in present THEN present \ {u} ELSE present \cup {u}
    /\ UNCHANGED <<role, grants, request>>

SaveGrants ==
    /\ grants' \in Grants \ {grants} /\ UNCHANGED <<role, present, request>>

-----------------------------------------------------------------------------
(* Requests *)

Become(i, status, officer) ==
    /\ request' = [request EXCEPT ![i].status = status, ![i].officer = officer]
    /\ UNCHANGED <<role, present, grants>>

\* What is over is forgotten but for its kind.
Closed(i) == Become(i, "closed", Unassigned)

Raise(u, kind) ==
    /\ u \in present /\ Len(request) < MaxRequests
    /\ request' = Append(request, [kind |-> kind, status |-> "pending_gm", by |-> u,
                                   officer |-> Unassigned])
    /\ UNCHANGED <<role, present, grants>>

\* gm_approve_action: whoever was chosen, or whoever raised the request.
Endorse(u, i) ==
    /\ i \in VisibleActions(u) \cap With("action", {"pending_gm", "pending_branch"})
    /\ CanAct(u, i, "gm")
    /\ \E o \in EntryStaff \cup {request[i].by} :
         IsAssignable(o) /\ Become(i, "pending_officer", o)

Complete(u, i) ==
    /\ i \in VisibleActions(u) \cap With("action", {"pending_officer"})
    /\ CanAct(u, i, "officer") /\ Closed(i)

SendBack(u, i) ==
    /\ i \in VisibleActions(u) \cap With("action", Waiting)
    /\ CanReturn(u, i) /\ Become(i, "returned", request[i].officer)

AskAgain(u, i) ==
    /\ i \in VisibleActions(u) \cap With("action", {"returned"})
    /\ u \in Super \/ i \in RaisedBy(u)
    /\ Become(i, "pending_gm", Unassigned)

\* gm_approve_employment_request, the data being complete: the permission of the
\* stage is all it asks for.
ApproveHire(u, i) ==
    /\ i \in With("hire", Waiting \cup {"pending"})
    /\ HasStage(u, "gm") /\ Closed(i)

RejectHire(u, i) ==
    /\ i \in With("hire", Waiting \cup {"pending"})
    /\ CanReject(u) /\ Closed(i)

Remove(u, i) ==
    /\ CanView(u) /\ i \in VisibleActions(u) \cup VisibleHires(u)
    /\ request[i].status # "closed" /\ CanDelete(u, i) /\ Closed(i)

InboxInit ==
    /\ role \in [Users -> Roles] /\ \A u \in Super : role[u] \in {"none", "specialist"}
    /\ present = Users /\ grants \in Grants
    /\ request \in {<<>>} \cup {<<r>> : r \in Legacy}

Act(u) ==
    \/ \E kind \in {"action", "hire"} : Raise(u, kind)
    \/ \E i \in Requests :
         \/ Endorse(u, i) \/ Complete(u, i) \/ SendBack(u, i) \/ AskAgain(u, i)
         \/ ApproveHire(u, i) \/ RejectHire(u, i) \/ Remove(u, i)

InboxNext ==
    \/ SaveGrants
    \/ \E u \in Users : SwitchUser(u) \/ (\E r \in Roles : ChangeRole(u, r))
    \/ \E u \in present : Act(u)

InboxSpec == InboxInit /\ [][InboxNext]_inboxVars

-----------------------------------------------------------------------------
(* Properties *)

\* What waits on a user: what the pages would let the user take a step further.  The
\* officer's work a superuser could do as well waits on the officer.
WaitsOn(u) ==
    {i \in With("action", {"pending_branch", "pending_gm"}) : CanAct(u, i, "gm")}
    \cup {i \in With("action", {"pending_officer"}) \cap AssignedTo(u) : CanAct(u, i, "officer")}
    \cup (IF IsEntry(u) /\ Has(u, "resubmit") THEN With("action", {"returned"}) \cap RaisedBy(u)
          ELSE {})
    \cup (IF IsManager(u) /\ HasStage(u, "gm") THEN With("hire", Waiting \cup {"pending"}) ELSE {})

\* Counted are the stages of today's workflow.
Counted(i) == \/ request[i].kind = "action" /\ request[i].status # "pending_branch"
              \/ request[i].status = "pending_gm"

\* Nothing waits unseen, whoever changed roles or left meanwhile: what the handlers
\* let a user take further is on a page this user may open and in this user's list,
\* unless it is full of newer requests; the number on its tab counts it even then,
\* and for those below the managers the number in the menu too (_inbox_for and
\* _compute_sidebar_counts against _can_act_at_stage); and what the dashboard shows
\* to somebody in the workflow can be opened.
WorkIsSeen ==
    \A u \in present :
      /\ \A i \in WaitsOn(u) :
           /\ CanView(u) /\ MayOpen(u, i)
           /\ request[i].kind = "hire" => i \in HirePage(u)
           /\ \/ i \in ListedInbox(u)
              \/ \E S \in {InboxActions(u), InboxHires(u)} :
                   i \in S /\ Cardinality({j \in S : j > i}) >= MergeLimit
           /\ Counted(i) => i \in Badge(u)
           /\ request[i].status \in Waiting /\ ~IsManager(u) => i \in MenuCount(u)
      /\ CanView(u) /\ (IsManager(u) \/ IsEntry(u)) =>
           \A i \in DashboardTasks(u) \ With("hire", {"pending_officer"}) : MayOpen(u, i)
=============================================================================
