------------------------------ MODULE Accounts ------------------------------
(* Users, roles and permissions (core/web_views/users.py and roles.py, the    *)
(* API of core/views.py, core/services/access_control.py, core/decorators.py, *)
(* core/permissions_registry.py and the setup commands).  A role holds        *)
(* permissions; a user is allowed some more and denied some of them.          *)
(* Two kinds of request take two steps and let all others in between: one that *)
(* creates or edits a user, which reads the role it gives and saves later, and *)
(* one that deletes a role, which counts its users and deletes it later,       *)
(* without a lock (one user is saved at a time).  The page of a user's         *)
(* permissions is filled in between two requests.  All other requests are one  *)
(* step.  Every role type that is in use sees all branches, so that the        *)
(* branches of a user are left out; so is Django's admin, where superusers     *)
(* write users and roles directly.                                             *)
EXTENDS Naturals, FiniteSets

CONSTANTS
  Users, Supers,    \* users, and those who are superusers
  Guarded,          \* users marked as protected (is_protected), in the admin only
  RoleIds,
  Codes,            \* permissions the code of some release registers
  Needs,            \* the permission each operation requires
  Sensitive,        \* SENSITIVE_USER_PERMISSIONS
  Implies,          \* what each permission brings along (_MANAGE_IMPLIES)
  DefaultsOf,       \* the permissions setup_roles gives each role type
  NoRole, NoPage,
  MaxWrites         \* bound of the model: requests that write

Types == {"admin", "hr_manager", "specialist", "hr_officer"}
ActiveTypes == Types \ {"hr_officer"}      \* the others stand in old databases only
Privileged == {"admin", "hr_manager"}
Operations == {"view", "add", "edit", "delete", "roles"}

ASSUME AccountsAssumption ==
  /\ Supers \cup Guarded \subseteq Users /\ Sensitive \subseteq Codes
  /\ Needs \in [Operations -> Codes] /\ Implies \in [Codes -> SUBSET Codes]
  /\ DefaultsOf \in [ActiveTypes -> SUBSET Codes]
  /\ NoRole \notin RoleIds /\ MaxWrites \in Nat

VARIABLES
  known,      \* Permission rows
  roles,      \* Role rows: missing, live or (softly) deleted
  users,      \* User and UserProfile rows
  sheet,      \* the page of a user's permissions that somebody fills in
  chosen,     \* what a request has read and checked and will save of a user
  counted,    \* the roles a request has found to be without users and will delete
  overtaken,    \* history: roles given by a request that overlapped their deletion
  writes
accountVars == <<known, roles, users, sheet, chosen, counted, overtaken, writes>>

Role == [state : {"missing", "live", "deleted"}, type : Types, system : BOOLEAN,
         on : BOOLEAN, has : SUBSET Codes]
User == [there : BOOLEAN, on : BOOLEAN, role : RoleIds \cup {NoRole},
         extra : SUBSET Codes, denied : SUBSET Codes]
Form == [by : Users, of : Users, shown : SUBSET Codes, ticked : SUBSET Codes]
Choice == [of : Users, role : RoleIds \cup {NoRole}, on : BOOLEAN, new : BOOLEAN]

NewUser(r, on) == [there |-> TRUE, on |-> on, role |-> r, extra |-> {}, denied |-> {}]
NoUser == [NewUser(NoRole, FALSE) EXCEPT !.there = FALSE]
NewRole(t, on) == [state |-> "live", type |-> t, system |-> FALSE, on |-> on, has |-> {}]
Blank == [NewRole("specialist", FALSE) EXCEPT !.state = "missing"]

LiveRoles == {r \in RoleIds : roles[r].state = "live"}
OnRoles == {r \in LiveRoles : roles[r].on}
OfType(t) == {r \in LiveRoles : roles[r].type = t}
RoleOf(u) == users[u].role

-----------------------------------------------------------------------------
(* What a user may do (get_user_permissions): a deleted role still counts,    *)
(* and what is denied is taken away again after the implied codes are added.  *)
RoleType(r) == IF r = NoRole THEN "none" ELSE roles[r].type
TypeOf(u) == RoleType(RoleOf(u))
IsAdmin(u) == u \in Supers \/ TypeOf(u) = "admin"
RoleCodes(u) == IF RoleOf(u) = NoRole THEN {} ELSE roles[RoleOf(u)].has
Expand(S) == S \cup UNION {Implies[c] : c \in S}
Effective(u) ==
  IF u \in Supers THEN Expand(known)
  ELSE IF RoleOf(u) = NoRole THEN {}
  ELSE Expand(IF IsAdmin(u) THEN known
              ELSE (RoleCodes(u) \cup users[u].extra) \ users[u].denied) \ users[u].denied
Acting == {a \in Users : users[a].there /\ users[a].on}
May(a, op) ==
  /\ a \in Acting
  /\ a \in Supers \/ (RoleOf(a) # NoRole /\ Needs[op] \in Effective(a))

RankOf(t) == CASE t = "admin" -> 100 [] t = "hr_manager" -> 90 [] t = "hr_officer" -> 30
               [] t = "specialist" -> 20 [] t = "none" -> 0
RankIn(u) == RankOf(TypeOf(u))
HasPrivilege(a) == a \in Supers \/ TypeOf(a) \in Privileged

(* can_administer_user, can_assign_role, assignable_roles_queryset            *)
Administers(a, u) ==
  \/ a \in Supers
  \/ u \notin Guarded /\ a # u /\ (TypeOf(a) = "admin" \/ RankIn(a) > RankIn(u))
MayAssign(a, r) ==
  \/ a \in Supers
  \/ IF RoleType(r) \in Privileged THEN HasPrivilege(a) ELSE RankOf(RoleType(r)) <= RankIn(a)
Assignable(a) ==
  {r \in OnRoles : /\ roles[r].type \in ActiveTypes
                   /\ \/ a \in Supers
                      \/ TypeOf(a) = "admin" /\ roles[r].type # "admin"
                      \/ RankOf(roles[r].type) <= RankIn(a) /\ roles[r].type \notin Privileged}

(* validate_user_admin_changes; r is NoRole where no role is sent             *)
ChangeAllowed(a, u, r, on) ==
  /\ u \in Guarded => a \in Supers /\ on
  /\ a = u /\ a \notin Supers => r \in {NoRole, RoleOf(a)} /\ on
  /\ a = u \/ Administers(a, u)
  /\ MayAssign(a, r)

-----------------------------------------------------------------------------
Write == writes < MaxWrites /\ writes' = writes + 1
Underway == UNCHANGED <<chosen, counted>>
OnlyUsers == Write /\ Underway /\ UNCHANGED <<known, roles, sheet>>
OnlyRoles == Write /\ Underway /\ UNCHANGED <<known, users, sheet>>

(* The check of a request that saves a user, and the save, which fails where  *)
(* the user was deleted meanwhile, or the worker dies.                        *)
Choose(u, r, on, new) ==
  /\ chosen = NoPage /\ chosen' = [of |-> u, role |-> r, on |-> on, new |-> new]
  /\ Write /\ UNCHANGED <<known, roles, users, sheet, counted>>
SaveUser ==
  /\ chosen # NoPage /\ chosen' = NoPage
  /\ users[chosen.of].there = ~chosen.new
  /\ users' = [users EXCEPT ![chosen.of] =
       IF chosen.new THEN NewUser(chosen.role, chosen.on)
       ELSE [@ EXCEPT !.role = chosen.role, !.on = chosen.on]]
  /\ UNCHANGED <<known, roles, sheet, counted, writes>>
SaveFails ==
  /\ chosen # NoPage /\ chosen' = NoPage
  /\ UNCHANGED <<known, roles, users, sheet, counted, writes>>

(* add_user; over the API the row of the profile, which a signal has created, *)
(* is created again: the request fails and leaves a user without a role.      *)
AddedOnPage(a, r, on) == r \in OnRoles \cup {NoRole} /\ MayAssign(a, r)
AddedOverApi(a, r, on) == r = NoRole /\ (on \/ HasPrivilege(a))
AddUser(a, u, r, on) ==
  /\ May(a, "add") /\ ~users[u].there /\ u \notin Supers
  /\ AddedOnPage(a, r, on) \/ AddedOverApi(a, r, on)
  /\ Choose(u, r, on, TRUE)

(* edit_user, and the API, which reaches the own account too and never takes  *)
(* the role away; assign_role does, and gives any role that is not deleted.   *)
EditedOnPage(a, u, r, on) ==
  r \in OnRoles \cup {NoRole} /\ Administers(a, u) /\ ChangeAllowed(a, u, r, on)
EditedOverApi(a, u, r, on) ==
  /\ r \in Assignable(a) \/ r = RoleOf(u)
  /\ ChangeAllowed(a, u, IF r = RoleOf(u) THEN NoRole ELSE r, on)
  /\ u \in Supers => a \in Supers
Assigned(a, u, r, on) ==
  /\ r \in LiveRoles \cup {NoRole} /\ on = users[u].on
  /\ ChangeAllowed(a, u, r, on \/ u \notin Guarded)
EditUser(a, u, r, on) ==
  /\ May(a, "edit") /\ users[u].there
  /\ EditedOnPage(a, u, r, on) \/ EditedOverApi(a, u, r, on) \/ Assigned(a, u, r, on)
  /\ Choose(u, r, on, FALSE)

(* delete_user; only the API lets superusers delete themselves                *)
DeleteUser(a, u) ==
  /\ May(a, "delete") /\ users[u].there /\ Administers(a, u)
  /\ users' = [users EXCEPT ![u] = NoUser]
  /\ OnlyUsers

-----------------------------------------------------------------------------
(* manage_user_permissions: the page, which shows the permissions there are   *)
(* and ticks those the user has, and what is sent from it later, against the  *)
(* role of the user as it is then.                                            *)
Manages(a, u) ==
  May(a, "edit") /\ users[u].there /\ Administers(a, u) /\ HasPrivilege(a)
Ticked(u) ==
  IF IsAdmin(u) THEN known
  ELSE (users[u].extra \cup RoleCodes(u)) \ users[u].denied
OpenForm(a, u) ==
  /\ sheet = NoPage /\ Manages(a, u)
  /\ sheet' = [by |-> a, of |-> u, shown |-> known, ticked |-> Ticked(u)]
  /\ Underway /\ UNCHANGED <<known, roles, users, writes>>
LeaveForm ==
  sheet # NoPage /\ sheet' = NoPage /\ Underway /\ UNCHANGED <<known, roles, users, writes>>

Mutant_SaveForm(allowed) ==
  /\ sheet # NoPage /\ Manages(sheet.by, sheet.of) /\ ~IsAdmin(sheet.of)
  /\ allowed \subseteq sheet.shown
  /\ users' = [users EXCEPT ![sheet.of].extra = allowed \ sheet.ticked,
                            ![sheet.of].denied = (sheet.shown \ allowed) \cap sheet.ticked]
  /\ sheet' = NoPage /\ Write /\ Underway /\ UNCHANGED <<known, roles>>
SaveForm(allowed) ==
  /\ sheet # NoPage /\ Manages(sheet.by, sheet.of) /\ ~IsAdmin(sheet.of)
  /\ allowed \subseteq sheet.shown
  /\ users' = [users EXCEPT
       ![sheet.of].extra = allowed \ RoleCodes(sheet.of),
       ![sheet.of].denied = (sheet.shown \ allowed) \cap RoleCodes(sheet.of)]
  /\ sheet' = NoPage /\ Write /\ Underway /\ UNCHANGED <<known, roles>>

-----------------------------------------------------------------------------
(* validate_role_type_change and validate_permission_grants                   *)
TypeAllowed(a, t, r) ==
  \/ a \in Supers
  \/ /\ t \notin Privileged
     /\ r # NoRole => /\ roles[r].system => t = roles[r].type
                      /\ RankOf(roles[r].type) <= RankIn(a)
GrantAllowed(a, S) == HasPrivilege(a) \/ S \cap Sensitive = {}
Grantable(a, r) ==
  IF roles[r].type = "admin" THEN {}
  ELSE SUBSET (IF HasPrivilege(a) THEN known ELSE known \ Sensitive)

AddRole(a, r, t, on) ==
  /\ May(a, "add") /\ roles[r].state = "missing" /\ TypeAllowed(a, t, NoRole)
  /\ roles' = [roles EXCEPT ![r] = NewRole(t, on)]
  /\ OnlyRoles

(* edit_role: the row is saved before the permissions are validated, and they *)
(* stay when that fails; a system role keeps its type, and what was an admin  *)
(* role its permissions.                                                      *)
EditRole(a, r, t, on) ==
  /\ r \in LiveRoles /\ TypeAllowed(a, t, r)
  /\ May(a, "roles") \/ May(a, "edit")
  /\ \E S \in Grantable(a, r) \cup {roles[r].has} :
       roles' = [roles EXCEPT ![r].type = IF roles[r].system THEN @ ELSE t,
                              ![r].on = on, ![r].has = S]
  /\ OnlyRoles

(* manage_role_permissions, and the API, for one permission at a time         *)
RoleSetOnPage(a, r, S) == (May(a, "roles") \/ May(a, "edit")) /\ S \in Grantable(a, r)
RoleSetOverApi(a, r, S) ==
  /\ May(a, "edit") /\ r \in Assignable(a) /\ ~roles[r].system
  /\ \E c \in known :
       \/ GrantAllowed(a, {c}) /\ S = roles[r].has \cup {c}
       \/ S = roles[r].has \ {c}
SetRolePermissions(a, r) ==
  /\ r \in LiveRoles /\ roles[r].type # "admin"
  /\ \E S \in SUBSET Codes :
       /\ RoleSetOnPage(a, r, S) \/ RoleSetOverApi(a, r, S)
       /\ roles' = [roles EXCEPT ![r].has = S]
  /\ OnlyRoles

(* delete_role: the count of the users of the role, and later its deletion,   *)
(* with no lock on either, so that nothing is checked again; or the worker    *)
(* dies between the two.                                                      *)
Mutant_CountRole(a, r) ==
  /\ May(a, "delete") /\ r \in LiveRoles /\ ~roles[r].system
  /\ \A u \in Users : users[u].there /\ users[u].on => RoleOf(u) # r
  /\ counted' = counted \cup {r}
  /\ Write /\ UNCHANGED <<known, roles, users, sheet, chosen>>
CountRole(a, r) ==
  /\ May(a, "delete") /\ r \in LiveRoles /\ ~roles[r].system
  /\ \A u \in Users : users[u].there => RoleOf(u) # r
  /\ counted' = counted \cup {r}
  /\ Write /\ UNCHANGED <<known, roles, users, sheet, chosen>>
DropRole(r) ==
  /\ r \in counted /\ counted' = counted \ {r}
  /\ roles' = [roles EXCEPT ![r].state = "deleted"]
  /\ UNCHANGED <<known, users, sheet, chosen, writes>>
DeletionDies(r) ==
  /\ r \in counted /\ counted' = counted \ {r}
  /\ UNCHANGED <<known, roles, users, sheet, chosen, writes>>

-----------------------------------------------------------------------------
(* A deployment: the permissions of the new release are registered, admin     *)
(* roles get all, and the first superuser is created if there is none.        *)
Registered(S) ==
  [r \in RoleIds |-> IF r \in OfType("admin") THEN [roles[r] EXCEPT !.has = known \cup S]
                     ELSE roles[r]]
Bootstrapped ==
  LET r == IF OfType("admin") = {} THEN NoRole ELSE CHOOSE q \in OfType("admin") : TRUE
  IN [u \in Users |-> IF u \in Supers /\ ~users[u].there THEN NewUser(r, TRUE) ELSE users[u]]
Release(S) ==
  /\ S \subseteq Codes \ known /\ known' = known \cup S
  /\ roles' = Registered(S) /\ users' = Bootstrapped
  /\ Write /\ Underway /\ UNCHANGED sheet

(* setup_roles, all or nothing: two live roles of one type make it fail.      *)
(* --reset removes the system roles first, rows and all, and their users have *)
(* no role after that; a request that was about to give or delete one of them *)
(* fails.  Old system roles are switched off, and users of old roles moved.   *)
Erased(reset) == IF reset THEN {r \in RoleIds : roles[r].state # "missing" /\ roles[r].system
                                                  /\ roles[r].type \in ActiveTypes} ELSE {}
SetupRoles(reset) ==
  LET left == [t \in ActiveTypes |-> OfType(t) \ Erased(reset)]
      spare == {r \in RoleIds : roles[r].state = "missing" \/ r \in Erased(reset)}
  IN \E pick \in [ActiveTypes -> RoleIds] :
       /\ \A t \in ActiveTypes :
            IF left[t] = {} THEN pick[t] \in spare ELSE left[t] = {pick[t]}
       /\ \A s, t \in ActiveTypes : pick[s] = pick[t] => s = t
       /\ roles' = [r \in RoleIds |->
            IF \E t \in ActiveTypes : pick[t] = r
            THEN LET t == CHOOSE t \in ActiveTypes : pick[t] = r
                 IN [state |-> "live", type |-> t, system |-> TRUE, on |-> TRUE,
                     has |-> IF t = "admin" THEN known ELSE DefaultsOf[t] \cap known]
            ELSE IF r \in Erased(reset) THEN Blank
            ELSE IF roles[r].system /\ roles[r].type \notin ActiveTypes
            THEN [roles[r] EXCEPT !.on = FALSE] ELSE roles[r]]
       /\ users' = [u \in Users |->
            IF RoleOf(u) \in Erased(reset) THEN [users[u] EXCEPT !.role = NoRole]
            ELSE IF TypeOf(u) = "hr_officer" THEN [users[u] EXCEPT !.role = pick["specialist"]]
            ELSE users[u]]
       /\ counted' = counted \ Erased(reset)
       /\ chosen' = IF chosen # NoPage /\ chosen.role \in Erased(reset) THEN NoPage ELSE chosen
       /\ Write /\ UNCHANGED <<known, sheet>>

(* setup_user_profiles: superusers get the admin role, if there is one.       *)
LinkProfiles ==
  /\ Cardinality(OfType("admin")) = 1
  /\ users' = [u \in Users |-> IF u \in Supers /\ users[u].there
       THEN [users[u] EXCEPT !.role = CHOOSE r \in OfType("admin") : TRUE] ELSE users[u]]
  /\ OnlyUsers

-----------------------------------------------------------------------------
AccountsInit ==
  /\ known = {} /\ sheet = NoPage /\ writes = 0
  /\ chosen = NoPage /\ counted = {} /\ overtaken = {}
  /\ users = [u \in Users |-> IF u \in Supers THEN NewUser(NoRole, TRUE) ELSE NoUser]
  /\ roles = [r \in RoleIds |-> Blank]

AccountsStep ==
  \/ \E a \in Acting, u \in Users :
       \/ \E r \in RoleIds \cup {NoRole}, on \in BOOLEAN : AddUser(a, u, r, on) \/ EditUser(a, u, r, on)
       \/ DeleteUser(a, u) \/ OpenForm(a, u)
  \/ SaveUser \/ SaveFails \/ LeaveForm \/ \E S \in SUBSET Codes : SaveForm(S)
  \/ \E a \in Acting, r \in RoleIds :
       \/ \E t \in Types, on \in BOOLEAN :
            AddRole(a, r, t, on) \/ EditRole(a, r, t, on)
       \/ SetRolePermissions(a, r)
       \/ CountRole(a, r)
  \/ \E r \in RoleIds : DropRole(r) \/ DeletionDies(r)
  \/ \E S \in SUBSET Codes : Release(S)
  \/ \E reset \in BOOLEAN : SetupRoles(reset)
  \/ LinkProfiles

(* The roles users have, and the one a user is about to be given; a role is   *)
(* overtaken when it comes to either while it is about to be deleted.         *)
HeldRoles == {RoleOf(u) : u \in {v \in Users : users[v].there}}
DueRole == IF chosen = NoPage THEN {} ELSE {chosen.role}
AccountsNext ==
  /\ AccountsStep
  /\ overtaken' = overtaken \cup (counted' \cap (DueRole' \cup (HeldRoles' \ HeldRoles)))

AccountsSpec == AccountsInit /\ [][AccountsNext]_accountVars

-----------------------------------------------------------------------------
AccountsTypeOK ==
  /\ known \subseteq Codes /\ roles \in [RoleIds -> Role] /\ users \in [Users -> User]
  /\ sheet \in Form \cup {NoPage} /\ chosen \in Choice \cup {NoPage}
  /\ counted \subseteq RoleIds /\ overtaken \subseteq RoleIds /\ writes \in 0..MaxWrites

(* What the page of permissions saves is what was chosen on it, whoever       *)
(* changed the role, its permissions or the user since it was opened: every   *)
(* code shown is in force if it was allowed, and if it was not, only because  *)
(* another code that is in force brings it along (manage_user_permissions,    *)
(* get_user_permissions, _expand_implied_permissions).                        *)
SavedAsChosen ==
  [][sheet' # sheet => \A S \in SUBSET known : SaveForm(S) =>
       \A u \in {sheet.of} : RoleOf(u) # NoRole =>
         \A c \in sheet.shown :
           IF c \in S THEN c \in Effective(u)'
           ELSE c \in Effective(u)' => \E d \in Effective(u)' : d # c /\ c \in Implies[d]
    ]_accountVars

(* No user is left with a deleted role (roles.py: a role is deleted "without  *)
(* users") by what the pages, the API and the setup commands do.  The one     *)
(* exception is a role that a request gave, or was about to give, while       *)
(* another had already counted its users and was about to delete it: nothing  *)
(* locks it.                                                                  *)
NoGhostRole ==
  \A u \in Users : users[u].there /\ RoleOf(u) # NoRole =>
    roles[RoleOf(u)].state = "live" \/ RoleOf(u) \in overtaken
=============================================================================
