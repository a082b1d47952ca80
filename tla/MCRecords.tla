------------------------------ MODULE MCRecords ------------------------------
(* Twelve parts of the system that share no row.  A behaviour of this       *)
(* instance is about one of them, the others at rest in one initial state:    *)
(* the leave ledger, the loans, employment requests ("hire"), maintenance     *)
(* requests, the daily report, the caches of the navigation, a day at the     *)
(* devices, the deployments, the accounts, the lists of the organisation, the *)
(* file of an employee ("leaves": with its leaves, "file": with all the rest).*)
EXTENDS LeaveLedger, Loans, EmploymentRequests, Maintenance, OperationsReport,
        NavigationCaches, AttendanceDay, Deployment, Accounts, SetupLists, EmployeeFile
VARIABLE part

MCNeeds == [op \in Operations |-> "users"]
MCImplies == [c \in Codes |-> IF c = "manage" THEN {"view"} ELSE {}]
MCDefaults == [t \in ActiveTypes |-> CASE t = "admin" -> Codes
                 [] t = "hr_manager" -> {"users", "view"} [] OTHER -> {"view"}]

\* A system in use: a clerk who is allowed "manage" and denied "view", which the role
\* holds and "manage" brings along, and a role without users.
AccountsInUse ==
  /\ known = Codes /\ sheet = NoPage /\ writes = 0
  /\ chosen = NoPage /\ counted = {} /\ overtaken = {}
  /\ roles = [r \in RoleIds |->
        CASE r = "clerk" -> [NewRole("specialist", TRUE) EXCEPT !.has = {"view"}]
          [] r = "r1" -> NewRole("hr_manager", TRUE)
          [] OTHER -> Blank]
  /\ users = [u \in Users |-> IF u \in Supers THEN NewUser(NoRole, TRUE)
        ELSE [NewUser("clerk", TRUE) EXCEPT !.extra = {"manage"}, !.denied = {"view"}]]

\* Whether a unit is in use makes no difference here, and no unit is given the name "6"
\* anew; a lookup is entered as "5", in use, or as "x", which is not.
MCEntered == [t \in Tables |-> {v \in Entry : /\ ~v.deleted
  /\ IF t \in Units THEN v.on /\ v.name # "6" ELSE v.name = v.code /\ v.on = (v.code = "5") /\ v.code # "6"}]

\* Two units, the first entered the wrong way round with the code of the second as
\* its name.
ListsInUse ==
  /\ table = [t \in Tables |-> [r \in Rows |->
        IF t \in Lookups THEN NoEntry
        ELSE IF r = "r1" THEN [code |-> "x", name |-> "5", on |-> TRUE, deleted |-> FALSE]
        ELSE [code |-> "5", name |-> "6", on |-> TRUE, deleted |-> FALSE]]]
  /\ list = [t \in Tables |-> NoEntry] /\ page = [p \in Servers |-> AtRest]
  /\ late = [t \in Tables |-> FALSE] /\ untold = late /\ changes = 0

MCInit ==
  /\ part \in {"ledger", "loans", "hire", "maintenance", "report",
               "caches", "day", "deploy", "accounts", "lists", "leaves", "file"}
  /\ Init /\ LoanInit
  /\ HireInit /\ MaintInit /\ ReportInit /\ CachesInit /\ DayInit /\ DeployInit
  /\ part # "maintenance" => staff = {}
  /\ part # "report" => sendAt = 0 /\ hasData = {}
  /\ part # "day" => grace = DefaultGrace
  /\ part # "deploy" => release = 1
  /\ AccountsInit \/ (part = "accounts" /\ AccountsInUse)
  /\ IF part = "lists" THEN ListsInUse ELSE SetupInit
  /\ FileInit
  /\ part \notin {"leaves", "file"} => dossier.start = NoDate

MCNext ==
  /\ UNCHANGED part
  /\ \/ part = "ledger" /\ Next
     \/ part # "ledger" /\ UNCHANGED vars
  /\ \/ part = "loans" /\ LoanNext
     \/ part # "loans" /\ UNCHANGED loanVars
  /\ \/ part = "hire" /\ HireNext
     \/ part # "hire" /\ UNCHANGED hireVars
  /\ \/ part = "maintenance" /\ MaintNext
     \/ part # "maintenance" /\ UNCHANGED maintVars
  /\ \/ part = "report" /\ ReportNext(FALSE)
     \/ part # "report" /\ UNCHANGED reportVars
  /\ \/ part = "caches" /\ CachesNext
     \/ part # "caches" /\ UNCHANGED cacheVars
  /\ \/ part = "day" /\ DayNext
     \/ part # "day" /\ UNCHANGED dayVars
  /\ \/ part = "deploy" /\ DeployNext
     \/ part # "deploy" /\ UNCHANGED deployVars
  /\ \/ part = "accounts" /\ AccountsNext
     \/ part # "accounts" /\ UNCHANGED accountVars
  /\ \/ part = "lists" /\ SetupNext
     \/ part # "lists" /\ UNCHANGED setupVars
  /\ \/ part = "leaves" /\ (LeaveNext \/ SharedNext)
     \/ part = "file" /\ (FileNext \/ SharedNext)
     \/ part \notin {"leaves", "file"} /\ UNCHANGED fileVars

MCVars == <<part, vars, loanVars, hireVars, maintVars, reportVars, cacheVars, dayVars,
            deployVars, accountVars, setupVars, fileVars>>
MCSpec == MCInit /\ [][MCNext]_MCVars
=============================================================================
