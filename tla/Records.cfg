SPECIFICATION MCSpec
CONSTANTS
  Workers = {w1}
  Days = 2
  Accrual = 2
  Opening = 3
  None = None
  MaxDay = 3
  MaxRows = 3
  MaxFaults = 1
  LoanIds = {l1}
  Amounts = {1, 2, 3}
  MaxMonth = 3
  NoLoan = NoLoan
  Clerks = {c1, c2}
  Threads = TRUE
  NoRow = NoRow
  Callers = {m1}
  Crew = {w1, w2}
  Nothing = Nothing
  MaxReturns = 2
  Jobs = {j1}
  Roles = {r1, r2}
  Minutes = 4
  CatchUp = 2
  LastReportDay = 1
  MaxMishaps = 2
  Never = Never
  Requests = {q1, q2}
  MaxSaves = 3
  Missing = Missing
  Readers = {d1, d2}
  Moments = {1, 3, 5}
  Expected = 0
  Graces = {0, 2, 3}
  DefaultGrace = 3
  NoPunch = NoPunch
  Attempts = 2
  BackupFirst = TRUE
  BackupRequired = TRUE
  Volume = FALSE
  KeepDays = 0
  LastRelease = 2
  LastEntry = 2
  LastDate = 1
  MaxDumps = 3
  MaxFailures = 2
  Users = {u0, u1}
  Supers = {u0}
  Guarded = {}
  RoleIds = {"clerk", "r1", "r2"}
  Codes = {"users", "view", "manage"}
  Sensitive = {"users"}
  Needs <- MCNeeds
  Implies <- MCImplies
  DefaultsOf <- MCDefaults
  NoRole = NoRole
  NoPage = NoPage
  MaxWrites = 2
  Lookups = {"building"}
  Units = {"branch"}
  Rows = {"r1", "r2"}
  Labels = {"5", "6", "x"}
  Digits = {"5", "6"}
  Entered <- MCEntered
  Servers = {v1, v2}
  MaxChanges = 2
  NoEntry = NoEntry
  Tickets = {t1, t2}
  LeaveRows = {l1, l2}
  Items = {i1}
  Wages = {1, 2}
  Places = {p, q}
  LastNow = 2
  MaxForms = 3
  NoTicket = NoTicket
  NoLeave = NoLeave
  NoEdit = NoEdit
  NoDate = NoDate
INVARIANTS LedgerRowsOnce TakenWithinEarned ScheduleWhole
  HiredOnceComplete ColumnsFollowStatus
  OnceADay NoGhostRole ListIsFresh OverviewIsFresh ReclassifiedDayIsRight
PROPERTIES DecisionIsFinal SavedAsChosen MigrationIsRecoverable ReturnStands
CHECK_DEADLOCK FALSE
