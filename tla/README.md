# HR_SEED in TLA+

HR_SEED is a human-resources system: a Django 5 web application on PostgreSQL with
Celery workers, an attendance API for branch agents and scheduled commands. This
directory models its core in TLA+, checks the models with TLC and proves the main
invariants with TLAPS.

What makes the system hard is not its algorithms but its database discipline.
`Dockerfile:66` starts gunicorn with 3 workers of 4 threads, Celery builds payrolls
in the background, PostgreSQL runs READ COMMITTED and `ATOMIC_REQUESTS` is not set.
A request is therefore a sequence of autocommitted statements and small transactions
of a worker which may die between any two of them, and what it loaded may be stale
when it writes. Only two places take a row lock that matters here: the review handlers
of the approval workflow (`_locked`) and `PayrollRun.acquire_row_lock`.

The text is in this order: the inventory of the system, the modules and how their
state and actions correspond to the code, the runs and their bounds, what exploring the
models showed besides, fairness, what is proved, and what is not modelled.

## Inventory

Paths are under `src/backend/apps/` unless they start with `src/`. The last column is
the module whose section below says what of the component is modelled.

| Component | State | Operations | Interacts with | Modules |
|---|---|---|---|---|
| Approval workflow (`core/services/pending_actions.py`, `core/web_views/pending_actions.py`, `core/web_views/employee_workflow.py`) | `PendingAction`: status, stage boxes, `executed_at`, payload; `Employee.status` | queue, settle directly, endorse and assign, execute, return, resubmit, delete | writes the employee, the deduction items, the loans; removes lines of payroll drafts; notifications | `PendingActions`, `ApprovalPromise`, `Inbox` |
| The employee's file (`employees/forms.py`, `core/forms.py`, `core/web_views/employees.py`, `employees/services/`) | `Employee`, leaves, custody, contract, bank details | fill in a form, execute, edit, delete | approval workflow, ledger | `EmployeeFile`, `ContractForm` |
| Payroll runs (`payroll/services/engine.py`, `payroll/views.py`, `payroll/models.py`) | `PayrollRun` (status, totals, soft delete), `PayrollLine` with its breakdown; the filters of the session | build, rebuild, purge, delete, audit, lock, unlock, list | reads employees and items, binds items, writes the ledger and the loans | `PayrollRuns`, `PayrollPromise`, `PayrollLines`, `PayrollPage` |
| Deduction items (absence, unpaid leave, penalty, shortage, loan installment) | the row and `applied_to_payroll` | record, edit, delete, bind, release | runs | `PayrollRuns`, `PayrollLines` |
| Detailed runs (`payroll/services/transfer_payroll.py`) | statements of transfers, allocation lines | transfer, build, lock | runs | `Transfers` |
| Loans (`employees/models.py`, `core/web_views/employee_workflow.py`) | `EmployeeLoan`, installments | grant, generate, edit, delete, deduct | runs, settlements | `Loans` |
| Leave and end-of-service ledger (`employees/services/`) | cumulative rows per employee | open, append, delete on unlock, recalculate | runs, approval workflow | `LeaveLedger` |
| Settlement dues (`employees/services/settlement_eosb.py`) | none (pure) | benefit by years of service and article | approval workflow | `Entitlements` |
| Salary month and periods (`core/salary_month.py`, `payroll/services/period_eligibility.py`) | none (pure) | days of a month, period of an employee | runs | `PayrollLines`, `Entitlements` |
| Employment requests (`core/services/employment_requests.py`) | `EmploymentRequest`, the employee it creates | create, edit, approve, reject, background notification | employees | `EmploymentRequests`, `ContractForm` |
| Maintenance requests (`maintenance/services/requests.py`) | six-state request, worker token | assign, report, close, confirm, return, resubmit | WhatsApp | `Maintenance` |
| Attendance (`attendance/`, `core/web_views/biometric_devices.py`) | devices with their watermark, links, punches, daily rows | create, renumber, link, pull, import, infer, evaluate, purge | devices, agents | `DeviceRegistry`, `DirectPull`, `AttendanceDay` |
| Branch agent (`attendance/services/agent_pull_queue.py`, `src/backend/scripts/biometric_bridge/agent.py`) | pull requests, local configuration | queue, list, ingest, acknowledge, retry | attendance, over an unreliable network | `PunchSync` |
| Caches (`core/services/dashboard_cache.py`, `sidebar_counts.py`, `core/services/setup_cache.py`) | versioned keys, lists | compute, store, invalidate | everything that counts | `NavigationCaches`, `SetupLists` |
| Setup tables (`setup/`, `departments/`, `cost_centers/`) | rows with unique codes | create, edit, delete, swap codes and names | employees | `SetupLists` |
| Operations report (`core/services/operations_report_schedule.py`, the command `send_operations_report`) | last dispatch | due?, send, record | e-mail, WhatsApp | `OperationsReport` |
| Access control (`core/services/access_control.py`, `core/web_views/users.py`, `roles.py`) | users, roles, permissions | create, edit, delete, test | every view | `Accounts`, `Inbox` |
| WhatsApp (`core/services/whatsapp/`) | numbers, log, settings of the gateway | send, ask for a status, receive webhooks | workflow, maintenance | `WorkflowMessages`, `GatewayLink` |
| Deployment (`src/docker/entrypoint.sh`, backup and restore commands) | database, backups, marker | start, back up, migrate, load, restore | everything | `Deployment` |
| Audit log; reports, PDF, Excel, templates | none of their own | read | everything | not modelled |

Hard behaviours and what makes each component correct:

- *Approval workflow*: two reviews at once, a deletion during a review, repeated
  returns, two settlements of one employee, a crash between the statements of a
  deletion. Correct when a request's effects are written exactly once and only after
  the endorsement of the current round, a deleted request is inert, an employee is
  settled once and stays settled until reactivated, and nobody overlooks a request
  that waits on him.
- *Employee's file*: what a form checked is executed later. Correct when no more leave
  is taken than was earned, a returned item stays returned, and the contract and bank
  details that are saved are those that were checked.
- *Payroll*: rebuild, delete and lock racing; two runs that charge the same item;
  settlements, transfers and edits of items under way; a rebuild between the audit and
  the lock; builds that sweep the drafts of others. Correct when a locked run is frozen and
  complete, its totals are those of its lines, every item is charged once and what is
  marked as taken was taken, and every employee is paid in one run, and nobody more
  for fewer days.
- *Ledger and loans*: cumulative values read before others are inserted; a failing
  row swallowed. Correct when the cumulative columns are the sums of the changes, a
  month has one row exactly while its run is locked, and a loan's installments are the
  loan.
- *Settlement dues*: steps of the rules with rounding in between. Correct when a day
  more of service never costs anything.
- *Employment and maintenance requests*: status tested without a lock, a background
  write of an old status. Correct when a decided request stays decided, one employee at
  most is created and is complete, and the columns of a request tell one story.
- *Attendance*: late, repeated and lost batches, devices renumbered under an import,
  wrong directions. Correct when every punch is stored once, under the right employee, a
  pull request is closed, and a day is judged by the order of its punches.
- *Caches*: correct when nothing computed before an invalidation is served after it.
  *Operations report*: correct when it is sent once a day or retried.
- *Accounts*: correct when no user keeps a role that is gone and a page of permissions
  saves what was chosen on it.
- *Messages*: correct when everyone concerned is told, and once; the page of the gateway
  shows what the gateway last said.
- *Deployment*: correct when a migration can always be taken back.

The complete list of hazards, each at its line, is in `PROJECT.json` (`hazards`), with
the properties that would catch it, or the reason why none does.

## The modules

| Module | What it is |
|---|---|
| `PendingActions` | the approval workflow, any number of workers |
| `ApprovalPromise` | what the workflow promises about one request (abstract) |
| `PendingActionsSerial` | the same with one worker, and what it may then rely on |
| `Inbox` | what each user is shown of the requests that wait |
| `PayrollRuns`, `PayrollRunsSerial` | the payroll runs of a month with their items; the same with one worker |
| `PayrollPromise` | what the payroll promises of closed runs and the items they take (abstract) |
| `Transfers` | who is in which branch's run through transfers and settlements; detailed runs |
| `PayrollLines` | the amounts of one line, the audit and the lock |
| `PayrollPage` | the filters of the payroll page and what they list, build, lock and delete |
| `Entitlements`, `Amounts` | dues on leaving, day by day; rounding |
| `LeaveLedger`, `Loans` | the ledger and the loans of an employee |
| `EmploymentRequests`, `Maintenance` | the two smaller workflows |
| `EmployeeFile`, `ContractForm` | the file of an employee: leaves, custody, pay, branch, returns; contract and bank |
| `PunchSync` | a device, its branch agent and the server over a bad network |
| `DeviceRegistry`, `DirectPull`, `AttendanceDay` | devices and links; pulls without an agent; the day of an employee |
| `NavigationCaches`, `SetupLists` | the overview and the counters; the setup tables and their cached lists |
| `OperationsReport`, `Deployment` | the daily report; the life of the container, backups and restores |
| `Accounts` | users, roles and permissions |
| `WorkflowMessages`, `GatewayLink` | the messages of the workflows; the connection of the gateway |
| `MC…` | instances for TLC |
| `…Proofs` | theorems and their proofs |

Two modules meet where the code of one calls the other: `SettleCommit` and
`OfficerApprove` of `PendingActions` are, seen from the payroll, the `SettleLoad` and
`SettleCommit` of `PayrollRuns`, and `terminated` there is the set of employees whose
`empStatus` is `"terminated"`. In the same way `Transfers`, `Loans` and `LeaveLedger`
have a settlement and a lock of their own, `EmployeeFile` has the execution of a request
as one step, and `Inbox` has the decisions as one step each. They are checked apart: a
composition multiplies the state spaces without adding a shared variable beyond such a
set.

Instances that hold several modules (`MCRecords`, `MCPay`, `MCDeviceRegistry`,
`MCPendingActionsSerial`, `MCPayrollRunsSerial`) choose a `part` in the initial state.
The behaviour is then one of that module alone, with the variables of the others at rest
in one initial state, so that each module is checked over all its behaviours and the
state spaces add up instead of multiplying.

### PendingActions, ApprovalPromise, PendingActionsSerial

| Variable | Code |
|---|---|
| `row[a]` | a `PendingAction`: `status`, `kind` (the action type by its effect on the employee's status), `subject` (`employee`), `requester`, `gm` and `officer` (`gm_reviewed_by`, `assigned_officer`), `executed` (`executed_at`), `before` (`payload['status_before_settlement']`), `resubmits`, `deleted` |
| `effects[a]` | how often the records an executor writes for `a` were committed (not a column: a history variable) |
| `empStatus[e]` | `Employee.status` |
| `rowLock[a]` | `SELECT … FOR UPDATE` of `_locked` |
| `req[p]` | what thread `p` is doing and the instances it has loaded |

A review (`GmApprove`, `OfficerApprove`, `Return`, `Resubmit`) is one transaction: it
locks and reads the row (`LockRow`), then commits. The executor is inside it, so that
its whole effect is in `OfficerApprove` and its failure is `RequestEnds`. A direct
settlement is a load (`LoadEmployee`), a check that no settlement is open
(`SettleCheckOpen`) and a commit (`SettleCommit`). Queueing a settlement is three
autocommits (`QueueCheckOpen`, `QueueSuspend`, `QueueInsert`). A deletion is a load, a
revert of the suspension (`DeleteRevert`) and an `UPDATE` that waits for the row lock
(`DeleteCommit`). `RequestEnds` is a refusal, an exception or the death of the worker:
the open transaction is rolled back, autocommitted writes stay.

`QueuedSettlements` says whether settlements are queued at all: the web views settle
directly, while `create_pending_action` and rows of earlier releases still queue.
`LegacyRow` are rows that migration 0015 mapped to `pending_branch` or `returned`,
without a recorded earlier status.

### Inbox

`role`, `present` and `grants` are the users with their role types and permissions,
`request` the `PendingAction` and `EmploymentRequest` rows in the order they were made.
Each page is an operator written from its own query: `VisibleActions` and
`ListedInbox` (the list and its inbox tab, cut at `_MERGE_LIMIT`), `Badge` (the number in
the sidebar), `MenuCount`, `DashboardPanels` and `DashboardTasks`, `HirePage`; and each
handler's tests are `CanAct`, `CanReturn`, `CanReject`, `CanDelete`. `WorkIsSeen` relates
the two: a request that waits on a user, by the handler, is listed, counted and open to
him. Decisions are one step (`Endorse`, `Complete`, …): `PendingActions` has the overlaps.

### PayrollRuns, PayrollRunsSerial, PayrollPromise

| Variable | Code |
|---|---|
| `run[r]` | a `PayrollRun`: `status`, soft delete, `lines` (the employees with a `PayrollLine`), `charged` (the items in the breakdowns), `counted` (the employees in the header's totals) |
| `item[i]`, `applied[i]` | a deduction item and its `applied_to_payroll` |
| `terminated` | the employees whose settlement is executed |
| `rowLock[r]`, `req[p]` | as above, for `acquire_row_lock` |

`KeyOf` is what `_acquire_payroll_run` looks a run up by; `UniqueKey` are the keys a
unique constraint really covers: a consolidated cash run has a NULL sponsorship, and
PostgreSQL takes NULLs as distinct. `BuildStart` acquires and tests the status,
`BuildRead` takes the row lock and reads the data, `BuildCommit` writes lines, totals
and the purge of the branches' drafts. `LockAudit`, `LockRead`, `LockCommit` are the
view's audit, the counts of free items under the row lock, and the `UPDATE`s. `Unlock`
reads and writes under the row lock and is one step.

`PayrollPromise` has only the closed runs (`closedBar`: those that are locked), whom and
what each pays (`sheetBar`: its lines, charged items and counted employees) and which closed
run has taken an item (`applied`). A run closes with all its items, each taken for the first
time, or is opened again; a build, a purge, a deletion, a settlement and an edit are not
seen. `KeepsPayrollPromise` says that `PayrollRuns` with one worker implements it.

Abstractions: one month; one build per transaction; a run's sponsorship is fixed by
its key; employees are selected by `Members` and `terminated`; amounts are abstracted
to the set of employees and items they sum; the ledger rows that locking writes are in
`LeaveLedger`; `CANCELLED` and detailed runs do not occur; primary keys are not reused
(`"gone"`). Every item that is not an installment may be edited and deleted (cash
shortages have no edit view: the model allows more than the code). Pruning empty
consolidated drafts is left out: it deletes what `Discard` deletes.

### Transfers, PayrollLines, PayrollPage

`Transfers` has the day of the month, `branchOf` (`Employee.branch`), `moves` (the dated
statements), the `standard` run of each branch and the `detailed` run of each company.
`Transfer` executes a request: the branch changes today, the statement may bear an
earlier date (`BackDated`). `InBranch(b)` is `employees_queryset_for_branch_payroll`,
`LockedElsewhere` its exclusion of employees of another locked run, `Shares` the
allocation of `transfer_payroll.py`. `paidOff` remembers whom a settlement paid days of
the month.

`PayrollLines` is one employee's line for one month: `BuildLine` computes the snapshot
(payable days, proration, insurance, the cap of the deductions at the earnings). A request
to lock is two steps: `AuditLine` reads the draft without its lock and lets it pass
(`Audited`), `LockLine` takes the lock and locks what it finds. The employee and the items
change, and the line is rebuilt, between any two steps.
`PayFollowsDays` compares what two employees with the same pay get for parts of one month.
Amounts are in halalas and divided as `Decimal.quantize` divides (`Amounts`).

`PayrollPage` has `sheet[k]` (the run of a key) and `session[u]` (the stored filters).
`Parsed`, `Merged`, `Resolved` and `Inferred` are the steps a query goes through;
`MatchingSheets` is the selection of the final closing and `Exported` that of the export;
`BuildRuns` builds per branch or per company and sponsorship and sweeps the drafts.

### Entitlements

A behaviour is the service of one employee: each `NextDay` moves the date of leaving a
day on. `CompletedMonths`, `AccruedLeave`, years of service (a year of 360 days, four
decimals) and the benefit of each kind of settlement are operators over `hire` and `now`;
`DuesNeverShrink` compares every two consecutive days. The calendar has a leap year every
four years, which is right from 1901 to 2099.

### LeaveLedger and Loans

`LeaveLedger` has the `rows` of one employee in the order of their creation, the columns
of the employee that the writers read, and what each worker has read (`job`). Every
writer is a read and a commit: `ViewProfile` and `InitLedger` (opening), `ImportCheck`
and `ImportCommit`, `LeaveRead` and `LeaveCommit`, `SettleRead` and `SettleCommit`,
`LockRead` and `LockCommit` (with the row that fails to its savepoint and is swallowed),
`RecalcRead`, `DeleteRow` and `RecalcWrite`. Leave is counted in days, of which a month has
`Days`; the amounts beside it are read and written by the same statements.

`Loans` has the terms of each loan, its installments by loan and month (a key that deleted
rows keep), and the drafts that charge them. `Share` is the schedule of
`generate_installments`. Because a run with an installment cannot be locked, no
installment is ever paid, and the checks for consumed installments are left out.

### EmploymentRequests and Maintenance

In `EmploymentRequests` every page is a load (`Open`) and a save of what was loaded
(`Approve`, `Reject`, `EditSave`, `DeleteRequest`), and the background notification is
`NoticeReads` and `NoticeWrites`. `overlapped` remembers whether two of them ever did
(`Alone` says that none do now). In
`Maintenance` a service has read the status of the request (`CallService`) and writes
what it changes (`Assign`, `Report`, `Close`, `Confirm`, `ReturnOrder`, `ResubmitOrder`).

### EmployeeFile and ContractForm

`EmployeeFile`: `dossier` is the employee's row, `away` the leaves, `kept` the custody,
`ticket` the requests that wait, `editing` the fields an edit page was opened with. A form
(`AskLeave`, `AskWage`, …) tests and leaves a ticket, `Execute…` writes what the ticket
says without testing again, `SaveEdit` writes every field back. Only the clearance of
custody tests again, and in two steps, because it reads the item without a lock
(`ReadClear`, `SaveClear`, or `DropClear` where it fails): `crossed` are the items that two
requests cleared at once. `EarnedLeave` and `UsedLeave` are the operators of
`leave_balance.py`. Two histories say where the balance is known to be overdrawn: `orderly`
turns false when a leave is asked for or edited while another waits, when the date or the
opening that leave is earned from changes, or when a settlement is dated back; `lent` counts
the days that an edit gives back of a leave from before the accrual, which the balance never
counted.

`ContractForm`: `request` is an employment request with its tabs, `employee` the row. The
full page is `EditEmployee`: `ContractErrors` and `PaymentValid` are its two checks,
`Saves` what it then writes, including `Synced`, which makes a Saudi's contract unlimited
after three years; `ViewContract` does the latter on being looked at. `Reactivate` sets a
new date of hire and leaves the contract as it is. A duration left blank (`NoMonths`) and a
duration of 0 are two values, which the checks tell apart. Each request is one step.

### PunchSync

`log` is the device, `stored` the server's punches, `rows` the pull requests, `agent` the
cycle of the branch agent with what it has planned, `post` its HTTP requests. A cycle is
`ListPulls`, `FetchDevice`, `PlanUpload`, `SendChunk` …, `ReceiveReply`, `SendAck`; the
server handles a request in `ReadIndex`, `Import` and `Acknowledge`, possibly after the
agent has given up. `LosePost` loses a request or its answer. `SaveRequest` has read the
pending row in `LookPending`, so that two clicks insert two rows. Time passes in `Tick`, and
`Young` is what agent and server still take: 93 days back (`Recent`) in an incremental
upload, 365 (`Year`) in any other.

### DeviceRegistry, DirectPull, AttendanceDay

`DeviceRegistry`: devices by number with their key, `links` of numbers to employees,
`punches` as the set of the rows stored, each with the number and the employee it was
imported under (two punches with the same three are one row). An `errand` is what a worker has read:
`TestLoad`/`TestSave` save every column, `LinkCheck`/`LinkCommit`/`LinkLog` are a link and
its log, `IngestRead`/`IngestWrite` import under the links read. `Renumber` gives a device
the number of `devices.list`, reviving and purging a deleted row that has it.

`DirectPull`: a pull reads the device in one session (`ReadDevice`), may clear it,
closes (`CloseSession`), reads the index of what is stored (`LoadIndex`) and stores
(`StoreNew`); `NextNumber` lets a cleared device number its records anew (`Restarts`).
`careful` remembers whether one of the three things happened that lose records.

`AttendanceDay`: punches arrive in any order with the direction the device reports;
`ReclassifyRead(D)` and `ReclassifyWrite` are a reclassification of the devices `D`, all of
them or one, by the order of the punches of each; `sorted` remembers the devices that have
sent nothing since. The daily row and the alert are operators.

### NavigationCaches and SetupLists

`NavigationCaches`: the data is a number that grows, `version` and `overview` the keys of
the dashboard, `sidebar` the counters. `ReadOverview` and `StoreOverview` are apart; an
invalidation deletes the sidebar and increases the version in two commands (`INCR`, and
`SET` when there is no version). `Save` is a save that invalidates the keys of this user,
`SaveElsewhere` one that invalidates the keys of others or none, and `told` the data when the
last invalidation ended. `SetupLists`: `table` are lookups and units, `list` what is cached,
`page` what each thread is doing between its check, its save and its deletion of the lists;
a worker may die between any two of them (`WorkerDies`), and the forms of Django's admin
(`AdminForm`) delete no lists. `FixSwapped` is the command each start of the server runs.

### OperationsReport and Deployment

`OperationsReport`: `Tick` starts a process each minute, `ReportDue` is
`scheduled_send_due`, `Deliver` sends to one recipient, `Finish` records. `Dies`,
`CronSkips` and `SaveSettings` (of the row the page had loaded) are its mishaps.
`Deployment` follows `entrypoint.sh`: the test of what is pending, the backup, the attempts
of `migrate`, the checks, the initial data, then the daily backups, restores and later
images. What `pg_dump` and `psql` leave when they fail is modelled as external.

### Accounts, WorkflowMessages, GatewayLink

`Accounts`: `Effective(u)` is `get_user_permissions`, with the codes that another brings
along; every operation is tested by `May`, and by what `Manages`, `MayAssign` and
`GrantAllowed` say of the page and of the API, which differ. `sheet` is the page of a user's
permissions while it is filled in. A request that saves a user chooses the role
(`AddUser`, `EditUser`) and saves later (`SaveUser`), one that deletes a role counts its users
(`CountRole`) and deletes later (`DropRole`); `overtaken` are the roles that the former gave
between the steps of the latter. All other requests are one step. `SetupRoles`, `Release`, `Bootstrapped` and
`LinkProfiles` are the commands.

`WorkflowMessages`: a transaction (`run`) sends its messages one by one; the gateway
answers, refuses, or answers too late (`Post`), each message leaves a row (`Noted`), and
`Commit` or `RollBack` ends it. `told` counts what the gateway was given. Numbers carry the
form they were typed in, because one of the notifiers compares them as typed.

`GatewayLink`: `setup` is the row of settings, `gate` the instances of the gateway,
`posts` the webhooks under way. A request of the page loads the row, asks, and stores the
answer (`Press`, `AskState` …, `StoreAnswer`), while `Deliver` takes any webhook, in any
order, and `Refuse` drops it.

## The runs

There are nine runs that pass and three that TLC must find violated. Deadlock is checked
in the runs of `PendingActions` and of `PayrollRuns` alone; in the others a bound (the last
day, the last punch, the last form) ends the behaviour, and the cfg says so.

| Run | Instance | Shows |
|---|---|---|
| `approval_race` | 1 request, 1 employee, 2 workers, superuser, second manager, officer; 1 resubmission; queued settlements | `ReviewsAreFresh`, `ExecutedExactlyOnce`, `BoxesMatchStage` and the refinement of `ApprovalPromise` (`KeepsPromise`), for every interleaving |
| `approval_serial` | 2 requests (one migrated), 1 employee, 1 worker, 1 resubmission; inbox: a superuser and two users, two sets of permissions, 2 requests, lists cut at 1 row | `AtMostOneOpenSettlement`, `TerminatedUntilReactivated`; `WorkIsSeen` |
| `approval_fair` | 1 request, 2 workers, fairness | `RequestsEnd` |
| `payroll_race` | a branch run and two rows of its consolidated key, 1 employee, 1 item, 2 workers | `BoundToLocked`, `LockedIsVisible` |
| `payroll_serial` | the same runs, 2 employees, an absence and an installment, 1 worker; dues: four dates of hire, every day up to eleven years later | the refinement of `PayrollPromise` (`KeepsPayrollPromise`), `LockedChargesBound`, `LockedTotalsOfLines`; `DuesNeverShrink` |
| `punch_sync` | 1 device, 1 user, 2 HTTP requests at once, 3 punches at times 0 to 2, of which later uploads take those of the last unit of time, 1 click, 1 failure, batches of 1, fairness | `NothingMissed`, `RequestsClosed` |
| `device_registry` | 2 devices, numbers, employees and keys, 1 worker; 2 pulls of a device at once, 3 records | `OneNumberEach`, `PunchesFollowLinks`; `PulledIsStored` |
| `records` | twelve parts, see below | one property or two of each part |
| `pay` | six parts, see below | one property or two of each part |

The parts of `records`:

| Part | Instance | Shows |
|---|---|---|
| ledger | 1 worker, months of 2 days, 3 days, 3 rows, 1 failing row | `LedgerRowsOnce` |
| loans | 1 loan of 1 to 3 in installments of 1 to 3, 3 months | `ScheduleWhole` |
| hire | 1 request, 2 pages and the notification, overlapping or not | `HiredOnceComplete`, `DecisionIsFinal` |
| maintenance | 1 caller, 2 workers of the crew, 2 returns | `ColumnsFollowStatus` |
| report | 1 process at a time, 2 recipients, days of 4 minutes, 2 mishaps | `OnceADay` |
| caches | 2 threads, 3 saves | `OverviewIsFresh` |
| day | 2 devices, 3 moments, 3 graces | `ReclassifiedDayIsRight` |
| deploy | 2 attempts, 2 releases, 2 failures, 3 backups, no volume | `MigrationIsRecoverable` |
| accounts | a superuser, a user, 3 roles, 3 permissions of which one brings another, 2 writes | `NoGhostRole`, `SavedAsChosen` |
| lists | a lookup and a unit, 2 rows, 2 threads, 2 changes | `ListIsFresh` |
| leaves, file | 2 waiting requests, 2 leaves, 1 custody item, 2 salaries, 2 branches, 3 forms, 2 days | `TakenWithinEarned`, `ReturnStands` |

The parts of `pay`:

| Part | Instance | Shows |
|---|---|---|
| transfers | 1 employee, 3 branches of 2 companies, a month of 2 days, 2 statements, dated back | `PaidInOneRun` |
| lines | months of 28 and 31 days, hires and ends around the month, odd amounts, rates beyond 100 | `PayFollowsDays` |
| page | 2 branches, 2 sponsorships and cash, 3 employees, a superuser and an accountant of one branch | `SweepLosesNobody` |
| messages | 2 managers, 1 clerk, 3 numbers, alike or not, 2 transactions | `EveryoneToldOnce` |
| gateway | 2 instances, 1 administrator, 4 events | `StatusIsLatest` |
| contract | 3 nationalities, 5 years, forms with tabs and fields left out, returns | `ContractIsLawful` |

`violation` runs each check one statement of the code's own documentation that the
code does not keep (the quotes are in `PROJECT.json`, `findings`):

| Run | Scenario TLC finds |
|---|---|
| `approval_settled_twice` | two workers load an employed employee, both settle: two sets of dues |
| `payroll_charged_twice` | two drafts with the same absence are locked at once: both count it as free, both become locked, one owns it |
| `ledger_opening_lost` | an opening balance entered in a month, then the lock of that month: its row starts from the total before the first of the month, and the opening drops out (one worker is enough) |

### Bounds

- *Workers*: two where the property is about overlaps. Every hazard here is a race of two
  requests; the theorems cover any number. One worker where the property is about the
  order of whole requests; what fails with two is listed below.
- *Approval*: one request in the racing run, because the only state two requests share
  is the employee's status, which `approval_settled_twice` and `approval_serial` vary with
  two. Resubmissions are capped by `MaxResubmit` (1): a second round is enough to see a box
  of an earlier round. `effects` needs no bound, it is 0 or 1. In the inbox a list of one
  row (`MergeLimit`, 200 in the code) and two requests let the limit cut.
- *Payroll*: `r1` of a branch and `c1`, `c2` of its company's consolidated key: two rows of
  one key let the constraint refuse, and a row be built after another was hard-deleted.
  Two employees let a draft keep a line after a settlement; two items, one of them an
  installment. Three branches of two companies let a transfer stay within a company or
  leave it, and come back (`MaxMoves` 2).
- *Dues*: hires on the first and last of a month, on the 29th of February and the 30th of
  December, until all steps (probation, two, five and ten years) are passed.
- *Punches*: `Buffer` and `Batch` are 1, so that three punches need more than one batch and
  a watermark can fall between two of them; one failure suffices for a lost batch, a lost
  answer, or a cycle that starts over while an old request is served (`MaxFaults`). Of the
  times 0 to 2, `Recent` (1) cuts off the oldest punches in later uploads, `Year` (2) none.
- *Devices*: two devices and two numbers let a number be taken over and a link move.
  `MaxStored`, `MaxRecords`, `MaxPulls`, `MaxClock` end the behaviours. No device numbers its
  records anew (`Restarts` is FALSE): with it `PulledIsStored` excuses nearly everything, and
  what then goes wrong is described below.
- *Records and pay*: the bounds are named in the modules (`MaxRows`, `MaxSaves`, `MaxReturns`,
  `MaxWrites`, `MaxChanges`, `MaxForms`, `MaxMishaps`, `MaxFailures`, `MaxTurns`, `MaxEvents`,
  `LastNow`, `Horizon` …). They are large enough that a mutant of the code breaks every property
  of the part, and each counts what users and faults may still do.
- *Symmetry*: worker threads in the racing runs, ids, numbers, employees, keys and pulls in
  `device_registry`, the two branches of one company in `pay`; in no liveness run. The
  actions choose nothing by name from a set that is permuted.

### Deviations found without a run

Exploring the models with further formulas, some of which stay in the modules under the
names given here, or modelling a component, showed these too. They are described here
and not checked by a run because there is one run for each question of the project. None
is an obligation of the properties above, which name in their comments what they leave out.

*Approval workflow*

- `_execute_reactivate` does not test the status: two queued reactivations are both
  executed, the second one resets the hire date and the leave balance of an active
  employee (`pending_actions.py:14` speaks of a settled employee).
- The edit form saves the whole row: a settlement that commits while it is open is undone
  (`EditKeepsStatus`; `employees.py:423` says 'تغيير حالة الموظف أو إنهاء الخدمة يتم عبر سير
  الموافقات فقط.').
- A request that was executed can be deleted (`workflow_access.py:116-128`), while the
  view says "غير مُنفَّذ" (`web_views/pending_actions.py:530`).
- `revert_employee_settlement_pending_status` trusts the instances the deletion loaded:
  a settlement executed meanwhile is undone in the employee's row.
- A deletion that dies between its two commits leaves an open settlement request of an
  employee who is no longer suspended; a queueing that dies leaves one suspended
  without a request.

*Inbox*

- `rows_may_be_truncated` is computed (`pending_actions.py:265`, `:335`) and no template
  shows it: beyond 200 waiting requests of a kind the oldest are hidden without a word.
- `first_stage_pending_q` selects nothing (`Q(pk__in=[])`), so that legacy
  `PENDING_BRANCH` requests are in no badge; `counts['pending_gm']` includes them while
  its tab does not. A hire in a legacy stage is listed for managers and not counted.
- The badge counts returned requests for everybody, the inbox shows them to entry
  officers only. A superuser whose role is SPECIALIST is counted only what is assigned to
  him.
- The menu number goes by the branches a user raised for, is assigned or manages: a
  manager of none sees 0 while the inbox is full.
- The dashboard shows assigned requests to someone whose role was taken away and who
  cannot open them; legacy assigned hires link to a page the officer may not open.
- `get_hr_officers` lists the role HR_OFFICER only, whom `_validate_entry_officer` refuses.
- A returned request of a requester who left, and one assigned to an officer who left,
  can be moved on by a superuser only. Superusers without a role get no bell.

*Payroll runs*

- `LockedNotRebuilt`: a rebuild tests the status, the run is locked, the rebuild gets the
  row lock and replaces its lines (`engine.py:349` 'يستخدم select_for_update لقفل صف المسير
  ومنع البناء المتوازي.', `:353` 'الأخطاء: ValueError إذا كان المسير مغلقاً (LOCKED).').
- `LockedTotalsMatch`: a settlement takes the last line out of a draft, the audit warns
  only, and the stale totals are locked, with one worker (`payroll/models.py:89`
  'الإجماليات (مُحسَّبة تلقائياً من أسطر الموظفين عبر recompute_totals)').
- `OneConsolidatedRun`: two builds create two consolidated cash drafts, because NULL
  sponsorships are distinct to the constraint (`engine.py:499` 'مسودة واحدة (branch=null)
  تجمع موظفي كل الفروع المحددة.').
- `InstallmentsCanBeLocked`: a draft with a loan installment can never be locked: the
  binding (`engine.py:679`) filters by a column that `LoanInstallment` lacks, while
  `engine.py:22` says 'أقساط السلف → applied_to_payroll + status = PAID'.
- `delete_draft_payroll_run` tests the status of the loaded instance: a run that was
  locked meanwhile is hard-deleted.
- An employee with a line in another locked run is skipped for standard runs only, and a
  branch's run is looked up without its sponsorship, so that a second sponsorship of the
  branch takes the run over. A rebuild of a consolidated run takes the branches of who
  rebuilds it.
- `LockedItemsAreTaken`: `lock_payroll_run_view` audits the draft (`payroll/views.py:1506`) and
  locks it later, under a row lock that audits nothing (`:1518`, in bulk `:937` and `:959`). A
  rebuild between the two brings in items beyond the pay; they are bound as taken, and the
  line, capped at the earnings, has not deducted them (`_payroll_financial_audit.html:11` 'فحص
  تلقائي قبل الإغلاق النهائي').
- `WholeMonthWholePay`: who is employed through a February of 28 days is paid 28 thirtieths,
  for the payable days are calendar days, 30 at most (`period_eligibility.py:44`;
  `salary_month.py:5` 'تواريخ الفترة (بداية/نهاية الشهر التقويمية) تبقى تقويمية لتصفية البنود فقط').
- `ExportIsWhole`: the export leaves out runs that the page does not list
  (`payroll/views.py:438` 'كل مسيرات الشهر/النوع في ملف تصدير واحد'). Locking in bulk audits
  the runs of one query and locks those of another (`views.py:933-961`).
- `InOneBranchOnly`: back-dated and repeated transfers put an employee into the runs of two
  branches until one is locked (`transfer_payroll.py:5` 'الموظف في مسير الفرع الجديد فقط
  براتب كامل'). `MonthPaidOnce`: days that a settlement paid can be in a locked run.

*Ledger, loans, dues*

- With two workers the profile opens the ledger twice, and two executed leaves each add to
  the balance they loaded: one is lost.
- `DeletedNotCharged`: a draft keeps the installment of a deleted loan. `TakenOnce`: a
  settlement deducts every active loan and leaves it active, so that a second settlement
  deducts it again.
- Editing a loan nearly always fails: the installments it soft-deletes keep their unique
  key, and the new ones collide with them.

*Employment and maintenance requests*

- `ApprovedIffHired` fails, and `DecisionIsFinal` would without the steps it excuses
  (`overlapped`), when pages, or a page and the notification, overlap: an approved request
  waits again, or a rejected one has an employee
  (`employment_requests.py:317` 'لا يمكن تغيير حالة طلب مكتمل.').
- With two callers a worker's report after a return leaves a reported request without a
  worker.

*The employee's file*

- Two pending leaves exceed the balance together, for executors check nothing again. The
  executors of the file do not test whether the employee is terminated.
- An edit of a leave from before the accrual start adds its days back, though leaves
  before it never count, so that one user alone overdraws the balance (`lent` in
  `TakenWithinEarned`). Two clearances of one custody item, approved at the same time, both
  read it as held and both write the day of its return (`crossed` in `ReturnStands`).
  Deleting the only leave falls back to the stored number
  (`employees/models.py:368` says "الرصيد المتبقي = المستحق − هذا الحقل.", while the rows are
  used as soon as there is one). After a reactivation the reset of
  `available_leave_balance` has no effect while leaves are on record.
- Two raises asked for together: the second overwrites the first. A stale edit page undoes
  an approved salary, transfer or return; the guard of the salary fields runs after
  `is_valid` and changes nothing.
- No page creates cash-shortage requests any more. The print of a settlement shows the
  first of a twice-settled employee. Statement serials collide past 9999 and when two are
  generated at once. A reactivated Saudi keeps an unlimited contract before the fourth year
  of the new hire (`decided` in `ContractIsLawful`). A foreigner's fixed contract of 0 months
  and no text is accepted.
- Clearing the sponsorship keeps the bank details, and then every save is refused
  (`salary_payment.py:126` 'الموظف بدون كفالة — الصرف نقدي ولا حاجة لبيانات البنك.').
- Bank fields posted blank are validated by what is stored and saved blank; so are the
  nationality and the date of hire. A page without the contract tab ends in a server error
  when `contract_type` is set; errors of fields that are not in the form are lost.
  `saudi_nationality_ids` is cached for the life of the process.

*Attendance*

- `NoGapInAYear`: a first upload that covers 365 days breaks off after some batches; the next
  cycles are incremental, leave out what is older than 93 days (`agent.py:396`,
  `agent_ingest.py:47-56`) and upload what is younger, so that the watermark passes the rest
  for good (the agent's `README.md:76` '**First sync** (no punches on server yet): uploads full
  history up to 365 days.'). An incremental cycle loses nothing of the last 93 days.
- A reclassification of one device leaves the directions of the day's other devices, so that
  the day may still count as late or incomplete by them; `ReclassifiedDayIsRight` says what it
  does establish.
- `RequestServed`: an acknowledgement closes every pending request of the device, one
  widened after the agent read its list included.
- `RenumberMovesAll`: pull requests and the log of links do not move with a device.
- With two workers: `DeletedForGood` (the test of a device saves the row it loaded, and a
  purged device comes back), `KeyShownWorks` (the same save puts an old key back), and
  `PunchesFollowLinks` (an import under the link it has read).
- `GraceAsEntered`: a grace of 0 minutes counts as none entered, so that an employee who is
  late by less than the default is not reported (`templates/pages/attendance/late_alerts.html:21`).
- `NothingErased`: a cleared device is cleared before its records are stored
  (`pull_biometric_attendance.py:74` 'حذف السجلات من الجهاز بعد السحب (احذر!)'): a failure, a
  dry run or a range of dates loses them. Records that are numbered anew are taken for
  old ones. Of two pulls that overlap, one clears the device and the other stores a newer
  record first: the import of the first one then takes the older records it cleared for
  stored ones. `PulledIsStored` excuses these cases by name.

*Caches and setup*

- Two invalidations that meet without a version set the version back, and an invalidation
  precedes the commit of its transaction (`signals.py:35-44`). The sidebar's key carries no
  version: counts computed before an invalidation are stored after it. The cached lists of
  the setup tables have the same race.
- Saves of employees and branches invalidate no overview, and those of a request only the
  overviews of its requester and officer (`signals.py:35-44`), though every overview counts
  them all (`dashboard_cache.py:58-134`): it is served until it expires.
- A lookup saved in Django's admin (`setup/admin.py`) deletes no cached list, nor does a page
  whose worker dies between the save and the deletion (`untold` in `ListIsFresh`): the list is
  stale for an hour.
- The lists `active_branches`, `departments_all`, `cost_centers_all` and
  `hr:branches:active_list_v1` are invalidated by nothing. The page of the organisation and
  the form of the employee share the name of a list, though they fill it differently.
- Branches, departments and cost centers check a code against live rows only while it is
  unique over deleted ones too: a server error (`setup/forms.py:27` 'يشمل المحذوف ناعماً —
  القيد unique في DB يشملهما' says why). `setup/forms.py:38` advises to reactivate the old row
  ('اختر رمزاً آخر أو أعد تفعيل السجل القديم'), which no page does. The save of an edit that
  overlaps a deletion revives the row.

*Operations report and deployment*

- A report that takes longer than a minute overlaps the next process, which sends again.
  The window of catching up is cut at midnight.
- `NeverFlushed`: a look at the database that fails counts as an empty database, and a
  container without its marker flushes it (`entrypoint.sh:89-90`: "DOUBLE-SAFE: never flushes
  if the DB already contains user data, even if the marker file is missing").
- `RestoredWhole`: a restore leaves the tables of later migrations (`restore_db.py:19`
  'الاسترجاع يستبدل قاعدة البيانات الحالية بالكامل!'). Cron runs without the keys of R2
  (`entrypoint.sh:164-171`); a missing `pg_dump` leaves an empty archive; `--latest` looks at
  three months.

*Accounts*

- `delete_role` counts the users of a role and deletes it in a later statement, without a
  lock: a user who was given the role in between keeps a deleted role (`overtaken` in
  `NoGhostRole`). In Django's admin a superuser deletes a role whoever has it.
- Creating a user over the API always fails after the user was created, and leaves it
  without a role. `setup_roles` fails when two live roles share a type, and its `--reset`
  leaves users without roles; `setup_permissions_and_roles` can never complete;
  `setup_user_profiles` takes the only role of type ADMIN, and fails when there are several,
  and fills in a department that the model does not have.
- A code the page denies ("ممنوع") comes back when another allowed code implies it.
  Extra permissions of a user without a role have no effect. ADMIN users lose denied codes
  (`decorators.py:14` 'السوبر يوزر والأدمن → لهم كل الصلاحيات تلقائياً').
- A superuser can delete himself over the API (`users.py:108` 'لا يمكنك حذف حسابك الخاص').

*Messages and gateway*

- Messages go out inside the transaction: after a rollback someone was told of what did
  not happen, the log row is gone, and the retry tells again. A message whose answer was
  lost is logged as failed though it was delivered.
- The maintenance notifier compares numbers as they were typed: a manager is told twice.
  Two people with one number are told twice. `notify_whatsapp_first_stage` is called by
  nothing, and `WHATSAPP_ASYNC_DISPATCH` is read by `async_dispatch.py` only.
- `sync_settings_status` saves the status it loaded when the fetch fails, over a newer
  one of a webhook. The throttle of 120 webhooks an hour drops events. A code that arrives
  after the connection opened sets it back to connecting. `connect_qr` ends in
  `or CONNECTING` and never falls back to what it knew. A status or a connection that
  opens leaves the old code on the page.
- `webhook_enabled` and the instance named in a webhook are ignored; another name or key
  does not reset the status; another key has webhooks refused until they are set up again.
  Timeouts and answers that are not JSON are not caught.

## Fairness

`FairSpec` of `PendingActions` gives each worker weak fairness of `Progress(p)`: a thread
that serves a request takes its next step or ends by a refusal (gunicorn's timeout kills
one that does not). A soft delete that waits for a row lock has no refusal, and gets strong
fairness: the row may be locked again and again while it waits, but PostgreSQL queues the
waiters of a row and serves them in order. Nothing is assumed about users: no request need
ever be made, approved or returned. `RequestsEnd` says that every request then ends.

`FairSpec` of `PunchSync` gives weak fairness to the agent's loop (`Agent`: the script
polls for ever, `run_all_cycles`, and a failed cycle starts again), to each HTTP request
the server has received (`Serve(p)`, a worker or its timeout), and to the second step of a
click that has begun. No user need click, and failures are not fair: `MaxFaults` bounds
them, which says that the network works again some day. `RequestsClosed` says that a
queued request is then closed.

The other modules are checked for safety only: their steps are those of users, of cron and
of the network, none of which has to happen.

## What is proved

Every safety property of the runs that pass is a theorem, for any number of employees, requests, runs, devices, records, workers, days and
failures that the assumptions of the modules allow. An assumption (`RoleAssumption`,
`PayrollAssumption`, `SyncAssumption`, `LoanAssumption`, `FileAssumption`,
`EntitlementsAssumption` and so on, one or two in each module) says what kind of value a
constant has, that bounds are natural numbers and that absent rows (`None`, `NoRow`,
`Missing` …) are no rows; TLC evaluates each in a run. Nothing is assumed of the bounds, so
that the theorems hold of behaviours without them. What else a theorem assumes is in its
statement, or here:

| Theorem | Assumes besides |
|---|---|
| those of `PendingActionsSerialProofs` and, of the runs, of `PayrollRunsSerialProofs` | one worker (`OneThread`); `OneSettlementAtATime` also that at most one row is a migrated one |
| `LedgerIsWhole` | one request or command at a time (`OneHand`) |
| `ColumnsTellOneStory` | one caller at a time |
| `PunchesFollow` | one worker (`OneHand`) |

With two workers most of these are false, as the violated runs and the deviations above
show: the theorems say that the races are the only way.

The others hold for the interleavings that their modules have, which are not all those of
the code. Every statement of a request is a step of its own in `PendingActions`,
`PayrollRuns`, `PunchSync`, `DirectPull`, `EmploymentRequests`, `NavigationCaches`,
`SetupLists`, `AttendanceDay` (but for two reclassifications at once), `WorkflowMessages` and
`GatewayLink`, and starts and processes stop between any two steps in `Deployment` and
`OperationsReport`. `Accounts` separates the check from the save of a user, the count from the
deletion of a role, and the opening from the saving of the page of permissions;
`EmployeeFile` separates the form from the execution, the opening from the saving of the edit
page, and the reading from the writing of a custody item. What else these two do, and every
request of `Loans`, `ContractForm`, `Transfers`, `PayrollPage` and `Inbox`, is one step: their
theorems say nothing of requests that overlap within it. Where a property excuses what an
overlap or another known case does (`careful`, `overlapped`, `overtaken`, `crossed`,
`orderly`, `lent`, `met`, `late`, `untold`), the theorem says that nothing else does it.

Each proof has an inductive invariant, which implies the property, holds at first and is
kept by each step: a lemma for each kind of step, and one that collects them. What the
invariants add to the properties is what a reviewer of the code would want to know.

*Approval* (`PendingActionsProofs`, `PendingActionsSerialProofs`). `TypeCorrect`,
`ExecutionIsExact`, `BoxesAreCurrent` and `ReviewsSeeTheRow` have one invariant, `IInv`:
a review writes what it decided on its snapshot, so that `ExecutedExactlyOnce` needs
`ReviewsAreFresh` (the snapshot is the row), which needs that a row lock has one holder, in
review, and that absent rows are blank. `DeletedStaysDeleted` and the refinement
`WorkflowKeepsPromise` follow from `StepChangesOneRow`: a step changes no row or exactly one,
in one of seven ways, each a step of `ApprovalPromise`. With one worker
`SerialReadsAreFresh` (what a request loaded of its employee still holds) gives
`SerialTermination`; `OneSettlementAtATime` needs `NoneOpenYet`, that a request past its
check finds no open settlement still. `InboxShowsWork` is a fact of every typed state: for
each way in which a request waits on a user (`WaitingIsShown`) it is among the newest rows of
the list, or the list is full of newer ones (`LeftOutWhenFull`).

*Payroll runs* (`PayrollRunsProofs`, `PayrollRunsSerialProofs`). `BoundItemsAreLocked` and
`LockedRunsAreVisible` are inductive with `TypeOK` and `RequestsKnow`, what each thread knows:
in `lock_read` the run is a draft that is not deleted, in `build_read` it has the status of
the snapshot, or the transaction is inserting a row that nobody else sees. With one worker
`FreshLoads` gives `SerialLockedIsFrozen`, `SerialChargesAreBound`, `SerialTotalsOfLines`,
`SerialChargedOnce` (what the documentation says and two workers break) and the refinement
`PayrollKeepsPromise`: every step but locking and unlocking is `Unseen` in the closed runs,
because what is not locked has bound nothing (`NothingToLetGo`), and a lock closes the run
with what it has read, which is what the run still is (`LockCommitCloses`).

*Pay* (`PayProofs`). `MonthIsPaidInOneRun`: transfers lead away from a branch
(`MovesLeadAway`), so that the last one on or before a day places everybody, and a run built
while another was locked shares nobody with it (`FreshShareNobody`). `PayFollowsTheDays`: an amount grows with its
days and its rate (`FactorsGrow`, `FewerDays`) and rounding keeps the order. `NobodyIsSwept`: the members of a sheet are of its branches and sponsorship
(`SheetsHoldTheirOwn`), so that a consolidated build takes in whom it sweeps.
`EveryoneIsToldOnce`: in each stage of a transaction nobody is due twice and all who are due
are told or still in the list (`PeopleStage`, `RolesStage`, `NoneTwice`). `StatusShownIsLatest`
says of every request, webhook and saved status when it tells the state of the instance
(`JobsTell`, `LastPostTells`, `StatusTells`). `ContractsAreLawful` from `ContractInv`: what was
shown is lawful on the day it was decided, a later form or synchronisation decides anew, and
a return undoes the decision.

*Dues* (end of `PayrollRunsSerialProofs`). `DuesOnlyGrow`: rounding, a half to the even
neighbour, keeps the order of amounts (`TenThousandthsGrow` and its like), hence so do the
tiers (`TiersGrow`: what the first tier comes to at its end is exactly five years) and the
steps of a resignation (`ResignedGrows`); a day is the next of its month or the first of the
next (`TheNextDay`), so that months are completed one at a time, also for someone hired
on the 31st of a month that has fewer days.

*Records* (`RecordsProofs`, `LedgerProofs`).

| Theorem | The invariant adds |
|---|---|
| `EmployedOnce` | `PagesHaveRequest`: what a page has loaded is a request that was there; an approval creates an employee only where there is none, from a copy it found complete |
| `DecisionsStand` | `PagesAreCurrent`: where pages do not overlap, the copy is the request |
| `ColumnsTellOneStory` | `SeenIsCurrent`: the status a service read is the request's |
| `LedgerIsWhole` | `ReadIsCurrent`, with `OneOpening`, `OneAccrual`, `UsedIsTaken`: what the one worker has read is so when it commits, and a recalculation deletes no accrual. The rows are typed by any sets of changes and totals, so that nothing need be known of the running total |
| `RolesOutliveUsers` | `NoGhostRole` with the type invariant: a role about to be deleted has no users but those for whom it is `overtaken`, nor has the role a request is about to give |
| `FormSavesChoice` | the type invariant, and that implied permissions are saved with those chosen |
| `OverviewServedIsFresh` | `VersionsSuffice`, `NoneLater`, `OneSets`: nothing is stored under a version that is still to come; `CurrentIsFresh` when no invalidation is outstanding |
| `ListsAreFresh` | that pages store and save tables that exist (`ListTypes`) |
| `ReportOnceADay` | `OneProcess` (one works at a time and has begun this minute) and `MishapsPay`, an account of who may still get a report and what has been paid for it by deaths and saved settings |
| `MigrationsAreRecoverable` | `CopiedBefore`: what is about to be migrated has a whole copy, at each attempt |
| `ReturnedOnce` | `CustodyInv`: an item that waits to be received has never been given and waits once; a request that has read an item (`clearing`) finds it still given and is alone with it, unless another read it too (`crossed`) |
| `LeaveIsEarned` | `Covered`: while the file is edited in order one leave at most waits, and with what is taken it is within what is earned, which only grows |
| `ScheduleIsWhole` | `LoanFits`: a standing loan has the terms of a form that was accepted, and its installments month by month |

*Attendance* (`AttendanceProofs`). `NoPunchMissed`: as long as no upload was limited to dates the server has
a beginning of the log as far as it goes back 93 days (`NoHoles`), each batch on its way goes on from it (`PostsFollow`), and what a cycle set out
to upload is stored, to be sent or on its way (`AgentCovers`, `PostsCover`), across losses,
retries and late answers. `WhatIsPulledIsStored`: numbers, identities and times are in one
order (`InOneOrder`), who has read a record has read what was on the device from before it
(`Contained`), so that what an import leaves out is stored (`LeftOutIsKept`).
`OneNumberForEach` needs only `LinkTypes`: a link takes the other numbers of the employee away
in its transaction. `PunchesFollow` adds `MapIsCurrent`, that an import still has the links it
read. `DayIsRight` adds `InOrder`: of a reader whose whole day was sorted, alone or with all
others, the directions are those of the order of its punches, those about to be written included.

Sums and extremes are handled without induction over data: a sum is determined by what it
adds for each element (`SumIsUnique`, by the least number of elements at which two sums would
differ), days of leave are counted as a set of nights (`DaysAreNights`), and the last record
is the greatest number of a set (`GreatestExists`).

What is only model-checked, and why: `RequestsEnd` and `RequestsClosed` are liveness under fairness, which is out of the prover's
reach. So are the formulas with `ENABLED` (`InstallmentsCanBeLocked`, which the code does not
keep), and what a recursive definition computes for every input.

## Plan

Done: every component of the inventory but the audit log and the reports, in the order
of the list of modules above, and theorems for their safety properties. What could follow,
in order of worth:

1. `PunchStore`, an abstract device log that `PunchSync` implements up to the punches still
   on their way, from `SyncInv`.
2. The statements behind the violated runs with the lock or the check that would repair them,
   to show that it would.
3. Two months of payroll runs; the commitments a settlement transfers; the serials of
   statements, and documents.

## Not modelled

- *Input and output*: PDF, Excel, templates, static files, photographs and documents, the
  texts of messages and e-mails, the protocol of the devices (`zk_client` is reduced to
  reading, clearing and failing).
- *What only reads*: the audit log and the reports. The data of reports kept for some
  minutes (`report_cache.py`) is cleared by nothing, so that there is no operation to get
  wrong.
- *Branch scopes* of the lists other than the payroll page: they are filters of queries.
- *Payroll*: several months at once; salary modes and sponsorships of detailed runs; branch
  names in place of ids in old statements; the layout of exports; amounts in the ledger.
- *Attendance*: several devices of one agent (they share nothing but its loop), the users
  of a device, record numbers beyond their order.
- *Settlement*: the transfer of commitments; the leave part of article 80 and of
  probation beyond its accrual.
- *Employees*: personal fields, serials of printed statements. Lookups other than those of
  `SetupLists` go through the same views.
- *Time-outs of the web server* and *deadlocks of PostgreSQL* appear as a step in which the
  request ends and its transaction is rolled back.

Each component's part that is left out is named in `PROJECT.json` (`components`).
