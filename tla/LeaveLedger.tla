----------------------------- MODULE LeaveLedger -----------------------------
(* The ledger of one employee's leave: a row for the opening balance, one for *)
(* every month whose payroll run is locked, one for every annual leave, one   *)
(* for the final settlement.  A row holds the change and the running total    *)
(* after it, and every writer reads the last total first and inserts its row  *)
(* afterwards.  The web pages, the executor of approved requests, payroll and *)
(* the import and recalculation commands all write it; a job is a request or  *)
(* a command between its reads and its commit.                                *)
(*                                                                            *)
(* The amounts of leave and of the end-of-service benefit are carried along   *)
(* the same rows by the same reads, so the days alone are modelled.  Months   *)
(* have Days days and every leave takes one.                                  *)
EXTENDS Integers, Sequences, FiniteSets, FiniteSetsExt, SequencesExt

CONSTANTS
  Workers,
  Days,          \* days of a month
  Accrual,       \* leave of a month (1.75 days), in units
  Opening,       \* the imported opening balance
  None,
  MaxDay, MaxRows, MaxFaults   \* bounds of the instance

ASSUME LedgerAssumption ==
  /\ Days \in Nat \ {0} /\ Accrual \in Nat /\ Opening \in Nat
  /\ MaxDay \in Nat \ {0} /\ MaxRows \in Nat /\ MaxFaults \in Nat
  /\ None \notin Int

VARIABLES
  today,
  rows,      \* EmployeeLedger, in the order of created_at
  hired,     \* Employee.hire_date
  opened,    \* Employee.leave_accrual_start_date of an imported employee, or None
  used,      \* Employee.available_leave_balance: annual leave taken
  settled,   \* Employee.status is TERMINATED
  locked,    \* months whose run is locked
  job,       \* what each worker has read
  since,     \* history: rows there were when used was last set to 0
  faults     \* bound: ledger rows that failed so far
vars == <<today, rows, hired, opened, used, settled, locked, job, since, faults>>
person == <<hired, opened, used, settled, since>>

Date == 1..MaxDay
Months == 1..(((MaxDay - 1) \div Days) + 1)
Month(d) == ((d - 1) \div Days) + 1
DayOf(d) == ((d - 1) % Days) + 1
FirstDay(m) == ((m - 1) * Days) + 1
LastDay(m) == m * Days

Kinds == {"initial", "monthly", "taken", "settlement"}
Row == [kind : Kinds, date : Nat, change : Int, total : Int,
        month : Months \cup {None}, live : BOOLEAN]
NewRow(kind, date, change, last, month) ==
  [kind |-> kind, date |-> date, change |-> change, total |-> last + change,
   month |-> month, live |-> TRUE]

Idle == [op |-> "idle"]
Job ==
  {Idle} \cup [op : {"initial"}, date : Date, amount : Nat]
  \cup [op : {"import"}, start : Date, replace : BOOLEAN]
  \cup [op : {"leave"}, date : Date, used : Nat, last : Int]
  \cup [op : {"lock"}, month : Months, last : Int, accrues : BOOLEAN, has : BOOLEAN]
  \cup [op : {"settle"}, date : Date, last : Int]

TypeOK ==
  /\ today \in Date /\ rows \in Seq(Row) /\ Len(rows) <= MaxRows
  /\ hired \in Date /\ opened \in Date \cup {None} /\ used \in Nat
  /\ settled \in BOOLEAN /\ locked \subseteq Months
  /\ \A w \in Workers :
       job[w] \in Job \/ (job[w].op = "recalc" /\ DOMAIN job[w].plan \subseteq DOMAIN rows)
  /\ since \in 0..Len(rows) /\ faults \in 0..MaxFaults

Init ==
  /\ today = 1 /\ hired = 1
  /\ rows = <<>> /\ opened = None /\ used = 0 /\ settled = FALSE
  /\ locked = {} /\ job = [w \in Workers |-> Idle] /\ since = 0 /\ faults = 0

(* -------- what the code computes ------------------------------------------ *)
(* The months of service completed at d, as the payroll counts them.          *)
CompletedMonths(h, d) ==
  LET months == Month(d) - Month(h)
  IN IF d <= h THEN 0
     ELSE IF DayOf(h) = 1 THEN (IF DayOf(d) # 1 THEN months + 1 ELSE months)
     ELSE IF DayOf(d) < DayOf(h) THEN Max({months - 1, 0}) ELSE months
Accrued(d) == Accrual * CompletedMonths(hired, d)

LiveRows(R) == {i \in DOMAIN R : R[i].live}
Initials(R) == {i \in LiveRows(R) : R[i].kind = "initial"}
MonthRows(m) == {i \in LiveRows(rows) : rows[i].kind = "monthly" /\ rows[i].month = m}

(* Ordered by date, then by the time of insertion.                            *)
Before(R, i, j) == R[i].date < R[j].date \/ (R[i].date = R[j].date /\ i < j)
LastTotal(S) ==
  IF S = {} THEN 0
  ELSE rows[CHOOSE i \in S : \A j \in S \ {i} : Before(rows, j, i)].total

(* An imported employee accrues from the import on.                           *)
Accrues(m) == opened = None \/ LastDay(m) >= opened

(* The recalculated change of a row after the total prev.                     *)
Mutant_ChangeSigned(row, prev) ==
  CASE row.kind = "initial" -> (IF opened # None THEN Opening ELSE Accrued(row.date)) - prev
    [] row.kind = "monthly" -> IF Accrues(row.month) THEN Accrual ELSE 0
    [] row.kind = "taken" -> -row.change
    [] row.kind = "settlement" -> -prev
Change(row, prev) ==
  CASE row.kind = "initial" -> (IF opened # None THEN Opening ELSE Accrued(row.date)) - prev
    [] row.kind = "monthly" -> IF Accrues(row.month) THEN Accrual ELSE 0
    [] row.kind = "taken" -> IF row.change < 0 THEN row.change ELSE -row.change
    [] row.kind = "settlement" -> -prev

(* The rows that go: opening balances, once there is a monthly row.           *)
Superseded(R, gone) ==
  LET left == LiveRows(R) \ gone
  IN IF \E i \in left : R[i].kind = "monthly" THEN Initials(R) \ gone ELSE {}

(* The change and the total of each row that stays, in the order of the dates.*)
Replayed(R, gone) ==
  LET left == LiveRows(R) \ (gone \cup Superseded(R, gone))
      order == SetToSortSeq(left, LAMBDA i, j : Before(R, i, j))
      total[k \in 0..Len(order)] ==
        IF k = 0 THEN 0 ELSE total[k - 1] + Change(R[order[k]], total[k - 1])
      place(i) == CHOOSE k \in DOMAIN order : order[k] = i
  IN [i \in left |-> [change |-> total[place(i)] - total[place(i) - 1],
                      total |-> total[place(i)]]]

(* Only these columns are written: a row deleted meanwhile stays deleted.     *)
Written(R, plan, gone) ==
  [i \in DOMAIN R |->
     IF i \in DOMAIN plan
     THEN [R[i] EXCEPT !.change = plan[i].change, !.total = plan[i].total]
     ELSE [R[i] EXCEPT !.live = @ /\ i \notin gone]]
Recalculated(R) == Written(R, Replayed(R, {}), Superseded(R, {}))

Insert(row) == Len(rows) < MaxRows /\ rows' = Append(rows, row)
Start(w, j) ==
  /\ job[w] = Idle
  /\ job' = [job EXCEPT ![w] = j]
  /\ UNCHANGED <<today, rows, person, locked, faults>>
Done(w) == job' = [job EXCEPT ![w] = Idle] /\ UNCHANGED today

(* -------- time ------------------------------------------------------------ *)
NextDay ==
  /\ today < MaxDay /\ today' = today + 1
  /\ UNCHANGED <<rows, person, locked, job, faults>>

(* -------- opening the ledger ------------------------------------------------ *)
Unopened == opened = None /\ LiveRows(rows) = {} /\ today > hired

(* Looking at an employee's page opens the ledger, without the leave used.    *)
ViewProfile(w) ==
  /\ Unopened
  /\ Start(w, [op |-> "initial", date |-> today, amount |-> Accrued(today)])

InitLedger(w) ==
  /\ Unopened
  /\ Start(w, [op |-> "initial", date |-> today,
               amount |-> Max({Accrued(today) - used, 0})])

InsertInitial(w) ==
  /\ job[w].op = "initial"
  /\ Insert(NewRow("initial", job[w].date, job[w].amount, 0, None))
  /\ Done(w)
  /\ UNCHANGED <<person, locked, faults>>

MayImport(replace) == replace \/ (opened = None /\ Initials(rows) = {})

ImportCheck(w, start, replace) ==
  /\ MayImport(replace)
  /\ Start(w, [op |-> "import", start |-> start, replace |-> replace])

Replaced(replace) ==
  [i \in DOMAIN rows |->
     [rows[i] EXCEPT !.live = @ /\ ~(replace /\ rows[i].kind = "initial")]]

ImportCommit(w) ==
  /\ job[w].op = "import" /\ Len(rows) < MaxRows
  /\ rows' = Append(Replaced(job[w].replace),
                    NewRow("initial", job[w].start, Opening, 0, None))
  /\ opened' = job[w].start /\ used' = 0 /\ since' = Len(rows) + 1
  /\ Done(w)
  /\ UNCHANGED <<hired, settled, locked, faults>>

(* -------- executed requests --------------------------------------------------- *)
LeaveRead(w) ==
  /\ ~settled
  /\ Start(w, [op |-> "leave", date |-> today, used |-> used,
               last |-> LastTotal(LiveRows(rows))])

LeaveCommit(w) ==
  /\ job[w].op = "leave"
  /\ used' = job[w].used + 1
  /\ Insert(NewRow("taken", job[w].date, -1, job[w].last, None))
  /\ Done(w)
  /\ UNCHANGED <<hired, opened, settled, since, locked, faults>>

(* The settlement has the date of the last day of work.                       *)
SettleRead(w, end) ==
  /\ ~settled /\ end > hired
  /\ Start(w, [op |-> "settle", date |-> end, last |-> LastTotal(LiveRows(rows))])

SettleCommit(w) ==
  /\ job[w].op = "settle"
  /\ settled' = TRUE
  /\ Insert(NewRow("settlement", job[w].date, -job[w].last, job[w].last, None))
  /\ Done(w)
  /\ UNCHANGED <<hired, opened, used, since, locked, faults>>

Reactivate(w) ==
  /\ job[w] = Idle /\ settled
  /\ settled' = FALSE /\ hired' = today /\ used' = 0 /\ since' = Len(rows)
  /\ UNCHANGED <<today, rows, opened, locked, job, faults>>

(* -------- payroll ----------------------------------------------------------- *)
RunFree(m) == \A w \in Workers : ~(job[w].op = "lock" /\ job[w].month = m)

(* The last row before the month is read for every employee of the run.       *)
LockRead(w, m) ==
  /\ ~settled /\ FirstDay(m) <= today
  /\ m \notin locked /\ RunFree(m)
  /\ Start(w, [op |-> "lock", month |-> m, accrues |-> Accrues(m), has |-> MonthRows(m) # {},
               last |-> LastTotal({i \in LiveRows(rows) : rows[i].date < FirstDay(m)})])

(* A row that fails is rolled back to its savepoint and the run is locked.    *)
LockCommit(w) ==
  /\ job[w].op = "lock"
  /\ locked' = locked \cup {job[w].month}
  /\ \/ /\ ~job[w].has
        /\ Insert(NewRow("monthly", LastDay(job[w].month),
                         IF job[w].accrues THEN Accrual ELSE 0, job[w].last, job[w].month))
        /\ UNCHANGED faults
     \/ /\ job[w].has /\ UNCHANGED <<rows, faults>>
     \/ /\ ~job[w].has /\ faults < MaxFaults
        /\ faults' = faults + 1 /\ UNCHANGED rows
  /\ Done(w)
  /\ UNCHANGED person

Mutant_UnlockedNot(m) == rows
Unlocked(m) == [i \in DOMAIN rows |-> [rows[i] EXCEPT !.live = @ /\ rows[i].month # m]]

Unlock(w, m) ==
  /\ job[w] = Idle /\ m \in locked /\ RunFree(m)
  /\ locked' = locked \ {m}
  /\ \/ rows' = Unlocked(m) /\ UNCHANGED faults
     \/ faults < MaxFaults /\ faults' = faults + 1 /\ UNCHANGED rows
  /\ UNCHANGED <<today, person, job>>

(* -------- repair ------------------------------------------------------------- *)
RecalcRead(w) ==
  Start(w, [op |-> "recalc", plan |-> Replayed(rows, {}), gone |-> Superseded(rows, {})])

(* A row that belongs to no run and is no settlement can be deleted.          *)
DeleteRow(w, i) ==
  /\ i \in LiveRows(rows) /\ rows[i].month = None /\ rows[i].kind # "settlement"
  /\ Start(w, [op |-> "recalc", plan |-> Replayed(rows, {i}),
               gone |-> Superseded(rows, {i}) \cup {i}])

RecalcWrite(w) ==
  /\ job[w].op = "recalc"
  /\ rows' = Written(rows, job[w].plan, job[w].gone)
  /\ Done(w)
  /\ UNCHANGED <<person, locked, faults>>

Work(w) ==
  \/ ViewProfile(w) \/ InitLedger(w) \/ InsertInitial(w)
  \/ \E start \in 1..today, replace \in BOOLEAN : ImportCheck(w, start, replace)
  \/ ImportCommit(w)
  \/ LeaveRead(w) \/ LeaveCommit(w)
  \/ \E end \in Date : SettleRead(w, end)
  \/ SettleCommit(w) \/ Reactivate(w)
  \/ \E m \in Months : LockRead(w, m) \/ Unlock(w, m)
  \/ LockCommit(w)
  \/ RecalcRead(w) \/ RecalcWrite(w) \/ \E i \in DOMAIN rows : DeleteRow(w, i)

Next == NextDay \/ \E w \in Workers : Work(w)

Spec == Init /\ [][Next]_vars

(* -------- properties -------------------------------------------------------- *)
(* The ledger has one row for what happened once: the opening balance is in  *)
(* it once at most, whoever opens it (the page, the button, the commands, the *)
(* import); a month has one accrual at most and, as long as no ledger row     *)
(* failed, exactly while its run is locked, through any lockings, unlockings, *)
(* deletions and recalculations; and the leave that the employee's row says   *)
(* was used is what the ledger took since it was last reset, deleted rows     *)
(* included (lock_payroll_run, unlock_payroll_run,                            *)
(* recalculate_employee_ledger, _execute_leave, _execute_reactivate,          *)
(* apply_opening_balance_to_employee).                                        *)
LedgerRowsOnce ==
  /\ Cardinality(Initials(rows)) <= 1
  /\ \A m \in Months :
       /\ Cardinality(MonthRows(m)) <= 1
       /\ faults = 0 => (MonthRows(m) # {} <=> m \in locked)
  /\ used = Cardinality({i \in DOMAIN rows : i > since /\ rows[i].kind = "taken"})

(* Recalculating a ledger twice gives what recalculating it once gave.        *)
RecalculationIsStable == Recalculated(Recalculated(rows)) = Recalculated(rows)

(* The total of the last row is the sum of the changes: the running total,    *)
(* "الرصيد المتراكم بعد هذه الحركة".                                           *)
BalanceIsSum ==
  LastTotal(LiveRows(rows)) = MapThenSumSet(LAMBDA i : rows[i].change, LiveRows(rows))
=============================================================================
