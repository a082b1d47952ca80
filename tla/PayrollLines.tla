----------------------------- MODULE PayrollLines -----------------------------
(***************************************************************************)
(* The payroll line of one employee for one month: what is earned in the   *)
(* days of employment, what is deducted, and the audit that a run passes   *)
(* before it is locked.  The employee and its items change between the     *)
(* build, the audit, the lock and a later rebuild.  Amounts are in halalas. *)
(***************************************************************************)
EXTENDS Integers, Amounts

CONSTANTS
    Lengths,      \* lengths of the month
    Basics,       \* basic salary and housing, the base of the insurance
    Others,       \* the other allowances
    Rates,        \* insurance_deduction_rate, in percent, as entered
    AbsentDays,   \* days absent in the month
    Dues,         \* installments, penalties and shortages of the month
    Starts, Ends, \* days of hire and of the end; 0 and AfterMonth lie outside
    NoLine

AfterMonth == 40
StandardMonth == 30

ASSUME LinesAssumption ==
    /\ Lengths \subseteq 28..31
    /\ Basics \subseteq Nat /\ Others \subseteq Nat /\ Rates \subseteq Int
    /\ AbsentDays \subseteq Nat /\ Dues \subseteq Nat
    /\ Starts \subseteq 0..AfterMonth /\ Ends \subseteq 0..AfterMonth

VARIABLES
    length,    \* days of the calendar month
    worker,    \* Employee: pay, rate, hire_date, end_date
    charges,   \* its absences and other items, not applied to another run
    slip,      \* its PayrollLine
    cleared,   \* a request to lock has audited the run and is about to lock it
    sealed     \* the run is locked
lineVars == <<length, worker, charges, slip, cleared, sealed>>

Worker == [basic : Basics, other : Others, rate : Rates, hired : Starts, ends : Ends]
Charges == [absent : AbsentDays, dues : Dues]

(* -------- amounts ----------------------------------------------------------- *)
Least(a, b) == IF a < b THEN a ELSE b
Greatest(a, b) == IF a > b THEN a ELSE b

Mutant_PayableDays(w, days) ==
    LET first == Greatest(1, w.hired)
        last == Least(days, w.ends)
    IN IF w.hired > days \/ last < first THEN 0 ELSE last - first + 1
\* The days of employment in the month, a month of 31 days counting 30.
PayableDays(w, days) ==
    LET first == Greatest(1, w.hired)
        last == Least(days, w.ends)
    IN IF w.hired > days \/ last < first THEN 0
       ELSE Least(last - first + 1, StandardMonth)

Prorated(amount, w, days) == Quantized(amount * PayableDays(w, days), StandardMonth)

FullPay(w) == w.basic + w.other
Gross(w, days) == Prorated(FullPay(w), w, days)
DailyRate(w) == Quantized(FullPay(w), StandardMonth)
Insurance(w, days) ==
    Quantized(Prorated(w.basic, w, days) * Least(Greatest(w.rate, 0), 100), 100)

\* Deductions stop at what was earned: nobody's net is negative.
SnapshotOf(w, c, days) ==
    LET gross == Gross(w, days)
        absence == c.absent * DailyRate(w)
        insurance == Insurance(w, days)
        total == Least(absence + c.dues + insurance, gross)
    IN [gross |-> gross, absence |-> absence, dues |-> c.dues, insurance |-> insurance,
        total |-> total, net |-> gross - total]

(* -------- the run ----------------------------------------------------------- *)
LinesTypeOK ==
    /\ length \in Lengths
    /\ worker \in Worker /\ charges \in Charges
    /\ cleared \in BOOLEAN /\ sealed \in BOOLEAN
    /\ slip # NoLine =>
         /\ slip.gross >= 0 /\ slip.absence >= 0 /\ slip.dues \in Dues /\ slip.insurance >= 0
         /\ slip.total \in 0..slip.gross /\ slip.net = slip.gross - slip.total

LinesInit ==
    /\ length \in Lengths /\ worker \in Worker /\ charges \in Charges
    /\ slip = NoLine /\ cleared = FALSE /\ sealed = FALSE

EmployeeChanges ==
    /\ worker' \in Worker
    /\ UNCHANGED <<length, charges, slip, cleared, sealed>>

ItemsChange ==
    /\ charges' \in Charges
    /\ UNCHANGED <<length, worker, slip, cleared, sealed>>

\* Someone hired after the month or gone before it is in no run.
Employed(w, days) == w.hired <= days /\ w.ends >= 1

BuildLine ==
    /\ ~sealed
    /\ slip' = IF Employed(worker, length) THEN SnapshotOf(worker, charges, length) ELSE NoLine
    /\ UNCHANGED <<length, worker, charges, cleared, sealed>>

Tolerance == 2
Close(a, b) == a - b <= Tolerance /\ b - a <= Tolerance

\* What the audit asks of a line; the insurance is computed again from the employee.
Audited(line) ==
    /\ Close(line.gross - line.total, line.net) /\ line.net >= 0
    /\ Close(line.absence + line.dues + line.insurance, line.total)
    /\ Close(Insurance(worker, length), line.insurance)

\* The request reads the draft without its lock.
AuditLine ==
    /\ ~sealed /\ ~cleared /\ slip # NoLine /\ Audited(slip)
    /\ cleared' = TRUE
    /\ UNCHANGED <<length, worker, charges, slip, sealed>>

\* It then takes the lock and locks what it finds: the audit is not repeated.
LockLine ==
    /\ cleared /\ ~sealed
    /\ cleared' = FALSE /\ sealed' = TRUE
    /\ UNCHANGED <<length, worker, charges, slip>>

\* The run is locked already, or an item that the line lists is gone.
LockRefused ==
    /\ cleared
    /\ sealed \/ (IF slip = NoLine THEN FALSE ELSE slip.absence + slip.dues > 0)
    /\ cleared' = FALSE
    /\ UNCHANGED <<length, worker, charges, slip, sealed>>

UnlockLine ==
    /\ sealed
    /\ sealed' = FALSE
    /\ UNCHANGED <<length, worker, charges, slip, cleared>>

LinesNext ==
    \/ EmployeeChanges \/ ItemsChange \/ BuildLine
    \/ AuditLine \/ LockLine \/ LockRefused \/ UnlockLine
LinesSpec == LinesInit /\ [][LinesNext]_lineVars

(* -------- properties -------------------------------------------------------- *)
Staying(from, to) == [worker EXCEPT !.hired = from, !.ends = to]
\* Days and rounding agree, whatever the amounts, the rate as entered and the length
\* of the month (_compute_employee_payroll_snapshot, employee_payroll_period): nobody
\* earns more than the whole pay, who comes later or leaves sooner earns no more and
\* pays no more insurance, and the insurance alone never takes more than the earnings.
PayFollowsDays ==
    /\ Gross(worker, length) <= FullPay(worker)
    /\ \A from \in Starts, to \in Ends :
         LET part == Staying(from, to)
         IN /\ from >= worker.hired /\ to <= worker.ends
              => /\ Gross(part, length) <= Gross(worker, length)
                 /\ Insurance(part, length) <= Insurance(worker, length)
            /\ Insurance(part, length) \in 0..Gross(part, length)

(* -------- formulas that exploring finds violated ------------------------------ *)
\* "فحص تلقائي قبل الإغلاق النهائي" (_payroll_financial_audit.html): what is closed
\* has passed the check.  A lock marks every item of a line as taken, so the line
\* must have deducted all that it lists: a line capped at the earnings has not.
LockedItemsAreTaken ==
    (sealed /\ slip # NoLine)
    => Close(slip.absence + slip.dues + slip.insurance, slip.total)

\* "تواريخ الفترة (بداية/نهاية الشهر التقويمية) تبقى تقويمية لتصفية البنود فقط", the
\* month having thirty days always (salary_month.py): who is employed through the
\* whole month earns the whole pay.
WholeMonthWholePay ==
    (slip # NoLine /\ slip = SnapshotOf(worker, charges, length)
       /\ worker.hired = 0 /\ worker.ends = AfterMonth)
    => slip.gross = FullPay(worker)
=============================================================================
