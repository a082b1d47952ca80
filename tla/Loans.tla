-------------------------------- MODULE Loans --------------------------------
(* The loans of one employee: a granted loan is cut into monthly installments,*)
(* which the drafts of payroll charge and a settlement takes at once.         *)
(* An installment is known by its loan and month, which are unique among all  *)
(* rows, deleted ones included.  Locking a run that charges an installment    *)
(* fails (PayrollRuns), so that none is ever paid or bound to a run; every    *)
(* check for consumed installments passes and is left out.  Terms, edits and  *)
(* deletions each commit in one transaction under the row of the loan.        *)
EXTENDS Integers, FiniteSets, FiniteSetsExt

CONSTANTS
  LoanIds,
  Amounts,       \* amounts of loans and of monthly deductions
  MaxMonth,      \* bound of the instance
  NoLoan

Loan == [amount : Amounts, per : Amounts, n : 1..MaxMonth, first : 1..MaxMonth, live : BOOLEAN]
Installment == [amount : Nat, live : BOOLEAN]

ASSUME LoanAssumption ==
  /\ Amounts \subseteq Nat \ {0} /\ MaxMonth \in Nat \ {0}
  /\ NoLoan \notin Loan /\ NoLoan \notin Installment

VARIABLES
  loan,      \* EmployeeLoan: its terms and whether it is deleted
  inst,      \* LoanInstallment: amount and whether it is deleted, by loan and month
  charged,   \* installments on the employee's line of each month's draft
  closed,    \* months whose run is locked
  gone,      \* the employee is settled
  taken      \* history: what settlements deducted for each loan
loanVars == <<loan, inst, charged, closed, gone, taken>>

LoanMonths == 1..MaxMonth

(* What the form accepts: the last installment takes what is left.            *)
Mutant_TermsAny ==
  {t \in [amount : Amounts, per : Amounts, n : 1..MaxMonth, first : LoanMonths] :
     t.first + t.n - 1 <= MaxMonth}
Terms ==
  {t \in [amount : Amounts, per : Amounts, n : 1..MaxMonth, first : LoanMonths] :
     /\ t.first + t.n - 1 <= MaxMonth
     /\ t.per <= t.amount
     /\ t.n > 1 => t.per * (t.n - 1) < t.amount}

LastShare(t) == t.first + t.n - 1
Due(t) == t.first..LastShare(t)
Share(t, m) == IF m = LastShare(t) THEN t.amount - t.per * (t.n - 1) ELSE t.per

LoanInit ==
  /\ loan = [l \in LoanIds |-> NoLoan]
  /\ inst = [k \in LoanIds \X LoanMonths |-> NoLoan]
  /\ charged = [m \in LoanMonths |-> {}] /\ closed = {} /\ gone = FALSE
  /\ taken = [l \in LoanIds |-> 0]

Standing(l) == loan[l] # NoLoan /\ loan[l].live
Owed(k) == inst[k] # NoLoan /\ inst[k].live

(* Installments are generated only when no live one is there, and never over  *)
(* a row that has the same month.                                             *)
Generated(I, l, t) ==
  IF \E m \in LoanMonths : I[l, m] # NoLoan /\ I[l, m].live THEN I
  ELSE [k \in DOMAIN I |->
          IF k[1] = l /\ k[2] \in Due(t) THEN [amount |-> Share(t, k[2]), live |-> TRUE]
          ELSE I[k]]
Mutant_DroppedNot(l) == inst
Dropped(l) ==
  [k \in DOMAIN inst |-> IF k[1] = l /\ inst[k] # NoLoan
                         THEN [inst[k] EXCEPT !.live = FALSE] ELSE inst[k]]
Given(t) == [amount |-> t.amount, per |-> t.per, n |-> t.n, first |-> t.first, live |-> TRUE]

Grant(l, t) ==
  /\ ~gone /\ loan[l] = NoLoan
  /\ loan' = [loan EXCEPT ![l] = Given(t)]
  /\ inst' = Generated(inst, l, t)
  /\ UNCHANGED <<charged, closed, gone, taken>>

(* The edit drops the installments and generates them again; the insertion    *)
(* of a month the loan already had fails and the edit is rolled back.         *)
EditLoan(l, t) ==
  /\ Standing(l)
  /\ \A m \in Due(t) : inst[l, m] = NoLoan
  /\ loan' = [loan EXCEPT ![l] = Given(t)]
  /\ inst' = Generated(Dropped(l), l, t)
  /\ UNCHANGED <<charged, closed, gone, taken>>

(* The loan goes and its installments stay.                                   *)
DeleteLoan(l) ==
  /\ Standing(l)
  /\ loan' = [loan EXCEPT ![l].live = FALSE]
  /\ UNCHANGED <<inst, charged, closed, gone, taken>>

BuildMonth(m) ==
  /\ ~gone /\ m \notin closed
  /\ charged' = [charged EXCEPT ![m] = {k \in DOMAIN inst : k[2] = m /\ Owed(k)}]
  /\ UNCHANGED <<loan, inst, closed, gone, taken>>

LockMonth(m) ==
  /\ m \notin closed /\ charged[m] = {}
  /\ closed' = closed \cup {m}
  /\ UNCHANGED <<loan, inst, charged, gone, taken>>

UnlockMonth(m) ==
  /\ m \in closed /\ closed' = closed \ {m}
  /\ UNCHANGED <<loan, inst, charged, gone, taken>>

(* The settlement deducts what is left of every loan that stands, takes the   *)
(* employee off the drafts, and leaves the loans as they are.                 *)
SettleLoans ==
  /\ ~gone /\ gone' = TRUE
  /\ taken' = [l \in LoanIds |-> taken[l] + IF Standing(l) THEN loan[l].amount ELSE 0]
  /\ charged' = [m \in LoanMonths |-> IF m \in closed THEN charged[m] ELSE {}]
  /\ UNCHANGED <<loan, inst, closed>>

Rehire ==
  /\ gone /\ gone' = FALSE
  /\ \A l \in LoanIds : taken[l] <= Max(Amounts)   \* bound: settled twice at most
  /\ UNCHANGED <<loan, inst, charged, closed, taken>>

LoanNext ==
  \/ \E l \in LoanIds :
       (\E t \in Terms : Grant(l, t) \/ EditLoan(l, t)) \/ DeleteLoan(l)
  \/ \E m \in LoanMonths : BuildMonth(m) \/ LockMonth(m) \/ UnlockMonth(m)
  \/ SettleLoans \/ Rehire

LoanSpec == LoanInit /\ [][LoanNext]_loanVars

(* -------- properties -------------------------------------------------------- *)
(* The live installments of a loan are those of its terms, one a month, all   *)
(* of them positive, and together they are its amount, however often it was   *)
(* edited (generate_installments, edit_employee_loan, LoanRequestForm.clean). *)
ScheduleWhole ==
  \A l \in LoanIds : Standing(l) =>
    LET due == {m \in LoanMonths : Owed(<<l, m>>)}
    IN /\ due = Due(loan[l])
       /\ \A m \in due : inst[l, m].amount > 0
       /\ MapThenSumSet(LAMBDA m : inst[l, m].amount, due) = loan[l].amount

(* No draft charges an installment of a deleted loan.                         *)
DeletedNotCharged ==
  \A m \in LoanMonths : \A k \in charged[m] : Standing(k[1])

(* A loan is deducted from the employee once.                                 *)
TakenOnce == \A l \in LoanIds : loan[l] # NoLoan => taken[l] <= loan[l].amount
=============================================================================
