----------------------------- MODULE Entitlements -----------------------------
(***************************************************************************)
(* What an employee is owed on leaving, day by day: completed months and   *)
(* annual leave by the payroll's calendar, the end-of-service benefit by a *)
(* year of 360 days, for each kind of settlement.  Amounts are in halalas, *)
(* leave in hundredths of a day, years of service in ten-thousandths.      *)
(***************************************************************************)
EXTENDS Integers, Amounts

CONSTANTS
    Hires,       \* dates of hire
    Salary,      \* salary_for_end_of_service
    LastYear     \* the behaviour ends with this year

Date == [y : Nat, m : 1..12, d : 1..31]

ASSUME EntitlementsAssumption ==
    /\ Hires \subseteq Date /\ Salary \in Nat /\ LastYear \in Nat

VARIABLES
    hire,      \* Employee.hire_date
    now,       \* end_date of a settlement made today
    served     \* days between the two
dueVars == <<hire, now, served>>

Leap(y) == y % 4 = 0
MonthDays(y, m) ==
    CASE m = 2 -> IF Leap(y) THEN 29 ELSE 28
      [] m \in {4, 6, 9, 11} -> 30
      [] OTHER -> 31
Tomorrow(t) ==
    IF t.d < MonthDays(t.y, t.m) THEN [t EXCEPT !.d = @ + 1]
    ELSE IF t.m < 12 THEN [y |-> t.y, m |-> t.m + 1, d |-> 1]
    ELSE [y |-> t.y + 1, m |-> 1, d |-> 1]

EntitlementsInit == hire \in Hires /\ now = hire /\ served = 0

NextDay ==
    /\ Tomorrow(now).y <= LastYear
    /\ now' = Tomorrow(now)
    /\ served' = served + 1
    /\ UNCHANGED hire

EntitlementsSpec == EntitlementsInit /\ [][NextDay]_dueVars

-----------------------------------------------------------------------------
(* Leave *)

\* Someone hired on the first of a month completes it the day after; any other
\* month is completed when the day of hire comes round.
CompletedMonths(h, t) ==
    LET months == (t.y - h.y) * 12 + (t.m - h.m)
    IN IF served = 0 THEN 0
       ELSE IF h.d = 1 THEN (IF t.d # 1 THEN months + 1 ELSE months)
       ELSE IF t.d < h.d THEN months - 1 ELSE months

FirstTier == 60
\* 21 days a year for five years, then 30; 21 always at the end of probation.
AccruedLeave(months, flat) ==
    IF flat \/ months <= FirstTier THEN 175 * months
    ELSE 175 * FirstTier + 250 * (months - FirstTier)

-----------------------------------------------------------------------------
(* End of service *)

Mutant_ServiceYears == (served \div 365) * 10000 + Quantized((served % 360) * 10000, 360)
ServiceYears == Quantized(served * 10000, 360)
Years(n) == n * 10000

TwoTier(before, after) ==
    IF ServiceYears <= Years(5) THEN Quantized(before * ServiceYears, 10000)
    ELSE before * 5 + Quantized(after * (ServiceYears - Years(5)), 10000)

Probation == 180
Standard == IF served <= Probation THEN 0 ELSE TwoTier(Quantized(Salary, 2), Salary)
ByConsent == IF served <= Probation THEN 0
             ELSE TwoTier(Quantized(Salary, 3), Quantized(2 * Salary, 3))

\* Nothing below two years, a third below five, two thirds below ten.
Resigned(amount) ==
    IF ServiceYears < Years(2) THEN 0
    ELSE IF ServiceYears < Years(5) THEN Quantized(amount, 3)
    ELSE IF ServiceYears < Years(10) THEN Quantized(2 * amount, 3)
    ELSE amount

Kinds == {"company", "employee", "contract_expiry", "article_74", "article_77",
          "article_80", "probation_end"}
Parties == {"company", "employee"}
Benefit(kind, party) ==
    CASE kind \in {"article_80", "probation_end"} -> 0
      [] kind = "article_74" -> IF party = "employee" THEN ByConsent ELSE Standard
      [] kind = "employee" \/ (kind = "article_77" /\ party = "employee") -> Resigned(Standard)
      [] OTHER -> Standard
Penalty(kind) == IF kind = "article_77" THEN 2 * Salary ELSE 0

-----------------------------------------------------------------------------
(* Properties *)

\* Staying a day longer never costs anybody part of the dues: not of the benefit,
\* across the end of probation, the steps of the resignation factor and the second
\* tier; nor of the leave, which accrues a month at a time, neither going back nor
\* skipping one, whatever the day of hire and the lengths of the months
\* (compute_settlement_eosb, completed_employment_months, accrued_annual_leave_days).
DuesNeverShrink ==
    [][NextDay =>
       /\ \A k \in Kinds, p \in Parties : Benefit(k, p)' >= Benefit(k, p)
       /\ CompletedMonths(hire, now)' - CompletedMonths(hire, now) \in 0..1
       /\ \A flat \in BOOLEAN :
            AccruedLeave(CompletedMonths(hire, now)', flat)
              - AccruedLeave(CompletedMonths(hire, now), flat) \in 0..250]_dueVars
=============================================================================
