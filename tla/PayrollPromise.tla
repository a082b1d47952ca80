--------------------------- MODULE PayrollPromise ---------------------------
(***************************************************************************)
(* What the payroll of a month promises of the runs that are closed: one   *)
(* is closed with the people it pays, the totals of all of them and        *)
(* deductions of theirs that no closed run has taken; from then on none of *)
(* this changes, and nothing it has deducted is deducted again, until it   *)
(* is opened and lets go of everything.                                    *)
(***************************************************************************)
CONSTANTS Run, Employee, Item, OwnerOf, NoRun

VARIABLES
    closed,     \* the closed runs
    sheet,      \* sheet[r]: whom a closed run pays, counts and charges with what
    takenBy     \* takenBy[i]: the closed run that has deducted the item i

payrollPromiseVars == <<closed, sheet, takenBy>>

Sheet == [lines : SUBSET Employee, charged : SUBSET Item, counted : SUBSET Employee]
Blank == [lines |-> {}, charged |-> {}, counted |-> {}]

Init ==
    /\ closed = {}
    /\ sheet = [r \in Run |-> Blank]
    /\ takenBy = [i \in Item |-> NoRun]

\* Nobody is left out of the totals, unless there is nobody to pay.
Close(r) ==
    /\ r \notin closed
    /\ closed' = closed \cup {r}
    /\ \E s \in Sheet :
         /\ s.lines # {} => s.counted = s.lines
         /\ \A i \in s.charged : takenBy[i] = NoRun /\ OwnerOf[i] \in s.lines
         /\ sheet' = [sheet EXCEPT ![r] = s]
         /\ takenBy' = [i \in Item |-> IF i \in s.charged THEN r ELSE takenBy[i]]

Reopen(r) ==
    /\ r \in closed
    /\ closed' = closed \ {r}
    /\ sheet' = [sheet EXCEPT ![r] = Blank]
    /\ takenBy' = [i \in Item |-> IF takenBy[i] = r THEN NoRun ELSE takenBy[i]]

Next == \E r \in Run : Close(r) \/ Reopen(r)

Spec == Init /\ [][Next]_payrollPromiseVars
=============================================================================
