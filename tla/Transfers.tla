------------------------------ MODULE Transfers ------------------------------
(***************************************************************************)
(* Employees who change branch, and the payroll of one month built branch  *)
(* by branch around them: a transfer moves the employee at once and leaves *)
(* a dated statement; a standard run takes the employees of its branch as  *)
(* the statements of the month correct them; the detailed run of a company *)
(* says which branch bears the salary.  A settlement pays the days of the  *)
(* month itself.  Handlers run one at a time here (PayrollRuns is about    *)
(* their overlaps), in the salary mode TRANSFER with one sponsorship.      *)
(***************************************************************************)
EXTENDS Naturals, FiniteSets, Sequences

CONSTANTS
    Staff,          \* employees under the sponsorship
    Branch,
    CompanyOf,      \* CompanyOf[b]: the company of branch b
    MonthLength,    \* days of the month the runs are for
    LastDay,        \* the last day of the behaviour, in a later month
    BackDated,      \* whether a transfer may be executed after its date
    MaxMoves,       \* bound: statements written
    NoPay           \* no run, no transfer

Company == {CompanyOf[b] : b \in Branch}

ASSUME TransfersAssumption ==
    /\ MonthLength \in Nat \ {0} /\ LastDay \in Nat /\ LastDay >= MonthLength
    /\ MaxMoves \in Nat /\ BackDated \in BOOLEAN
    /\ DOMAIN CompanyOf = Branch

VARIABLES
    day,         \* today; 1 is the first day of the month
    branchOf,    \* Employee.branch
    moves,       \* EmployeeStatement rows of type TRANSFER, by id
    settled,     \* terminated employees
    paidOff,     \* history: employees whose settlement paid days of the month
    standard,    \* standard[b]: the standard run of branch b
    detailed     \* detailed[c]: the detailed run of company c
payVars == <<day, branchOf, moves, settled, paidOff, standard, detailed>>

Move == [emp : Staff, date : 1..LastDay, from : Branch, to : Branch]
StandardRun == [locked : BOOLEAN, lines : SUBSET Staff,
                fresh : BOOLEAN]    \* history: built after every other lock
Share == [emp : Staff, branch : Branch, days : 0..MonthLength, bears : BOOLEAN]
DetailedRun == [locked : BOOLEAN, rows : SUBSET Share]

TransfersTypeOK ==
    /\ day \in 1..LastDay
    /\ branchOf \in [Staff -> Branch]
    /\ moves \in Seq(Move) /\ Len(moves) <= MaxMoves
    /\ settled \subseteq Staff /\ paidOff \subseteq Staff
    /\ standard \in [Branch -> StandardRun \cup {NoPay}]
    /\ DOMAIN detailed = Company
    /\ \A c \in Company : detailed[c] # NoPay =>
         /\ detailed[c].locked \in BOOLEAN
         /\ detailed[c].rows \subseteq Share

TransfersInit ==
    /\ day = 1
    /\ branchOf \in [Staff -> Branch]
    /\ moves = <<>> /\ settled = {} /\ paidOff = {}
    /\ standard = [b \in Branch |-> NoPay]
    /\ detailed = [c \in Company |-> NoPay]

IsLocked(r) == IF r = NoPay THEN FALSE ELSE r.locked
IsDraft(r) == IF r = NoPay THEN FALSE ELSE ~r.locked

-----------------------------------------------------------------------------
(* Employees *)

DayPasses ==
    /\ day < LastDay
    /\ day' = day + 1
    /\ UNCHANGED <<branchOf, moves, settled, paidOff, standard, detailed>>

\* The date is the requested one, the branch changes when the request is executed.
Transfer(e, to, date) ==
    /\ e \notin settled /\ to # branchOf[e]
    /\ date = day \/ (BackDated /\ date < day)
    /\ Len(moves) < MaxMoves
    /\ moves' = Append(moves, [emp |-> e, date |-> date, from |-> branchOf[e], to |-> to])
    /\ branchOf' = [branchOf EXCEPT ![e] = to]
    /\ UNCHANGED <<day, settled, paidOff, standard, detailed>>

\* The last transfer of the month, by date and then by id.
MonthMoves(e) == {i \in DOMAIN moves : moves[i].emp = e /\ moves[i].date <= MonthLength}
LastMove(e) ==
    IF MonthMoves(e) = {} THEN NoPay
    ELSE moves[CHOOSE i \in MonthMoves(e) : \A j \in MonthMoves(e) :
                 \/ moves[j].date < moves[i].date
                 \/ moves[j].date = moves[i].date /\ j <= i]

\* Statements are read through the company of the branch the employee is in now.
Moved(e, c) == CompanyOf[branchOf[e]] = c /\ LastMove(e) # NoPay

Settle(e) ==
    /\ e \notin settled
    /\ settled' = settled \cup {e}
    /\ paidOff' = IF day <= MonthLength THEN paidOff \cup {e} ELSE paidOff
    /\ standard' = [b \in Branch |->
         IF IsDraft(standard[b]) THEN [standard[b] EXCEPT !.lines = @ \ {e}] ELSE standard[b]]
    /\ detailed' = [c \in Company |->
         IF IsDraft(detailed[c]) THEN [detailed[c] EXCEPT !.rows = {r \in @ : r.emp # e}]
         ELSE detailed[c]]
    /\ UNCHANGED <<day, branchOf, moves>>

-----------------------------------------------------------------------------
(* Standard runs *)

\* Those in the branch and those moved into it in the month, without those moved away.
InBranch(b) ==
    {e \in Staff \ settled :
        /\ branchOf[e] = b \/ (Moved(e, CompanyOf[b]) /\ LastMove(e).to = b)
        /\ ~(Moved(e, CompanyOf[b]) /\ LastMove(e).from = b)}

LockedElsewhere_Nowhere(b) == {} \* mutant: other locked runs are not looked at

LockedElsewhere(b) ==
    UNION {standard[o].lines : o \in {o \in Branch \ {b} : IsLocked(standard[o])}}

BuildStandard(b) ==
    /\ ~IsLocked(standard[b])
    /\ standard' = [standard EXCEPT ![b] =
         [locked |-> FALSE, lines |-> InBranch(b) \ LockedElsewhere(b), fresh |-> TRUE]]
    /\ UNCHANGED <<day, branchOf, moves, settled, paidOff, detailed>>

\* The audit wants employees; a lock makes the other drafts out of date.
LockStandard(b) ==
    /\ IsDraft(standard[b]) /\ standard[b].lines # {}
    /\ standard' = [o \in Branch |->
         IF o = b THEN [standard[b] EXCEPT !.locked = TRUE]
         ELSE IF IsDraft(standard[o])
              THEN [standard[o] EXCEPT !.fresh = FALSE] ELSE standard[o]]
    /\ UNCHANGED <<day, branchOf, moves, settled, paidOff, detailed>>

\* The run goes back to a draft with the lines it was locked with.
UnlockStandard(b) ==
    /\ IsLocked(standard[b])
    /\ standard' = [standard EXCEPT ![b].locked = FALSE, ![b].fresh = FALSE]
    /\ UNCHANGED <<day, branchOf, moves, settled, paidOff, detailed>>

DiscardStandard(b) ==
    /\ IsDraft(standard[b])
    /\ standard' = [standard EXCEPT ![b] = NoPay]
    /\ UNCHANGED <<day, branchOf, moves, settled, paidOff, detailed>>

-----------------------------------------------------------------------------
(* Detailed runs *)

\* Days before the transfer in the old branch, from it on in the new one, which pays.
Shares(e) ==
    LET m == LastMove(e)
    IN {[emp |-> e, branch |-> m.from, days |-> m.date - 1, bears |-> FALSE],
        [emp |-> e, branch |-> m.to, days |-> MonthLength - m.date + 1, bears |-> TRUE]}

\* Where an amount is found: a line of the company's standard runs.
HasLine(e, c) ==
    \E b \in Branch : /\ CompanyOf[b] = c \/ b = branchOf[e]
                      /\ standard[b] # NoPay /\ e \in standard[b].lines

\* Without a line the amount is computed for a run of the new branch, and the
\* run is created when there is none: an empty draft.  Only the sponsorship is asked
\* for: a settled employee comes back.
BuildDetailed(c) ==
    /\ ~IsLocked(detailed[c])
    /\ LET movers == {e \in Staff : Moved(e, c)}
           opened == {LastMove(e).to : e \in {e \in movers : ~HasLine(e, c)}}
       IN /\ detailed' = [detailed EXCEPT ![c] =
               [locked |-> FALSE, rows |-> UNION {Shares(e) : e \in movers}]]
          /\ standard' = [b \in Branch |->
               IF standard[b] = NoPay /\ b \in opened
               THEN [locked |-> FALSE, lines |-> {}, fresh |-> FALSE] ELSE standard[b]]
    /\ UNCHANGED <<day, branchOf, moves, settled, paidOff>>

LockDetailed(c) ==
    /\ IsDraft(detailed[c]) /\ detailed[c].rows # {}
    /\ detailed' = [detailed EXCEPT ![c].locked = TRUE]
    /\ UNCHANGED <<day, branchOf, moves, settled, paidOff, standard>>

UnlockDetailed(c) ==
    /\ IsLocked(detailed[c])
    /\ detailed' = [detailed EXCEPT ![c].locked = FALSE]
    /\ UNCHANGED <<day, branchOf, moves, settled, paidOff, standard>>

TransfersNext ==
    \/ DayPasses
    \/ \E e \in Staff :
         \/ Settle(e)
         \/ \E to \in Branch, date \in 1..LastDay : Transfer(e, to, date)
    \/ \E b \in Branch :
         BuildStandard(b) \/ LockStandard(b) \/ UnlockStandard(b) \/ DiscardStandard(b)
    \/ \E c \in Company : BuildDetailed(c) \/ LockDetailed(c) \/ UnlockDetailed(c)

TransfersSpec == TransfersInit /\ [][TransfersNext]_payVars

-----------------------------------------------------------------------------
(* Properties *)

\* Nobody falls between the runs of a month and nobody is in two of them, whatever
\* was transferred, dated back or settled in between: some branch pays each employee
\* unless its last move of the month crosses companies, and two locked runs share
\* one only if either was locked as it had been built before the other's lock
\* (employees_queryset_for_branch_payroll, build_payroll_run).
PaidInOneRun ==
    /\ \A e \in Staff \ settled :
          (LastMove(e) = NoPay \/ CompanyOf[LastMove(e).to] = CompanyOf[branchOf[e]])
          => \E b \in Branch : e \in InBranch(b)
    /\ \A a, b \in Branch :
          (/\ a # b /\ IsLocked(standard[a]) /\ IsLocked(standard[b])
           /\ standard[a].fresh /\ standard[b].fresh)
          => standard[a].lines \cap standard[b].lines = {}

\* The employee is in the run of the new branch only: "المسير العادي (standard):
\* الموظف في مسير الفرع الجديد فقط براتب كامل" (transfer_payroll.py).
InOneBranchOnly ==
    \A e \in Staff : Cardinality({b \in Branch : e \in InBranch(b)}) <= 1

\* The month is paid by a locked run or by the settlement, not by both.
MonthPaidOnce ==
    \A b \in Branch : IsLocked(standard[b])
                      => standard[b].lines \cap paidOff = {}
=============================================================================
