---------------------------- MODULE EmployeeFile ----------------------------
(* The file of one employee on a sponsorship, after the forms of the quick     *)
(* actions.  A form checks the file when it is filled in and leaves a request  *)
(* behind; the executor writes what the request says when it is approved, and  *)
(* checks nothing but a custody item again, which it reads without a lock.     *)
(* Registered leaves are edited and deleted directly, and the edit page saves  *)
(* every field it was opened with.  Every other request is one step.           *)
(*                                                                             *)
(* A day earns one unit of annual leave.  The levels of the approval are those *)
(* of PendingActions; here a request is executed or refused at any time.       *)
EXTENDS Integers, FiniteSets, FiniteSetsExt

CONSTANTS
  Tickets,       \* requests there may be at a time
  LeaveRows,     \* leaves there may be at a time
  Items,         \* items of custody
  Wages, Places, \* salaries and branches
  LastNow,       \* bound: days
  MaxForms,      \* bound: forms filled in, page by page
  NoTicket, NoLeave, NoEdit, NoDate

VARIABLES
  now,
  dossier,   \* the Employee row
  away,      \* EmployeeLeave
  kept,      \* EmployeeCustody: the day each item was given and returned
  entries,   \* trips and absences on record
  ticket,    \* the requests that wait
  clearing,  \* the requests whose executor has read its custody item, and not saved it
  crossed,   \* history: items that two requests were clearing at once
  editing,   \* the fields an edit page was opened with
  forms,     \* bound: forms filled in so far
  orderly,   \* history: no leave asked or edited while one waited, no other date or
             \* opening to earn leave from, no settlement dated back
  lent       \* history: days that edits gave back without their ever being counted
clears == <<clearing, crossed>>
credit == <<orderly, lent>>
fileVars == <<now, dossier, away, kept, entries, ticket, clears, editing, forms, credit>>

Today == 1..LastNow
LeaveRow == [kind : {"annual", "unpaid"}, days : 1..LastNow, from : Today, applied : BOOLEAN]
Custody == [given : Today \cup {NoDate}, returned : Today \cup {NoDate}]
Dossier == [status : {"active", "leave", "terminated"}, wage : Nat, place : Places,
            hired : Today, ended : Today \cup {NoDate}, used : Nat,
            start : Today \cup {NoDate}, opening : Nat, months : Nat]
TripRow == [what : {"trip"}]
AbsenceRow == [what : {"absence"}, days : Today, rate : Nat]

LeaveRequest == [what : {"leave"}, row : LeaveRow]
WageRequest == [what : {"wage"}, wage : Nat]
MoveRequest == [what : {"move"}, place : Places \cup {NoDate}]
ReturnRequest == [what : {"return"}, hired : Today, status : {"active", "leave"}]
CustodyRequest == [what : {"receive", "clear"}, item : Items]
AbsenceRequest == [what : {"absence"}, days : Today]
Ticket == LeaveRequest \cup WageRequest \cup MoveRequest \cup ReturnRequest
            \cup CustodyRequest \cup TripRow \cup AbsenceRequest

ASSUME FileAssumption ==
  /\ Wages \subseteq Nat /\ Wages # {} /\ Places # {}
  /\ LastNow \in Nat \ {0} /\ MaxForms \in Nat /\ NoDate \notin Int
  /\ NoLeave \notin LeaveRow /\ NoTicket \notin Ticket /\ NoEdit \notin Dossier

FileTypeOK ==
  /\ now \in Today /\ dossier \in Dossier /\ kept \in [Items -> Custody]
  /\ away \in [LeaveRows -> LeaveRow \cup {NoLeave}]
  /\ ticket \in [Tickets -> Ticket \cup {NoTicket}]
  /\ editing \in Dossier \cup {NoEdit}
  /\ entries \subseteq TripRow \cup AbsenceRow /\ forms \in 0..MaxForms
  /\ clearing \subseteq Tickets /\ crossed \subseteq Items
  /\ orderly \in BOOLEAN /\ lent \in Nat

FileInit ==
  /\ now = 1 /\ forms = 0 /\ orderly = TRUE /\ lent = 0 /\ entries = {} /\ editing = NoEdit
  /\ clearing = {} /\ crossed = {}
  /\ dossier \in [status : {"active"}, wage : {CHOOSE w \in Wages : TRUE},
       place : {CHOOSE p \in Places : TRUE}, hired : {1}, ended : {NoDate}, used : {0},
       start : {1, NoDate}, opening : {0, 1}, months : {0}]
  /\ dossier.start = NoDate => dossier.opening = 0
  /\ away = [l \in LeaveRows |-> NoLeave]
  /\ kept = [i \in Items |-> [given |-> NoDate, returned |-> NoDate]]
  /\ ticket = [t \in Tickets |-> NoTicket]

-----------------------------------------------------------------------------
(* The leave balance *)

Above(n) == IF n > 0 THEN n ELSE 0
AsOf == IF dossier.ended = NoDate THEN now ELSE dossier.ended
EarnedLeave ==
  IF dossier.start # NoDate THEN dossier.opening + Above(AsOf - dossier.start)
  ELSE Above(AsOf - dossier.hired)

AnnualRows == {l \in LeaveRows : away[l] # NoLeave /\ away[l].kind = "annual"}
TakenSince(day) == FoldSet(LAMBDA l, n : n + away[l].days, 0, {l \in AnnualRows : away[l].from >= day})

\* The leaves on record once there are any; until then the number in the file.
UsedLeave ==
  IF dossier.start # NoDate THEN TakenSince(dossier.start)
  ELSE IF AnnualRows # {} THEN TakenSince(0)
  ELSE dossier.used
RemainingLeave == Above(EarnedLeave - UsedLeave)

-----------------------------------------------------------------------------
(* The forms *)

Waiting(what) == {t \in Tickets : ticket[t] # NoTicket /\ ticket[t].what = what}
Employed == dossier.status # "terminated"

\* create_pending_action: a free ticket takes the request.
Filled == forms < MaxForms /\ forms' = forms + 1
Submit(r) ==
  /\ Filled
  /\ \E t \in Tickets : ticket[t] = NoTicket /\ ticket' = [ticket EXCEPT ![t] = r]
  /\ UNCHANGED <<now, dossier, away, kept, entries, editing, clears>>

NewLeave(kind, from, days) == [kind |-> kind, from |-> from, days |-> days, applied |-> FALSE]

Mutant_AskLeave(kind, from, days) ==
  /\ Employed
  /\ kind = "annual" => days <= EarnedLeave
  /\ Submit([what |-> "leave", row |-> NewLeave(kind, from, days)])
  /\ orderly' = (orderly /\ Waiting("leave") = {}) /\ UNCHANGED lent
AskLeave(kind, from, days) ==
  /\ Employed
  /\ kind = "annual" => days <= RemainingLeave
  /\ Submit([what |-> "leave", row |-> NewLeave(kind, from, days)])
  /\ orderly' = (orderly /\ Waiting("leave") = {}) /\ UNCHANGED lent

\* A raise is added to the salary of the day it is asked for.
AskWage(wage) ==
  Employed /\ Submit([what |-> "wage", wage |-> wage]) /\ UNCHANGED credit
AskRaise(raise) == AskWage(dossier.wage + raise)

AskMove(place) == Employed /\ Submit([what |-> "move", place |-> place]) /\ UNCHANGED credit

AskReturn(day, status) ==
  /\ ~Employed
  /\ Submit([what |-> "return", hired |-> day, status |-> status]) /\ UNCHANGED credit

Held(i) == kept[i].given # NoDate /\ kept[i].returned = NoDate
AskReceive(i) ==
  /\ Employed /\ kept[i].given = NoDate
  /\ ~ \E t \in Waiting("receive") : ticket[t].item = i
  /\ Submit([what |-> "receive", item |-> i]) /\ UNCHANGED credit
AskClear(i) == Held(i) /\ Submit([what |-> "clear", item |-> i]) /\ UNCHANGED credit

AskTrip == Employed /\ Submit([what |-> "trip"]) /\ UNCHANGED credit
AskAbsence(days) ==
  Employed /\ Submit([what |-> "absence", days |-> days]) /\ UNCHANGED credit

-----------------------------------------------------------------------------
(* The executors: one transaction each, on a request that waits.  Refusing a  *)
(* request closes it; an executor that fails leaves it waiting.               *)

Answered(t) ==
  /\ ticket' = [ticket EXCEPT ![t] = NoTicket] /\ clearing' = clearing \ {t}
  /\ UNCHANGED <<now, editing, forms, crossed>>
Refuse(t) ==
  /\ ticket[t] # NoTicket /\ t \notin clearing /\ Answered(t)
  /\ UNCHANGED <<dossier, away, kept, entries, credit>>

\* The ledger row of an annual leave is LeaveLedger's.
ExecuteLeave(t) ==
  /\ t \in Waiting("leave") /\ Answered(t)
  /\ LET row == ticket[t].row
     IN /\ \E l \in LeaveRows : away[l] = NoLeave /\ away' = [away EXCEPT ![l] = row]
        /\ dossier' = [dossier EXCEPT !.used = @ + (IF row.kind = "annual" THEN row.days ELSE 0)]
  /\ UNCHANGED <<kept, entries, credit>>

WriteDossier(t, d) ==
  Answered(t) /\ dossier' = d /\ UNCHANGED <<away, kept, entries>>
ExecuteWage(t) ==
  /\ t \in Waiting("wage") /\ UNCHANGED credit
  /\ WriteDossier(t, [dossier EXCEPT !.wage = ticket[t].wage])
ExecuteMove(t) ==
  /\ t \in Waiting("move") /\ UNCHANGED credit
  /\ WriteDossier(t, [dossier EXCEPT
       !.place = IF ticket[t].place = NoDate THEN @ ELSE ticket[t].place])
ExecuteReturn(t) ==
  /\ t \in Waiting("return") /\ orderly' = FALSE /\ UNCHANGED lent
  /\ WriteDossier(t, [dossier EXCEPT !.hired = ticket[t].hired, !.ended = NoDate,
                                    !.used = 0, !.status = ticket[t].status])

ExecuteReceive(t) ==
  /\ t \in Waiting("receive") /\ Answered(t)
  /\ kept' = [kept EXCEPT ![ticket[t].item].given = now]
  /\ UNCHANGED <<dossier, away, entries, credit>>

\* The executor holds the row of its own request, not that of the item.
BeginClear(t) ==
  /\ t \in Waiting("clear") \ clearing /\ clearing' = clearing \cup {t}
  /\ crossed' = crossed \cup {ticket[o].item : o \in {o \in clearing : ticket[o].item = ticket[t].item}}
  /\ UNCHANGED <<now, dossier, away, kept, entries, ticket, editing, forms, credit>>
Mutant_ReadClear(t) == BeginClear(t)
ReadClear(t) ==
  /\ t \in Waiting("clear") /\ Held(ticket[t].item)
  /\ BeginClear(t)
SaveClear(t) ==
  /\ t \in clearing /\ Answered(t)
  /\ kept' = [kept EXCEPT ![ticket[t].item].returned = now]
  /\ UNCHANGED <<dossier, away, entries, credit>>
\* The executor fails after it has read: the request waits again.
DropClear(t) ==
  /\ t \in clearing /\ clearing' = clearing \ {t}
  /\ UNCHANGED <<now, dossier, away, kept, entries, ticket, crossed, editing, forms, credit>>

WriteRow(t, row) ==
  /\ entries' = entries \cup {row}
  /\ Answered(t) /\ UNCHANGED <<dossier, away, kept, credit>>
ExecuteTrip(t) == t \in Waiting("trip") /\ WriteRow(t, [what |-> "trip"])
\* An absence is charged at the salary of the day it is executed.
ExecuteAbsence(t) ==
  /\ t \in Waiting("absence")
  /\ WriteRow(t, [what |-> "absence", days |-> ticket[t].days, rate |-> dossier.wage])

-----------------------------------------------------------------------------
(* Direct changes *)

\* An annual leave gives its own days back before the new ones are compared: those of
\* a leave from before the accrual as well, which the balance never counted.
Early(l) == dossier.start # NoDate /\ away[l].from < dossier.start
GivenBack(l) == IF away[l].kind = "annual" THEN away[l].days ELSE 0
EditLeave(l, kind, from, days) ==
  /\ Filled
  /\ away[l] # NoLeave /\ ~away[l].applied
  /\ kind = "annual" => days <= RemainingLeave + GivenBack(l)
  /\ away' = [away EXCEPT ![l] = NewLeave(kind, from, days)]
  /\ orderly' = (orderly /\ Waiting("leave") = {})
  /\ lent' = lent + (IF kind = "annual" /\ Early(l) THEN GivenBack(l) ELSE 0)
  /\ UNCHANGED <<now, dossier, kept, entries, ticket, clears, editing>>
DeleteLeave(l) ==
  /\ Filled
  /\ away[l] # NoLeave /\ ~away[l].applied
  /\ away' = [away EXCEPT ![l] = NoLeave]
  /\ UNCHANGED <<now, dossier, kept, entries, ticket, clears, editing, credit>>

\* Locking a payroll run binds the unpaid leaves it charges.
ApplyLeave(l) ==
  /\ Filled
  /\ away[l] # NoLeave /\ away[l].kind = "unpaid" /\ ~away[l].applied
  /\ away' = [away EXCEPT ![l].applied = TRUE]
  /\ UNCHANGED <<now, dossier, kept, entries, ticket, clears, editing, credit>>

OnDossier(d) ==
  /\ Filled /\ dossier' = d
  /\ UNCHANGED <<now, away, kept, entries, ticket, clears>>
SameBasis(d) ==
  d.hired = dossier.hired /\ d.start = dossier.start /\ d.opening = dossier.opening

\* A settlement, at once or approved (PendingActions).
Settle(end) ==
  /\ Employed
  /\ OnDossier([dossier EXCEPT !.status = "terminated", !.ended = end])
  /\ orderly' = (orderly /\ end >= now) /\ UNCHANGED <<lent, editing>>

\* The settings of the leave tab: a number of days used only without a date.
SaveLeaveSettings(start, opening, used) ==
  /\ opening > 0 => start # NoDate
  /\ OnDossier([dossier EXCEPT !.start = start, !.opening = opening,
                              !.used = IF start = NoDate THEN used ELSE @])
  /\ orderly' = (orderly /\ SameBasis(dossier')) /\ UNCHANGED <<lent, editing>>

\* The edit page posts every field it was opened with, the status left out.
OpenEdit ==
  /\ editing = NoEdit /\ editing' = dossier
  /\ UNCHANGED <<now, dossier, away, kept, entries, ticket, clears, forms, credit>>
SaveEdit(wage) ==
  /\ editing # NoEdit /\ editing' = NoEdit
  /\ OnDossier([editing EXCEPT !.status = dossier.status, !.ended = dossier.ended,
                              !.months = dossier.months, !.wage = wage])
  /\ orderly' = (orderly /\ SameBasis(dossier')) /\ UNCHANGED lent

\* The work schedule is a list of months; the posted list is added to it or takes
\* its place, a shorter one only if that is confirmed.
SaveSchedule(n, add, confirmed) ==
  /\ add \/ n >= dossier.months \/ confirmed
  /\ OnDossier([dossier EXCEPT !.months = n + (IF add THEN @ ELSE 0)])
  /\ UNCHANGED <<editing, credit>>

FileNextDay ==
  /\ now < LastNow /\ now' = now + 1
  /\ UNCHANGED <<dossier, away, kept, entries, ticket, clears, editing, forms, credit>>

LeaveNext ==
  \/ \E kind \in {"annual", "unpaid"}, from, days \in Today :
       \/ AskLeave(kind, from, days)
       \/ \E l \in LeaveRows : EditLeave(l, kind, from, days)
  \/ \E t \in Tickets : ExecuteLeave(t)
  \/ \E l \in LeaveRows : DeleteLeave(l) \/ ApplyLeave(l)
  \/ \E start \in Today \cup {NoDate}, opening, used \in 0..1 :
       SaveLeaveSettings(start, opening, used)

FileNext ==
  \/ \E w \in Wages : AskWage(w) \/ SaveEdit(w)
  \/ AskRaise(1) \/ AskTrip \/ OpenEdit
  \/ \E d \in Today : AskAbsence(d)
  \/ \E p \in Places \cup {NoDate} : AskMove(p)
  \/ \E i \in Items : AskReceive(i) \/ AskClear(i)
  \/ \E t \in Tickets :
       \/ ExecuteReceive(t) \/ ReadClear(t) \/ SaveClear(t) \/ DropClear(t)
       \/ ExecuteTrip(t) \/ ExecuteAbsence(t)
       \/ ExecuteWage(t) \/ ExecuteMove(t)
  \/ \E n \in 0..1, add, confirmed \in BOOLEAN : SaveSchedule(n, add, confirmed)

SharedNext ==
  \/ \E d \in Today : AskReturn(d, "active") \/ AskReturn(d, "leave") \/ Settle(d)
  \/ \E t \in Tickets : Refuse(t) \/ ExecuteReturn(t)
  \/ FileNextDay

EmployeeNext == LeaveNext \/ FileNext \/ SharedNext
EmployeeSpec == FileInit /\ [][EmployeeNext]_fileVars

-----------------------------------------------------------------------------
(* Leaves are taken from what was earned: while no leave is asked for or      *)
(* edited beside one that waits (the check is made then and not again at      *)
(* execution), the date and the opening that leave is earned from stay as they *)
(* are, and no settlement is dated back, the annual leaves on record exceed    *)
(* the leave earned by no more than the days of leaves from before the accrual *)
(* that edits gave back (edit_employee_leave); with none, they do not exceed it. *)
TakenWithinEarned ==
  orderly =>
    TakenSince(IF dossier.start # NoDate THEN dossier.start ELSE 0) <= EarnedLeave + lent

(* However many requests to clear an item wait, fail or are refused, and        *)
(* whatever becomes of the employee, the day an item was returned on is        *)
(* written once, unless two of them were executed at once: the executor looks  *)
(* for an item still held, and locks only its own request.                     *)
ReturnStands ==
  [][\A i \in Items \ crossed : kept[i].returned # NoDate => kept'[i] = kept[i]]_fileVars
=============================================================================
