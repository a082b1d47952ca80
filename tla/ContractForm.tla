----------------------------- MODULE ContractForm -----------------------------
(* The contract and the bank details of an employee: entered tab by tab on a  *)
(* request for employment and copied when it is approved, or saved by the     *)
(* full page, which checks what was posted, falls back on what is stored for  *)
(* what was left blank, and lets time change a Saudi's contract.  The page of *)
(* the contract does the latter on being looked at.  Who has left may come    *)
(* back with a new date of hire and the old contract.  Requests run one at a  *)
(* time.  Years stand for dates and durations, 1 for the twelve months a       *)
(* Saudi's contract may last.                                                 *)
EXTENDS Integers, FiniteSets

CONSTANTS
  BankParts,   \* bank, IBAN, kind of account
  Posted,      \* what may be posted by the full page
  Horizon,    \* bound
  NoFile

Nationalities == {"none", "saudi", "other"}
Year == 0..Horizon     \* 0: left blank
ContractType == {"", "fixed", "unlimited"}
NoMonths == -1         \* None; a posted 0 is another value
Person ==
  [nationality : Nationalities, hired : Year, kind : ContractType, months : NoMonths..2,
   text : BOOLEAN, start : Year, expiry : 0..(Horizon + 2),
   sponsor : BOOLEAN, bank : SUBSET BankParts, gosi : BOOLEAN]

ASSUME ContractAssumption == Horizon \in Nat /\ Posted \subseteq Person /\ NoFile \notin Person

VARIABLES
  request,   \* the request, until it is approved
  employee,  \* the employee, if there is one
  year,      \* today
  decided,   \* history: when the contract was last saved; 0: not since the hire or return
  sponsored  \* history: the employee has been under a sponsorship
contractVars == <<request, employee, year, decided, sponsored>>

ContractTypeOK ==
  /\ request \in Person \cup {NoFile} /\ employee \in Person \cup {NoFile}
  /\ year \in 1..Horizon /\ decided \in Year /\ sponsored \in BOOLEAN

Empty == [nationality |-> "none", hired |-> 0, kind |-> "", months |-> NoMonths, text |-> FALSE,
          start |-> 0, expiry |-> 0, sponsor |-> FALSE, bank |-> {}, gosi |-> FALSE]

ContractInit ==
  /\ request \in {Empty, NoFile} /\ employee = NoFile /\ year = 1 /\ decided = 0 /\ sponsored = FALSE

-----------------------------------------------------------------------------
(* contract_rules.py *)

\* should_auto_unlimited
AutoUnlimited(f) == f.nationality = "saudi" /\ f.hired # 0 /\ year >= f.hired + 3

\* sync_employee_contract
Synced(f) ==
  IF AutoUnlimited(f)
  THEN [f EXCEPT !.kind = "unlimited", !.months = NoMonths, !.text = FALSE, !.expiry = 0]
  ELSE LET kind == IF f.kind = "" THEN "fixed" ELSE f.kind
           dated == kind = "fixed" /\ f.nationality = "saudi" /\ f.start # 0 /\ f.months > 0 /\ f.expiry = 0
       IN [f EXCEPT !.kind = kind, !.expiry = IF dated THEN f.start + f.months ELSE @]

\* validate_contract_fields: the nationality and the date of hire are those stored when
\* they were left blank, the rest is what will be saved.
ContractErrors(f, nationality, hired) ==
  LET saudi == nationality = "saudi"
  IN (IF saudi /\ f.kind = "unlimited" /\ hired # 0 /\ year < hired + 3 THEN {"contract_type"} ELSE {})
     \cup (IF f.kind = "fixed" /\ saudi /\ f.months \notin {NoMonths, 1} THEN {"contract_duration_months"} ELSE {})
     \cup (IF f.start # 0 /\ f.expiry # 0 /\ f.expiry < f.start THEN {"contract_expiry_date"} ELSE {})
     \cup (IF f.kind = "fixed" /\ ~saudi /\ ~f.text /\ f.months = NoMonths /\ f.expiry = 0
           THEN {"contract_duration_text"} ELSE {})

-----------------------------------------------------------------------------
(* salary_payment.py *)

\* What the form knows of the bank: the fields it has (what is not posted and has a
\* value is left out), what was entered in them and, for a blank, what is stored.
Fields(old, sent) == IF sent THEN BankParts ELSE BankParts \ old.bank
Sponsored(old, new) == new.sponsor \/ old.sponsor
\* normalize_salary_payment_fields
Normalized(old, new, sent) == IF sent /\ Sponsored(old, new) THEN new.bank ELSE {}
\* validate_salary_payment_fields
PaymentValid(old, new, sent) ==
  LET known == Normalized(old, new, sent) \cup old.bank
  IN IF Sponsored(old, new) THEN Fields(old, sent) \subseteq known
     ELSE Fields(old, sent) \cap known = {}
SavedBank(old, new, sent) ==
  Normalized(old, new, sent) \cup (IF sent THEN {} ELSE old.bank)

-----------------------------------------------------------------------------
(* EmployeeForm *)

\* A page has the tabs its user may see; what it has not posted is left as it is, and
\* is not checked unless it is blank.
Tabs == {"contract", "salary"}
Filled(old, new, tabs) ==
  LET terms == IF "contract" \in tabs THEN new ELSE old
      pay == IF "salary" \in tabs THEN new ELSE old
  IN [new EXCEPT !.kind = terms.kind, !.months = terms.months, !.text = terms.text,
                 !.start = terms.start, !.expiry = terms.expiry, !.gosi = pay.gosi]
ContractFields(old, tabs) ==
  {"contract_type", "contract_duration_months", "contract_duration_text", "contract_expiry_date"}
  \ (IF "contract" \in tabs THEN {} ELSE
     {field \in {"contract_duration_months"} : old.months > 0}
     \cup {field \in {"contract_duration_text"} : old.text}
     \cup {field \in {"contract_expiry_date"} : old.expiry # 0})

Or(new, old, blank) == IF new = blank THEN old ELSE new
Mutant_FormValid(old, f, new, tabs) ==
  LET nationality == Or(new.nationality, old.nationality, "none")
      errors == ContractErrors(f, nationality, Or(new.hired, old.hired, 0))
  IN /\ errors \cap ContractFields(old, tabs) = {}
     /\ PaymentValid(old, new, "salary" \in tabs)
     /\ nationality = "saudi" => f.gosi
FormValid(old, f, new, tabs) ==
  LET nationality == Or(new.nationality, old.nationality, "none")
      errors == ContractErrors(Synced(f), nationality, Or(new.hired, old.hired, 0))
  IN /\ errors \cap ContractFields(old, tabs) = {}
     /\ PaymentValid(old, new, "salary" \in tabs)
     /\ nationality = "saudi" => f.gosi

\* A page without the contract fails on an employee whose kind of contract is known.
Saves(old, new, tabs) ==
  LET f == Filled(old, new, tabs)
  IN /\ "contract" \in tabs \/ old.kind = ""
     /\ FormValid(old, f, new, tabs)
     /\ employee' = [Synced(f) EXCEPT !.bank = SavedBank(old, new, "salary" \in tabs)]
     /\ decided' = (IF "contract" \in tabs THEN year ELSE 0)
     /\ sponsored' = (sponsored \/ new.sponsor)

CreateEmployee(new, tabs) ==
  /\ employee = NoFile /\ request = NoFile /\ Saves(Empty, new, tabs)
  /\ UNCHANGED <<request, year>>
EditEmployee(new, tabs) ==
  /\ employee # NoFile /\ Saves(employee, new, tabs)
  /\ UNCHANGED <<request, year>>

\* load_employee_view_context: the page of the contract brings it up to date.
ViewContract ==
  /\ employee # NoFile /\ Synced(employee) # employee
  /\ employee' = Synced(employee) /\ decided' = (IF decided = 0 THEN 0 ELSE year)
  /\ UNCHANGED <<request, year, sponsored>>

\* _execute_reactivate: who has left is hired again, on the contract there is.
Reactivate(day) ==
  /\ employee # NoFile
  /\ employee' = [employee EXCEPT !.hired = day] /\ decided' = 0
  /\ UNCHANGED <<request, year, sponsored>>

-----------------------------------------------------------------------------
(* EmploymentRequestEditForm *)

\* validate_employee_data_complete
Complete(f) ==
  /\ f.nationality # "none" /\ f.sponsor /\ f.hired # 0
  /\ f.nationality = "saudi" => f.gosi
  /\ f.bank = BankParts

\* manager_approve: of the contract only its end is copied.
Hire(f) ==
  /\ employee' = f /\ request' = NoFile /\ sponsored' = TRUE /\ UNCHANGED <<year, decided>>

\* Every button posts the whole form; what is checked depends on its tab.
SaveRequest(tab, new) ==
  LET f == [new EXCEPT !.kind = "", !.months = NoMonths, !.text = FALSE, !.start = 0,
                       !.bank = SavedBank(request, new, TRUE)]
  IN /\ request # NoFile
     /\ tab \in {"salary", "bank", "approve"} => PaymentValid(request, new, TRUE)
     /\ tab \in {"salary", "approve"} /\ Or(new.nationality, request.nationality, "none") = "saudi"
          => new.gosi
     /\ tab = "approve" => new.nationality # "none" /\ new.sponsor /\ new.hired # 0
     /\ IF tab = "approve" /\ Complete(f) THEN Hire(f)
        ELSE request' = f /\ UNCHANGED <<employee, year, decided, sponsored>>
ApproveRequest == request # NoFile /\ Complete(request) /\ Hire(request)

NextYear == year < Horizon /\ year' = year + 1 /\ UNCHANGED <<request, employee, decided, sponsored>>

ContractNext ==
  \/ \E new \in Posted :
       \/ \E tabs \in SUBSET Tabs : CreateEmployee(new, tabs) \/ EditEmployee(new, tabs)
       \/ \E tab \in {"main", "org", "salary", "bank", "docs", "approve"} : SaveRequest(tab, new)
  \/ ViewContract \/ ApproveRequest \/ NextYear
  \/ \E day \in 1..Horizon : Reactivate(day)

ContractSpec == ContractInit /\ [][ContractNext]_contractVars

-----------------------------------------------------------------------------
(* What a saved contract should be *)

\* A fixed contract of a foreigner has a duration of some kind, 0 months included:
\* validate_contract_fields asks no more of it.
Lawful(f, day) ==
  /\ f.nationality = "saudi" /\ f.hired # 0 =>
       /\ f.kind = "unlimited" <=> day >= f.hired + 3
       /\ f.kind = "unlimited" => f.months = NoMonths /\ ~f.text /\ f.expiry = 0
  /\ f.nationality = "saudi" /\ f.kind = "fixed" => f.months \in {NoMonths, 1}
  /\ f.nationality = "other" /\ f.kind = "fixed" => f.text \/ f.months # NoMonths \/ f.expiry # 0
  /\ f.start # 0 /\ f.expiry # 0 => f.expiry >= f.start

(* With requests one at a time, and however a file came to be, was edited     *)
(* with fields left blank, aged and was hired again: a contract that the page *)
(* has shown and saved since the hire, or since the last return, was lawful   *)
(* on the day it was last saved or brought up to date.  Before that it may    *)
(* not be: the contract of a request is not checked, and who returns keeps    *)
(* the old one, so that a Saudi may have an unlimited contract before the     *)
(* fourth year.  Who has never been under a sponsorship has no bank details   *)
(* (EmployeeForm.clean, sync_employee_contract,                               *)
(* normalize_salary_payment_fields).                                          *)
ContractIsLawful ==
  employee # NoFile =>
    /\ decided # 0 => Lawful(employee, decided)
    /\ ~sponsored => employee.bank = {}
=============================================================================
