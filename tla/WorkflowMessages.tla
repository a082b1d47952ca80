--------------------------- MODULE WorkflowMessages ---------------------------
(* WhatsApp messages of the approval workflow and of maintenance requests.    *)
(* The transaction that moves a request sends its messages one by one, waits  *)
(* for the gateway each time and writes a row per message; then it commits or *)
(* is rolled back.  A message goes to a user's own number, to the number      *)
(* entered for a role, or to both.  What a message says is left out: it is    *)
(* the event it tells of.                                                     *)
EXTENDS Integers, FiniteSets

CONSTANTS
  People, Managers,   \* users and the employee; those who manage maintenance
  Mobiles,            \* telephone numbers, as the gateway knows them
  Books, Phones,      \* what may be entered for the roles and for the people
  NoPhone, NoRun,
  MaxTurns            \* bound: transactions and saves of the settings

RoleKeys == {"system_admin", "hr_manager", "hr_officer", "maintenance_manager",
          "branch_manager"}
Broadcasts == {"created", "pending_gm", "settled"}
ToOne == {"executed", "assigned", "worker", "closed"}
ToManagers == {"raised", "reported"}
Events == Broadcasts \cup ToOne \cup ToManagers

\* A number as it was typed: with the leading zero, or in the gateway's own form.
Written == [number : Mobiles, form : {"05", "966"}]

ASSUME MessagesAssumption ==
  /\ Managers \subseteq People /\ MaxTurns \in Nat
  /\ Books \subseteq [RoleKeys -> Written \cup {NoPhone}]
  /\ Phones \subseteq [People -> Written \cup {NoPhone}]

VARIABLES
  on,        \* WorkflowWhatsAppSettings.is_enabled
  link,      \* WhatsApp switched off, without a gateway, or ready
  book,      \* the number entered for each role
  phone,     \* the number of each person
  run,       \* the transaction: its messages to send, its rows; history: the book it
             \* read, and whether WhatsApp stayed ready
  told,      \* history: how often it gave the gateway a number for an event
  ledger,    \* the rows the last transaction committed (WhatsAppMessageLog)
  turns      \* bound
messageVars == <<on, link, book, phone, run, told, ledger, turns>>

\* A message to send, to a person (whoever has no number is skipped) or to a role.
Message == [to : People \cup RoleKeys, phone : Written \cup {NoPhone}, event : Events]
Links == {"off", "unset", "ready"}
Status == {"sent", "failed", "skipped"}
LogRow == [to : People \cup RoleKeys, event : Events, status : Status]
Transaction ==
  [event : Events, about : People, managed : BOOLEAN, stage : {"people", "roles"},
   rest : SUBSET Message, rows : SUBSET LogRow, whole : BOOLEAN, book : Books]

MessagesTypeOK ==
  /\ on \in BOOLEAN /\ link \in Links /\ book \in Books /\ phone \in Phones
  /\ run \in Transaction \cup {NoRun}
  /\ told \in [Events \X Mobiles -> Nat] /\ ledger \subseteq LogRow /\ turns \in 0..MaxTurns

MessagesInit ==
  /\ on \in BOOLEAN /\ link = "ready" /\ book \in Books /\ phone \in Phones
  /\ run = NoRun /\ told = [x \in Events \X Mobiles |-> 0] /\ ledger = {} /\ turns = 0

-----------------------------------------------------------------------------
(* Who is written to *)

ToPerson(p, e) == {[to |-> p, phone |-> phone[p], event |-> e]}

\* phones_for_roles and send_to_phones: numbers are compared as the gateway knows them.
Mutant_ToRoles(roles, e) ==
  {[to |-> r, phone |-> book[r], event |-> e] : r \in {r \in roles : book[r] # NoPhone}}
ToRoles(roles, e) ==
  LET entered == {r \in roles : book[r] # NoPhone}
      first(r) == CHOOSE s \in entered : book[s].number = book[r].number
  IN {[to |-> r, phone |-> book[r], event |-> e] : r \in {first(r) : r \in entered}}

\* The people a handler writes to first: the employee of an executed request, the
\* officer, the worker, the manager of the branch if there is one, the managers of
\* maintenance.
FirstTo(e, p, managed) ==
  CASE e \in {"executed", "settled"} -> ToPerson(p, "executed")
    [] e = "assigned" \/ (e = "closed" /\ managed)
         \/ (e = "worker" /\ phone[p] # NoPhone) -> ToPerson(p, e)
    [] e \in ToManagers -> UNION {ToPerson(m, e) : m \in Managers}
    [] OTHER -> {}

\* The numbers of the roles, after the people: for a broadcast; where the person had
\* no message (_send_to_user_or_role_fallback, notify_maintenance_manager_closed); and
\* for the managers of maintenance, unless one of them has just been written to at the
\* number of their role, which is looked up as typed among numbers in the gateway's form.
Addressed == {l.to : l \in {l \in run.rows : l.status # "skipped"}}
ManagersReached(role) ==
  /\ book[role] # NoPhone /\ book[role].form = "966"
  /\ \E p \in Managers \cap Addressed : phone[p].number = book[role].number
RolesOf ==
  LET e == run.event
  IN CASE e \in {"created", "settled"} -> IF on THEN {"system_admin", "hr_manager"} ELSE {}
       [] e = "pending_gm" -> IF on THEN {"hr_manager"} ELSE {}
       [] e = "assigned" -> IF Addressed = {} THEN {"hr_officer"} ELSE {}
       [] e = "closed" -> IF run.managed THEN {} ELSE {"branch_manager"}
       [] e \in ToManagers ->
            IF ManagersReached("maintenance_manager") THEN {} ELSE {"maintenance_manager"}
       [] OTHER -> {}

-----------------------------------------------------------------------------
(* The transaction *)

Turn == turns < MaxTurns /\ turns' = turns + 1
Ready == on /\ link = "ready"

\* The employee of an executed request is written to without a look at the setting of
\* the workflow, which is asked once more at sending.
Begin(e, p, managed) ==
  /\ run = NoRun /\ Turn
  /\ LET heeded == on \/ e \in {"executed", "settled"}
     IN run' = [event |-> e, about |-> p, managed |-> managed,
                rest |-> IF heeded THEN FirstTo(e, p, managed) ELSE {},
                stage |-> IF heeded THEN "people" ELSE "roles",
                rows |-> {}, whole |-> Ready, book |-> book]
  /\ told' = [x \in Events \X Mobiles |-> 0]
  /\ UNCHANGED <<on, link, book, phone, ledger>>
TurnToRoles ==
  /\ run # NoRun /\ run.stage = "people" /\ run.rest = {}
  /\ run' = [run EXCEPT !.stage = "roles", !.rest = ToRoles(RolesOf, run.event), !.book = book]
  /\ UNCHANGED <<on, link, book, phone, told, ledger, turns>>

Sent(m, status) ==
  run' = [run EXCEPT !.rest = @ \ {m},
            !.rows = @ \cup {[to |-> m.to, event |-> m.event, status |-> status]}]
Silent == UNCHANGED <<on, link, book, phone, ledger, turns>>

\* A row says that there is no number or, to the employee, no gateway; without a row
\* nothing is left of a message that is not sent.
Noted(m) ==
  \/ m.phone = NoPhone /\ (Ready \/ (m.event = "executed" /\ link # "off"))
  \/ m.event = "executed" /\ link = "unset"
Skip(m) ==
  /\ m \in run.rest /\ (m.phone = NoPhone \/ ~Ready)
  /\ IF Noted(m) THEN Sent(m, "skipped") ELSE run' = [run EXCEPT !.rest = @ \ {m}]
  /\ UNCHANGED told /\ Silent

\* One POST, never repeated.  An answer that is an error or does not come counts as
\* failed, whether the message went out or not.
Post(m, status) ==
  /\ m \in run.rest /\ m.phone # NoPhone /\ Ready
  /\ status \in {"sent", "failed"} /\ Sent(m, status)
  /\ told' = [told EXCEPT ![<<m.event, m.phone.number>>] = @ + 1]
  /\ Silent

Commit ==
  /\ run # NoRun /\ run.stage = "roles" /\ run.rest = {}
  /\ ledger' = run.rows /\ run' = NoRun
  /\ UNCHANGED <<on, link, book, phone, told, turns>>
\* Whatever fails after a message went out takes the request and the rows back.
RollBack ==
  /\ run # NoRun /\ run' = NoRun
  /\ UNCHANGED <<on, link, book, phone, told, ledger, turns>>

\* Saved by others meanwhile; every message asks anew.
StillReady == run' = IF run = NoRun THEN NoRun ELSE [run EXCEPT !.whole = @ /\ Ready']
SaveGateway(l) ==
  /\ link' = l /\ Turn /\ UNCHANGED <<on, book, phone, told, ledger>>
  /\ StillReady
SaveBook(s, b) ==
  /\ on' = s /\ book' = b /\ Turn /\ UNCHANGED <<link, phone, told, ledger>>
  /\ StillReady

MessagesNext ==
  \/ \E e \in Events, p \in People, managed \in BOOLEAN : Begin(e, p, managed)
  \/ /\ run # NoRun
     /\ \E m \in run.rest : Skip(m) \/ \E status \in Status : Post(m, status)
  \/ TurnToRoles \/ Commit \/ RollBack
  \/ \E l \in Links : SaveGateway(l)
  \/ \E s \in BOOLEAN, b \in Books : SaveBook(s, b)

MessagesSpec == MessagesInit /\ [][MessagesNext]_messageVars

-----------------------------------------------------------------------------
(* What should come of it *)

NumberOf(w) == IF w = NoPhone THEN {} ELSE {w.number}
AdminNumbers == NumberOf(run.book["system_admin"]) \cup NumberOf(run.book["hr_manager"])
Due ==
  LET e == run.event
      own == NumberOf(phone[run.about])
  IN CASE e = "created" -> {<<e, n>> : n \in AdminNumbers}
       [] e = "pending_gm" -> {<<e, n>> : n \in NumberOf(run.book["hr_manager"])}
       [] e = "settled" -> {<<e, n>> : n \in AdminNumbers} \cup {<<"executed", n>> : n \in own}
       [] e = "assigned" ->
            {<<e, n>> : n \in IF own # {} THEN own ELSE NumberOf(run.book["hr_officer"])}
       [] e \in {"executed", "worker"} -> {<<e, n>> : n \in own}
       [] e = "closed" -> {}
       [] e \in ToManagers ->
            {<<e, n>> : n \in NumberOf(run.book["maintenance_manager"])
                            \cup UNION {NumberOf(phone[p]) : p \in Managers}}
TypedOtherwise ==
  /\ run.event \in ToManagers
  /\ run.book["maintenance_manager"] # NoPhone
  /\ run.book["maintenance_manager"].form # "966"
  /\ \E p \in Managers : NumberOf(phone[p]) = NumberOf(run.book["maintenance_manager"])
SharedNumber ==
  /\ run.event \in ToManagers
  /\ \E p, q \in Managers : p # q /\ phone[p] # NoPhone /\ NumberOf(phone[p]) = NumberOf(phone[q])

(* However the numbers are typed, whoever stands for which role, and whatever *)
(* the gateway answers, a transaction writes to a number once at most for an  *)
(* event (but for managers with one number, and for the number of the         *)
(* maintenance role, which is looked up as it was typed); and if WhatsApp     *)
(* stayed ready, it has written to every number it has to reach               *)
(* (send_to_phones, phones_for_roles, _send_to_user_or_role_fallback,         *)
(* notify_maintenance_created).                                               *)
EveryoneToldOnce ==
  run # NoRun =>
    /\ TypedOtherwise \/ SharedNumber \/ \A x \in Events \X Mobiles : told[x] <= 1
    /\ run.stage = "roles" /\ run.rest = {} /\ run.whole => \A x \in Due : told[x] >= 1
=============================================================================
