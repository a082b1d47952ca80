-------------------------------- MODULE MCPay --------------------------------
(* The pay of a month from three sides: who is in which run, what a line     *)
(* holds, and which runs the payroll page names; and                         *)
(* what is told of it all by telephone: the messages of the workflow, and    *)
(* the link to the gateway that sends them; and the contract and the bank    *)
(* details it is paid by.  Each behaviour is about one.                      *)
EXTENDS Transfers, PayrollLines, PayrollPage, WorkflowMessages, GatewayLink,
        ContractForm, TLC
CONSTANTS b1, b2, b3, k1, k2, p1, p2, u1, u2, s1, s2, n1, n2, n3,
          boss, vice, clerk, t1, t2, t3, i1, i2
VARIABLE part

MCCompanyOf == [b \in Branch |-> IF b = b3 THEN k2 ELSE k1]

\* u2 sees one of the two branches of a company; one employee is under s2.
MCFirmOf == [b \in Site |-> k1]
MCReach == [u \in Accountant |-> IF u = u1 THEN Site ELSE {p1}]
MCSiteOf == [e \in Payee |-> IF e = n2 THEN p2 ELSE p1]
MCSponsorOf == [e \in Payee |-> IF e = n3 THEN s2 ELSE s1]
MCQueries ==
  [sites : {{}, {p1}}, mode : {"", "transfer"}, sponsors : {{}, {s1}}, explicit : {TRUE}]
  \cup [sites : {{}}, mode : {"", "cash"}, sponsors : {{}}, explicit : {FALSE}]

MCSymmetry == Permutations({b1, b2})

\* One number stands for both administrators, typed alike or not; the managers of
\* maintenance may be at the number of their role, or both at one.
Typed(n, form) == [number |-> n, form |-> form]
MCBooks ==
  {[r \in RoleKeys |-> CASE r = "system_admin" -> Typed(t1, "05") [] r = "hr_manager" -> Typed(t1, f)
      [] OTHER -> w] : f \in {"05", "966"}, w \in {NoPhone, Typed(t1, "05"), Typed(t2, "966")}}
MCPhones ==
  {[p \in People |-> CASE p = boss -> x[1] [] p = vice -> x[2] [] p = clerk -> x[3]] :
     x \in {<<NoPhone, NoPhone, Typed(t3, "966")>>, <<Typed(t2, "05"), NoPhone, NoPhone>>,
            <<Typed(t2, "05"), Typed(t2, "966"), NoPhone>>}}

\* The gateway's page: the other instance, a wrong key, the webhooks switched off.
MCForms ==
  {[name |-> n, key |-> "right", hook |-> TRUE] : n \in Names}
  \cup {[name |-> i1, key |-> "wrong", hook |-> TRUE], [name |-> i1, key |-> "right", hook |-> FALSE]}
GatewayInUse ==
  /\ setup = [name |-> i1, key |-> "right", hook |-> TRUE, status |-> "close", code |-> FALSE]
  /\ gate = [n \in Names |-> IF n = i1 THEN "close" ELSE "absent"]
  /\ hooked = [n \in Names |-> n = i1]
  /\ posts = <<>> /\ job = [a \in Admins |-> NoJob] /\ heard = TRUE /\ spent = 0

\* Contracts of three kinds, with a duration left blank and one of 0, and dates in and
\* out of order; bank details whole or not.
File(n, h, k, t, d) ==
  [nationality |-> n, hired |-> h, kind |-> k, months |-> t[1], text |-> t[2], start |-> d[1],
   expiry |-> d[2], sponsor |-> TRUE, bank |-> BankParts, gosi |-> TRUE]
MCPosted ==
  {File(n, h, k, t, d) : n \in Nationalities, h \in {0, 1}, k \in ContractType,
     t \in {<<-1, FALSE>>, <<0, FALSE>>, <<1, FALSE>>, <<2, TRUE>>}, d \in {<<0, 0>>, <<3, 0>>, <<3, 2>>}}
  \cup {[File(n, 1, "fixed", <<1, TRUE>>, <<0, 0>>) EXCEPT !.sponsor = s, !.bank = b, !.gosi = s] :
          n \in {"saudi", "other"}, s \in BOOLEAN, b \in SUBSET BankParts}
NoContract ==
  request = NoFile /\ employee = NoFile /\ year = 1 /\ decided = 0 /\ sponsored = FALSE

SomeStart == [e \in Staff |-> b1]
NoTransfers == TransfersInit /\ branchOf = SomeStart
NoLines ==
  /\ LinesInit /\ length = 31
  /\ worker = CHOOSE w \in Worker : TRUE
  /\ charges = CHOOSE c \in Charges : TRUE

NoMessages ==
  /\ MessagesInit /\ ~on
  /\ book = CHOOSE b \in Books : TRUE
  /\ phone = CHOOSE p \in Phones : TRUE

MCInit ==
  /\ part \in {"transfers", "lines", "page", "messages", "gateway", "contract"}
  /\ PageInit
  /\ IF part = "transfers" THEN TransfersInit ELSE NoTransfers
  /\ IF part = "lines" THEN LinesInit ELSE NoLines
  /\ IF part = "messages" THEN MessagesInit ELSE NoMessages
  /\ GatewayInUse \/ (part = "gateway" /\ GatewayInit)
  /\ IF part = "contract" THEN ContractInit ELSE NoContract
MCNext ==
  /\ UNCHANGED part
  /\ \/ part = "transfers" /\ TransfersNext
     \/ part # "transfers" /\ UNCHANGED payVars
  /\ \/ part = "lines" /\ LinesNext
     \/ part # "lines" /\ UNCHANGED lineVars
  /\ \/ part = "page" /\ PageNext
     \/ part # "page" /\ UNCHANGED pageVars
  /\ \/ part = "messages" /\ MessagesNext
     \/ part # "messages" /\ UNCHANGED messageVars
  /\ \/ part = "gateway" /\ GatewayNext
     \/ part # "gateway" /\ UNCHANGED gatewayVars
  /\ \/ part = "contract" /\ ContractNext
     \/ part # "contract" /\ UNCHANGED contractVars
MCVars == <<payVars, lineVars, pageVars, messageVars, gatewayVars, contractVars, part>>
MCSpec == MCInit /\ [][MCNext]_MCVars
=============================================================================
