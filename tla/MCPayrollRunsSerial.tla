--------------------------- MODULE MCPayrollRunsSerial ---------------------------
(***************************************************************************)
(* Instances of PayrollRunsSerial, as in MCPayrollRuns.  In other          *)
(* behaviours no run is built, and what is owed on leaving (Entitlements)  *)
(* grows from day to day, as a settlement would pay it.                    *)
(***************************************************************************)
EXTENDS PayrollRunsSerial, Entitlements

CONSTANTS r1, r2, c1, c2, branch, company, e1, e2, i1, i2, p1, p2
VARIABLE part

MCKeyOf == [r \in Run |-> IF r \in {c1, c2} THEN company ELSE branch]

\* The company has one employee outside the branch.
MCMembers == [k \in Key |-> IF k = branch THEN {e1} ELSE Employee]

MCPurgedBy == [k \in Key |-> IF k = company THEN {branch} \cap Key ELSE {}]

MCOwnerOf == [i \in Item |-> e1]

MCHires == {[y |-> 3, m |-> 1, d |-> 1], [y |-> 3, m |-> 1, d |-> 31],
            [y |-> 4, m |-> 2, d |-> 29], [y |-> 3, m |-> 12, d |-> 30]}

MCInit ==
  /\ part \in {"runs", "dues"}
  /\ Init /\ EntitlementsInit
  /\ part # "dues" => hire = CHOOSE h \in Hires : TRUE
MCNext ==
  /\ UNCHANGED part
  /\ \/ part = "runs" /\ Next
     \/ part # "runs" /\ UNCHANGED vars
  /\ \/ part = "dues" /\ NextDay
     \/ part # "dues" /\ UNCHANGED dueVars
MCSpec == MCInit /\ [][MCNext]_<<vars, dueVars, part>>
=============================================================================
