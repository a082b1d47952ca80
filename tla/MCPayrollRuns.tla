--------------------------- MODULE MCPayrollRuns ---------------------------
(***************************************************************************)
(* Instances of PayrollRuns: a standard run of one branch and the          *)
(* consolidated run of its company, two rows each at most.                 *)
(***************************************************************************)
EXTENDS PayrollRuns, TLC

CONSTANTS r1, r2, c1, c2, branch, company, e1, e2, i1, i2, p1, p2

MCKeyOf == [r \in Run |-> IF r \in {c1, c2} THEN company ELSE branch]

\* The company has one employee outside the branch.
MCMembers == [k \in Key |-> IF k = branch THEN {e1} ELSE Employee]

MCPurgedBy == [k \in Key |-> IF k = company THEN {branch} \cap Key ELSE {}]

MCOwnerOf == [i \in Item |-> e1]

ProcSymmetry == Permutations(Proc)
=============================================================================
