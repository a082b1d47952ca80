\* Two runs that charge the same item are locked at the same time.
SPECIFICATION Spec
CONSTANTS
    r1 = r1
    r2 = r2
    c1 = c1
    c2 = c2
    branch = branch
    company = company
    e1 = e1
    e2 = e2
    i1 = i1
    i2 = i2
    p1 = p1
    p2 = p2
    Run = {r1, c1}
    Key = {branch, company}
    KeyOf <- MCKeyOf
    Consolidated = {company}
    UniqueKey = {branch, company}
    Members <- MCMembers
    PurgedBy <- MCPurgedBy
    Employee = {e1, e2}
    Item = {i1}
    OwnerOf <- MCOwnerOf
    Installment = {}
    Proc = {p1, p2}
    NoRun = NoRun
    NoEmployee = NoEmployee
    NoItem = NoItem
    NoProc = NoProc
SYMMETRY ProcSymmetry
INVARIANT ChargedOnce
