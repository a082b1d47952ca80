\* Two workers on a standard and a consolidated run of the same month.
SPECIFICATION Spec
CONSTANTS
    r1 = r1
    r2 = r2
    c1 = c1
    c2 = c2
    branch = branch
    company = company
    e1 = e1
    e2 = e2
    i1 = i1
    i2 = i2
    p1 = p1
    p2 = p2
    Run = {r1, c1, c2}
    Key = {branch, company}
    KeyOf <- MCKeyOf
    Consolidated = {company}
    UniqueKey = {branch, company}
    Members <- MCMembers
    PurgedBy <- MCPurgedBy
    Employee = {e1}
    Item = {i1}
    OwnerOf <- MCOwnerOf
    Installment = {}
    Proc = {p1, p2}
    NoRun = NoRun
    NoEmployee = NoEmployee
    NoItem = NoItem
    NoProc = NoProc
SYMMETRY ProcSymmetry
INVARIANTS BoundToLocked LockedIsVisible
