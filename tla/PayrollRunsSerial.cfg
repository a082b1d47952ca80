\* One worker: requests are served one after the other.
SPECIFICATION MCSpec
CONSTANTS
    r1 = r1
    r2 = r2
    c1 = c1
    c2 = c2
    branch = branch
    company = company
    e1 = e1
    e2 = e2
    i1 = i1
    i2 = i2
    p1 = p1
    p2 = p2
    Run = {r1, c1, c2}
    Key = {branch, company}
    KeyOf <- MCKeyOf
    Consolidated = {company}
    UniqueKey = {branch, company}
    Members <- MCMembers
    PurgedBy <- MCPurgedBy
    Employee = {e1, e2}
    Item = {i1, i2}
    OwnerOf <- MCOwnerOf
    Installment = {i2}
    Proc = {p1}
    NoRun = NoRun
    NoEmployee = NoEmployee
    NoItem = NoItem
    NoProc = NoProc
    Hires <- MCHires
    Salary = 10001
    LastYear = 14
INVARIANTS LockedChargesBound LockedTotalsOfLines
PROPERTIES KeepsPayrollPromise DuesNeverShrink
\* The years of the dues come to an end.
CHECK_DEADLOCK FALSE
