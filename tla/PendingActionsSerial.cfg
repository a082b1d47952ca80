\* One worker serves the requests one after the other; two users, whose roles change,
\* and a superuser see them.
SPECIFICATION MCSpec
CONSTANTS
    a1 = a1
    a2 = a2
    e1 = e1
    e2 = e2
    boss = boss
    hr = hr
    eo = eo
    root = root
    p1 = p1
    p2 = p2
    p3 = p3
    Action = {a1, a2}
    Employee = {e1}
    User = {boss, eo}
    Manager = {boss}
    Admin = {boss}
    Superuser = {boss}
    EntryOfficer = {eo}
    Proc = {p1}
    LegacyRow = {a1}
    QueuedSettlements = TRUE
    MaxResubmit = 1
    Nobody = Nobody
    NoAction = NoAction
    NoEmployee = NoEmployee
    NoProc = NoProc
    Users = {root, boss, eo}
    Super = {root}
    BranchHeads = {boss}
    Grants <- MCGrants
    Movable = {boss, eo}
    MergeLimit = 1
    MaxRequests = 2
    Unassigned = Unassigned
INVARIANTS WorkIsSeen AtMostOneOpenSettlement
PROPERTIES TerminatedUntilReactivated
