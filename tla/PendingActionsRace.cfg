\* Two workers race on one request of one employee.
SPECIFICATION Spec
CONSTANTS
    a1 = a1
    a2 = a2
    e1 = e1
    e2 = e2
    boss = boss
    hr = hr
    eo = eo
    p1 = p1
    p2 = p2
    p3 = p3
    Action = {a1}
    Employee = {e1}
    User = {boss, hr, eo}
    Manager = {boss, hr}
    Admin = {boss}
    Superuser = {boss}
    EntryOfficer = {eo}
    Proc = {p1, p2}
    LegacyRow = {}
    QueuedSettlements = TRUE
    MaxResubmit = 1
    Nobody = Nobody
    NoAction = NoAction
    NoEmployee = NoEmployee
    NoProc = NoProc
SYMMETRY ProcSymmetry
INVARIANTS ReviewsAreFresh ExecutedExactlyOnce BoxesMatchStage
PROPERTIES KeepsPromise
