\* Two workers settle the same employee.
SPECIFICATION Spec
CONSTANTS
    a1 = a1
    a2 = a2
    e1 = e1
    e2 = e2
    boss = boss
    hr = hr
    eo = eo
    p1 = p1
    p2 = p2
    p3 = p3
    Action = {a1, a2}
    Employee = {e1}
    User = {boss, eo}
    Manager = {boss}
    Admin = {boss}
    Superuser = {boss}
    EntryOfficer = {eo}
    Proc = {p1, p2}
    LegacyRow = {}
    QueuedSettlements = FALSE
    MaxResubmit = 0
    Nobody = Nobody
    NoAction = NoAction
    NoEmployee = NoEmployee
    NoProc = NoProc
PROPERTIES SettlesOnlyEmployed
