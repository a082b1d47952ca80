\* Two devices, users and employees, one request at a time;
\* one device, two pulls by two workers.
SPECIFICATION MCSpec
CONSTANTS
  Ids = {g1, g2}
  Numbers = {n1, n2}
  Employees = {e1, e2}
  Branches = {b1}
  Keys = {k1, k2}
  Hands = {h1}
  OneHand = TRUE
  Absent = Absent
  MaxStored = 2
  Pullers = {s1, s2}
  Spans <- MCSpans
  Margin = 1
  Restarts = FALSE
  Whole = Whole
  MaxClock = 1
  MaxRecords = 3
  MaxPulls = 2
SYMMETRY MCSymmetry
INVARIANTS OneNumberEach PunchesFollowLinks PulledIsStored
CHECK_DEADLOCK FALSE
