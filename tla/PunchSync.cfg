SPECIFICATION FairSpec
CONSTANTS
  Users = {u1}
  Posts = {p1, p2}
  Ranges <- MCRanges
  Buffer = 1
  Batch = 1
  Recent = 1
  Year = 2
  Polls = TRUE
  None = None
  MaxTime = 2
  MaxPunches = 3
  MaxAsks = 1
  MaxFaults = 1
INVARIANTS NothingMissed
PROPERTY RequestsClosed
CHECK_DEADLOCK FALSE
