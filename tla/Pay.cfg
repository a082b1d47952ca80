SPECIFICATION MCSpec
CONSTANTS
  Staff = {e1}
  b1 = b1
  b2 = b2
  b3 = b3
  k1 = k1
  k2 = k2
  Branch = {b1, b2, b3}
  CompanyOf <- MCCompanyOf
  MonthLength = 2
  LastDay = 3
  BackDated = TRUE
  MaxMoves = 2
  NoPay = NoPay
  Lengths = {28, 31}
  Basics = {100055}
  Others = {0, 33335}
  Rates = {10, 105}
  AbsentDays = {0, 31}
  Dues = {0, 500000}
  Starts = {0, 15, 31}
  Ends = {14, 40}
  NoLine = NoLine
  p1 = p1
  p2 = p2
  u1 = u1
  u2 = u2
  s1 = s1
  s2 = s2
  n1 = n1
  n2 = n2
  n3 = n3
  Site = {p1, p2}
  FirmOf <- MCFirmOf
  Accountant = {u1, u2}
  Reach <- MCReach
  Superuser = {u1}
  Sponsor = {s1, s2}
  NoSponsor = NoSponsor
  Payee = {n1, n2, n3}
  SiteOf <- MCSiteOf
  SponsorOf <- MCSponsorOf
  Queries <- MCQueries
  Nil = Nil
  boss = boss
  vice = vice
  clerk = clerk
  t1 = t1
  t2 = t2
  t3 = t3
  i1 = i1
  i2 = i2
  People = {boss, vice, clerk}
  Managers = {boss, vice}
  Mobiles = {t1, t2, t3}
  Books <- MCBooks
  Phones <- MCPhones
  NoPhone = NoPhone
  NoRun = NoRun
  MaxTurns = 2
  Names = {i1, i2}
  Admins = {a1}
  Forms <- MCForms
  NoJob = NoJob
  MaxEvents = 4
  BankParts = {"bank", "iban"}
  Posted <- MCPosted
  Horizon = 5
  NoFile = NoFile
INVARIANTS PaidInOneRun PayFollowsDays
  EveryoneToldOnce StatusIsLatest ContractIsLawful
PROPERTY SweepLosesNobody
SYMMETRY MCSymmetry
CHECK_DEADLOCK FALSE
