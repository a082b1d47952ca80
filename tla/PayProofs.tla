------------------------------ MODULE PayProofs ------------------------------
(* Of the pay of a month and of what is told of it, for every number of       *)
(* employees, branches, runs, pages and messages:                             *)
(*   Transfers         MonthIsPaidInOneRun   nobody falls between two runs     *)
(*   PayrollLines      PayFollowsTheDays     more days never earn less         *)
(*   PayrollPage       NobodyIsSwept         a build drops nobody from a run   *)
(*   WorkflowMessages  EveryoneIsToldOnce    everybody is told, nobody twice   *)
(*   GatewayLink       StatusShownIsLatest   the gateway's status is not stale *)
(*   ContractForm      ContractsAreLawful    what was agreed stays lawful      *)
(* Each part states its inductive invariant, proves that the steps keep it    *)
(* one by one, and ends in its theorem.                                       *)
EXTENDS Transfers, PayrollLines, PayrollPage, WorkflowMessages, GatewayLink,
        ContractForm, WellFoundedInduction, TLAPS

(***************************************************************************)
(* Transfers: nobody falls between the runs of a month, and fresh runs     *)
(* share nobody.                                                           *)
(***************************************************************************)

LEMMA LeastExists ==
  ASSUME NEW S \in SUBSET Nat, S # {}
  PROVE  \E x \in S : \A y \in S : x <= y
<1> DEFINE Less == {ss \in Nat \X Nat : ss[1] < ss[2]}
<1>1. IsWellFoundedOn(Less, Nat)
  BY NatLessThanWellFounded DEF OpToRel
<1>2. \E x \in S : \A y \in S : ~(<<y, x>> \in Less)
  <2> HIDE DEF Less
  <2> QED
    BY <1>1, WFMin
<1>3. PICK x \in S : \A y \in S : ~(<<y, x>> \in Less)
  BY <1>2
<1>4. ASSUME NEW y \in S PROVE x <= y
  <2>1. ~(<<y, x>> \in Less)
    BY <1>3
  <2> QED
    BY <2>1
<1> QED
  BY <1>4

LEMMA GreatestExists ==
  ASSUME NEW n \in Nat, NEW S \in SUBSET (0..n), S # {}
  PROVE  \E x \in S : \A y \in S : y <= x
<1> DEFINE T == {n - y : y \in S}
<1>1. T \in SUBSET Nat /\ T # {}
  <2>1. T \in SUBSET Nat
    OBVIOUS
  <2>2. T # {}
    OBVIOUS
  <2> QED
    BY <2>1, <2>2
<1>2. PICK t \in T : \A y \in T : t <= y
  BY <1>1, LeastExists
<1>3. PICK x \in S : t = n - x
  OBVIOUS
<1>4. ASSUME NEW y \in S PROVE y <= x
  <2>1. n - y \in T
    OBVIOUS
  <2>2. n - x <= n - y
    BY <1>2, <1>3, <2>1
  <2> QED
    BY <2>2
<1> QED
  BY <1>4

(* A transfer leads to another branch.                                        *)
MovesLeadAway ==
  /\ branchOf \in [Staff -> Branch]
  /\ moves \in Seq(Move) /\ \A i \in DOMAIN moves : moves[i].from # moves[i].to

(* What a run was built without: the lines of every other locked run, as long *)
(* as it is fresh.                                                            *)
IsFresh(r) == r # NoPay /\ r.fresh
FreshShareNobody ==
  /\ DOMAIN standard = Branch
  /\ \A b \in Branch : standard[b] # NoPay => standard[b] \in StandardRun
  /\ \A a, b \in Branch :
       (/\ a # b /\ IsLocked(standard[a]) /\ IsFresh(standard[b])
        /\ IsDraft(standard[b]) \/ standard[a].fresh)
       => standard[a].lines \cap standard[b].lines = {}

LEMMA LastMoveIsMove ==
  ASSUME MovesLeadAway, NEW e \in Staff, LastMove(e) # NoPay
  PROVE  LastMove(e) \in Move /\ LastMove(e).from # LastMove(e).to
<1> DEFINE M == MonthMoves(e)
           D == {moves[i].date : i \in M}
<1>1. M # {} /\ M \subseteq DOMAIN moves
  BY DEF LastMove, MonthMoves
<1>2. /\ \A i \in DOMAIN moves : moves[i] \in Move /\ moves[i].from # moves[i].to
      /\ DOMAIN moves = 1..Len(moves) /\ Len(moves) \in Nat /\ LastDay \in Nat
  BY TransfersAssumption DEF MovesLeadAway
<1>3. \A i \in M : moves[i].date \in 1..LastDay
  BY <1>1, <1>2 DEF Move
<1>4. D \in SUBSET (0..LastDay) /\ D # {}
  <2> HIDE DEF M
  <2> QED
    BY <1>1, <1>2, <1>3
<1>5. PICK d \in D : \A x \in D : x <= d
  BY <1>2, <1>4, GreatestExists
<1> DEFINE J == {i \in M : moves[i].date = d}
<1>6. J \in SUBSET (0..Len(moves)) /\ J # {}
  <2> HIDE DEF M
  <2> QED
    BY <1>1, <1>2, <1>5
<1>7. PICK i \in J : \A j \in J : j <= i
  BY <1>2, <1>6, GreatestExists
<1>8. ASSUME NEW j \in M
      PROVE  \/ moves[j].date < moves[i].date
             \/ moves[j].date = moves[i].date /\ j <= i
  <2> HIDE DEF M
  <2>1. moves[j].date <= d /\ moves[i].date = d
    BY <1>5, <1>7
  <2>2. moves[j].date \in Nat /\ d \in Nat
    BY <1>3, <1>4
  <2>3. moves[j].date = d => j <= i
    BY <1>7
  <2> QED
    BY <2>1, <2>2, <2>3
<1>9. LastMove(e) = moves[CHOOSE x \in M : \A j \in M :
                 \/ moves[j].date < moves[x].date
                 \/ moves[j].date = moves[x].date /\ j <= x]
  BY <1>1 DEF LastMove
<1>10. \E x \in M : LastMove(e) = moves[x]
  <2> HIDE DEF M
  <2>1. i \in M
    OBVIOUS
  <2> QED
    BY <1>8, <1>9, <2>1
<1> QED
  BY <1>1, <1>2, <1>10

(* Everybody is in a branch's list: in that of the last move's, or of his own.*)
LEMMA SomeBranchPays ==
  ASSUME MovesLeadAway, NEW e \in Staff \ settled,
         LastMove(e) = NoPay \/ CompanyOf[LastMove(e).to] = CompanyOf[branchOf[e]]
  PROVE  \E b \in Branch : e \in InBranch(b)
<1>1. CASE LastMove(e) = NoPay
  <2>1. e \in InBranch(branchOf[e])
    BY <1>1 DEF InBranch, Moved
  <2> QED
    BY <2>1 DEF MovesLeadAway
<1>2. CASE LastMove(e) # NoPay
  <2>1. LastMove(e).to \in Branch /\ LastMove(e).from # LastMove(e).to
    BY <1>2, LastMoveIsMove DEF Move
  <2>2. Moved(e, CompanyOf[LastMove(e).to])
    BY <1>2 DEF Moved
  <2>3. e \in InBranch(LastMove(e).to)
    BY <2>1, <2>2 DEF InBranch
  <2> QED
    BY <2>1, <2>3
<1> QED
  BY <1>1, <1>2

LEMMA MovesStep ==
  ASSUME MovesLeadAway, day \in 1..LastDay, [TransfersNext]_payVars
  PROVE  MovesLeadAway' /\ day' \in 1..LastDay
<1>0. LastDay \in Nat
  BY TransfersAssumption
<1>1. CASE UNCHANGED <<branchOf, moves, day>>
  BY <1>1 DEF MovesLeadAway
<1>2. CASE DayPasses
  BY <1>0, <1>2 DEF DayPasses, MovesLeadAway
<1>3. ASSUME NEW e \in Staff, NEW to \in Branch, NEW date \in 1..LastDay, Transfer(e, to, date)
      PROVE  MovesLeadAway' /\ day' \in 1..LastDay
  <2> DEFINE m == [emp |-> e, date |-> date, from |-> branchOf[e], to |-> to]
  <2>1. m \in Move /\ m.from # m.to
    BY <1>3 DEF Move, Transfer, MovesLeadAway
  <2>2. moves' = Append(moves, m) /\ moves \in Seq(Move)
    BY <1>3 DEF Transfer, MovesLeadAway
  <2> HIDE DEF m
  <2>3. /\ moves' \in Seq(Move)
        /\ \A i \in DOMAIN moves' : (i \in DOMAIN moves /\ moves'[i] = moves[i]) \/ moves'[i] = m
    BY <2>1, <2>2
  <2> QED
    BY <1>3, <2>1, <2>3 DEF Transfer, MovesLeadAway
<1> QED
  BY <1>1, <1>2, <1>3 DEF TransfersNext, Settle, BuildStandard, LockStandard, UnlockStandard,
     DiscardStandard, BuildDetailed, LockDetailed, UnlockDetailed, payVars

LEMMA FreshStep ==
  ASSUME FreshShareNobody, [TransfersNext]_payVars
  PROVE  FreshShareNobody'
<1> USE DEF FreshShareNobody
<1>1. CASE UNCHANGED standard
  BY <1>1
<1>2. \A b \in Branch : IsLocked(standard[b]) \/ IsDraft(standard[b]) =>
        standard[b] # NoPay /\ standard[b] \in StandardRun
  BY DEF IsLocked, IsDraft
<1>3. ASSUME NEW e \in Staff, Settle(e) PROVE FreshShareNobody'
  <2>1. standard' = [b \in Branch |->
          IF IsDraft(standard[b]) THEN [standard[b] EXCEPT !.lines = @ \ {e}] ELSE standard[b]]
    BY <1>3 DEF Settle
  <2>2. ASSUME NEW b \in Branch
        PROVE  /\ standard'[b] # NoPay => standard'[b] \in StandardRun
               /\ IsLocked(standard'[b]) => IsLocked(standard[b])
               /\ IsDraft(standard'[b]) => IsDraft(standard[b])
               /\ IsFresh(standard'[b]) => IsFresh(standard[b])
               /\ standard'[b] # NoPay => /\ standard'[b].lines \subseteq standard[b].lines
                                          /\ standard'[b].fresh = standard[b].fresh
    BY <1>2, <2>1 DEF IsLocked, IsDraft, IsFresh, StandardRun
  <2>3. \A b \in Branch : IsLocked(standard'[b]) => standard'[b] # NoPay
    BY DEF IsLocked
  <2>4. \A b \in Branch : IsFresh(standard'[b]) => standard'[b] # NoPay
    BY DEF IsFresh
  <2> QED
    BY <2>1, <2>2, <2>3, <2>4
<1>4. ASSUME NEW b \in Branch, BuildStandard(b) PROVE FreshShareNobody'
  <2> DEFINE built == [locked |-> FALSE, lines |-> InBranch(b) \ LockedElsewhere(b), fresh |-> TRUE]
  <2>1. standard' = [standard EXCEPT ![b] = built]
    BY <1>4 DEF BuildStandard
  <2>2. /\ built \in StandardRun /\ built.lines \cap LockedElsewhere(b) = {} /\ ~built.locked
    BY DEF StandardRun, InBranch
  <2>3. \A a \in Branch \ {b} : IsLocked(standard[a]) => standard[a].lines \subseteq LockedElsewhere(b)
    BY DEF LockedElsewhere
  <2>4. standard'[b] = built /\ \A a \in Branch \ {b} : standard'[a] = standard[a]
    BY <2>1
  <2>5. ~IsLocked(standard'[b]) /\ DOMAIN standard' = Branch
    BY <2>1, <2>2, <2>4 DEF IsLocked
  <2> HIDE DEF built
  <2>6. ASSUME NEW a \in Branch, NEW c \in Branch, a # c, IsLocked(standard'[a]), IsFresh(standard'[c]),
               IsDraft(standard'[c]) \/ standard'[a].fresh
        PROVE  standard'[a].lines \cap standard'[c].lines = {}
    <3>1. a # b /\ IsLocked(standard[a]) /\ standard'[a] = standard[a]
      BY <2>4, <2>5, <2>6
    <3>2. CASE c = b
      BY <2>2, <2>3, <2>4, <3>1, <3>2
    <3>3. CASE c # b
      BY <2>4, <2>6, <3>1, <3>3
    <3> QED
      BY <3>2, <3>3
  <2> QED
    BY <2>2, <2>4, <2>5, <2>6
<1>5. ASSUME NEW b \in Branch, LockStandard(b) PROVE FreshShareNobody'
  <2>1. standard' = [o \in Branch |->
          IF o = b THEN [standard[b] EXCEPT !.locked = TRUE]
          ELSE IF IsDraft(standard[o])
               THEN [standard[o] EXCEPT !.fresh = FALSE] ELSE standard[o]]
        /\ IsDraft(standard[b])
    BY <1>5 DEF LockStandard
  <2>2. standard[b] # NoPay /\ standard[b] \in StandardRun
    BY <1>2, <2>1
  <2>3. /\ standard'[b] \in StandardRun
        /\ standard'[b].lines = standard[b].lines /\ standard'[b].fresh = standard[b].fresh
    BY <2>1, <2>2 DEF StandardRun
  <2>4. ASSUME NEW o \in Branch \ {b}
        PROVE  \/ standard'[o] = standard[o] /\ ~IsDraft(standard[o])
               \/ standard'[o] \in StandardRun /\ ~standard'[o].fresh /\ ~standard'[o].locked
    BY <1>2, <2>1 DEF StandardRun, IsDraft
  <2>5. ~IsDraft(standard'[b])
    BY <2>1, <2>2 DEF StandardRun, IsDraft
  <2>6. ASSUME NEW a \in Branch, NEW c \in Branch, a # c, IsLocked(standard'[a]), IsFresh(standard'[c]),
               IsDraft(standard'[c]) \/ standard'[a].fresh
        PROVE  standard'[a].lines \cap standard'[c].lines = {}
    <3>1. c # b => standard'[c] = standard[c] /\ ~IsDraft(standard[c]) /\ IsLocked(standard[c])
      BY <2>4, <2>6 DEF IsFresh, IsLocked, IsDraft
    <3>2. a # b => standard'[a] = standard[a] /\ IsLocked(standard[a])
      BY <2>4, <2>6 DEF IsLocked, IsDraft
    <3>3. standard'[a].fresh
      BY <2>5, <2>6, <3>1
    <3>4. CASE a = b
      <4>1. IsFresh(standard[b]) /\ IsLocked(standard[c]) /\ IsDraft(standard[b])
        BY <2>1, <2>2, <2>3, <3>1, <3>3, <3>4, <2>6 DEF IsFresh
      <4>2. standard[c].lines \cap standard[b].lines = {}
        BY <2>6, <3>4, <4>1
      <4> QED
        BY <2>3, <2>6, <3>1, <3>4, <4>2
    <3>5. CASE c = b
      <4>1. IsFresh(standard[b]) /\ IsLocked(standard[a]) /\ IsDraft(standard[b])
        BY <2>1, <2>2, <2>3, <3>2, <3>5, <2>6 DEF IsFresh
      <4>2. standard[a].lines \cap standard[b].lines = {}
        BY <2>6, <3>5, <4>1
      <4> QED
        BY <2>3, <2>6, <3>2, <3>5, <4>2
    <3>6. CASE a # b /\ c # b
      BY <2>6, <3>1, <3>2, <3>3, <3>6
    <3> QED
      BY <3>4, <3>5, <3>6
  <2>7. \A o \in Branch : standard'[o] # NoPay => standard'[o] \in StandardRun
    BY <2>3, <2>4
  <2> QED
    BY <2>1, <2>6, <2>7
<1>6. ASSUME NEW b \in Branch, DOMAIN standard' = Branch,
             \A a \in Branch \ {b} : standard'[a] = standard[a],
             standard'[b] = NoPay \/ (standard'[b] \in StandardRun /\ ~standard'[b].fresh /\ ~standard'[b].locked)
      PROVE  FreshShareNobody'
  BY <1>6 DEF IsLocked, IsFresh
<1>7. ASSUME NEW b \in Branch, UnlockStandard(b) PROVE FreshShareNobody'
  <2>1. standard[b] \in StandardRun
    BY <1>2, <1>7 DEF UnlockStandard
  <2>2. standard'[b] = [standard[b] EXCEPT !.locked = FALSE, !.fresh = FALSE]
    BY <1>7 DEF UnlockStandard
  <2>3. standard'[b] \in StandardRun /\ ~standard'[b].fresh /\ ~standard'[b].locked
    BY <2>1, <2>2 DEF StandardRun
  <2> QED
    BY <1>6, <1>7, <2>3 DEF UnlockStandard
<1>8. ASSUME NEW b \in Branch, DiscardStandard(b) PROVE FreshShareNobody'
  BY <1>6, <1>8 DEF DiscardStandard
<1>9. ASSUME NEW c \in Company, BuildDetailed(c) PROVE FreshShareNobody'
  <2> DEFINE empty == [locked |-> FALSE, lines |-> {}, fresh |-> FALSE]
  <2>1. PICK opened :
          standard' = [b \in Branch |-> IF standard[b] = NoPay /\ b \in opened THEN empty ELSE standard[b]]
    BY <1>9 DEF BuildDetailed
  <2>2. empty \in StandardRun /\ ~empty.fresh /\ ~empty.locked
    BY DEF StandardRun
  <2> HIDE DEF empty
  <2>3. \A b \in Branch : standard'[b] = standard[b] \/ standard'[b] = empty
    BY <2>1
  <2> QED
    BY <2>1, <2>2, <2>3 DEF IsLocked, IsFresh
<1> QED
  BY <1>1, <1>3, <1>4, <1>5, <1>7, <1>8, <1>9 DEF TransfersNext, DayPasses, Transfer, LockDetailed,
     UnlockDetailed, payVars

(* Nobody falls between the runs of a month and nobody is in two of them:     *)
(* some branch pays each employee unless its last move of the month crosses   *)
(* companies, and two locked runs share one only if either was locked as it   *)
(* had been built before the other's lock                                     *)
(* (employees_queryset_for_branch_payroll, build_payroll_run).                *)
THEOREM MonthIsPaidInOneRun == TransfersSpec => []PaidInOneRun
<1> DEFINE Inv == MovesLeadAway /\ day \in 1..LastDay /\ FreshShareNobody
<1>1. TransfersInit => Inv
  <2> SUFFICES ASSUME TransfersInit PROVE Inv
    OBVIOUS
  <2>1. moves = <<>> /\ moves \in Seq(Move) /\ DOMAIN moves = {}
    BY DEF TransfersInit
  <2>2. day \in 1..LastDay
    BY TransfersAssumption DEF TransfersInit
  <2> QED
    BY <2>1, <2>2 DEF TransfersInit, MovesLeadAway, FreshShareNobody, IsFresh
<1>2. Inv /\ [TransfersNext]_payVars => Inv'
  BY MovesStep, FreshStep
<1>3. Inv => PaidInOneRun
  <2> SUFFICES ASSUME Inv PROVE PaidInOneRun
    OBVIOUS
  <2>1. \A e \in Staff \ settled :
          (LastMove(e) = NoPay \/ CompanyOf[LastMove(e).to] = CompanyOf[branchOf[e]])
          => \E b \in Branch : e \in InBranch(b)
    BY SomeBranchPays
  <2>2. \A b \in Branch : IsLocked(standard[b]) /\ standard[b].fresh => IsFresh(standard[b])
    BY DEF IsLocked, IsFresh
  <2> QED
    BY <2>1, <2>2 DEF FreshShareNobody, PaidInOneRun
<1> QED
  BY <1>1, <1>2, <1>3, PTL DEF TransfersSpec

(***************************************************************************)
(* PayrollPage: a consolidated build loses nobody.                         *)
(***************************************************************************)

(* Whom a run may hold: employees of its branch or company, under its         *)
(* sponsorship.                                                               *)
Belongs(e, k, s) ==
  /\ e \in Payee /\ SponsorOf[e] = s
  /\ k \in BranchKey => SiteOf[e] = k[1]
  /\ k \in FirmKey => FirmOf[SiteOf[e]] = k[1] /\ k[2] = s

SheetsHoldTheirOwn ==
  /\ sheet \in [Keys -> Sheet \cup {Nil}]
  /\ \A k \in Keys : Kept(k) => \A e \in sheet[k].staff : Belongs(e, k, sheet[k].sponsor)

LEMMA KeysDiffer == BranchKey \cap FirmKey = {} /\ \A k \in FirmKey : k = <<k[1], k[2]>>
BY PageAssumption DEF BranchKey, FirmKey

LEMMA DraftIsSheet ==
  ASSUME NEW k \in Keys, NEW sites \in SUBSET Site, NEW s \in Sponsor \cup {NoSponsor}
  PROVE  /\ Draft(k, sites, s) \in Sheet /\ Draft(k, sites, s) # Nil
         /\ Draft(k, sites, s).sponsor = s /\ Draft(k, sites, s).staff = Members(k, sites, s)
         /\ \A e \in Draft(k, sites, s).staff : e \in Payee /\ SiteOf[e] \in sites /\ SponsorOf[e] = s
<1>1. \A e \in Members(k, sites, s) : e \in Payee /\ SiteOf[e] \in sites /\ SponsorOf[e] = s
  BY DEF Members
<1> DEFINE staff == Members(k, sites, s)
<1>2. staff \in SUBSET Payee
  BY <1>1
<1>3. Draft(k, sites, s) = [locked |-> FALSE, sponsor |-> s, staff |-> staff]
  BY DEF Draft
<1> HIDE DEF staff
<1>4. Draft(k, sites, s) \in Sheet
  BY <1>2, <1>3 DEF Sheet
<1>5. Draft(k, sites, s) # Nil
  BY <1>4, PageAssumption
<1> QED
  BY <1>1, <1>3, <1>4, <1>5 DEF staff

LEMMA FirmsAreBuilt ==
  ASSUME SheetsHoldTheirOwn, NEW sites \in SUBSET Site, NEW sponsors \in SUBSET (Sponsor \cup {NoSponsor}),
         BuildFirms(sites, sponsors)
  PROVE  SheetsHoldTheirOwn'
<1> DEFINE target == FirmsOf(sites) \X sponsors
           own(k) == {b \in sites : FirmOf[b] = k[1]}
           built(k) == Draft(k, own(k), k[2])
<1>1. sheet' = [k \in Keys |->
            IF k \in target THEN IF built(k).staff = {} THEN Nil ELSE built(k)
            ELSE IF Swept(k, sites, sponsors) THEN Nil ELSE sheet[k]]
  BY DEF BuildFirms
<1>2. target \subseteq FirmKey /\ FirmKey \subseteq Keys /\ BranchKey \cap FirmKey = {}
  BY KeysDiffer DEF FirmsOf, FirmKey, Firm, Keys
<1>3. ASSUME NEW k \in target
      PROVE  /\ built(k) \in Sheet /\ built(k).sponsor = k[2]
             /\ \A e \in built(k).staff : Belongs(e, k, k[2])
  <2>1. k[2] \in Sponsor \cup {NoSponsor} /\ own(k) \in SUBSET Site /\ k \in Keys
    BY <1>2
  <2>2. /\ built(k) \in Sheet /\ built(k).sponsor = k[2]
        /\ \A e \in built(k).staff : e \in Payee /\ SiteOf[e] \in own(k) /\ SponsorOf[e] = k[2]
    BY <2>1, DraftIsSheet
  <2> HIDE DEF built
  <2> QED
    BY <1>2, <2>2 DEF Belongs
<1> HIDE DEF target, built
<1>4. ASSUME NEW k \in Keys
      PROVE  /\ sheet'[k] \in Sheet \cup {Nil}
             /\ Kept(k)' => \A e \in sheet'[k].staff : Belongs(e, k, sheet'[k].sponsor)
  BY <1>1, <1>3, <1>4 DEF SheetsHoldTheirOwn, Kept
<1>5. sheet' \in [Keys -> Sheet \cup {Nil}]
  BY <1>1, <1>4
<1> QED
  BY <1>4, <1>5 DEF SheetsHoldTheirOwn

LEMMA SitesAreBuilt ==
  ASSUME SheetsHoldTheirOwn, NEW sites \in SUBSET Site, NEW mode \in Modes,
         NEW sponsors \in SUBSET (Sponsor \cup {NoSponsor}), BuildSites(sites, mode, sponsors)
  PROVE  SheetsHoldTheirOwn'
<1>1. PICK last \in sponsors :
        sheet' = [k \in Keys |-> IF k \in sites \X {mode} THEN Draft(k, {k[1]}, last) ELSE sheet[k]]
  BY DEF BuildSites
<1>2. sites \X {mode} \subseteq BranchKey /\ BranchKey \subseteq Keys
  BY DEF BranchKey, Keys
<1>3. ASSUME NEW k \in sites \X {mode}
      PROVE  /\ Draft(k, {k[1]}, last) \in Sheet /\ Draft(k, {k[1]}, last).sponsor = last
             /\ \A e \in Draft(k, {k[1]}, last).staff : Belongs(e, k, last)
  <2>1. /\ {k[1]} \in SUBSET Site /\ k \in Keys /\ k \in BranchKey /\ k \notin FirmKey
        /\ last \in Sponsor \cup {NoSponsor}
    BY <1>2, KeysDiffer
  <2>2. /\ Draft(k, {k[1]}, last) \in Sheet /\ Draft(k, {k[1]}, last).sponsor = last
        /\ \A e \in Draft(k, {k[1]}, last).staff : e \in Payee /\ SiteOf[e] \in {k[1]} /\ SponsorOf[e] = last
    <3> DEFINE here == {k[1]}
    <3>1. here \in SUBSET Site
      BY <2>1
    <3> HIDE DEF here
    <3>2. /\ Draft(k, here, last) \in Sheet /\ Draft(k, here, last).sponsor = last
          /\ \A e \in Draft(k, here, last).staff : e \in Payee /\ SiteOf[e] \in here /\ SponsorOf[e] = last
      BY <2>1, <3>1, DraftIsSheet
    <3> QED
      BY <3>2 DEF here
  <2> QED
    BY <2>1, <2>2 DEF Belongs
<1>4. ASSUME NEW k \in Keys
      PROVE  /\ sheet'[k] \in Sheet \cup {Nil}
             /\ Kept(k)' => \A e \in sheet'[k].staff : Belongs(e, k, sheet'[k].sponsor)
  BY <1>1, <1>3, <1>4 DEF SheetsHoldTheirOwn, Kept
<1>5. sheet' \in [Keys -> Sheet \cup {Nil}]
  BY <1>1, <1>4
<1> QED
  BY <1>4, <1>5 DEF SheetsHoldTheirOwn

LEMMA QueryIsParsed ==
  ASSUME NEW u \in Accountant, NEW q \in Queries
  PROVE  LET f == Parsed(u, q)
         IN /\ f \in Filters /\ Resolved(u, f) \in SUBSET Site
            /\ SponsorsOf(f) \in SUBSET (Sponsor \cup {NoSponsor})
<1> DEFINE f == Parsed(u, q)
<1>1. q \in Query /\ Reach[u] \in SUBSET Site
  BY PageAssumption
<1>2. f \in Filters
  BY <1>1 DEF Parsed, Filters, Query
<1> HIDE DEF f
<1> QED
  BY <1>1, <1>2 DEF Filters, Resolved, SponsorsOf, f

LEMMA SheetsStep ==
  ASSUME SheetsHoldTheirOwn, [PageNext]_pageVars
  PROVE  SheetsHoldTheirOwn'
<1>1. CASE UNCHANGED sheet
  BY <1>1 DEF SheetsHoldTheirOwn, Kept
<1>2. ASSUME NEW u \in Accountant, NEW q \in Queries, BuildRuns(u, Parsed(u, q)) PROVE SheetsHoldTheirOwn'
  <2> DEFINE f == Parsed(u, q)
  <2>1. f.mode \in Modes /\ \/ BuildFirms(Resolved(u, f), SponsorsOf(f))
                            \/ BuildSites(Resolved(u, f), f.mode, SponsorsOf(f))
    BY <1>2 DEF BuildRuns
  <2>2. Resolved(u, f) \in SUBSET Site /\ SponsorsOf(f) \in SUBSET (Sponsor \cup {NoSponsor})
    BY QueryIsParsed
  <2> HIDE DEF f
  <2> QED
    BY <2>1, <2>2, FirmsAreBuilt, SitesAreBuilt
<1>3. ASSUME NEW k \in Keys, sheet' \in [Keys -> Sheet \cup {Nil}],
             \A o \in Keys : \/ sheet'[o] = sheet[o] \/ sheet'[o] = Nil
                             \/ Kept(o) /\ sheet'[o].sponsor = sheet[o].sponsor /\ sheet'[o].staff = sheet[o].staff
      PROVE  SheetsHoldTheirOwn'
  BY <1>3 DEF SheetsHoldTheirOwn, Kept
<1>4. ASSUME NEW k \in Keys, NEW locked \in BOOLEAN, Kept(k), sheet[k] \in Sheet
      PROVE  /\ [sheet[k] EXCEPT !.locked = locked] \in Sheet
             /\ [sheet[k] EXCEPT !.locked = locked].sponsor = sheet[k].sponsor
             /\ [sheet[k] EXCEPT !.locked = locked].staff = sheet[k].staff
  BY <1>4 DEF Sheet
<1>5. \A k \in Keys : Kept(k) => sheet[k] \in Sheet
  BY DEF SheetsHoldTheirOwn, Kept
<1>6. ASSUME NEW u \in Accountant, NEW q \in Queries, LockRuns(u, Parsed(u, q)) PROVE SheetsHoldTheirOwn'
  <2>1. PICK drafts : /\ \A k \in drafts : Kept(k)
                      /\ sheet' = [k \in Keys |->
                           IF k \in drafts THEN [sheet[k] EXCEPT !.locked = TRUE] ELSE sheet[k]]
    <3> DEFINE drafts == {k \in MatchingSheets(u, Parsed(u, q)) : Open(k)}
    <3>1. /\ \A k \in drafts : Kept(k)
          /\ sheet' = [k \in Keys |->
                           IF k \in drafts THEN [sheet[k] EXCEPT !.locked = TRUE] ELSE sheet[k]]
      BY <1>6 DEF LockRuns, Open
    <3> QED
      BY <3>1
  <2>2. \A k \in Keys : \/ sheet'[k] = sheet[k]
                        \/ /\ Kept(k) /\ sheet'[k] \in Sheet /\ sheet'[k].sponsor = sheet[k].sponsor
                           /\ sheet'[k].staff = sheet[k].staff
    BY <1>4, <1>5, <2>1
  <2>3. sheet' \in [Keys -> Sheet \cup {Nil}]
    BY <2>1, <2>2 DEF SheetsHoldTheirOwn
  <2> QED
    BY <2>2, <2>3 DEF SheetsHoldTheirOwn, Kept
<1>7. ASSUME NEW u \in Accountant, NEW k \in Keys, LockRun(u, k) \/ UnlockRun(u, k) PROVE SheetsHoldTheirOwn'
  <2>1. PICK locked \in BOOLEAN : Kept(k) /\ sheet' = [sheet EXCEPT ![k] = [sheet[k] EXCEPT !.locked = locked]]
    BY <1>7 DEF LockRun, UnlockRun, Open, Sealed
  <2>2. /\ [sheet[k] EXCEPT !.locked = locked] \in Sheet
        /\ [sheet[k] EXCEPT !.locked = locked].sponsor = sheet[k].sponsor
        /\ [sheet[k] EXCEPT !.locked = locked].staff = sheet[k].staff
    BY <1>4, <1>5, <2>1
  <2>3. sheet' \in [Keys -> Sheet \cup {Nil}] /\ \A o \in Keys \ {k} : sheet'[o] = sheet[o]
    BY <2>1, <2>2 DEF SheetsHoldTheirOwn
  <2>4. sheet'[k].sponsor = sheet[k].sponsor /\ sheet'[k].staff = sheet[k].staff
    BY <2>1, <2>2 DEF SheetsHoldTheirOwn
  <2> QED
    BY <1>3, <2>1, <2>3, <2>4
<1>8. ASSUME NEW u \in Accountant, NEW k \in Keys, DeleteDraft(u, k) PROVE SheetsHoldTheirOwn'
  <2>1. sheet' = [sheet EXCEPT ![k] = Nil]
    BY <1>8 DEF DeleteDraft
  <2>2. sheet' \in [Keys -> Sheet \cup {Nil}] /\ \A o \in Keys : sheet'[o] = sheet[o] \/ sheet'[o] = Nil
    BY <2>1 DEF SheetsHoldTheirOwn
  <2> QED
    BY <1>3, <2>2
<1>9. ASSUME NEW u \in Accountant, NEW k \in Keys, RebuildRun(u, k) PROVE SheetsHoldTheirOwn'
  <2>1. Kept(k) /\ sheet[k] \in Sheet /\ sheet[k].sponsor \in Sponsor \cup {NoSponsor}
    BY <1>5, <1>9 DEF RebuildRun, Open, Sheet
  <2>2. CASE k \in BranchKey /\ BuildSites({k[1]}, k[2], {sheet[k].sponsor})
    <3>1. {k[1]} \in SUBSET Site /\ k[2] \in Modes
      BY <2>2 DEF BranchKey
    <3>2. {sheet[k].sponsor} \in SUBSET (Sponsor \cup {NoSponsor})
      BY <2>1
    <3> QED
      BY <2>2, <3>1, <3>2, SitesAreBuilt
  <2>3. CASE k \in FirmKey /\ BuildFirms({b \in Reach[u] : FirmOf[b] = k[1]}, {k[2]})
    <3>1. {b \in Reach[u] : FirmOf[b] = k[1]} \in SUBSET Site
      BY PageAssumption
    <3>2. {k[2]} \in SUBSET (Sponsor \cup {NoSponsor})
      BY <2>3 DEF FirmKey
    <3> QED
      BY <2>3, <3>1, <3>2, FirmsAreBuilt
  <2> QED
    BY <1>9, <2>2, <2>3 DEF RebuildRun
<1> QED
  BY <1>1, <1>2, <1>6, <1>7, <1>8, <1>9 DEF PageNext, OpenPage, Refused, pageVars

(* Who is in the run a consolidated build makes is in a run after it: in that *)
(* one, or in the locked run of a branch for the sake of which he is left out.*)
LEMMA FirmBuildKeeps ==
  ASSUME SheetsHoldTheirOwn, NEW sites \in SUBSET Site, NEW sponsors \in SUBSET (Sponsor \cup {NoSponsor}),
         BuildFirms(sites, sponsors),
         NEW e \in Payee, SiteOf[e] \in sites, HasSheet(e)
  PROVE  HasSheet(e)'
<1> DEFINE target == FirmsOf(sites) \X sponsors
           own(k) == {b \in sites : FirmOf[b] = k[1]}
           built(k) == Draft(k, own(k), k[2])
<1>1. sheet' = [k \in Keys |->
            IF k \in target THEN IF built(k).staff = {} THEN Nil ELSE built(k)
            ELSE IF Swept(k, sites, sponsors) THEN Nil ELSE sheet[k]]
  BY DEF BuildFirms
<1>2. target \subseteq FirmKey /\ FirmKey \subseteq Keys /\ BranchKey \subseteq Keys /\ BranchKey \cap FirmKey = {}
  BY KeysDiffer DEF FirmsOf, FirmKey, Firm, Keys
<1>3. PICK k \in Keys : Kept(k) /\ e \in sheet[k].staff
  BY DEF HasSheet, Kept
<1>4. Belongs(e, k, sheet[k].sponsor)
  BY <1>3 DEF SheetsHoldTheirOwn
<1>5. ASSUME SponsorOf[e] \in sponsors PROVE HasSheet(e)'
  <2> DEFINE t == <<FirmOf[SiteOf[e]], SponsorOf[e]>>
  <2>1. t \in target /\ t \in Keys /\ t[1] = FirmOf[SiteOf[e]] /\ t[2] = SponsorOf[e]
    BY <1>2, <1>5 DEF FirmsOf
  <2>2. SiteOf[e] \in own(t)
    BY <2>1
  <2>3. t[2] \in Sponsor \cup {NoSponsor} /\ own(t) \in SUBSET Site
    BY <1>5, <2>1
  <2>4. built(t).staff = Members(t, own(t), t[2]) /\ built(t) # Nil
    BY <2>1, <2>3, DraftIsSheet
  <2>5. sheet'[t] = IF built(t).staff = {} THEN Nil ELSE built(t)
    BY <1>1, <2>1
  <2>6. CASE e \in Members(t, own(t), t[2])
    <3> HIDE DEF built, own, t
    <3> QED
      BY <2>1, <2>4, <2>5, <2>6 DEF HasSheet
  <2>7. CASE e \notin Members(t, own(t), t[2])
    <3>1. PICK o \in BranchKey : Sealed(o) /\ e \in sheet[o].staff
      BY <2>1, <2>2, <2>7 DEF Members
    <3>2. o \notin target /\ ~Swept(o, sites, sponsors) /\ o \in Keys
      BY <1>2, <3>1 DEF Swept, Open, Sealed
    <3>3. sheet'[o] = sheet[o]
      BY <1>1, <3>2
    <3> QED
      BY <3>1, <3>2, <3>3 DEF HasSheet, Sealed, Kept
  <2> QED
    BY <2>6, <2>7
<1>6. CASE k \in target
  <2>1. k[2] \in sponsors /\ k \in FirmKey
    BY <1>2, <1>6
  <2> QED
    BY <1>4, <1>5, <2>1 DEF Belongs
<1>7. CASE Swept(k, sites, sponsors)
  <2>1. sheet[k].sponsor \in sponsors
    BY <1>7 DEF Swept
  <2> QED
    BY <1>4, <1>5, <2>1 DEF Belongs
<1>8. CASE k \notin target /\ ~Swept(k, sites, sponsors)
  <2>1. sheet'[k] = sheet[k]
    BY <1>1, <1>3, <1>8
  <2> QED
    BY <1>3, <2>1 DEF HasSheet, Kept
<1> QED
  BY <1>6, <1>7, <1>8

LEMMA SheetsInvariant == PageSpec => []SheetsHoldTheirOwn
<1>1. PageInit => SheetsHoldTheirOwn
  BY DEF PageInit, SheetsHoldTheirOwn, Kept
<1>2. SheetsHoldTheirOwn /\ [PageNext]_pageVars => SheetsHoldTheirOwn'
  BY SheetsStep
<1> QED
  BY <1>1, <1>2, PTL DEF PageSpec

(* A consolidated build clears the drafts of its branches away, and every     *)
(* employee of these branches who was in a run is in one after it, of         *)
(* whichever sponsorship and however often runs were locked and opened before *)
(* (_purge_standard_draft_runs).                                              *)
THEOREM NobodyIsSwept == PageSpec => SweepLosesNobody
<1>1. SheetsHoldTheirOwn =>
        [sheet' # sheet =>
         \A u \in Accountant, q \in Queries :
           LET f == Parsed(u, q)
           IN (PrefersFirms(u, f) /\ BuildRuns(u, f)) =>
                \A e \in Payee :
                  (SiteOf[e] \in Resolved(u, f) /\ HasSheet(e)) => HasSheet(e)']_pageVars
  <2> SUFFICES ASSUME SheetsHoldTheirOwn, NEW u \in Accountant, NEW q \in Queries,
                      PrefersFirms(u, Parsed(u, q)), BuildRuns(u, Parsed(u, q)),
                      NEW e \in Payee, SiteOf[e] \in Resolved(u, Parsed(u, q)), HasSheet(e)
               PROVE  HasSheet(e)'
    OBVIOUS
  <2> DEFINE f == Parsed(u, q)
  <2>1. BuildFirms(Resolved(u, f), SponsorsOf(f))
    BY DEF BuildRuns
  <2>2. Resolved(u, f) \in SUBSET Site /\ SponsorsOf(f) \in SUBSET (Sponsor \cup {NoSponsor})
    BY QueryIsParsed
  <2> HIDE DEF f
  <2> QED
    BY <2>1, <2>2, FirmBuildKeeps DEF f
<1> QED
  BY <1>1, SheetsInvariant, PTL DEF SweepLosesNobody

(***************************************************************************)
(* WorkflowMessages: everybody is told, and nobody twice.                  *)
(***************************************************************************)

Key(m) == <<m.event, m.phone.number>>
OwnEvent == IF run.event \in {"executed", "settled"} THEN "executed" ELSE run.event

MessagesTypes ==
  /\ on \in BOOLEAN /\ book \in Books /\ phone \in Phones
  /\ told \in [Events \X Mobiles -> Nat]
  /\ run # NoRun => run \in Transaction
WholeIsReady == run # NoRun /\ run.whole => Ready

(* Whom the handler itself writes to.                                         *)
Meant(p) ==
  /\ p \in People
  /\ run.event \notin {"created", "pending_gm"} /\ (run.event = "closed" => run.managed)
  /\ IF run.event \in ToManagers THEN p \in Managers ELSE p = run.about
Personal(m) == Meant(m.to) /\ m.phone = phone[m.to] /\ m.event = OwnEvent
HasHeard(p) == Meant(p) /\ phone[p] # NoPhone /\ told[<<OwnEvent, phone[p].number>>] # 0

(* Before it turns to the roles a transaction has told those its rows name,   *)
(* and, as long as WhatsApp was ready, whomever it need not tell any more.    *)
PeopleStage ==
  run # NoRun /\ run.stage = "people" =>
    /\ \A m \in run.rest : Personal(m)
    /\ \A l \in run.rows : l.status # "skipped" => HasHeard(l.to)
    /\ \A x \in Events \X Mobiles : told[x] # 0 =>
         \E l \in run.rows : /\ l.status # "skipped" /\ HasHeard(l.to)
                             /\ x = <<OwnEvent, phone[l.to].number>>
    /\ run.whole => \A m \in FirstTo(run.event, run.about, run.managed) :
         m.phone # NoPhone => m \in run.rest \/ told[Key(m)] # 0
RolesStage ==
  run # NoRun /\ run.stage = "roles" /\ run.whole =>
    \A x \in Due : told[x] # 0 \/ \E m \in run.rest : m.phone # NoPhone /\ Key(m) = x

(* No two messages to send are for one number, or for one that was told.      *)
NoneTwice ==
  run # NoRun /\ ~SharedNumber /\ (run.stage = "people" \/ ~TypedOtherwise) =>
    /\ \A x \in Events \X Mobiles : told[x] <= 1
    /\ \A m \in run.rest : m.phone # NoPhone => told[Key(m)] = 0
    /\ \A m1, m2 \in run.rest : m1.phone # NoPhone /\ m2.phone # NoPhone /\ Key(m1) = Key(m2) => m1 = m2

MessagesInv == MessagesTypes /\ WholeIsReady /\ PeopleStage /\ RolesStage /\ NoneTwice

LEMMA NumbersAreWritten ==
  ASSUME MessagesTypes
  PROVE  /\ book \in [RoleKeys -> Written \cup {NoPhone}]
         /\ phone \in [People -> Written \cup {NoPhone}]
         /\ run # NoRun => run.book \in [RoleKeys -> Written \cup {NoPhone}]
         /\ \A w \in Written : w.number \in Mobiles
BY MessagesAssumption DEF MessagesTypes, Transaction, Written

(* Messages to roles: for each number that is entered, one.                   *)
LEMMA RoleMessages ==
  ASSUME MessagesTypes, NEW roles \in SUBSET RoleKeys, NEW e \in Events
  PROVE  /\ \A m \in ToRoles(roles, e) :
              m \in Message /\ m.to \in roles /\ m.phone = book[m.to] /\ m.phone # NoPhone /\ m.event = e
         /\ \A m1, m2 \in ToRoles(roles, e) : m1.phone.number = m2.phone.number => m1 = m2
         /\ \A r \in roles : book[r] # NoPhone =>
              \E m \in ToRoles(roles, e) : m.phone # NoPhone /\ Key(m) = <<e, book[r].number>>
<1> DEFINE entered == {r \in roles : book[r] # NoPhone}
           first(r) == CHOOSE s \in entered : book[s].number = book[r].number
           message(r) == [to |-> r, phone |-> book[r], event |-> e]
<1>1. ASSUME NEW r \in entered PROVE first(r) \in entered /\ book[first(r)].number = book[r].number
  OBVIOUS
<1>2. ToRoles(roles, e) = {message(r) : r \in {first(r) : r \in entered}}
  BY DEF ToRoles
<1>3. \A r \in entered : /\ message(r) \in Message /\ message(r).to \in roles /\ message(r).phone = book[message(r).to]
                         /\ message(r).phone # NoPhone /\ message(r).event = e
                         /\ message(r).to = r
  BY NumbersAreWritten DEF Message
<1>4. \A r1, r2 \in entered : book[r1].number = book[r2].number => first(r1) = first(r2)
  OBVIOUS
<1> HIDE DEF entered, first, message
<1>5. ASSUME NEW m \in ToRoles(roles, e) PROVE \E r \in entered : m = message(first(r)) /\ first(r) \in entered
  BY <1>1, <1>2
<1>6. ASSUME NEW m1 \in ToRoles(roles, e), NEW m2 \in ToRoles(roles, e), m1.phone.number = m2.phone.number
      PROVE  m1 = m2
  <2>1. PICK r1 \in entered, r2 \in entered :
          m1 = message(first(r1)) /\ m2 = message(first(r2)) /\ first(r1) \in entered /\ first(r2) \in entered
    BY <1>5
  <2>2. m1.phone = book[first(r1)] /\ m2.phone = book[first(r2)]
    BY <1>3, <2>1
  <2>3. book[r1].number = book[r2].number
    BY <1>1, <1>6, <2>2
  <2> QED
    BY <1>4, <2>1, <2>3
<1>7. ASSUME NEW r \in roles, book[r] # NoPhone
      PROVE  \E m \in ToRoles(roles, e) : m.phone # NoPhone /\ Key(m) = <<e, book[r].number>>
  <2>1. r \in entered
    BY <1>7 DEF entered
  <2>2. message(first(r)) \in ToRoles(roles, e)
    BY <1>2, <2>1
  <2>3. /\ message(first(r)).phone = book[first(r)] /\ message(first(r)).phone # NoPhone
        /\ message(first(r)).event = e
    BY <1>1, <1>3, <2>1
  <2>4. Key(message(first(r))) = <<e, book[r].number>>
    BY <1>1, <2>1, <2>3 DEF Key
  <2> QED
    BY <2>2, <2>3, <2>4
<1> QED
  BY <1>3, <1>5, <1>6, <1>7

(* The messages to people.                                                    *)
EventOf(e) == IF e \in {"executed", "settled"} THEN "executed" ELSE e
ForPeople(e, managed) == e \notin {"created", "pending_gm"} /\ (e = "closed" => managed)
LEMMA FirstMessages ==
  ASSUME MessagesTypes, NEW e \in Events, NEW p \in People, NEW managed \in BOOLEAN
  PROVE  \A m \in FirstTo(e, p, managed) :
           /\ m \in Message /\ m.to \in People
           /\ m = [to |-> m.to, phone |-> phone[m.to], event |-> EventOf(e)]
           /\ m.phone = phone[m.to] /\ m.event = EventOf(e)
           /\ ForPeople(e, managed)
           /\ IF e \in ToManagers THEN m.to \in Managers ELSE m.to = p
<1> DEFINE message(q, f) == [to |-> q, phone |-> phone[q], event |-> f]
<1>1. \A q \in People, f \in Events :
        /\ message(q, f) \in Message /\ message(q, f).to = q
        /\ message(q, f).phone = phone[q] /\ message(q, f).event = f
  BY NumbersAreWritten DEF Message
<1>2. \A q, f : ToPerson(q, f) = {message(q, f)}
  BY DEF ToPerson
<1> HIDE DEF message
<1>3. CASE e \in {"executed", "settled"}
  <2>1. FirstTo(e, p, managed) = {message(p, "executed")} /\ EventOf(e) = "executed"
    BY <1>2, <1>3 DEF FirstTo, EventOf, ToManagers
  <2>2. e \notin ToManagers /\ "executed" \in Events /\ ForPeople(e, managed)
    BY <1>3 DEF ToManagers, Events, ToOne, ForPeople
  <2> QED
    BY <1>1, <2>1, <2>2 DEF message
<1>4. CASE e \in ToManagers
  <2>1. FirstTo(e, p, managed) = UNION {{message(q, e)} : q \in Managers}
    BY <1>2, <1>4 DEF FirstTo, ToManagers
  <2>2. EventOf(e) = e /\ ForPeople(e, managed)
    BY <1>4 DEF EventOf, ToManagers, ForPeople
  <2>3. ASSUME NEW m \in FirstTo(e, p, managed) PROVE \E q \in Managers : m = message(q, e)
    BY <2>1
  <2> QED
    BY <1>1, <1>4, <2>2, <2>3, MessagesAssumption DEF message
<1>5. CASE e \notin {"executed", "settled"} /\ e \notin ToManagers
  <2>1. EventOf(e) = e
    BY <1>5 DEF EventOf
  <2>2. FirstTo(e, p, managed) \subseteq {message(p, e)}
    BY <1>2, <1>5 DEF FirstTo
  <2>3. FirstTo(e, p, managed) # {} => ForPeople(e, managed)
    BY <1>5 DEF FirstTo, ForPeople
  <2> QED
    BY <1>1, <1>5, <2>1, <2>2, <2>3 DEF message
<1> QED
  BY <1>3, <1>4, <1>5

LEMMA PeopleAreWrittenTo ==
  ASSUME MessagesTypes, NEW e \in Events, NEW p \in People, NEW managed \in BOOLEAN
  PROVE  /\ e \in {"executed", "settled", "assigned", "worker"} /\ phone[p] # NoPhone =>
              \E m \in FirstTo(e, p, managed) : m.phone # NoPhone /\ Key(m) = <<EventOf(e), phone[p].number>>
         /\ e \in ToManagers => \A q \in Managers : phone[q] # NoPhone =>
              \E m \in FirstTo(e, p, managed) : m.phone # NoPhone /\ Key(m) = <<e, phone[q].number>>
<1> DEFINE message(q, f) == [to |-> q, phone |-> phone[q], event |-> f]
<1>1. \A q \in People, f \in Events : message(q, f).phone = phone[q] /\ Key(message(q, f)) = <<f, phone[q].number>>
  BY DEF Key
<1>2. \A q, f : ToPerson(q, f) = {message(q, f)}
  BY DEF ToPerson
<1> HIDE DEF message
<1>3. ASSUME e \in {"executed", "settled", "assigned", "worker"}, phone[p] # NoPhone
      PROVE  \E m \in FirstTo(e, p, managed) : m.phone # NoPhone /\ Key(m) = <<EventOf(e), phone[p].number>>
  <2>1. message(p, EventOf(e)) \in FirstTo(e, p, managed)
    BY <1>2, <1>3 DEF FirstTo, EventOf, ToManagers
  <2>2. EventOf(e) \in Events
    BY <1>3 DEF EventOf, Events, ToOne
  <2> QED
    BY <1>1, <1>3, <2>1, <2>2
<1>4. ASSUME e \in ToManagers, NEW q \in Managers, phone[q] # NoPhone
      PROVE  \E m \in FirstTo(e, p, managed) : m.phone # NoPhone /\ Key(m) = <<e, phone[q].number>>
  <2>1. FirstTo(e, p, managed) = UNION {{message(r, e)} : r \in Managers}
    BY <1>2, <1>4 DEF FirstTo, ToManagers
  <2>2. message(q, e) \in FirstTo(e, p, managed)
    BY <2>1
  <2> QED
    BY <1>1, <1>4, <2>2, MessagesAssumption
<1> QED
  BY <1>3, <1>4

LEMMA RolesOfTypes ==
  ASSUME run # NoRun PROVE RolesOf \in SUBSET RoleKeys
BY DEF RolesOf, RoleKeys

(* Begin.                                                                     *)
LEMMA BeginKeeps ==
  ASSUME MessagesInv, NEW e \in Events, NEW p \in People, NEW managed \in BOOLEAN, Begin(e, p, managed)
  PROVE  MessagesInv'
<1> DEFINE heeded == on \/ e \in {"executed", "settled"}
           first == FirstTo(e, p, managed)
<1>0. MessagesTypes
  BY DEF MessagesInv
<1>1. /\ run' = [event |-> e, about |-> p, managed |-> managed,
                 rest |-> IF heeded THEN first ELSE {},
                 stage |-> IF heeded THEN "people" ELSE "roles",
                 rows |-> {}, whole |-> Ready, book |-> book]
      /\ told' = [x \in Events \X Mobiles |-> 0]
      /\ UNCHANGED <<on, link, book, phone, ledger>>
  BY DEF Begin
<1>2. \A m \in first :
           /\ m \in Message /\ m.to \in People
           /\ m = [to |-> m.to, phone |-> phone[m.to], event |-> EventOf(e)]
           /\ m.phone = phone[m.to] /\ m.event = EventOf(e)
           /\ ForPeople(e, managed)
           /\ IF e \in ToManagers THEN m.to \in Managers ELSE m.to = p
  BY <1>0, FirstMessages
<1>3. (FirstTo(e, p, managed))' = first
  BY <1>1 DEF FirstTo, ToPerson
<1> HIDE DEF first
<1>4. /\ run'.event = e /\ run'.about = p /\ run'.managed = managed /\ run'.rows = {}
      /\ run'.rest = (IF heeded THEN first ELSE {})
      /\ run'.stage = (IF heeded THEN "people" ELSE "roles")
      /\ run'.whole = Ready /\ run'.book = book
  BY <1>1
<1>5. Ready \in BOOLEAN /\ (Ready => heeded)
  BY DEF Ready
<1>6. run' \in Transaction
  <2>1. run'.rest \in SUBSET Message
    BY <1>2, <1>4
  <2> QED
    BY <1>0, <1>1, <1>4, <1>5, <2>1 DEF MessagesTypes, Transaction
<1>7. MessagesTypes'
  BY <1>0, <1>1, <1>6 DEF MessagesTypes
<1>8. WholeIsReady'
  BY <1>1, <1>4 DEF WholeIsReady, Ready
<1>9. OwnEvent' = EventOf(e)
  BY <1>4 DEF OwnEvent, EventOf
<1>10. PeopleStage'
  <2>1. \A m \in run'.rest : Personal(m)'
    BY <1>1, <1>2, <1>4, <1>9 DEF Personal, Meant, ForPeople
  <2>2. \A x \in Events \X Mobiles : told'[x] = 0
    BY <1>1
  <2>3. FirstTo(run.event, run.about, run.managed)' = first
    BY <1>1, <1>4 DEF first, FirstTo, ToPerson
  <2> QED
    BY <1>4, <2>1, <2>2, <2>3 DEF PeopleStage
<1>11. RolesStage'
  BY <1>4, <1>5 DEF RolesStage
<1>12. NoneTwice'
  <2>1. \A x \in Events \X Mobiles : told'[x] = 0
    BY <1>1
  <2>2. ASSUME NEW m \in run'.rest, m.phone # NoPhone PROVE told'[Key(m)] = 0
    <3>1. m \in Message
      BY <1>2, <1>4
    <3>2. Key(m) \in Events \X Mobiles
      BY <3>1, <2>2 DEF Key, Message, Written
    <3> QED
      BY <2>1, <3>2
  <2>3. ASSUME NEW m1 \in run'.rest, NEW m2 \in run'.rest, m1.phone # NoPhone, m2.phone # NoPhone,
               Key(m1) = Key(m2), ~SharedNumber'
        PROVE  m1 = m2
    <3>1. m1 \in first /\ m2 \in first
      BY <1>4
    <3>2. m1.phone.number = m2.phone.number
      BY <2>3 DEF Key
    <3>3. m1.to = m2.to
      <4>1. CASE e \in ToManagers
        <5>1. m1.to \in Managers /\ m2.to \in Managers
          BY <1>2, <3>1, <4>1
        <5>2. phone[m1.to] # NoPhone /\ phone[m2.to] # NoPhone
              /\ phone[m1.to].number = phone[m2.to].number
          BY <1>2, <2>3, <3>1, <3>2
        <5>3. NumberOf(phone[m1.to]) = NumberOf(phone[m2.to])
          BY <5>2 DEF NumberOf
        <5>4. phone' = phone
          BY <1>1
        <5> QED
          BY <1>4, <2>3, <4>1, <5>1, <5>2, <5>3, <5>4 DEF SharedNumber
      <4>2. CASE e \notin ToManagers
        BY <1>2, <3>1, <4>2
      <4> QED
        BY <4>1, <4>2
    <3> QED
      BY <1>2, <3>1, <3>3
  <2> QED
    BY <2>1, <2>2, <2>3 DEF NoneTwice, Key
<1> QED
  BY <1>7, <1>8, <1>10, <1>11, <1>12 DEF MessagesInv

LEMMA DueIsNumbers ==
  ASSUME MessagesTypes, run # NoRun
  PROVE  Due \subseteq Events \X Mobiles
<1>1. run \in Transaction /\ run.event \in Events /\ run.about \in People
  BY DEF MessagesTypes, Transaction
<1>2. \A w \in Written \cup {NoPhone} : NumberOf(w) \subseteq Mobiles
  BY DEF NumberOf, Written
<1>3. \A r \in RoleKeys : NumberOf(run.book[r]) \subseteq Mobiles
  BY <1>2, NumbersAreWritten
<1>4. \A p \in People : NumberOf(phone[p]) \subseteq Mobiles
  BY <1>2, NumbersAreWritten
<1>5. AdminNumbers \subseteq Mobiles
  BY <1>3 DEF AdminNumbers, RoleKeys
<1>6. /\ NumberOf(run.book["hr_manager"]) \subseteq Mobiles /\ NumberOf(run.book["hr_officer"]) \subseteq Mobiles
      /\ NumberOf(run.book["maintenance_manager"]) \subseteq Mobiles
  BY <1>3 DEF RoleKeys
<1>7. NumberOf(phone[run.about]) \subseteq Mobiles
  BY <1>1, <1>4
<1>8. UNION {NumberOf(phone[p]) : p \in Managers} \subseteq Mobiles
  BY <1>4, MessagesAssumption
<1> HIDE DEF AdminNumbers
<1>9. CASE run.event \in ToManagers
  BY <1>1, <1>6, <1>8, <1>9 DEF Due, ToManagers
<1>10. CASE run.event \notin ToManagers
  <2>1. "executed" \in Events
    BY DEF Events, ToOne
  <2> QED
    BY <1>1, <1>5, <1>6, <1>7, <1>10, <2>1 DEF Due, Events, Broadcasts, ToOne
<1> QED
  BY <1>9, <1>10

LEMMA LeftTransaction ==
  ASSUME NEW t \in Transaction, NEW m, NEW u, u = [t EXCEPT !.rest = @ \ {m}]
  PROVE  /\ u \in Transaction /\ u.rest = t.rest \ {m} /\ u.rows = t.rows
         /\ u.event = t.event /\ u.about = t.about /\ u.managed = t.managed
         /\ u.stage = t.stage /\ u.whole = t.whole /\ u.book = t.book
BY DEF Transaction

(* A message that is sent or skipped: what stays as it was.                   *)
LEMMA MessageLeaves ==
  ASSUME MessagesInv, run # NoRun, NEW m \in run.rest, Skip(m) \/ \E status \in Status : Post(m, status)
  PROVE  /\ run' \in Transaction
         /\ run'.rest = run.rest \ {m} /\ run.rows \subseteq run'.rows
         /\ run'.event = run.event /\ run'.about = run.about /\ run'.managed = run.managed
         /\ run'.stage = run.stage /\ run'.whole = run.whole /\ run'.book = run.book
         /\ on' = on /\ link' = link /\ book' = book /\ phone' = phone
         /\ m \in Message
<1> USE DEF MessagesInv
<1>1. run \in Transaction /\ m \in Message
  BY DEF MessagesTypes, Transaction
<1>3. on' = on /\ link' = link /\ book' = book /\ phone' = phone
  BY DEF Skip, Post, Silent
<1>4. \/ run' = [run EXCEPT !.rest = @ \ {m}]
      \/ \E status \in Status : run' = [run EXCEPT !.rest = @ \ {m},
            !.rows = @ \cup {[to |-> m.to, event |-> m.event, status |-> status]}]
  BY DEF Skip, Post, Sent, Status
<1>5. \A status \in Status : [to |-> m.to, event |-> m.event, status |-> status] \in LogRow
  BY <1>1 DEF Message, LogRow
<1>6. /\ run' \in Transaction /\ run'.rest = run.rest \ {m} /\ run.rows \subseteq run'.rows
      /\ run'.event = run.event /\ run'.about = run.about /\ run'.managed = run.managed
      /\ run'.stage = run.stage /\ run'.whole = run.whole /\ run'.book = run.book
  <2>1. CASE run' = [run EXCEPT !.rest = @ \ {m}]
    BY <1>1, <2>1, LeftTransaction
  <2>2. CASE \E row \in LogRow : run' = [run EXCEPT !.rest = @ \ {m}, !.rows = @ \cup {row}]
    <3>1. PICK row \in LogRow : run' = [run EXCEPT !.rest = @ \ {m}, !.rows = @ \cup {row}]
      BY <2>2
    <3> QED
      BY <1>1, <3>1 DEF Transaction
  <2> QED
    BY <1>4, <1>5, <2>1, <2>2
<1> QED
  BY <1>1, <1>3, <1>6

(* The rows and the numbers that were told grow together.                     *)
LEMMA ToldGrows ==
  ASSUME MessagesInv, run # NoRun, NEW m \in run.rest, Skip(m) \/ \E status \in Status : Post(m, status)
  PROVE  /\ told' \in [Events \X Mobiles -> Nat]
         /\ \A x \in Events \X Mobiles : told[x] # 0 => told'[x] # 0
         /\ m.phone # NoPhone /\ Ready => told'[Key(m)] # 0 /\ told'[Key(m)] = told[Key(m)] + 1
         /\ \A x \in Events \X Mobiles : told'[x] # told[x] => m.phone # NoPhone /\ x = Key(m) /\ told'[x] = told[x] + 1
         /\ \A l \in run'.rows \ run.rows : l.to = m.to /\
              (l.status # "skipped" => told'[Key(m)] # 0 /\ m.phone # NoPhone)
         /\ \A x \in Events \X Mobiles : told'[x] # told[x] =>
              \E l \in run'.rows : l.to = m.to /\ l.status # "skipped"
<1>1. m \in Message /\ run \in Transaction /\ told \in [Events \X Mobiles -> Nat]
  BY MessageLeaves DEF MessagesInv, MessagesTypes, Transaction
<1>2. CASE Skip(m)
  <2>1. told' = told
    BY <1>2 DEF Skip
  <2>2. ~(m.phone # NoPhone /\ Ready)
    BY <1>2 DEF Skip
  <2>3. \A l \in run'.rows \ run.rows : l.to = m.to /\ l.status = "skipped"
    <3> DEFINE row == [to |-> m.to, event |-> m.event, status |-> "skipped"]
    <3>2. row.to = m.to /\ row.status = "skipped" /\ row \in LogRow
      BY <1>1 DEF LogRow, Message, Status
    <3>1. \/ run' = [run EXCEPT !.rest = @ \ {m}]
          \/ run' = [run EXCEPT !.rest = @ \ {m}, !.rows = @ \cup {row}]
      BY <1>2 DEF Skip, Sent
    <3> HIDE DEF row
    <3>3. run'.rows = run.rows \/ run'.rows = run.rows \cup {row}
      BY <1>1, <3>1, <3>2 DEF Transaction
    <3> QED
      BY <3>2, <3>3
  <2> QED
    BY <1>1, <2>1, <2>2, <2>3
<1>3. ASSUME NEW status \in Status, Post(m, status)
      PROVE  /\ told' = [told EXCEPT ![Key(m)] = @ + 1]
             /\ Key(m) \in Events \X Mobiles /\ m.phone # NoPhone
             /\ run'.rows = run.rows \cup {[to |-> m.to, event |-> m.event, status |-> status]}
             /\ status # "skipped"
  <2>1. m.phone # NoPhone /\ status # "skipped"
        /\ told' = [told EXCEPT ![Key(m)] = @ + 1]
        /\ run' = [run EXCEPT !.rest = @ \ {m},
               !.rows = @ \cup {[to |-> m.to, event |-> m.event, status |-> status]}]
    BY <1>3 DEF Post, Sent, Key
  <2>2. Key(m) \in Events \X Mobiles
    BY <1>1, <2>1 DEF Key, Message, Written
  <2> QED
    BY <1>1, <2>1, <2>2 DEF Transaction
<1>4. ASSUME NEW status \in Status, Post(m, status)
      PROVE  /\ told' \in [Events \X Mobiles -> Nat]
             /\ \A x \in Events \X Mobiles : told'[x] = IF x = Key(m) THEN told[x] + 1 ELSE told[x]
             /\ told'[Key(m)] = told[Key(m)] + 1 /\ told[Key(m)] \in Nat
  BY <1>1, <1>3, <1>4
<1>5. CASE \E status \in Status : Post(m, status)
  <2> PICK status \in Status : Post(m, status)
    BY <1>5
  <2> DEFINE row == [to |-> m.to, event |-> m.event, status |-> status]
  <2>1. row.to = m.to /\ row.status = status
    OBVIOUS
  <2>2. run'.rows = run.rows \cup {row} /\ status # "skipped" /\ m.phone # NoPhone
    BY <1>3
  <2> HIDE DEF row
  <2>3. told'[Key(m)] # 0
    BY <1>4
  <2>4. \A x \in Events \X Mobiles : told[x] \in Nat
    BY <1>1
  <2> QED
    BY <1>4, <2>1, <2>2, <2>3, <2>4
<1> QED
  BY <1>2, <1>5

LEMMA SendingKeeps ==
  ASSUME MessagesInv, run # NoRun, NEW m \in run.rest, Skip(m) \/ \E status \in Status : Post(m, status)
  PROVE  MessagesInv'
<1>1. /\ run' \in Transaction
      /\ run'.rest = run.rest \ {m} /\ run.rows \subseteq run'.rows
      /\ run'.event = run.event /\ run'.about = run.about /\ run'.managed = run.managed
      /\ run'.stage = run.stage /\ run'.whole = run.whole /\ run'.book = run.book
      /\ on' = on /\ link' = link /\ book' = book /\ phone' = phone
      /\ m \in Message
  BY MessageLeaves
<1>2. /\ told' \in [Events \X Mobiles -> Nat]
      /\ \A x \in Events \X Mobiles : told[x] # 0 => told'[x] # 0
      /\ m.phone # NoPhone /\ Ready => told'[Key(m)] # 0 /\ told'[Key(m)] = told[Key(m)] + 1
      /\ \A x \in Events \X Mobiles : told'[x] # told[x] => m.phone # NoPhone /\ x = Key(m) /\ told'[x] = told[x] + 1
      /\ \A l \in run'.rows \ run.rows : l.to = m.to /\
           (l.status # "skipped" => told'[Key(m)] # 0 /\ m.phone # NoPhone)
      /\ \A x \in Events \X Mobiles : told'[x] # told[x] =>
           \E l \in run'.rows : l.to = m.to /\ l.status # "skipped"
  BY ToldGrows
<1>3. run \in Transaction /\ run.rest \subseteq Message /\ MessagesInv
  BY DEF MessagesInv, MessagesTypes, Transaction
<1>4. \A n \in Message : n.phone # NoPhone => Key(n) \in Events \X Mobiles
  BY DEF Key, Message, Written
<1>5. MessagesTypes'
  BY <1>1, <1>2, <1>3 DEF MessagesInv, MessagesTypes
<1>6. WholeIsReady'
  BY <1>1, <1>3 DEF MessagesInv, WholeIsReady, Ready
<1>7. OwnEvent' = OwnEvent /\ \A p : Meant(p)' <=> Meant(p)
  BY <1>1 DEF OwnEvent, Meant
<1>8. ASSUME run.stage = "people" PROVE Personal(m) /\ \A n \in run'.rest : Personal(n)'
  BY <1>1, <1>3, <1>7, <1>8 DEF MessagesInv, PeopleStage, Personal
<1>9. ASSUME NEW p, HasHeard(p) PROVE HasHeard(p)'
  <2>1. Meant(p) /\ phone[p] # NoPhone /\ told[<<OwnEvent, phone[p].number>>] # 0
    BY <1>9 DEF HasHeard
  <2>2. <<OwnEvent, phone[p].number>> \in Events \X Mobiles
    <3>1. p \in People
      BY <2>1 DEF Meant
    <3>2. phone[p].number \in Mobiles
      BY <1>3, <2>1, <3>1, NumbersAreWritten DEF MessagesInv
    <3>3. OwnEvent \in Events
      BY <1>3 DEF OwnEvent, Transaction, Events, ToOne
    <3> QED
      BY <3>2, <3>3
  <2> QED
    BY <1>1, <1>2, <1>7, <2>1, <2>2 DEF HasHeard
<1>10. ASSUME run.stage = "people", m.phone # NoPhone, told'[Key(m)] # 0
       PROVE  HasHeard(m.to)' /\ Key(m) = <<OwnEvent', phone'[m.to].number>>
  <2>1. Personal(m)
    BY <1>8, <1>10
  <2>2. Key(m) = <<OwnEvent, phone[m.to].number>>
    BY <2>1 DEF Key, Personal
  <2> QED
    BY <1>1, <1>7, <1>10, <2>1, <2>2 DEF HasHeard, Personal
<1>11. ASSUME run.stage = "people" PROVE PeopleStage'
  <2>1. ASSUME NEW l \in run'.rows, l.status # "skipped" PROVE HasHeard(l.to)'
    <3>1. CASE l \in run.rows
      BY <1>3, <1>9, <1>11, <2>1, <3>1 DEF MessagesInv, PeopleStage
    <3>2. CASE l \notin run.rows
      BY <1>2, <1>10, <1>11, <2>1, <3>2
    <3> QED
      BY <3>1, <3>2
  <2>2. ASSUME NEW x \in Events \X Mobiles, told'[x] # 0
        PROVE  \E l \in run'.rows : /\ l.status # "skipped" /\ HasHeard(l.to)'
                                    /\ x = <<OwnEvent', phone'[l.to].number>>
    <3>1. CASE told'[x] = told[x]
      BY <1>1, <1>3, <1>7, <1>9, <1>11, <2>2, <3>1 DEF MessagesInv, PeopleStage
    <3>2. CASE told'[x] # told[x]
      BY <1>2, <1>10, <1>11, <2>2, <3>2
    <3> QED
      BY <3>1, <3>2
  <2>3. FirstTo(run.event, run.about, run.managed)' = FirstTo(run.event, run.about, run.managed)
    BY <1>1 DEF FirstTo, ToPerson
  <2>4. ASSUME run'.whole, NEW n \in FirstTo(run.event, run.about, run.managed), n.phone # NoPhone
        PROVE  n \in run'.rest \/ told'[Key(n)] # 0
    <3>1. n \in Message
      BY <1>3, FirstMessages DEF MessagesInv, Transaction
    <3>2. n \in run.rest \/ told[Key(n)] # 0
      BY <1>1, <1>3, <1>11, <2>4 DEF MessagesInv, PeopleStage
    <3>3. Ready
      BY <1>1, <1>3, <2>4 DEF MessagesInv, WholeIsReady
    <3> QED
      BY <1>1, <1>2, <1>4, <2>4, <3>1, <3>2, <3>3
  <2> QED
    BY <1>8, <1>11, <2>1, <2>2, <2>3, <2>4 DEF PeopleStage, Key
<1>12. RolesStage'
  <2>1. Due' = Due
    BY <1>1 DEF Due, AdminNumbers, NumberOf
  <2>2. SUFFICES ASSUME run.stage = "roles", run.whole, NEW x \in Due
        PROVE  told'[x] # 0 \/ \E n \in run'.rest : n.phone # NoPhone /\ Key(n) = x
    BY <1>1, <2>1 DEF RolesStage, Key
  <2>3. told[x] # 0 \/ \E n \in run.rest : n.phone # NoPhone /\ Key(n) = x
    BY <1>3, <2>2 DEF MessagesInv, RolesStage
  <2>4. Ready
    BY <1>3, <2>2 DEF MessagesInv, WholeIsReady
  <2>5. CASE told[x] # 0
    <3>1. x \in Events \X Mobiles
      BY <1>3, DueIsNumbers DEF MessagesInv
    <3> QED
      BY <1>2, <2>5, <3>1
  <2>6. CASE \E n \in run.rest : n.phone # NoPhone /\ Key(n) = x
    BY <1>1, <1>2, <2>4, <2>6
  <2> QED
    BY <2>3, <2>5, <2>6
<1>13. NoneTwice'
  <2>1. SharedNumber' = SharedNumber /\ TypedOtherwise' = TypedOtherwise
    BY <1>1 DEF SharedNumber, TypedOtherwise, NumberOf
  <2>2. SUFFICES ASSUME ~SharedNumber, run.stage = "people" \/ ~TypedOtherwise
        PROVE  /\ \A x \in Events \X Mobiles : told'[x] <= 1
               /\ \A n \in run'.rest : n.phone # NoPhone => told'[Key(n)] = 0
               /\ \A m1, m2 \in run'.rest :
                    m1.phone # NoPhone /\ m2.phone # NoPhone /\ Key(m1) = Key(m2) => m1 = m2
    BY <1>1, <2>1 DEF NoneTwice, Key
  <2>3. /\ \A x \in Events \X Mobiles : told[x] <= 1
        /\ \A n \in run.rest : n.phone # NoPhone => told[Key(n)] = 0
        /\ \A m1, m2 \in run.rest :
             m1.phone # NoPhone /\ m2.phone # NoPhone /\ Key(m1) = Key(m2) => m1 = m2
    BY <1>3, <2>2 DEF MessagesInv, NoneTwice
  <2>4. ASSUME NEW x \in Events \X Mobiles PROVE told'[x] <= 1
    BY <1>2, <2>3, <2>4
  <2>5. ASSUME NEW n \in run'.rest, n.phone # NoPhone PROVE told'[Key(n)] = 0
    <3>1. n \in run.rest /\ n # m /\ n \in Message
      BY <1>1, <1>3
    <3>2. told[Key(n)] = 0 /\ Key(n) \in Events \X Mobiles
      BY <1>4, <2>3, <2>5, <3>1
    <3> QED
      BY <1>2, <2>3, <2>5, <3>1, <3>2
  <2> QED
    BY <1>1, <2>3, <2>4, <2>5
<1>14. PeopleStage'
  BY <1>1, <1>11 DEF PeopleStage
<1> QED
  BY <1>5, <1>6, <1>12, <1>13, <1>14 DEF MessagesInv

(* Settings saved meanwhile.                                                  *)
LEMMA SavesKeep ==
  ASSUME MessagesInv,
         (\E l \in Links : SaveGateway(l)) \/ (\E s \in BOOLEAN, b \in Books : SaveBook(s, b))
  PROVE  MessagesInv'
<1>1. /\ on' \in BOOLEAN /\ book' \in Books /\ phone' = phone /\ told' = told
      /\ StillReady
  BY DEF SaveGateway, SaveBook, MessagesInv, MessagesTypes
<1>2. CASE run = NoRun
  <2>1. run' = NoRun
    BY <1>1, <1>2 DEF StillReady
  <2> QED
    BY <1>1, <2>1 DEF MessagesInv, MessagesTypes, WholeIsReady, PeopleStage, RolesStage, NoneTwice
<1>3. CASE run # NoRun
  <2>1. run \in Transaction
    BY <1>3 DEF MessagesInv, MessagesTypes
  <2>2. Ready' \in BOOLEAN
    BY DEF Ready
  <2>3. run' = [run EXCEPT !.whole = run.whole /\ Ready']
    BY <1>1, <1>3 DEF StillReady
  <2>4. /\ run' \in Transaction /\ run'.rest = run.rest /\ run'.rows = run.rows
        /\ run'.event = run.event /\ run'.about = run.about /\ run'.managed = run.managed
        /\ run'.stage = run.stage /\ run'.whole = (run.whole /\ Ready') /\ run'.book = run.book
    BY <2>1, <2>2, <2>3 DEF Transaction
  <2>5. MessagesTypes'
    BY <1>1, <2>4 DEF MessagesInv, MessagesTypes
  <2>6. WholeIsReady'
    BY <2>4 DEF WholeIsReady
  <2>7. /\ FirstTo(run.event, run.about, run.managed)' = FirstTo(run.event, run.about, run.managed)
        /\ OwnEvent' = OwnEvent /\ Due' = Due
        /\ SharedNumber' = SharedNumber /\ TypedOtherwise' = TypedOtherwise
        /\ \A p : Meant(p)' <=> Meant(p)
    BY <1>1, <2>4 DEF FirstTo, ToPerson, OwnEvent, Due, AdminNumbers, NumberOf, SharedNumber, TypedOtherwise, Meant
  <2>8. \A p : HasHeard(p)' <=> HasHeard(p)
    BY <1>1, <2>7 DEF HasHeard
  <2>9. \A m : Personal(m)' <=> Personal(m)
    BY <1>1, <2>7 DEF Personal
  <2>10. PeopleStage'
    BY <1>1, <1>3, <2>4, <2>7, <2>8, <2>9 DEF MessagesInv, PeopleStage, Key
  <2>11. RolesStage'
    BY <1>1, <1>3, <2>4, <2>7 DEF MessagesInv, RolesStage, Key
  <2>12. NoneTwice'
    BY <1>1, <1>3, <2>4, <2>7 DEF MessagesInv, NoneTwice, Key
  <2> QED
    BY <2>5, <2>6, <2>10, <2>11, <2>12 DEF MessagesInv
<1> QED
  BY <1>2, <1>3

LEMMA EndKeeps ==
  ASSUME MessagesInv, Commit \/ RollBack
  PROVE  MessagesInv'
<1>1. run' = NoRun /\ UNCHANGED <<on, book, phone, told>>
  BY DEF Commit, RollBack
<1> QED
  BY <1>1 DEF MessagesInv, MessagesTypes, WholeIsReady, PeopleStage, RolesStage, NoneTwice

(* The turn to the roles.                                                     *)
LEMMA PeopleWereTold ==
  ASSUME MessagesInv, run # NoRun, run.stage = "people", run.rest = {}, run.whole
  PROVE  /\ run.event \in {"executed", "settled", "assigned", "worker"} /\ phone[run.about] # NoPhone =>
              told[<<EventOf(run.event), phone[run.about].number>>] # 0
         /\ run.event \in ToManagers => \A q \in Managers : phone[q] # NoPhone =>
              told[<<run.event, phone[q].number>>] # 0
<1>1. /\ MessagesTypes /\ run.event \in Events /\ run.about \in People /\ run.managed \in BOOLEAN
      /\ \A m \in FirstTo(run.event, run.about, run.managed) : m.phone # NoPhone => told[Key(m)] # 0
  BY DEF MessagesInv, MessagesTypes, PeopleStage, Transaction
<1> QED
  BY <1>1, PeopleAreWrittenTo

LEMMA AddressedHasHeard ==
  ASSUME MessagesInv, run # NoRun, run.stage = "people", NEW p \in Addressed
  PROVE  HasHeard(p)
BY DEF MessagesInv, PeopleStage, Addressed

(* Whoever has not been told yet and is due is now in the rest.               *)
LEMMA RolesAreWrittenTo ==
  ASSUME MessagesInv, TurnToRoles
  PROVE  RolesStage'
<1>1. /\ run # NoRun /\ run.stage = "people" /\ run.rest = {} /\ run \in Transaction
      /\ run' = [run EXCEPT !.stage = "roles", !.rest = ToRoles(RolesOf, run.event), !.book = book]
      /\ UNCHANGED <<on, link, book, phone, told>>
  BY DEF TurnToRoles, MessagesInv, MessagesTypes
<1>2. /\ run'.rest = ToRoles(RolesOf, run.event) /\ run'.book = book
      /\ run'.event = run.event /\ run'.about = run.about /\ run'.managed = run.managed
      /\ run'.whole = run.whole
  BY <1>1 DEF Transaction
<1>3. MessagesTypes /\ run.event \in Events /\ run.about \in People
  BY <1>1 DEF MessagesInv, MessagesTypes, Transaction
<1> DEFINE e == run.event
           Heard(x) == told[x] # 0 \/ \E m \in run'.rest : m.phone # NoPhone /\ Key(m) = x
<1>4. SUFFICES ASSUME run.whole, NEW x \in Due' PROVE Heard(x)
  BY <1>1, <1>2 DEF RolesStage, Key
<1>5. on
  BY <1>1, <1>4 DEF MessagesInv, WholeIsReady, Ready
<1>6. ASSUME NEW r \in RolesOf, NEW n \in NumberOf(book[r]) PROVE Heard(<<e, n>>)
  <2>1. book[r] # NoPhone /\ n = book[r].number
    BY <1>6 DEF NumberOf
  <2>2. RolesOf \in SUBSET RoleKeys
    BY <1>1, RolesOfTypes
  <2>3. \E m \in ToRoles(RolesOf, e) : m.phone # NoPhone /\ Key(m) = <<e, book[r].number>>
    BY <1>3, <1>6, <2>1, <2>2, RoleMessages
  <2> QED
    BY <1>2, <2>1, <2>3
<1>7. \A p \in People : \A n \in NumberOf(phone[p]) : phone[p] # NoPhone /\ n = phone[p].number
  BY DEF NumberOf
<1>8. ASSUME e \in {"executed", "settled", "assigned", "worker"}, NEW n \in NumberOf(phone[run.about])
      PROVE  Heard(<<EventOf(e), n>>)
  BY <1>1, <1>3, <1>4, <1>7, <1>8, PeopleWereTold
<1>9. ASSUME e \in ToManagers, NEW p \in Managers, NEW n \in NumberOf(phone[p])
      PROVE  Heard(<<e, n>>)
  BY <1>1, <1>3, <1>4, <1>7, <1>9, PeopleWereTold, MessagesAssumption
<1>10. AdminNumbers' = NumberOf(book["system_admin"]) \cup NumberOf(book["hr_manager"])
  BY <1>2 DEF AdminNumbers, NumberOf
<1> HIDE DEF Heard
<1>11. CASE e = "created"
  <2>1. RolesOf = {"system_admin", "hr_manager"}
    BY <1>5, <1>11 DEF RolesOf, ToManagers
  <2>2. Due' = {<<e, n>> : n \in AdminNumbers'}
    BY <1>2, <1>11 DEF Due, ToManagers
  <2> QED
    BY <1>4, <1>6, <1>10, <2>1, <2>2
<1>12. CASE e = "pending_gm"
  <2>1. RolesOf = {"hr_manager"}
    BY <1>5, <1>12 DEF RolesOf, ToManagers
  <2>2. Due' = {<<e, n>> : n \in NumberOf(book["hr_manager"])}
    BY <1>2, <1>12 DEF Due, ToManagers, NumberOf
  <2> QED
    BY <1>4, <1>6, <2>1, <2>2
<1>13. CASE e = "settled"
  <2>1. RolesOf = {"system_admin", "hr_manager"} /\ EventOf(e) = "executed"
    BY <1>5, <1>13 DEF RolesOf, ToManagers, EventOf
  <2>2. Due' = {<<e, n>> : n \in AdminNumbers'} \cup {<<"executed", n>> : n \in NumberOf(phone[run.about])}
    BY <1>1, <1>2, <1>13 DEF Due, ToManagers, NumberOf
  <2> QED
    BY <1>4, <1>6, <1>8, <1>10, <1>13, <2>1, <2>2
<1>14. CASE e = "assigned"
  <2> DEFINE own == NumberOf(phone[run.about])
  <2>1. Due' = {<<e, n>> : n \in IF own # {} THEN own ELSE NumberOf(book["hr_officer"])}
    BY <1>1, <1>2, <1>14 DEF Due, ToManagers, NumberOf
  <2>2. CASE own # {}
    <3>1. EventOf(e) = e
      BY <1>14 DEF EventOf
    <3> QED
      BY <1>4, <1>8, <1>14, <2>1, <2>2, <3>1
  <2>3. CASE own = {}
    <3>1. Addressed = {}
      <4>1. SUFFICES ASSUME NEW p \in Addressed PROVE FALSE
        OBVIOUS
      <4>2. HasHeard(p)
        BY <1>1, AddressedHasHeard
      <4>3. p = run.about /\ phone[p] # NoPhone
        BY <1>14, <4>2 DEF HasHeard, Meant, ToManagers
      <4> QED
        BY <2>3, <4>3 DEF NumberOf
    <3>2. RolesOf = {"hr_officer"}
      BY <1>14, <3>1 DEF RolesOf, ToManagers
    <3> QED
      BY <1>4, <1>6, <2>1, <2>3, <3>2
  <2> QED
    BY <2>2, <2>3
<1>15. CASE e \in {"executed", "worker"}
  <2>1. EventOf(e) = e
    BY <1>15 DEF EventOf
  <2>2. Due' = {<<e, n>> : n \in NumberOf(phone[run.about])}
    BY <1>1, <1>2, <1>15 DEF Due, ToManagers, NumberOf
  <2> QED
    BY <1>4, <1>8, <1>15, <2>1, <2>2
<1>16. CASE e = "closed"
  BY <1>2, <1>4, <1>16 DEF Due, ToManagers
<1>17. CASE e \in ToManagers
  <2> DEFINE role == "maintenance_manager"
             theirs == UNION {NumberOf(phone[p]) : p \in Managers}
  <2>1. Due' = {<<e, n>> : n \in NumberOf(book[role]) \cup theirs}
    BY <1>1, <1>2, <1>17 DEF Due, ToManagers, NumberOf
  <2>2. ASSUME NEW n \in theirs PROVE Heard(<<e, n>>)
    BY <1>9, <1>17
  <2>3. ASSUME NEW n \in NumberOf(book[role]) PROVE Heard(<<e, n>>)
    <3>1. CASE ManagersReached(role)
      <4>1. PICK p \in Managers \cap Addressed : phone[p].number = book[role].number
        BY <3>1 DEF ManagersReached
      <4>2. HasHeard(p)
        BY <1>1, <4>1, AddressedHasHeard
      <4>3. phone[p] # NoPhone
        BY <4>2 DEF HasHeard
      <4>4. n \in NumberOf(phone[p])
        BY <2>3, <4>1, <4>3 DEF NumberOf
      <4> QED
        BY <1>9, <1>17, <4>1, <4>4
    <3>2. CASE ~ManagersReached(role)
      <4>1. RolesOf = {role}
        BY <1>17, <3>2 DEF RolesOf, ToManagers
      <4> QED
        BY <1>6, <2>3, <4>1
    <3> QED
      BY <3>1, <3>2
  <2> HIDE DEF theirs
  <2> QED
    BY <1>4, <2>1, <2>2, <2>3
<1> QED
  BY <1>3, <1>11, <1>12, <1>13, <1>14, <1>15, <1>16, <1>17 DEF Events, Broadcasts, ToOne

(* Whoever was told is not in the rest.                                       *)
LEMMA RolesAreNew ==
  ASSUME MessagesInv, run # NoRun, run.stage = "people", run.rest = {},
         ~(TypedOtherwise'), run'.event = run.event, run'.book = book, phone' = phone,
         NEW r \in RolesOf, book[r] # NoPhone
  PROVE  told[<<run.event, book[r].number>>] = 0
<1>1. run \in Transaction /\ MessagesTypes
  BY DEF MessagesInv, MessagesTypes
<1>2. r \in RoleKeys /\ book[r].number \in Mobiles /\ run.event \in Events
  <2>1. r \in RoleKeys
    BY RolesOfTypes
  <2>2. book[r] \in Written
    BY <1>1, <2>1, NumbersAreWritten
  <2> QED
    BY <1>1, <2>1, <2>2, NumbersAreWritten DEF Transaction
<1>3. SUFFICES ASSUME told[<<run.event, book[r].number>>] # 0 PROVE FALSE
  OBVIOUS
<1>4. PICK l \in run.rows : /\ l.status # "skipped" /\ HasHeard(l.to)
                            /\ <<run.event, book[r].number>> = <<OwnEvent, phone[l.to].number>>
  BY <1>2, <1>3 DEF MessagesInv, PeopleStage
<1>5. l.to \in Addressed
  BY <1>4 DEF Addressed
<1>6. Meant(l.to) /\ phone[l.to] # NoPhone /\ run.event = OwnEvent /\ book[r].number = phone[l.to].number
  BY <1>4 DEF HasHeard
<1>7. run.event \notin {"created", "pending_gm", "settled"}
  BY <1>6 DEF Meant, OwnEvent
<1>8. run.event = "closed" => RolesOf = {}
  BY <1>6 DEF Meant, RolesOf, ToManagers
<1>9. run.event = "assigned" => RolesOf = {}
  BY <1>5 DEF RolesOf, ToManagers
<1>10. run.event \in {"executed", "worker"} => RolesOf = {}
  BY DEF RolesOf, ToManagers
<1>11. run.event \in ToManagers
  BY <1>2, <1>7, <1>8, <1>9, <1>10 DEF Events, Broadcasts, ToOne
<1>12. r = "maintenance_manager" /\ ~ManagersReached("maintenance_manager")
  BY <1>11 DEF RolesOf, ToManagers
<1>13. l.to \in Managers
  BY <1>6, <1>11 DEF Meant
<1>14. book["maintenance_manager"].form # "966"
  BY <1>5, <1>6, <1>12, <1>13 DEF ManagersReached
<1>15. NumberOf(phone[l.to]) = NumberOf(book["maintenance_manager"])
  BY <1>6, <1>12 DEF NumberOf
<1>16. (TypedOtherwise') <=>
         /\ run'.event \in ToManagers
         /\ run'.book["maintenance_manager"] # NoPhone
         /\ run'.book["maintenance_manager"].form # "966"
         /\ \E p \in Managers : NumberOf(phone'[p]) = NumberOf(run'.book["maintenance_manager"])
  BY DEF TypedOtherwise, NumberOf
<1> QED
  BY <1>11, <1>12, <1>13, <1>14, <1>15, <1>16

LEMMA TurnKeeps ==
  ASSUME MessagesInv, TurnToRoles
  PROVE  MessagesInv'
<1>1. /\ run # NoRun /\ run.stage = "people" /\ run.rest = {} /\ run \in Transaction
      /\ run' = [run EXCEPT !.stage = "roles", !.rest = ToRoles(RolesOf, run.event), !.book = book]
      /\ UNCHANGED <<on, link, book, phone, told>>
  BY DEF TurnToRoles, MessagesInv, MessagesTypes
<1>2. MessagesTypes /\ run.event \in Events
  BY <1>1 DEF MessagesInv, MessagesTypes, Transaction
<1> DEFINE e == run.event
           rest == ToRoles(RolesOf, e)
<1>3. RolesOf \in SUBSET RoleKeys
  BY <1>1, RolesOfTypes
<1>4. /\ \A m \in rest : m \in Message /\ m.to \in RolesOf /\ m.phone = book[m.to] /\ m.phone # NoPhone /\ m.event = e
      /\ \A m1, m2 \in rest : m1.phone.number = m2.phone.number => m1 = m2
  BY <1>2, <1>3, RoleMessages
<1> HIDE DEF rest
<1>5. rest \in SUBSET Message /\ run' = [run EXCEPT !.stage = "roles", !.rest = rest, !.book = book]
  BY <1>1, <1>4 DEF rest
<1>6. /\ run' \in Transaction /\ run'.rest = rest /\ run'.book = book /\ run'.stage = "roles"
      /\ run'.event = run.event /\ run'.whole = run.whole
  BY <1>1, <1>2, <1>5 DEF MessagesTypes, Transaction
<1>7. MessagesTypes'
  BY <1>1, <1>2, <1>6 DEF MessagesTypes
<1>8. WholeIsReady'
  BY <1>1, <1>6 DEF MessagesInv, WholeIsReady, Ready
<1>9. PeopleStage'
  BY <1>6 DEF PeopleStage
<1>10. RolesStage'
  BY RolesAreWrittenTo
<1>11. NoneTwice'
  <2>1. SUFFICES ASSUME ~(SharedNumber'), ~(TypedOtherwise')
        PROVE  /\ \A x \in Events \X Mobiles : told[x] <= 1
               /\ \A m \in rest : m.phone # NoPhone => told[Key(m)] = 0
               /\ \A m1, m2 \in rest : m1.phone # NoPhone /\ m2.phone # NoPhone /\ Key(m1) = Key(m2) => m1 = m2
    BY <1>1, <1>6 DEF NoneTwice, Key
  <2>2. ~SharedNumber
    BY <1>1, <1>6, <2>1 DEF SharedNumber, NumberOf
  <2>3. \A x \in Events \X Mobiles : told[x] <= 1
    BY <1>1, <2>2 DEF MessagesInv, NoneTwice
  <2>4. ASSUME NEW m \in rest PROVE told[Key(m)] = 0
    <3>1. m.to \in RolesOf /\ m.phone = book[m.to] /\ m.phone # NoPhone /\ m.event = e
      BY <1>4
    <3>2. told[<<e, book[m.to].number>>] = 0
      BY <1>1, <1>6, <2>1, <3>1, RolesAreNew
    <3> QED
      BY <3>1, <3>2 DEF Key
  <2>5. \A m1, m2 \in rest : Key(m1) = Key(m2) => m1 = m2
    BY <1>4 DEF Key
  <2> QED
    BY <2>3, <2>4, <2>5
<1> QED
  BY <1>7, <1>8, <1>9, <1>10, <1>11 DEF MessagesInv

LEMMA MessagesInvHolds == MessagesSpec => []MessagesInv
<1>1. MessagesInit => MessagesInv
  BY DEF MessagesInit, MessagesInv, MessagesTypes, WholeIsReady, PeopleStage, RolesStage, NoneTwice
<1>2. MessagesInv /\ [MessagesNext]_messageVars => MessagesInv'
  <2>1. SUFFICES ASSUME MessagesInv, [MessagesNext]_messageVars PROVE MessagesInv'
    OBVIOUS
  <2>2. CASE \E e \in Events, p \in People, managed \in BOOLEAN : Begin(e, p, managed)
    BY <2>1, <2>2, BeginKeeps
  <2>3. CASE /\ run # NoRun
             /\ \E m \in run.rest : Skip(m) \/ \E status \in Status : Post(m, status)
    BY <2>1, <2>3, SendingKeeps
  <2>4. CASE TurnToRoles
    BY <2>1, <2>4, TurnKeeps
  <2>5. CASE Commit \/ RollBack
    BY <2>1, <2>5, EndKeeps
  <2>6. CASE (\E l \in Links : SaveGateway(l)) \/ (\E s \in BOOLEAN, b \in Books : SaveBook(s, b))
    BY <2>1, <2>6, SavesKeep
  <2>7. CASE UNCHANGED messageVars
    <3>1. on' = on /\ link' = link /\ book' = book /\ phone' = phone /\ run' = run /\ told' = told
      BY <2>7 DEF messageVars
    <3>2. MessagesTypes' /\ WholeIsReady'
      BY <2>1, <3>1 DEF MessagesInv, MessagesTypes, WholeIsReady, Ready
    <3>3. /\ FirstTo(run.event, run.about, run.managed)' = FirstTo(run.event, run.about, run.managed)
          /\ OwnEvent' = OwnEvent /\ Due' = Due
          /\ SharedNumber' = SharedNumber /\ TypedOtherwise' = TypedOtherwise
          /\ \A p : Meant(p)' <=> Meant(p)
      BY <3>1 DEF FirstTo, ToPerson, OwnEvent, Due, AdminNumbers, NumberOf, SharedNumber, TypedOtherwise, Meant
    <3>4. (\A p : HasHeard(p)' <=> HasHeard(p)) /\ (\A m : Personal(m)' <=> Personal(m))
      BY <3>1, <3>3 DEF HasHeard, Personal
    <3>5. PeopleStage' /\ RolesStage' /\ NoneTwice'
      BY <2>1, <3>1, <3>3, <3>4 DEF MessagesInv, PeopleStage, RolesStage, NoneTwice, Key
    <3> QED
      BY <3>2, <3>5 DEF MessagesInv
  <2> QED
    BY <2>1, <2>2, <2>3, <2>4, <2>5, <2>6, <2>7 DEF MessagesNext
<1> QED
  BY <1>1, <1>2, PTL DEF MessagesSpec

(* Whoever the people, the roles and their numbers are, a transaction writes  *)
(* once at most to a number for an event (but for managers with one number,   *)
(* and for the number of the maintenance role, which is looked up as it was   *)
(* typed), and one through which WhatsApp stayed ready has written to every   *)
(* number it had to reach (send_to_phones, phones_for_roles,                  *)
(* _send_to_user_or_role_fallback, notify_maintenance_created).               *)
THEOREM EveryoneIsToldOnce == MessagesSpec => []EveryoneToldOnce
<1>1. MessagesInv => EveryoneToldOnce
  <2>1. SUFFICES ASSUME MessagesInv, run # NoRun
        PROVE  /\ TypedOtherwise \/ SharedNumber \/ \A x \in Events \X Mobiles : told[x] <= 1
               /\ run.stage = "roles" /\ run.rest = {} /\ run.whole => \A x \in Due : told[x] >= 1
    BY DEF EveryoneToldOnce
  <2>2. TypedOtherwise \/ SharedNumber \/ \A x \in Events \X Mobiles : told[x] <= 1
    BY <2>1 DEF MessagesInv, NoneTwice
  <2>3. ASSUME run.stage = "roles", run.rest = {}, run.whole, NEW x \in Due PROVE told[x] >= 1
    <3>1. told[x] # 0
      BY <2>1, <2>3 DEF MessagesInv, RolesStage
    <3>2. told[x] \in Nat
      BY <2>1, DueIsNumbers DEF MessagesInv, MessagesTypes
    <3> QED
      BY <3>1, <3>2
  <2> QED
    BY <2>2, <2>3
<1> QED
  BY <1>1, MessagesInvHolds, PTL

(***************************************************************************)
(* GatewayLink: the status the page shows is the latest.                   *)
(***************************************************************************)

(* A code is sent while the instance is being connected.                      *)
Webhook == {e \in Event : e.kind = "code" => e.state = "connecting"}
AtGateway == {"absent", "close", "connecting", "open"}
GatewayTypes ==
  /\ setup \in Setup /\ gate \in [Names -> AtGateway] /\ hooked \in [Names -> BOOLEAN]
  /\ posts \in Seq(Webhook) /\ job \in [Admins -> Job \cup {NoJob}] /\ heard \in BOOLEAN

(* A request that is not late has read the status that is saved, until it has *)
(* an answer; then its answer is the state of the instance it asked about.    *)
Unanswered(j) == j.stage # "answered" \/ j.answer.state = "failed"
Tells(j, status, states) ==
  ~j.late =>
    IF Unanswered(j) THEN j.seen.status = status
    ELSE j.answer.state = states[j.seen.name] \/ (j.op = "connect" /\ j.answer.state = "unknown")
JobsTell == \A a \in Admins : job[a] # NoJob =>
  /\ Tells(job[a], setup.status, gate)
  /\ job[a].stage = "answered" =>
       job[a].op \in {"refresh", "connect"} /\ (job[a].answer.state = "failed" => job[a].op = "refresh")

(* The last webhook under way, if it is about the instance in use, says what  *)
(* state it is in.                                                            *)
LastPostTells ==
  heard /\ posts # <<>> /\ posts[Len(posts)].name = setup.name
    => posts[Len(posts)].state = gate[setup.name]

(* Without one the status is right, or the answer of a connection has yet to  *)
(* be saved.                                                                  *)
Awaited(a) == job[a] # NoJob /\ job[a].stage = "answered" /\ job[a].op = "connect"
StatusTells ==
  heard /\ posts = <<>> =>
    setup.status \in {"unknown", gate[setup.name]} \/ \E a \in Admins : Awaited(a)

LEMMA OutdatedJobs ==
  ASSUME GatewayTypes
  PROVE  /\ Outdated \in [Admins -> Job \cup {NoJob}]
         /\ \A a \in Admins : (Outdated[a] = NoJob <=> job[a] = NoJob)
         /\ \A a \in Admins : job[a] # NoJob =>
              /\ Outdated[a].late /\ Outdated[a].op = job[a].op /\ Outdated[a].stage = job[a].stage
              /\ Outdated[a].answer = job[a].answer /\ Outdated[a].seen = job[a].seen
<1>1. ASSUME NEW a \in Admins, job[a] # NoJob
      PROVE  LET o == [job[a] EXCEPT !.late = TRUE]
             IN /\ o \in Job /\ o.late /\ o.op = job[a].op /\ o.stage = job[a].stage
                /\ o.answer = job[a].answer /\ o.seen = job[a].seen
  BY <1>1 DEF GatewayTypes, Job
<1>2. \A a \in Admins : Outdated[a] = IF job[a] = NoJob THEN NoJob ELSE [job[a] EXCEPT !.late = TRUE]
  BY DEF Outdated
<1> QED
  BY <1>1, <1>2, GatewayAssumption DEF Outdated

LEMMA SentPosts ==
  ASSUME GatewayTypes, NEW n \in Names, NEW kind \in {"code", "connection"},
         NEW state \in {"open", "close", "connecting"}, kind = "code" => state = "connecting",
         Sends(n, kind, state)
  PROVE  /\ posts' \in Seq(Webhook)
         /\ hooked[n] => posts' # <<>> /\ posts'[Len(posts')] = [name |-> n, kind |-> kind, state |-> state]
         /\ ~hooked[n] => posts' = posts
<1> DEFINE e == [name |-> n, kind |-> kind, state |-> state]
<1>1. e \in Webhook
  BY DEF Event, Webhook
<1>2. posts \in Seq(Webhook) /\ posts' = IF hooked[n] THEN Append(posts, e) ELSE posts
  BY DEF Sends, GatewayTypes
<1> HIDE DEF e
<1> QED
  BY <1>1, <1>2 DEF e

LEMMA TakenPosts ==
  ASSUME GatewayTypes, NEW k \in DOMAIN posts
  PROVE  /\ Without(k) \in Seq(Webhook) /\ posts[k] \in Webhook
         /\ k = 1 /\ Without(k) # <<>> =>
              posts # <<>> /\ Without(k)[Len(Without(k))] = posts[Len(posts)]
         /\ k = 1 /\ Without(k) = <<>> => posts # <<>> /\ posts[1] = posts[Len(posts)]
<1>1. posts \in Seq(Webhook) /\ k \in 1..Len(posts) /\ Len(posts) \in Nat
  BY DEF GatewayTypes
<1>2. posts[k] \in Webhook
  BY <1>1
<1> DEFINE before == SubSeq(posts, 1, k - 1)
           after == SubSeq(posts, k + 1, Len(posts))
<1>3. before \in Seq(Webhook) /\ Len(before) = k - 1
  BY <1>1
<1>4. after \in Seq(Webhook) /\ Len(after) = Len(posts) - k
      /\ \A i \in 1..Len(after) : after[i] = posts[k + i]
  BY <1>1
<1>5. Without(k) = before \o after
  BY DEF Without
<1> HIDE DEF before, after
<1>6. Without(k) \in Seq(Webhook) /\ Len(Without(k)) = Len(posts) - 1
  BY <1>1, <1>3, <1>4, <1>5
<1>7. ASSUME k = 1, Without(k) # <<>>
      PROVE  posts # <<>> /\ Without(k)[Len(Without(k))] = posts[Len(posts)]
  <2>1. before = <<>>
    BY <1>3, <1>7
  <2>2. Without(k) = after
    BY <1>4, <1>5, <2>1
  <2>3. Len(after) \in 1..Len(after)
    BY <1>4, <1>7, <2>2
  <2> QED
    BY <1>1, <1>4, <1>7, <2>2, <2>3
<1>8. ASSUME k = 1, Without(k) = <<>>
      PROVE  posts # <<>> /\ posts[1] = posts[Len(posts)]
  <2>1. Len(posts) = 1
    BY <1>1, <1>6, <1>8
  <2> QED
    BY <1>1, <2>1
<1> QED
  BY <1>2, <1>6, <1>7, <1>8

LEMMA AnsweredJob ==
  ASSUME GatewayTypes, NEW a \in Admins, job[a] # NoJob,
         NEW state \in ConnectionStatus, NEW code \in BOOLEAN
  PROVE  LET x == Answered(a, state, code)
         IN /\ x \in Job /\ x # NoJob /\ x.stage = "answered" /\ ~x.late /\ x.answer.state = state
            /\ x.op = job[a].op /\ x.seen = job[a].seen
<1>1. job[a] \in Job
  BY DEF GatewayTypes
<1>2. [state |-> state, code |-> code] \in Answer
  BY DEF Answer
<1>3. Answered(a, state, code) \in Job
  BY <1>1, <1>2 DEF Answered, Job
<1> QED
  BY <1>1, <1>3, GatewayAssumption DEF Answered, Job

LEMMA FailedJob ==
  ASSUME GatewayTypes, NEW a \in Admins, job[a] # NoJob
  PROVE  LET x == [job[a] EXCEPT !.stage = "answered", !.answer.state = "failed"]
         IN /\ x \in Job /\ x # NoJob /\ x.stage = "answered" /\ x.late = job[a].late
            /\ x.answer.state = "failed" /\ x.op = job[a].op /\ x.seen = job[a].seen
<1> DEFINE x == [job[a] EXCEPT !.stage = "answered", !.answer.state = "failed"]
<1>1. job[a] \in Job /\ job[a].answer \in Answer
  BY DEF GatewayTypes, Job
<1>2. [job[a].answer EXCEPT !.state = "failed"] \in Answer /\ [job[a].answer EXCEPT !.state = "failed"].state = "failed"
  BY <1>1 DEF Answer
<1>3. x = [job[a] EXCEPT !.stage = "answered", !.answer = [job[a].answer EXCEPT !.state = "failed"]]
  BY <1>1 DEF Job
<1>4. x \in Job
  BY <1>1, <1>2, <1>3 DEF Job
<1>5. x.stage = "answered" /\ x.late = job[a].late /\ x.op = job[a].op /\ x.seen = job[a].seen
      /\ x.answer.state = "failed"
  BY <1>1, <1>2, <1>3 DEF Job
<1> HIDE DEF x
<1> QED
  BY <1>4, <1>5, GatewayAssumption DEF x

LEMMA SavedJob ==
  ASSUME GatewayTypes, NEW a \in Admins, job[a] # NoJob, NEW f \in Form
  PROVE  LET s == [job[a].seen EXCEPT !.name = f.name, !.key = f.key, !.hook = f.hook]
             x == [job[a] EXCEPT !.seen = s, !.stage = "saved"]
             y == [job[a] EXCEPT !.stage = "saved"]
         IN /\ s \in Setup /\ s.name = f.name /\ s.status = job[a].seen.status
            /\ x \in Job /\ x # NoJob /\ x.stage = "saved" /\ x.late = job[a].late /\ x.seen = s
            /\ y \in Job /\ y # NoJob /\ y.stage = "saved" /\ y.late = job[a].late /\ y.seen = job[a].seen
<1> DEFINE s == [job[a].seen EXCEPT !.name = f.name, !.key = f.key, !.hook = f.hook]
           x == [job[a] EXCEPT !.seen = s, !.stage = "saved"]
           y == [job[a] EXCEPT !.stage = "saved"]
<1>1. job[a] \in Job /\ job[a].seen \in Setup
  BY DEF GatewayTypes, Job
<1>2. s \in Setup /\ s.name = f.name /\ s.status = job[a].seen.status
  BY <1>1 DEF Setup, Form
<1> HIDE DEF s
<1>3. x \in Job /\ x.stage = "saved" /\ x.late = job[a].late /\ x.seen = s
  BY <1>1, <1>2 DEF Job
<1>4. y \in Job /\ y.stage = "saved" /\ y.late = job[a].late /\ y.seen = job[a].seen
  BY <1>1 DEF Job
<1> HIDE DEF x, y
<1> QED
  BY <1>2, <1>3, <1>4, GatewayAssumption DEF s, x, y

(* The request of one administrator changes, the others stay or become late.  *)
Changes(a, x) == \/ job' = [job EXCEPT ![a] = x]
                 \/ job' = [Outdated EXCEPT ![a] = x]

LEMMA OneChanges ==
  ASSUME GatewayTypes, NEW a \in Admins, NEW x \in Job \cup {NoJob}, Changes(a, x)
  PROVE  /\ job' \in [Admins -> Job \cup {NoJob}] /\ job'[a] = x
         /\ \A b \in Admins \ {a} :
              /\ job'[b] = NoJob <=> job[b] = NoJob
              /\ job'[b] = job[b] \/ job'[b].late
              /\ job[b] # NoJob =>
                   /\ job'[b].op = job[b].op /\ job'[b].stage = job[b].stage
                   /\ job'[b].answer = job[b].answer /\ job'[b].seen = job[b].seen
         /\ job' = [Outdated EXCEPT ![a] = x] =>
              \A b \in Admins \ {a} : job'[b] # NoJob => job'[b].late
<1>1. job \in [Admins -> Job \cup {NoJob}]
  BY DEF GatewayTypes
<1>2. CASE job' = [job EXCEPT ![a] = x]
  <2>1. job' \in [Admins -> Job \cup {NoJob}] /\ job'[a] = x /\ \A b \in Admins \ {a} : job'[b] = job[b]
    BY <1>1, <1>2
  <2>2. job' = [Outdated EXCEPT ![a] = x] =>
              \A b \in Admins \ {a} : job'[b] # NoJob => job'[b].late
    BY OutdatedJobs
  <2> QED
    BY <2>1, <2>2
<1>3. CASE job' = [Outdated EXCEPT ![a] = x]
  <2>1. job' \in [Admins -> Job \cup {NoJob}] /\ job'[a] = x /\ \A b \in Admins \ {a} : job'[b] = Outdated[b]
    BY <1>3, OutdatedJobs
  <2> QED
    BY <2>1, OutdatedJobs
<1> QED
  BY <1>2, <1>3 DEF Changes

LEMMA GatewayTypesStep ==
  ASSUME GatewayTypes, JobsTell, [GatewayNext]_gatewayVars
  PROVE  GatewayTypes'
<1> USE DEF GatewayTypes
<1>1. Outdated \in [Admins -> Job \cup {NoJob}]
  BY OutdatedJobs
<1>a. ASSUME NEW a \in Admins, NEW x \in Job \cup {NoJob}, Changes(a, x)
      PROVE  job' \in [Admins -> Job \cup {NoJob}]
  BY <1>a, OneChanges
<1>2. ASSUME NEW n \in Names, NewCode(n) PROVE GatewayTypes'
  BY <1>2, SentPosts DEF NewCode
<1>3. ASSUME NEW n \in Names, NEW state \in {"open", "close"}, Moves(n, state) PROVE GatewayTypes'
  <2>1. posts' \in Seq(Webhook)
    BY <1>3, SentPosts DEF Moves
  <2>2. gate' \in [Names -> AtGateway]
    BY <1>3 DEF Moves, AtGateway
  <2>3. heard' \in BOOLEAN
    BY <1>3 DEF Moves
  <2> QED
    BY <1>1, <1>3, <2>1, <2>2, <2>3 DEF Moves
<1>4. ASSUME NEW k \in DOMAIN posts, Deliver(k) PROVE GatewayTypes'
  <2>1. posts' \in Seq(Webhook) /\ posts[k] \in Webhook
    BY <1>4, TakenPosts DEF Deliver
  <2>2. Apply(posts[k]) \in Setup
    BY <2>1 DEF Apply, Webhook, Event, Setup, ConnectionStatus
  <2>3. heard' \in BOOLEAN
    BY <1>4 DEF Deliver
  <2> QED
    BY <1>1, <1>4, <2>1, <2>2, <2>3 DEF Deliver
<1>5. ASSUME NEW k \in DOMAIN posts, Refuse(k) PROVE GatewayTypes'
  BY <1>5, TakenPosts DEF Refuse
<1>6. ASSUME NEW a \in Admins, NEW op \in Buttons, NEW form \in {{}} \cup {{f} : f \in Forms}, Press(a, op, form)
      PROVE GatewayTypes'
  <2> DEFINE x == [op |-> op, form |-> form, seen |-> setup, stage |-> "loaded",
                   answer |-> NoAnswer, late |-> FALSE]
  <2>1. x \in Job
    <3>1. NoAnswer \in Answer
      BY DEF NoAnswer, Answer, ConnectionStatus
    <3>2. form \in SUBSET Form
      BY GatewayAssumption
    <3> QED
      BY <3>1, <3>2 DEF Job
  <2>2. Changes(a, x) /\ UNCHANGED <<setup, gate, hooked, posts, heard>>
    BY <1>6 DEF Press, Changes
  <2> QED
    BY <1>a, <2>1, <2>2
<1>7. ASSUME NEW a \in Admins, SaveForm(a) PROVE GatewayTypes'
  <2>1. job[a] # NoJob /\ job[a] \in Job /\ UNCHANGED <<gate, hooked, posts>>
    BY <1>7 DEF SaveForm
  <2>2. CASE job[a].form = {}
    <3>1. [job[a] EXCEPT !.stage = "saved"] \in Job
      BY <2>1 DEF Job
    <3>2. Changes(a, [job[a] EXCEPT !.stage = "saved"]) /\ UNCHANGED <<setup, heard>>
      BY <1>7, <2>2 DEF SaveForm, Changes, Continues
    <3> QED
      BY <1>a, <2>1, <3>1, <3>2
  <2>3. CASE job[a].form # {}
    <3>1. PICK f \in job[a].form :
            LET s == [job[a].seen EXCEPT !.name = f.name, !.key = f.key, !.hook = f.hook]
            IN /\ setup' = s /\ heard' = (heard /\ ~job[a].late /\ f.name = setup.name)
               /\ job' = [Outdated EXCEPT ![a] =
                    IF job[a].op = "save" THEN NoJob ELSE [job[a] EXCEPT !.seen = s, !.stage = "saved"]]
      BY <1>7, <2>3 DEF SaveForm
    <3>2. f \in Form
      BY <2>1 DEF Job
    <3> DEFINE s == [job[a].seen EXCEPT !.name = f.name, !.key = f.key, !.hook = f.hook]
               x == IF job[a].op = "save" THEN NoJob ELSE [job[a] EXCEPT !.seen = s, !.stage = "saved"]
    <3>3. s \in Setup /\ x \in Job \cup {NoJob}
      BY <2>1, <3>2, SavedJob
    <3>4. Changes(a, x) /\ setup' = s /\ heard' \in BOOLEAN
      BY <3>1 DEF Changes
    <3> HIDE DEF s, x
    <3> QED
      BY <1>a, <2>1, <3>3, <3>4
  <2> QED
    BY <2>2, <2>3
<1>8. ASSUME NEW a \in Admins, Fails(a) PROVE GatewayTypes'
  <2>1. \E x \in Job \cup {NoJob} : Changes(a, x)
    BY <1>8, FailedJob DEF Fails, Mine, Continues, Leaves, Changes
  <2> QED
    BY <1>8, <1>a, <2>1 DEF Fails
<1>9. ASSUME NEW a \in Admins, AskState(a) PROVE GatewayTypes'
  <2>1. /\ job[a] # NoJob /\ Continues(a, Answered(a, gate[job[a].seen.name], FALSE))
        /\ job[a].seen.name \in Names
    BY <1>9 DEF AskState, Mine, Job, Setup
  <2>2. gate[job[a].seen.name] \in ConnectionStatus
    BY <1>9, <2>1 DEF AskState, Reached, AtGateway, ConnectionStatus
  <2>3. Answered(a, gate[job[a].seen.name], FALSE) \in Job
    BY <2>1, <2>2, AnsweredJob
  <2>4. job' \in [Admins -> Job \cup {NoJob}]
    BY <2>1, <2>3, <1>a DEF Continues, Changes
  <2> QED
    BY <1>9, <2>4 DEF AskState
<1>10. ASSUME NEW a \in Admins, AskCreate(a) PROVE GatewayTypes'
  <2>1. gate' \in [Names -> AtGateway] /\ heard' \in BOOLEAN
    BY <1>10 DEF AskCreate, AtGateway
  <2> QED
    BY <1>10, <2>1 DEF AskCreate, Leaves
<1>11. ASSUME NEW a \in Admins, NEW state \in ConnectionStatus, AskConnect(a, state) PROVE GatewayTypes'
  <2> DEFINE n == job[a].seen.name
  <2>1. job[a] # NoJob /\ n \in Names /\ UNCHANGED <<setup, hooked>>
    BY <1>11 DEF AskConnect, Mine, Job, Setup
  <2>2. \A code \in BOOLEAN : Answered(a, state, code) \in Job
    BY <2>1, AnsweredJob
  <2>3. CASE gate[n] = "open"
    <3>1. Changes(a, Answered(a, state, FALSE)) /\ UNCHANGED <<gate, posts, heard>>
      BY <1>11, <2>3 DEF AskConnect, Continues, Changes
    <3> QED
      BY <1>a, <2>1, <2>2, <3>1
  <2>4. CASE gate[n] # "open"
    <3>1. /\ Changes(a, Answered(a, state, TRUE)) /\ Sends(n, "code", "connecting")
          /\ gate' = [gate EXCEPT ![n] = "connecting"] /\ heard' = (heard /\ (hooked[n] \/ posts = <<>>))
      BY <1>11, <2>4 DEF AskConnect, Changes
    <3>2. gate' \in [Names -> AtGateway] /\ heard' \in BOOLEAN
      BY <3>1 DEF AtGateway
    <3>3. posts' \in Seq(Webhook)
      BY <2>1, <3>1, SentPosts
    <3> QED
      BY <1>a, <2>1, <2>2, <3>1, <3>2, <3>3
  <2> QED
    BY <2>3, <2>4
<1>12. ASSUME NEW a \in Admins, AskWebhook(a) PROVE GatewayTypes'
  <2>1. job[a].seen.hook \in BOOLEAN
    BY <1>12 DEF AskWebhook, Mine, Job, Setup
  <2> QED
    BY <1>12, <2>1 DEF AskWebhook, Leaves
<1>13. ASSUME NEW a \in Admins, StoreAnswer(a) PROVE GatewayTypes'
  <2>1. job[a] \in Job /\ job[a].seen \in Setup /\ job[a].answer \in Answer
    BY <1>13 DEF StoreAnswer, Job
  <2>2. Changes(a, NoJob) /\ UNCHANGED <<gate, hooked, posts>> /\ heard' \in BOOLEAN
    BY <1>13 DEF StoreAnswer, Changes
  <2>3. setup' \in Setup
    <3>1. CASE job[a].op = "refresh"
      <4> DEFINE status == IF job[a].answer.state = "failed" THEN job[a].seen.status ELSE job[a].answer.state
      <4>1. setup' = [setup EXCEPT !.status = status]
        BY <1>13, <3>1 DEF StoreAnswer, Refreshed
      <4>2. status \in ConnectionStatus
        BY <2>1 DEF Setup, Answer
      <4> HIDE DEF status
      <4> QED
        BY <4>1, <4>2 DEF Setup
    <3>2. CASE job[a].op # "refresh"
      <4> DEFINE code == job[a].answer.code \/ job[a].seen.code
      <4>1. setup' = [setup EXCEPT !.status = job[a].answer.state, !.code = code]
        BY <1>13, <3>2 DEF StoreAnswer, Connected
      <4>2. job[a].answer.state \in ConnectionStatus
        BY <1>13, <2>1, <3>2 DEF StoreAnswer, JobsTell, Answer
      <4>3. code \in BOOLEAN
        BY <2>1 DEF Setup, Answer
      <4> HIDE DEF code
      <4> QED
        BY <4>1, <4>2, <4>3 DEF Setup
    <3> QED
      BY <3>1, <3>2
  <2> QED
    BY <1>a, <2>2, <2>3
<1>14. CASE UNCHANGED gatewayVars
  BY <1>14 DEF gatewayVars
<1> QED
  BY <1>2, <1>3, <1>4, <1>5, <1>6, <1>7, <1>8, <1>9, <1>10, <1>11, <1>12, <1>13, <1>14 DEF GatewayNext

Asks(j) == j.stage = "answered" =>
  j.op \in {"refresh", "connect"} /\ (j.answer.state = "failed" => j.op = "refresh")

LEMMA JobsTellStep ==
  ASSUME GatewayTypes, JobsTell, [GatewayNext]_gatewayVars
  PROVE  JobsTell'
<1>0. \A a \in Admins : job[a] # NoJob =>
        job[a] \in Job /\ job[a].seen \in Setup /\ job[a].answer \in Answer /\ Tells(job[a], setup.status, gate) /\ Asks(job[a])
  BY DEF GatewayTypes, JobsTell, Job, Asks
(* All the requests are late.                                                 *)
<1>a. ASSUME job' = Outdated PROVE JobsTell'
  <2>1. \A a \in Admins : job'[a] # NoJob => Tells(job'[a], setup'.status, gate') /\ Asks(job'[a])
    BY <1>0, <1>a, OutdatedJobs DEF Tells, Asks
  <2> QED
    BY <2>1 DEF JobsTell, Asks
(* What a request has told holds of what it has told.                         *)
<1>b. ASSUME NEW a \in Admins, NEW x \in Job \cup {NoJob}, Changes(a, x),
             job' = [Outdated EXCEPT ![a] = x] \/
               (setup' = setup /\ \A n \in Names : gate[n] # "absent" => gate'[n] = gate[n]),
             x # NoJob => Tells(x, setup'.status, gate') /\ Asks(x)
      PROVE  JobsTell'
  <2>1. ASSUME NEW b \in Admins, b # a, job'[b] # NoJob PROVE Tells(job'[b], setup'.status, gate') /\ Asks(job'[b])
    <3>1. /\ job[b] # NoJob /\ job'[b].op = job[b].op /\ job'[b].stage = job[b].stage
          /\ job'[b].answer = job[b].answer /\ job'[b].seen = job[b].seen
          /\ job'[b] = job[b] \/ job'[b].late
      BY <1>b, <2>1, OneChanges
    <3>2. Asks(job'[b])
      BY <1>0, <3>1 DEF Asks
    <3>3. CASE job'[b].late
      BY <3>2, <3>3 DEF Tells
    <3>4. CASE ~job'[b].late
      <4>1. setup' = setup /\ \A n \in Names : gate[n] # "absent" => gate'[n] = gate[n]
        BY <1>b, <2>1, <3>4, OneChanges
      <4>2. Tells(job[b], setup.status, gate) /\ job'[b] = job[b] /\ job[b].seen.name \in Names /\ job[b].answer.state # "absent"
        BY <1>0, <3>1, <3>4 DEF Setup, Answer, ConnectionStatus
      <4> QED
        BY <3>2, <4>1, <4>2 DEF Tells, Unanswered
    <3> QED
      BY <3>2, <3>3, <3>4
  <2>2. job'[a] = x
    BY <1>b, OneChanges
  <2>3. \A b \in Admins : job'[b] # NoJob => Tells(job'[b], setup'.status, gate') /\ Asks(job'[b])
    BY <1>b, <2>1, <2>2
  <2> QED
    BY <2>3 DEF JobsTell, Asks
<1>c. ASSUME UNCHANGED <<setup, gate, job>> PROVE JobsTell'
  BY <1>c DEF JobsTell, Tells, Unanswered
<1>2. ASSUME NEW n \in Names, NewCode(n) PROVE JobsTell'
  BY <1>2, <1>c DEF NewCode
<1>3. ASSUME NEW n \in Names, NEW state \in {"open", "close"}, Moves(n, state) PROVE JobsTell'
  BY <1>3, <1>a DEF Moves
<1>4. ASSUME NEW k \in DOMAIN posts, Deliver(k) PROVE JobsTell'
  BY <1>4, <1>a DEF Deliver
<1>5. ASSUME NEW k \in DOMAIN posts, Refuse(k) PROVE JobsTell'
  BY <1>5, <1>c DEF Refuse
<1>6. ASSUME NEW a \in Admins, NEW op \in Buttons, NEW form \in {{}} \cup {{f} : f \in Forms}, Press(a, op, form)
      PROVE  JobsTell'
  <2> DEFINE x == [op |-> op, form |-> form, seen |-> setup, stage |-> "loaded",
                   answer |-> NoAnswer, late |-> FALSE]
  <2>1. x \in Job
    <3>1. NoAnswer \in Answer
      BY DEF NoAnswer, Answer, ConnectionStatus
    <3>2. form \in SUBSET Form
      BY GatewayAssumption
    <3> QED
      BY <3>1, <3>2 DEF Job, GatewayTypes
  <2>2. Changes(a, x) /\ UNCHANGED <<setup, gate>>
    BY <1>6 DEF Press, Changes
  <2>3. Tells(x, setup'.status, gate') /\ Asks(x)
    BY <2>2 DEF Tells, Unanswered, Asks
  <2> HIDE DEF x
  <2> QED
    BY <1>b, <2>1, <2>2, <2>3
<1>7. ASSUME NEW a \in Admins, SaveForm(a) PROVE JobsTell'
  <2>1. job[a] # NoJob /\ job[a].stage = "loaded" /\ UNCHANGED <<gate>>
    BY <1>7 DEF SaveForm
  <2>2. CASE job[a].form = {}
    <3> DEFINE y == [job[a] EXCEPT !.stage = "saved"]
    <3>1. Changes(a, y) /\ UNCHANGED setup
      BY <1>7, <2>2 DEF SaveForm, Changes, Continues
    <3>2. y \in Job /\ y.stage = "saved" /\ y.late = job[a].late /\ y.seen = job[a].seen
      BY <1>0, <2>1 DEF Job
    <3> HIDE DEF y
    <3>3. Tells(y, setup'.status, gate') /\ Asks(y)
      BY <1>0, <2>1, <3>1, <3>2 DEF Tells, Unanswered, Asks
    <3> QED
      BY <1>b, <2>1, <3>1, <3>2, <3>3
  <2>3. CASE job[a].form # {}
    <3>1. PICK f \in job[a].form :
            LET s == [job[a].seen EXCEPT !.name = f.name, !.key = f.key, !.hook = f.hook]
            IN /\ setup' = s
               /\ job' = [Outdated EXCEPT ![a] =
                    IF job[a].op = "save" THEN NoJob ELSE [job[a] EXCEPT !.seen = s, !.stage = "saved"]]
      BY <1>7, <2>3 DEF SaveForm
    <3>2. f \in Form
      BY <1>0, <2>1 DEF Job
    <3> DEFINE s == [job[a].seen EXCEPT !.name = f.name, !.key = f.key, !.hook = f.hook]
               y == [job[a] EXCEPT !.seen = s, !.stage = "saved"]
               x == IF job[a].op = "save" THEN NoJob ELSE y
    <3>3. y \in Job /\ y.stage = "saved" /\ y.seen = s
      BY <2>1, <3>2, SavedJob
    <3>4. setup' = s /\ job' = [Outdated EXCEPT ![a] = x]
      BY <3>1
    <3> HIDE DEF s, y
    <3>5. x \in Job \cup {NoJob} /\ (x # NoJob => Tells(x, setup'.status, gate') /\ Asks(x))
      BY <3>3, <3>4 DEF Tells, Unanswered, Asks
    <3>6. Changes(a, x)
      BY <3>4 DEF Changes
    <3> HIDE DEF x
    <3> QED
      BY <1>b, <3>4, <3>5, <3>6
  <2> QED
    BY <2>2, <2>3
<1>d. ASSUME NEW a \in Admins, Changes(a, NoJob), setup' = setup,
             \A n \in Names : gate[n] # "absent" => gate'[n] = gate[n]
      PROVE  JobsTell'
  BY <1>b, <1>d
<1>8. ASSUME NEW a \in Admins, Fails(a) PROVE JobsTell'
  <2>1. job[a] # NoJob /\ job[a].stage = "saved" /\ UNCHANGED <<setup, gate>>
    BY <1>8 DEF Fails, Mine
  <2>2. CASE job[a].op = "refresh"
    <3> DEFINE x == [job[a] EXCEPT !.stage = "answered", !.answer.state = "failed"]
    <3>1. Changes(a, x)
      BY <1>8, <2>2 DEF Fails, Continues, Changes
    <3>2. /\ x \in Job /\ x.stage = "answered" /\ x.late = job[a].late
          /\ x.answer.state = "failed" /\ x.op = job[a].op /\ x.seen = job[a].seen
      BY <2>1, FailedJob
    <3> HIDE DEF x
    <3>3. Tells(x, setup'.status, gate') /\ Asks(x)
      BY <1>0, <2>1, <2>2, <3>2 DEF Tells, Unanswered, Asks
    <3> QED
      BY <1>b, <2>1, <3>1, <3>2, <3>3
  <2>3. CASE job[a].op # "refresh"
    BY <1>8, <1>d, <2>1, <2>3 DEF Fails, Leaves, Changes
  <2> QED
    BY <2>2, <2>3
<1>9. ASSUME NEW a \in Admins, AskState(a) PROVE JobsTell'
  <2> DEFINE state == gate[job[a].seen.name]
             x == Answered(a, state, FALSE)
  <2>1. job[a] # NoJob /\ job[a].op = "refresh" /\ UNCHANGED <<setup, gate>> /\ Changes(a, x)
    BY <1>9 DEF AskState, Mine, Continues, Changes
  <2>2. state \in ConnectionStatus /\ state # "failed"
    <3>1. job[a].seen.name \in Names
      BY <1>0, <2>1 DEF Setup
    <3> QED
      BY <1>9, <3>1 DEF AskState, Reached, AtGateway, ConnectionStatus, GatewayTypes
  <2>3. /\ x \in Job /\ x.stage = "answered" /\ x.answer.state = state
        /\ x.op = job[a].op /\ x.seen = job[a].seen
    BY <2>1, <2>2, AnsweredJob
  <2> HIDE DEF x
  <2>4. Tells(x, setup'.status, gate') /\ Asks(x)
    BY <2>1, <2>2, <2>3 DEF Tells, Unanswered, Asks
  <2> QED
    BY <1>b, <2>1, <2>3, <2>4
<1>10. ASSUME NEW a \in Admins, AskCreate(a) PROVE JobsTell'
  <2>1. \A n \in Names : gate[n] # "absent" => gate'[n] = gate[n]
    BY <1>10 DEF AskCreate, GatewayTypes
  <2>2. Changes(a, NoJob) /\ setup' = setup
    BY <1>10 DEF AskCreate, Leaves, Changes
  <2> QED
    BY <1>d, <2>1, <2>2
<1>11. ASSUME NEW a \in Admins, NEW state \in ConnectionStatus, AskConnect(a, state) PROVE JobsTell'
  <2> DEFINE n == job[a].seen.name
  <2>1. job[a] # NoJob /\ job[a].op = "connect" /\ n \in Names /\ UNCHANGED setup
    BY <1>0, <1>11 DEF AskConnect, Mine, Setup
  <2>2. state # "failed"
    BY DEF ConnectionStatus
  <2>3. ASSUME NEW code \in BOOLEAN, state = "unknown" \/ gate'[n] = state
        PROVE  LET x == Answered(a, state, code)
               IN x \in Job /\ Tells(x, setup'.status, gate') /\ Asks(x)
    <3> DEFINE x == Answered(a, state, code)
    <3>1. /\ x \in Job /\ x.stage = "answered" /\ x.answer.state = state
          /\ x.op = job[a].op /\ x.seen = job[a].seen
      BY <2>1, AnsweredJob
    <3> HIDE DEF x
    <3>2. Tells(x, setup'.status, gate') /\ Asks(x)
      BY <2>1, <2>2, <2>3, <3>1 DEF Tells, Unanswered, Asks
    <3> QED
      BY <3>1, <3>2 DEF x
  <2>4. CASE gate[n] = "open"
    <3>1. Changes(a, Answered(a, state, FALSE)) /\ UNCHANGED gate /\ gate[n] = state
      BY <1>11, <2>4 DEF AskConnect, Continues, Changes
    <3> QED
      BY <1>b, <2>1, <2>3, <3>1
  <2>5. CASE gate[n] # "open"
    <3>1. /\ job' = [Outdated EXCEPT ![a] = Answered(a, state, TRUE)]
          /\ gate' = [gate EXCEPT ![n] = "connecting"] /\ state \in {"unknown", "connecting"}
      BY <1>11, <2>5 DEF AskConnect
    <3>2. gate'[n] = "connecting" /\ Changes(a, Answered(a, state, TRUE))
      BY <2>1, <3>1 DEF Changes, GatewayTypes
    <3> QED
      BY <1>b, <2>3, <3>1, <3>2
  <2> QED
    BY <2>4, <2>5
<1>12. ASSUME NEW a \in Admins, AskWebhook(a) PROVE JobsTell'
  BY <1>12, <1>d DEF AskWebhook, Leaves, Changes
<1>13. ASSUME NEW a \in Admins, StoreAnswer(a) PROVE JobsTell'
  BY <1>13, <1>b DEF StoreAnswer, Changes
<1>14. CASE UNCHANGED gatewayVars
  BY <1>14, <1>c DEF gatewayVars
<1> QED
  BY <1>2, <1>3, <1>4, <1>5, <1>6, <1>7, <1>8, <1>9, <1>10, <1>11, <1>12, <1>13, <1>14 DEF GatewayNext

LEMMA LatestStep ==
  ASSUME GatewayTypes, JobsTell, LastPostTells, StatusTells, [GatewayNext]_gatewayVars
  PROVE  LastPostTells' /\ StatusTells'
<1>0. /\ \A a \in Admins : job[a] # NoJob =>
           /\ job[a] \in Job /\ job[a].seen \in Setup /\ job[a].answer \in Answer
           /\ Tells(job[a], setup.status, gate) /\ Asks(job[a])
      /\ setup \in Setup /\ setup.name \in Names
  BY DEF GatewayTypes, JobsTell, Job, Asks, Setup
<1>a. ASSUME posts' = posts, heard' => heard, setup'.name = setup.name, gate'[setup.name] = gate[setup.name],
             heard' => setup'.status = setup.status,
             \A b \in Admins : Awaited(b) => Awaited(b)'
      PROVE  LastPostTells' /\ StatusTells'
  BY <1>a DEF LastPostTells, StatusTells
<1>b. ASSUME ~heard' PROVE LastPostTells' /\ StatusTells'
  BY <1>b DEF LastPostTells, StatusTells
<1>c. ASSUME posts' # <<>>,
             heard' /\ setup'.name = posts'[Len(posts')].name => posts'[Len(posts')].state = gate'[setup'.name]
      PROVE  LastPostTells' /\ StatusTells'
  BY <1>c DEF LastPostTells, StatusTells
(* No answer of a connection is lost but by saving it.                        *)
<1>d. ASSUME job' = Outdated PROVE \A b \in Admins : Awaited(b) => Awaited(b)'
  BY <1>d, OutdatedJobs DEF Awaited
<1>e. ASSUME NEW a \in Admins, NEW x \in Job \cup {NoJob}, Changes(a, x), ~Awaited(a)
      PROVE  \A b \in Admins : Awaited(b) => Awaited(b)'
  <2>1. \A b \in Admins \ {a} : Awaited(b) => Awaited(b)'
    BY <1>e, OneChanges DEF Awaited
  <2> QED
    BY <1>e, <2>1
<1>2. ASSUME NEW n \in Names, NewCode(n) PROVE LastPostTells' /\ StatusTells'
  <2>1. gate[n] = "connecting" /\ Sends(n, "code", "connecting") /\ UNCHANGED <<setup, gate, hooked, job, heard>>
    BY <1>2 DEF NewCode
  <2>2. CASE hooked[n]
    <3>1. posts' # <<>> /\ posts'[Len(posts')] = [name |-> n, kind |-> "code", state |-> "connecting"]
      BY <2>1, <2>2, SentPosts
    <3> QED
      BY <1>c, <2>1, <3>1
  <2>3. CASE ~hooked[n]
    <3>1. posts' = posts
      BY <2>1, <2>3, SentPosts
    <3> QED
      BY <1>a, <2>1, <3>1 DEF Awaited
  <2> QED
    BY <2>2, <2>3
<1>3. ASSUME NEW n \in Names, NEW state \in {"open", "close"}, Moves(n, state)
      PROVE  LastPostTells' /\ StatusTells'
  <2>1. /\ gate' = [gate EXCEPT ![n] = state] /\ Sends(n, "connection", state)
        /\ job' = Outdated /\ heard' = (heard /\ (hooked[n] \/ n # setup.name))
        /\ UNCHANGED <<setup, hooked>>
    BY <1>3 DEF Moves
  <2>2. CASE hooked[n]
    <3>1. posts' # <<>> /\ posts'[Len(posts')] = [name |-> n, kind |-> "connection", state |-> state]
      BY <2>1, <2>2, SentPosts
    <3>2. gate'[n] = state
      BY <2>1 DEF GatewayTypes
    <3> QED
      BY <1>c, <2>1, <3>1, <3>2
  <2>3. CASE ~hooked[n] /\ n # setup.name
    <3>1. posts' = posts
      BY <2>1, <2>3, SentPosts
    <3>2. gate'[setup.name] = gate[setup.name]
      BY <1>0, <2>1, <2>3 DEF GatewayTypes
    <3> QED
      BY <1>a, <1>d, <2>1, <3>1, <3>2
  <2>4. CASE ~hooked[n] /\ n = setup.name
    BY <1>b, <2>1, <2>4
  <2> QED
    BY <2>2, <2>3, <2>4
<1>4. ASSUME NEW k \in DOMAIN posts, Deliver(k) PROVE LastPostTells' /\ StatusTells'
  <2>1. SUFFICES ASSUME heard' PROVE LastPostTells' /\ StatusTells'
    BY <1>b
  <2>2. /\ heard /\ k = 1 /\ posts[1].name = setup.name /\ posts' = Without(1)
        /\ setup' = Apply(posts[1]) /\ UNCHANGED gate
    BY <1>4, <2>1 DEF Deliver
  <2>3. setup'.name = setup.name /\ setup'.status = IF posts[1].kind = "code" THEN "connecting" ELSE posts[1].state
    BY <1>0, <2>2 DEF Apply, Setup
  <2>4. CASE posts' # <<>>
    <3>1. posts # <<>> /\ posts'[Len(posts')] = posts[Len(posts)]
      BY <2>2, <2>4, TakenPosts
    <3> QED
      BY <1>c, <2>2, <2>3, <2>4, <3>1 DEF LastPostTells
  <2>5. CASE posts' = <<>>
    <3>1. posts # <<>> /\ posts[1] = posts[Len(posts)] /\ posts[1] \in Webhook
      BY <2>2, <2>5, TakenPosts
    <3>2. posts[1].state = gate[setup.name]
      BY <2>2, <3>1 DEF LastPostTells
    <3>3. setup'.status = posts[1].state
      BY <2>3, <3>1 DEF Webhook
    <3> QED
      BY <2>2, <2>3, <2>5, <3>2, <3>3 DEF LastPostTells, StatusTells
  <2> QED
    BY <2>4, <2>5
<1>5. ASSUME NEW k \in DOMAIN posts, Refuse(k) PROVE LastPostTells' /\ StatusTells'
  BY <1>5, <1>b DEF Refuse
<1>6. ASSUME NEW a \in Admins, NEW op \in Buttons, NEW form \in {{}} \cup {{f} : f \in Forms}, Press(a, op, form)
      PROVE  LastPostTells' /\ StatusTells'
  <2> DEFINE x == [op |-> op, form |-> form, seen |-> setup, stage |-> "loaded",
                   answer |-> NoAnswer, late |-> FALSE]
  <2>1. job' = [job EXCEPT ![a] = x] /\ ~Awaited(a) /\ UNCHANGED <<setup, gate, posts, heard>>
    BY <1>6 DEF Press, Awaited
  <2>2. \A b \in Admins : Awaited(b) => Awaited(b)'
    BY <2>1 DEF Awaited, GatewayTypes
  <2> QED
    BY <1>a, <2>1, <2>2
<1>7. ASSUME NEW a \in Admins, SaveForm(a) PROVE LastPostTells' /\ StatusTells'
  <2>1. job[a] # NoJob /\ job[a].stage = "loaded" /\ ~Awaited(a) /\ UNCHANGED <<gate, posts>>
    BY <1>7 DEF SaveForm, Awaited
  <2>2. CASE job[a].form = {}
    <3> DEFINE y == [job[a] EXCEPT !.stage = "saved"]
    <3>1. Changes(a, y) /\ UNCHANGED <<setup, heard>>
      BY <1>7, <2>2 DEF SaveForm, Changes, Continues
    <3>2. y \in Job
      BY <1>0, <2>1 DEF Job
    <3> HIDE DEF y
    <3> QED
      BY <1>a, <1>e, <2>1, <3>1, <3>2
  <2>3. CASE job[a].form # {}
    <3>1. PICK f \in job[a].form :
            LET s == [job[a].seen EXCEPT !.name = f.name, !.key = f.key, !.hook = f.hook]
            IN /\ setup' = s /\ heard' = (heard /\ ~job[a].late /\ f.name = setup.name)
               /\ job' = [Outdated EXCEPT ![a] =
                    IF job[a].op = "save" THEN NoJob ELSE [job[a] EXCEPT !.seen = s, !.stage = "saved"]]
      BY <1>7, <2>3 DEF SaveForm
    <3>2. f \in Form
      BY <1>0, <2>1 DEF Job
    <3> DEFINE s == [job[a].seen EXCEPT !.name = f.name, !.key = f.key, !.hook = f.hook]
               y == [job[a] EXCEPT !.seen = s, !.stage = "saved"]
               x == IF job[a].op = "save" THEN NoJob ELSE y
    <3>3. y \in Job /\ s.name = f.name /\ s.status = job[a].seen.status
      BY <2>1, <3>2, SavedJob
    <3>4. setup' = s /\ job' = [Outdated EXCEPT ![a] = x]
      BY <3>1
    <3> HIDE DEF s, y
    <3>5. x \in Job \cup {NoJob} /\ Changes(a, x)
      BY <3>3, <3>4 DEF Changes
    <3>6. heard' => heard /\ setup'.name = setup.name /\ setup'.status = setup.status
      BY <1>0, <2>1, <3>1, <3>3, <3>4 DEF Tells, Unanswered
    <3> HIDE DEF x
    <3> QED
      BY <1>a, <1>b, <1>e, <2>1, <3>5, <3>6
  <2> QED
    BY <2>2, <2>3
<1>f. ASSUME NEW a \in Admins, NEW x \in Job \cup {NoJob}, Changes(a, x), ~Awaited(a),
             UNCHANGED <<setup, posts>>, heard' => heard /\ gate' = gate
      PROVE  LastPostTells' /\ StatusTells'
  BY <1>a, <1>b, <1>e, <1>f
<1>8. ASSUME NEW a \in Admins, Fails(a) PROVE LastPostTells' /\ StatusTells'
  <2>1. ~Awaited(a) /\ UNCHANGED <<setup, gate, posts, heard>>
    BY <1>8 DEF Fails, Mine, Awaited
  <2>2. \E x \in Job \cup {NoJob} : Changes(a, x)
    BY <1>8, FailedJob DEF Fails, Mine, Continues, Leaves, Changes
  <2> QED
    BY <1>f, <2>1, <2>2
<1>9. ASSUME NEW a \in Admins, AskState(a) PROVE LastPostTells' /\ StatusTells'
  <2> DEFINE state == gate[job[a].seen.name]
             x == Answered(a, state, FALSE)
  <2>1. job[a] # NoJob /\ ~Awaited(a) /\ UNCHANGED <<setup, gate, posts, heard>> /\ Changes(a, x)
    BY <1>9 DEF AskState, Mine, Continues, Changes, Awaited
  <2>2. state \in ConnectionStatus
    <3>1. job[a].seen.name \in Names
      BY <1>0, <2>1 DEF Setup
    <3> QED
      BY <1>9, <3>1 DEF AskState, Reached, AtGateway, ConnectionStatus, GatewayTypes
  <2>3. x \in Job
    BY <2>1, <2>2, AnsweredJob
  <2> HIDE DEF x
  <2> QED
    BY <1>f, <2>1, <2>3
<1>10. ASSUME NEW a \in Admins, AskCreate(a) PROVE LastPostTells' /\ StatusTells'
  BY <1>10, <1>f DEF AskCreate, Leaves, Changes, Awaited, Mine
<1>11. ASSUME NEW a \in Admins, NEW state \in ConnectionStatus, AskConnect(a, state)
       PROVE  LastPostTells' /\ StatusTells'
  <2> DEFINE n == job[a].seen.name
  <2>1. job[a] # NoJob /\ job[a].op = "connect" /\ ~Awaited(a) /\ n \in Names /\ UNCHANGED <<setup, hooked>>
    BY <1>0, <1>11 DEF AskConnect, Mine, Setup, Awaited
  <2>2. CASE gate[n] = "open"
    <3>1. Changes(a, Answered(a, state, FALSE)) /\ UNCHANGED <<gate, posts, heard>>
      BY <1>11, <2>2 DEF AskConnect, Continues, Changes
    <3>2. Answered(a, state, FALSE) \in Job
      BY <2>1, AnsweredJob
    <3> QED
      BY <1>f, <2>1, <3>1, <3>2
  <2>3. CASE gate[n] # "open"
    <3>1. /\ job' = [Outdated EXCEPT ![a] = Answered(a, state, TRUE)]
          /\ gate' = [gate EXCEPT ![n] = "connecting"] /\ Sends(n, "code", "connecting")
          /\ heard' = (heard /\ (hooked[n] \/ posts = <<>>))
      BY <1>11, <2>3 DEF AskConnect
    <3>2. gate'[n] = "connecting"
      BY <2>1, <3>1 DEF GatewayTypes
    <3>3. CASE hooked[n]
      <4>1. posts' # <<>> /\ posts'[Len(posts')] = [name |-> n, kind |-> "code", state |-> "connecting"]
        BY <2>1, <3>1, <3>3, SentPosts
      <4> QED
        BY <1>c, <2>1, <3>2, <4>1
    <3>4. CASE ~hooked[n]
      <4>1. posts' = posts /\ (heard' => posts = <<>>)
        BY <2>1, <3>1, <3>4, SentPosts
      <4>2. LET x == Answered(a, state, TRUE)
            IN x \in Job /\ x # NoJob /\ x.stage = "answered" /\ x.op = "connect"
        BY <2>1, AnsweredJob
      <4>3. job'[a] = Answered(a, state, TRUE)
        BY <3>1, OutdatedJobs
      <4>4. Awaited(a)'
        BY <4>2, <4>3 DEF Awaited
      <4> QED
        BY <4>1, <4>4 DEF LastPostTells, StatusTells
    <3> QED
      BY <3>3, <3>4
  <2> QED
    BY <2>2, <2>3
<1>12. ASSUME NEW a \in Admins, AskWebhook(a) PROVE LastPostTells' /\ StatusTells'
  BY <1>12, <1>f DEF AskWebhook, Leaves, Changes, Awaited, Mine
<1>13. ASSUME NEW a \in Admins, StoreAnswer(a) PROVE LastPostTells' /\ StatusTells'
  <2> DEFINE j == job[a]
  <2>1. SUFFICES ASSUME heard' PROVE LastPostTells' /\ StatusTells'
    BY <1>b
  <2>2. /\ j # NoJob /\ j.stage = "answered" /\ ~j.late /\ UNCHANGED <<gate, posts>>
        /\ \/ j.op = "refresh" /\ j.answer.state # "failed" /\ j.seen.name = setup.name /\ posts = <<>>
           \/ heard /\ j.seen.name = setup.name
        /\ job' = [Outdated EXCEPT ![a] = NoJob]
        /\ setup' = IF j.op = "refresh" THEN Refreshed(j) ELSE Connected(j)
    BY <1>13, <2>1 DEF StoreAnswer
  <2>3. Tells(j, setup.status, gate) /\ Asks(j) /\ j.seen.name = setup.name
    BY <1>0, <2>2
  <2>4. setup'.name = setup.name
    BY <1>0, <2>2 DEF Refreshed, Connected, Setup
  <2>5. LastPostTells'
    BY <2>2, <2>4 DEF LastPostTells
  <2>6. CASE j.op = "refresh" /\ j.answer.state = "failed"
    <3>1. setup'.status = setup.status /\ heard
      BY <1>0, <2>2, <2>3, <2>6 DEF Refreshed, Setup, Tells, Unanswered
    <3>2. ~Awaited(a) /\ Changes(a, NoJob)
      BY <2>2, <2>6 DEF Awaited, Changes
    <3> QED
      BY <1>a, <1>e, <2>2, <2>4, <3>1, <3>2
  <2>7. CASE ~(j.op = "refresh" /\ j.answer.state = "failed")
    <3>1. setup'.status = j.answer.state
      BY <1>0, <2>2, <2>7 DEF Refreshed, Connected, Setup
    <3>2. j.answer.state \in {"unknown", gate[setup.name]}
      BY <2>2, <2>3, <2>7 DEF Tells, Unanswered, Asks
    <3> QED
      BY <2>2, <2>4, <2>5, <3>1, <3>2 DEF StatusTells
  <2> QED
    BY <2>6, <2>7
<1>14. CASE UNCHANGED gatewayVars
  BY <1>14, <1>a DEF gatewayVars, Awaited
<1> QED
  BY <1>2, <1>3, <1>4, <1>5, <1>6, <1>7, <1>8, <1>9, <1>10, <1>11, <1>12, <1>13, <1>14 DEF GatewayNext

(* When nothing is under way, and since the last answer of the gateway every  *)
(* change of the instance was sent and handled in order and no request saved  *)
(* what it had read before another change, the page shows the instance as it  *)
(* is, or says that it does not know (EvolutionWebhookView.post,              *)
(* sync_settings_status, whatsapp_integration).                               *)
THEOREM StatusShownIsLatest == GatewaySpec => []StatusIsLatest
<1> DEFINE Inv == GatewayTypes /\ JobsTell /\ LastPostTells /\ StatusTells
<1>1. GatewayInit => Inv
  BY DEF GatewayInit, GatewayTypes, JobsTell, LastPostTells, StatusTells, AtGateway
<1>2. Inv /\ [GatewayNext]_gatewayVars => Inv'
  BY GatewayTypesStep, JobsTellStep, LatestStep
<1>3. Inv => StatusIsLatest
  BY DEF StatusTells, StatusIsLatest, Awaited
<1> QED
  BY <1>1, <1>2, <1>3, PTL DEF GatewaySpec

(***************************************************************************)
(* ContractForm: a contract that was shown and saved is lawful.            *)
(***************************************************************************)

HasKind(f) == f.kind # ""

ContractInv ==
  /\ year \in Nat \ {0} /\ decided \in Nat /\ decided <= year
  /\ employee # NoFile => employee \in Person
  /\ request # NoFile => request \in Person /\ employee = NoFile
  /\ employee = NoFile => decided = 0
  /\ employee # NoFile => /\ decided # 0 => Lawful(employee, decided) /\ HasKind(employee)
                          /\ ~sponsored => employee.bank = {} /\ ~employee.sponsor

LEMMA SyncedIsPerson ==
  ASSUME NEW f \in Person
  PROVE  /\ Synced(f) \in Person
         /\ HasKind(Synced(f)) /\ Synced(f).sponsor = f.sponsor /\ Synced(f).bank = f.bank
         /\ Synced(f).nationality = f.nationality /\ Synced(f).hired = f.hired
         /\ Synced(f).start = f.start /\ Synced(f).gosi = f.gosi
         /\ AutoUnlimited(f) => /\ Synced(f).kind = "unlimited" /\ Synced(f).months = NoMonths
                                /\ ~Synced(f).text /\ Synced(f).expiry = 0
         /\ ~AutoUnlimited(f) =>
              /\ Synced(f).kind = IF f.kind = "" THEN "fixed" ELSE f.kind
              /\ Synced(f).months = f.months /\ Synced(f).text = f.text
              /\ \/ Synced(f).expiry = f.expiry
                 \/ f.expiry = 0 /\ f.months > 0 /\ Synced(f).expiry = f.start + f.months
<1>1. 0 \in 0..(Horizon + 2) /\ NoMonths \in NoMonths..2 /\ Horizon \in Nat
  BY ContractAssumption DEF NoMonths
<1>2. f.months > 0 => f.start + f.months \in 0..(Horizon + 2)
  BY <1>1 DEF Person, Year, NoMonths
<1>3. CASE AutoUnlimited(f)
  BY <1>1, <1>3 DEF Synced, Person, ContractType, HasKind
<1>4. CASE ~AutoUnlimited(f)
  <2> DEFINE kind == IF f.kind = "" THEN "fixed" ELSE f.kind
             dated == kind = "fixed" /\ f.nationality = "saudi" /\ f.start # 0 /\ f.months > 0 /\ f.expiry = 0
             expiry == IF dated THEN f.start + f.months ELSE f.expiry
  <2>1. Synced(f) = [f EXCEPT !.kind = kind, !.expiry = expiry]
    BY <1>4 DEF Synced
  <2>2. kind \in ContractType /\ kind # "" /\ expiry \in 0..(Horizon + 2)
        /\ (expiry = f.expiry \/ (f.expiry = 0 /\ f.months > 0 /\ expiry = f.start + f.months))
    BY <1>2 DEF Person, ContractType
  <2>3. kind = IF f.kind = "" THEN "fixed" ELSE f.kind
    OBVIOUS
  <2> HIDE DEF kind, expiry
  <2> QED
    BY <1>4, <2>1, <2>2, <2>3 DEF Person, HasKind
<1> QED
  BY <1>3, <1>4

(* What the whole form lets through is lawful on the day it is saved.         *)
LEMMA CheckedIsLawful ==
  ASSUME NEW f \in Person, NEW nationality \in Nationalities, NEW hired \in Year,
         f.nationality # "none" => nationality = f.nationality,
         f.hired # 0 => hired = f.hired,
         year \in Nat,
         ContractErrors(Synced(f), nationality, hired)
           \cap {"contract_type", "contract_duration_months", "contract_duration_text", "contract_expiry_date"} = {}
  PROVE  Lawful(Synced(f), year)
<1> DEFINE g == Synced(f)
<1>1. /\ g \in Person /\ g.nationality = f.nationality /\ g.hired = f.hired /\ HasKind(g)
      /\ AutoUnlimited(f) => g.kind = "unlimited" /\ g.months = NoMonths /\ ~g.text /\ g.expiry = 0
  BY SyncedIsPerson
<1>2. AutoUnlimited(f) <=> AutoUnlimited(g)
  BY <1>1 DEF AutoUnlimited
<1>3. /\ ~(nationality = "saudi" /\ g.kind = "unlimited" /\ hired # 0 /\ year < hired + 3)
      /\ ~(g.kind = "fixed" /\ nationality = "saudi" /\ g.months \notin {NoMonths, 1})
      /\ ~(g.start # 0 /\ g.expiry # 0 /\ g.expiry < g.start)
      /\ ~(g.kind = "fixed" /\ nationality # "saudi" /\ ~g.text /\ g.months = NoMonths /\ g.expiry = 0)
  BY DEF ContractErrors
<1>4. /\ g.kind \in {"fixed", "unlimited"} /\ g.expiry \in Nat
      /\ g.start \in Nat /\ g.hired \in Nat
  <2> HIDE DEF g
  <2>1. /\ g.kind \in ContractType /\ g.expiry \in 0..(Horizon + 2)
        /\ g.start \in Year /\ g.hired \in Year
    BY <1>1 DEF Person
  <2> QED
    <3>1. g.kind \in {"fixed", "unlimited"}
      BY <1>1, <2>1 DEF ContractType, HasKind
    <3>2. g.expiry \in Nat /\ g.start \in Nat /\ g.hired \in Nat
      BY <2>1, ContractAssumption DEF Year
    <3> QED
      BY <3>1, <3>2
<1> HIDE DEF g
<1>5. g.nationality = "saudi" /\ g.hired # 0 =>
        /\ g.kind = "unlimited" <=> year >= g.hired + 3
        /\ g.kind = "unlimited" => g.months = NoMonths /\ ~g.text /\ g.expiry = 0
  <2> SUFFICES ASSUME g.nationality = "saudi", g.hired # 0
               PROVE  /\ g.kind = "unlimited" <=> year >= g.hired + 3
                      /\ g.kind = "unlimited" => g.months = NoMonths /\ ~g.text /\ g.expiry = 0
    OBVIOUS
  <2>1. nationality = "saudi" /\ hired = g.hired
    BY <1>1
  <2> QED
    <3>1. AutoUnlimited(g) <=> year >= g.hired + 3
      BY DEF AutoUnlimited
    <3>2. g.kind = "unlimited" <=> AutoUnlimited(g)
      <4>1. CASE g.kind = "unlimited"
        BY <1>3, <1>4, <2>1, <3>1, <4>1
      <4>2. CASE AutoUnlimited(g)
        BY <1>1, <1>2, <4>2
      <4> QED
        BY <4>1, <4>2
    <3> QED
      BY <1>1, <1>2, <3>1, <3>2
<1>6. g.nationality = "saudi" /\ g.kind = "fixed" => g.months \in {NoMonths, 1}
  BY <1>1, <1>3, <1>4
<1>7. g.nationality = "other" /\ g.kind = "fixed" => g.text \/ g.months # NoMonths \/ g.expiry # 0
  BY <1>1, <1>3, <1>4
<1>8. g.start # 0 /\ g.expiry # 0 => g.expiry >= g.start
  BY <1>3, <1>4
<1> QED
  BY <1>5, <1>6, <1>7, <1>8 DEF Lawful, g

LEMMA SavesIsLawful ==
  ASSUME ContractInv, NEW old \in Person, NEW new \in Person, NEW tabs \in SUBSET Tabs,
         Saves(old, new, tabs), ~sponsored => old.bank = {} /\ ~old.sponsor
  PROVE  /\ employee' \in Person /\ decided' \in {0, year}
         /\ decided' # 0 => Lawful(employee', year) /\ HasKind(employee')
         /\ ~sponsored' => employee'.bank = {} /\ ~employee'.sponsor
<1> DEFINE f == Filled(old, new, tabs)
           bank == SavedBank(old, new, "salary" \in tabs)
<1>1. f \in Person /\ f.nationality = new.nationality /\ f.hired = new.hired /\ f.sponsor = new.sponsor
  <2> DEFINE terms == IF "contract" \in tabs THEN new ELSE old
             pay == IF "salary" \in tabs THEN new ELSE old
  <2>1. f = [new EXCEPT !.kind = terms.kind, !.months = terms.months, !.text = terms.text,
                 !.start = terms.start, !.expiry = terms.expiry, !.gosi = pay.gosi]
    BY DEF Filled
  <2>2. terms \in Person /\ pay \in Person
    OBVIOUS
  <2> HIDE DEF terms, pay, f
  <2> QED
    BY <2>1, <2>2 DEF Person
<1>2. bank \subseteq BankParts /\ (~sponsored' => bank = {})
  <2>1. sponsored' = (sponsored \/ new.sponsor)
    BY DEF Saves
  <2>2. new.bank \subseteq BankParts /\ old.bank \subseteq BankParts
    BY DEF Person
  <2> QED
    BY <2>1, <2>2 DEF SavedBank, Normalized, Sponsored
<1>3. employee' = [Synced(f) EXCEPT !.bank = bank] /\ FormValid(old, f, new, tabs)
      /\ decided' = (IF "contract" \in tabs THEN year ELSE 0)
  BY DEF Saves
<1>4. /\ Synced(f) \in Person /\ HasKind(Synced(f)) /\ Synced(f).sponsor = new.sponsor
  BY <1>1, SyncedIsPerson
<1> HIDE DEF f, bank
<1>5. employee' \in Person /\ HasKind(employee') /\ employee'.bank = bank /\ employee'.sponsor = new.sponsor
  BY <1>2, <1>3, <1>4 DEF Person, HasKind
<1>6. Lawful(Synced(f), year) => Lawful(employee', year)
  BY <1>3, <1>4 DEF Lawful, Person
<1>7. ~sponsored' => ~new.sponsor
  BY DEF Saves
<1>8. ASSUME "contract" \in tabs PROVE Lawful(Synced(f), year)
  <2> DEFINE nationality == Or(new.nationality, old.nationality, "none")
             hired == Or(new.hired, old.hired, 0)
  <2>1. /\ nationality \in Nationalities /\ hired \in Year
        /\ (f.nationality # "none" => nationality = f.nationality)
        /\ (f.hired # 0 => hired = f.hired)
    BY <1>1 DEF Or, Person
  <2>2. ContractErrors(Synced(f), nationality, hired) \cap ContractFields(old, tabs) = {}
    BY <1>3 DEF FormValid
  <2>3. ContractFields(old, tabs) =
          {"contract_type", "contract_duration_months", "contract_duration_text", "contract_expiry_date"}
    BY <1>8 DEF ContractFields
  <2>4. year \in Nat
    BY DEF ContractInv
  <2> HIDE DEF nationality, hired
  <2> QED
    BY <1>1, <2>1, <2>2, <2>3, <2>4, CheckedIsLawful
<1> QED
  BY <1>2, <1>3, <1>5, <1>6, <1>7, <1>8

(* Time and the page of the contract keep a lawful contract lawful.           *)
LEMMA AgedIsLawful ==
  ASSUME ContractInv, employee \in Person, decided # 0, Lawful(employee, decided), HasKind(employee)
  PROVE  Lawful(Synced(employee), year)
<1> DEFINE g == Synced(employee)
<1>1. /\ employee \in Person /\ g \in Person /\ g.nationality = employee.nationality /\ g.hired = employee.hired /\ g.start = employee.start
      /\ AutoUnlimited(employee) => g.kind = "unlimited" /\ g.months = NoMonths /\ ~g.text /\ g.expiry = 0
      /\ ~AutoUnlimited(employee) =>
           /\ g.kind = employee.kind /\ g.months = employee.months /\ g.text = employee.text
           /\ g.expiry = employee.expiry \/ (employee.expiry = 0 /\ employee.months > 0 /\ g.expiry = employee.start + employee.months)
  BY SyncedIsPerson DEF HasKind
<1>2. /\ employee.months \in Int /\ employee.expiry \in Nat /\ employee.start \in Nat /\ employee.hired \in Nat
      /\ year \in Nat /\ decided \in Nat /\ decided <= year
  <2>1. /\ employee.months \in NoMonths..2 /\ employee.expiry \in 0..(Horizon + 2) /\ employee.start \in Year /\ employee.hired \in Year
    BY DEF Person
  <2>2. employee.months \in Int /\ employee.expiry \in Nat /\ employee.start \in Nat /\ employee.hired \in Nat
    <3> QED
      BY <2>1, ContractAssumption DEF Year, NoMonths
  <2>3. year \in Nat /\ decided \in Nat /\ decided <= year
    BY DEF ContractInv
  <2> QED
    BY <2>2, <2>3
<1> HIDE DEF g
<1>3. ASSUME AutoUnlimited(employee) PROVE Lawful(g, year)
  <2>1. year >= g.hired + 3
    BY <1>1, <1>3 DEF AutoUnlimited
  <2> QED
    BY <1>1, <1>3, <2>1 DEF Lawful
<1>4. ASSUME ~AutoUnlimited(employee) PROVE Lawful(g, year)
  <2>1. Lawful(employee, decided)
    OBVIOUS
  <2>2. employee.nationality = "saudi" /\ employee.hired # 0 => ~(year >= employee.hired + 3) /\ ~(decided >= employee.hired + 3)
    <3>1. employee.nationality = "saudi" /\ employee.hired # 0 => ~(year >= employee.hired + 3)
      BY <1>4 DEF AutoUnlimited
    <3>2. ~(year >= employee.hired + 3) => ~(decided >= employee.hired + 3)
      BY <1>2
    <3> QED
      BY <3>1, <3>2
  <2>3. g.nationality = "saudi" /\ g.hired # 0 => g.kind # "unlimited" /\ ~(year >= g.hired + 3)
    BY <1>1, <1>4, <2>1, <2>2, ~AutoUnlimited(employee) DEF Lawful, HasKind
  <2>4. g.nationality = "saudi" /\ g.kind = "fixed" => g.months \in {NoMonths, 1}
    BY <1>1, <1>4, <2>1 DEF Lawful
  <2>5. g.nationality = "other" /\ g.kind = "fixed" => g.text \/ g.months # NoMonths \/ g.expiry # 0
    BY <1>1, <1>2, <1>4, <2>1 DEF Lawful
  <2>6. g.start # 0 /\ g.expiry # 0 => g.expiry >= g.start
    <3>1. employee.start # 0 /\ employee.expiry # 0 => employee.expiry >= employee.start
      BY <2>1 DEF Lawful
    <3>2. employee.months > 0 => employee.start + employee.months >= employee.start
      BY <1>2
    <3> QED
      BY <1>1, <1>4, <3>1, <3>2
  <2> QED
    BY <2>3, <2>4, <2>5, <2>6 DEF Lawful
<1> QED
  BY <1>3, <1>4 DEF g

LEMMA Blank == 0 \in Year /\ 0 \in 0..(Horizon + 2) /\ NoMonths \in NoMonths..2 /\ "" \in ContractType /\ Empty \in Person
<1>1. 0 \in Year /\ 0 \in 0..(Horizon + 2) /\ NoMonths \in NoMonths..2
  BY ContractAssumption DEF Year, NoMonths
<1>2. "" \in ContractType
  BY DEF ContractType
<1> HIDE DEF Year, ContractType
<1>3. Empty \in Person
  BY <1>1, <1>2 DEF Empty, Person, Nationalities
<1> QED
  BY <1>1, <1>2, <1>3

LEMMA ContractStep ==
  ASSUME ContractInv, [ContractNext]_contractVars
  PROVE  ContractInv'
<1>0. Posted \subseteq Person /\ Horizon \in Nat /\ NoFile \notin Person
  BY ContractAssumption
<1>1. ASSUME NEW old \in Person, NEW new \in Posted, NEW tabs \in SUBSET Tabs, Saves(old, new, tabs),
             ~sponsored => old.bank = {} /\ ~old.sponsor,
             request = NoFile, UNCHANGED <<request, year>>
      PROVE  ContractInv'
  <2>1. /\ employee' \in Person /\ decided' \in {0, year}
        /\ decided' # 0 => Lawful(employee', year) /\ HasKind(employee')
        /\ ~sponsored' => employee'.bank = {} /\ ~employee'.sponsor
    BY <1>0, <1>1, SavesIsLawful
  <2>2. decided' # 0 => decided' = year
    BY <2>1
  <2>3. decided' \in Nat /\ decided' <= year
    BY <2>1 DEF ContractInv
  <2> QED
    BY <1>0, <1>1, <2>1, <2>2, <2>3 DEF ContractInv
<1>2. ASSUME NEW new \in Posted, NEW tabs \in SUBSET Tabs, CreateEmployee(new, tabs) PROVE ContractInv'
  <2>1. Empty \in Person /\ Empty.bank = {} /\ ~Empty.sponsor
    BY Blank DEF Empty
  <2> QED
    BY <1>1, <1>2, <2>1 DEF CreateEmployee
<1>3. ASSUME NEW new \in Posted, NEW tabs \in SUBSET Tabs, EditEmployee(new, tabs) PROVE ContractInv'
  BY <1>1, <1>3 DEF EditEmployee, ContractInv
<1>4. ASSUME NEW f \in Person, Hire(f), request # NoFile PROVE ContractInv'
  BY <1>4 DEF Hire, ContractInv
<1>5. ASSUME NEW new \in Posted, NEW tab, SaveRequest(tab, new) PROVE ContractInv'
  <2> DEFINE bank == SavedBank(request, new, TRUE)
             f == [new EXCEPT !.kind = "", !.months = NoMonths, !.text = FALSE, !.start = 0, !.bank = bank]
  <2>1. bank \subseteq BankParts
    BY <1>0 DEF SavedBank, Normalized, Person
  <2>2. f \in Person
    <3> HIDE DEF bank
    <3> QED
      BY <1>0, <2>1, Blank DEF Person
  <2>3. request # NoFile /\ (Hire(f) \/ (request' = f /\ UNCHANGED <<employee, year, decided, sponsored>>))
    BY <1>5 DEF SaveRequest
  <2> HIDE DEF f
  <2> QED
    BY <1>4, <2>2, <2>3 DEF ContractInv
<1>6. CASE ApproveRequest
  BY <1>4, <1>6 DEF ApproveRequest, ContractInv
<1>7. CASE ViewContract
  <2>1. /\ employee \in Person /\ request = NoFile /\ employee' = Synced(employee)
        /\ decided' = (IF decided = 0 THEN 0 ELSE year)
        /\ UNCHANGED <<request, year, sponsored>>
    BY <1>7 DEF ViewContract, ContractInv
  <2>2. /\ employee' \in Person /\ HasKind(employee')
        /\ employee'.bank = employee.bank /\ employee'.sponsor = employee.sponsor
    BY <2>1, SyncedIsPerson
  <2>3. decided # 0 => Lawful(employee', year)
    BY <2>1, AgedIsLawful DEF ContractInv
  <2> QED
    BY <1>0, <2>1, <2>2, <2>3 DEF ContractInv
<1>8. CASE NextYear
  BY <1>8 DEF NextYear, ContractInv
<1>9. CASE UNCHANGED contractVars
  BY <1>9 DEF contractVars, ContractInv
<1>10. ASSUME NEW d \in 1..Horizon, Reactivate(d) PROVE ContractInv'
  <2>1. /\ employee \in Person /\ request = NoFile /\ decided' = 0
        /\ employee' = [employee EXCEPT !.hired = d] /\ UNCHANGED <<request, year, sponsored>>
    BY <1>10 DEF Reactivate, ContractInv
  <2>2. d \in Year
    BY <1>0 DEF Year
  <2>3. /\ employee' \in Person
        /\ employee'.bank = employee.bank /\ employee'.sponsor = employee.sponsor
    BY <2>1, <2>2 DEF Person
  <2> QED
    BY <1>0, <2>1, <2>3 DEF ContractInv
<1> QED
  BY <1>2, <1>3, <1>5, <1>6, <1>7, <1>8, <1>9, <1>10 DEF ContractNext

(* With requests one at a time, and however a file came to be, was edited     *)
(* with fields left blank, aged and was hired again: a contract that the page *)
(* has shown and saved since the hire or the last return was lawful on the    *)
(* day it was last saved or brought up to date, and who was never under a     *)
(* sponsorship has no bank details (EmployeeForm.clean,                       *)
(* sync_employee_contract, normalize_salary_payment_fields).                  *)
THEOREM ContractsAreLawful == ContractSpec => []ContractIsLawful
<1>1. ContractInit => ContractInv
  <2>1. Empty \in Person
    BY Blank
  <2> QED
    BY <2>1 DEF ContractInit, ContractInv
<1>2. ContractInv /\ [ContractNext]_contractVars => ContractInv'
  BY ContractStep
<1>3. ContractInv => ContractIsLawful
  BY DEF ContractInv, ContractIsLawful
<1> QED
  BY <1>1, <1>2, <1>3, PTL DEF ContractSpec

(***************************************************************************)
(* PayrollLines: pay and insurance follow the days of employment.  A sum   *)
(* grows with each of its factors, rounding keeps the order, and thirty    *)
(* thirtieths or a hundred hundredths give the amount itself.              *)
(***************************************************************************)

LEMMA FactorsGrow ==
  ASSUME NEW a \in Nat, NEW b \in Nat, NEW m \in Nat, NEW n \in Nat, a <= b, m <= n
  PROVE  a * m \in Nat /\ a * m <= b * n
<1>1. PICK k \in Nat : n = m + k
  <2>1. n - m \in Nat /\ n = m + (n - m)
    OBVIOUS
  <2> QED
    BY <2>1
<1>2. PICK l \in Nat : b = a + l
  <2>1. b - a \in Nat /\ b = a + (b - a)
    OBVIOUS
  <2> QED
    BY <2>1
<1>3. b * n = a * n + l * n /\ a * n = a * m + a * k
  BY <1>1, <1>2
<1>4. a * m \in Nat /\ l * n \in Nat /\ a * k \in Nat
  BY <1>1, <1>2
<1> QED
  BY <1>3, <1>4

LEMMA ThirtiethsGrow ==
  ASSUME NEW m \in Nat, NEW n \in Nat, m <= n
  PROVE  Quantized(m, 30) \in Nat /\ Quantized(m, 30) <= Quantized(n, 30)
BY DEF Quantized

LEMMA HundredthsGrow ==
  ASSUME NEW m \in Nat, NEW n \in Nat, m <= n
  PROVE  Quantized(m, 100) \in Nat /\ Quantized(m, 100) <= Quantized(n, 100)
BY DEF Quantized

LEMMA WholeAmounts ==
  ASSUME NEW n \in Nat
  PROVE  Quantized(n * 30, 30) = n /\ Quantized(n * 100, 100) = n
BY DEF Quantized

(* Fewer days are payable to who comes later or leaves sooner.                *)
LEMMA FewerDays ==
  ASSUME NEW v, NEW w, NEW days \in 28..31,
         v.hired \in 0..AfterMonth, v.ends \in 0..AfterMonth,
         w.hired \in 0..AfterMonth, w.ends \in 0..AfterMonth,
         v.hired >= w.hired, v.ends <= w.ends
  PROVE  /\ PayableDays(v, days) \in 0..30 /\ PayableDays(w, days) \in 0..30
         /\ PayableDays(v, days) <= PayableDays(w, days)
<1> DEFINE Days(h, e) ==
      IF h > days \/ Least(days, e) < Greatest(1, h) THEN 0
      ELSE Least(Least(days, e) - Greatest(1, h) + 1, 30)
<1>1. PayableDays(v, days) = Days(v.hired, v.ends) /\ PayableDays(w, days) = Days(w.hired, w.ends)
  BY DEF PayableDays, StandardMonth
<1>2. ASSUME NEW h \in Nat, NEW e \in Nat, NEW g \in Nat, NEW f \in Nat, h >= g, e <= f
      PROVE  Days(h, e) \in 0..30 /\ Days(g, f) \in 0..30 /\ Days(h, e) <= Days(g, f)
  <2>1. /\ Greatest(1, h) \in Nat /\ Greatest(1, g) \in Nat /\ Greatest(1, h) >= Greatest(1, g)
        /\ Least(days, e) \in Nat /\ Least(days, f) \in Nat /\ Least(days, e) <= Least(days, f)
    BY <1>2 DEF Greatest, Least
  <2>2. \A k \in Nat : Least(k + 1, 30) \in 0..30
    BY DEF Least
  <2>3. \A k, l \in Nat : k <= l => Least(k + 1, 30) <= Least(l + 1, 30)
    BY DEF Least
  <2> HIDE DEF Days
  <2>5. CASE h > days \/ Least(days, e) < Greatest(1, h)
    <3>1. Days(h, e) = 0
      BY <2>5 DEF Days
    <3>2. Days(g, f) \in 0..30
      BY <2>1, <2>2 DEF Days
    <3> QED
      BY <3>1, <3>2
  <2>6. CASE ~(h > days \/ Least(days, e) < Greatest(1, h))
    <3>1. /\ ~(g > days) /\ ~(Least(days, f) < Greatest(1, g))
      BY <1>2, <2>1, <2>6
    <3> DEFINE k == Least(days, e) - Greatest(1, h)
               l == Least(days, f) - Greatest(1, g)
    <3>2. k \in Nat /\ l \in Nat /\ k <= l
      BY <2>1, <2>6, <3>1
    <3>3. Days(h, e) = Least(k + 1, 30) /\ Days(g, f) = Least(l + 1, 30)
      BY <2>6, <3>1 DEF Days
    <3> HIDE DEF k, l
    <3> QED
      BY <2>2, <2>3, <3>2, <3>3
  <2> QED
    BY <2>5, <2>6
<1> HIDE DEF Days
<1>3. v.hired \in Nat /\ v.ends \in Nat /\ w.hired \in Nat /\ w.ends \in Nat
  BY DEF AfterMonth
<1> QED
  BY <1>1, <1>2, <1>3

LEMMA PartsGrow ==
  ASSUME NEW a \in Nat, NEW b \in Nat, a <= b, NEW v, NEW w, NEW days,
         PayableDays(v, days) \in 0..30, PayableDays(w, days) \in 0..30,
         PayableDays(v, days) <= PayableDays(w, days)
  PROVE  /\ Prorated(a, v, days) \in Nat
         /\ Prorated(a, v, days) <= Prorated(b, w, days)
         /\ Prorated(b, w, days) <= b
<1> DEFINE m == PayableDays(v, days)
           n == PayableDays(w, days)
<1>1. m \in Nat /\ n \in Nat /\ m <= n /\ n <= 30
  OBVIOUS
<1> HIDE DEF m, n
<1>2. a * m \in Nat /\ a * m <= b * n /\ b * n \in Nat /\ b * n <= b * 30 /\ b * 30 \in Nat
  BY <1>1, FactorsGrow
<1>3. /\ Quantized(a * m, 30) \in Nat /\ Quantized(a * m, 30) <= Quantized(b * n, 30)
      /\ Quantized(b * n, 30) <= Quantized(b * 30, 30)
  BY <1>2, ThirtiethsGrow
<1>4. Quantized(b * 30, 30) = b
  BY WholeAmounts
<1> QED
  BY <1>3, <1>4 DEF Prorated, StandardMonth, m, n

LEMMA InsuranceGrows ==
  ASSUME NEW v, NEW w, NEW days, v.basic \in Nat, v.rate \in Int,
         w.basic = v.basic, w.rate = v.rate,
         PayableDays(v, days) \in 0..30, PayableDays(w, days) \in 0..30,
         PayableDays(v, days) <= PayableDays(w, days)
  PROVE  /\ Insurance(v, days) \in Nat /\ Insurance(v, days) <= Insurance(w, days)
         /\ Insurance(v, days) <= Prorated(v.basic, v, days)
<1> DEFINE p == Prorated(v.basic, v, days)
           q == Prorated(v.basic, w, days)
           r == Least(Greatest(v.rate, 0), 100)
<1>1. p \in Nat /\ q \in Nat /\ p <= q
  BY PartsGrow
<1>2. r \in Nat /\ r <= 100
  BY DEF Least, Greatest
<1>3. Insurance(v, days) = Quantized(p * r, 100) /\ Insurance(w, days) = Quantized(q * r, 100)
  BY DEF Insurance
<1> HIDE DEF p, q, r
<1>4. p * r \in Nat /\ q * r \in Nat /\ p * r <= q * r /\ p * r <= p * 100 /\ p * 100 \in Nat
  BY <1>1, <1>2, FactorsGrow
<1>5. /\ Quantized(p * r, 100) \in Nat /\ Quantized(p * r, 100) <= Quantized(q * r, 100)
      /\ Quantized(p * r, 100) <= Quantized(p * 100, 100)
  BY <1>4, HundredthsGrow
<1>6. Quantized(p * 100, 100) = p
  BY <1>1, WholeAmounts
<1> QED
  BY <1>3, <1>5, <1>6 DEF p

LEMMA WorkersKept == LinesSpec => [](length \in Lengths /\ worker \in Worker)
<1>1. LinesInit => length \in Lengths /\ worker \in Worker
  BY DEF LinesInit
<1>2. (length \in Lengths /\ worker \in Worker) /\ [LinesNext]_lineVars
        => (length \in Lengths /\ worker \in Worker)'
  BY DEF LinesNext, lineVars, EmployeeChanges, ItemsChange, BuildLine, AuditLine, LockLine,
         LockRefused, UnlockLine
<1> QED
  BY <1>1, <1>2, PTL DEF LinesSpec

(* Nobody earns more than the whole pay, fewer days earn no more and pay no    *)
(* more insurance, and the insurance is never more than the earnings, for      *)
(* every pay, rate and length of the month (_compute_employee_payroll_snapshot). *)
THEOREM PayFollowsTheDays == LinesSpec => []PayFollowsDays
<1>1. length \in Lengths /\ worker \in Worker => PayFollowsDays
  <2> SUFFICES ASSUME length \in Lengths, worker \in Worker
               PROVE  PayFollowsDays
    OBVIOUS
  <2>1. /\ length \in 28..31 /\ worker.basic \in Nat /\ worker.other \in Nat
        /\ worker.rate \in Int /\ worker.hired \in 0..AfterMonth /\ worker.ends \in 0..AfterMonth
    BY LinesAssumption DEF Worker
  <2>2. FullPay(worker) \in Nat /\ worker.basic <= FullPay(worker)
    BY <2>1 DEF FullPay
  <2>3. PayableDays(worker, length) \in 0..30
    BY <2>1, FewerDays
  <2>4. Gross(worker, length) <= FullPay(worker)
    BY <2>2, <2>3, PartsGrow DEF Gross
  <2>5. ASSUME NEW from \in Starts, NEW to \in Ends
        PROVE  LET part == Staying(from, to)
               IN /\ from >= worker.hired /\ to <= worker.ends
                       => /\ Gross(part, length) <= Gross(worker, length)
                          /\ Insurance(part, length) <= Insurance(worker, length)
                  /\ Insurance(part, length) \in 0..Gross(part, length)
    <3> DEFINE part == Staying(from, to)
    <3>1. /\ part.basic = worker.basic /\ part.other = worker.other /\ part.rate = worker.rate
          /\ part.hired = from /\ part.ends = to
      BY DEF Staying, Worker
    <3>2. from \in 0..AfterMonth /\ to \in 0..AfterMonth
      BY LinesAssumption
    <3> HIDE DEF part
    <3>3. FullPay(part) = FullPay(worker)
      BY <3>1 DEF FullPay
    <3>4. part.hired >= part.hired /\ part.ends <= part.ends
      BY <3>1, <3>2 DEF AfterMonth
    <3>5. PayableDays(part, length) \in 0..30
      BY <2>1, <3>1, <3>2, <3>4, FewerDays
    <3>6. Insurance(part, length) \in 0..Gross(part, length)
      <4>1. Prorated(worker.basic, part, length) <= Gross(part, length)
        BY <2>1, <2>2, <3>3, <3>5, PartsGrow DEF Gross
      <4>2. /\ Insurance(part, length) \in Nat
            /\ Insurance(part, length) <= Prorated(worker.basic, part, length)
        BY <2>1, <3>1, <3>5, InsuranceGrows
      <4>3. Prorated(worker.basic, part, length) \in Nat /\ Gross(part, length) \in Nat
        BY <2>1, <2>2, <3>3, <3>5, PartsGrow DEF Gross
      <4> QED
        BY <4>1, <4>2, <4>3
    <3>7. ASSUME from >= worker.hired, to <= worker.ends
          PROVE  /\ Gross(part, length) <= Gross(worker, length)
                 /\ Insurance(part, length) <= Insurance(worker, length)
      <4>1. PayableDays(part, length) <= PayableDays(worker, length)
        BY <2>1, <3>1, <3>2, <3>7, FewerDays
      <4>2. Gross(part, length) <= Gross(worker, length)
        BY <2>2, <2>3, <3>3, <3>5, <4>1, PartsGrow DEF Gross
      <4>3. Insurance(part, length) <= Insurance(worker, length)
        BY <2>1, <2>3, <3>1, <3>5, <4>1, InsuranceGrows
      <4> QED
        BY <4>2, <4>3
    <3> QED
      BY <3>6, <3>7 DEF part
  <2> QED
    BY <2>4, <2>5 DEF PayFollowsDays
<1> QED
  BY <1>1, WorkersKept, PTL
=============================================================================
