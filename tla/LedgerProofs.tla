----------------------------- MODULE LedgerProofs -----------------------------
(***************************************************************************)
(* The leave ledger has one row for what happened once, where requests and *)
(* commands are served one after the other, for any number of days,        *)
(* months, rows and failures.  What a change or a total is makes no        *)
(* difference, so that the rows are typed by any sets of them: a           *)
(* recalculation folds over the rows and needs no bound on what it gives.  *)
(***************************************************************************)
EXTENDS LeaveLedger, FiniteSetTheorems, SequenceTheorems, TLAPS

(* The inductive invariant *)

RowOf(changes, totals) ==
  [kind : Kinds, date : Nat, change : changes, total : totals,
   month : Months \cup {None}, live : BOOLEAN]
Taken == {i \in DOMAIN rows : i > since /\ rows[i].kind = "taken"}

LedgerTypes ==
  /\ \E changes, totals : rows \in Seq(RowOf(changes, totals))
  /\ used \in Nat /\ since \in 0..Len(rows) /\ faults \in Nat /\ today \in Date
  /\ DOMAIN job = Workers

(* What the one worker has read is still so.                                  *)
ReadIsCurrent ==
  \A w \in Workers :
    /\ job[w].op = "initial" => LiveRows(rows) = {} /\ job[w].date \in Nat
    /\ job[w].op = "import" => (job[w].replace \/ Initials(rows) = {}) /\ job[w].start \in Nat
    /\ job[w].op = "leave" => job[w].used = used /\ job[w].date \in Nat
    /\ job[w].op = "settle" => job[w].date \in Nat
    /\ job[w].op = "lock" =>
         /\ job[w].month \in Months \ locked
         /\ job[w].has <=> MonthRows(job[w].month) # {}
    /\ job[w].op = "recalc" =>
         \A i \in job[w].gone : i \in DOMAIN rows => rows[i].kind = "initial" \/ rows[i].month = None

OneOpening == \A i, j \in Initials(rows) : i = j
OneAccrual ==
  \A m \in Months :
    /\ \A i, j \in MonthRows(m) : i = j
    /\ faults = 0 => (MonthRows(m) # {} <=> m \in locked)
UsedIsTaken == used = Cardinality(Taken)

LedgerInv == LedgerTypes /\ ReadIsCurrent /\ OneOpening /\ OneAccrual /\ UsedIsTaken

LEMMA MonthsAreNat == Months \subseteq Nat /\ None \notin Months /\ None \notin Nat
<1>1. (MaxDay - 1) \div Days \in Int
  BY LedgerAssumption
<1> QED
  BY <1>1, LedgerAssumption DEF Months

LEMMA TakenIsFinite == LedgerTypes => IsFiniteSet(Taken)
<1> SUFFICES ASSUME LedgerTypes PROVE IsFiniteSet(Taken)
  OBVIOUS
<1>1. DOMAIN rows = 1..Len(rows) /\ Len(rows) \in Nat
  BY DEF LedgerTypes
<1>2. IsFiniteSet(1..Len(rows))
  BY <1>1, FS_Interval
<1> QED
  BY <1>1, <1>2, FS_Subset DEF Taken

(* Rows that are rewritten: they keep kind and month, and none comes to life. *)
LEMMA RowsKept ==
  ASSUME DOMAIN rows' = DOMAIN rows,
         \A i \in DOMAIN rows : /\ rows'[i].kind = rows[i].kind /\ rows'[i].month = rows[i].month
                                /\ rows'[i].live => rows[i].live
  PROVE  /\ LiveRows(rows)' \subseteq LiveRows(rows) /\ Initials(rows)' \subseteq Initials(rows)
         /\ \A m \in Months : MonthRows(m)' \subseteq MonthRows(m)
         /\ since' = since => Taken' = Taken
BY DEF LiveRows, Initials, MonthRows, Taken

(* A row that is inserted after rows that kept kind, month and, but for the   *)
(* opening balances, life.                                                    *)
LEMMA RowInserted ==
  ASSUME NEW changes, NEW totals, rows \in Seq(RowOf(changes, totals)),
         NEW Q \in Seq(RowOf(changes, totals)), Len(Q) = Len(rows),
         \A i \in DOMAIN rows : /\ Q[i].kind = rows[i].kind /\ Q[i].month = rows[i].month
                                /\ Q[i].kind # "initial" => Q[i].live = rows[i].live,
         NEW row \in RowOf(changes, totals), row.live, rows' = Append(Q, row)
  PROVE  /\ rows' \in Seq(RowOf(changes, totals)) /\ Len(rows') = Len(rows) + 1 /\ Len(rows) \in Nat
         /\ Len(rows') \notin DOMAIN rows
         /\ Initials(rows)' = IF row.kind = "initial" THEN Initials(Q) \cup {Len(rows')} ELSE Initials(Q)
         /\ \A m \in Months :
              MonthRows(m)' = IF row.kind = "monthly" /\ row.month = m
                              THEN MonthRows(m) \cup {Len(rows')} ELSE MonthRows(m)
         /\ since' = since /\ since \in 0..Len(rows) =>
              Taken' = IF row.kind = "taken" THEN Taken \cup {Len(rows')} ELSE Taken
         /\ since' = Len(rows) + 1 => Taken' = {}
<1>1. /\ rows' \in Seq(RowOf(changes, totals)) /\ Len(rows') = Len(rows) + 1 /\ Len(rows) \in Nat
      /\ DOMAIN rows = 1..Len(rows) /\ DOMAIN Q = DOMAIN rows
      /\ DOMAIN rows' = DOMAIN rows \cup {Len(rows')}
      /\ \A i \in DOMAIN rows : rows'[i] = Q[i] /\ i \in Nat /\ i <= Len(rows)
      /\ rows'[Len(rows')] = row
  OBVIOUS
<1>2. Len(rows') \notin DOMAIN rows
  BY <1>1
<1>3. Initials(rows)' = IF row.kind = "initial" THEN Initials(Q) \cup {Len(rows')} ELSE Initials(Q)
  BY <1>1, <1>2 DEF Initials, LiveRows
<1>4. ASSUME NEW m \in Months
      PROVE  MonthRows(m)' = IF row.kind = "monthly" /\ row.month = m
                             THEN MonthRows(m) \cup {Len(rows')} ELSE MonthRows(m)
  BY <1>1, <1>2 DEF MonthRows, LiveRows
<1>5. ASSUME since' = since, since \in 0..Len(rows)
      PROVE  Taken' = IF row.kind = "taken" THEN Taken \cup {Len(rows')} ELSE Taken
  BY <1>1, <1>2, <1>5 DEF Taken
<1>6. ASSUME since' = Len(rows) + 1 PROVE Taken' = {}
  BY <1>1, <1>6 DEF Taken
<1> QED
  BY <1>1, <1>2, <1>3, <1>4, <1>5, <1>6

LEMMA NewRows ==
  ASSUME LedgerTypes, NEW kind \in Kinds, NEW date \in Nat, NEW change, NEW last, NEW month \in Months \cup {None}
  PROVE  \E changes, totals :
           /\ rows \in Seq(RowOf(changes, totals))
           /\ NewRow(kind, date, change, last, month) \in RowOf(changes, totals)
           /\ NewRow(kind, date, change, last, month).kind = kind
           /\ NewRow(kind, date, change, last, month).month = month
           /\ NewRow(kind, date, change, last, month).live
<1>1. PICK changes, totals : rows \in Seq(RowOf(changes, totals))
  BY DEF LedgerTypes
<1> DEFINE more == changes \cup {change}
           sums == totals \cup {last + change}
<1>2. RowOf(changes, totals) \subseteq RowOf(more, sums)
  BY DEF RowOf
<1>3. rows \in Seq(RowOf(more, sums))
  <2> HIDE DEF more, sums
  <2> QED
    BY <1>1, <1>2, SeqMonotonic
<1>4. /\ NewRow(kind, date, change, last, month) \in RowOf(more, sums)
      /\ NewRow(kind, date, change, last, month).kind = kind
      /\ NewRow(kind, date, change, last, month).month = month
      /\ NewRow(kind, date, change, last, month).live
  BY DEF NewRow, RowOf
<1> HIDE DEF more, sums
<1> QED
  BY <1>3, <1>4

(* Rows rewritten in place, with changes and totals of any kind.              *)
LEMMA RowsRewritten ==
  ASSUME NEW changes, NEW totals, NEW R \in [DOMAIN rows -> RowOf(changes, totals)], LedgerTypes
  PROVE  R \in Seq(RowOf(changes, totals)) /\ Len(R) = Len(rows) /\ DOMAIN R = DOMAIN rows
<1>1. DOMAIN rows = 1..Len(rows) /\ Len(rows) \in Nat
  BY DEF LedgerTypes
<1>2. R \in [1..Len(rows) -> RowOf(changes, totals)]
  BY <1>1
<1>3. R \in Seq(RowOf(changes, totals))
  BY <1>1, <1>2, SeqDef
<1> QED
  BY <1>1, <1>2, <1>3

LEMMA WrittenRows ==
  ASSUME LedgerTypes, NEW plan, NEW gone
  PROVE  \E changes, totals :
           /\ Written(rows, plan, gone) \in [DOMAIN rows -> RowOf(changes, totals)]
           /\ \A i \in DOMAIN rows :
                /\ Written(rows, plan, gone)[i].kind = rows[i].kind
                /\ Written(rows, plan, gone)[i].month = rows[i].month
                /\ Written(rows, plan, gone)[i].live => rows[i].live
                /\ rows[i].live /\ i \notin gone => Written(rows, plan, gone)[i].live
<1>1. PICK changes, totals : rows \in Seq(RowOf(changes, totals))
  BY DEF LedgerTypes
<1> DEFINE more == changes \cup {plan[i].change : i \in DOMAIN plan}
           sums == totals \cup {plan[i].total : i \in DOMAIN plan}
           now(i) == IF i \in DOMAIN plan
                     THEN [rows[i] EXCEPT !.change = plan[i].change, !.total = plan[i].total]
                     ELSE [rows[i] EXCEPT !.live = @ /\ ~(i \in gone)]
<1>2. ASSUME NEW i \in DOMAIN rows
      PROVE  /\ now(i) \in RowOf(more, sums) /\ now(i).kind = rows[i].kind
             /\ now(i).month = rows[i].month /\ (now(i).live => rows[i].live)
             /\ rows[i].live /\ i \notin gone => now(i).live
  <2>1. rows[i] \in RowOf(changes, totals)
    BY <1>1
  <2>2. rows[i] \in RowOf(more, sums)
    BY <2>1 DEF RowOf
  <2>3. CASE i \in DOMAIN plan
    <3>1. plan[i].change \in more /\ plan[i].total \in sums
      BY <2>3
    <3>2. now(i) = [rows[i] EXCEPT !.change = plan[i].change, !.total = plan[i].total]
      BY <2>3
    <3> HIDE DEF more, sums, now
    <3> QED
      BY <2>2, <3>1, <3>2 DEF RowOf
  <2>4. CASE i \notin DOMAIN plan
    <3>1. now(i) = [rows[i] EXCEPT !.live = @ /\ ~(i \in gone)] /\ rows[i].live \in BOOLEAN
      BY <2>1, <2>4 DEF RowOf
    <3> HIDE DEF more, sums, now
    <3> QED
      BY <2>2, <3>1 DEF RowOf
  <2> QED
    BY <2>3, <2>4
<1>3. Written(rows, plan, gone) = [i \in DOMAIN rows |-> now(i)]
  BY DEF Written
<1> HIDE DEF more, sums, now
<1>4. Written(rows, plan, gone) \in [DOMAIN rows -> RowOf(more, sums)]
  BY <1>2, <1>3
<1> QED
  BY <1>2, <1>3, <1>4

(* Rows that die.                                                             *)
Buried(dead) == [i \in DOMAIN rows |-> [rows[i] EXCEPT !.live = @ /\ ~(i \in dead)]]

LEMMA BuriedRows ==
  ASSUME LedgerTypes, NEW changes, NEW totals, rows \in Seq(RowOf(changes, totals)), NEW dead
  PROVE  /\ Buried(dead) \in [DOMAIN rows -> RowOf(changes, totals)]
         /\ \A i \in DOMAIN rows :
              /\ Buried(dead)[i].kind = rows[i].kind /\ Buried(dead)[i].month = rows[i].month
              /\ Buried(dead)[i].live = (rows[i].live /\ i \notin dead)
              /\ rows[i].live \in BOOLEAN
<1> DEFINE now(i) == [rows[i] EXCEPT !.live = @ /\ ~(i \in dead)]
<1>1. ASSUME NEW i \in DOMAIN rows
      PROVE  /\ now(i) \in RowOf(changes, totals) /\ now(i).kind = rows[i].kind
             /\ now(i).month = rows[i].month
             /\ now(i).live = (rows[i].live /\ i \notin dead)
             /\ rows[i].live \in BOOLEAN
  <2>1. rows[i] \in RowOf(changes, totals)
    OBVIOUS
  <2>2. rows[i].live \in BOOLEAN
    BY <2>1 DEF RowOf
  <2> QED
    BY <2>1, <2>2 DEF RowOf
<1>2. Buried(dead) = [i \in DOMAIN rows |-> now(i)]
  BY DEF Buried
<1> HIDE DEF now
<1>3. Buried(dead) \in [DOMAIN rows -> RowOf(changes, totals)] /\ \A i \in DOMAIN rows : Buried(dead)[i] = now(i)
  BY <1>1, <1>2
<1> QED
  BY <1>1, <1>3

OneHand == \A v, w \in Workers : v = w

(* A worker that has committed has read nothing.                              *)
LEMMA CommittedIsCurrent ==
  ASSUME OneHand, DOMAIN job = Workers, NEW w \in Workers, job' = [job EXCEPT ![w] = Idle]
  PROVE  ReadIsCurrent' /\ DOMAIN job' = Workers
<1>1. \A v \in Workers : job'[v] = Idle
  BY DEF OneHand
<1>2. Idle.op = "idle"
  BY DEF Idle
<1> QED
  BY <1>1, <1>2 DEF ReadIsCurrent

(* Rows that are only rewritten.                                              *)
LEMMA RewrittenLedger ==
  ASSUME LedgerInv, NEW changes, NEW totals, rows' \in [DOMAIN rows -> RowOf(changes, totals)],
         \A i \in DOMAIN rows : /\ rows'[i].kind = rows[i].kind /\ rows'[i].month = rows[i].month
                                /\ rows'[i].live => rows[i].live,
         UNCHANGED <<used, since, today>>, DOMAIN job' = Workers, faults' \in Nat
  PROVE  /\ LedgerTypes' /\ OneOpening' /\ UsedIsTaken'
         /\ \A m \in Months : \A i, j \in MonthRows(m)' : i = j
<1>1. rows' \in Seq(RowOf(changes, totals)) /\ Len(rows') = Len(rows) /\ DOMAIN rows' = DOMAIN rows
  BY RowsRewritten DEF LedgerInv
<1>2. /\ Initials(rows)' \subseteq Initials(rows) /\ Taken' = Taken
      /\ \A m \in Months : MonthRows(m)' \subseteq MonthRows(m)
  BY <1>1, RowsKept
<1>3. LedgerTypes'
  BY <1>1 DEF LedgerInv, LedgerTypes
<1>4. OneOpening' /\ \A m \in Months : \A i, j \in MonthRows(m)' : i = j
  BY <1>2 DEF LedgerInv, OneOpening, OneAccrual
<1>5. UsedIsTaken'
  BY <1>2 DEF LedgerInv, UsedIsTaken
<1> QED
  BY <1>3, <1>4, <1>5

(* -------- a worker reads ----------------------------------------------------- *)
LEMMA StartKeeps ==
  ASSUME LedgerInv, OneHand, NEW w \in Workers, NEW j, Start(w, j),
         j.op = "initial" => LiveRows(rows) = {} /\ j.date \in Nat,
         j.op = "import" => (j.replace \/ Initials(rows) = {}) /\ j.start \in Nat,
         j.op = "leave" => j.used = used /\ j.date \in Nat,
         j.op = "settle" => j.date \in Nat,
         j.op = "lock" => j.month \in Months \ locked /\ (j.has <=> MonthRows(j.month) # {}),
         j.op = "recalc" =>
           \A i \in j.gone : i \in DOMAIN rows => rows[i].kind = "initial" \/ rows[i].month = None
  PROVE  LedgerInv'
<1>1. UNCHANGED <<rows, used, since, today, locked, faults>>
  BY DEF Start, person
<1>2. \A v \in Workers : job'[v] = j
  BY DEF Start, OneHand, LedgerInv, LedgerTypes
<1>3. /\ LiveRows(rows)' = LiveRows(rows) /\ Initials(rows)' = Initials(rows) /\ Taken' = Taken
      /\ \A m \in Months : MonthRows(m)' = MonthRows(m)
  BY <1>1 DEF LiveRows, Initials, MonthRows, Taken
<1>4. LedgerTypes' /\ OneOpening' /\ OneAccrual' /\ UsedIsTaken'
  <2>1. DOMAIN job' = Workers
    BY DEF Start, LedgerInv, LedgerTypes
  <2> QED
    BY <1>1, <1>3, <2>1 DEF LedgerInv, LedgerTypes, OneOpening, OneAccrual, UsedIsTaken
<1>5. ReadIsCurrent'
  BY <1>1, <1>2, <1>3 DEF ReadIsCurrent
<1> QED
  BY <1>4, <1>5 DEF LedgerInv

LEMMA OpeningRead ==
  ASSUME LedgerInv, OneHand, NEW w \in Workers, ViewProfile(w) \/ InitLedger(w)
  PROVE  LedgerInv'
<1>1. PICK amount : Start(w, [op |-> "initial", date |-> today, amount |-> amount])
  BY DEF ViewProfile, InitLedger
<1>2. LiveRows(rows) = {} /\ today \in Nat
  BY DEF ViewProfile, InitLedger, Unopened, LedgerInv, LedgerTypes, Date
<1> QED
  BY <1>1, <1>2, StartKeeps

LEMMA ImportReads ==
  ASSUME LedgerInv, OneHand, NEW w \in Workers, NEW start \in 1..today, NEW replace \in BOOLEAN,
         ImportCheck(w, start, replace)
  PROVE  LedgerInv'
<1>1. start \in Nat /\ (replace \/ Initials(rows) = {})
  BY DEF ImportCheck, MayImport, LedgerInv, LedgerTypes, Date
<1> QED
  BY <1>1, StartKeeps DEF ImportCheck

LEMMA LeaveReads ==
  ASSUME LedgerInv, OneHand, NEW w \in Workers, LeaveRead(w)
  PROVE  LedgerInv'
<1>1. today \in Nat
  BY DEF LedgerInv, LedgerTypes, Date
<1> QED
  BY <1>1, StartKeeps DEF LeaveRead

LEMMA SettleReads ==
  ASSUME LedgerInv, OneHand, NEW w \in Workers, NEW end \in Date, SettleRead(w, end)
  PROVE  LedgerInv'
<1>1. end \in Nat
  BY DEF Date
<1> QED
  BY <1>1, StartKeeps DEF SettleRead

LEMMA LockReads ==
  ASSUME LedgerInv, OneHand, NEW w \in Workers, NEW m \in Months, LockRead(w, m)
  PROVE  LedgerInv'
<1>1. PICK last, accrues : Start(w, [op |-> "lock", month |-> m, last |-> last, accrues |-> accrues,
                                     has |-> MonthRows(m) # {}])
  BY DEF LockRead
<1>2. m \in Months \ locked
  BY DEF LockRead
<1> QED
  BY <1>1, <1>2, StartKeeps

LEMMA RecalcReads ==
  ASSUME LedgerInv, OneHand, NEW w \in Workers,
         RecalcRead(w) \/ \E i \in DOMAIN rows : DeleteRow(w, i)
  PROVE  LedgerInv'
<1>1. ASSUME NEW gone, NEW i \in Superseded(rows, gone) PROVE rows[i].kind = "initial"
  BY <1>1 DEF Superseded, Initials
<1>2. PICK plan, gone : /\ Start(w, [op |-> "recalc", plan |-> plan, gone |-> gone])
                        /\ \A i \in gone : rows[i].kind = "initial" \/ rows[i].month = None
  BY <1>1 DEF RecalcRead, DeleteRow
<1> QED
  BY <1>2, StartKeeps

(* -------- a worker commits --------------------------------------------------- *)
LEMMA InsertKeeps ==
  ASSUME LedgerInv, OneHand, NEW w \in Workers, Done(w), since' = since,
         NEW kind \in Kinds, NEW date \in Nat, NEW change, NEW last, NEW month \in Months \cup {None},
         Insert(NewRow(kind, date, change, last, month)), used' \in Nat, faults' \in Nat
  PROVE  /\ LedgerTypes' /\ ReadIsCurrent'
         /\ \E n : /\ n \notin DOMAIN rows
                   /\ Initials(rows)' = IF kind = "initial" THEN Initials(rows) \cup {n} ELSE Initials(rows)
                   /\ \A m \in Months :
                        MonthRows(m)' = IF kind = "monthly" /\ month = m
                                        THEN MonthRows(m) \cup {n} ELSE MonthRows(m)
                   /\ Taken' = IF kind = "taken" THEN Taken \cup {n} ELSE Taken
<1> DEFINE row == NewRow(kind, date, change, last, month)
<1>1. LedgerTypes /\ DOMAIN job = Workers /\ since \in 0..Len(rows) /\ today' \in Date
  BY DEF LedgerInv, LedgerTypes, Done
<1>2. PICK changes, totals : /\ rows \in Seq(RowOf(changes, totals)) /\ row \in RowOf(changes, totals)
                             /\ row.kind = kind /\ row.month = month /\ row.live
  BY <1>1, NewRows
<1>3. rows' = Append(rows, row)
  BY DEF Insert
<1> HIDE DEF row
<1>4. /\ rows' \in Seq(RowOf(changes, totals)) /\ Len(rows') = Len(rows) + 1 /\ Len(rows) \in Nat
      /\ Len(rows') \notin DOMAIN rows
      /\ Initials(rows)' = IF row.kind = "initial" THEN Initials(rows) \cup {Len(rows')} ELSE Initials(rows)
      /\ \A m \in Months :
           MonthRows(m)' = IF row.kind = "monthly" /\ row.month = m
                           THEN MonthRows(m) \cup {Len(rows')} ELSE MonthRows(m)
      /\ Taken' = IF row.kind = "taken" THEN Taken \cup {Len(rows')} ELSE Taken
  BY <1>1, <1>2, <1>3, RowInserted
<1>5. ReadIsCurrent' /\ DOMAIN job' = Workers
  BY <1>1, CommittedIsCurrent DEF Done
<1>6. LedgerTypes'
  BY <1>1, <1>4, <1>5 DEF LedgerTypes
<1> QED
  BY <1>2, <1>4, <1>5, <1>6

LEMMA OpeningCommits ==
  ASSUME LedgerInv, OneHand, NEW w \in Workers, InsertInitial(w)
  PROVE  LedgerInv'
<1>1. /\ UNCHANGED <<used, since, locked, faults>> /\ Done(w)
      /\ Insert(NewRow("initial", job[w].date, job[w].amount, 0, None))
  BY DEF InsertInitial, person
<1>2. LiveRows(rows) = {} /\ job[w].date \in Nat
  BY DEF InsertInitial, LedgerInv, ReadIsCurrent
<1>3. used' \in Nat /\ faults' \in Nat /\ "initial" \in Kinds
  BY <1>1 DEF LedgerInv, LedgerTypes, Kinds
<1>4. /\ LedgerTypes' /\ ReadIsCurrent'
      /\ \E n : /\ Initials(rows)' = Initials(rows) \cup {n}
                /\ \A m \in Months : MonthRows(m)' = MonthRows(m)
                /\ Taken' = Taken
  BY <1>1, <1>2, <1>3, InsertKeeps
<1>5. Initials(rows) = {}
  BY <1>2 DEF Initials
<1> QED
  BY <1>1, <1>4, <1>5 DEF LedgerInv, OneOpening, OneAccrual, UsedIsTaken

LEMMA LeaveCommits ==
  ASSUME LedgerInv, OneHand, NEW w \in Workers, LeaveCommit(w)
  PROVE  LedgerInv'
<1>1. /\ UNCHANGED <<since, locked, faults>> /\ Done(w)
      /\ Insert(NewRow("taken", job[w].date, -1, job[w].last, None))
      /\ job[w].used = used /\ job[w].date \in Nat /\ used' = used + 1
  BY DEF LeaveCommit, LedgerInv, ReadIsCurrent
<1>2. used' \in Nat /\ faults' \in Nat /\ "taken" \in Kinds
  BY <1>1 DEF LedgerInv, LedgerTypes, Kinds
<1>3. /\ LedgerTypes' /\ ReadIsCurrent'
      /\ \E n : /\ n \notin DOMAIN rows
                /\ Initials(rows)' = Initials(rows)
                /\ \A m \in Months : MonthRows(m)' = MonthRows(m)
                /\ Taken' = Taken \cup {n}
  BY <1>1, <1>2, InsertKeeps
<1>4. UsedIsTaken'
  <2>1. PICK n : n \notin DOMAIN rows /\ Taken' = Taken \cup {n}
    BY <1>3
  <2>2. n \notin Taken /\ IsFiniteSet(Taken)
    BY <2>1, TakenIsFinite DEF Taken, LedgerInv
  <2>3. Cardinality(Taken') = Cardinality(Taken) + 1
    BY <2>1, <2>2, FS_AddElement
  <2> QED
    BY <1>1, <2>3 DEF UsedIsTaken, LedgerInv
<1> QED
  BY <1>1, <1>3, <1>4 DEF LedgerInv, OneOpening, OneAccrual

LEMMA SettleCommits ==
  ASSUME LedgerInv, OneHand, NEW w \in Workers, SettleCommit(w)
  PROVE  LedgerInv'
<1>1. /\ UNCHANGED <<used, since, locked, faults>> /\ Done(w)
      /\ Insert(NewRow("settlement", job[w].date, -job[w].last, job[w].last, None))
      /\ job[w].date \in Nat
  BY DEF SettleCommit, LedgerInv, ReadIsCurrent
<1>2. used' \in Nat /\ faults' \in Nat /\ "settlement" \in Kinds
  BY <1>1 DEF LedgerInv, LedgerTypes, Kinds
<1>3. /\ LedgerTypes' /\ ReadIsCurrent'
      /\ Initials(rows)' = Initials(rows) /\ Taken' = Taken
      /\ \A m \in Months : MonthRows(m)' = MonthRows(m)
  BY <1>1, <1>2, InsertKeeps
<1> QED
  BY <1>1, <1>3 DEF LedgerInv, OneOpening, OneAccrual, UsedIsTaken

LEMMA LockCommits ==
  ASSUME LedgerInv, OneHand, NEW w \in Workers, LockCommit(w)
  PROVE  LedgerInv'
<1>0. PICK month : month = job[w].month
  OBVIOUS
<1>1. /\ UNCHANGED <<used, since>> /\ Done(w) /\ locked' = locked \cup {month}
      /\ month \in Months \ locked /\ (job[w].has <=> MonthRows(month) # {})
  BY <1>0 DEF LockCommit, person, LedgerInv, ReadIsCurrent
<1>2. \A m \in Months : m # month => (m \in locked' <=> m \in locked)
  BY <1>1
<1>3. CASE UNCHANGED rows /\ ((UNCHANGED faults /\ job[w].has) \/ faults' = faults + 1)
  <2>1. /\ LiveRows(rows)' = LiveRows(rows) /\ Initials(rows)' = Initials(rows) /\ Taken' = Taken
        /\ \A m \in Months : MonthRows(m)' = MonthRows(m)
    BY <1>1, <1>3 DEF LiveRows, Initials, MonthRows, Taken
  <2>2. ReadIsCurrent' /\ DOMAIN job' = Workers
    BY <1>1, CommittedIsCurrent DEF Done, LedgerInv, LedgerTypes
  <2>3. LedgerTypes'
    BY <1>1, <1>3, <2>2 DEF LedgerInv, LedgerTypes, Done
  <2>4. OneAccrual'
    <3>1. faults \in Nat /\ (faults' = faults + 1 => faults' # 0)
      BY DEF LedgerInv, LedgerTypes
    <3>2. \A m \in Months : faults = 0 => (MonthRows(m) # {} <=> m \in locked)
      BY DEF LedgerInv, OneAccrual
    <3> QED
      BY <1>1, <1>2, <1>3, <2>1, <3>1, <3>2 DEF LedgerInv, OneAccrual
  <2> QED
    BY <1>1, <2>1, <2>2, <2>3, <2>4 DEF LedgerInv, OneOpening, UsedIsTaken
<1>4. CASE /\ ~job[w].has /\ UNCHANGED faults
           /\ Insert(NewRow("monthly", LastDay(month), IF job[w].accrues THEN Accrual ELSE 0,
                            job[w].last, month))
  <2>1. LastDay(month) \in Nat
    <3>1. month \in Nat /\ Days \in Nat
      BY <1>1, MonthsAreNat, LedgerAssumption
    <3> QED
      BY <3>1 DEF LastDay
  <2>2. used' \in Nat /\ faults' \in Nat /\ "monthly" \in Kinds
    BY <1>1, <1>4 DEF LedgerInv, LedgerTypes, Kinds
  <2>3. /\ LedgerTypes' /\ ReadIsCurrent'
        /\ \E n : /\ Initials(rows)' = Initials(rows)
                  /\ \A m \in Months :
                       MonthRows(m)' = IF month = m THEN MonthRows(m) \cup {n} ELSE MonthRows(m)
                  /\ Taken' = Taken
    <3>1. PICK change, last : Insert(NewRow("monthly", LastDay(month), change, last, month))
      BY <1>4
    <3>2. /\ LedgerTypes' /\ ReadIsCurrent'
          /\ \E n : /\ n \notin DOMAIN rows
                    /\ Initials(rows)' = IF "monthly" = "initial" THEN Initials(rows) \cup {n} ELSE Initials(rows)
                    /\ \A m \in Months :
                         MonthRows(m)' = IF "monthly" = "monthly" /\ month = m
                                         THEN MonthRows(m) \cup {n} ELSE MonthRows(m)
                    /\ Taken' = IF "monthly" = "taken" THEN Taken \cup {n} ELSE Taken
      BY <1>1, <2>1, <2>2, <3>1, InsertKeeps
    <3> QED
      BY <3>2
  <2>4. OneAccrual'
    <3>1. PICK n : \A m \in Months :
                     MonthRows(m)' = IF month = m THEN MonthRows(m) \cup {n} ELSE MonthRows(m)
      BY <2>3
    <3>2. MonthRows(month)' = {n} /\ \A m \in Months : m # month => MonthRows(m)' = MonthRows(m)
      BY <1>1, <1>4, <3>1
    <3> QED
      BY <1>1, <1>2, <1>4, <3>2 DEF LedgerInv, OneAccrual
  <2> QED
    BY <1>1, <2>3, <2>4 DEF LedgerInv, OneOpening, UsedIsTaken
<1> QED
  BY <1>0, <1>3, <1>4 DEF LockCommit

(* The import replaces the opening balances before it inserts its own.        *)
LEMMA ImportCommits ==
  ASSUME LedgerInv, OneHand, NEW w \in Workers, ImportCommit(w)
  PROVE  LedgerInv'
<1>0. PICK replace, start :
        /\ replace \in BOOLEAN /\ (replace <=> job[w].replace) /\ start = job[w].start
        /\ rows' = Append(Replaced(replace), NewRow("initial", start, Opening, 0, None))
  <2>1. CASE job[w].replace
    <3>1. Replaced(job[w].replace) = Replaced(TRUE)
      BY <2>1 DEF Replaced
    <3> QED
      BY <2>1, <3>1 DEF ImportCommit
  <2>2. CASE ~job[w].replace
    <3>1. Replaced(job[w].replace) = Replaced(FALSE)
      BY <2>2 DEF Replaced
    <3> QED
      BY <2>2, <3>1 DEF ImportCommit
  <2> QED
    BY <2>1, <2>2
<1>1. /\ UNCHANGED <<locked, faults>> /\ Done(w) /\ used' = 0 /\ since' = Len(rows) + 1
      /\ start \in Nat /\ (replace \/ Initials(rows) = {})
  BY <1>0 DEF ImportCommit, LedgerInv, ReadIsCurrent
<1>2. LedgerTypes /\ "initial" \in Kinds
  BY DEF LedgerInv, Kinds
<1> DEFINE row == NewRow("initial", start, Opening, 0, None)
<1>d. PICK dead : dead = {i \in DOMAIN rows : replace /\ rows[i].kind = "initial"}
  OBVIOUS
<1>3. PICK changes, totals : /\ rows \in Seq(RowOf(changes, totals)) /\ row \in RowOf(changes, totals)
                             /\ row.kind = "initial" /\ row.month = None /\ row.live
  BY <1>1, <1>2, NewRows
<1>4. PICK Q : /\ Q = Replaced(replace) /\ Q \in [DOMAIN rows -> RowOf(changes, totals)]
               /\ \A i \in DOMAIN rows :
                    /\ Q[i].kind = rows[i].kind /\ Q[i].month = rows[i].month
                    /\ Q[i].live = (rows[i].live /\ i \notin dead)
                    /\ rows[i].live \in BOOLEAN
  <2>1. ASSUME NEW i \in DOMAIN rows PROVE (i \in dead) = (replace /\ rows[i].kind = "initial")
    BY <1>d, <2>1
  <2>2. Buried(dead) = Replaced(replace)
    BY <2>1 DEF Replaced, Buried
  <2> QED
    BY <1>2, <1>3, <2>2, BuriedRows
<1>5. Q \in Seq(RowOf(changes, totals)) /\ Len(Q) = Len(rows) /\ DOMAIN Q = DOMAIN rows
  BY <1>2, <1>4, RowsRewritten
<1>6. \A i \in DOMAIN rows : /\ Q[i].kind = rows[i].kind /\ Q[i].month = rows[i].month
                             /\ Q[i].kind # "initial" => Q[i].live = rows[i].live
  <2> SUFFICES ASSUME NEW i \in DOMAIN rows, rows[i].kind # "initial" PROVE Q[i].live = rows[i].live
    BY <1>4
  <2>1. i \notin dead
    BY <1>d
  <2> QED
    BY <1>4, <2>1
<1>7. Initials(Q) = {}
  BY <1>d, <1>1, <1>4, <1>5 DEF Initials, LiveRows
<1>8. rows' = Append(Q, row)
  BY <1>0, <1>4
<1> HIDE DEF row
<1>9. /\ rows' \in Seq(RowOf(changes, totals)) /\ Len(rows') = Len(rows) + 1 /\ Len(rows) \in Nat
      /\ Initials(rows)' = Initials(Q) \cup {Len(rows')}
      /\ \A m \in Months : MonthRows(m)' = MonthRows(m)
      /\ Taken' = {}
  BY <1>1, <1>3, <1>5, <1>6, <1>8, RowInserted
<1>10. ReadIsCurrent' /\ DOMAIN job' = Workers
  BY <1>1, <1>2, CommittedIsCurrent DEF Done, LedgerTypes
<1>11. LedgerTypes'
  BY <1>1, <1>2, <1>9, <1>10 DEF LedgerTypes, Done
<1>12. UsedIsTaken'
  BY <1>1, <1>9, FS_EmptySet DEF UsedIsTaken
<1> QED
  BY <1>1, <1>7, <1>9, <1>10, <1>11, <1>12 DEF LedgerInv, OneOpening, OneAccrual

LEMMA ReactivateKeeps ==
  ASSUME LedgerInv, OneHand, NEW w \in Workers, Reactivate(w)
  PROVE  LedgerInv'
<1>1. /\ UNCHANGED <<rows, today, locked, job, faults>> /\ used' = 0 /\ since' = Len(rows) /\ job[w] = Idle
  BY DEF Reactivate
<1>2. /\ LiveRows(rows)' = LiveRows(rows) /\ Initials(rows)' = Initials(rows)
      /\ \A m \in Months : MonthRows(m)' = MonthRows(m)
  BY <1>1 DEF LiveRows, Initials, MonthRows
<1>3. Taken' = {}
  BY <1>1 DEF Taken, LedgerInv, LedgerTypes
<1>4. LedgerTypes'
  BY <1>1 DEF LedgerInv, LedgerTypes
<1>5. ReadIsCurrent'
  <2>1. \A v \in Workers : job'[v].op = "idle"
    BY <1>1 DEF OneHand, Idle
  <2> QED
    BY <2>1 DEF ReadIsCurrent
<1>6. UsedIsTaken'
  BY <1>1, <1>3, FS_EmptySet DEF UsedIsTaken
<1> QED
  BY <1>1, <1>2, <1>4, <1>5, <1>6 DEF LedgerInv, OneOpening, OneAccrual

LEMMA UnlockKeeps ==
  ASSUME LedgerInv, OneHand, NEW w \in Workers, NEW m \in Months, Unlock(w, m)
  PROVE  LedgerInv'
<1>1. /\ UNCHANGED <<used, since, today, job>> /\ job[w] = Idle /\ locked' = locked \ {m}
      /\ (rows' = Unlocked(m) /\ UNCHANGED faults) \/ (UNCHANGED rows /\ faults' = faults + 1)
  BY DEF Unlock, person
<1>2. ReadIsCurrent' /\ DOMAIN job' = Workers
  <2>1. \A v \in Workers : job'[v].op = "idle"
    BY <1>1 DEF OneHand, Idle
  <2> QED
    BY <1>1, <2>1 DEF ReadIsCurrent, LedgerInv, LedgerTypes
<1>3. faults \in Nat /\ (faults' = faults + 1 => faults' # 0)
  BY DEF LedgerInv, LedgerTypes
<1>4. CASE UNCHANGED rows /\ faults' = faults + 1
  <2>1. /\ LiveRows(rows)' = LiveRows(rows) /\ Initials(rows)' = Initials(rows) /\ Taken' = Taken
        /\ \A k \in Months : MonthRows(k)' = MonthRows(k)
    BY <1>1, <1>4 DEF LiveRows, Initials, MonthRows, Taken
  <2>2. LedgerTypes'
    BY <1>1, <1>2, <1>3, <1>4 DEF LedgerInv, LedgerTypes
  <2> QED
    BY <1>1, <1>2, <1>3, <1>4, <2>1, <2>2 DEF LedgerInv, OneOpening, OneAccrual, UsedIsTaken
<1>5. CASE rows' = Unlocked(m) /\ UNCHANGED faults
  <2>d. PICK dead : dead = {i \in DOMAIN rows : rows[i].month = m}
    OBVIOUS
  <2>1. PICK changes, totals : rows \in Seq(RowOf(changes, totals))
    BY DEF LedgerInv, LedgerTypes
  <2>2. Buried(dead) = Unlocked(m)
    <3>1. ASSUME NEW i \in DOMAIN rows PROVE (~(i \in dead)) = (rows[i].month # m)
      BY <2>d, <3>1
    <3> QED
      BY <3>1 DEF Unlocked, Buried
  <2>3. LedgerTypes
    BY DEF LedgerInv
  <2>4. /\ rows' \in [DOMAIN rows -> RowOf(changes, totals)] /\ DOMAIN rows' = DOMAIN rows
        /\ \A i \in DOMAIN rows : /\ rows'[i].kind = rows[i].kind /\ rows'[i].month = rows[i].month
                                  /\ rows'[i].live = (rows[i].live /\ i \notin dead)
    BY <1>5, <2>1, <2>2, <2>3, BuriedRows
  <2>5. /\ LedgerTypes' /\ OneOpening' /\ UsedIsTaken'
        /\ \A k \in Months : \A i, j \in MonthRows(k)' : i = j
    <3>1. \A i \in DOMAIN rows : rows'[i].live => rows[i].live
      BY <2>4
    <3>2. faults' \in Nat
      BY <1>3, <1>5
    <3> QED
      BY <1>1, <1>2, <2>4, <3>1, <3>2, RewrittenLedger
  <2>6. \A k \in Months : MonthRows(k)' = IF k = m THEN {} ELSE MonthRows(k)
    BY <2>d, <2>4 DEF MonthRows, LiveRows
  <2>7. OneAccrual'
    BY <1>1, <1>5, <2>5, <2>6 DEF OneAccrual, LedgerInv
  <2> QED
    BY <1>2, <2>5, <2>7 DEF LedgerInv
<1> QED
  BY <1>1, <1>4, <1>5

(* What a recalculation deletes is no accrual of a month.                     *)
LEMMA RecalcWrites ==
  ASSUME LedgerInv, OneHand, NEW w \in Workers, RecalcWrite(w)
  PROVE  LedgerInv'
<1>0. PICK plan, gone : plan = job[w].plan /\ gone = job[w].gone
  OBVIOUS
<1>1. /\ UNCHANGED <<used, since, locked, faults>> /\ Done(w) /\ UNCHANGED today
      /\ rows' = Written(rows, plan, gone)
      /\ \A i \in gone : i \in DOMAIN rows => rows[i].kind = "initial" \/ rows[i].month = None
  BY <1>0 DEF RecalcWrite, Done, person, LedgerInv, ReadIsCurrent
<1>2. PICK changes, totals :
        /\ rows' \in [DOMAIN rows -> RowOf(changes, totals)]
        /\ \A i \in DOMAIN rows :
             /\ rows'[i].kind = rows[i].kind /\ rows'[i].month = rows[i].month
             /\ rows'[i].live => rows[i].live
             /\ rows[i].live /\ i \notin gone => rows'[i].live
  <2>1. LedgerTypes
    BY DEF LedgerInv
  <2> QED
    BY <1>1, <2>1, WrittenRows
<1>3. ReadIsCurrent' /\ DOMAIN job' = Workers
  BY <1>1, CommittedIsCurrent DEF Done, LedgerInv, LedgerTypes
<1>4. /\ LedgerTypes' /\ OneOpening' /\ UsedIsTaken'
      /\ \A m \in Months : \A i, j \in MonthRows(m)' : i = j
  <2>1. faults' \in Nat
    BY <1>1 DEF LedgerInv, LedgerTypes
  <2> QED
    BY <1>1, <1>2, <1>3, <2>1, RewrittenLedger
<1>5. \A m \in Months : MonthRows(m)' = MonthRows(m)
  BY <1>1, <1>2, MonthsAreNat DEF MonthRows, LiveRows
<1>6. OneAccrual'
  BY <1>1, <1>4, <1>5 DEF OneAccrual, LedgerInv
<1> QED
  BY <1>3, <1>4, <1>6 DEF LedgerInv

LEMMA QuietLedger ==
  ASSUME LedgerInv, NextDay \/ UNCHANGED vars
  PROVE  LedgerInv'
<1>1. UNCHANGED <<rows, used, since, locked, job, faults>> /\ today' \in Date
  BY LedgerAssumption DEF NextDay, vars, person, LedgerInv, LedgerTypes, Date
<1>2. /\ LiveRows(rows)' = LiveRows(rows) /\ Initials(rows)' = Initials(rows) /\ Taken' = Taken
      /\ \A m \in Months : MonthRows(m)' = MonthRows(m)
  BY <1>1 DEF LiveRows, Initials, MonthRows, Taken
<1>3. LedgerTypes' /\ OneOpening' /\ OneAccrual' /\ UsedIsTaken'
  BY <1>1, <1>2 DEF LedgerInv, LedgerTypes, OneOpening, OneAccrual, UsedIsTaken
<1>4. ReadIsCurrent'
  BY <1>1, <1>2 DEF LedgerInv, ReadIsCurrent
<1> QED
  BY <1>3, <1>4 DEF LedgerInv

LEMMA LedgerStep ==
  ASSUME OneHand, LedgerInv, [Next]_vars
  PROVE  LedgerInv'
<1>1. CASE NextDay \/ UNCHANGED vars
  BY <1>1, QuietLedger
<1>2. ASSUME NEW w \in Workers, Work(w) PROVE LedgerInv'
  <2>1. CASE ViewProfile(w) \/ InitLedger(w)
    BY <2>1, OpeningRead
  <2>2. CASE InsertInitial(w)
    BY <2>2, OpeningCommits
  <2>3. CASE \E start \in 1..today, replace \in BOOLEAN : ImportCheck(w, start, replace)
    BY <2>3, ImportReads
  <2>4. CASE ImportCommit(w)
    BY <2>4, ImportCommits
  <2>5. CASE LeaveRead(w)
    BY <2>5, LeaveReads
  <2>6. CASE LeaveCommit(w)
    BY <2>6, LeaveCommits
  <2>7. CASE \E end \in Date : SettleRead(w, end)
    BY <2>7, SettleReads
  <2>8. CASE SettleCommit(w)
    BY <2>8, SettleCommits
  <2>9. CASE Reactivate(w)
    BY <2>9, ReactivateKeeps
  <2>10. CASE \E m \in Months : LockRead(w, m)
    BY <2>10, LockReads
  <2>11. CASE \E m \in Months : Unlock(w, m)
    BY <2>11, UnlockKeeps
  <2>12. CASE LockCommit(w)
    BY <2>12, LockCommits
  <2>13. CASE RecalcRead(w) \/ \E i \in DOMAIN rows : DeleteRow(w, i)
    BY <2>13, RecalcReads
  <2>14. CASE RecalcWrite(w)
    BY <2>14, RecalcWrites
  <2> QED
    BY <1>2, <2>1, <2>2, <2>3, <2>4, <2>5, <2>6, <2>7, <2>8, <2>9, <2>10, <2>11, <2>12,
       <2>13, <2>14 DEF Work
<1> QED
  BY <1>1, <1>2 DEF Next

LEMMA LedgerStarts == Init => LedgerInv
<1> SUFFICES ASSUME Init PROVE LedgerInv
  OBVIOUS
<1>1. /\ today = 1 /\ rows = <<>> /\ used = 0 /\ locked = {} /\ since = 0 /\ faults = 0
      /\ job = [w \in Workers |-> Idle]
  BY DEF Init
<1>2. rows \in Seq(RowOf({}, {})) /\ Len(rows) = 0 /\ DOMAIN rows = {}
  BY <1>1
<1>3. LedgerTypes
  BY <1>1, <1>2, LedgerAssumption DEF LedgerTypes, Date
<1>4. /\ LiveRows(rows) = {} /\ Initials(rows) = {} /\ Taken = {}
      /\ \A m \in Months : MonthRows(m) = {}
  BY <1>2 DEF LiveRows, Initials, MonthRows, Taken
<1>5. ReadIsCurrent
  BY <1>1 DEF ReadIsCurrent, Idle
<1>6. OneOpening /\ OneAccrual /\ UsedIsTaken
  BY <1>1, <1>4, FS_EmptySet DEF OneOpening, OneAccrual, UsedIsTaken
<1> QED
  BY <1>3, <1>5, <1>6 DEF LedgerInv

(* A set of which every two elements are one has one at most.                 *)
LEMMA AtMostOne ==
  ASSUME NEW S, \A i, j \in S : i = j
  PROVE  Cardinality(S) <= 1
<1>1. CASE S = {}
  BY <1>1, FS_EmptySet
<1>2. CASE S # {}
  <2>1. PICK x : S = {x}
    BY <1>2
  <2> QED
    BY <2>1, FS_Singleton
<1> QED
  BY <1>1, <1>2

(* Where requests and commands are served one after the other, the ledger has *)
(* one row for what happened once: one opening balance, one accrual of a      *)
(* month, exactly while its run is locked (unless a row failed), and one row  *)
(* for every day of leave that the employee's row counts, for any number of   *)
(* days, months, rows and failures.                                           *)
THEOREM LedgerIsWhole ==
  ASSUME OneHand
  PROVE  Spec => []LedgerRowsOnce
<1>1. LedgerInv /\ [Next]_vars => LedgerInv'
  BY LedgerStep
<1>2. LedgerInv => LedgerRowsOnce
  BY AtMostOne DEF LedgerInv, OneOpening, OneAccrual, UsedIsTaken, Taken, LedgerRowsOnce
<1> QED
  BY <1>1, <1>2, LedgerStarts, PTL DEF Spec
===============================================================================
