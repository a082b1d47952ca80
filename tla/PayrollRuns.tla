----------------------------- MODULE PayrollRuns -----------------------------
(***************************************************************************)
(* The monthly payroll runs of HR_SEED for one month: drafts are built and *)
(* rebuilt from the employees and their deduction items, deleted, locked   *)
(* (which binds every charged item to the run) and unlocked; settlements   *)
(* take an employee's lines out of the drafts; absences and the other      *)
(* items are recorded, edited and deleted meanwhile.                       *)
(*                                                                         *)
(* Each element of Proc is a worker thread of the web server or of Celery. *)
(* PostgreSQL is READ COMMITTED: what a request loaded before it took the  *)
(* row lock of the run (PayrollRun.acquire_row_lock) may be stale.         *)
(***************************************************************************)
EXTENDS Naturals, FiniteSets

CONSTANTS
    Run,           \* primary keys of payroll runs
    Key,           \* what _acquire_payroll_run looks a run up by
    KeyOf,         \* KeyOf[r]: the key of run r
    Consolidated,  \* keys of the runs that gather several branches
    UniqueKey,     \* keys a unique constraint covers (no NULL in its columns)
    Members,       \* Members[k]: the employees the key selects
    PurgedBy,      \* PurgedBy[k]: the standard keys a consolidated run replaces
    Employee,
    Item,          \* absences, unpaid leaves, penalties, shortages, installments
    OwnerOf,       \* OwnerOf[i]: whose item it is
    Installment,   \* the items that are loan installments
    Proc,
    NoRun, NoEmployee, NoItem, NoProc

ASSUME PayrollAssumption ==
    /\ KeyOf \in [Run -> Key]
    /\ Consolidated \subseteq Key
    /\ UniqueKey \subseteq Key
    /\ Members \in [Key -> SUBSET Employee]
    /\ PurgedBy \in [Key -> SUBSET (Key \ Consolidated)]
    /\ \A k \in Key \ Consolidated : PurgedBy[k] = {}
    /\ OwnerOf \in [Item -> Employee]
    /\ Installment \subseteq Item

ASSUME PayrollNullAssumption ==
    /\ NoRun \notin Run
    /\ NoEmployee \notin Employee
    /\ NoItem \notin Item
    /\ NoProc \notin Proc

VARIABLES
    run,         \* run[r]: the PayrollRun r with its lines
    item,        \* item[i]: the row of the item
    applied,     \* applied[i]: applied_to_payroll
    terminated,  \* the employees whose settlement is executed
    rowLock,     \* rowLock[r]: the thread that holds SELECT ... FOR UPDATE on r
    req          \* req[p]: the request thread p is in, with what it has loaded

vars == <<run, item, applied, terminated, rowLock, req>>

-----------------------------------------------------------------------------
(* Types *)

\* "gone" is a hard-deleted row: a primary key is not used again.
RunStatus == {"absent", "draft", "locked", "gone"}

Row == [status : RunStatus,
        deleted : BOOLEAN,            \* soft delete
        lines : SUBSET Employee,      \* the employees with a PayrollLine
        charged : SUBSET Item,        \* the items their breakdowns charge
        counted : SUBSET Employee]    \* the employees in the header's totals

NoRow(status) == [status |-> status, deleted |-> FALSE, lines |-> {},
                  charged |-> {}, counted |-> {}]

ItemStatus == {"none", "live", "deleted"}

\* What a request thread is doing:
\*   build, build_read      build_payroll_run, build_consolidated_payroll_run
\*   discard                delete_draft_payroll_run
\*   lock, lock_read        lock_payroll_run
\*   settle                 the executor of a settlement
\*   edit, drop             the views that edit or delete an item
RunOp == {"build", "build_read", "discard", "lock", "lock_read"}
Op == RunOp \cup {"idle", "settle", "edit", "drop"}

Request == [op : Op,
            run : Run \cup {NoRun},
            snap : Row,                   \* the run as loaded or as rebuilt
            emp : Employee \cup {NoEmployee},
            drafts : SUBSET Run,          \* drafts in which emp had a line
            item : Item \cup {NoItem}]

Idle == [op |-> "idle", run |-> NoRun, snap |-> NoRow("absent"),
         emp |-> NoEmployee, drafts |-> {}, item |-> NoItem]

\* No line, no deduction: the items are charged on their owners' lines.
OnItsLines(row) == \A i \in row.charged : OwnerOf[i] \in row.lines

TypeOK ==
    /\ run \in [Run -> Row]
    /\ \A r \in Run : OnItsLines(run[r])
    /\ item \in [Item -> ItemStatus]
    /\ applied \in [Item -> Run \cup {NoRun}]
    /\ terminated \subseteq Employee
    /\ rowLock \in [Run -> Proc \cup {NoProc}]
    /\ req \in [Proc -> Request]

-----------------------------------------------------------------------------
(* Helpers *)

Exists(r) == run[r].status \in {"draft", "locked"}

\* PayrollRun.objects: soft-deleted rows are not seen.
Live(r) == Exists(r) /\ ~run[r].deleted

LiveDraft(r) == Live(r) /\ run[r].status = "draft"

RowFree(r) == rowLock[r] = NoProc

\* The items once run r no longer applies to any (unlock, or SET_NULL).
Unbound_Never(r) == applied \* mutant: the items stay bound

Unbound(r) == [i \in Item |-> IF applied[i] = r THEN NoRun ELSE applied[i]]

Start(p, r) ==
    /\ req[p].op = "idle"
    /\ req' = r

OnRun(p, op, r) ==
    Start(p, [req EXCEPT ![p] = [Idle EXCEPT !.op = op, !.run = r,
                                             !.snap = run[r]]])

Finish(p) == req' = [req EXCEPT ![p] = Idle]

\* The transaction takes the row lock, reads and goes on with what it read.
Hold(p, op, snap) ==
    /\ RowFree(req[p].run)
    /\ rowLock' = [rowLock EXCEPT ![req[p].run] = p]
    /\ req' = [req EXCEPT ![p].op = op, ![p].snap = snap]

Released(p) == [r \in Run |-> IF rowLock[r] = p THEN NoProc ELSE rowLock[r]]

-----------------------------------------------------------------------------
(* Building a run *)

\* _acquire_payroll_run: any row of the key, soft-deleted ones included, else
\* a new one.
Acquires(r) ==
    \/ Exists(r)
    \/ /\ run[r].status = "absent"
       /\ \A s \in Run : KeyOf[s] = KeyOf[r] => ~Exists(s)

MayBuild_Always(row) == TRUE \* mutant: a locked run is rebuilt

\* The status tested is the one _acquire_payroll_run read.
MayBuild(row) == row.status # "locked"

BuildStart(p, r) ==
    /\ Acquires(r)
    /\ MayBuild(run[r])
    /\ OnRun(p, "build", r)
    /\ UNCHANGED <<run, item, applied, terminated, rowLock>>

\* acquire_row_lock finds the row: it was not created, hard-deleted or (unless
\* this transaction restored it) soft-deleted since.
StillThere(old, now) ==
    /\ now.status = "absent" <=> old.status = "absent"
    /\ now.status # "gone"
    /\ now.deleted => old.deleted

\* locked_emp_ids: employees in another locked run of the standard kind.
LockedElsewhere(r) ==
    UNION {run[s].lines : s \in {s \in Run \ {r} : /\ run[s].status = "locked"
                                                    /\ KeyOf[s] \notin Consolidated}}

\* The items of the employees that no other run applies to.
Chargeable(r, lines) ==
    {i \in Item : /\ item[i] = "live"
                  /\ OwnerOf[i] \in lines
                  /\ applied[i] \in {NoRun, r}}

\* The run as rebuilt from the data the transaction reads.  The header keeps
\* its status: recompute_totals writes the totals only.
Rebuilt(r) ==
    LET lines == (Members[KeyOf[r]] \ terminated) \ LockedElsewhere(r)
    IN  [status |-> IF run[r].status = "absent" THEN "draft" ELSE run[r].status,
         deleted |-> FALSE,
         lines |-> lines,
         charged |-> Chargeable(r, lines),
         counted |-> lines]

BuildRead(p) ==
    /\ req[p].op = "build"
    /\ StillThere(req[p].snap, run[req[p].run])
    /\ Hold(p, "build_read", Rebuilt(req[p].run))
    /\ UNCHANGED <<run, item, applied, terminated>>

\* Mutant: the purge does not look at the status.
Purgeable_AnyStatus(r) == Live(r)

Purgeable(r) == LiveDraft(r)

\* _purge_standard_draft_runs
Purged(k) == {r \in Run : KeyOf[r] \in PurgedBy[k] /\ Purgeable(r)}

\* A consolidated run without employees is hard-deleted again.
Stored(k, new) ==
    IF k \in Consolidated /\ new.counted = {} THEN NoRow("gone") ELSE new

\* The commit; an INSERT of a key that has a row by now violates the unique
\* constraint.  The old lines of r are gone from what other requests collected.
BuildCommit(p) ==
    LET r == req[p].run
        k == KeyOf[r]
        new == Stored(k, req[p].snap)
    IN  /\ req[p].op = "build_read"
        /\ k \in UniqueKey => \A s \in Run \ {r} : KeyOf[s] = k => ~Exists(s)
        /\ \A s \in Purged(k) : RowFree(s)
        /\ run' = [s \in Run |->
                     IF s = r THEN new
                     ELSE IF s \in Purged(k) THEN [run[s] EXCEPT !.deleted = TRUE]
                     ELSE run[s]]
        /\ applied' = IF new.status = "gone" THEN Unbound(r) ELSE applied
        /\ rowLock' = Released(p)
        /\ req' = [q \in Proc |->
                     IF q = p THEN Idle
                     ELSE [req[q] EXCEPT !.drafts = @ \ {r}]]
        /\ UNCHANGED <<item, terminated>>

-----------------------------------------------------------------------------
(* Deleting a draft *)

DiscardLoad(p, r) ==
    /\ LiveDraft(r)
    /\ OnRun(p, "discard", r)
    /\ UNCHANGED <<run, item, applied, terminated, rowLock>>

DiscardCommit(p) ==
    LET r == req[p].run IN
    /\ req[p].op = "discard"
    /\ Exists(r)
    /\ RowFree(r)
    /\ run' = [run EXCEPT ![r] = NoRow("gone")]
    /\ applied' = Unbound(r)
    /\ Finish(p)
    /\ UNCHANGED <<item, terminated, rowLock>>

-----------------------------------------------------------------------------
(* Locking and unlocking *)

AuditPasses_Always(r) == TRUE \* mutant: the audit is not consulted

\* audit_payroll_runs over the drafts on the page: the header matches the
\* lines, unless there is no line, and someone is counted in some header.
AuditPasses(r) ==
    /\ run[r].lines = {} \/ run[r].counted = run[r].lines
    /\ \E s \in Run : LiveDraft(s) /\ run[s].counted # {}

LockAudit(p, r) ==
    /\ LiveDraft(r)
    /\ AuditPasses(r)
    /\ OnRun(p, "lock", r)
    /\ UNCHANGED <<run, item, applied, terminated, rowLock>>

\* Mutant: the items that are found are not counted.
CanBind_Any(row) == row.charged \cap Installment = {}

\* _bind_breakdown_items finds every charged item unbound.  LoanInstallment has
\* no employee column: its filter raises FieldError.
CanBind(row) ==
    /\ \A i \in row.charged : item[i] = "live" /\ applied[i] = NoRun
    /\ row.charged \cap Installment = {}

LockRead(p) ==
    LET r == req[p].run IN
    /\ req[p].op = "lock"
    /\ LiveDraft(r)
    /\ CanBind(run[r])
    /\ Hold(p, "lock_read", run[r])
    /\ UNCHANGED <<run, item, applied, terminated>>

\* The UPDATEs bind the items that are still unbound when they run.
LockCommit(p) ==
    LET r == req[p].run IN
    /\ req[p].op = "lock_read"
    /\ run' = [run EXCEPT ![r].status = "locked"]
    /\ applied' = [i \in Item |->
                     IF /\ i \in req[p].snap.charged
                        /\ item[i] = "live"
                        /\ applied[i] = NoRun
                       THEN r ELSE applied[i]]
    /\ rowLock' = Released(p)
    /\ Finish(p)
    /\ UNCHANGED <<item, terminated>>

\* unlock_payroll_run reads and writes under the row lock.
Unlock(p, r) ==
    /\ req[p].op = "idle"
    /\ Live(r)
    /\ run[r].status = "locked"
    /\ RowFree(r)
    /\ run' = [run EXCEPT ![r].status = "draft"]
    /\ applied' = Unbound(r)
    /\ UNCHANGED <<item, terminated, rowLock, req>>

-----------------------------------------------------------------------------
(* Settlements: remove_employee_from_draft_payroll_runs *)

\* The lines of the employee in drafts, soft-deleted runs included.
DraftsOf(e) == {r \in Run : run[r].status = "draft" /\ e \in run[r].lines}

SettleLoad(p, e) ==
    /\ e \notin terminated
    /\ Start(p, [req EXCEPT ![p] = [Idle EXCEPT !.op = "settle", !.emp = e,
                                                !.drafts = DraftsOf(e)]])
    /\ UNCHANGED <<run, item, applied, terminated, rowLock>>

\* Mutant: what the breakdown of the line charges is kept.
WithoutLine_KeepsCharges(row, e) == [row EXCEPT !.lines = @ \ {e}]

\* The header of the run is not recomputed.
WithoutLine(row, e) ==
    [row EXCEPT !.lines = @ \ {e},
                !.charged = {i \in @ : OwnerOf[i] # e}]

SettleCommit(p) ==
    LET e == req[p].emp IN
    /\ req[p].op = "settle"
    /\ terminated' = terminated \cup {e}
    /\ run' = [r \in Run |-> IF r \in req[p].drafts THEN WithoutLine(run[r], e)
                                                    ELSE run[r]]
    /\ Finish(p)
    /\ UNCHANGED <<item, applied, rowLock>>

\* _execute_reactivate brings the employee back; the drafts are not touched.
Reactivate(p, e) ==
    /\ req[p].op = "idle"
    /\ e \in terminated
    /\ terminated' = terminated \ {e}
    /\ UNCHANGED <<run, item, applied, rowLock, req>>

-----------------------------------------------------------------------------
(* The deduction items *)

RecordItem(p, i) ==
    /\ req[p].op = "idle"
    /\ item[i] = "none"
    /\ item' = [item EXCEPT ![i] = "live"]
    /\ UNCHANGED <<run, applied, terminated, rowLock, req>>

ItemLoad(p, op, i) ==
    /\ op \in {"edit", "drop"}
    /\ i \notin Installment
    /\ item[i] = "live"
    /\ applied[i] = NoRun
    /\ Start(p, [req EXCEPT ![p] = [Idle EXCEPT !.op = op, !.item = i]])
    /\ UNCHANGED <<run, item, applied, terminated, rowLock>>

\* The edit saves every column of the instance as loaded: it was live and
\* unbound.
EditCommit(p) ==
    /\ req[p].op = "edit"
    /\ item' = [item EXCEPT ![req[p].item] = "live"]
    /\ applied' = [applied EXCEPT ![req[p].item] = NoRun]
    /\ Finish(p)
    /\ UNCHANGED <<run, terminated, rowLock>>

\* The soft delete saves its own columns only.
DropCommit(p) ==
    /\ req[p].op = "drop"
    /\ item' = [item EXCEPT ![req[p].item] = "deleted"]
    /\ Finish(p)
    /\ UNCHANGED <<run, applied, terminated, rowLock>>

\* The request is refused, raises, or its worker dies: it rolls back.
RequestEnds(p) ==
    /\ req[p].op # "idle"
    /\ rowLock' = Released(p)
    /\ Finish(p)
    /\ UNCHANGED <<run, item, applied, terminated>>

-----------------------------------------------------------------------------
Init ==
    /\ run = [r \in Run |-> NoRow("absent")]
    /\ item = [i \in Item |-> "none"]
    /\ applied = [i \in Item |-> NoRun]
    /\ terminated = {}
    /\ rowLock = [r \in Run |-> NoProc]
    /\ req = [p \in Proc |-> Idle]

Next ==
    \E p \in Proc :
      \/ \E r \in Run : BuildStart(p, r)
      \/ BuildRead(p)
      \/ BuildCommit(p)
      \/ \E r \in Run : DiscardLoad(p, r)
      \/ DiscardCommit(p)
      \/ \E r \in Run : LockAudit(p, r)
      \/ LockRead(p)
      \/ LockCommit(p)
      \/ \E r \in Run : Unlock(p, r)
      \/ \E e \in Employee : SettleLoad(p, e)
      \/ SettleCommit(p)
      \/ \E e \in Employee : Reactivate(p, e)
      \/ \E i \in Item : RecordItem(p, i)
      \/ \E i \in Item, op \in {"edit", "drop"} : ItemLoad(p, op, i)
      \/ EditCommit(p)
      \/ DropCommit(p)
      \/ RequestEnds(p)

Spec == Init /\ [][Next]_vars

-----------------------------------------------------------------------------
(* Properties that hold whatever the interleaving *)

\* An item is bound to a locked run or to none: whatever races, a run that is
\* unlocked or deleted lets go of every item (applied_to_payroll), so that no
\* item is lost to a later run.
BoundToLocked ==
    \A i \in Item : applied[i] # NoRun => run[applied[i]].status = "locked"

\* A locked run is never hidden by a soft delete: the purge of a consolidated
\* build that waits for a run being locked leaves it alone.
LockedIsVisible == \A r \in Run : run[r].deleted => run[r].status = "draft"

-----------------------------------------------------------------------------
(* Properties of requests served one after the other *)

\* A locked run changes in no way but by unlocking it.
KeepsLocked(r) ==
    run[r].status = "locked" =>
      run'[r] \in {run[r], [run[r] EXCEPT !.status = "draft"]}

AllKeepLocked == \A r \in Run : KeepsLocked(r)

LockedIsFrozen == [][AllKeepLocked]_vars

\* Every item a locked run charges exists and is bound to it, hence charged by
\* no other locked run.
LockedChargesBound ==
    \A r \in Run : run[r].status = "locked" =>
      \A i \in run[r].charged : item[i] = "live" /\ applied[i] = r

\* The totals of a locked run that has lines are those of its lines.
LockedTotalsOfLines ==
    \A r \in Run : run[r].status = "locked" /\ run[r].lines # {} =>
      run[r].counted = run[r].lines

-----------------------------------------------------------------------------
(* Statements of the code's documentation that the code does not keep *)

\* A locked run is not rebuilt: its lines and totals stay (build_payroll_run
\* locks the row and refuses a LOCKED run).
LockedNotRebuilt ==
    [][\A r \in Run, p \in Proc :
         /\ run[r].status = "locked"
         /\ req[p].op = "build_read"
         /\ req'[p].op = "idle"
         => run'[r] = run[r]]_vars

\* Each item is charged by a single locked run (principles of models.py).
ChargedOnce ==
    \A r, s \in Run :
      r # s /\ run[r].status = "locked" /\ run[s].status = "locked" =>
        run[r].charged \cap run[s].charged = {}

\* The totals of a locked run are the sums over its lines.
LockedTotalsMatch ==
    \A r \in Run : run[r].status = "locked" => run[r].counted = run[r].lines

\* A consolidated build keeps one draft for the company.
OneConsolidatedRun ==
    \A r, s \in Run :
      /\ KeyOf[r] = KeyOf[s] /\ KeyOf[r] \in Consolidated
      /\ Live(r) /\ Live(s)
      => r = s

\* Locking marks the installments of the run as paid: an audited draft whose
\* items are all unbound can be locked.
InstallmentsCanBeLocked ==
    \A p \in Proc :
      /\ req[p].op = "lock"
      /\ LiveDraft(req[p].run) /\ RowFree(req[p].run)
      /\ \A i \in run[req[p].run].charged : item[i] = "live" /\ applied[i] = NoRun
      => ENABLED LockRead(p)
=============================================================================
