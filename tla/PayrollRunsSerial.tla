------------------------- MODULE PayrollRunsSerial -------------------------
(***************************************************************************)
(* PayrollRuns with a single worker thread: requests are served one after  *)
(* the other, though each still commits and dies step by step.             *)
(***************************************************************************)
EXTENDS PayrollRuns

ASSUME OneThread == \A p, q \in Proc : p = q

\* The header counts the lines, unless there is none.
Balanced(row) == row.lines = {} \/ row.counted = row.lines

\* What request p loaded is still so when it writes.
FreshLoad(p) ==
    LET now == run[req[p].run]
        snap == req[p].snap
    IN  /\ req[p].op = "build" => now = snap /\ now.status # "locked"
        /\ req[p].op = "build_read" => snap.status # "locked" /\ Balanced(snap)
        /\ req[p].op = "discard" => now.status = "draft"
        /\ req[p].op = "lock" => now.status = "draft" /\ Balanced(now)
        /\ req[p].op = "lock_read" => now = snap /\ Balanced(now) /\ CanBind(now)
        /\ req[p].op = "settle" =>
             \A r \in req[p].drafts : run[r].status = "draft"
        /\ req[p].op \in {"edit", "drop"} =>
             item[req[p].item] = "live" /\ applied[req[p].item] = NoRun

FreshLoads == \A p \in Proc : FreshLoad(p)

-----------------------------------------------------------------------------
(* The promise of the closed runs *)

closedBar == {r \in Run : run[r].status = "locked"}
sheetBar ==
    [r \in Run |->
       IF r \in closedBar
       THEN [lines |-> run[r].lines, charged |-> run[r].charged, counted |-> run[r].counted]
       ELSE [lines |-> {}, charged |-> {}, counted |-> {}]]

Promise == INSTANCE PayrollPromise WITH
    closed <- closedBar, sheet <- sheetBar, takenBy <- applied

\* Requests served one after the other keep the promise of PayrollPromise: of all
\* that they build, purge, delete, settle, record, edit and unlock, only locking and
\* unlocking a run is seen in the closed runs and in what they have taken; a run is
\* closed with all of its items, each for the first time, or not at all.
KeepsPayrollPromise == Promise!Spec
=============================================================================
