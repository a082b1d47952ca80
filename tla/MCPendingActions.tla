-------------------------- MODULE MCPendingActions --------------------------
(***************************************************************************)
(* Instances of PendingActions for TLC: boss is a superuser (hence admin   *)
(* and manager), hr another manager, eo an entry officer.                  *)
(***************************************************************************)
EXTENDS PendingActions, TLC

CONSTANTS a1, a2, e1, e2, boss, hr, eo, p1, p2, p3

ProcSymmetry == Permutations(Proc)
=============================================================================
