--------------------------- MODULE ApprovalPromise --------------------------
(***************************************************************************)
(* What the approval workflow promises about one request, whatever         *)
(* happens to the others: its effects are written at most once, only       *)
(* together with its completion, and, unless it is a settlement executed   *)
(* directly, only while it is endorsed to an officer who may execute it;   *)
(* a returned request must be endorsed again; a withdrawn one is frozen.   *)
(***************************************************************************)
EXTENDS Naturals

CONSTANTS Action, Assignable, Kind, Nobody

VARIABLES
    phase,      \* where the request is
    kind,       \* what it asks for, fixed when it is made
    officer,    \* to whom it is endorsed
    performed,  \* how many times its effects were written
    withdrawn   \* has it been deleted?

promiseVars == <<phase, kind, officer, performed, withdrawn>>

Phase == {"none", "waiting", "endorsed", "returned", "done"}

Init ==
    /\ phase \in [Action -> {"none", "waiting", "returned"}]
    /\ kind \in [Action -> Kind \cup {"none"}]
    /\ \A a \in Action : phase[a] = "none" <=> kind[a] = "none"
    /\ officer = [a \in Action |-> Nobody]
    /\ performed = [a \in Action |-> 0]
    /\ withdrawn = [a \in Action |-> FALSE]

Ask(a) ==
    /\ phase[a] = "none"
    /\ \E k \in Kind : kind' = [kind EXCEPT ![a] = k]
    /\ phase' = [phase EXCEPT ![a] = "waiting"]
    /\ UNCHANGED <<officer, performed, withdrawn>>

\* A settlement may be made and performed in one step.
Direct(a) ==
    /\ phase[a] = "none"
    /\ kind' = [kind EXCEPT ![a] = "settlement"]
    /\ phase' = [phase EXCEPT ![a] = "done"]
    /\ performed' = [performed EXCEPT ![a] = @ + 1]
    /\ UNCHANGED <<officer, withdrawn>>

Open(a, from) == phase[a] \in from /\ ~withdrawn[a]

Endorse(a, o) ==
    /\ Open(a, {"waiting"})
    /\ phase' = [phase EXCEPT ![a] = "endorsed"]
    /\ officer' = [officer EXCEPT ![a] = o]
    /\ UNCHANGED <<kind, performed, withdrawn>>

Perform(a) ==
    /\ Open(a, {"endorsed"})
    /\ officer[a] \in Assignable
    /\ phase' = [phase EXCEPT ![a] = "done"]
    /\ performed' = [performed EXCEPT ![a] = @ + 1]
    /\ UNCHANGED <<kind, officer, withdrawn>>

SendBack(a) ==
    /\ Open(a, {"waiting", "endorsed"})
    /\ phase' = [phase EXCEPT ![a] = "returned"]
    /\ UNCHANGED <<kind, officer, performed, withdrawn>>

AskAgain(a) ==
    /\ Open(a, {"returned"})
    /\ phase' = [phase EXCEPT ![a] = "waiting"]
    /\ officer' = [officer EXCEPT ![a] = Nobody]
    /\ UNCHANGED <<kind, performed, withdrawn>>

Withdraw(a) ==
    /\ Open(a, Phase \ {"none"})
    /\ withdrawn' = [withdrawn EXCEPT ![a] = TRUE]
    /\ UNCHANGED <<phase, kind, officer, performed>>

Next ==
    \E a \in Action :
      \/ Ask(a) \/ Direct(a) \/ Perform(a) \/ SendBack(a) \/ AskAgain(a)
      \/ Withdraw(a)
      \/ \E o \in Assignable : Endorse(a, o)

Spec == Init /\ [][Next]_promiseVars
=============================================================================
