----------------------------- MODULE DirectPull ------------------------------
(***************************************************************************)
(* A fingerprint device the server reaches itself, without a branch agent: *)
(* a click or the pull command reads the whole device in one session, may  *)
(* clear it, and imports what it read (PunchSync is about the agent).      *)
(* Users, types and the status columns are left out.                       *)
(***************************************************************************)
EXTENDS Naturals, Sequences, FiniteSets, FiniteSetsExt

CONSTANTS
    Pullers,     \* web workers and commands
    Spans,       \* the date ranges of the command, as [from, to] times
    Margin,      \* INCREMENTAL_BUFFER
    Restarts,    \* whether a cleared device numbers its records anew
    Whole,       \* no date range; no watermark
    MaxClock, MaxRecords, MaxPulls     \* bounds

Record == [id : 1..MaxRecords, no : 1..MaxRecords, at : 0..MaxClock]

ASSUME DirectPullAssumption ==
    /\ Margin \in Nat \ {0} /\ Restarts \in BOOLEAN
    /\ MaxClock \in Nat /\ MaxRecords \in Nat /\ MaxPulls \in Nat
    /\ Spans \subseteq [from : 0..MaxClock, to : 0..MaxClock]
    /\ Whole \notin Spans /\ Whole \notin 0..MaxClock

VARIABLES
    tape,       \* the records on the device, in the order recorded
    made,       \* how many it ever recorded
    clock,      \* the time of the device
    kept,       \* AttendancePunch: the records stored
    pull,       \* pull[p]: the pull p is in
    careful,    \* history: no date range was imported, no restart of the numbers,
                \* no pull of a device cleared by one that is still to import
    promised,   \* history: what the successful pulls without a range had read
    started     \* bound: pulls so far
pullVars == <<tape, made, clock, kept, pull, careful, promised, started>>

\* A range makes the import a full one; neither it nor a dry run asks for --full.
Options == {o \in [span : Spans \cup {Whole}, clear : BOOLEAN, full : BOOLEAN, store : BOOLEAN] :
              o.full => o.span = Whole /\ o.store}
Resting == [stage |-> "idle", read |-> {}, new |-> {}]

PullTypeOK ==
    /\ tape \in Seq(Record) /\ made \in 0..MaxRecords /\ clock \in 0..MaxClock
    /\ kept \subseteq Record
    /\ \A p \in Pullers : /\ pull[p].stage \in {"idle", "reading", "closed", "indexed"}
                          /\ pull[p].read \subseteq Record /\ pull[p].new \subseteq Record
                          /\ pull[p].stage # "idle" => pull[p].opt \in Options
    /\ careful \in BOOLEAN /\ promised \subseteq Record /\ started \in 0..MaxPulls

PullInit ==
    /\ tape = <<>> /\ made = 0 /\ clock = 0 /\ kept = {}
    /\ pull = [p \in Pullers |-> Resting]
    /\ careful = TRUE /\ promised = {} /\ started = 0

-----------------------------------------------------------------------------
(* The device *)

NextNumber ==
    IF tape # <<>> THEN tape[Len(tape)].no + 1 ELSE IF Restarts THEN 1 ELSE made + 1

Punched ==
    /\ made < MaxRecords
    /\ tape' = Append(tape, [id |-> made + 1, no |-> NextNumber, at |-> clock])
    /\ made' = made + 1
    /\ UNCHANGED <<clock, kept, pull, careful, promised, started>>

ClockTicks ==
    /\ clock < MaxClock
    /\ clock' = clock + 1
    /\ UNCHANGED <<tape, made, kept, pull, careful, promised, started>>

-----------------------------------------------------------------------------
(* The session with the device *)

\* fetch_device_snapshot: users and the whole log.
ReadDevice(p, opt) ==
    /\ pull[p] = Resting /\ started < MaxPulls
    /\ pull' = [pull EXCEPT ![p] =
         [stage |-> "reading", read |-> Range(tape), new |-> {}, opt |-> opt]]
    /\ started' = started + 1
    /\ careful' = (careful /\ \A o \in Pullers : pull[o].read \subseteq Range(tape))
    /\ UNCHANGED <<tape, made, clock, kept, promised>>

\* A log that was read is cleared before anything of it is stored.
CloseSession(p) ==
    /\ pull[p].stage = "reading"
    /\ LET clears == pull[p].opt.clear /\ pull[p].read # {}
       IN /\ tape' = IF clears THEN <<>> ELSE tape
          /\ careful' = (careful /\ ~(clears /\ Restarts))
    /\ pull' = [pull EXCEPT ![p].stage = "closed"]
    /\ UNCHANGED <<made, clock, kept, promised, started>>

\* The network fails, also between the clearing and the serial number, or the
\* process dies: nothing of what was read is stored.
SessionFails(p) ==
    /\ pull[p].stage \in {"reading", "closed", "indexed"}
    /\ pull' = [pull EXCEPT ![p] = Resting]
    /\ UNCHANGED <<tape, made, clock, kept, careful, promised, started>>

-----------------------------------------------------------------------------
(* The import *)

Chosen(p) ==
    LET span == pull[p].opt.span
    IN IF span = Whole THEN pull[p].read
       ELSE {r \in pull[p].read : span.from <= r.at /\ r.at <= span.to}

Incremental(p) == ~pull[p].opt.full /\ pull[p].opt.span = Whole

LastKept == IF kept = {} THEN Whole ELSE Max({r.at : r \in kept})

Mutant_Later(S, w) == {r \in S : r.at > w} \* without the margin
Later(S, w) == {r \in S : r.at + Margin > w}

\* An incremental import looks no further back than the margin, both for what it
\* takes and for what it compares it with.
LoadIndex(p) ==
    /\ pull[p].stage = "closed"
    /\ LET near == IF Incremental(p) /\ LastKept # Whole
                   THEN {r \in kept : r.at + Margin >= LastKept} ELSE kept
           taken == IF Incremental(p) /\ LastKept # Whole
                    THEN Later(Chosen(p), LastKept) ELSE Chosen(p)
       IN pull' = [pull EXCEPT
            ![p].stage = "indexed",
            ![p].new = {r \in taken : \A k \in near : r.no # k.no /\ r.id # k.id}]
    /\ UNCHANGED <<tape, made, clock, kept, careful, promised, started>>

\* bulk_create(ignore_conflicts=True): a row whose number or time is stored already
\* is dropped silently.  Neither a dry run nor a mere export stores anything.
StoreNew(p) ==
    /\ pull[p].stage = "indexed"
    /\ IF pull[p].opt.store
       THEN /\ kept' = kept \cup {r \in pull[p].new : \A k \in kept : r.no # k.no /\ r.id # k.id}
            /\ careful' = (careful /\ pull[p].opt.span = Whole)
            /\ promised' = IF pull[p].opt.span = Whole
                           THEN promised \cup pull[p].read ELSE promised
       ELSE UNCHANGED <<kept, careful, promised>>
    /\ pull' = [pull EXCEPT ![p] = Resting]
    /\ UNCHANGED <<tape, made, clock, started>>

PullNext ==
    \/ Punched \/ ClockTicks
    \/ \E p \in Pullers :
         \/ \E opt \in Options : ReadDevice(p, opt)
         \/ CloseSession(p) \/ SessionFails(p) \/ LoadIndex(p) \/ StoreNew(p)

PullSpec == PullInit /\ [][PullNext]_pullVars

-----------------------------------------------------------------------------
(* Properties *)

\* Whatever a successful pull without a date range has read is stored, though the
\* import goes by the last time stored and other pulls store meanwhile; as long as
\* no date range was imported, the device did not start its numbers again, and none
\* was read that a pull had cleared and was still to import (what is read of such a
\* device is later, and the import of what was cleared looks no further back).
PulledIsStored == careful => promised \subseteq kept

\* "حذف السجلات من الجهاز بعد السحب" (pull_biometric_attendance.py: the records are
\* deleted after the pull): a record is on the device or stored.
NothingErased ==
    Cardinality(Range(tape) \cup kept) = made
=============================================================================
