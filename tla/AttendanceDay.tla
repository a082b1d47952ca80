---------------------------- MODULE AttendanceDay ----------------------------
(***************************************************************************)
(* One employee's day at the devices: punches arrive in any order, each    *)
(* with the direction its device reports, which many devices get wrong; a  *)
(* reclassification, of one device or of all, reads the stored punches and *)
(* later rewrites their directions by their order; the daily row and the   *)
(* late alert are computed from whatever is stored.  Reclassifications     *)
(* come one at a time: two that overlap are not modelled.                  *)
(***************************************************************************)
EXTENDS Integers, FiniteSets, FiniteSetsExt

CONSTANTS
    Readers,            \* devices the employee is enrolled in
    Moments,            \* times of the day
    Expected,           \* EmployeeBiometricSettings.expected_check_in
    Graces,             \* late_grace_minutes, as entered
    DefaultGrace,
    NoPunch

VARIABLES
    direction,   \* direction[<<r, t>>]: the AttendancePunch of device r at t, or NoPunch
    grace,
    plan,        \* the directions a reclassification is about to write, or NoPunch
    sorted       \* history: the devices that sent nothing since a reclassification read them
dayVars == <<direction, grace, plan, sorted>>

Directions == {"in", "out", "unknown"}
Slot == Readers \X Moments

ASSUME AttendanceAssumption ==
    /\ Moments \subseteq Nat /\ Expected \in Nat
    /\ Graces \subseteq Nat /\ DefaultGrace \in Nat
    /\ NoPunch \notin Nat \cup Directions
    /\ \A S \in SUBSET Slot : NoPunch \notin [S -> Directions]

Stored == {s \in Slot : direction[s] # NoPunch}

DayTypeOK ==
    /\ direction \in [Slot -> Directions \cup {NoPunch}]
    /\ grace \in Graces /\ sorted \subseteq Readers
    /\ plan = NoPunch \/ (DOMAIN plan \subseteq Slot)

DayInit ==
    /\ direction = [s \in Slot |-> NoPunch] /\ grace \in Graces
    /\ plan = NoPunch /\ sorted = {}

\* A punch is stored as the device reports it, late or not; a second one of the same
\* device and moment is a duplicate.
Arrives(s, reported) ==
    /\ direction[s] = NoPunch
    /\ direction' = [direction EXCEPT ![s] = reported]
    /\ sorted' = sorted \ {s[1]}
    /\ UNCHANGED <<grace, plan>>

Mutant_Rank(s) == Cardinality({o \in Stored : o[2] < s[2]})
\* Its place among the punches of its device.
Rank(s) == Cardinality({o \in Stored : o[1] = s[1] /\ o[2] < s[2]})
Direction(rank) == IF rank % 2 = 0 THEN "in" ELSE "out"

\* The punches of the devices D are read and numbered, device by device.
ReclassifyRead(D) ==
    /\ plan = NoPunch
    /\ \E s \in Stored : s[1] \in D
    /\ plan' = [s \in {s \in Stored : s[1] \in D} |-> Direction(Rank(s))]
    /\ sorted' = sorted \cup D
    /\ UNCHANGED <<direction, grace>>

\* The command takes every device, or the one it is given; the page of the punches and
\* its task take one.
Reclassify == ReclassifyRead(Readers) \/ \E r \in Readers : ReclassifyRead({r})

ReclassifyWrite ==
    /\ plan # NoPunch
    /\ direction' = [s \in Slot |-> IF s \in DOMAIN plan THEN plan[s] ELSE direction[s]]
    /\ plan' = NoPunch
    /\ UNCHANGED <<grace, sorted>>

SetGrace(g) == grace' = g /\ g # grace /\ UNCHANGED <<direction, plan, sorted>>

DayNext ==
    \/ \E s \in Slot, d \in Directions : Arrives(s, d)
    \/ Reclassify \/ ReclassifyWrite
    \/ \E g \in Graces : SetGrace(g)

DaySpec == DayInit /\ [][DayNext]_dayVars

-----------------------------------------------------------------------------
(* The daily row *)

Times(way) == {s[2] : s \in {s \in Stored : direction[s] = way}}
CheckIn == IF Times("in") = {} THEN NoPunch ELSE Min(Times("in"))
CheckOut == IF Times("out") = {} THEN NoPunch ELSE Max(Times("out"))
Complete == CheckIn # NoPunch /\ CheckOut # NoPunch /\ CheckIn # CheckOut

Grace == IF grace = 0 THEN DefaultGrace ELSE grace
Late == CheckIn # NoPunch /\ CheckIn > Expected + Grace

(* Properties *)

\* The punches of the devices in order.
Sorted == {s \in Stored : s[1] \in sorted}

\* Once a reclassification of one device or of all is written, and as long as a device
\* sends nothing after it was read: the day begins no later than the first punch of
\* that device, is complete if that device has two, and if every device of the day is
\* in order, it begins with the first punch of all and is late only if they all are.
\* Whatever the devices reported, in whatever order the punches arrived, and whatever
\* the directions of the other devices (reclassify_punches_by_sequence,
\* build_daily_attendance_result, evaluate_daily_checkin).
ReclassifiedDayIsRight ==
    plan = NoPunch =>
        /\ \A s \in Sorted : CheckIn # NoPunch /\ CheckIn <= s[2]
        /\ (\E a, b \in Sorted : a[1] = b[1] /\ a # b) => Complete
        /\ (Stored # {} /\ Stored = Sorted) =>
              /\ CheckIn = Min({s[2] : s \in Stored})
              /\ Late <=> \A s \in Stored : s[2] > Expected + Grace

\* The page of late arrivals: "يظهر الموظفون الذين تأخروا عن وقت الدخول المتوقع + سماح
\* التأخير".  With no minute of grace entered, who comes late should be late.
GraceAsEntered ==
    (CheckIn # NoPunch /\ CheckIn > Expected + grace) => Late
=============================================================================
