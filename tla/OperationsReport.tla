--------------------------- MODULE OperationsReport ---------------------------
(***************************************************************************)
(* The daily operations report.  Cron starts the command every minute; it  *)
(* decides by the settings it read whether the report is due, delivers to  *)
(* one recipient after the other, and records when it started only after   *)
(* the last of them.  Deliveries fail, the process dies, the settings are  *)
(* saved meanwhile.                                                        *)
(***************************************************************************)
EXTENDS Naturals, FiniteSets

CONSTANTS
    Jobs,        \* cron processes that may overlap
    Roles,       \* recipients
    Minutes,     \* minutes of a day
    CatchUp,     \* minutes after the time of sending in which it is caught up
    LastReportDay, MaxMishaps,   \* bounds
    Never

Time == [day : 0..LastReportDay, minute : 0..(Minutes - 1)]

ASSUME ReportAssumption ==
    /\ Minutes \in Nat \ {0} /\ CatchUp \in Nat
    /\ LastReportDay \in Nat /\ MaxMishaps \in Nat
    /\ Never \notin Time

VARIABLES
    clock,       \* [day, minute]
    ticked,      \* cron has started this minute's process, or was down
    sendAt,      \* OperationsReportSettings.send_time
    lastSent,    \* last_sent_at
    form,        \* the last_sent_at the settings page has loaded, or NoForm
    hasData,     \* roles whose own report has content today
    work,        \* what each process is doing
    received,    \* history: reports each role received from processes of today
    mishaps      \* history: times today that cron was down, a process died or the
                 \* settings were saved
reportVars == <<clock, ticked, sendAt, lastSent, form, hasData, work, received, mishaps>>

Resting == [at |-> "rest"]
NoForm == Never

ReportTypeOK ==
    /\ clock \in Time /\ ticked \in BOOLEAN /\ sendAt \in 0..(Minutes - 1)
    /\ lastSent \in Time \cup {Never}
    /\ form = NoForm \/ form \in [last : Time \cup {Never}]
    /\ hasData \subseteq Roles
    /\ \A j \in Jobs : work[j].at \in {"rest", "roles", "all"}
    /\ received \in [Roles -> Nat] /\ mishaps \in 0..MaxMishaps

ReportInit ==
    /\ clock = [day |-> 0, minute |-> 0] /\ ticked = FALSE
    /\ sendAt \in 0..(Minutes - 1) /\ lastSent = Never
    /\ form = NoForm /\ hasData \in SUBSET Roles
    /\ work = [j \in Jobs |-> Resting]
    /\ received = [r \in Roles |-> 0] /\ mishaps = 0

SentOn(day) == IF lastSent = Never THEN FALSE ELSE lastSent.day = day

Mutant_ReportDue == clock.minute >= sendAt /\ clock.minute <= sendAt + CatchUp
\* At the minute itself unless sent in that minute; later, in the window of the
\* same day, unless sent that day.
ReportDue ==
    IF clock.minute = sendAt THEN lastSent # clock
    ELSE /\ clock.minute > sendAt /\ clock.minute <= sendAt + CatchUp
         /\ ~SentOn(clock.day)

\* A minute later, with or without a process that is still at work; at midnight the
\* counts start again.
Tick(overlap) ==
    /\ \A j \in Jobs : work[j] # Resting => overlap /\ clock.minute < Minutes - 1
    /\ ticked' = FALSE
    /\ \/ /\ clock.minute < Minutes - 1
          /\ clock' = [clock EXCEPT !.minute = @ + 1]
          /\ UNCHANGED <<received, mishaps, hasData>>
       \/ /\ clock.minute = Minutes - 1 /\ clock.day < LastReportDay /\ form = NoForm
          /\ clock' = [day |-> clock.day + 1, minute |-> 0]
          /\ received' = [r \in Roles |-> 0] /\ mishaps' = 0
          /\ hasData' \in SUBSET Roles
    /\ UNCHANGED <<sendAt, lastSent, form, work>>

\* Nothing is due, or cron is down.
CronSkips ==
    /\ ~ticked
    /\ ~ReportDue \/ mishaps < MaxMishaps
    /\ ticked' = TRUE
    /\ mishaps' = IF ReportDue THEN mishaps + 1 ELSE mishaps
    /\ UNCHANGED <<clock, sendAt, lastSent, form, hasData, work, received>>

CronStarts(j) ==
    /\ ~ticked /\ ReportDue /\ work[j] = Resting
    /\ ticked' = TRUE
    /\ work' = [work EXCEPT ![j] =
         [at |-> "roles", since |-> clock, left |-> hasData, sent |-> FALSE]]
    /\ UNCHANGED <<clock, sendAt, lastSent, form, hasData, received, mishaps>>

\* The next recipient gets the report or the delivery fails.
Deliver(j, r, ok) ==
    /\ work[j] # Resting /\ r \in work[j].left
    /\ work' = [work EXCEPT ![j].left = @ \ {r}, ![j].sent = @ \/ ok]
    /\ received' = IF ok THEN [received EXCEPT ![r] = @ + 1] ELSE received
    /\ UNCHANGED <<clock, ticked, sendAt, lastSent, form, hasData, mishaps>>

\* When nobody got a report of his own, all get the complete one if it has content:
\* it has when a role's has, and may have when none has.
SendToAll(j) ==
    /\ work[j] # Resting /\ work[j].at = "roles" /\ work[j].left = {} /\ ~work[j].sent
    /\ \E all \in {{}, Roles} :
         /\ hasData # {} => all = Roles
         /\ work' = [work EXCEPT ![j].at = "all", ![j].left = all]
    /\ UNCHANGED <<clock, ticked, sendAt, lastSent, form, hasData, received, mishaps>>

\* One delivery is enough; the time recorded is the one of the start.
Recorded(w) == IF w.sent THEN w.since ELSE lastSent

Finish(j) ==
    /\ work[j] # Resting /\ work[j].left = {}
    /\ work[j].sent \/ work[j].at = "all"
    /\ lastSent' = Recorded(work[j])
    /\ work' = [work EXCEPT ![j] = Resting]
    /\ UNCHANGED <<clock, ticked, sendAt, form, hasData, received, mishaps>>

Dies(j) ==
    /\ work[j] # Resting /\ mishaps < MaxMishaps
    /\ work' = [work EXCEPT ![j] = Resting]
    /\ mishaps' = mishaps + 1
    /\ UNCHANGED <<clock, ticked, sendAt, lastSent, form, hasData, received>>

\* The settings page saves every column of the row it has loaded, last_sent_at
\* included.
LoadSettings ==
    /\ form = NoForm /\ mishaps < MaxMishaps
    /\ form' = [last |-> lastSent]
    /\ mishaps' = mishaps + 1
    /\ UNCHANGED <<clock, ticked, sendAt, lastSent, hasData, work, received>>

SaveSettings(minute) ==
    /\ form # NoForm
    /\ sendAt' = minute
    /\ lastSent' = form.last
    /\ form' = NoForm
    /\ UNCHANGED <<clock, ticked, hasData, work, received, mishaps>>

ReportNext(overlap) ==
    \/ Tick(overlap) \/ CronSkips \/ LoadSettings
    \/ \E minute \in 0..(Minutes - 1) : SaveSettings(minute)
    \/ \E j \in Jobs :
         \/ CronStarts(j) \/ SendToAll(j) \/ Finish(j) \/ Dies(j)
         \/ \E r \in Roles, ok \in BOOLEAN : Deliver(j, r, ok)

\* One process at a time.
ReportSpec == ReportInit /\ [][ReportNext(FALSE)]_reportVars

-----------------------------------------------------------------------------
(* Properties *)

\* With one process at a time nobody gets more reports in a day than one, and one
\* more for each death of a process and each save of the settings, which may set the
\* time and bring an old record back (scheduled_send_due, operations_report_settings).
OnceADay == \A r \in Roles : received[r] <= 1 + mishaps
=============================================================================
