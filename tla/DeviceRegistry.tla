--------------------------- MODULE DeviceRegistry ---------------------------
(* The registry of the fingerprint devices: devices are created, edited,      *)
(* renumbered to match devices.list of the agent, tested, soft-deleted in the *)
(* admin and purged on the web site; the user numbers of a device are linked  *)
(* to employees; agents import punches under the link of their number.  A     *)
(* request that keeps what it read across several steps is an errand of a worker.*)
EXTENDS Integers, FiniteSets

CONSTANTS
  Ids,           \* device numbers
  Numbers,       \* user numbers on a device
  Employees, Branches,
  Keys,          \* agent keys the generator may still give out
  Hands,
  OneHand,         \* the server has one worker: requests do not overlap
  Absent,
  MaxStored      \* bound: different punches stored

ASSUME RegistryAssumption ==
  /\ MaxStored \in Nat /\ OneHand \in BOOLEAN
  /\ Absent \notin Ids \cup Numbers \cup Employees \cup Branches \cup Keys

VARIABLES
  dev,      \* BiometricDevice rows by number; Absent: no row
  links,    \* EmployeeBiometricEnrollment: employee of each number of a device
  punches,  \* AttendancePunch: device, number and employee of the punches
  pulls,    \* devices with a pull request that is not closed
  trail,    \* BiometricEnrollmentAuditLog: the device and number of each entry
  home,     \* Employee.branch
  errand,      \* what each worker has read for the request it serves
  shown     \* history: the key last shown to an operator for each device
registryVars == <<dev, links, punches, pulls, trail, home, errand, shown>>

Device == [live : BOOLEAN, active : BOOLEAN, branch : Branches \cup {Absent}, key : Keys \cup {Absent}]
Link == [dev : Ids, num : Numbers, emp : Employees]
PunchRow == [dev : Ids, num : Numbers, emp : Employees \cup {Absent}]
Errand == [op : {"idle"}] \cup [op : {"linking", "logging"}, link : Link]
       \cup [op : {"ingest"}, dev : Ids, map : [Numbers -> Employees \cup {Absent}]]
       \cup [op : {"test"}, dev : Ids, row : Device]
NoErrand == [op |-> "idle"]
Unlinked == [n \in Numbers |-> Absent]

RegistryTypeOK ==
  /\ dev \in [Ids -> Device \cup {Absent}]
  /\ links \in [Ids -> [Numbers -> Employees \cup {Absent}]]
  /\ punches \subseteq PunchRow
  /\ pulls \subseteq Ids /\ trail \subseteq Ids \X Numbers
  /\ home \in [Employees -> Branches \cup {Absent}]
  /\ errand \in [Hands -> Errand]
  /\ shown \in [Ids -> Keys \cup {Absent}]
  /\ \A p \in punches : dev[p.dev] # Absent

RegistryInit ==
  /\ dev = [d \in Ids |-> Absent] /\ links = [d \in Ids |-> Unlinked]
  /\ punches = {} /\ pulls = {} /\ trail = {}
  /\ home \in [Employees -> Branches \cup {Absent}]
  /\ errand = [w \in Hands |-> NoErrand] /\ shown = [d \in Ids |-> Absent]

Live(d) == dev[d] # Absent /\ dev[d].live
Taken(d) == Live(d)
Issued == {dev[d].key : d \in {e \in Ids : dev[e] # Absent}} \cup {shown[d] : d \in Ids}
          \cup {errand[w].row.key : w \in {v \in Hands : errand[v].op = "test"}}
PunchesBut(d) == {p \in punches : p.dev # d}

(* Every row of the device goes with it (the foreign keys cascade).           *)
Purged(d) ==
  /\ links' = [links EXCEPT ![d] = Unlinked]
  /\ punches' = PunchesBut(d)
  /\ pulls' = pulls \ {d}
  /\ trail' = {t \in trail : t[1] # d}

(* -------- devices ----------------------------------------------------------- *)
(* A number of a soft-deleted device is taken into use again, with its key.   *)
CreateDevice(d, b) ==
  /\ ~Taken(d)
  /\ dev' = [dev EXCEPT ![d] =
       [live |-> TRUE, active |-> TRUE, branch |-> b,
        key |-> IF dev[d] = Absent THEN Absent ELSE dev[d].key]]
  /\ UNCHANGED <<links, punches, pulls, trail, home, errand, shown>>

EditDevice(d, b, active) ==
  /\ Live(d)
  /\ dev' = [dev EXCEPT ![d].branch = b, ![d].active = active]
  /\ UNCHANGED <<links, punches, pulls, trail, home, errand, shown>>

(* The number d is given up for e: the row is copied without its key, the     *)
(* punches, links and device users are repointed, and the old row is deleted  *)
(* with what still points to it.                                              *)
Renumber(d, e) ==
  /\ Live(d) /\ d # e /\ ~Taken(e)
  /\ dev' = [dev EXCEPT ![e] = [dev[d] EXCEPT !.key = Absent], ![d] = Absent]
  /\ links' = [links EXCEPT ![e] = links[d], ![d] = Unlinked]
  /\ punches' = {IF p.dev = d THEN [p EXCEPT !.dev = e] ELSE p : p \in PunchesBut(e)}
  /\ pulls' = pulls \ {d, e}
  /\ trail' = {t \in trail : t[1] \notin {d, e}}
  /\ shown' = [shown EXCEPT ![e] = Absent, ![d] = Absent]
  /\ UNCHANGED <<home, errand>>

(* The web site purges a live device, a command the soft-deleted ones.        *)
PurgeDevice(d) ==
  /\ dev[d] # Absent
  /\ Purged(d)
  /\ dev' = [dev EXCEPT ![d] = Absent]
  /\ shown' = [shown EXCEPT ![d] = Absent]
  /\ UNCHANGED <<home, errand>>

SoftDelete(d) ==
  /\ Live(d)
  /\ dev' = [dev EXCEPT ![d].live = FALSE]
  /\ UNCHANGED <<links, punches, pulls, trail, home, errand, shown>>

GenerateKey(d) ==
  /\ Live(d)
  /\ \E k \in Keys \ Issued :
       /\ dev' = [dev EXCEPT ![d].key = k]
       /\ shown' = [shown EXCEPT ![d] = k]
  /\ UNCHANGED <<links, punches, pulls, trail, home, errand>>

RequestPull(d) ==
  /\ Live(d) /\ dev[d].branch # Absent /\ dev[d].key # Absent
  /\ pulls' = pulls \cup {d}
  /\ UNCHANGED <<dev, links, punches, trail, home, errand, shown>>

(* The test keeps the row it has loaded while it waits for the device, and    *)
(* then saves every column of it: a row that was deleted is inserted again.   *)
TestLoad(w, d) ==
  /\ errand[w] = NoErrand /\ Live(d)
  /\ errand' = [errand EXCEPT ![w] = [op |-> "test", dev |-> d, row |-> dev[d]]]
  /\ UNCHANGED <<dev, links, punches, pulls, trail, home, shown>>

TestSave(w) ==
  /\ errand[w].op = "test"
  /\ dev' = [dev EXCEPT ![errand[w].dev] = errand[w].row]
  /\ errand' = [errand EXCEPT ![w] = NoErrand]
  /\ UNCHANGED <<links, punches, pulls, trail, home, shown>>

(* -------- links ------------------------------------------------------------- *)
MayLink(l) ==
  /\ Live(l.dev) /\ dev[l.dev].branch # Absent
  /\ home[l.emp] \in {Absent, dev[l.dev].branch}

(* The employee takes the branch of the device before anything else, even     *)
(* when the number is another's and the link is only confirmed later.         *)
LinkCheck(w, l, force) ==
  /\ errand[w] = NoErrand /\ MayLink(l)
  /\ home' = [home EXCEPT ![l.emp] = dev[l.dev].branch]
  /\ errand' = IF links[l.dev][l.num] \in {Absent, l.emp} \/ force
            THEN [errand EXCEPT ![w] = [op |-> "linking", link |-> l]] ELSE errand
  /\ UNCHANGED <<dev, links, punches, pulls, trail, shown>>

(* One transaction: the employee's other number and the number's other link   *)
(* go, the link is written, the punches of the number change hands.           *)
(* Mutants: the other number stays linked; the punches keep their employee. *)
Mutant_LinksAfterKept(l) == [links EXCEPT ![l.dev][l.num] = l.emp]
LinksAfter(l) ==
  [links EXCEPT ![l.dev] =
     [n \in Numbers |-> CASE n = l.num -> l.emp
                          [] n # l.num /\ @[n] = l.emp -> Absent
                          [] OTHER -> @[n]]]
Mutant_RelinkedNot(l) == punches
Relinked(l) ==
  {IF p.dev = l.dev /\ p.num = l.num THEN [p EXCEPT !.emp = l.emp] ELSE p : p \in punches}

LinkCommit(w) ==
  /\ errand[w].op = "linking"
  /\ LET l == errand[w].link
     IN IF dev[l.dev] # Absent
        THEN /\ links' = LinksAfter(l) /\ punches' = Relinked(l)
             /\ errand' = [errand EXCEPT ![w] = [op |-> "logging", link |-> l]]
        ELSE errand' = [errand EXCEPT ![w] = NoErrand] /\ UNCHANGED <<links, punches>>
  /\ UNCHANGED <<dev, pulls, trail, home, shown>>

LinkLog(w) ==
  /\ errand[w].op = "logging"
  /\ trail' = IF dev[errand[w].link.dev] = Absent THEN trail
            ELSE trail \cup {<<errand[w].link.dev, errand[w].link.num>>}
  /\ errand' = [errand EXCEPT ![w] = NoErrand]
  /\ UNCHANGED <<dev, links, punches, pulls, home, shown>>

(* -------- the agent --------------------------------------------------------- *)
(* A key opens the device it is stored with, and only an active one.          *)
Opens(k, d) == Live(d) /\ dev[d].active /\ dev[d].key = k

IngestRead(w, d) ==
  /\ errand[w] = NoErrand /\ \E k \in Keys : Opens(k, d)
  /\ errand' = [errand EXCEPT ![w] = [op |-> "ingest", dev |-> d, map |-> links[d]]]
  /\ UNCHANGED <<dev, links, punches, pulls, trail, home, shown>>

(* The rows and the status of the device are saved in one transaction, which  *)
(* fails when the device is gone; the last batch closes the pull requests.    *)
IngestWrite(w, n) ==
  /\ errand[w].op = "ingest" /\ Cardinality(punches) < MaxStored
  /\ LET d == errand[w].dev
     IN IF dev[d] = Absent THEN UNCHANGED <<punches, pulls>>
        ELSE /\ punches' = punches \cup {[dev |-> d, num |-> n, emp |-> errand[w].map[n]]}
             /\ pulls' = pulls \ {d}
  /\ errand' = [errand EXCEPT ![w] = NoErrand]
  /\ UNCHANGED <<dev, links, trail, home, shown>>

Registry ==
  \E d \in Ids :
    \/ \E b \in Branches : CreateDevice(d, b) \/ (\E active \in BOOLEAN : EditDevice(d, b, active))
    \/ \E e \in Ids : Renumber(d, e)
    \/ PurgeDevice(d) \/ SoftDelete(d) \/ GenerateKey(d) \/ RequestPull(d)

RegistryWork(w) ==
  \/ \E d \in Ids : TestLoad(w, d) \/ IngestRead(w, d)
  \/ TestSave(w) \/ LinkCommit(w) \/ LinkLog(w)
  \/ \E l \in Link, force \in BOOLEAN : LinkCheck(w, l, force)
  \/ \E n \in Numbers : IngestWrite(w, n)

RegistryNext ==
  \/ (OneHand => \A w \in Hands : errand[w] = NoErrand) /\ Registry
  \/ \E w \in Hands : RegistryWork(w)

RegistrySpec == RegistryInit /\ [][RegistryNext]_registryVars

(* -------- properties -------------------------------------------------------- *)
(* On a device an employee has one number, whatever links are confirmed,      *)
(* moved and written at the same time (biometric_enrollment_save).            *)
OneNumberEach ==
  \A d \in Ids : \A n, m \in Numbers :
    n # m /\ links[d][n] # Absent => links[d][n] # links[d][m]

(* Every punch of a linked number carries the employee of the link, across    *)
(* links, imports, renumbering and reused device numbers.                     *)
PunchesFollowLinks ==
  \A p \in punches :
    links[p.dev][p.num] # Absent => p.emp = links[p.dev][p.num]

(* The key an operator was shown, once, is the key the device has.            *)
KeyShownWorks ==
  \A d \in Ids : Live(d) /\ shown[d] # Absent => dev[d].key = shown[d]

(* A device changes its number with all its related records.                  *)
RenumberMovesAll ==
  [][\A d, e \in Ids : Renumber(d, e) =>
       /\ d \in pulls => e \in pulls'
       /\ \A n \in Numbers : <<d, n>> \in trail => <<e, n>> \in trail']_registryVars

(* A device that was deleted for good comes back only when it is created.     *)
DeletedForGood ==
  [][\A d \in Ids : dev[d] = Absent /\ dev'[d] # Absent =>
       (\E b \in Branches : CreateDevice(d, b)) \/ \E e \in Ids : Renumber(e, d)]_registryVars
=============================================================================
