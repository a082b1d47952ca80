--------------------------- MODULE NavigationCaches ---------------------------
(***************************************************************************)
(* The two caches behind every page of one user: the overview of the       *)
(* dashboard, whose key carries a version that an invalidation increases,  *)
(* and the counters of the sidebar, whose key an invalidation deletes.     *)
(* Requests compute them while others save what they count; the data is a  *)
(* number that grows with every change of it.  Requests, notifications and *)
(* maintenance requests of the user invalidate both caches, in the same    *)
(* request; so does a login of the user, which changes nothing.  Employees,*)
(* branches and the requests of others, which the overview counts too,     *)
(* invalidate neither.                                                     *)
(***************************************************************************)
EXTENDS Naturals

CONSTANTS
    Requests,
    MaxSaves,       \* bound: saves and logins
    Missing

ASSUME CachesAssumption ==
    /\ MaxSaves \in Nat /\ Missing \notin Nat

VARIABLES
    data,        \* what is committed
    saves,       \* bound: saves and logins made
    version,     \* the version key, or Missing
    overview,    \* overview[v]: what is stored under version v, or Missing
    sidebar,     \* what is stored for the sidebar, or Missing
    doing,       \* what each thread is doing
    told,        \* history: the data when the last invalidation ended
    met          \* history: two invalidations met without a version
cacheVars == <<data, saves, version, overview, sidebar, doing, told, met>>

Nobody == [op |-> "none"]
Versions == 0..MaxSaves

CachesInit ==
    /\ data = 0 /\ saves = 0 /\ version = Missing
    /\ overview = [v \in Versions |-> Missing] /\ sidebar = Missing
    /\ doing = [t \in Requests |-> Nobody]
    /\ told = 0 /\ met = FALSE

Become(t, job) == doing' = [doing EXCEPT ![t] = job]
Is(t, op) == doing[t].op = op

Version == IF version = Missing THEN 0 ELSE version
Mutant_KeyOf(v) == 0
KeyOf(v) == v

\* A page computes when its key holds nothing, or always when asked to refresh.
ReadOverview(t) ==
    /\ Is(t, "none")
    /\ Become(t, [op |-> "overview", key |-> KeyOf(Version), seen |-> data])
    /\ UNCHANGED <<data, saves, version, overview, sidebar, told, met>>

StoreOverview(t) ==
    /\ Is(t, "overview")
    /\ overview' = [overview EXCEPT ![doing[t].key] = doing[t].seen]
    /\ Become(t, Nobody)
    /\ UNCHANGED <<data, saves, version, sidebar, told, met>>

ReadSidebar(t) ==
    /\ Is(t, "none") /\ sidebar = Missing
    /\ Become(t, [op |-> "sidebar", seen |-> data])
    /\ UNCHANGED <<data, saves, version, overview, sidebar, told, met>>

StoreSidebar(t) ==
    /\ Is(t, "sidebar")
    /\ sidebar' = doing[t].seen
    /\ Become(t, Nobody)
    /\ UNCHANGED <<data, saves, version, overview, told, met>>

\* The signal follows the save at once; in a transaction it precedes the commit.
Save(t, atomic) ==
    /\ Is(t, "none") /\ saves < MaxSaves
    /\ saves' = saves + 1
    /\ data' = IF atomic THEN data ELSE data + 1
    /\ Become(t, [op |-> "saved", atomic |-> atomic])
    /\ UNCHANGED <<version, overview, sidebar, told, met>>

DeleteSidebar(t) ==
    /\ Is(t, "saved")
    /\ sidebar' = Missing
    /\ Become(t, [doing[t] EXCEPT !.op = "deleted"])
    /\ UNCHANGED <<data, saves, version, overview, told, met>>

Invalidated(t) == Become(t, IF doing[t].atomic THEN [op |-> "commit"] ELSE Nobody)

IncreaseVersion(t) ==
    /\ Is(t, "deleted") /\ version # Missing
    /\ version' = version + 1
    /\ Invalidated(t)
    /\ told' = data
    /\ UNCHANGED <<data, saves, overview, sidebar, met>>

\* cache.incr fails when there is no version yet.
FindNoVersion(t) ==
    /\ Is(t, "deleted") /\ version = Missing
    /\ Become(t, [doing[t] EXCEPT !.op = "set"])
    /\ met' = (met \/ \E o \in Requests : Is(o, "set"))
    /\ UNCHANGED <<data, saves, version, overview, sidebar, told>>

SetVersion(t) ==
    /\ Is(t, "set")
    /\ version' = 1
    /\ Invalidated(t)
    /\ told' = data
    /\ UNCHANGED <<data, saves, overview, sidebar, met>>

Commit(t) ==
    /\ Is(t, "commit")
    /\ data' = data + 1
    /\ Become(t, Nobody)
    /\ UNCHANGED <<saves, version, overview, sidebar, told, met>>

\* A save whose signals invalidate the caches of others, or none.
SaveElsewhere ==
    /\ saves < MaxSaves /\ saves' = saves + 1
    /\ data' = data + 1
    /\ UNCHANGED <<version, overview, sidebar, doing, told, met>>

Login(t) ==
    /\ Is(t, "none") /\ saves < MaxSaves
    /\ saves' = saves + 1
    /\ Become(t, [op |-> "saved", atomic |-> FALSE])
    /\ UNCHANGED <<data, version, overview, sidebar, told, met>>

\* The worker is killed; a transaction it had not committed is rolled back.
Killed(t) ==
    /\ ~Is(t, "none") /\ Become(t, Nobody)
    /\ UNCHANGED <<data, saves, version, overview, sidebar, told, met>>

\* Entries live for their TTL or less, the version for ever.
Expire ==
    \/ \E v \in Versions : overview[v] # Missing /\ overview' = [overview EXCEPT ![v] = Missing]
                           /\ UNCHANGED <<data, saves, version, sidebar, doing, told, met>>
    \/ /\ sidebar # Missing /\ sidebar' = Missing
       /\ UNCHANGED <<data, saves, version, overview, doing, told, met>>

CachesNext ==
    \/ Expire \/ SaveElsewhere
    \/ \E t \in Requests :
         \/ ReadOverview(t) \/ StoreOverview(t) \/ ReadSidebar(t) \/ StoreSidebar(t)
         \/ DeleteSidebar(t) \/ IncreaseVersion(t) \/ FindNoVersion(t) \/ SetVersion(t)
         \/ Commit(t) \/ Login(t) \/ Killed(t)
         \/ \E atomic \in BOOLEAN : Save(t, atomic)

CachesSpec == CachesInit /\ [][CachesNext]_cacheVars

-----------------------------------------------------------------------------
(* Properties *)

\* An overview that a page is served counts every change committed before the last
\* invalidation of the caches of its user ended, whoever computed it from older data and
\* stored it late, unless two invalidations met without a version, which sets the version
\* back (get_dashboard_overview, invalidate_dashboard_overview).  It says nothing of the
\* changes committed since: those that invalidate no cache of this user, and those of a
\* transaction, whose signal precedes the commit, wait until the overview expires.
OverviewIsFresh ==
    met \/ overview[KeyOf(Version)] = Missing \/ overview[KeyOf(Version)] >= told
=============================================================================
