----------------------------- MODULE PayrollPage -----------------------------
(***************************************************************************)
(* The payroll page of one month: which runs the filters of a request      *)
(* name, what the page lists, builds and locks of them, and the filters    *)
(* the session keeps.  With one branch chosen a run is built per branch,   *)
(* otherwise one consolidated run per company, which takes the place of    *)
(* the branches' drafts.  Requests run one at a time here (PayrollRuns is  *)
(* about their overlaps), and the employees stay as they are.              *)
(***************************************************************************)
EXTENDS Naturals, FiniteSets

CONSTANTS
    Site,          \* branches, all active
    FirmOf,        \* FirmOf[b]: the company of branch b
    Accountant,
    Reach,         \* Reach[u]: the branches u may see (get_accessible_branch_ids)
    Superuser,     \* those, who see every branch
    Sponsor,       \* active sponsorships
    NoSponsor,     \* a null sponsorship_id: paid in cash
    Payee,
    SiteOf, SponsorOf,
    Queries,       \* the forms that are submitted
    Nil            \* no run, nothing stored

Firm == {FirmOf[b] : b \in Site}
Modes == {"cash", "transfer"}
ModeOf(s) == IF s = NoSponsor THEN "cash" ELSE "transfer"

\* STANDARD runs are unique by branch and mode, CONSOLIDATED by company and sponsorship.
BranchKey == Site \X Modes
FirmKey == Firm \X (Sponsor \cup {NoSponsor})
Keys == BranchKey \cup FirmKey

\* {} is every branch, and every sponsorship: an empty list, and None.
Filters == [sites : SUBSET Site, mode : Modes \cup {""}, sponsors : SUBSET Sponsor]
Query == [sites : SUBSET Site, mode : Modes \cup {""}, sponsors : SUBSET Sponsor,
          explicit : BOOLEAN]       \* sent by the filter form (payroll_filters=1)

Sheet == [locked : BOOLEAN, sponsor : Sponsor \cup {NoSponsor}, staff : SUBSET Payee]

ASSUME PageAssumption ==
    /\ DOMAIN FirmOf = Site /\ Firm \cap Site = {}
    /\ Reach \in [Accountant -> SUBSET Site] /\ Superuser \subseteq Accountant
    /\ \A u \in Superuser : Reach[u] = Site
    /\ NoSponsor \notin Sponsor
    /\ SiteOf \in [Payee -> Site] /\ SponsorOf \in [Payee -> Sponsor \cup {NoSponsor}]
    /\ Queries \subseteq Query
    /\ Nil \notin Sheet

VARIABLES
    sheet,     \* sheet[k]: the payroll run of key k
    session    \* session[u]: the filters last stored for u
pageVars == <<sheet, session>>

PageTypeOK ==
    /\ sheet \in [Keys -> Sheet \cup {Nil}]
    /\ session \in [Accountant -> Filters \cup {Nil}]

PageInit ==
    /\ sheet = [k \in Keys |-> Nil]
    /\ session = [u \in Accountant |-> Nil]

Kept(k) == sheet[k] # Nil
Sealed(k) == Kept(k) /\ sheet[k].locked
Open(k) == Kept(k) /\ ~sheet[k].locked

-----------------------------------------------------------------------------
(* Filters *)

\* Branches out of reach are dropped; when none is left, all are meant.
Parsed(u, q) == [sites |-> q.sites \cap Reach[u], mode |-> q.mode,
                 sponsors |-> IF q.mode = "cash" THEN {} ELSE q.sponsors]

Merged(f, stored) ==
    LET mode == IF f.mode = "" THEN stored.mode ELSE f.mode
    IN [sites |-> IF f.sites = {} THEN stored.sites ELSE f.sites,
        mode |-> mode,
        sponsors |-> IF mode = "cash" THEN {}
                     ELSE IF f.sponsors = {} THEN stored.sponsors ELSE f.sponsors]

Resolved(u, f) == IF f.sites = {} THEN Reach[u] ELSE f.sites

PrefersFirms(u, f) == f.sites = {} \/ Cardinality(f.sites) > 1

\* The drafts of the month, of any mode, that a form without a mode goes by.
SavedDrafts(u, f) ==
    IF PrefersFirms(u, f)
    THEN {k \in FirmKey : Open(k) /\ k[1] \in {FirmOf[b] : b \in Reach[u]}}
    ELSE {k \in BranchKey : Open(k) /\ k[1] \in f.sites}

\* Drafts of one mode decide it, and the sponsorship when they share one;
\* otherwise the draft changed last fills in what is missing.
Inferred(u, f) ==
    LET drafts == SavedDrafts(u, f)
        modes == {ModeOf(sheet[k].sponsor) : k \in drafts}
        named == {sheet[k].sponsor : k \in drafts} \ {NoSponsor}
        rest == IF f.sites = {} THEN {} ELSE f.sponsors
    IN IF f.mode # "" THEN {f}
       ELSE IF drafts = {} THEN {[f EXCEPT !.mode = "transfer"]}
       ELSE IF modes = {"cash"} THEN {[f EXCEPT !.mode = "cash"]}
       ELSE IF modes = {"transfer"}
       THEN {[f EXCEPT !.mode = "transfer",
                       !.sponsors = IF Cardinality(named) = 1 THEN named ELSE rest]}
       ELSE {[f EXCEPT !.mode = ModeOf(sheet[k].sponsor),
                       !.sponsors = IF @ = {} THEN {sheet[k].sponsor} \ {NoSponsor} ELSE @]
              : k \in drafts}

\* The page is opened: what the address leaves out comes from the session, then
\* from the drafts; the request is redirected to the full address and stored.
OpenPage(u, q) ==
    /\ LET f == Parsed(u, q)
           restored == IF session[u] = Nil \/ q.explicit THEN f ELSE Merged(f, session[u])
       IN \E g \in Inferred(u, restored) : session' = [session EXCEPT ![u] = g]
    /\ UNCHANGED sheet

-----------------------------------------------------------------------------
(* Which runs *)

FirmsOf(sites) == {FirmOf[b] : b \in sites}
SponsorsOf(f) == IF f.mode = "cash" THEN {NoSponsor}
                 ELSE IF f.sponsors = {} THEN Sponsor ELSE f.sponsors

FirmSheets(u, f) ==
    {k \in FirmKey : Kept(k) /\ k[1] \in FirmsOf(Resolved(u, f)) /\ k[2] \in SponsorsOf(f)}

OfFirms(u, f) == PrefersFirms(u, f) /\ FirmSheets(u, f) # {}

\* What a build of these filters made, what the export writes and the closing locks.
MatchingSheets(u, f) ==
    IF OfFirms(u, f) THEN FirmSheets(u, f)
    ELSE {k \in BranchKey : /\ Kept(k) /\ k[1] \in Resolved(u, f) /\ k[2] = f.mode
                            /\ sheet[k].sponsor \in SponsorsOf(f)}

Exported(u, f) == MatchingSheets(u, [f EXCEPT !.sites = {}])

MayOpen(u, k) ==
    IF k \in FirmKey THEN u \in Superuser \/ k[1] \in FirmsOf(Reach[u]) ELSE k[1] \in Reach[u]

-----------------------------------------------------------------------------
(* Building *)

\* Who is left for key k: employees in another locked STANDARD run are left out.
Members(k, sites, s) ==
    {e \in Payee : SiteOf[e] \in sites /\ SponsorOf[e] = s}
    \ UNION {sheet[o].staff : o \in {o \in BranchKey \ {k} : Sealed(o)}}

Draft(k, sites, s) == [locked |-> FALSE, sponsor |-> s, staff |-> Members(k, sites, s)]

\* A branch's run is found without its sponsorship: of several the last one stays.
BuildSites(sites, mode, sponsors) ==
    /\ \A b \in sites : ~Sealed(<<b, mode>>)
    /\ \E last \in sponsors :
         sheet' = [k \in Keys |-> IF k \in sites \X {mode}
                                  THEN Draft(k, {k[1]}, last) ELSE sheet[k]]

Swept_EverySponsor(k, sites, sponsors) == \* mutant: whatever the sponsorship
    /\ k \in BranchKey /\ Open(k) /\ k[1] \in sites
    /\ k[2] \in {ModeOf(s) : s \in sponsors}

\* _purge_standard_draft_runs
Swept(k, sites, sponsors) ==
    k \in BranchKey /\ Open(k) /\ k[1] \in sites /\ sheet[k].sponsor \in sponsors

\* One run per company and sponsorship; an empty one is not kept.
BuildFirms(sites, sponsors) ==
    LET target == FirmsOf(sites) \X sponsors
        built(k) == Draft(k, {b \in sites : FirmOf[b] = k[1]}, k[2])
    IN /\ \A k \in target : ~Sealed(k)
       /\ sheet' = [k \in Keys |->
            IF k \in target THEN IF built(k).staff = {} THEN Nil ELSE built(k)
            ELSE IF Swept(k, sites, sponsors) THEN Nil ELSE sheet[k]]

\* At once or in a task later: all the runs of the filters, or none when one is locked.
BuildRuns(u, f) ==
    /\ f.mode \in Modes /\ Resolved(u, f) # {}
    /\ \/ PrefersFirms(u, f) /\ BuildFirms(Resolved(u, f), SponsorsOf(f))
       \/ ~PrefersFirms(u, f) /\ BuildSites(Resolved(u, f), f.mode, SponsorsOf(f))
    /\ session' = [session EXCEPT ![u] = f]

\* A consolidated run is built again of the branches this user sees.
RebuildRun(u, k) ==
    /\ MayOpen(u, k) /\ Open(k)
    /\ \/ k \in BranchKey /\ BuildSites({k[1]}, k[2], {sheet[k].sponsor})
       \/ k \in FirmKey /\ BuildFirms({b \in Reach[u] : FirmOf[b] = k[1]}, {k[2]})
    /\ UNCHANGED session

-----------------------------------------------------------------------------
(* Closing *)

\* Every draft of the filters, after one audit of them all: empty ones are a
\* warning as long as somebody is paid.
LockRuns(u, f) ==
    LET drafts == {k \in MatchingSheets(u, f) : Open(k)}
    IN /\ f.mode \in Modes /\ Resolved(u, f) # {}
       /\ \E k \in drafts : sheet[k].staff # {}
       /\ sheet' = [k \in Keys |->
            IF k \in drafts THEN [sheet[k] EXCEPT !.locked = TRUE] ELSE sheet[k]]
       /\ session' = [session EXCEPT ![u] = f]

LockRun(u, k) ==
    /\ MayOpen(u, k) /\ Open(k) /\ sheet[k].staff # {}
    /\ sheet' = [sheet EXCEPT ![k].locked = TRUE]
    /\ UNCHANGED session

UnlockRun(u, k) ==
    /\ u \in Superuser /\ Sealed(k)
    /\ sheet' = [sheet EXCEPT ![k].locked = FALSE]
    /\ UNCHANGED session

\* The list is shown again with the stored filters, or those of the run.
DeleteDraft(u, k) ==
    /\ MayOpen(u, k) /\ Open(k)
    /\ sheet' = [sheet EXCEPT ![k] = Nil]
    /\ session' = [session EXCEPT ![u] =
         IF @ = Nil THEN [sites |-> {}, mode |-> ModeOf(sheet[k].sponsor), sponsors |-> {}]
         ELSE @]

\* A post that is refused (a run is locked, the audit fails, no permission) still
\* stores its filters.
Refused(u, f) ==
    /\ f.mode \in Modes
    /\ session' = [session EXCEPT ![u] = f]
    /\ UNCHANGED sheet

PageNext ==
    \E u \in Accountant :
      \/ \E q \in Queries :
           \/ OpenPage(u, q) \/ Refused(u, Parsed(u, q))
           \/ BuildRuns(u, Parsed(u, q)) \/ LockRuns(u, Parsed(u, q))
      \/ \E k \in Keys :
           RebuildRun(u, k) \/ LockRun(u, k) \/ UnlockRun(u, k) \/ DeleteDraft(u, k)

PageSpec == PageInit /\ [][PageNext]_pageVars

-----------------------------------------------------------------------------
(* Properties *)

HasSheet(e) == \E k \in Keys : IF sheet[k] = Nil THEN FALSE ELSE e \in sheet[k].staff

\* A consolidated build clears the drafts of its branches away, and every employee
\* of these branches who was in a run is in one after it, of whichever sponsorship
\* and however often runs were locked in between (_purge_standard_draft_runs).
SweepLosesNobody ==
    [][sheet' # sheet =>
         \A u \in Accountant, q \in Queries :
           LET f == Parsed(u, q)
           IN (PrefersFirms(u, f) /\ BuildRuns(u, f)) =>
                \A e \in Payee :
                  (SiteOf[e] \in Resolved(u, f) /\ HasSheet(e)) => HasSheet(e)']_pageVars

\* "كل مسيرات الشهر/النوع في ملف تصدير واحد" (views.py): the export holds every run
\* of the month and the mode that the user may open.
ExportIsWhole ==
    \A u \in Accountant : session[u] # Nil =>
        LET f == [session[u] EXCEPT !.sponsors = {}]
        IN {k \in Keys : /\ Kept(k) /\ MayOpen(u, k)
                         /\ ModeOf(sheet[k].sponsor) = f.mode} \subseteq Exported(u, f)
=============================================================================
