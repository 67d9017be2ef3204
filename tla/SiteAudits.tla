----------------------------- MODULE SiteAudits -----------------------------
(***************************************************************************)
(* Websites of one organization and the audits of their pages.  An audit   *)
(* is requested or scheduled, saved as pending, and then runs in the       *)
(* process on its own; nothing takes it up again after a restart.          *)
(***************************************************************************)
EXTENDS OrgQuota

CONSTANTS
    Sites, Domains, Runs,
    MaxPages,       \* bound: pages of a website
    Nil             \* no row; no audit in progress

VARIABLES
    site,           \* website_properties: id |-> row, or Nil
    siteIds,        \* ids of websites given so far
    run,            \* on_page_audit_runs: id |-> row, or Nil
    job,            \* the runner: run |-> its local variables, or Nil
    stranded        \* history: audits that a restart cut short

siteVars == <<site, siteIds, run, job, stranded>>

SiteRows == [domain : Domains, active : BOOLEAN]

RunRows ==
    [site : Sites,
     status : {"pending", "running", "completed", "failed"},
     audited : 0..MaxPages,             \* pagesAudited
     failed : 0..2 * MaxPages,          \* pagesFailed
     pages : 0..MaxPages,               \* history: pages the sitemap named
     unsaved : 0..MaxPages]             \* history: results that were not stored

JobRows ==
    [at : {"find", "mark", "sitemap", "page", "complete", "fail"},
     left : 0..MaxPages,                \* pages still to fetch
     row : RunRows]                     \* the run it has read

ASSUME SiteAssumption ==
    /\ "websites" \in Keys
    /\ MaxPages \in Nat \ {0}
    /\ Nil \notin SiteRows \cup RunRows \cup JobRows

SiteCalls ==
         [op : {"findDomain", "insertSite"}, row : SiteRows]
    \cup [op : {"findOther", "saveSite"}, site : Sites, row : SiteRows]
    \cup [op : {"deleteSite"}, site : Sites]
    \cup [op : {"saveRuns"}, sites : SUBSET Sites, cron : BOOLEAN]

Exists(s) == site[s] # Nil
WithDomain(d) == {s \in Sites : Exists(s) /\ site[s].domain = d}
Websites == {s \in Sites : Exists(s)}

-----------------------------------------------------------------------------
(* on-page-seo.service.ts: the check for the domain and the insert are     *)
(* apart, and the entity declares no unique index behind them.             *)

CreateSite(w, row) ==
    /\ WithinLimit("websites", Cardinality(Websites))
    /\ Begin(w, [op |-> "findDomain", row |-> row])
    /\ UNCHANGED siteVars

\* A mutant for the runs: nobody looks for the domain.
SkipDomain(w) ==
    /\ call[w].op = "findDomain"
    /\ GoOn(w, [call[w] EXCEPT !.op = "insertSite"])
    /\ UNCHANGED siteVars

FindDomain(w) ==
    /\ call[w].op = "findDomain"
    /\ IF WithDomain(call[w].row.domain) = {}
       THEN GoOn(w, [call[w] EXCEPT !.op = "insertSite"])
       ELSE Return(w)
    /\ UNCHANGED siteVars

InsertSite(w) ==
    /\ call[w].op = "insertSite"
    /\ Sites \ siteIds # {}
    /\ LET s == CHOOSE s \in Sites \ siteIds : TRUE
       IN  /\ site' = [site EXCEPT ![s] = call[w].row]
           /\ siteIds' = siteIds \cup {s}
    /\ Return(w)
    /\ UNCHANGED <<run, job, stranded>>

\* A new domain is looked for first.
UpdateSite(w, s, row) ==
    /\ Exists(s)
    /\ Begin(w, [op |-> IF row.domain = site[s].domain
                        THEN "saveSite" ELSE "findOther",
                 site |-> s, row |-> row])
    /\ UNCHANGED siteVars

FindOther(w) ==
    /\ call[w].op = "findOther"
    /\ IF WithDomain(call[w].row.domain) \subseteq {call[w].site}
       THEN GoOn(w, [call[w] EXCEPT !.op = "saveSite"])
       ELSE Return(w)
    /\ UNCHANGED siteVars

\* Inserts the row again if it was deleted
SaveSite(w) ==
    /\ call[w].op = "saveSite"
    /\ site' = [site EXCEPT ![call[w].site] = call[w].row]
    /\ Return(w)
    /\ UNCHANGED <<siteIds, run, job, stranded>>

DeleteSite(w, s) ==
    /\ Exists(s)
    /\ Begin(w, [op |-> "deleteSite", site |-> s])
    /\ UNCHANGED siteVars

\* Takes the audits along (ON DELETE CASCADE)
RemoveSite(w) ==
    /\ call[w].op = "deleteSite"
    /\ site' = [site EXCEPT ![call[w].site] = Nil]
    /\ run' = [r \in Runs |->
                IF run[r] # Nil /\ run[r].site = call[w].site THEN Nil
                ELSE run[r]]
    /\ Return(w)
    /\ UNCHANGED <<siteIds, job, stranded>>

-----------------------------------------------------------------------------
FreeRuns == {r \in Runs : run[r] = Nil /\ job[r] = Nil}

\* Bound: the run ids last for these websites and for those of other calls.
RunsLeft(sites) ==
    LET owed == {due \in Slots \X Sites :
                   call[due[1]].op = "saveRuns" /\ due[2] \in call[due[1]].sites}
    IN  Cardinality(owed) + Cardinality(sites) <= Cardinality(FreeRuns)

ActiveSites == {s \in Sites : Exists(s) /\ site[s].active}

\* triggerAudit, for one active website or for all of them
TriggerAudit(w, sites) ==
    /\ sites # {} /\ sites \subseteq ActiveSites
    /\ RunsLeft(sites)
    /\ Begin(w, [op |-> "saveRuns", sites |-> sites, cron |-> FALSE])
    /\ UNCHANGED siteVars

\* handleMonthlyAudits; isProcessing keeps a second one out.
MonthlyAudits(w) ==
    /\ \A v \in Slots : call[v].op = "saveRuns" => ~call[v].cron
    /\ ActiveSites # {}
    /\ RunsLeft(ActiveSites)
    /\ Begin(w, [op |-> "saveRuns", sites |-> ActiveSites, cron |-> TRUE])
    /\ UNCHANGED siteVars

NewRun(s) == [site |-> s, status |-> "pending", audited |-> 0, failed |-> 0,
              pages |-> 0, unsaved |-> 0]

\* One website after the other.  An insertion that fails, as it does if the
\* website is gone, ends a request, while the scheduler goes on.
SaveRun(w, s) ==
    /\ call[w].op = "saveRuns"
    /\ s \in call[w].sites
    /\ LET r == CHOOSE r \in FreeRuns : TRUE
           rest == call[w].sites \ {s}
       IN  \E saved \in BOOLEAN :
           /\ saved => Exists(s)
           /\ IF saved
              THEN /\ run' = [run EXCEPT ![r] = NewRun(s)]
                   /\ job' = [job EXCEPT ![r] =
                               [at |-> "find", left |-> 0, row |-> NewRun(s)]]
                   /\ stranded' = stranded \ {r}
              ELSE UNCHANGED <<run, job, stranded>>
           /\ IF rest = {} \/ (~saved /\ ~call[w].cron)
              THEN Return(w)
              ELSE GoOn(w, [call[w] EXCEPT !.sites = rest])
    /\ UNCHANGED <<site, siteIds>>

-----------------------------------------------------------------------------
(* on-page-audit-runner.service.ts: one job per run, between requests.     *)

JobStep(r, next) ==
    /\ job' = [job EXCEPT ![r] = next]
    /\ UNCHANGED <<slotVars, site, siteIds, stranded>>

At(r, where) == job[r] # Nil /\ job[r].at = where

\* A run that was deleted is inserted again if its website was; otherwise the
\* save throws, and then there is no run to mark.
SaveJob(r, row, next) ==
    IF run[r] # Nil \/ Exists(row.site)
    THEN run' = [run EXCEPT ![r] = row] /\ JobStep(r, next)
    ELSE UNCHANGED run /\ JobStep(r, Nil)

FindRun(r) ==
    /\ At(r, "find")
    /\ JobStep(r, IF run[r] = Nil THEN Nil ELSE [job[r] EXCEPT !.at = "mark"])
    /\ UNCHANGED run

StartRun(r) ==
    /\ At(r, "mark")
    /\ LET row == [job[r].row EXCEPT !.status = "running"]
       IN  SaveJob(r, row, [job[r] EXCEPT !.at = "sitemap", !.row = row])

\* If the sitemap cannot be read, the home page is the only page.
FetchSitemap(r) ==
    /\ At(r, "sitemap")
    /\ \E n \in 1..MaxPages :
         JobStep(r, [job[r] EXCEPT !.at = "page", !.left = n, !.row.pages = n])
    /\ UNCHANGED run

\* A mutant for the runs: only a page that could not be fetched counts as failed.
CountedOnce(row, fetched, stored) ==
    IF fetched THEN [row EXCEPT !.audited = @ + 1,
                                !.unsaved = @ + IF stored THEN 0 ELSE 1]
               ELSE [row EXCEPT !.failed = @ + 1,
                                !.unsaved = @ + IF stored THEN 0 ELSE 1]

\* A page is audited or has failed; if its result is not stored, the handler of
\* that exception counts a failed page, too.
Counted(row, fetched, stored) ==
    LET lost == IF stored THEN 0 ELSE 1
        missed == IF fetched THEN 0 ELSE 1
    IN  [row EXCEPT !.audited = @ + 1 - missed, !.failed = @ + missed + lost,
                    !.unsaved = @ + lost]

\* A page is fetched and parsed, and its result stored.
FetchPage(r) ==
    /\ At(r, "page")
    /\ \E fetched \in BOOLEAN, stored \in BOOLEAN :
       /\ stored => run[r] # Nil
       /\ JobStep(r, [job[r] EXCEPT
             !.left = @ - 1,
             !.at = IF job[r].left = 1 THEN "complete" ELSE "page",
             !.row = Counted(@, fetched, stored)])
    /\ UNCHANGED run

CompleteRun(r) ==
    /\ At(r, "complete")
    /\ SaveJob(r, [job[r].row EXCEPT !.status = "completed"], Nil)

\* A save of the run throws: the run is read again and marked as failed.
RunFails(r) ==
    /\ At(r, "mark") \/ At(r, "complete")
    /\ JobStep(r, [job[r] EXCEPT !.at = "fail"])
    /\ UNCHANGED run

\* A mutant for the runs: the error is logged, and that is all.
ForgetRun(r) == At(r, "fail") /\ JobStep(r, Nil) /\ UNCHANGED run

MarkFailed(r) ==
    /\ At(r, "fail")
    /\ IF run[r] = Nil
       THEN UNCHANGED run
       ELSE run' = [run EXCEPT ![r].status = "failed"]
    /\ JobStep(r, Nil)

Unfinished(r) == run[r] # Nil /\ run[r].status \in {"pending", "running"}

\* What a restart leaves behind
JobsLost ==
    /\ stranded' = stranded \cup {r \in Runs : Unfinished(r) /\ job[r] # Nil}
    /\ job' = [r \in Runs |-> Nil]
    /\ UNCHANGED <<site, siteIds, run>>

-----------------------------------------------------------------------------
SiteStep(w) ==
    \/ \E row \in SiteRows :
        CreateSite(w, row) \/ \E s \in Sites : UpdateSite(w, s, row)
    \/ \E s \in Sites : DeleteSite(w, s) \/ TriggerAudit(w, {s}) \/ SaveRun(w, s)
    \/ TriggerAudit(w, ActiveSites)
    \/ MonthlyAudits(w)
    \/ FindDomain(w) \/ InsertSite(w) \/ FindOther(w) \/ SaveSite(w)
    \/ RemoveSite(w)

RunnerStep(r) ==
    \/ FindRun(r) \/ StartRun(r) \/ FetchSitemap(r) \/ FetchPage(r) \/ CompleteRun(r)
    \/ RunFails(r) \/ MarkFailed(r)

SiteTypeOK ==
    /\ site \in [Sites -> SiteRows \cup {Nil}]
    /\ siteIds \subseteq Sites
    /\ run \in [Runs -> RunRows \cup {Nil}]
    /\ job \in [Runs -> JobRows \cup {Nil}]
    /\ stranded \subseteq Runs

-----------------------------------------------------------------------------
(***************************************************************************)
(* An audit that is pending or running is being worked on, in this         *)
(* process: whatever happens to its website, whatever throws, it is        *)
(* completed, failed or deleted when its job ends.  Only a restart leaves  *)
(* audits running forever.                                                 *)
(***************************************************************************)
RunningMeansRunning ==
    \A r \in Runs : Unfinished(r) => job[r] # Nil \/ r \in stranded

(***************************************************************************)
(* A completed audit accounts for every page: audited, or failed.  A page  *)
(* whose result could not be stored is counted once more than it should.   *)
(***************************************************************************)
PagesAddUp ==
    \A r \in Runs :
        (run[r] # Nil /\ run[r].status = "completed")
            => run[r].audited + run[r].failed = run[r].pages + run[r].unsaved

(***************************************************************************)
(* A domain has as many websites as handlers can be in progress, at most:  *)
(* requests that overlap pass findByDomain together.                       *)
(***************************************************************************)
DomainsNeedOverlap ==
    \A d \in Domains : Cardinality(WithDomain(d)) <= Cardinality(Slots)
=============================================================================
