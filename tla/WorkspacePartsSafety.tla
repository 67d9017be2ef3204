-------------------- MODULE WorkspacePartsSafety --------------------
(***************************************************************************)
(* More theorems about Workspace, for the parts whose handlers write rows  *)
(* that other handlers, jobs or removals have in hand: websites and their  *)
(* audits, access policies, meetings with the calendar connection, and the *)
(* lists that count their rows; for the checks that are followed by an     *)
(* insert: invitations, sign-ups, requests to delete and the limits of an  *)
(* organization; and for members with their roles.  Each has the inductive *)
(* invariant its first page defines; the frame, that a handler makes only  *)
(* the calls of its own part, is that of WorkspaceSafety.                  *)
(***************************************************************************)
EXTENDS WorkspaceSafety, FiniteSetTheorems

(* Websites and their audits.  A job knows how many pages it has counted,  *)
(* and a handler that is to save audits holds run ids for them.            *)

SiteFits(c) ==
    /\ c.op \in {"findDomain", "insertSite", "findOther", "saveSite"} =>
           "row" \in DOMAIN c /\ c.row \in SiteRows
    /\ c.op \in {"findOther", "saveSite"} => "site" \in DOMAIN c /\ c.site \in Sites
    /\ c.op = "deleteSite" => c.site \in Sites
    /\ c.op = "saveRuns" => "sites" \in DOMAIN c /\ c.sites \subseteq Sites

JobFits(j) ==
    /\ j.at \in {"find", "mark", "sitemap"} =>
         /\ j.row.audited = 0 /\ j.row.failed = 0
         /\ j.row.pages = 0 /\ j.row.unsaved = 0
    /\ j.at = "page" =>
         /\ j.left >= 1
         /\ j.row.audited + j.row.failed + j.left = j.row.pages + j.row.unsaved
         /\ j.row.audited + j.left <= j.row.pages
         /\ j.row.unsaved + j.left <= j.row.pages
         /\ j.row.failed + 2 * j.left <= 2 * j.row.pages
    /\ j.at = "complete" =>
         j.row.audited + j.row.failed = j.row.pages + j.row.unsaved

JobsFit == \A r \in Runs : job[r] # Nil => JobFits(job[r])

RunsInv == SiteTypeOK /\ JobsFit /\ RunningMeansRunning /\ PagesAddUp

\* The audits that handlers have still to save
Owed == {due \in Slots \X Sites :
            call[due[1]].op = "saveRuns" /\ due[2] \in call[due[1]].sites}

\* Websites of domain d, those that a handler is to save with it, and the
\* handlers that are to insert one.
Saving(d) == {w \in Slots : call[w].op = "saveSite" /\ call[w].row.domain = d}
Inserting(d) == {w \in Slots : call[w].op = "insertSite" /\ call[w].row.domain = d}
SavedWith(d) == {s \in Sites : \E w \in Saving(d) : call[w].site = s}
Claimed(d) == WithDomain(d) \cup SavedWith(d)

DomainsCounted ==
    \A d \in Domains :
        Cardinality(Claimed(d)) + Cardinality(Inserting(d)) <= Cardinality(Slots)

SiteInv ==
    /\ RunsInv
    /\ \A w \in Slots : SiteFits(call[w])
    /\ Cardinality(Owed) <= Cardinality(FreeRuns)
    /\ DomainsCounted

LEMMA SiteApart ==
    ASSUME Shape, [Next]_vars
    PROVE  \/ \E w \in Slots : SiteStep(w) /\ Moves(w, SiteOps)
           \/ \E r \in Runs : RunnerStep(r) /\ UNCHANGED call
           \/ JobsLost /\ \A v \in Slots : call'[v].op = "idle"
           \/ /\ UNCHANGED siteVars
              /\ \A v \in Slots : call'[v] = call[v] \/ call'[v].op \notin SiteOps
<1>1. ASSUME NEW w \in Slots, NEW Ops \in AllOps, Ops # SiteOps, Moves(w, Ops),
             StepOf(w, Ops)
      PROVE  UNCHANGED siteVars /\ Elsewhere(SiteOps)
  BY <1>1, Aside, OpsDistinct DEF StepOf
<1>2. CASE Restart
  BY <1>2 DEF Restart, LoseCalls, Idle
<1>3. ASSUME NEW w \in Slots, CallFails(w)
      PROVE  /\ UNCHANGED siteVars
             /\ \A v \in Slots : call'[v] = call[v] \/ call'[v].op \notin SiteOps
  <2>1. CutShort
    BY <1>3 DEF CutShort
  <2> QED  BY <1>3, <2>1, CutShortKnown, OpsDistinct, OpsApart DEF CallFails, Idle
<1> QED  BY <1>1, <1>2, <1>3, NextKnown, OpsDistinct
         DEF Elsewhere, StepOf, Besides, CutShort

-----------------------------------------------------------------------------
\* What a job does next
LEMMA JobsGoOn ==
    ASSUME RunsInv, NEW r \in Runs, job[r] # Nil, NEW next \in JobRows \cup {Nil},
           job' = [job EXCEPT ![r] = next], next # Nil => JobFits(next),
           NEW row \in RunRows \cup {Nil}, run' = [run EXCEPT ![r] = row],
           UNCHANGED <<site, siteIds, stranded>>,
           row # Nil =>
               /\ row.status \in {"pending", "running"} => next # Nil
               /\ row.status = "completed" =>
                      row.audited + row.failed = row.pages + row.unsaved
    PROVE  RunsInv' /\ FreeRuns \subseteq FreeRuns' /\ UNCHANGED <<site, siteIds>>
<1>1. /\ job' \in [Runs -> JobRows \cup {Nil}] /\ job'[r] = next
      /\ run' \in [Runs -> RunRows \cup {Nil}] /\ run'[r] = row
      /\ \A q \in Runs : q # r => job'[q] = job[q] /\ run'[q] = run[q]
  BY DEF RunsInv, SiteTypeOK
<1>2. SiteTypeOK'
  BY <1>1 DEF RunsInv, SiteTypeOK
<1>3. JobsFit'
  BY <1>1 DEF RunsInv, JobsFit
<1>4. RunningMeansRunning'
  BY <1>1 DEF RunsInv, RunningMeansRunning, Unfinished
<1>5. PagesAddUp'
  BY <1>1 DEF RunsInv, PagesAddUp
<1>6. FreeRuns \subseteq FreeRuns'
  BY <1>1 DEF FreeRuns
<1> QED  BY <1>2, <1>3, <1>4, <1>5, <1>6 DEF RunsInv

LEMMA NilApart ==
    /\ \A row \in RunRows : row # Nil
    /\ \A j \in JobRows : j # Nil
    /\ \A row \in SiteRows : row # Nil
BY SiteAssumption

\* A job that leaves its run as it is
LEMMA RunRests ==
    ASSUME RunsInv, NEW r \in Runs, job[r] # Nil, NEW next \in JobRows \cup {Nil},
           JobStep(r, next), UNCHANGED run, next # Nil => JobFits(next),
           Unfinished(r) => next # Nil
    PROVE  RunsInv' /\ FreeRuns \subseteq FreeRuns' /\ UNCHANGED <<site, siteIds>>
<1>1. PICK row \in RunRows \cup {Nil} : row = run[r]
  BY DEF RunsInv, SiteTypeOK
<1>2. run' = [run EXCEPT ![r] = row]
  BY <1>1 DEF RunsInv, SiteTypeOK
<1>3. row # Nil =>
               /\ row.status \in {"pending", "running"} => next # Nil
               /\ row.status = "completed" =>
                      row.audited + row.failed = row.pages + row.unsaved
  BY <1>1 DEF Unfinished, RunsInv, PagesAddUp
<1> QED  BY <1>1, <1>2, <1>3, JobsGoOn DEF JobStep

LEMMA SaveJobKept ==
    ASSUME RunsInv, NEW r \in Runs, job[r] # Nil, NEW next \in JobRows \cup {Nil},
           next # Nil => JobFits(next), NEW row \in RunRows, SaveJob(r, row, next),
           row.status \in {"pending", "running"} => next # Nil,
           row.status = "completed" =>
                      row.audited + row.failed = row.pages + row.unsaved
    PROVE  RunsInv' /\ FreeRuns \subseteq FreeRuns' /\ UNCHANGED <<site, siteIds>>
<1>1. CASE run' = [run EXCEPT ![r] = row] /\ JobStep(r, next)
  BY <1>1, JobsGoOn DEF JobStep
<1>2. CASE run[r] = Nil /\ UNCHANGED run /\ JobStep(r, Nil)
  BY <1>2, RunRests DEF Unfinished
<1> QED  BY <1>1, <1>2 DEF SaveJob

\* The counts of a page, and how a job goes on from it
LEMMA PageCounted ==
    ASSUME NEW j \in JobRows, JobFits(j), j.at = "page", NEW row,
           NEW fetched \in BOOLEAN, NEW stored \in BOOLEAN,
           row = Counted(j.row, fetched, stored), NEW next,
           next = [j EXCEPT !.left = @ - 1,
                            !.at = IF j.left = 1 THEN "complete" ELSE "page",
                            !.row = row]
    PROVE  next \in JobRows /\ JobFits(next)
<1> USE SiteAssumption
<1>1. PICK failing \in {0, 1}, slipped \in {0, 1} :
        row = [j.row EXCEPT !.audited = @ + 1 - failing, !.failed = @ + failing + slipped,
                            !.unsaved = @ + slipped]
  BY DEF Counted
<1>2. j.row \in RunRows
  BY DEF JobRows
<1>3. /\ row.audited = j.row.audited + 1 - failing
      /\ row.failed = j.row.failed + failing + slipped
      /\ row.unsaved = j.row.unsaved + slipped
      /\ row.pages = j.row.pages /\ row.site = j.row.site
      /\ row.status = j.row.status
      /\ row = [site |-> row.site, status |-> row.status, audited |-> row.audited,
                failed |-> row.failed, pages |-> row.pages, unsaved |-> row.unsaved]
  BY <1>1, <1>2 DEF RunRows
<1>4. /\ next.left = j.left - 1 /\ next.row = row
      /\ next.at = IF j.left = 1 THEN "complete" ELSE "page"
      /\ next = [at |-> next.at, left |-> next.left, row |-> next.row]
  BY DEF JobRows
<1>5. /\ j.left \in 1..MaxPages /\ j.row.audited \in 0..MaxPages
      /\ j.row.failed \in 0..2 * MaxPages /\ j.row.pages \in 0..MaxPages
      /\ j.row.unsaved \in 0..MaxPages
  BY <1>2 DEF JobFits, JobRows, RunRows
<1>6. /\ row.audited \in 0..MaxPages /\ row.failed \in 0..2 * MaxPages
      /\ row.unsaved \in 0..MaxPages
  BY <1>3, <1>5 DEF JobFits
<1>7. row \in RunRows
  BY <1>2, <1>3, <1>6 DEF RunRows
<1>8. next \in JobRows
  BY <1>4, <1>5, <1>7 DEF JobRows
<1>9. JobFits(next)
  <2>1. /\ j.row.audited + j.row.failed + j.left = j.row.pages + j.row.unsaved
        /\ j.row.audited + j.left <= j.row.pages
        /\ j.row.unsaved + j.left <= j.row.pages
        /\ j.row.failed + 2 * j.left <= 2 * j.row.pages
    BY DEF JobFits
  <2>2. row.audited + row.failed + next.left = row.pages + row.unsaved
    BY <1>3, <1>4, <1>5, <2>1
  <2>3. CASE j.left = 1
    <3>1. next.at = "complete" /\ next.left = 0
      BY <1>4, <2>3
    <3>2. row.audited + row.failed = row.pages + row.unsaved
      BY <1>3, <1>5, <2>2, <3>1
    <3> QED  BY <1>4, <3>1, <3>2 DEF JobFits
  <2>4. CASE j.left # 1
    <3>1. next.at = "page" /\ next.left >= 1
      BY <1>4, <1>5, <2>4
    <3>2. /\ j.left \in Int /\ j.row.audited \in Int /\ j.row.failed \in Int
          /\ j.row.pages \in Int /\ j.row.unsaved \in Int
      BY <1>5
    <3>3. next.left = j.left - 1
      BY <1>4
    <3>4. row.audited + next.left <= row.pages
      BY <1>3, <2>1, <3>2, <3>3
    <3>5. row.unsaved + next.left <= row.pages
      BY <1>3, <2>1, <3>2, <3>3
    <3>6. row.failed + 2 * next.left <= 2 * row.pages
      BY <1>3, <2>1, <3>2, <3>3
    <3> QED  BY <1>4, <2>2, <3>1, <3>4, <3>5, <3>6 DEF JobFits
  <2> QED  BY <2>3, <2>4
<1> QED  BY <1>8, <1>9

LEMMA RunnerKept ==
    ASSUME RunsInv, NEW r \in Runs, RunnerStep(r)
    PROVE  RunsInv' /\ FreeRuns \subseteq FreeRuns' /\ UNCHANGED <<site, siteIds>>
<1> DEFINE Kept == RunsInv' /\ FreeRuns \subseteq FreeRuns' /\ UNCHANGED <<site, siteIds>>
<1> USE SiteAssumption
<1>1. PICK j \in JobRows : j = job[r] /\ j # Nil /\ JobFits(j)
  BY DEF RunsInv, SiteTypeOK, JobsFit, RunnerStep, FindRun, StartRun, FetchSitemap,
         FetchPage, CompleteRun, RunFails, MarkFailed, At
<1>2. j.row \in RunRows
  BY DEF JobRows
<1>3. ASSUME NEW next, NEW at \in {"mark", "fail"}, next = [j EXCEPT !.at = at],
             at = "mark" => j.at = "find"
      PROVE  next \in JobRows /\ next # Nil /\ JobFits(next)
  BY <1>1, <1>3, NilApart DEF JobRows, JobFits
<1>4. CASE FindRun(r)
  <2>1. PICK next : next = [j EXCEPT !.at = "mark"]
    OBVIOUS
  <2>2. next \in JobRows /\ next # Nil /\ JobFits(next)
    BY <1>1, <1>3, <1>4, <2>1 DEF FindRun, At
  <2> QED  BY <1>1, <1>4, <2>1, <2>2, RunRests DEF FindRun, Unfinished
<1>5. CASE StartRun(r)
  <2>1. PICK row : row = [j.row EXCEPT !.status = "running"]
    OBVIOUS
  <2>2. /\ row \in RunRows /\ row.status = "running"
        /\ row.audited = j.row.audited /\ row.failed = j.row.failed
        /\ row.pages = j.row.pages /\ row.unsaved = j.row.unsaved
    BY <1>2, <2>1 DEF RunRows
  <2>3. PICK next : next = [j EXCEPT !.at = "sitemap", !.row = row]
    OBVIOUS
  <2>4. next \in JobRows /\ next.at = "sitemap" /\ next.row = row
    BY <1>1, <2>2, <2>3 DEF JobRows
  <2>5. next # Nil /\ JobFits(next)
    BY <1>1, <1>5, <2>2, <2>4, NilApart DEF JobFits, StartRun, At
  <2>6. SaveJob(r, row, next)
    BY <1>1, <1>5, <2>1, <2>3 DEF StartRun
  <2> QED  BY <1>1, <2>2, <2>4, <2>5, <2>6, SaveJobKept
<1>6. CASE FetchSitemap(r)
  <2>1. PICK n \in 1..MaxPages :
          JobStep(r, [j EXCEPT !.at = "page", !.left = n, !.row.pages = n])
    BY <1>1, <1>6 DEF FetchSitemap
  <2>2. PICK row : row = [j.row EXCEPT !.pages = n]
    OBVIOUS
  <2>3. PICK next : next = [j EXCEPT !.at = "page", !.left = n, !.row.pages = n]
    OBVIOUS
  <2>4. /\ row \in RunRows /\ row.pages = n /\ row.audited = j.row.audited
        /\ row.failed = j.row.failed /\ row.unsaved = j.row.unsaved
    BY <1>2, <2>2 DEF RunRows
  <2>5. next.at = "page" /\ next.left = n /\ next.row = row
    BY <2>2, <2>3 DEF JobRows
  <2>6. next \in JobRows
    <3>1. next = [at |-> next.at, left |-> next.left, row |-> next.row]
      BY <2>3 DEF JobRows
    <3>2. n \in 0..MaxPages
      OBVIOUS
    <3> QED  BY <2>4, <2>5, <3>1, <3>2 DEF JobRows
  <2>7. next # Nil /\ JobFits(next)
    BY <1>1, <1>6, <2>4, <2>5, <2>6, NilApart DEF JobFits, FetchSitemap, At
  <2> QED  BY <1>1, <1>6, <2>1, <2>3, <2>6, <2>7, RunRests DEF FetchSitemap
<1>7. CASE FetchPage(r)
  <2>1. PICK fetched \in BOOLEAN, stored \in BOOLEAN :
          JobStep(r, [j EXCEPT
             !.left = @ - 1,
             !.at = IF j.left = 1 THEN "complete" ELSE "page",
             !.row = Counted(@, fetched, stored)])
    BY <1>1, <1>7 DEF FetchPage
  <2>2. PICK row : row = Counted(j.row, fetched, stored)
    OBVIOUS
  <2>3. PICK next : next = [j EXCEPT !.left = @ - 1,
             !.at = IF j.left = 1 THEN "complete" ELSE "page", !.row = row]
    OBVIOUS
  <2>4. next \in JobRows /\ next # Nil /\ JobFits(next)
    BY <1>1, <1>7, <2>2, <2>3, PageCounted, NilApart DEF FetchPage, At
  <2>5. JobStep(r, next)
    BY <2>1, <2>2, <2>3
  <2> QED  BY <1>1, <1>7, <2>4, <2>5, RunRests DEF FetchPage
<1>8. CASE CompleteRun(r)
  <2>1. PICK row : row = [j.row EXCEPT !.status = "completed"]
    OBVIOUS
  <2>2. /\ row \in RunRows /\ row.status = "completed"
        /\ row.audited = j.row.audited /\ row.failed = j.row.failed
        /\ row.pages = j.row.pages /\ row.unsaved = j.row.unsaved
    BY <1>2, <2>1 DEF RunRows
  <2>3. SaveJob(r, row, Nil) /\ j.at = "complete"
    BY <1>1, <1>8, <2>1 DEF CompleteRun, At
  <2> QED  BY <1>1, <2>2, <2>3, SaveJobKept DEF JobFits
<1>9. CASE RunFails(r)
  <2>1. PICK next : next = [j EXCEPT !.at = "fail"]
    OBVIOUS
  <2> QED  BY <1>1, <1>3, <1>9, <2>1, RunRests DEF RunFails
<1>10. CASE MarkFailed(r)
  <2>1. CASE run[r] = Nil
    BY <1>1, <1>10, <2>1, RunRests DEF MarkFailed, Unfinished
  <2>2. CASE run[r] # Nil
    <3>1. PICK row : row = [run[r] EXCEPT !.status = "failed"]
      OBVIOUS
    <3>2. row \in RunRows /\ row.status = "failed"
      BY <2>2, <3>1 DEF RunsInv, SiteTypeOK, RunRows
    <3>3. run' = [run EXCEPT ![r] = row]
      BY <1>10, <2>2, <3>1 DEF MarkFailed
    <3> QED  BY <1>1, <1>10, <3>2, <3>3, JobsGoOn DEF MarkFailed, JobStep
  <2> QED  BY <2>1, <2>2
<1> QED  BY <1>4, <1>5, <1>6, <1>7, <1>8, <1>9, <1>10 DEF RunnerStep
-----------------------------------------------------------------------------
\* What handlers hold

LEMMA SiteFitsStill ==
    ASSUME SiteInv, NEW w \in Slots, Moves(w, SiteOps), SiteFits(call'[w])
    PROVE  \A v \in Slots : SiteFits(call'[v])
BY DEF SiteInv, Moves

LEMMA OwedFinite ==
    ASSUME NEW owed \in SUBSET (Slots \X Sites), NEW free \in SUBSET Runs
    PROVE  /\ IsFiniteSet(owed) /\ Cardinality(owed) \in Nat
           /\ IsFiniteSet(free) /\ Cardinality(free) \in Nat
BY WorkspaceAssumption, FS_Product, FS_Subset, FS_CardinalityType

LEMMA LessOwed ==
    ASSUME NEW owed \in SUBSET (Slots \X Sites), NEW free \in SUBSET Runs,
           NEW less \in SUBSET owed, NEW more \in SUBSET Runs, free \subseteq more,
           Cardinality(owed) <= Cardinality(free)
    PROVE  Cardinality(less) <= Cardinality(more)
<1>1. /\ IsFiniteSet(owed) /\ Cardinality(owed) \in Nat
      /\ IsFiniteSet(more) /\ Cardinality(more) \in Nat
      /\ Cardinality(less) \in Nat /\ Cardinality(free) \in Nat
  BY OwedFinite
<1>2. Cardinality(less) <= Cardinality(owed) /\ Cardinality(free) <= Cardinality(more)
  BY <1>1, FS_Subset
<1> QED  BY <1>1, <1>2

\* No more run ids are owed than before, and none has been taken.
LEMMA OwedStill ==
    ASSUME SiteInv, Owed' \subseteq Owed, FreeRuns \subseteq FreeRuns'
    PROVE  Cardinality(Owed') <= Cardinality(FreeRuns')
<1>1. /\ Owed \in SUBSET (Slots \X Sites) /\ FreeRuns \in SUBSET Runs
      /\ FreeRuns' \in SUBSET Runs
  BY DEF Owed, FreeRuns
<1> QED  BY <1>1, LessOwed DEF SiteInv

LEMMA OwedByOthers ==
    ASSUME NEW w \in Slots, Moves(w, SiteOps),
           call'[w].op = "saveRuns" =>
               call[w].op = "saveRuns" /\ call'[w].sites \subseteq call[w].sites
    PROVE  Owed' \subseteq Owed
BY DEF Moves, Owed

\* The handlers that hold a domain are as many as there are, at most.
LEMMA DomainHolders ==
    ASSUME NEW W \in SUBSET Slots, NEW I \in SUBSET Slots, W \cap I = {},
           NEW S, NEW f, \A s \in S : \E w \in W : f[w] = s
    PROVE  IsFiniteSet(S) /\ Cardinality(S) + Cardinality(I) <= Cardinality(Slots)
<1> USE WorkspaceAssumption
<1>1. PICK V : V = {w \in W : f[w] \in S}
  OBVIOUS
<1>2. PICK g : g = [w \in V |-> f[w]]
  OBVIOUS
<1>3. g \in Surjection(V, S)
  BY <1>1, <1>2 DEF Surjection
<1>4. V \in SUBSET Slots /\ V \cap I = {} /\ V \cup I \in SUBSET Slots
  BY <1>1
<1>5. IsFiniteSet(V) /\ IsFiniteSet(I)
  BY <1>4, FS_Subset
<1>6. IsFiniteSet(S) /\ Cardinality(S) <= Cardinality(V)
  BY <1>3, <1>5, FS_Surjection
<1>7. Cardinality(V \cup I) = Cardinality(V) + Cardinality(I)
  <2>1. Cardinality(V \cap I) = 0
    BY <1>4, FS_EmptySet
  <2>2. Cardinality(V \cup I) = Cardinality(V) + Cardinality(I) - Cardinality(V \cap I)
    BY <1>5, FS_Union
  <2>3. Cardinality(V) \in Nat /\ Cardinality(I) \in Nat
    BY <1>5, FS_CardinalityType
  <2> QED  BY <2>1, <2>2, <2>3
<1>8. Cardinality(V \cup I) <= Cardinality(Slots)
  BY <1>4, FS_Subset
<1> QED  BY <1>5, <1>6, <1>7, <1>8, FS_CardinalityType

LEMMA ClaimsFinite ==
    ASSUME NEW claimed \in SUBSET Sites, NEW inserting \in SUBSET Slots
    PROVE  /\ IsFiniteSet(claimed) /\ Cardinality(claimed) \in Nat
           /\ IsFiniteSet(inserting) /\ Cardinality(inserting) \in Nat
           /\ Cardinality(Slots) \in Nat
BY WorkspaceAssumption, FS_Subset, FS_CardinalityType

LEMMA FewerClaims ==
    ASSUME NEW claimed \in SUBSET Sites, NEW inserting \in SUBSET Slots,
           NEW fewer \in SUBSET claimed, NEW less \in SUBSET inserting,
           Cardinality(claimed) + Cardinality(inserting) <= Cardinality(Slots)
    PROVE  Cardinality(fewer) + Cardinality(less) <= Cardinality(Slots)
<1>1. Cardinality(fewer) <= Cardinality(claimed)
      /\ Cardinality(less) <= Cardinality(inserting)
  BY ClaimsFinite, FS_Subset
<1>2. fewer \in SUBSET Sites /\ less \in SUBSET Slots
  OBVIOUS
<1> QED  BY <1>1, <1>2, ClaimsFinite

LEMMA ClaimsTyped ==
    ASSUME NEW d
    PROVE  /\ Claimed(d) \in SUBSET Sites /\ Claimed(d)' \in SUBSET Sites
           /\ Inserting(d) \in SUBSET Slots /\ Inserting(d)' \in SUBSET Slots
BY DEF Claimed, WithDomain, SavedWith, Inserting

LEMMA NoNewClaims ==
    ASSUME SiteInv,
           \A d \in Domains : /\ Claimed(d)' \subseteq Claimed(d)
                              /\ Inserting(d)' \subseteq Inserting(d)
    PROVE  DomainsCounted'
BY ClaimsTyped, FewerClaims DEF SiteInv, DomainsCounted

\* The handler in w is to insert no website, nor to save one.
LEMMA ClaimsOfOthers ==
    ASSUME SiteInv, NEW w \in Slots, Moves(w, SiteOps),
           call'[w].op \notin {"insertSite", "saveSite"},
           \A d \in Domains : WithDomain(d)' \subseteq WithDomain(d)
    PROVE  DomainsCounted'
<1>1. ASSUME NEW d \in Domains
      PROVE  Claimed(d)' \subseteq Claimed(d) /\ Inserting(d)' \subseteq Inserting(d)
  <2>1. Saving(d)' \subseteq Saving(d) /\ Inserting(d)' \subseteq Inserting(d)
    BY DEF Moves, Saving, Inserting
  <2>2. \A v \in Saving(d)' : call'[v] = call[v]
    BY DEF Moves, Saving
  <2>3. SavedWith(d)' \subseteq SavedWith(d)
    BY <2>1, <2>2 DEF SavedWith
  <2> QED  BY <2>1, <2>3 DEF Claimed
<1> QED  BY <1>1, NoNewClaims

LEMMA SitesStay ==
    ASSUME UNCHANGED siteVars
    PROVE  /\ RunsInv => RunsInv'
           /\ FreeRuns' = FreeRuns
           /\ \A d : WithDomain(d)' = WithDomain(d)
BY DEF siteVars, RunsInv, SiteTypeOK, JobsFit, RunningMeansRunning, Unfinished, PagesAddUp,
       FreeRuns, WithDomain, Exists

\* A handler that looks, or answers
LEMMA SiteRests ==
    ASSUME SiteInv, NEW w \in Slots, Moves(w, SiteOps), UNCHANGED siteVars,
           SiteFits(call'[w]), call'[w].op \notin {"saveRuns", "insertSite", "saveSite"}
    PROVE  SiteInv'
<1>1. RunsInv' /\ FreeRuns' = FreeRuns /\ \A d : WithDomain(d)' = WithDomain(d)
  BY SitesStay DEF SiteInv
<1>2. \A v \in Slots : SiteFits(call'[v])
  BY SiteFitsStill
<1>3. Cardinality(Owed') <= Cardinality(FreeRuns')
  BY <1>1, OwedByOthers, OwedStill
<1>4. DomainsCounted'
  BY <1>1, ClaimsOfOthers
<1> QED  BY <1>1, <1>2, <1>3, <1>4 DEF SiteInv
LEMMA SiteReturns ==
    ASSUME Shape, NEW w \in Slots, Return(w)
    PROVE  SiteFits(call'[w]) /\ call'[w].op = "idle"
BY Makes, IdleKnown DEF Return, SiteFits

LEMMA SiteBegunKept ==
    ASSUME Shape, SiteInv, NEW w \in Slots, Moves(w, SiteOps),
           \/ \E row \in SiteRows : CreateSite(w, row)
           \/ \E s \in Sites : DeleteSite(w, s)
           \/ \E row \in SiteRows, s \in Sites : UpdateSite(w, s, row)
    PROVE  SiteInv'
<1>1. ASSUME NEW row \in SiteRows, CreateSite(w, row)
      PROVE  SiteInv'
  <2>1. call'[w] = [op |-> "findDomain", row |-> row]
    BY <1>1, Makes DEF CreateSite
  <2> QED  BY <1>1, <2>1, SiteRests DEF CreateSite, SiteFits
<1>2. ASSUME NEW s \in Sites, DeleteSite(w, s)
      PROVE  SiteInv'
  <2>1. call'[w] = [op |-> "deleteSite", site |-> s]
    BY <1>2, Makes DEF DeleteSite
  <2> QED  BY <1>2, <2>1, SiteRests DEF DeleteSite, SiteFits
<1>3. ASSUME NEW row \in SiteRows, NEW s \in Sites, UpdateSite(w, s, row)
      PROVE  SiteInv'
  <2>1. PICK name \in {"saveSite", "findOther"} :
          /\ name = IF row.domain = site[s].domain THEN "saveSite" ELSE "findOther"
          /\ call'[w] = [op |-> name, site |-> s, row |-> row]
    BY <1>3, Makes DEF UpdateSite
  <2>2. SiteFits(call'[w]) /\ call'[w].op = name /\ UNCHANGED siteVars
    BY <1>3, <2>1 DEF UpdateSite, SiteFits
  <2>3. CASE name = "findOther"
    BY <2>2, <2>3, SiteRests
  <2>4. CASE name = "saveSite"
    <3>1. RunsInv' /\ FreeRuns' = FreeRuns /\ \A d : WithDomain(d)' = WithDomain(d)
      BY <2>2, SitesStay DEF SiteInv
    <3>2. ASSUME NEW d \in Domains
          PROVE  Claimed(d)' \subseteq Claimed(d) /\ Inserting(d)' \subseteq Inserting(d)
      <4>1. Inserting(d)' \subseteq Inserting(d)
        BY <2>2, <2>4 DEF Moves, Inserting
      <4>2. ASSUME NEW v \in Saving(d)'
            PROVE  call'[v].site \in Claimed(d)
        <5>1. CASE v = w
          BY <1>3, <2>1, <2>4, <4>2, <5>1
             DEF Saving, Claimed, WithDomain, UpdateSite
        <5>2. CASE v # w /\ call'[v].site \in Sites
          BY <4>2, <5>2 DEF Saving, Claimed, SavedWith, Moves
        <5>3. v \in Slots /\ call'[v].op = "saveSite"
          BY <4>2 DEF Saving
        <5>4. call'[v].site \in Sites
          BY <2>2, <5>3, SiteFitsStill DEF SiteFits
        <5> QED  BY <5>1, <5>2, <5>4
      <4>3. SavedWith(d)' \subseteq Claimed(d)
        BY <4>2 DEF SavedWith
      <4> QED  BY <3>1, <4>1, <4>3 DEF Claimed
    <3>3. DomainsCounted'
      BY <3>2, NoNewClaims
    <3>4. Cardinality(Owed') <= Cardinality(FreeRuns')
      BY <2>2, <2>4, <3>1, OwedByOthers, OwedStill
    <3> QED  BY <2>2, <3>1, <3>3, <3>4, SiteFitsStill DEF SiteInv
  <2> QED  BY <2>1, <2>3, <2>4
<1> QED  BY <1>1, <1>2, <1>3

\* Handlers that claim a domain for which no other website was found are
\* among the handlers there are.
LEMMA NewClaims ==
    ASSUME SiteInv, NEW w \in Slots, Moves(w, SiteOps),
           NEW d \in Domains,
           \A s \in WithDomain(d)' : s \in SavedWith(d)'
    PROVE  Cardinality(Claimed(d)') + Cardinality(Inserting(d)') <= Cardinality(Slots)
<1>1. /\ Saving(d)' \in SUBSET Slots /\ Inserting(d)' \in SUBSET Slots
      /\ Saving(d)' \cap Inserting(d)' = {}
  BY DEF Saving, Inserting
<1>2. PICK f : f = [v \in Slots |-> call'[v].site]
  OBVIOUS
<1>3. \A s \in Claimed(d)' : \E v \in Saving(d)' : f[v] = s
  <2>1. \A s \in SavedWith(d)' : \E v \in Saving(d)' : f[v] = s
    BY <1>1, <1>2 DEF SavedWith
  <2> QED  BY <2>1 DEF Claimed
<1> QED  BY <1>1, <1>3, DomainHolders

LEMMA SiteLookKept ==
    ASSUME Shape, SiteInv, NEW w \in Slots, Moves(w, SiteOps),
           FindDomain(w) \/ FindOther(w)
    PROVE  SiteInv'
<1>1. CASE Return(w)
  BY <1>1, SiteReturns, SiteRests DEF FindDomain, FindOther
<1>2. PICK name \in {"insertSite", "saveSite"} :
        \/ name = "insertSite" /\ FindDomain(w)
        \/ name = "saveSite" /\ FindOther(w)
  OBVIOUS
<1>3. CASE GoOn(w, [call[w] EXCEPT !.op = name]) /\ ~Return(w)
  <2>1. PICK c : c = [call[w] EXCEPT !.op = name]
    OBVIOUS
  <2>2. /\ call'[w] = c
        /\ c.op = name
        /\ DOMAIN c = DOMAIN call[w]
        /\ \A f \in DOMAIN c : f # "op" => c[f] = call[w][f]
    BY <1>3, <2>1, Makes, Renamed DEF Shape
  <2>3. SiteFits(call[w]) /\ "row" \in DOMAIN call[w] /\ call[w].row \in SiteRows
    BY <1>2 DEF SiteInv, SiteFits, FindDomain, FindOther
  <2>4. name = "saveSite" => "site" \in DOMAIN call[w] /\ call[w].site \in Sites
    BY <1>2, <2>3 DEF SiteFits, FindOther
  <2>5. /\ SiteFits(call'[w]) /\ call'[w].op = name /\ call'[w].row = call[w].row
        /\ name = "saveSite" => call'[w].site = call[w].site
    BY <2>2, <2>3, <2>4 DEF SiteFits
  <2>6. UNCHANGED siteVars
    BY <1>2 DEF FindDomain, FindOther
  <2>7. RunsInv' /\ FreeRuns' = FreeRuns /\ \A d : WithDomain(d)' = WithDomain(d)
    BY <2>6, SitesStay DEF SiteInv
  <2>8. PICK e \in Domains : e = call[w].row.domain
    BY <2>3 DEF SiteRows
  <2>9. ASSUME NEW d \in Domains, d # e
        PROVE  Claimed(d)' \subseteq Claimed(d) /\ Inserting(d)' \subseteq Inserting(d)
    <3>1. w \notin Saving(d)' /\ w \notin Inserting(d)'
      BY <2>5, <2>8, <2>9 DEF Saving, Inserting
    <3>2. \A v \in Slots : v # w => call'[v] = call[v]
      BY DEF Moves
    <3>3. Saving(d)' \subseteq Saving(d) /\ Inserting(d)' \subseteq Inserting(d)
      BY <3>1, <3>2 DEF Saving, Inserting
    <3>4. SavedWith(d)' \subseteq SavedWith(d)
      BY <3>1, <3>2, <3>3 DEF SavedWith, Saving
    <3> QED  BY <2>7, <3>3, <3>4 DEF Claimed
  <2>10. \A s \in WithDomain(e)' : s \in SavedWith(e)'
    <3>1. CASE name = "insertSite"
      BY <1>2, <1>3, <2>7, <2>8, <3>1 DEF FindDomain
    <3>2. CASE name = "saveSite"
      <4>1. WithDomain(e) \subseteq {call[w].site}
        BY <1>2, <1>3, <2>8, <3>2 DEF FindOther
      <4>2. w \in Saving(e)'
        BY <2>5, <2>8, <3>2 DEF Saving
      <4> QED  BY <2>4, <2>5, <2>7, <3>2, <4>1, <4>2 DEF SavedWith
    <3> QED  BY <3>1, <3>2
  <2>11. DomainsCounted'
    <3>1. ASSUME NEW d \in Domains
          PROVE  Cardinality(Claimed(d)') + Cardinality(Inserting(d)')
                     <= Cardinality(Slots)
      <4>1. CASE d = e
        BY <2>10, <4>1, NewClaims
      <4>2. CASE d # e
        BY <2>9, <4>2, ClaimsTyped, FewerClaims DEF SiteInv, DomainsCounted
      <4> QED  BY <4>1, <4>2
    <3> QED  BY <3>1 DEF DomainsCounted
  <2>12. Cardinality(Owed') <= Cardinality(FreeRuns')
    BY <2>5, <2>7, OwedByOthers, OwedStill
  <2> QED  BY <2>5, <2>7, <2>11, <2>12, SiteFitsStill DEF SiteInv
<1> QED  BY <1>1, <1>2, <1>3 DEF FindDomain, FindOther
LEMMA SitesWritten ==
    ASSUME RunsInv, site' \in [Sites -> SiteRows \cup {Nil}], siteIds' \subseteq Sites,
           UNCHANGED <<run, job, stranded>>
    PROVE  RunsInv' /\ FreeRuns' = FreeRuns
BY DEF RunsInv, SiteTypeOK, JobsFit, RunningMeansRunning, Unfinished, PagesAddUp, FreeRuns

LEMMA InsertSiteKept ==
    ASSUME Shape, SiteInv, NEW w \in Slots, Moves(w, SiteOps), InsertSite(w)
    PROVE  SiteInv'
<1>1. PICK s \in Sites, row \in SiteRows :
        /\ row = call[w].row
        /\ site' = [site EXCEPT ![s] = row] /\ siteIds' = siteIds \cup {s}
  BY DEF InsertSite, SiteInv, SiteFits
<1>2. SiteFits(call'[w]) /\ call'[w].op = "idle"
  BY SiteReturns DEF InsertSite
<1>3. RunsInv' /\ FreeRuns' = FreeRuns
  BY <1>1, SitesWritten DEF InsertSite, SiteInv, RunsInv, SiteTypeOK
<1>4. PICK e \in Domains : e = row.domain
  BY DEF SiteRows
<1>5. /\ \A x \in Sites : x # s => site'[x] = site[x]
      /\ site'[s] = row
  BY <1>1 DEF SiteInv, RunsInv, SiteTypeOK
<1>6. /\ w \in Inserting(e) /\ w \notin Inserting(e)'
      /\ \A d \in Domains : /\ Inserting(d)' \subseteq Inserting(d)
                            /\ SavedWith(d)' \subseteq SavedWith(d)
  <2>1. w \in Inserting(e) /\ w \notin Inserting(e)'
    BY <1>1, <1>2, <1>4 DEF InsertSite, Inserting
  <2>2. ASSUME NEW d \in Domains
        PROVE  Inserting(d)' \subseteq Inserting(d) /\ SavedWith(d)' \subseteq SavedWith(d)
    <3>1. Saving(d)' \subseteq Saving(d) /\ Inserting(d)' \subseteq Inserting(d)
      BY <1>2 DEF Moves, Saving, Inserting
    <3>2. \A v \in Saving(d)' : call'[v] = call[v]
      BY <1>2 DEF Moves, Saving
    <3> QED  BY <3>1, <3>2 DEF SavedWith
  <2> QED  BY <2>1, <2>2
<1>7. ASSUME NEW d \in Domains
      PROVE  Cardinality(Claimed(d)') + Cardinality(Inserting(d)') <= Cardinality(Slots)
  <2>1. CASE d # e
    <3>1. WithDomain(d)' \subseteq WithDomain(d)
      BY <1>4, <1>5, <2>1 DEF WithDomain, Exists
    <3>2. Claimed(d)' \subseteq Claimed(d)
      BY <1>6, <3>1 DEF Claimed
    <3> QED  BY <1>6, <3>2, ClaimsTyped, FewerClaims DEF SiteInv, DomainsCounted
  <2>2. CASE d = e
    <3>1. WithDomain(d)' \subseteq WithDomain(d) \cup {s}
      BY <1>5 DEF WithDomain, Exists
    <3>2. Claimed(d)' \subseteq Claimed(d) \cup {s}
      BY <1>6, <3>1 DEF Claimed
    <3>3. Inserting(d)' \subseteq Inserting(d) \ {w} /\ w \in Inserting(d)
      BY <1>6, <2>2
    <3>4. /\ IsFiniteSet(Claimed(d)) /\ Cardinality(Claimed(d)) \in Nat
          /\ IsFiniteSet(Inserting(d)) /\ Cardinality(Inserting(d)) \in Nat
          /\ Cardinality(Claimed(d)') \in Nat /\ Cardinality(Inserting(d)') \in Nat
          /\ Cardinality(Slots) \in Nat
      BY ClaimsTyped, ClaimsFinite
    <3>5. Cardinality(Claimed(d)') <= Cardinality(Claimed(d)) + 1
      <4>1. /\ IsFiniteSet(Claimed(d) \cup {s})
            /\ Cardinality(Claimed(d) \cup {s}) <= Cardinality(Claimed(d)) + 1
        <5>1. IsFiniteSet(Claimed(d) \cup {s})
          BY <3>4, FS_AddElement
        <5>2. Cardinality(Claimed(d) \cup {s}) \in
                {Cardinality(Claimed(d)), Cardinality(Claimed(d)) + 1}
          BY <3>4, FS_AddElement
        <5> QED  BY <3>4, <5>1, <5>2
      <4>2. Cardinality(Claimed(d)') <= Cardinality(Claimed(d) \cup {s})
        BY <3>2, <4>1, FS_Subset
      <4>3. Cardinality(Claimed(d) \cup {s}) \in Nat
        BY <4>1, FS_CardinalityType
      <4> QED  BY <3>4, <4>1, <4>2, <4>3
    <3>6. Cardinality(Inserting(d)') <= Cardinality(Inserting(d)) - 1
      <4>1. /\ IsFiniteSet(Inserting(d) \ {w})
            /\ Cardinality(Inserting(d) \ {w}) = Cardinality(Inserting(d)) - 1
        BY <3>3, <3>4, FS_RemoveElement
      <4> QED  BY <3>3, <4>1, FS_Subset
    <3> QED  BY <3>4, <3>5, <3>6 DEF SiteInv, DomainsCounted
  <2> QED  BY <2>1, <2>2
<1>8. Cardinality(Owed') <= Cardinality(FreeRuns')
  BY <1>2, <1>3, OwedByOthers, OwedStill
<1> QED  BY <1>2, <1>3, <1>7, <1>8, SiteFitsStill DEF SiteInv, DomainsCounted

LEMMA SaveSiteKept ==
    ASSUME Shape, SiteInv, NEW w \in Slots, Moves(w, SiteOps), SaveSite(w)
    PROVE  SiteInv'
<1>1. PICK s \in Sites, row \in SiteRows :
        s = call[w].site /\ row = call[w].row /\ site' = [site EXCEPT ![s] = row]
  BY DEF SaveSite, SiteInv, SiteFits
<1>2. SiteFits(call'[w]) /\ call'[w].op = "idle"
  BY SiteReturns DEF SaveSite
<1>3. RunsInv' /\ FreeRuns' = FreeRuns
  BY <1>1, SitesWritten DEF SaveSite, SiteInv, RunsInv, SiteTypeOK
<1>4. ASSUME NEW d \in Domains
      PROVE  Claimed(d)' \subseteq Claimed(d) /\ Inserting(d)' \subseteq Inserting(d)
  <2>1. Saving(d)' \subseteq Saving(d) /\ Inserting(d)' \subseteq Inserting(d)
    BY <1>2 DEF Moves, Saving, Inserting
  <2>2. \A v \in Saving(d)' : call'[v] = call[v]
    BY <1>2 DEF Moves, Saving
  <2>3. SavedWith(d)' \subseteq SavedWith(d)
    BY <2>1, <2>2 DEF SavedWith
  <2>4. row.domain = d => s \in SavedWith(d)
    BY <1>1 DEF SaveSite, Saving, SavedWith
  <2>5. WithDomain(d)' \subseteq Claimed(d)
    BY <1>1, <2>4 DEF WithDomain, Exists, Claimed, SiteInv, RunsInv, SiteTypeOK
  <2> QED  BY <2>1, <2>3, <2>5 DEF Claimed
<1>5. Cardinality(Owed') <= Cardinality(FreeRuns')
  BY <1>2, <1>3, OwedByOthers, OwedStill
<1>6. DomainsCounted'
  BY <1>4, NoNewClaims
<1> QED  BY <1>2, <1>3, <1>5, <1>6, SiteFitsStill DEF SiteInv

LEMMA RemoveSiteKept ==
    ASSUME Shape, SiteInv, NEW w \in Slots, Moves(w, SiteOps), RemoveSite(w)
    PROVE  SiteInv'
<1>1. PICK s \in Sites : s = call[w].site
  BY DEF RemoveSite, SiteInv, SiteFits
<1>2. SiteFits(call'[w]) /\ call'[w].op = "idle"
  BY SiteReturns DEF RemoveSite
<1>3. /\ site' = [site EXCEPT ![s] = Nil]
      /\ run' = [r \in Runs |-> IF run[r] # Nil /\ run[r].site = s THEN Nil ELSE run[r]]
      /\ UNCHANGED <<siteIds, job, stranded>>
  BY <1>1 DEF RemoveSite
<1>4. \A r \in Runs : run'[r] \in {run[r], Nil}
  BY <1>3
<1>5. RunsInv' /\ FreeRuns \subseteq FreeRuns'
  <2>1. SiteTypeOK'
    BY <1>3, <1>4 DEF SiteInv, RunsInv, SiteTypeOK
  <2>2. JobsFit' /\ FreeRuns \subseteq FreeRuns'
    BY <1>3, <1>4 DEF SiteInv, RunsInv, JobsFit, FreeRuns
  <2>3. RunningMeansRunning' /\ PagesAddUp'
    BY <1>3, <1>4 DEF SiteInv, RunsInv, RunningMeansRunning, Unfinished, PagesAddUp
  <2> QED  BY <2>1, <2>2, <2>3 DEF RunsInv
<1>6. \A d \in Domains : WithDomain(d)' \subseteq WithDomain(d)
  BY <1>3 DEF WithDomain, Exists, SiteInv, RunsInv, SiteTypeOK
<1>7. DomainsCounted'
  BY <1>2, <1>6, ClaimsOfOthers
<1>8. Cardinality(Owed') <= Cardinality(FreeRuns')
  BY <1>2, <1>5, OwedByOthers, OwedStill
<1> QED  BY <1>2, <1>5, <1>7, <1>8, SiteFitsStill DEF SiteInv

-----------------------------------------------------------------------------
\* Audits that are asked for, and saved

LEMMA ForEach ==
    ASSUME NEW w, NEW sites \in SUBSET Sites
    PROVE  Cardinality({w} \X sites) = Cardinality(sites)
<1>1. IsFiniteSet(sites)
  BY WorkspaceAssumption, FS_Subset
<1>2. IsFiniteSet({w}) /\ Cardinality({w}) = 1
  BY FS_Singleton
<1>3. Cardinality({w} \X sites) = 1 * Cardinality(sites)
  BY <1>1, <1>2, FS_Product
<1> QED  BY <1>1, <1>3, FS_CardinalityType

LEMMA AuditsAskedKept ==
    ASSUME Shape, SiteInv, NEW w \in Slots, Moves(w, SiteOps), NEW sites \in SUBSET Sites,
           NEW cron, RunsLeft(sites), call[w] = Idle, UNCHANGED siteVars,
           call'[w] = [op |-> "saveRuns", sites |-> sites, cron |-> cron]
    PROVE  SiteInv'
<1>1. SiteFits(call'[w]) /\ call'[w].op = "saveRuns" /\ call'[w].sites = sites
  BY DEF SiteFits
<1>2. RunsInv' /\ FreeRuns' = FreeRuns /\ \A d : WithDomain(d)' = WithDomain(d)
  BY SitesStay DEF SiteInv
<1>3. Owed' \subseteq Owed \cup ({w} \X sites)
  BY <1>1 DEF Owed, Moves
<1>4. PICK asked : asked = {w} \X sites
  OBVIOUS
<1>5. /\ Cardinality(Owed) + Cardinality(asked) <= Cardinality(FreeRuns)
      /\ asked \in SUBSET (Slots \X Sites)
  BY <1>4, ForEach DEF RunsLeft, Owed
<1>6. Owed \in SUBSET (Slots \X Sites) /\ FreeRuns \in SUBSET Runs
  BY DEF Owed, FreeRuns
<1>7. /\ IsFiniteSet(Owed) /\ Cardinality(Owed) \in Nat
      /\ IsFiniteSet(asked) /\ Cardinality(asked) \in Nat
      /\ Cardinality(FreeRuns) \in Nat
  BY <1>5, <1>6, OwedFinite
<1>8. Cardinality(Owed') <= Cardinality(FreeRuns')
  <2>1. Owed \cup asked \in SUBSET (Slots \X Sites) /\ Owed' \in SUBSET (Owed \cup asked)
    BY <1>3, <1>4, <1>5, <1>6
  <2>2. Cardinality(Owed \cup asked) <= Cardinality(Owed) + Cardinality(asked)
    <3>1. Cardinality(Owed \cup asked) =
            Cardinality(Owed) + Cardinality(asked) - Cardinality(Owed \cap asked)
      BY <1>7, FS_Union
    <3>2. Cardinality(Owed \cap asked) \in Nat
      BY <1>7, FS_Intersection, FS_CardinalityType
    <3> QED  BY <1>7, <3>1, <3>2
  <2>3. Cardinality(Owed \cup asked) <= Cardinality(FreeRuns)
    <3>1. Cardinality(Owed \cup asked) \in Nat
      BY <2>1, OwedFinite
    <3> QED  BY <1>5, <1>7, <2>2, <3>1
  <2> QED  BY <1>2, <1>6, <2>1, <2>3, LessOwed
<1>9. DomainsCounted'
  BY <1>1, <1>2, ClaimsOfOthers
<1> QED  BY <1>1, <1>2, <1>8, <1>9, SiteFitsStill DEF SiteInv

LEMMA NewRunFits ==
    ASSUME NEW s \in Sites, NEW j, j = [at |-> "find", left |-> 0, row |-> NewRun(s)]
    PROVE  /\ NewRun(s) \in RunRows /\ NewRun(s).status = "pending"
           /\ j \in JobRows /\ JobFits(j)
BY SiteAssumption DEF NewRun, RunRows, JobRows, JobFits

LEMMA SaveRunKept ==
    ASSUME Shape, SiteInv, NEW w \in Slots, Moves(w, SiteOps), NEW s \in Sites,
           SaveRun(w, s)
    PROVE  SiteInv'
<1> USE NilApart
<1>1. PICK rest \in SUBSET Sites : rest = call[w].sites \ {s}
  BY DEF SaveRun, SiteInv, SiteFits
<1>2. <<w, s>> \in Owed
  BY DEF SaveRun, Owed
<1>3. PICK r : r = CHOOSE x \in FreeRuns : TRUE
  OBVIOUS
<1>4. Owed \in SUBSET (Slots \X Sites) /\ FreeRuns \in SUBSET Runs
      /\ FreeRuns' \in SUBSET Runs
  BY DEF Owed, FreeRuns
<1>5. /\ IsFiniteSet(Owed) /\ Cardinality(Owed) \in Nat
      /\ IsFiniteSet(FreeRuns) /\ Cardinality(FreeRuns) \in Nat
      /\ IsFiniteSet(FreeRuns') /\ Cardinality(FreeRuns') \in Nat
  BY <1>4, OwedFinite
<1>6. r \in FreeRuns
  <2>1. Cardinality(Owed) # 0
    BY <1>2, <1>5, FS_EmptySet
  <2>2. Cardinality(FreeRuns) # 0
    BY <1>5, <2>1 DEF SiteInv
  <2>3. FreeRuns # {}
    BY <1>5, <2>2, FS_EmptySet
  <2> QED  BY <1>3, <2>3
<1>7. r \in Runs /\ run[r] = Nil /\ job[r] = Nil
  BY <1>6 DEF FreeRuns
<1>8. /\ SiteFits(call'[w])
      /\ call'[w].op \in {"idle", "saveRuns"}
      /\ call'[w].op = "saveRuns" =>
             call[w].op = "saveRuns" /\ call'[w].sites = call[w].sites \ {s}
  <2>1. CASE Return(w)
    BY <2>1, SiteReturns
  <2>2. CASE GoOn(w, [call[w] EXCEPT !.sites = rest])
    <3>1. PICK c : c = [call[w] EXCEPT !.sites = rest]
      OBVIOUS
    <3>2. call'[w] = c
      BY <2>2, <3>1, Makes
    <3>3. call[w].op = "saveRuns" /\ "op" \in DOMAIN call[w] /\ "sites" \in DOMAIN call[w]
      BY DEF SaveRun, SiteInv, SiteFits, Shape
    <3>4. c.op = "saveRuns" /\ c.sites = rest /\ "sites" \in DOMAIN c
      BY <3>1, <3>3
    <3> QED  BY <1>1, <3>2, <3>3, <3>4 DEF SiteFits
  <2> QED  BY <1>1, <2>1, <2>2 DEF SaveRun
<1>9. Owed' \subseteq Owed \ {<<w, s>>}
  BY <1>8 DEF Owed, Moves
<1>10. \/ /\ run' = [run EXCEPT ![r] = NewRun(s)]
          /\ job' = [job EXCEPT ![r] = [at |-> "find", left |-> 0, row |-> NewRun(s)]]
          /\ stranded' = stranded \ {r}
       \/ UNCHANGED <<run, job, stranded>>
  BY <1>3 DEF SaveRun
<1>11. UNCHANGED <<site, siteIds>> /\ \A d : WithDomain(d)' = WithDomain(d)
  BY DEF SaveRun, WithDomain, Exists
<1>12. RunsInv' /\ FreeRuns \ {r} \subseteq FreeRuns'
  <2>1. CASE UNCHANGED <<run, job, stranded>>
    BY <1>11, <2>1, SitesStay DEF siteVars, SiteInv
  <2>2. ASSUME NEW row, row = NewRun(s), NEW j,
               j = [at |-> "find", left |-> 0, row |-> row],
               run' = [run EXCEPT ![r] = row], job' = [job EXCEPT ![r] = j],
               stranded' = stranded \ {r}
        PROVE  RunsInv' /\ FreeRuns \ {r} \subseteq FreeRuns'
    <3>1. row \in RunRows /\ row.status = "pending" /\ j \in JobRows /\ JobFits(j)
          /\ j # Nil
      BY <2>2, NewRunFits
    <3>2. /\ job' \in [Runs -> JobRows \cup {Nil}] /\ job'[r] = j
          /\ run' \in [Runs -> RunRows \cup {Nil}] /\ run'[r] = row
          /\ \A q \in Runs : q # r => job'[q] = job[q] /\ run'[q] = run[q]
      BY <1>7, <2>2, <3>1 DEF SiteInv, RunsInv, SiteTypeOK
    <3>3. SiteTypeOK'
      BY <1>11, <2>2, <3>2 DEF SiteInv, RunsInv, SiteTypeOK
    <3>4. JobsFit'
      BY <3>1, <3>2 DEF SiteInv, RunsInv, JobsFit
    <3>5. RunningMeansRunning'
      BY <2>2, <3>1, <3>2 DEF SiteInv, RunsInv, RunningMeansRunning, Unfinished
    <3>6. PagesAddUp'
      BY <3>1, <3>2 DEF SiteInv, RunsInv, PagesAddUp
    <3>7. FreeRuns \ {r} \subseteq FreeRuns'
      BY <3>2 DEF FreeRuns
    <3> QED  BY <3>3, <3>4, <3>5, <3>6, <3>7 DEF RunsInv
  <2> QED  BY <1>10, <2>1, <2>2
<1>13. Cardinality(Owed') <= Cardinality(FreeRuns')
  <2>1. /\ IsFiniteSet(Owed \ {<<w, s>>})
        /\ Cardinality(Owed \ {<<w, s>>}) = Cardinality(Owed) - 1
    BY <1>2, <1>5, FS_RemoveElement
  <2>2. Cardinality(FreeRuns \ {r}) = Cardinality(FreeRuns) - 1
    BY <1>5, <1>6, FS_RemoveElement
  <2>3. Cardinality(FreeRuns \ {r}) <= Cardinality(FreeRuns')
    BY <1>5, <1>12, FS_Subset
  <2>4. Cardinality(Owed') <= Cardinality(Owed \ {<<w, s>>})
    BY <1>9, <2>1, FS_Subset
  <2>5. Owed' \in SUBSET (Slots \X Sites)
    BY <1>4, <1>9
  <2>6. Cardinality(Owed') \in Nat
    BY <1>4, <2>5, OwedFinite
  <2> QED  BY <1>5, <2>1, <2>2, <2>3, <2>4, <2>6 DEF SiteInv
<1>14. DomainsCounted'
  BY <1>8, <1>11, ClaimsOfOthers
<1> QED  BY <1>8, <1>12, <1>13, <1>14, SiteFitsStill DEF SiteInv

LEMMA SiteStepKept ==
    ASSUME Shape, SiteInv, NEW w \in Slots, Moves(w, SiteOps), SiteStep(w)
    PROVE  SiteInv'
<1>1. ASSUME NEW sites, TriggerAudit(w, sites)
      PROVE  SiteInv'
  <2>1. call'[w] = [op |-> "saveRuns", sites |-> sites, cron |-> FALSE]
    BY <1>1, Makes DEF TriggerAudit
  <2>2. sites \in SUBSET Sites
    BY <1>1 DEF TriggerAudit, ActiveSites
  <2> QED  BY <1>1, <2>1, <2>2, AuditsAskedKept DEF TriggerAudit, Begin
<1>2. CASE MonthlyAudits(w)
  <2>1. PICK sites \in SUBSET Sites : sites = ActiveSites
    BY DEF ActiveSites
  <2>2. call'[w] = [op |-> "saveRuns", sites |-> sites, cron |-> TRUE]
    BY <1>2, <2>1, Makes DEF MonthlyAudits
  <2> QED  BY <1>2, <2>1, <2>2, AuditsAskedKept DEF MonthlyAudits, Begin
<1> QED  BY <1>1, <1>2, SiteBegunKept, SiteLookKept, InsertSiteKept, SaveSiteKept,
            RemoveSiteKept, SaveRunKept DEF SiteStep

LEMMA SiteNext ==
    ASSUME Shape, SiteInv, [Next]_vars
    PROVE  SiteInv'
<1>1. ASSUME NEW r \in Runs, RunnerStep(r), UNCHANGED call
      PROVE  SiteInv'
  <2>1. RunsInv' /\ FreeRuns \subseteq FreeRuns' /\ UNCHANGED <<site, siteIds>>
    BY <1>1, RunnerKept DEF SiteInv
  <2>2. Owed' = Owed
    BY <1>1 DEF Owed
  <2>3. \A d \in Domains : Claimed(d)' = Claimed(d) /\ Inserting(d)' = Inserting(d)
    BY <1>1, <2>1 DEF Claimed, WithDomain, Exists, SavedWith, Saving, Inserting
  <2>4. DomainsCounted'
    BY <2>3, NoNewClaims
  <2>5. \A w \in Slots : SiteFits(call'[w])
    BY <1>1 DEF SiteInv
  <2> QED  BY <2>1, <2>2, <2>4, <2>5, OwedStill DEF SiteInv
<1>2. CASE JobsLost /\ \A v \in Slots : call'[v].op = "idle"
  <2>1. RunsInv' /\ FreeRuns \subseteq FreeRuns'
    <3>1. /\ \A r \in Runs : job'[r] = Nil
          /\ job' \in [Runs -> JobRows \cup {Nil}]
          /\ stranded' = stranded \cup {r \in Runs : Unfinished(r) /\ job[r] # Nil}
      BY <1>2 DEF JobsLost
    <3>2. SiteTypeOK'
      BY <1>2, <3>1 DEF JobsLost, SiteInv, RunsInv, SiteTypeOK
    <3>3. JobsFit' /\ PagesAddUp' /\ FreeRuns \subseteq FreeRuns'
      BY <1>2, <3>1 DEF JobsLost, SiteInv, RunsInv, JobsFit, PagesAddUp, FreeRuns
    <3>4. RunningMeansRunning'
      BY <1>2, <3>1 DEF JobsLost, SiteInv, RunsInv, RunningMeansRunning, Unfinished
    <3> QED  BY <3>2, <3>3, <3>4 DEF RunsInv
  <2>2. Owed' \subseteq Owed
    BY <1>2 DEF Owed
  <2>3. \A d \in Domains : /\ Claimed(d)' \subseteq Claimed(d)
                           /\ Inserting(d)' \subseteq Inserting(d)
    BY <1>2 DEF JobsLost, Claimed, WithDomain, Exists, SavedWith, Saving, Inserting
  <2>4. DomainsCounted'
    BY <2>3, NoNewClaims
  <2>5. \A w \in Slots : SiteFits(call'[w])
    BY <1>2 DEF SiteFits
  <2> QED  BY <2>1, <2>2, <2>4, <2>5, OwedStill DEF SiteInv
<1>3. CASE /\ UNCHANGED siteVars
           /\ \A v \in Slots : call'[v] = call[v] \/ call'[v].op \notin SiteOps
  <2>1. RunsInv' /\ FreeRuns' = FreeRuns /\ \A d : WithDomain(d)' = WithDomain(d)
    BY <1>3, SitesStay DEF SiteInv
  <2>2. \A v \in Slots : call'[v] = call[v] \/ call'[v].op \notin SiteOps
    BY <1>3
  <2>3. \A v \in Slots : SiteFits(call'[v])
    BY <2>2 DEF SiteInv, SiteFits, SiteOps
  <2>4. Owed' \subseteq Owed
    BY <2>2 DEF Owed, SiteOps
  <2>5. ASSUME NEW d \in Domains
        PROVE  Claimed(d)' \subseteq Claimed(d) /\ Inserting(d)' \subseteq Inserting(d)
    <3>1. /\ Saving(d)' \subseteq Saving(d) /\ Inserting(d)' \subseteq Inserting(d)
          /\ \A v \in Saving(d)' : call'[v] = call[v]
      BY <2>2 DEF Saving, Inserting, SiteOps
    <3> QED  BY <2>1, <3>1 DEF Claimed, SavedWith
  <2>6. DomainsCounted'
    BY <2>5, NoNewClaims
  <2> QED  BY <2>1, <2>3, <2>4, <2>6, OwedStill DEF SiteInv
<1> QED  BY <1>1, <1>2, <1>3, SiteApart, SiteStepKept

LEMMA SiteStart ==
    ASSUME Init
    PROVE  SiteInv
<1>1. \A w \in Slots : call[w].op = "idle"
  BY DEF Init, SlotsInit, Idle
<1>2. /\ site = [x \in Sites |->
                   IF x = First(Sites) THEN [domain |-> First(Domains), active |-> TRUE]
                   ELSE Nil]
      /\ siteIds = {First(Sites)}
      /\ run = [r \in Runs |-> Nil] /\ job = [r \in Runs |-> Nil] /\ stranded = {}
  BY DEF Init, SiteInit
<1>3. RunsInv
  <2>1. First(Domains) \in Domains /\ First(Sites) \in Sites
    BY WorkspaceAssumption DEF First
  <2>2. [domain |-> First(Domains), active |-> TRUE] \in SiteRows
    BY <2>1 DEF SiteRows
  <2> QED  BY <1>2, <2>1, <2>2
           DEF RunsInv, SiteTypeOK, JobsFit, RunningMeansRunning, Unfinished, PagesAddUp
<1>4. Cardinality(Owed) <= Cardinality(FreeRuns)
  <2>1. Owed = {} /\ FreeRuns \in SUBSET Runs
    BY <1>1 DEF Owed, FreeRuns
  <2> QED  BY <2>1, OwedFinite, FS_EmptySet
<1>5. ASSUME NEW d \in Domains
      PROVE  Cardinality(Claimed(d)) + Cardinality(Inserting(d)) <= Cardinality(Slots)
  <2>1. Inserting(d) = {} /\ Claimed(d) \subseteq {First(Sites)}
    BY <1>1, <1>2 DEF Inserting, Claimed, WithDomain, Exists, SavedWith, Saving
  <2>2. /\ IsFiniteSet({First(Sites)}) /\ Cardinality({First(Sites)}) = 1
        /\ Cardinality(Inserting(d)) = 0
    BY <2>1, FS_Singleton, FS_EmptySet
  <2>3. Cardinality(Claimed(d)) <= 1 /\ Cardinality(Claimed(d)) \in Nat
    BY <2>1, <2>2, FS_Subset, FS_CardinalityType
  <2>4. Cardinality(Slots) \in Nat /\ Cardinality(Slots) # 0
    BY WorkspaceAssumption, FS_CardinalityType, FS_EmptySet
  <2> QED  BY <2>2, <2>3, <2>4
<1> QED  BY <1>1, <1>3, <1>4, <1>5 DEF SiteInv, SiteFits, DomainsCounted

LEMMA SiteAlways == Spec => []SiteInv
<1>1. Init => Shape /\ SiteInv
  BY InitShape, SiteStart
<1>2. Shape /\ SiteInv /\ [Next]_vars => Shape' /\ SiteInv'
  BY NextKnown, SiteNext
<1> QED  BY <1>1, <1>2, PTL DEF Spec

(***************************************************************************)
(* An audit that is pending or running has a job that works on it in this  *)
(* process, unless a restart cut it short: however many audits, deletions  *)
(* of websites and failed saves overlap (on-page-audit-runner.service.ts). *)
(***************************************************************************)
THEOREM AuditsAreWorkedOn == Spec => []RunningMeansRunning
<1>1. SiteInv => RunningMeansRunning
  BY DEF SiteInv, RunsInv
<1> QED  BY <1>1, SiteAlways, PTL

(***************************************************************************)
(* A completed audit accounts for every page its sitemap named, for        *)
(* sitemaps of any length, and counts one more failed page for each result *)
(* that could not be stored (processPage, runAudit).                       *)
(***************************************************************************)
THEOREM AuditsAccountForPages == Spec => []PagesAddUp
<1>1. SiteInv => PagesAddUp
  BY DEF SiteInv, RunsInv
<1> QED  BY <1>1, SiteAlways, PTL

(***************************************************************************)
(* However many requests create websites or move them to another domain,   *)
(* a domain never has more websites than requests can overlap: the check   *)
(* by findByDomain and the write are apart, and no unique index backs      *)
(* them.                                                                   *)
(***************************************************************************)
THEOREM DomainsBoundedByOverlap == Spec => []DomainsNeedOverlap
<1>1. ASSUME SiteInv, NEW d \in Domains
      PROVE  Cardinality(WithDomain(d)) <= Cardinality(Slots)
  <2>1. Cardinality(Claimed(d)) + Cardinality(Inserting(d)) <= Cardinality(Slots)
    BY <1>1 DEF SiteInv, DomainsCounted
  <2>2. /\ IsFiniteSet(Claimed(d)) /\ Cardinality(Claimed(d)) \in Nat
        /\ Cardinality(Inserting(d)) \in Nat /\ Cardinality(Slots) \in Nat
    BY ClaimsTyped, ClaimsFinite
  <2>3. Cardinality(WithDomain(d)) <= Cardinality(Claimed(d))
        /\ Cardinality(WithDomain(d)) \in Nat
    BY <2>2, FS_Subset, FS_CardinalityType DEF Claimed
  <2> QED  BY <2>1, <2>2, <2>3
<1>2. SiteInv => DomainsNeedOverlap
  BY <1>1 DEF DomainsNeedOverlap
<1> QED  BY <1>2, SiteAlways, PTL

-----------------------------------------------------------------------------
(* Policies.  A pair that was asked for, and that nobody took back or lost, *)
(* is assigned, or a handler is about to assign it.                         *)

PolicyFits(c, policies) ==
    /\ c.op = "insertPolicy" => c.row \in PolicyInputs /\ c.users \subseteq Users
    /\ c.op = "savePolicy" =>
         /\ c.policy \in Policies /\ policies[c.policy].at # "new"
         /\ c.row \in PolicyInputs /\ c.users \subseteq Users
    /\ c.op = "removePolicy" => c.policy \in Policies
    /\ c.op \in {"clearPairs", "insertPairs"} => c.pairs \subseteq Users \X Policies
    /\ c.op = "replaceAll" => /\ c.pairs \subseteq Users \X Policies
                              /\ c.users \X c.asked \subseteq c.pairs

\* Creations take ids one at a time.
OneCreation ==
    \A w \in Slots : call[w].op = "insertPolicy" =>
        /\ \E p \in Policies : policy[p].at = "new"
        /\ \A v \in Slots : call[v].op = "insertPolicy" => v = w

BeingAssigned(pair) ==
    \E w \in Slots : call[w].op = "insertPairs" /\ pair \in call[w].pairs

WantedAreAssigned ==
    \A pair \in wanted \ lost : pair \in assigned \/ BeingAssigned(pair)

PolicyInv ==
    /\ PolicyTypeOK
    /\ \A w \in Slots : PolicyFits(call[w], policy)
    /\ OneCreation
    /\ WantedAreAssigned

LEMMA PolicyApart ==
    ASSUME Shape, [Next]_vars
    PROVE  \/ \E w \in Slots : PolicyStep(w) /\ Moves(w, PolicyOps)
           \/ \E ended \in SUBSET Slots : AssignmentsLost(ended) /\ Ends(ended)
           \/ UNCHANGED policyVars /\ Elsewhere(PolicyOps)
<1>1. ASSUME NEW w \in Slots, NEW Ops \in AllOps, Ops # PolicyOps, Moves(w, Ops),
             StepOf(w, Ops)
      PROVE  UNCHANGED policyVars /\ Elsewhere(PolicyOps)
  BY <1>1, Aside, OpsDistinct DEF StepOf
<1>2. CASE CutShort
  BY <1>2, CutShortKnown
<1> QED  BY <1>1, <1>2, NextKnown DEF Elsewhere, StepOf, Besides

\* A row that is there stays, and one that was created does not become new.
PoliciesGoOn ==
    \A p \in Policies : policy[p].at # "new" => policy'[p].at # "new"

LEMMA PolicyKeeps ==
    ASSUME PolicyInv, NEW w \in Slots, Moves(w, PolicyOps), PolicyTypeOK',
           PoliciesGoOn, PolicyFits(call'[w], policy'), WantedAreAssigned',
           call'[w].op # "insertPolicy",
           call[w].op = "insertPolicy" \/
             \A p \in Policies : policy[p].at = "new" => policy'[p].at = "new"
    PROVE  PolicyInv'
<1>1. \A v \in Slots : v # w => call'[v] = call[v]
  BY DEF Moves
<1>2. \A v \in Slots : PolicyFits(call'[v], policy')
  BY <1>1 DEF PolicyInv, PoliciesGoOn, PolicyFits
<1>3. OneCreation'
  BY <1>1 DEF PolicyInv, OneCreation
<1> QED  BY <1>2, <1>3 DEF PolicyInv

\* Those who wait for the handler in w wait no more, or still.
LEMMA WantedStill ==
    ASSUME PolicyInv, NEW w \in Slots, Moves(w, PolicyOps), UNCHANGED policyVars,
           call[w].op # "insertPairs"
    PROVE  WantedAreAssigned' /\ PolicyTypeOK' /\ PoliciesGoOn
<1>1. \A v \in Slots : v # w => call'[v] = call[v]
  BY DEF Moves
<1>2. \A pair : BeingAssigned(pair) => BeingAssigned(pair)'
  BY <1>1 DEF BeingAssigned
<1> QED  BY <1>2 DEF PolicyInv, WantedAreAssigned, policyVars, PolicyTypeOK, Existing,
                     Present, PoliciesGoOn

LEMMA PolicyRests ==
    ASSUME PolicyInv, NEW w \in Slots, Moves(w, PolicyOps), UNCHANGED policyVars,
           call[w].op # "insertPairs", PolicyFits(call'[w], policy),
           call'[w].op # "insertPolicy"
    PROVE  PolicyInv'
BY WantedStill, PolicyKeeps DEF policyVars

LEMMA PolicyReturns ==
    ASSUME Shape, NEW w \in Slots, Return(w), NEW policies
    PROVE  PolicyFits(call'[w], policies) /\ call'[w].op = "idle"
BY Makes, IdleKnown DEF Return, PolicyFits

LEMMA CreatePolicyKept ==
    ASSUME Shape, PolicyInv, NEW w \in Slots, Moves(w, PolicyOps),
           NEW row \in PolicyInputs, NEW users \in SUBSET Users,
           CreatePolicy(w, row, users)
    PROVE  PolicyInv'
<1>1. call'[w] = [op |-> "insertPolicy", row |-> row, users |-> users]
  BY Makes DEF CreatePolicy
<1>2. call[w].op # "insertPairs" /\ UNCHANGED policyVars
  BY DEF CreatePolicy, Begin, Idle
<1>3. \A v \in Slots : v # w => call'[v] = call[v]
  BY DEF Moves
<1>4. OneCreation'
  BY <1>1, <1>2, <1>3 DEF CreatePolicy, policyVars, OneCreation
<1>5. \A v \in Slots : PolicyFits(call'[v], policy')
  BY <1>1, <1>2, <1>3 DEF PolicyInv, PolicyFits, policyVars
<1> QED  BY <1>2, <1>4, <1>5, WantedStill DEF PolicyInv

LEMMA PolicyBegunKept ==
    ASSUME Shape, PolicyInv, NEW w \in Slots, Moves(w, PolicyOps),
           \/ \E p \in Policies, row \in PolicyInputs, users \in SUBSET Users, given \in BOOLEAN :
                UpdatePolicy(w, p, row, given, users)
           \/ \E p \in Policies : DeletePolicy(w, p)
           \/ \E u \in Users, policies \in SUBSET Policies : AssignToUser(w, u, policies)
           \/ \E policies \in SUBSET Policies, users \in SUBSET Users, mode \in {"add", "replace"} :
                BulkAssign(w, users, policies, mode)
    PROVE  PolicyInv'
<1>1. ASSUME NEW p \in Policies, NEW row \in PolicyInputs, NEW given,
             NEW users \in SUBSET Users, UpdatePolicy(w, p, row, given, users)
      PROVE  PolicyInv'
  <2>1. PICK seen : seen = HoldersOf(p)
    OBVIOUS
  <2>2. call'[w] = [op |-> "savePolicy", policy |-> p, row |-> row, seen |-> seen,
                    given |-> given, users |-> users]
    BY <1>1, <2>1, Makes DEF UpdatePolicy
  <2>3. PolicyFits(call'[w], policy) /\ call'[w].op = "savePolicy"
    BY <1>1, <2>2 DEF PolicyFits, UpdatePolicy, Present
  <2> QED  BY <1>1, <2>3, PolicyRests DEF UpdatePolicy, Begin, Idle
<1>2. ASSUME NEW p \in Policies, DeletePolicy(w, p)
      PROVE  PolicyInv'
  <2>1. call'[w] = [op |-> "removePolicy", policy |-> p]
    BY <1>2, Makes DEF DeletePolicy
  <2> QED  BY <1>2, <2>1, PolicyRests DEF DeletePolicy, Begin, Idle, PolicyFits
<1>3. ASSUME NEW u \in Users, NEW policies \in SUBSET Policies,
             AssignToUser(w, u, policies)
      PROVE  PolicyInv'
  <2>1. PICK scope, pairs : scope = {u} \X Policies /\ pairs = {u} \X policies
    OBVIOUS
  <2>2. call'[w] = [op |-> "clearPairs", scope |-> scope, pairs |-> pairs]
    BY <1>3, <2>1, Makes DEF AssignToUser
  <2>3. pairs \subseteq Users \X Policies
    BY <2>1
  <2> QED  BY <1>3, <2>2, <2>3, PolicyRests DEF AssignToUser, Begin, Idle, PolicyFits
<1>4. ASSUME NEW policies \in SUBSET Policies, NEW users \in SUBSET Users, NEW mode,
             BulkAssign(w, users, policies, mode)
      PROVE  PolicyInv'
  <2>1. PICK scope : scope = users \X Policies
    OBVIOUS
  <2>2. PICK existing : existing = IF mode = "add" THEN assigned \cap scope ELSE {}
    OBVIOUS
  <2>3. PICK pairs : pairs = existing \cup (users \X policies)
    OBVIOUS
  <2>4. call'[w] = [op |-> "replaceAll", users |-> users, mode |-> mode,
                    asked |-> policies, pairs |-> pairs]
    BY <1>4, <2>1, <2>2, <2>3, Makes DEF BulkAssign
  <2>5. pairs \subseteq Users \X Policies /\ users \X policies \subseteq pairs
    BY <2>1, <2>2, <2>3
  <2>6. PolicyFits(call'[w], policy) /\ call'[w].op = "replaceAll"
    BY <2>4, <2>5 DEF PolicyFits
  <2>7. call[w].op = "idle" /\ UNCHANGED policyVars
    BY <1>4, <2>1, <2>2 DEF BulkAssign, Begin, Idle
  <2> QED  BY <2>6, <2>7, PolicyRests
<1> QED  BY <1>1, <1>2, <1>3, <1>4

\* A handler that replaces the users of a policy, or has no more to do
LEMMA ReplacesFit ==
    ASSUME Shape, NEW w \in Slots, NEW p \in Policies, NEW users \in SUBSET Users,
           Return(w) \/ Replace(w, Users \X {p}, users \X {p}), NEW policies
    PROVE  /\ PolicyFits(call'[w], policies)
           /\ call'[w].op \in {"idle", "clearPairs"}
<1>1. CASE Return(w)
  BY <1>1, PolicyReturns
<1>2. CASE Replace(w, Users \X {p}, users \X {p})
  <2>1. PICK scope, pairs : scope = Users \X {p} /\ pairs = users \X {p}
    OBVIOUS
  <2>2. call'[w] = [op |-> "clearPairs", scope |-> scope, pairs |-> pairs]
    BY <1>2, <2>1, Makes DEF Replace
  <2>3. pairs \subseteq Users \X Policies
    BY <2>1
  <2> QED  BY <2>2, <2>3 DEF PolicyFits
<1> QED  BY <1>1, <1>2

\* A policy that is created or saved
LEMMA PolicySavedKept ==
    ASSUME Shape, PolicyInv, NEW w \in Slots, Moves(w, PolicyOps), NEW p \in Policies,
           NEW row \in PolicyInputs, policy' = [policy EXCEPT ![p] = row],
           UNCHANGED <<assigned, wanted, lost>>, PolicyFits(call'[w], policy'),
           call'[w].op # "insertPolicy",
           \/ call[w].op = "insertPolicy"
           \/ call[w].op = "savePolicy" /\ policy[p].at # "new"
    PROVE  PolicyInv'
<1>1. row \in PolicyRows /\ row.at = "live"
  BY PolicyAssumption
<1>2. /\ policy' \in [Policies -> PolicyRows] /\ policy'[p] = row
      /\ \A q \in Policies : q # p => policy'[q] = policy[q]
  BY <1>1 DEF PolicyInv, PolicyTypeOK
<1>3. PolicyTypeOK' /\ PoliciesGoOn
  BY <1>1, <1>2 DEF PolicyInv, PolicyTypeOK, Existing, Present, PoliciesGoOn
<1>4. \A v \in Slots : v # w => call'[v] = call[v]
  BY DEF Moves
<1>5. \A pair : BeingAssigned(pair) => BeingAssigned(pair)'
  BY <1>4 DEF BeingAssigned
<1>6. WantedAreAssigned'
  BY <1>5 DEF PolicyInv, WantedAreAssigned
<1> QED  BY <1>2, <1>3, <1>6, PolicyKeeps

LEMMA PolicyWrittenKept ==
    ASSUME Shape, PolicyInv, NEW w \in Slots, Moves(w, PolicyOps),
           InsertPolicy(w) \/ SavePolicy(w)
    PROVE  PolicyInv'
<1>1. CASE InsertPolicy(w)
  <2>1. PICK row \in PolicyInputs, users \in SUBSET Users :
          row = call[w].row /\ users = call[w].users
    BY <1>1 DEF InsertPolicy, PolicyInv, PolicyFits
  <2>2. PICK p : p = CHOOSE q \in Policies : policy[q].at = "new"
    OBVIOUS
  <2>3. p \in Policies
    BY <1>1, <2>2 DEF InsertPolicy, PolicyInv, OneCreation
  <2>4. /\ policy' = [policy EXCEPT ![p] = row]
        /\ Return(w) \/ Replace(w, Users \X {p}, users \X {p})
    BY <1>1, <2>1, <2>2 DEF InsertPolicy
  <2>5. PolicyFits(call'[w], policy') /\ call'[w].op \in {"idle", "clearPairs"}
    BY <2>3, <2>4, ReplacesFit
  <2> QED  BY <1>1, <2>3, <2>4, <2>5, PolicySavedKept DEF InsertPolicy
<1>2. CASE SavePolicy(w)
  <2>1. PICK row \in PolicyInputs, users \in SUBSET Users, p \in Policies :
          /\ row = call[w].row /\ users = call[w].users /\ p = call[w].policy
          /\ policy[p].at # "new"
    BY <1>2 DEF SavePolicy, PolicyInv, PolicyFits
  <2>2. CASE Return(w) /\ UNCHANGED policy
    BY <1>2, <2>2, PolicyReturns, PolicyRests DEF SavePolicy, policyVars
  <2>3. CASE /\ policy' = [policy EXCEPT ![p] = row]
             /\ Return(w) \/ Replace(w, Users \X {p}, users \X {p})
    <3>1. PolicyFits(call'[w], policy') /\ call'[w].op \in {"idle", "clearPairs"}
      BY <2>3, ReplacesFit
    <3> QED  BY <1>2, <2>1, <2>3, <3>1, PolicySavedKept DEF SavePolicy
  <2> QED  BY <1>2, <2>1, <2>2, <2>3 DEF SavePolicy
<1> QED  BY <1>1, <1>2

LEMMA RemovePolicyKept ==
    ASSUME Shape, PolicyInv, NEW w \in Slots, Moves(w, PolicyOps), RemovePolicy(w)
    PROVE  PolicyInv'
<1>1. PICK p \in Policies : p = call[w].policy
  BY DEF RemovePolicy, PolicyInv, PolicyFits
<1>2. /\ policy' = IF Present(p) THEN [policy EXCEPT ![p].at = "gone"] ELSE policy
      /\ assigned' = assigned \ (Users \X {p})
      /\ wanted' = wanted \ (Users \X {p})
      /\ lost' = lost
  BY <1>1 DEF RemovePolicy
<1>3. /\ policy' \in [Policies -> PolicyRows]
      /\ \A q \in Policies : q # p => policy'[q] = policy[q]
      /\ \/ policy'[p] = policy[p]
         \/ policy[p].at = "live" /\ policy'[p].at = "gone"
  <2>1. CASE Present(p)
    <3>1. PICK row : row = [policy[p] EXCEPT !.at = "gone"]
      OBVIOUS
    <3>2. row \in PolicyRows /\ row.at = "gone"
      BY <3>1 DEF PolicyInv, PolicyTypeOK, PolicyRows
    <3>3. policy' = [policy EXCEPT ![p] = row]
      BY <1>2, <2>1, <3>1
    <3> QED  BY <2>1, <3>2, <3>3 DEF PolicyInv, PolicyTypeOK, Present
  <2>2. CASE ~Present(p)
    <3>1. policy' = policy
      BY <1>2, <2>2
    <3> QED  BY <3>1 DEF PolicyInv, PolicyTypeOK
  <2> QED  BY <2>1, <2>2
<1>4. PolicyTypeOK' /\ PoliciesGoOn
  BY <1>2, <1>3 DEF PolicyInv, PolicyTypeOK, Existing, Present, PoliciesGoOn
<1>5. \A v \in Slots : v # w => call'[v] = call[v]
  BY DEF Moves
<1>6. \A pair : BeingAssigned(pair) => BeingAssigned(pair)'
  BY <1>5 DEF BeingAssigned, RemovePolicy
<1>7. WantedAreAssigned'
  <2>1. ASSUME NEW pair \in wanted' \ lost'
        PROVE  pair \in assigned' \/ BeingAssigned(pair)'
    BY <1>2, <1>6, <2>1 DEF PolicyInv, WantedAreAssigned
  <2> QED  BY <2>1 DEF WantedAreAssigned
<1>8. PolicyFits(call'[w], policy') /\ call'[w].op = "idle"
  BY PolicyReturns DEF RemovePolicy
<1> QED  BY <1>3, <1>4, <1>7, <1>8, PolicyKeeps

LEMMA ClearPairsKept ==
    ASSUME Shape, PolicyInv, NEW w \in Slots, Moves(w, PolicyOps), ClearPairs(w)
    PROVE  PolicyInv'
<1>1. PICK scope, pairs : /\ scope = call[w].scope /\ pairs = call[w].pairs
                          /\ pairs \subseteq Users \X Policies
  BY DEF ClearPairs, PolicyInv, PolicyFits
<1>2. /\ assigned' = assigned \ scope
      /\ wanted' = (wanted \ scope) \cup pairs
      /\ lost' = lost \ scope
      /\ policy' = policy
  BY <1>1 DEF ClearPairs
<1>3. \A v \in Slots : v # w => call'[v] = call[v]
  BY DEF Moves
<1>4. /\ PolicyFits(call'[w], policy') /\ call'[w].op # "insertPolicy"
      /\ pairs # {} => call'[w].op = "insertPairs" /\ call'[w].pairs = pairs
  <2>1. CASE Return(w) /\ pairs = {}
    BY <2>1, PolicyReturns
  <2>2. CASE GoOn(w, [op |-> "insertPairs", pairs |-> pairs])
    <3>1. call'[w] = [op |-> "insertPairs", pairs |-> pairs]
      BY <2>2, Makes
    <3> QED  BY <1>1, <3>1 DEF PolicyFits
  <2> QED  BY <1>1, <2>1, <2>2 DEF ClearPairs
<1>5. PolicyTypeOK' /\ PoliciesGoOn
  BY <1>1, <1>2 DEF PolicyInv, PolicyTypeOK, Existing, Present, PoliciesGoOn
<1>6. WantedAreAssigned'
  <2>1. \A pair : BeingAssigned(pair) => BeingAssigned(pair)'
    BY <1>3 DEF BeingAssigned, ClearPairs
  <2>2. \A pair \in pairs : BeingAssigned(pair)'
    BY <1>4 DEF BeingAssigned
  <2>3. ASSUME NEW pair \in wanted' \ lost'
        PROVE  pair \in assigned' \/ BeingAssigned(pair)'
    BY <1>2, <2>1, <2>2, <2>3 DEF PolicyInv, WantedAreAssigned
  <2> QED  BY <2>3 DEF WantedAreAssigned
<1> QED  BY <1>2, <1>4, <1>5, <1>6, PolicyKeeps

LEMMA InsertPairsKept ==
    ASSUME Shape, PolicyInv, NEW w \in Slots, Moves(w, PolicyOps), InsertPairs(w)
    PROVE  PolicyInv'
<1>1. PICK pairs : pairs = call[w].pairs /\ pairs \subseteq Users \X Policies
  BY DEF InsertPairs, PolicyInv, PolicyFits
<1>2. /\ wanted' = wanted /\ policy' = policy
      /\ \/ /\ Insertable(pairs)
            /\ assigned' = assigned \cup pairs /\ lost' = lost \ pairs
         \/ /\ assigned' = assigned /\ lost' = lost \cup (pairs \ assigned)
  BY <1>1 DEF InsertPairs
<1>3. \A v \in Slots : v # w => call'[v] = call[v]
  BY DEF Moves
<1>4. PolicyFits(call'[w], policy') /\ call'[w].op = "idle"
  BY PolicyReturns DEF InsertPairs
<1>5. PolicyTypeOK' /\ PoliciesGoOn
  BY <1>1, <1>2
     DEF PolicyInv, PolicyTypeOK, Existing, Present, PoliciesGoOn, Insertable
<1>6. WantedAreAssigned'
  <2>1. \A pair : BeingAssigned(pair) => BeingAssigned(pair)' \/ pair \in pairs
    BY <1>1, <1>3 DEF BeingAssigned
  <2>2. ASSUME NEW pair \in wanted' \ lost'
        PROVE  pair \in assigned' \/ BeingAssigned(pair)'
    BY <1>2, <2>1, <2>2 DEF PolicyInv, WantedAreAssigned
  <2> QED  BY <2>2 DEF WantedAreAssigned
<1> QED  BY <1>2, <1>4, <1>5, <1>6, PolicyKeeps

LEMMA ReplaceAllKept ==
    ASSUME Shape, PolicyInv, NEW w \in Slots, Moves(w, PolicyOps), ReplaceAll(w)
    PROVE  PolicyInv'
<1>1. PICK pairs, asked, scope :
        /\ pairs = call[w].pairs /\ pairs \subseteq Users \X Policies
        /\ asked = call[w].users \X call[w].asked /\ asked \subseteq pairs
        /\ scope = call[w].users \X Policies
  BY DEF ReplaceAll, PolicyInv, PolicyFits
<1>2. PICK kept : kept = IF call[w].mode = "add" THEN wanted ELSE wanted \ scope
  OBVIOUS
<1>3. /\ policy' = policy
      /\ \/ /\ \A pair \in pairs : Present(pair[2])
            /\ assigned' = (assigned \ scope) \cup pairs
            /\ wanted' = kept \cup asked
            /\ lost' = (lost \cup (kept \cap scope)) \ pairs
         \/ UNCHANGED <<assigned, wanted, lost>>
  BY <1>1, <1>2 DEF ReplaceAll
<1>4. \A v \in Slots : v # w => call'[v] = call[v]
  BY DEF Moves
<1>5. PolicyFits(call'[w], policy') /\ call'[w].op = "idle"
  BY PolicyReturns DEF ReplaceAll
<1>6. kept \subseteq wanted
  BY <1>2
<1>7. PolicyTypeOK' /\ PoliciesGoOn
  BY <1>1, <1>3, <1>6
     DEF PolicyInv, PolicyTypeOK, Existing, Present, PoliciesGoOn
<1>8. WantedAreAssigned'
  <2>1. \A pair : BeingAssigned(pair) => BeingAssigned(pair)'
    BY <1>4 DEF BeingAssigned, ReplaceAll
  <2>2. ASSUME NEW pair \in wanted' \ lost'
        PROVE  pair \in assigned' \/ BeingAssigned(pair)'
    BY <1>1, <1>3, <1>6, <2>1, <2>2 DEF PolicyInv, WantedAreAssigned
  <2> QED  BY <2>2 DEF WantedAreAssigned
<1> QED  BY <1>3, <1>5, <1>7, <1>8, PolicyKeeps DEF ReplaceAll

LEMMA PolicyNext ==
    ASSUME Shape, PolicyInv, [Next]_vars
    PROVE  PolicyInv'
<1>1. ASSUME NEW w \in Slots, PolicyStep(w), Moves(w, PolicyOps)
      PROVE  PolicyInv'
  <2>1. ASSUME NEW p \in Policies, NEW row \in PolicyInputs, UpdatePolicy(w, p, row, FALSE, {})
        PROVE  PolicyInv'
    <3>1. \E q \in Policies, r \in PolicyInputs, users \in SUBSET Users,
              given \in BOOLEAN : UpdatePolicy(w, q, r, given, users)
      <4>1. {} \in SUBSET Users /\ FALSE \in BOOLEAN
        OBVIOUS
      <4> QED  BY <2>1, <4>1
    <3> QED  BY <1>1, <3>1, PolicyBegunKept
  <2> QED  BY <1>1, <2>1, CreatePolicyKept, PolicyBegunKept, PolicyWrittenKept,
              RemovePolicyKept, ClearPairsKept, InsertPairsKept, ReplaceAllKept
           DEF PolicyStep
<1>2. ASSUME NEW ended \in SUBSET Slots, AssignmentsLost(ended), Ends(ended)
      PROVE  PolicyInv'
  <2>1. /\ UNCHANGED <<policy, assigned, wanted>>
        /\ \A pair : pair \in lost' <=>
              \/ pair \in lost
              \/ \E v \in ended : call[v].op = "insertPairs" /\ pair \in call[v].pairs
    BY <1>2 DEF AssignmentsLost
  <2>2. \A w \in Slots : call[w].op = "insertPairs" => call[w].pairs \subseteq Users \X Policies
    BY DEF PolicyInv, PolicyFits
  <2>3. PolicyTypeOK'
    BY <2>1, <2>2 DEF PolicyInv, PolicyTypeOK, Existing, Present
  <2>4. /\ \A v \in ended : call'[v] = Idle
        /\ \A v \in Slots \ ended : call'[v] = call[v]
    BY <1>2 DEF Ends
  <2>5. ASSUME NEW pair \in wanted' \ lost', ~(pair \in assigned')
        PROVE  BeingAssigned(pair)'
    <3>1. PICK v \in Slots : call[v].op = "insertPairs" /\ pair \in call[v].pairs
      BY <2>1, <2>5 DEF PolicyInv, WantedAreAssigned, BeingAssigned
    <3>2. v \notin ended
      BY <2>1, <2>5, <3>1
    <3> QED  BY <2>4, <3>1, <3>2 DEF BeingAssigned
  <2>6. WantedAreAssigned'
    BY <2>5 DEF WantedAreAssigned
  <2>7. OneCreation' /\ \A v \in Slots : PolicyFits(call'[v], policy')
    BY <2>1, <2>4 DEF PolicyInv, OneCreation, PolicyFits, Idle
  <2> QED  BY <2>3, <2>6, <2>7 DEF PolicyInv
<1>3. CASE UNCHANGED policyVars /\ Elsewhere(PolicyOps)
  <2>1. \A v \in Slots : \/ call'[v] = call[v]
                         \/ call[v].op \notin PolicyOps /\ call'[v].op \notin PolicyOps
    BY <1>3 DEF Elsewhere
  <2>2. \A v \in Slots : PolicyFits(call'[v], policy)
    BY <2>1 DEF PolicyInv, PolicyFits, PolicyOps
  <2>3. \A pair : BeingAssigned(pair) => BeingAssigned(pair)'
    BY <2>1 DEF BeingAssigned, PolicyOps
  <2>4. PolicyTypeOK' /\ WantedAreAssigned'
    BY <1>3, <2>3 DEF PolicyInv, PolicyTypeOK, Existing, Present, WantedAreAssigned,
                      policyVars
  <2>5. OneCreation'
    BY <1>3, <2>1 DEF PolicyInv, OneCreation, policyVars, PolicyOps
  <2> QED  BY <1>3, <2>2, <2>4, <2>5 DEF PolicyInv, policyVars
<1> QED  BY <1>1, <1>2, <1>3, PolicyApart

LEMMA PolicyStart ==
    ASSUME Init
    PROVE  PolicyInv
<1>1. \A w \in Slots : call[w].op = "idle"
  BY DEF Init, SlotsInit, Idle
<1>2. /\ policy = [p \in Policies |-> IF p = First(Policies) THEN FirstPolicy
                                      ELSE [FirstPolicy EXCEPT !.at = "new"]]
      /\ assigned = Users \X {First(Policies)} /\ wanted = assigned /\ lost = {}
  BY DEF Init, PolicyInit
<1>3. /\ First(Policies) \in Policies
      /\ FirstPolicy \in PolicyRows /\ FirstPolicy.at = "live"
      /\ [FirstPolicy EXCEPT !.at = "new"] \in PolicyRows
  BY WorkspaceAssumption, PolicyAssumption DEF First, PolicyRows
<1>4. PolicyTypeOK
  BY <1>2, <1>3 DEF PolicyTypeOK, Existing, Present
<1> QED  BY <1>1, <1>2, <1>4 DEF PolicyInv, PolicyFits, OneCreation, WantedAreAssigned

(***************************************************************************)
(* A user whom an enabled policy denies is not let in while the assignment *)
(* stands: however creations, updates, removals and assignments overlap,   *)
(* except while one of them is between its deletion and its insertion, or  *)
(* has lost the second half, because the insertion failed or the process   *)
(* stopped (replaceUsersForPolicy, bulkAssignPolicies).                    *)
(***************************************************************************)
THEOREM DeniedStayOut == Spec => []DenialsHold
<1>1. Init => Shape /\ PolicyInv
  BY InitShape, PolicyStart
<1>2. Shape /\ PolicyInv /\ [Next]_vars => Shape' /\ PolicyInv'
  BY NextKnown, PolicyNext
<1>3. PolicyInv => DenialsHold
  <2> SUFFICES ASSUME PolicyInv, NEW pair \in wanted \ lost,
                      policy[pair[2]].at = "live", policy[pair[2]].effect = "deny",
                      policy[pair[2]].enabled, pair[1] \in policy[pair[2]].meets,
                      ~BeingAssigned(pair)
               PROVE  ~CanAccess(pair[1])
    BY DEF DenialsHold, BeingAssigned
  <2>1. pair \in assigned /\ pair \in Users \X Policies
    BY DEF PolicyInv, WantedAreAssigned, PolicyTypeOK
  <2>2. PICK u \in Users, p \in Policies : pair = <<u, p>> /\ u = pair[1] /\ p = pair[2]
    BY <2>1
  <2>3. PICK policies : policies = {q \in Existing : <<u, q>> \in assigned /\ policy[q].enabled}
    OBVIOUS
  <2>4. p \in policies
    BY <2>1, <2>2, <2>3 DEF Existing, Present
  <2>5. ~Permitted(u, policies)
    BY <2>2, <2>4 DEF Permitted
  <2> QED  BY <2>2, <2>3, <2>5 DEF CanAccess
<1> QED  BY <1>1, <1>2, <1>3, PTL DEF Spec

-----------------------------------------------------------------------------
(* Meetings.  A handler knows of a meeting that it is there, or that its   *)
(* event is; and of the connection, which account it names, unless the row *)
(* has been written since.                                                 *)

GoalFits(goal, meetings) ==
    /\ goal.do = "connect" => goal.account \in Accounts
    /\ goal.do = "create" => goal.item \in Items
    /\ goal.do = "cancel" => goal.meeting \in MeetingIds /\ meetings[goal.meeting] # Off

\* conn and rev: the connection and its revision
NewFits(new, goal, conn, rev) ==
    /\ new.email \in Accounts /\ new.token \in Accounts
    /\ new.since \in Nat /\ new.since <= rev
    /\ goal.do = "connect" => new.email = goal.account /\ new.token = goal.account
    /\ (new.since = rev /\ goal.do # "connect") =>
           conn # Off /\ conn.email = new.email /\ conn.token = new.token

MeetingFits(c, meetings, events, conn, rev) ==
    /\ c.op \in GoalOps \cup {"createEvent", "deleteEvent"} =>
           /\ "goal" \in DOMAIN c /\ c.goal.do \in {"connect", "create", "cancel"}
           /\ GoalFits(c.goal, meetings)
    /\ c.op \in GoalOps \ {"findToken"} =>
           "new" \in DOMAIN c /\ NewFits(c.new, c.goal, conn, rev)
    /\ c.op \in {"selectConnection", "updateConnection"} => c.id \in Nat
    /\ c.op = "updateConnection" =>
           /\ c.selected \in Accounts \cup {Off}
           /\ (c.new.since = rev /\ c.selected # Off) =>
                  conn # Off /\ conn.email = c.selected
    /\ c.op = "findToken" => c.goal.do # "connect"
    /\ c.op = "createEvent" => c.account \in Accounts /\ c.goal.do = "create"
    /\ c.op = "deleteEvent" => c.goal.do = "cancel"
    /\ c.op = "saveMeeting" =>
           /\ c.meeting \in MeetingIds /\ c.goal.item \in Items
           /\ meetings[c.meeting] = Off /\ events[c.meeting] # Off
    /\ c.op = "saveCancelled" =>
           c.meeting \in MeetingIds /\ meetings[c.meeting] # Off

\* No two handlers save the same meeting.
MeetingsApart ==
    \A v, w \in Slots :
        (/\ call[v].op = "saveMeeting" /\ call[w].op = "saveMeeting"
         /\ call[v].meeting = call[w].meeting) => v = w

ScheduledWithSomebody ==
    \A m \in MeetingIds : Scheduled(m) => item[meeting[m].prospect] = "live"

MeetingInv ==
    /\ MeetingTypeOK
    /\ \A w \in Slots : MeetingFits(call[w], meeting, event, connection, revision)
    /\ MeetingsApart
    /\ ScheduledWithSomebody
    /\ ScheduledIsOnCalendar
    /\ KeptAsChosen

LEMMA MeetingApart ==
    ASSUME Shape, [Next]_vars
    PROVE  \/ \E w \in Slots : /\ MeetingStep(w) /\ Moves(w, MeetingOps)
                               /\ UNCHANGED removalVars
           \/ \E w \in Slots : Removes(w) /\ MeetingsCascade /\ Elsewhere(MeetingOps)
           \/ \E w \in Slots : /\ PlanStep(w) /\ UNCHANGED meetingVars
                               /\ Elsewhere(MeetingOps)
           \/ Expire /\ UNCHANGED call /\ UNCHANGED removalVars
           \/ /\ UNCHANGED removalVars
              /\ \E ended \in SUBSET Slots : MeetingsInterrupted(ended) /\ Ends(ended)
           \/ UNCHANGED meetingVars /\ UNCHANGED removalVars /\ Elsewhere(MeetingOps)
<1>1. ASSUME NEW w \in Slots, NEW Ops \in AllOps, Ops # MeetingOps, Moves(w, Ops),
             StepOf(w, Ops)
      PROVE  /\ Elsewhere(MeetingOps)
             /\ \/ Removes(w) /\ MeetingsCascade
                \/ PlanStep(w) /\ UNCHANGED meetingVars
                \/ UNCHANGED meetingVars /\ UNCHANGED removalVars
  BY <1>1, Aside, OpsDistinct DEF StepOf
<1>2. ASSUME NEW w \in Slots, Moves(w, MeetingOps), StepOf(w, MeetingOps)
      PROVE  MeetingStep(w) /\ UNCHANGED removalVars
  BY <1>2, OpsDistinct DEF StepOf
<1>3. CASE CutShort
  BY <1>3, CutShortKnown
<1>4. CASE Besides /\ ~CutShort
  BY <1>4 DEF Besides, Elsewhere
<1> QED  BY <1>1, <1>2, <1>3, <1>4, NextKnown

\* A row that is there stays until it is deleted.
LEMMA ItemsStay ==
    ASSUME Shape, RemovalInv, NEW w \in Slots, NEW i \in Items, item[i] = "live"
    PROVE  /\ Removes(w) => item'[i] \in {"live", "gone"}
           /\ PlanStep(w) => item'[i] = "live"
<1>1. ASSUME NEW table, NEW j, Removal(table, j)
      PROVE  item'[i] \in {"live", "gone"}
  BY <1>1 DEF Removal, RemovalInv, RemovalTypeOK
<1>2. ASSUME NEW j, item' = [item EXCEPT ![j] = "live"]
      PROVE  item'[i] = "live"
  BY <1>2 DEF RemovalInv, RemovalTypeOK
<1>3. RowStep(w) => item'[i] \in {"live", "gone"}
  BY <1>1, <1>2 DEF RowStep, CreateItem, DeleteItem, UpdateItem, InsertItem, SaveItem,
                    Restored, CancelPending, RemoveItem, removalVars
<1>4. RequestStep(w) => item'[i] \in {"live", "gone"}
  BY <1>1 DEF RequestStep, AskDelete, Approve, Answer, FindPending, SaveRequest,
              FindApproved, CommitApproval, ApprovalCommitted, SelectAnswered,
              UpdateAnswered, removalVars
<1>5. ImportStep(w) => item'[i] = "live"
  BY DEF ImportStep, ImportItems, InsertImported, removalVars
<1>6. PlanStep(w) => item'[i] = "live"
  BY <1>2 DEF PlanStep, Schedule, SaveSchedule, AddRecipient, SaveRecipient,
              UpdateCampaign, SaveCampaign, TickCampaign, SaveTicked, Restored, removalVars
<1> QED  BY <1>3, <1>4, <1>5, <1>6 DEF Removes

-----------------------------------------------------------------------------
\* What a handler holds fits the rows after another's step.

LEMMA RowsLater ==
    ASSUME NEW c, NEW meetings, NEW events, NEW conn, NEW rev, NEW meetings2, NEW events2,
           MeetingFits(c, meetings, events, conn, rev),
           \A m \in MeetingIds : meetings[m] # Off => meetings2[m] # Off,
           c.op = "saveMeeting" => meetings2[c.meeting] = Off /\ events2[c.meeting] # Off
    PROVE  MeetingFits(c, meetings2, events2, conn, rev)
BY DEF MeetingFits, GoalFits

\* The connection is the same but for its freshness, or its revision tells.
Follows(old, rev, new, rev2) ==
    \/ rev2 = rev + 1
    \/ rev2 = rev /\ (old # Off => /\ new # Off
                                   /\ new.email = old.email /\ new.token = old.token)

LEMMA ConnectionLater ==
    ASSUME NEW c, NEW meetings, NEW events, NEW conn, NEW rev \in Nat, NEW conn2, NEW rev2,
           MeetingFits(c, meetings, events, conn, rev), Follows(conn, rev, conn2, rev2)
    PROVE  MeetingFits(c, meetings, events, conn2, rev2)
<1>1. c.op \in GoalOps \ {"findToken"} => NewFits(c.new, c.goal, conn2, rev2)
  BY DEF MeetingFits, NewFits, Follows
<1>2. c.op = "updateConnection" =>
        ((c.new.since = rev2 /\ c.selected # Off) => conn2 # Off /\ conn2.email = c.selected)
  <2>1. c.op = "updateConnection" => c.new.since \in Nat /\ c.new.since <= rev
    BY DEF MeetingFits, NewFits, GoalOps
  <2> QED  BY <2>1 DEF MeetingFits, Follows
<1> QED  BY <1>1, <1>2 DEF MeetingFits

LEMMA MeetingKeeps ==
    ASSUME MeetingInv, NEW w \in Slots, Moves(w, MeetingOps),
           \A m \in MeetingIds : meeting[m] # Off => meeting'[m] # Off,
           \A v \in Slots : (v # w /\ call[v].op = "saveMeeting") =>
               meeting'[call[v].meeting] = Off /\ event'[call[v].meeting] # Off,
           Follows(connection, revision, connection', revision'),
           MeetingFits(call'[w], meeting', event', connection', revision')
    PROVE  \A v \in Slots : MeetingFits(call'[v], meeting', event', connection', revision')
<1>1. ASSUME NEW v \in Slots, v # w
      PROVE  MeetingFits(call'[v], meeting', event', connection', revision')
  <2>1. PICK c, table, events, conn, rev :
          c = call[v] /\ c = call'[v] /\ table = meeting' /\ events = event'
            /\ conn = connection' /\ rev = revision'
    BY <1>1 DEF Moves
  <2>2. MeetingFits(c, meeting, event, connection, revision)
    BY <2>1 DEF MeetingInv
  <2>3. MeetingFits(c, table, events, connection, revision)
    BY <1>1, <2>1, <2>2, RowsLater
  <2>4. MeetingFits(c, table, events, conn, rev)
    BY <2>1, <2>3, ConnectionLater DEF MeetingInv, MeetingTypeOK
  <2> QED  BY <2>1, <2>4
<1> QED  BY <1>1

\* A handler that looks, asks another service, or answers
LEMMA MeetingRests ==
    ASSUME MeetingInv, NEW w \in Slots, Moves(w, MeetingOps), UNCHANGED meetingVars,
           UNCHANGED removalVars, call[w].op # "saveCancelled",
           call'[w].op # "saveMeeting",
           MeetingFits(call'[w], meeting, event, connection, revision)
    PROVE  MeetingInv'
<1>1. UNCHANGED <<connection, meeting, event, revision, chosen, crossed, interrupted, item>>
  BY DEF meetingVars, connectionVars, removalVars
<1>2. \A v \in Slots : MeetingFits(call'[v], meeting', event', connection', revision')
  BY <1>1 DEF MeetingInv, Moves
<1>3. MeetingsApart'
  BY DEF MeetingInv, MeetingsApart, Moves
<1>4. \A m : Cancelling(m) => Cancelling(m)'
  BY DEF Cancelling, Moves
<1>5. ScheduledIsOnCalendar' /\ ScheduledWithSomebody'
  BY <1>1, <1>4 DEF MeetingInv, ScheduledIsOnCalendar, ScheduledWithSomebody, Scheduled
<1>6. MeetingTypeOK' /\ KeptAsChosen'
  BY <1>1 DEF MeetingInv, MeetingTypeOK, KeptAsChosen
<1> QED  BY <1>2, <1>3, <1>5, <1>6 DEF MeetingInv

LEMMA MeetingReturns ==
    ASSUME Shape, NEW w \in Slots, Return(w), NEW meetings, NEW events, NEW conn, NEW rev
    PROVE  /\ MeetingFits(call'[w], meetings, events, conn, rev)
           /\ call'[w].op = "idle"
BY Makes, IdleKnown DEF Return, MeetingFits, GoalOps

LEMMA TokenFits ==
    ASSUME NEW a \in Accounts, NEW goal, goal.do \in {"connect", "create", "cancel"},
           NEW meetings, NEW events, NEW conn, NEW rev, GoalFits(goal, meetings), NEW c,
           c = WithToken(a, goal)
    PROVE  /\ MeetingFits(c, meetings, events, conn, rev)
           /\ c.op \in {"idle", "createEvent", "deleteEvent"}
<1>1. CASE goal.do = "connect"
  <2>1. c = Idle
    BY <1>1 DEF WithToken
  <2> QED  BY <2>1 DEF Idle, MeetingFits, GoalOps
<1>2. CASE goal.do = "create"
  <2>1. c = [op |-> "createEvent", account |-> a, goal |-> goal]
    BY <1>2 DEF WithToken
  <2> QED  BY <1>2, <2>1 DEF MeetingFits, GoalOps
<1>3. CASE goal.do = "cancel"
  <2>1. c = [op |-> "deleteEvent", account |-> a, goal |-> goal]
    BY <1>3 DEF WithToken
  <2> QED  BY <1>3, <2>1 DEF MeetingFits, GoalOps
<1> QED  BY <1>1, <1>2, <1>3
-----------------------------------------------------------------------------
\* Requests for meetings and connections

LEMMA MeetingBegunKept ==
    ASSUME Shape, MeetingInv, NEW w \in Slots, Moves(w, MeetingOps), UNCHANGED removalVars,
           \/ \E a \in Accounts : Connect(w, a)
           \/ \E i \in Items : ScheduleMeeting(w, i)
           \/ \E m \in MeetingIds, creator \in BOOLEAN : Cancel(w, m, creator)
           \/ Disconnect(w)
    PROVE  MeetingInv'
<1>1. call[w] = Idle /\ call[w].op # "saveCancelled" /\ UNCHANGED meetingVars
  <2>1. call[w] = Idle /\ UNCHANGED meetingVars
    BY DEF Connect, ScheduleMeeting, Cancel, Disconnect, Begin
  <2> QED  BY <2>1 DEF Idle
<1>2. ASSUME NEW a \in Accounts, Connect(w, a)
      PROVE  MeetingInv'
  <2>1. PICK new, goal : /\ new = [email |-> a, token |-> a, since |-> revision]
                         /\ goal = [do |-> "connect", account |-> a]
    OBVIOUS
  <2>2. call'[w] = [op |-> "findConnection", new |-> new, goal |-> goal]
    BY <1>2, <2>1, Makes DEF Connect
  <2>3. GoalFits(goal, meeting) /\ NewFits(new, goal, connection, revision)
    BY <2>1 DEF GoalFits, NewFits, MeetingInv, MeetingTypeOK
  <2>4. MeetingFits(call'[w], meeting, event, connection, revision)
    BY <2>1, <2>2, <2>3 DEF MeetingFits, GoalOps
  <2> QED  BY <1>1, <2>2, <2>4, MeetingRests
<1>3. ASSUME NEW i \in Items, ScheduleMeeting(w, i)
      PROVE  MeetingInv'
  <2>1. PICK goal : goal = [do |-> "create", item |-> i]
    OBVIOUS
  <2>2. call'[w] = [op |-> "findToken", goal |-> goal]
    BY <1>3, <2>1, Makes DEF ScheduleMeeting
  <2>3. MeetingFits(call'[w], meeting, event, connection, revision)
    BY <2>1, <2>2 DEF MeetingFits, GoalFits, GoalOps
  <2> QED  BY <1>1, <2>2, <2>3, MeetingRests
<1>4. ASSUME NEW m \in MeetingIds, NEW creator \in BOOLEAN, Cancel(w, m, creator)
      PROVE  MeetingInv'
  <2>1. PICK goal : goal = [do |-> "cancel", meeting |-> m]
    OBVIOUS
  <2>2. \/ call'[w] = [op |-> "findToken", goal |-> goal]
        \/ call'[w] = [op |-> "saveCancelled", meeting |-> m, goal |-> goal]
    BY <1>4, <2>1, Makes DEF Cancel
  <2>3. meeting[m] # Off
    BY <1>4 DEF Cancel, Scheduled
  <2>4. MeetingFits(call'[w], meeting, event, connection, revision)
    BY <2>1, <2>2, <2>3 DEF MeetingFits, GoalFits, GoalOps
  <2> QED  BY <1>1, <2>2, <2>4, MeetingRests
<1>5. CASE Disconnect(w)
  <2>1. call'[w] = [op |-> "deleteConnection"]
    BY <1>5, Makes DEF Disconnect
  <2>2. MeetingFits(call'[w], meeting, event, connection, revision)
    BY <2>1 DEF MeetingFits, GoalOps
  <2> QED  BY <1>1, <2>1, <2>2, MeetingRests
<1> QED  BY <1>2, <1>3, <1>4, <1>5

LEMMA MeetingLookKept ==
    ASSUME Shape, MeetingInv, NEW w \in Slots, Moves(w, MeetingOps), UNCHANGED removalVars,
           FindConnection(w) \/ SelectConnection(w) \/ FindToken(w) \/ Refresh(w)
    PROVE  MeetingInv'
<1> DEFINE Fits(c) == MeetingFits(c, meeting, event, connection, revision)
<1>1. /\ Fits(call[w]) /\ UNCHANGED meetingVars
      /\ call[w].op \in GoalOps /\ "op" \in DOMAIN call[w]
  BY DEF MeetingInv, FindConnection, SelectConnection, FindToken, Refresh, GoalOps, Shape
<1>2. PICK goal : goal = call[w].goal
  OBVIOUS
<1>3. /\ goal.do \in {"connect", "create", "cancel"} /\ GoalFits(goal, meeting)
      /\ "goal" \in DOMAIN call[w] /\ call[w].op # "saveCancelled"
  BY <1>1, <1>2 DEF MeetingFits, GoalOps
<1>4. CASE Return(w)
  BY <1>1, <1>3, <1>4, MeetingReturns, MeetingRests
<1>5. ASSUME NEW c, NEW name \in {"insertConnection", "findConnection"},
             c = [call[w] EXCEPT !.op = name], GoOn(w, c), call[w].op # "findToken"
      PROVE  MeetingInv'
  <2>1. /\ call'[w] = c /\ c.op = name /\ DOMAIN c = DOMAIN call[w]
        /\ \A f \in DOMAIN c : f # "op" => c[f] = call[w][f]
    BY <1>1, <1>5, Makes, Renamed
  <2>2. "new" \in DOMAIN call[w] /\ NewFits(call[w].new, goal, connection, revision)
    BY <1>1, <1>2, <1>5 DEF MeetingFits
  <2>3. Fits(c)
    BY <1>2, <1>3, <2>1, <2>2 DEF MeetingFits, GoalOps
  <2> QED  BY <1>1, <1>3, <2>1, <2>3, MeetingRests
<1>6. CASE FindConnection(w)
  <2>1. CASE connection = Off
    BY <1>5, <1>6, <2>1 DEF FindConnection
  <2>2. CASE connection # Off
    <3>0. PICK id \in Nat : id = connection.id
      BY <2>2 DEF MeetingInv, MeetingTypeOK, Connections
    <3>1. PICK new : id = connection.id /\ new = call[w].new
      BY <3>0
    <3>2. call'[w] = [op |-> "selectConnection", id |-> id, new |-> new, goal |-> goal]
      BY <1>2, <1>6, <2>2, <3>1, Makes DEF FindConnection
    <3>3. NewFits(new, goal, connection, revision)
      BY <1>1, <1>2, <1>6, <3>1 DEF MeetingFits, FindConnection
    <3>4. Fits(call'[w])
      BY <1>3, <3>2, <3>3 DEF MeetingFits, GoalOps
    <3> QED  BY <1>1, <1>3, <3>2, <3>4, MeetingRests
  <2> QED  BY <2>1, <2>2
<1>7. CASE SelectConnection(w)
  <2>1. PICK id \in Nat : id = call[w].id
    BY <1>1, <1>7 DEF MeetingFits, SelectConnection
  <2>0. PICK new : new = call[w].new
    OBVIOUS
  <2>2. PICK selected : selected = IF connection # Off /\ connection.id = id
                                   THEN connection.email ELSE Off
    OBVIOUS
  <2>3. call'[w] = [op |-> "updateConnection", id |-> id, new |-> new,
                    selected |-> selected, goal |-> goal]
    BY <1>2, <1>7, <2>0, <2>1, <2>2, Makes DEF SelectConnection
  <2>4. NewFits(new, goal, connection, revision)
    BY <1>1, <1>2, <1>7, <2>0 DEF MeetingFits, SelectConnection
  <2>5. /\ selected \in Accounts \cup {Off}
        /\ selected # Off => connection # Off /\ connection.email = selected
    BY <2>2 DEF MeetingInv, MeetingTypeOK, Connections
  <2>6. Fits(call'[w])
    BY <1>3, <2>3, <2>4, <2>5 DEF MeetingFits, GoalOps
  <2> QED  BY <1>1, <1>3, <2>3, <2>6, MeetingRests
<1>8. CASE FindToken(w) /\ ~Return(w)
  <2>1. connection # Off
    BY <1>8 DEF FindToken
  <2>2. PICK a \in Accounts, e \in Accounts : a = connection.token /\ e = connection.email
    BY <2>1 DEF MeetingInv, MeetingTypeOK, Connections
  <2>3. CASE GoOn(w, WithToken(a, goal))
    <3>1. PICK c : c = WithToken(a, goal)
      OBVIOUS
    <3>2. call'[w] = c
      BY <2>3, <3>1, Makes
    <3>3. Fits(c) /\ c.op \in {"idle", "createEvent", "deleteEvent"}
      BY <1>3, <3>1, TokenFits
    <3> QED  BY <1>1, <1>3, <3>2, <3>3, MeetingRests
  <2>4. CASE GoOn(w, [op |-> "refresh", goal |-> goal,
                      new |-> [email |-> e, token |-> a, since |-> revision]])
    <3>1. PICK new : new = [email |-> e, token |-> a, since |-> revision]
      OBVIOUS
    <3>2. call'[w] = [op |-> "refresh", goal |-> goal, new |-> new]
      BY <2>4, <3>1, Makes
    <3>3. NewFits(new, goal, connection, revision)
      <4>1. goal.do # "connect"
        BY <1>1, <1>2, <1>8 DEF MeetingFits, FindToken
      <4> QED  BY <2>1, <2>2, <3>1, <4>1 DEF NewFits, MeetingInv, MeetingTypeOK
    <3>4. Fits(call'[w])
      BY <1>3, <3>2, <3>3 DEF MeetingFits, GoalOps
    <3> QED  BY <1>1, <1>3, <3>2, <3>4, MeetingRests
  <2> QED  BY <1>2, <1>8, <2>1, <2>2, <2>3, <2>4 DEF FindToken
<1>9. CASE Refresh(w)
  BY <1>4, <1>5, <1>9 DEF Refresh
<1> QED  BY <1>4, <1>6, <1>7, <1>8, <1>9
-----------------------------------------------------------------------------
\* The connection is saved

LEMMA NewIsNamed ==
    ASSUME MeetingInv, NEW w \in Slots,
           call[w].op \in {"insertConnection", "updateConnection"}
    PROVE  /\ call[w].new.email \in Accounts /\ call[w].new.token \in Accounts
           /\ call[w].goal.do \in {"connect", "create", "cancel"}
           /\ GoalFits(call[w].goal, meeting)
           /\ NewFits(call[w].new, call[w].goal, connection, revision)
<1>1. MeetingFits(call[w], meeting, event, connection, revision)
  BY DEF MeetingInv
<1>2. /\ call[w].goal.do \in {"connect", "create", "cancel"}
      /\ GoalFits(call[w].goal, meeting)
      /\ NewFits(call[w].new, call[w].goal, connection, revision)
  BY <1>1 DEF MeetingFits, GoalOps
<1> QED  BY <1>2 DEF NewFits

\* row: what the handler makes of the connection
LEMMA SavedKept ==
    ASSUME Shape, MeetingInv, NEW w \in Slots, Moves(w, MeetingOps),
           UNCHANGED <<removalVars, meeting, event, interrupted>>,
           call[w].op \in {"insertConnection", "updateConnection"},
           NEW row \in Connections, Saved(w, row), row.token = call[w].new.token,
           \/ row.email = call[w].new.email
           \/ call[w].new.since = revision => FALSE
    PROVE  MeetingInv'
<1>1. PICK new, goal : new = call[w].new /\ goal = call[w].goal
  OBVIOUS
<1>2. /\ new.email \in Accounts /\ new.token \in Accounts
      /\ goal.do \in {"connect", "create", "cancel"}
      /\ GoalFits(goal, meeting) /\ NewFits(new, goal, connection, revision)
  BY <1>1, NewIsNamed
<1>3. /\ connection' = row /\ revision' = revision + 1
      /\ chosen' = IF goal.do = "connect" THEN goal.account ELSE chosen
      /\ crossed' = IF new.since = revision THEN crossed /\ goal.do # "connect"
                    ELSE TRUE
      /\ GoOn(w, WithToken(new.token, goal))
  BY <1>1 DEF Saved
<1>4. PICK c : c = WithToken(new.token, goal)
  OBVIOUS
<1>5. call'[w] = c
  BY <1>3, <1>4, Makes
<1>6. PICK conn, rev : conn = connection' /\ rev = revision'
  OBVIOUS
<1>7. MeetingFits(c, meeting, event, conn, rev) /\ c.op \in {"idle", "createEvent", "deleteEvent"}
  BY <1>2, <1>4, TokenFits
<1>8. UNCHANGED <<meeting, event, item, interrupted>>
  BY DEF removalVars
<1>9. \A v \in Slots : MeetingFits(call'[v], meeting', event', connection', revision')
  <2>1. MeetingFits(call'[w], meeting', event', connection', revision')
    BY <1>5, <1>6, <1>7, <1>8
  <2>2. Follows(connection, revision, connection', revision')
    BY <1>3 DEF Follows
  <2>3. \A v \in Slots : call[v].op = "saveMeeting" =>
            meeting'[call[v].meeting] = Off /\ event'[call[v].meeting] # Off
    BY <1>8 DEF MeetingInv, MeetingFits
  <2> QED  BY <1>8, <2>1, <2>2, <2>3, MeetingKeeps
<1>10. MeetingsApart'
  BY <1>5, <1>7 DEF MeetingInv, MeetingsApart, Moves
<1>11. \A m : Cancelling(m) => Cancelling(m)'
  BY DEF Cancelling, Moves
<1>12. ScheduledIsOnCalendar' /\ ScheduledWithSomebody'
  BY <1>8, <1>11 DEF MeetingInv, ScheduledIsOnCalendar, ScheduledWithSomebody, Scheduled
<1>13. MeetingTypeOK'
  <2>1. connection' \in Connections /\ revision' \in Nat
    BY <1>3 DEF MeetingInv, MeetingTypeOK
  <2>2. chosen' \in Accounts \cup {Off}
    BY <1>2, <1>3 DEF MeetingInv, MeetingTypeOK, GoalFits
  <2>3. crossed' \in BOOLEAN
    <3>1. CASE new.since = revision
      <4>1. crossed' = (crossed /\ goal.do # "connect")
        BY <1>3, <3>1
      <4> QED  BY <4>1
    <3>2. CASE new.since # revision
      BY <1>3, <3>2
    <3> QED  BY <3>1, <3>2
  <2> QED  BY <1>8, <2>1, <2>2, <2>3 DEF MeetingInv, MeetingTypeOK
<1>14. row # Off
  BY MeetingAssumption
<1>15. KeptAsChosen'
  <2> SUFFICES ASSUME ~crossed'
               PROVE  row.email = chosen' /\ row.token = chosen'
    BY <1>3, <1>14 DEF KeptAsChosen
  <2>1. new.since = revision /\ row.email = new.email /\ row.token = new.token
    BY <1>1, <1>3
  <2>2. CASE goal.do = "connect"
    BY <1>2, <1>3, <2>1, <2>2 DEF NewFits
  <2>3. CASE goal.do # "connect"
    <3>1. ~crossed /\ chosen' = chosen
      BY <1>3, <2>1, <2>3
    <3>2. connection # Off /\ connection.email = new.email /\ connection.token = new.token
      BY <1>2, <2>1, <2>3 DEF NewFits
    <3> QED  BY <2>1, <3>1, <3>2 DEF MeetingInv, KeptAsChosen
  <2> QED  BY <2>2, <2>3
<1> QED  BY <1>9, <1>10, <1>12, <1>13, <1>15 DEF MeetingInv

LEMMA RowInsertedKept ==
    ASSUME Shape, MeetingInv, NEW w \in Slots, Moves(w, MeetingOps),
           UNCHANGED <<removalVars, meeting, event, interrupted>>,
           call[w].op \in {"insertConnection", "updateConnection"}, NEW id \in Nat,
           InsertRow(w, id)
    PROVE  MeetingInv'
<1>1. CASE connection = Off
  <2>1. PICK row : row = [id |-> id, email |-> call[w].new.email,
                          token |-> call[w].new.token, fresh |-> TRUE]
    OBVIOUS
  <2>2. /\ row \in Connections /\ row.email = call[w].new.email
        /\ row.token = call[w].new.token
    BY <2>1, NewIsNamed DEF Connections
  <2>3. Saved(w, row)
    BY <1>1, <2>1 DEF InsertRow
  <2> QED  BY <2>2, <2>3, SavedKept
<1>2. CASE Return(w) /\ UNCHANGED connectionVars
  <2>1. UNCHANGED meetingVars /\ call[w].op # "saveCancelled" /\ UNCHANGED removalVars
    BY <1>2 DEF meetingVars
  <2> QED  BY <1>2, <2>1, MeetingReturns, MeetingRests
<1> QED  BY <1>1, <1>2 DEF InsertRow

LEMMA UpdateConnectionKept ==
    ASSUME Shape, MeetingInv, NEW w \in Slots, Moves(w, MeetingOps), UNCHANGED removalVars,
           UpdateConnection(w)
    PROVE  MeetingInv'
<1>1. PICK new, goal, selected :
        new = call[w].new /\ goal = call[w].goal /\ selected = call[w].selected
  OBVIOUS
<1>2. /\ call[w].op = "updateConnection"
      /\ MeetingFits(call[w], meeting, event, connection, revision)
      /\ UNCHANGED <<meeting, event, interrupted>>
  BY DEF UpdateConnection, MeetingInv
<1>3. /\ new.email \in Accounts /\ new.token \in Accounts
      /\ goal.do \in {"connect", "create", "cancel"} /\ GoalFits(goal, meeting)
      /\ NewFits(new, goal, connection, revision)
  BY <1>1, <1>2, NewIsNamed
<1>4. CASE InsertRow(w, call[w].id)
  BY <1>2, <1>4, RowInsertedKept DEF MeetingFits
<1>5. CASE /\ connection # Off /\ selected # Off
           /\ Saved(w, Updated(connection, new, selected))
  <2>1. PICK row : row = Updated(connection, new, selected)
    OBVIOUS
  <2>2. /\ row \in Connections /\ row.token = new.token
        /\ row.email = IF selected = new.email THEN connection.email ELSE new.email
    BY <1>3, <1>5, <2>1 DEF Updated, MeetingInv, MeetingTypeOK, Connections
  <2>3. new.since = revision => connection.email = selected
    BY <1>1, <1>2, <1>5 DEF MeetingFits
  <2>4. row.email = new.email \/ (new.since = revision => FALSE)
    BY <2>2, <2>3
  <2> QED  BY <1>1, <1>2, <1>5, <2>1, <2>2, <2>4, SavedKept
<1>6. CASE GoOn(w, WithToken(new.token, goal)) /\ UNCHANGED connectionVars
  <2>1. PICK c : c = WithToken(new.token, goal)
    OBVIOUS
  <2>2. call'[w] = c
    BY <1>6, <2>1, Makes
  <2>3. /\ MeetingFits(c, meeting, event, connection, revision)
        /\ c.op \in {"idle", "createEvent", "deleteEvent"}
    BY <1>3, <2>1, TokenFits
  <2>4. UNCHANGED meetingVars
    BY <1>2, <1>6 DEF meetingVars
  <2> QED  BY <1>2, <2>2, <2>3, <2>4, MeetingRests
<1> QED  BY <1>1, <1>4, <1>5, <1>6 DEF UpdateConnection

LEMMA InsertConnectionKept ==
    ASSUME Shape, MeetingInv, NEW w \in Slots, Moves(w, MeetingOps), UNCHANGED removalVars,
           InsertConnection(w)
    PROVE  MeetingInv'
<1>1. PICK id \in Nat : id = revision + 1
  BY DEF MeetingInv, MeetingTypeOK
<1> QED  BY <1>1, RowInsertedKept DEF InsertConnection

LEMMA DeleteConnectionKept ==
    ASSUME Shape, MeetingInv, NEW w \in Slots, Moves(w, MeetingOps), UNCHANGED removalVars,
           DeleteConnection(w)
    PROVE  MeetingInv'
<1>1. /\ connection' = Off /\ chosen' = Off /\ crossed' = FALSE
      /\ revision' = revision + 1 /\ UNCHANGED <<meeting, event, interrupted, item>>
      /\ call[w].op = "deleteConnection"
  BY DEF DeleteConnection, removalVars
<1>2. /\ MeetingFits(call'[w], meeting', event', connection', revision')
      /\ call'[w].op = "idle"
  BY MeetingReturns DEF DeleteConnection
<1>3. \A v \in Slots : MeetingFits(call'[v], meeting', event', connection', revision')
  <2>1. Follows(connection, revision, connection', revision')
    BY <1>1 DEF Follows
  <2>2. \A v \in Slots : call[v].op = "saveMeeting" =>
            meeting'[call[v].meeting] = Off /\ event'[call[v].meeting] # Off
    BY <1>1 DEF MeetingInv, MeetingFits
  <2> QED  BY <1>1, <1>2, <2>1, <2>2, MeetingKeeps
<1>4. MeetingsApart'
  BY <1>2 DEF MeetingInv, MeetingsApart, Moves
<1>5. \A m : Cancelling(m) => Cancelling(m)'
  BY <1>1 DEF Cancelling, Moves
<1>6. ScheduledIsOnCalendar' /\ ScheduledWithSomebody'
  BY <1>1, <1>5 DEF MeetingInv, ScheduledIsOnCalendar, ScheduledWithSomebody, Scheduled
<1>7. KeptAsChosen'
  BY <1>1 DEF KeptAsChosen
<1>8. MeetingTypeOK'
  <2>1. revision' \in Nat
    BY <1>1 DEF MeetingInv, MeetingTypeOK
  <2>2. crossed' \in BOOLEAN
    <3>1. crossed' = FALSE
      BY <1>1
    <3> QED  BY <3>1
  <2> QED  BY <1>1, <2>1, <2>2 DEF MeetingInv, MeetingTypeOK
<1> QED  BY <1>3, <1>4, <1>6, <1>7, <1>8 DEF MeetingInv

LEMMA ExpireKept ==
    ASSUME MeetingInv, Expire, UNCHANGED call, UNCHANGED removalVars
    PROVE  MeetingInv'
<1>1. PICK row : row = [connection EXCEPT !.fresh = FALSE]
  OBVIOUS
<1>2. /\ connection # Off /\ connection' = row
      /\ UNCHANGED <<revision, chosen, crossed, meeting, event, interrupted, item>>
  BY <1>1 DEF Expire, removalVars
<1>3. row \in Connections /\ row.email = connection.email /\ row.token = connection.token
  BY <1>1, <1>2 DEF MeetingInv, MeetingTypeOK, Connections
<1>4. row # Off
  BY <1>3, MeetingAssumption
<1>5. Follows(connection, revision, row, revision)
  BY <1>2, <1>3, <1>4 DEF Follows
<1>6. \A v \in Slots : MeetingFits(call[v], meeting, event, row, revision)
  BY <1>5, ConnectionLater DEF MeetingInv, MeetingTypeOK
<1>7. \A m : Cancelling(m)' <=> Cancelling(m)
  BY DEF Cancelling
<1>8. ScheduledIsOnCalendar' /\ ScheduledWithSomebody' /\ MeetingsApart'
  BY <1>2, <1>7 DEF MeetingInv, ScheduledIsOnCalendar, ScheduledWithSomebody, Scheduled,
                    MeetingsApart
<1>9. MeetingTypeOK' /\ KeptAsChosen'
  BY <1>2, <1>3, <1>4 DEF MeetingInv, MeetingTypeOK, KeptAsChosen
<1> QED  BY <1>2, <1>6, <1>8, <1>9 DEF MeetingInv
-----------------------------------------------------------------------------
\* Events are created before their meetings are saved, and deleted before
\* they are cancelled.

LEMMA CreateEventKept ==
    ASSUME Shape, MeetingInv, NEW w \in Slots, Moves(w, MeetingOps), UNCHANGED removalVars,
           CreateEvent(w)
    PROVE  MeetingInv'
<1>1. PICK m \in Unused : m = CHOOSE n \in Unused : TRUE
  BY DEF CreateEvent
<1>2. PICK login, goal : login = call[w].account /\ goal = call[w].goal
  OBVIOUS
<1>3. /\ m \in MeetingIds /\ meeting[m] = Off /\ event[m] = Off
      /\ call[w].op = "createEvent"
      /\ UNCHANGED <<connectionVars, meeting, interrupted>>
  BY <1>1 DEF Unused, CreateEvent
<1>4. login \in Accounts /\ goal.do = "create" /\ goal.item \in Items
  <2>1. MeetingFits(call[w], meeting, event, connection, revision)
    BY DEF MeetingInv
  <2> QED  BY <1>2, <1>3, <2>1 DEF MeetingFits, GoalFits
<1>5. CASE Return(w) /\ UNCHANGED event
  <2>1. UNCHANGED meetingVars
    BY <1>3, <1>5 DEF meetingVars
  <2> QED  BY <1>3, <1>5, <2>1, MeetingReturns, MeetingRests
<1>6. CASE /\ event' = [event EXCEPT ![m] = login]
           /\ \/ GoOn(w, [op |-> "saveMeeting", meeting |-> m, goal |-> goal])
              \/ Return(w)
  <2>1. UNCHANGED <<connection, revision, chosen, crossed, meeting, interrupted, item>>
    BY <1>3 DEF connectionVars, removalVars
  <2>2. /\ event' \in [MeetingIds -> Accounts \cup {Off}] /\ event'[m] # Off
        /\ \A n \in MeetingIds : event[n] # Off => n # m /\ event'[n] # Off
    BY <1>3, <1>4, <1>6, MeetingAssumption DEF MeetingInv, MeetingTypeOK
  <2>3. \A v \in Slots : call[v].op = "saveMeeting" =>
            /\ call[v].meeting \in MeetingIds /\ call[v].meeting # m
            /\ meeting'[call[v].meeting] = Off /\ event'[call[v].meeting] # Off
    BY <2>1, <2>2 DEF MeetingInv, MeetingFits
  <2>4. /\ MeetingFits(call'[w], meeting', event', connection', revision')
        /\ call'[w].op = "saveMeeting" => call'[w].meeting = m
    <3>1. CASE GoOn(w, [op |-> "saveMeeting", meeting |-> m, goal |-> goal])
      <4>1. call'[w] = [op |-> "saveMeeting", meeting |-> m, goal |-> goal]
        BY <3>1, Makes
      <4>2. meeting'[m] = Off /\ event'[m] # Off
        BY <1>3, <2>1, <2>2
      <4> QED  BY <1>3, <1>4, <4>1, <4>2 DEF MeetingFits, GoalOps
    <3>2. CASE Return(w)
      BY <3>2, MeetingReturns
    <3> QED  BY <1>6, <3>1, <3>2
  <2>5. \A v \in Slots : MeetingFits(call'[v], meeting', event', connection', revision')
    <3>1. Follows(connection, revision, connection', revision')
      BY <2>1 DEF Follows
    <3> QED  BY <2>1, <2>3, <2>4, <3>1, MeetingKeeps
  <2>6. MeetingsApart'
    <3>1. \A v \in Slots : v # w => call'[v] = call[v]
      BY DEF Moves
    <3> QED  BY <2>3, <2>4, <3>1 DEF MeetingInv, MeetingsApart
  <2>7. \A n : Cancelling(n) => Cancelling(n)'
    BY <1>3 DEF Cancelling, Moves
  <2>8. ScheduledIsOnCalendar' /\ ScheduledWithSomebody'
    BY <2>1, <2>2, <2>7
    DEF MeetingInv, ScheduledIsOnCalendar, ScheduledWithSomebody, Scheduled
  <2>9. MeetingTypeOK' /\ KeptAsChosen'
    BY <2>1, <2>2 DEF MeetingInv, MeetingTypeOK, KeptAsChosen
  <2> QED  BY <2>5, <2>6, <2>8, <2>9 DEF MeetingInv
<1> QED  BY <1>1, <1>2, <1>5, <1>6 DEF CreateEvent

LEMMA DeleteEventKept ==
    ASSUME Shape, MeetingInv, NEW w \in Slots, Moves(w, MeetingOps), UNCHANGED removalVars,
           DeleteEvent(w)
    PROVE  MeetingInv'
<1>1. PICK m, goal : m = call[w].goal.meeting /\ goal = call[w].goal
  OBVIOUS
<1>2. call[w].op = "deleteEvent" /\ UNCHANGED <<connectionVars, meeting, interrupted>>
  BY DEF DeleteEvent
<1>3. m \in MeetingIds /\ meeting[m] # Off
  <2>1. MeetingFits(call[w], meeting, event, connection, revision)
    BY DEF MeetingInv
  <2> QED  BY <1>1, <1>2, <2>1 DEF MeetingFits, GoalFits
<1>4. CASE Return(w) /\ UNCHANGED event
  <2>1. UNCHANGED meetingVars
    BY <1>2, <1>4 DEF meetingVars
  <2> QED  BY <1>2, <1>4, <2>1, MeetingReturns, MeetingRests
<1>5. CASE /\ event' = IF event[m] = call[w].account THEN [event EXCEPT ![m] = Off] ELSE event
           /\ GoOn(w, [op |-> "saveCancelled", meeting |-> m, goal |-> goal])
  <2>1. UNCHANGED <<connection, revision, chosen, crossed, meeting, interrupted, item>>
    BY <1>2 DEF connectionVars, removalVars
  <2>2. /\ event' \in [MeetingIds -> Accounts \cup {Off}]
        /\ \A n \in MeetingIds : n # m => event'[n] = event[n]
    BY <1>5 DEF MeetingInv, MeetingTypeOK
  <2>3. call'[w] = [op |-> "saveCancelled", meeting |-> m, goal |-> goal]
    BY <1>5, Makes
  <2>4. \A v \in Slots : call[v].op = "saveMeeting" =>
            meeting'[call[v].meeting] = Off /\ event'[call[v].meeting] # Off
    BY <1>3, <2>1, <2>2 DEF MeetingInv, MeetingFits
  <2>5. \A v \in Slots : MeetingFits(call'[v], meeting', event', connection', revision')
    <3>1. Follows(connection, revision, connection', revision')
      BY <2>1 DEF Follows
    <3>2. goal.do \in {"connect", "create", "cancel"} /\ GoalFits(goal, meeting)
      BY <1>1, <1>2 DEF MeetingInv, MeetingFits
    <3>3. MeetingFits(call'[w], meeting', event', connection', revision')
      BY <1>3, <2>1, <2>3, <3>2 DEF MeetingFits, GoalOps
    <3> QED  BY <2>1, <2>4, <3>1, <3>3, MeetingKeeps
  <2>6. MeetingsApart'
    BY <2>3 DEF MeetingInv, MeetingsApart, Moves
  <2>7. \A n : Cancelling(n) => Cancelling(n)'
    BY <1>2 DEF Cancelling, Moves
  <2>8. Cancelling(m)'
    BY <2>3 DEF Cancelling
  <2>9. ScheduledIsOnCalendar' /\ ScheduledWithSomebody'
    BY <2>1, <2>2, <2>7, <2>8
    DEF MeetingInv, ScheduledIsOnCalendar, ScheduledWithSomebody, Scheduled
  <2>10. MeetingTypeOK' /\ KeptAsChosen'
    BY <2>1, <2>2 DEF MeetingInv, MeetingTypeOK, KeptAsChosen
  <2> QED  BY <2>5, <2>6, <2>9, <2>10 DEF MeetingInv
<1> QED  BY <1>1, <1>4, <1>5 DEF DeleteEvent

LEMMA SaveMeetingKept ==
    ASSUME Shape, MeetingInv, NEW w \in Slots, Moves(w, MeetingOps), UNCHANGED removalVars,
           SaveMeeting(w)
    PROVE  MeetingInv'
<1>1. PICK m, i : m = call[w].meeting /\ i = call[w].goal.item
  OBVIOUS
<1>2. /\ m \in MeetingIds /\ i \in Items /\ meeting[m] = Off /\ event[m] # Off
      /\ call[w].op = "saveMeeting"
  <2>1. MeetingFits(call[w], meeting, event, connection, revision)
    BY DEF MeetingInv
  <2> QED  BY <1>1, <2>1 DEF MeetingFits, SaveMeeting
<1>3. PICK row : row = [prospect |-> i, status |-> "scheduled"]
  OBVIOUS
<1>4. /\ meeting' = IF item[i] = "live" THEN [meeting EXCEPT ![m] = row] ELSE meeting
      /\ UNCHANGED <<connection, revision, chosen, crossed, event, interrupted, item>>
  BY <1>1, <1>3 DEF SaveMeeting, connectionVars, removalVars
<1>5. row \in MeetingRows /\ row # Off /\ row.prospect = i
  BY <1>2, <1>3, MeetingAssumption DEF MeetingRows
<1>6. /\ meeting' \in [MeetingIds -> MeetingRows \cup {Off}]
      /\ \A n \in MeetingIds : n # m => meeting'[n] = meeting[n]
      /\ meeting'[m] = Off \/ (item[i] = "live" /\ meeting'[m] = row)
  BY <1>2, <1>4, <1>5 DEF MeetingInv, MeetingTypeOK
<1>7. \A v \in Slots : (v # w /\ call[v].op = "saveMeeting") =>
          meeting'[call[v].meeting] = Off /\ event'[call[v].meeting] # Off
  BY <1>1, <1>2, <1>4, <1>6 DEF MeetingInv, MeetingsApart, MeetingFits
<1>8. /\ MeetingFits(call'[w], meeting', event', connection', revision')
      /\ call'[w].op = "idle"
  BY MeetingReturns DEF SaveMeeting
<1>9. \A v \in Slots : MeetingFits(call'[v], meeting', event', connection', revision')
  <2>1. Follows(connection, revision, connection', revision')
    BY <1>4 DEF Follows
  <2>2. \A n \in MeetingIds : meeting[n] # Off => meeting'[n] # Off
    BY <1>2, <1>6
  <2> QED  BY <1>7, <1>8, <2>1, <2>2, MeetingKeeps
<1>10. MeetingsApart'
  BY <1>8 DEF MeetingInv, MeetingsApart, Moves
<1>11. \A n : Cancelling(n) => Cancelling(n)'
  BY <1>2 DEF Cancelling, Moves
<1>12. ScheduledIsOnCalendar'
  BY <1>2, <1>4, <1>6, <1>11 DEF MeetingInv, ScheduledIsOnCalendar, Scheduled
<1>13. ScheduledWithSomebody'
  BY <1>4, <1>5, <1>6 DEF MeetingInv, ScheduledWithSomebody, Scheduled
<1>14. MeetingTypeOK' /\ KeptAsChosen'
  BY <1>4, <1>6 DEF MeetingInv, MeetingTypeOK, KeptAsChosen
<1> QED  BY <1>9, <1>10, <1>12, <1>13, <1>14 DEF MeetingInv

LEMMA SaveCancelledKept ==
    ASSUME Shape, MeetingInv, NEW w \in Slots, Moves(w, MeetingOps), UNCHANGED removalVars,
           SaveCancelled(w)
    PROVE  MeetingInv'
<1>1. PICK m : m = call[w].meeting
  OBVIOUS
<1>2. m \in MeetingIds /\ meeting[m] # Off /\ call[w].op = "saveCancelled"
  <2>1. MeetingFits(call[w], meeting, event, connection, revision)
    BY DEF MeetingInv
  <2> QED  BY <1>1, <2>1 DEF MeetingFits, SaveCancelled
<1>3. PICK row : row = [meeting[m] EXCEPT !.status = "cancelled"]
  OBVIOUS
<1>4. row \in MeetingRows /\ row.status = "cancelled" /\ row # Off
  BY <1>2, <1>3, MeetingAssumption DEF MeetingInv, MeetingTypeOK, MeetingRows
<1>5. /\ \/ meeting' = [meeting EXCEPT ![m] = row] /\ interrupted' = interrupted \ {m}
         \/ (item[meeting[m].prospect] # "live" /\ UNCHANGED <<meeting, interrupted>>)
      /\ UNCHANGED <<connection, revision, chosen, crossed, event, item>>
  BY <1>1, <1>3 DEF SaveCancelled, connectionVars, removalVars
<1>6. /\ meeting' \in [MeetingIds -> MeetingRows \cup {Off}]
      /\ \A n \in MeetingIds : n # m => /\ meeting'[n] = meeting[n]
                                        /\ n \in interrupted => n \in interrupted'
      /\ meeting'[m] # Off
      /\ meeting'[m].status # "scheduled"
      /\ interrupted' \subseteq MeetingIds
  BY <1>2, <1>4, <1>5 DEF MeetingInv, MeetingTypeOK, ScheduledWithSomebody, Scheduled
<1>7. \A v \in Slots : (v # w /\ call[v].op = "saveMeeting") =>
          meeting'[call[v].meeting] = Off /\ event'[call[v].meeting] # Off
  BY <1>2, <1>5, <1>6 DEF MeetingInv, MeetingFits
<1>8. /\ MeetingFits(call'[w], meeting', event', connection', revision')
      /\ call'[w].op = "idle"
  BY MeetingReturns DEF SaveCancelled
<1>9. \A v \in Slots : MeetingFits(call'[v], meeting', event', connection', revision')
  <2>1. Follows(connection, revision, connection', revision')
    BY <1>5 DEF Follows
  <2>2. \A n \in MeetingIds : meeting[n] # Off => meeting'[n] # Off
    BY <1>2, <1>6
  <2> QED  BY <1>7, <1>8, <2>1, <2>2, MeetingKeeps
<1>10. MeetingsApart'
  BY <1>8 DEF MeetingInv, MeetingsApart, Moves
<1>11. \A n : (n # m /\ Cancelling(n)) => Cancelling(n)'
  BY <1>1 DEF Cancelling, Moves
<1>12. ScheduledIsOnCalendar' /\ ScheduledWithSomebody'
  BY <1>5, <1>6, <1>11
  DEF MeetingInv, ScheduledIsOnCalendar, ScheduledWithSomebody, Scheduled
<1>13. MeetingTypeOK' /\ KeptAsChosen'
  BY <1>5, <1>6 DEF MeetingInv, MeetingTypeOK, KeptAsChosen
<1> QED  BY <1>9, <1>10, <1>12, <1>13 DEF MeetingInv

LEMMA MeetingStepKept ==
    ASSUME Shape, MeetingInv, NEW w \in Slots, Moves(w, MeetingOps), UNCHANGED removalVars,
           MeetingStep(w)
    PROVE  MeetingInv'
BY MeetingBegunKept, MeetingLookKept, InsertConnectionKept, UpdateConnectionKept,
   DeleteConnectionKept, CreateEventKept, SaveMeetingKept, DeleteEventKept,
   SaveCancelledKept DEF MeetingStep
-----------------------------------------------------------------------------
\* The other parts' steps

LEMMA OthersMeet ==
    ASSUME MeetingInv, Elsewhere(MeetingOps), UNCHANGED <<connectionVars, event, interrupted>>,
           meeting' \in [MeetingIds -> MeetingRows \cup {Off}],
           \A m \in MeetingIds : meeting[m] = Off <=> meeting'[m] = Off,
           \A m \in MeetingIds : Scheduled(m)' =>
               /\ Scheduled(m) /\ meeting'[m] = meeting[m]
               /\ item'[meeting[m].prospect] = "live"
    PROVE  MeetingInv'
<1>1. UNCHANGED <<connection, revision, chosen, crossed, event, interrupted>>
  BY DEF connectionVars
<1>2. \A v \in Slots : \/ call'[v] = call[v]
                       \/ call[v].op \notin MeetingOps /\ call'[v].op \notin MeetingOps
  BY DEF Elsewhere
<1>3. \A v \in Slots : MeetingFits(call'[v], meeting', event', connection', revision')
  <2>1. ASSUME NEW v \in Slots, call'[v] = call[v]
        PROVE  MeetingFits(call'[v], meeting', event', connection', revision')
    <3>1. PICK c, table, events : c = call[v] /\ c = call'[v] /\ table = meeting' /\ events = event'
      BY <2>1
    <3>2. MeetingFits(c, meeting, event, connection, revision)
      BY <3>1 DEF MeetingInv
    <3>3. c.op = "saveMeeting" => table[c.meeting] = Off /\ events[c.meeting] # Off
      BY <1>1, <3>1, <3>2 DEF MeetingFits
    <3>4. MeetingFits(c, table, events, connection, revision)
      BY <3>1, <3>2, <3>3, RowsLater
    <3> QED  BY <1>1, <3>1, <3>4
  <2>2. ASSUME NEW v \in Slots, call'[v].op \notin MeetingOps
        PROVE  MeetingFits(call'[v], meeting', event', connection', revision')
    BY <2>2 DEF MeetingFits, MeetingOps, GoalOps
  <2> QED  BY <1>2, <2>1, <2>2
<1>4. MeetingsApart'
  BY <1>2 DEF MeetingInv, MeetingsApart, MeetingOps, GoalOps
<1>5. \A m : Cancelling(m) => Cancelling(m)'
  BY <1>2 DEF Cancelling, MeetingOps, GoalOps
<1>6. ScheduledIsOnCalendar' /\ ScheduledWithSomebody'
  BY <1>1, <1>5 DEF MeetingInv, ScheduledIsOnCalendar, ScheduledWithSomebody
<1>7. MeetingTypeOK' /\ KeptAsChosen'
  BY <1>1 DEF MeetingInv, MeetingTypeOK, KeptAsChosen
<1> QED  BY <1>3, <1>4, <1>6, <1>7 DEF MeetingInv

LEMMA CascadeKept ==
    ASSUME Shape, RemovalInv, MeetingInv, NEW w \in Slots, Removes(w), MeetingsCascade,
           Elsewhere(MeetingOps)
    PROVE  MeetingInv'
<1>1. ASSUME NEW m \in MeetingIds
      PROVE  /\ meeting[m] = Off <=> meeting'[m] = Off
             /\ meeting'[m] \in MeetingRows \cup {Off}
             /\ Scheduled(m)' => /\ Scheduled(m) /\ meeting'[m] = meeting[m]
                                 /\ item'[meeting[m].prospect] = "live"
  <2>1. meeting'[m] = IF meeting[m] # Off /\ item'[meeting[m].prospect] = "gone"
                      THEN [meeting[m] EXCEPT !.status = "deleted"] ELSE meeting[m]
    BY DEF MeetingsCascade
  <2>2. meeting[m] \in MeetingRows \cup {Off} /\ Off \notin MeetingRows
    BY MeetingAssumption DEF MeetingInv, MeetingTypeOK
  <2>3. CASE meeting[m] # Off /\ item'[meeting[m].prospect] = "gone"
    <3>1. PICK row : row = [meeting[m] EXCEPT !.status = "deleted"]
      OBVIOUS
    <3>2. row \in MeetingRows /\ row.status = "deleted"
      BY <2>2, <2>3, <3>1 DEF MeetingRows
    <3> QED  BY <2>1, <2>2, <2>3, <3>1, <3>2 DEF Scheduled
  <2>4. CASE ~(meeting[m] # Off /\ item'[meeting[m].prospect] = "gone")
    <3>1. meeting'[m] = meeting[m]
      BY <2>1, <2>4
    <3>2. Scheduled(m) => item'[meeting[m].prospect] = "live"
      <4>1. ASSUME Scheduled(m)
            PROVE  item'[meeting[m].prospect] \in {"live", "gone"}
        <5>1. PICK i \in Items : i = meeting[m].prospect
          BY <2>2, <4>1 DEF Scheduled, MeetingRows
        <5> QED  BY <4>1, <5>1, ItemsStay DEF MeetingInv, ScheduledWithSomebody
      <4> QED  BY <2>4, <4>1 DEF Scheduled
    <3> QED  BY <2>2, <3>1, <3>2 DEF Scheduled
  <2> QED  BY <2>3, <2>4
<1>2. meeting' \in [MeetingIds -> MeetingRows \cup {Off}]
  BY <1>1 DEF MeetingsCascade
<1>3. UNCHANGED <<connectionVars, event, interrupted>>
  BY DEF MeetingsCascade
<1> QED  BY <1>1, <1>2, <1>3, OthersMeet

LEMMA PlansMeet ==
    ASSUME Shape, RemovalInv, MeetingInv, NEW w \in Slots, PlanStep(w),
           UNCHANGED meetingVars, Elsewhere(MeetingOps)
    PROVE  MeetingInv'
<1>1. UNCHANGED <<connectionVars, meeting, event, interrupted>>
  BY DEF meetingVars
<1>2. ASSUME NEW m \in MeetingIds, Scheduled(m)'
      PROVE  Scheduled(m) /\ item'[meeting[m].prospect] = "live"
  <2>1. Scheduled(m)
    BY <1>1, <1>2 DEF Scheduled
  <2>2. PICK i \in Items : i = meeting[m].prospect
    BY <2>1 DEF Scheduled, MeetingInv, MeetingTypeOK, MeetingRows
  <2> QED  BY <2>1, <2>2, ItemsStay DEF MeetingInv, ScheduledWithSomebody
<1> QED  BY <1>1, <1>2, OthersMeet DEF MeetingInv, MeetingTypeOK

LEMMA MeetingsInterruptedKept ==
    ASSUME MeetingInv, NEW ended \in SUBSET Slots, MeetingsInterrupted(ended),
           Ends(ended), UNCHANGED removalVars
    PROVE  MeetingInv'
<1>1. /\ UNCHANGED <<connection, revision, chosen, crossed, meeting, event, item>>
      /\ \A m : m \in interrupted' <=>
            \/ m \in interrupted
            \/ \E v \in ended : call[v].op = "saveCancelled" /\ call[v].meeting = m
  BY DEF MeetingsInterrupted, connectionVars, removalVars
<1>2. /\ \A v \in ended : call'[v] = Idle
      /\ \A v \in Slots \ ended : call'[v] = call[v]
  BY DEF Ends
<1>3. \A m : Cancelling(m) => Cancelling(m)' \/ m \in interrupted'
  BY <1>1, <1>2 DEF Cancelling
<1>4. interrupted' \subseteq MeetingIds
  <2>1. \A v \in Slots : call[v].op = "saveCancelled" => call[v].meeting \in MeetingIds
    BY DEF MeetingInv, MeetingFits
  <2> QED  BY <1>1, <2>1 DEF MeetingInv, MeetingTypeOK
<1>5. ScheduledIsOnCalendar' /\ ScheduledWithSomebody'
  BY <1>1, <1>3 DEF MeetingInv, ScheduledIsOnCalendar, ScheduledWithSomebody, Scheduled
<1>6. MeetingTypeOK' /\ KeptAsChosen'
  BY <1>1, <1>4 DEF MeetingInv, MeetingTypeOK, KeptAsChosen
<1>7. \A v \in Slots : MeetingFits(call'[v], meeting', event', connection', revision')
  <2>1. MeetingFits(Idle, meeting, event, connection, revision)
    BY DEF MeetingFits, Idle, GoalOps
  <2> QED  BY <1>1, <1>2, <2>1 DEF MeetingInv
<1>8. MeetingsApart'
  BY <1>2 DEF MeetingInv, MeetingsApart, Idle
<1> QED  BY <1>5, <1>6, <1>7, <1>8 DEF MeetingInv

LEMMA MeetingNext ==
    ASSUME Shape, RemovalInv, MeetingInv, [Next]_vars
    PROVE  MeetingInv'
<1>1. ASSUME UNCHANGED meetingVars, UNCHANGED removalVars, Elsewhere(MeetingOps)
      PROVE  MeetingInv'
  <2>1. UNCHANGED <<connectionVars, meeting, event, interrupted, item>>
    BY <1>1 DEF meetingVars, removalVars
  <2>2. \A m \in MeetingIds : Scheduled(m)' =>
            Scheduled(m) /\ item'[meeting[m].prospect] = "live"
    BY <2>1 DEF MeetingInv, ScheduledWithSomebody, Scheduled
  <2> QED  BY <1>1, <2>1, <2>2, OthersMeet DEF MeetingInv, MeetingTypeOK
<1> QED  BY <1>1, MeetingApart, MeetingStepKept, CascadeKept, PlansMeet, ExpireKept,
            MeetingsInterruptedKept

LEMMA MeetingStart ==
    ASSUME Init
    PROVE  MeetingInv
<1>1. \A w \in Slots : call[w].op = "idle"
  BY DEF Init, SlotsInit, Idle
<1>2. PICK i \in Items : i = FirstOf("prospects") /\ Kind[i] = "prospects"
  <2>1. {i \in Items : Kind[i] = "prospects"} # {}
    BY WorkspaceAssumption
  <2>2. First({i \in Items : Kind[i] = "prospects"}) \in {i \in Items : Kind[i] = "prospects"}
    BY <2>1 DEF First
  <2> QED  BY <2>2 DEF FirstOf
<1>3. item[i] = "live"
  BY <1>2 DEF Init, RemovalInit
<1>4. PICK m \in MeetingIds : m = First(MeetingIds)
  BY WorkspaceAssumption DEF First
<1>5. PICK row, conn : /\ row = [prospect |-> i, status |-> "scheduled"]
                       /\ conn = [id |-> 1, email |-> FirstAccount,
                                  token |-> FirstAccount, fresh |-> TRUE]
  OBVIOUS
<1>6. /\ row \in MeetingRows /\ conn \in Connections /\ FirstAccount \in Accounts
      /\ row # Off /\ FirstAccount # Off /\ conn # Off
  <2>1. FirstAccount \in Accounts
    BY WorkspaceAssumption
  <2>2. row \in MeetingRows
    BY <1>5 DEF MeetingRows
  <2>3. conn \in Connections
    BY <1>5, <2>1 DEF Connections
  <2> QED  BY <2>1, <2>2, <2>3, MeetingAssumption
<1>7. /\ connection = conn /\ revision = 1 /\ chosen = FirstAccount
      /\ crossed = FALSE /\ interrupted = {}
      /\ event = [x \in MeetingIds |-> IF x = m THEN FirstAccount ELSE Off]
      /\ meeting = [x \in MeetingIds |-> IF x = m THEN row ELSE Off]
  BY <1>2, <1>4, <1>5 DEF Init, MeetingInit
<1>8. MeetingTypeOK
  BY <1>4, <1>6, <1>7 DEF MeetingTypeOK
<1>9. ScheduledIsOnCalendar /\ ScheduledWithSomebody
  BY <1>3, <1>4, <1>5, <1>6, <1>7 DEF ScheduledIsOnCalendar, ScheduledWithSomebody, Scheduled
<1>10. KeptAsChosen
  BY <1>5, <1>6, <1>7 DEF KeptAsChosen
<1> QED  BY <1>1, <1>8, <1>9, <1>10 DEF MeetingInv, MeetingFits, MeetingsApart, GoalOps

LEMMA MeetingAlways == Spec => []MeetingInv
<1>1. Init => Shape /\ RemovalInv /\ MeetingInv
  BY InitShape, RemovalStart, MeetingStart
<1>2. Shape /\ RemovalInv /\ MeetingInv /\ [Next]_vars => Shape' /\ RemovalInv' /\ MeetingInv'
  BY NextKnown, RemovalNext, MeetingNext
<1> QED  BY <1>1, <1>2, PTL DEF Spec

(***************************************************************************)
(* A meeting that is listed as scheduled is on a calendar, unless it is    *)
(* just being cancelled, or was when the save failed or the process        *)
(* stopped: for any number of meetings, accounts and overlapping requests, *)
(* and whenever prospects are deleted (meetings.service.ts, create and     *)
(* cancel).                                                                *)
(***************************************************************************)
THEOREM MeetingsAreOnCalendars == Spec => []ScheduledIsOnCalendar
<1>1. MeetingInv => ScheduledIsOnCalendar
  BY DEF MeetingInv
<1> QED  BY <1>1, MeetingAlways, PTL

(***************************************************************************)
(* The connection names the account the member last chose, and its tokens  *)
(* are for it, unless a handler saved it that had begun before it was      *)
(* changed (persistConnection), for any number of accounts and requests.   *)
(***************************************************************************)
THEOREM ChoiceIsKept == Spec => []KeptAsChosen
<1>1. MeetingInv => KeptAsChosen
  BY DEF MeetingInv
<1> QED  BY <1>1, MeetingAlways, PTL

-----------------------------------------------------------------------------
(* Lists.  A number that was read, as long as the rows have not changed    *)
(* since and no overlap has spoilt it, is the number of rows.  The rows    *)
(* of a request are told apart by what it brings.                          *)

Adding == {"createList", "findMember", "findMembers", "insertRows"}

StoredRows == [list : ListIds, email : Contacts, brought : Nat]

ListTyped ==
    /\ calls \in Nat
    /\ made \subseteq ListIds /\ mixed \subseteq ListIds
    /\ count \in [ListIds -> Nat]
    /\ changes \in [ListIds -> Nat]
    /\ rows \subseteq StoredRows
    /\ \A r \in rows : r.list \in made /\ r.brought <= calls
    /\ \A l \in ListIds : IsFiniteSet(RowsOf(l))

\* from and at: what a handler read of l
StillCounts(l, from, at) ==
    /\ l \in made /\ from \in Nat /\ at \in Nat /\ at <= changes[l]
    /\ (at = changes[l] /\ l \notin mixed) => from = Cardinality(RowsOf(l))

ListFits(c) ==
    /\ c.op \in Adding =>
         /\ {"emails", "brought"} \subseteq DOMAIN c
         /\ c.emails \subseteq Contacts /\ c.brought \in 1..calls
         /\ \A r \in rows : r.brought # c.brought
    /\ c.op \in Adding \ {"createList"} =>
         {"list", "from", "at"} \subseteq DOMAIN c /\ StillCounts(c.list, c.from, c.at)
    /\ c.op \in {"findRow", "deleteRow"} =>
         /\ {"row", "from", "at"} \subseteq DOMAIN c
         /\ c.row \in StoredRows /\ StillCounts(c.row.list, c.from, c.at)
    /\ (c.op = "deleteRow" /\ c.at = changes[c.row.list]) => c.row \in rows

\* No two handlers bring the same.
BroughtApart ==
    \A v, w \in Slots :
        (/\ call[v].op \in Adding /\ call[w].op \in Adding
         /\ call[v].brought = call[w].brought) => v = w

ListInv ==
    /\ ListTyped
    /\ \A w \in Slots : ListFits(call[w])
    /\ BroughtApart
    /\ CountsAddUp

LEMMA ListApart ==
    ASSUME Shape, [Next]_vars
    PROVE  \/ \E w \in Slots : ListStep(w) /\ Moves(w, ListOps)
           \/ /\ UNCHANGED listVars /\ calls' \in {calls, calls + 1}
              /\ \A v \in Slots : call'[v] = call[v] \/ call'[v].op \notin ListOps
<1>1. ASSUME NEW w \in Slots, NEW Ops \in AllOps, Ops # ListOps, Moves(w, Ops),
             StepOf(w, Ops)
      PROVE  /\ UNCHANGED listVars /\ Elsewhere(ListOps)
             /\ calls' \in {calls, calls + 1}
  BY <1>1, Aside, OpsDistinct DEF StepOf, Moves
<1>2. CASE CutShort
  BY <1>2, CutShortKnown DEF ListOps, Idle
<1>3. CASE Besides /\ ~CutShort
  BY <1>3 DEF Besides
<1> QED  BY <1>1, <1>2, <1>3, NextKnown, OpsDistinct DEF StepOf, Elsewhere

-----------------------------------------------------------------------------
\* Requests go on arriving; the lists are as they were.
LEMMA ListFitsLater ==
    ASSUME ListTyped, UNCHANGED listVars, calls' \in {calls, calls + 1}, NEW c, ListFits(c)
    PROVE  ListFits(c)'
<1>1. UNCHANGED <<made, count, rows, changes, mixed>>
  BY DEF listVars
<1>2. \A b : b \in 1..calls => b \in 1..calls'
  BY DEF ListTyped
<1>3. \A l, from, at : StillCounts(l, from, at)' <=> StillCounts(l, from, at)
  BY <1>1 DEF StillCounts, RowsOf
<1> QED  BY <1>1, <1>2, <1>3 DEF ListFits

LEMMA ListsStill ==
    ASSUME ListInv, UNCHANGED listVars, calls' \in {calls, calls + 1}
    PROVE  ListTyped' /\ CountsAddUp'
<1>1. UNCHANGED <<made, count, rows, changes, mixed>>
  BY DEF listVars
<1>2. \A l : RowsOf(l)' = RowsOf(l)
  BY <1>1 DEF RowsOf
<1>3. CountsAddUp'
  BY <1>1, <1>2 DEF ListInv, CountsAddUp
<1>4. calls' \in Nat /\ \A r \in rows : r.brought <= calls'
  BY DEF ListInv, ListTyped, StoredRows
<1>5. ListTyped'
  BY <1>1, <1>2, <1>4 DEF ListInv, ListTyped
<1> QED  BY <1>3, <1>5

LEMMA ListFitsNamed ==
    ASSUME NEW v, NEW c, c = call'[v], ListFits(c)'
    PROVE  ListFits(call[v])'
BY DEF ListFits, StillCounts, RowsOf

\* A handler reads, or a request arrives with what it brings.
LEMMA ListRests ==
    ASSUME ListInv, NEW w \in Slots, Moves(w, ListOps), UNCHANGED listVars,
           NEW c, call'[w] = c, ListFits(c)',
           c.op \in Adding =>
               \/ call[w].op \in Adding /\ c.brought = call[w].brought
               \/ c.brought = calls + 1
    PROVE  ListInv'
<1>1. /\ \A v \in Slots : v # w => call'[v] = call[v]
      /\ calls' \in {calls, calls + 1}
  BY DEF Moves
<1>2. ASSUME NEW v \in Slots
      PROVE  ListFits(call[v])'
  <2>1. CASE v = w
    BY <2>1, ListFitsNamed
  <2>2. CASE v # w
    <3>1. PICK d : d = call[v] /\ d = call'[v]
      BY <1>1, <2>2
    <3>2. ListFits(d)'
      BY <1>1, <3>1, ListFitsLater DEF ListInv
    <3> QED  BY <3>1, <3>2, ListFitsNamed
  <2> QED  BY <2>1, <2>2
<1>3. \A v \in Slots : call[v].op \in Adding => call[v].brought \in 1..calls
  BY DEF ListInv, ListFits
<1>4. BroughtApart'
  BY <1>1, <1>3 DEF ListInv, ListTyped, BroughtApart
<1> QED  BY <1>1, <1>2, <1>4, ListsStill DEF ListInv

LEMMA ListReturns ==
    ASSUME Shape, NEW w \in Slots, Return(w)
    PROVE  /\ call'[w] = Idle /\ Idle.op \notin Adding
           /\ ListFits(Idle)'
BY Makes, IdleKnown DEF Return, ListFits, Adding

\* Requests for changes of lists
LEMMA ListBegunKept ==
    ASSUME Shape, ListInv, NEW w \in Slots, Moves(w, ListOps),
           \/ \E kind \in {"contact", "manual"}, emails \in SUBSET Contacts :
               CreateList(w, kind, emails)
           \/ \E l \in ListIds, emails \in SUBSET Contacts, one \in BOOLEAN :
               AddRows(w, l, emails, one)
           \/ \E r \in rows : RemoveRow(w, r)
    PROVE  ListInv'
<1>1. calls' = calls + 1 /\ UNCHANGED listVars
  BY DEF CreateList, AddRows, RemoveRow, Begin
<1>2. /\ UNCHANGED <<made, count, rows, changes, mixed>>
      /\ calls + 1 \in 1..calls' /\ \A r \in rows : r.brought # calls + 1
  BY <1>1 DEF listVars, ListInv, ListTyped, StoredRows
<1>3. \A l \in made : StillCounts(l, count[l], changes[l])
  BY DEF ListInv, ListTyped, CountsAddUp, StillCounts
<1>4. \A l, from, at : StillCounts(l, from, at) => StillCounts(l, from, at)'
  BY <1>2 DEF StillCounts, RowsOf
<1>5. ASSUME NEW kind, NEW emails \in SUBSET Contacts, CreateList(w, kind, emails)
      PROVE  ListInv'
  <2>1. PICK c : c = [op |-> "createList", kind |-> kind, emails |-> emails,
                      brought |-> calls + 1]
    OBVIOUS
  <2>2. call'[w] = c
    BY <1>5, <2>1, Makes DEF CreateList
  <2>3. ListFits(c)'
    BY <1>2, <2>1 DEF ListFits, Adding
  <2> QED  BY <1>1, <2>1, <2>2, <2>3, ListRests
<1>6. ASSUME NEW l \in ListIds, NEW emails \in SUBSET Contacts, NEW one,
             AddRows(w, l, emails, one)
      PROVE  ListInv'
  <2>1. PICK name \in {"insertRows", "findMember", "findMembers"} :
          name = IF ListKind[l] = "manual" THEN "insertRows"
                 ELSE IF one THEN "findMember" ELSE "findMembers"
    BY <1>6
  <2>2. PICK from, at, b : from = count[l] /\ at = changes[l] /\ b = calls + 1
    OBVIOUS
  <2>3. PICK c : c = [op |-> name, list |-> l, emails |-> emails, brought |-> b,
                      from |-> from, at |-> at]
    OBVIOUS
  <2>4. call'[w] = c
    BY <1>6, <2>1, <2>2, <2>3, Makes DEF AddRows
  <2>5. StillCounts(l, from, at)'
    BY <1>3, <1>4, <1>6, <2>2 DEF AddRows
  <2>6. ListFits(c)'
    BY <1>2, <2>2, <2>3, <2>5 DEF ListFits, Adding
  <2> QED  BY <1>1, <2>2, <2>3, <2>4, <2>6, ListRests
<1>7. ASSUME NEW r \in rows, RemoveRow(w, r)
      PROVE  ListInv'
  <2>1. PICK l, from, at : l = r.list /\ from = count[l] /\ at = changes[l]
    OBVIOUS
  <2>2. PICK c : c = [op |-> "findRow", row |-> r, from |-> from, at |-> at]
    OBVIOUS
  <2>3. call'[w] = c
    BY <1>7, <2>1, <2>2, Makes DEF RemoveRow
  <2>4. StillCounts(l, from, at)' /\ r \in StoredRows
    BY <1>3, <1>4, <2>1 DEF ListInv, ListTyped
  <2>5. ListFits(c)'
    BY <2>1, <2>2, <2>4 DEF ListFits, Adding
  <2> QED  BY <1>1, <2>2, <2>3, <2>5, ListRests DEF Adding
<1> QED  BY <1>5, <1>6, <1>7

LEMMA ListLookKept ==
    ASSUME Shape, ListInv, NEW w \in Slots, Moves(w, ListOps),
           FindMember(w) \/ FindMembers(w) \/ FindRow(w)
    PROVE  ListInv'
<1>1. ListFits(call[w]) /\ "op" \in DOMAIN call[w] /\ UNCHANGED listVars
  BY DEF ListInv, Shape, FindMember, FindMembers, FindRow
<1>2. calls' = calls /\ UNCHANGED <<made, count, rows, changes, mixed>>
  BY <1>1 DEF FindMember, FindMembers, FindRow, Return, GoOn, listVars
<1>3. \A c : ListFits(c) => ListFits(c)'
  BY <1>1, <1>2, ListFitsLater DEF ListInv
<1>4. CASE Return(w)
  BY <1>1, <1>4, ListReturns, ListRests
<1>5. CASE FindMember(w) /\ ~Return(w)
  <2>1. PICK c : c = [call[w] EXCEPT !.op = "insertRows"]
    OBVIOUS
  <2>2. call'[w] = c
    BY <1>5, <2>1, Makes DEF FindMember
  <2>3. /\ c.op = "insertRows" /\ DOMAIN c = DOMAIN call[w]
        /\ \A f \in DOMAIN c : f # "op" => c[f] = call[w][f]
    BY <1>1, <2>1, Renamed
  <2>4. ListFits(c) /\ c.brought = call[w].brought
    BY <1>1, <1>5, <2>3 DEF ListFits, Adding, FindMember
  <2> QED  BY <1>1, <1>3, <1>5, <2>2, <2>4, ListRests DEF FindMember, Adding
<1>6. CASE FindMembers(w)
  <2>1. PICK l, old : l = call[w].list /\ old = call[w]
    OBVIOUS
  <2>2. PICK emails, from, at : /\ emails = old.emails \ Listed(l)
                                /\ from = Cardinality(RowsOf(l)) /\ at = changes[l]
    OBVIOUS
  <2>3. PICK c : c = [old EXCEPT !.op = "insertRows", !.emails = emails,
                                 !.from = from, !.at = at]
    OBVIOUS
  <2>4. call'[w] = c
    <3>1. GoOn(w, c)
      BY <1>6, <2>1, <2>2, <2>3 DEF FindMembers
    <3> QED  BY <3>1, Makes
  <2>5. /\ {"op", "list", "emails", "brought", "from", "at"} \subseteq DOMAIN old
        /\ l \in made /\ old.emails \subseteq Contacts /\ old.brought \in 1..calls
        /\ \A r \in rows : r.brought # old.brought
    BY <1>1, <1>6, <2>1 DEF FindMembers, ListFits, Adding, StillCounts
  <2>6. /\ DOMAIN c = DOMAIN old /\ c.op = "insertRows" /\ c.emails = emails
        /\ c.from = from /\ c.at = at /\ c.list = l /\ c.brought = old.brought
    BY <2>1, <2>3, <2>5
  <2>7. StillCounts(l, from, at)
    <3>1. from \in Nat
      BY <2>2, <2>5, FS_CardinalityType DEF ListInv, ListTyped
    <3> QED  BY <2>2, <2>5, <3>1 DEF ListInv, ListTyped, StillCounts
  <2>8. ListFits(c)
    BY <2>2, <2>5, <2>6, <2>7 DEF ListFits, Adding
  <2> QED  BY <1>1, <1>3, <1>6, <2>1, <2>4, <2>6, <2>8, ListRests DEF FindMembers, Adding
<1>7. CASE FindRow(w) /\ ~Return(w)
  <2>1. PICK c : c = [call[w] EXCEPT !.op = "deleteRow"]
    OBVIOUS
  <2>2. call'[w] = c /\ call[w].row \in rows
    BY <1>7, <2>1, Makes DEF FindRow
  <2>3. /\ c.op = "deleteRow" /\ DOMAIN c = DOMAIN call[w]
        /\ \A f \in DOMAIN c : f # "op" => c[f] = call[w][f]
    BY <1>1, <2>1, Renamed
  <2>4. ListFits(c)
    BY <1>1, <1>7, <2>2, <2>3 DEF ListFits, Adding, FindRow
  <2> QED  BY <1>1, <1>3, <2>2, <2>3, <2>4, ListRests DEF Adding
<1> QED  BY <1>4, <1>5, <1>6, <1>7
-----------------------------------------------------------------------------
\* What a request brings is as many rows as it has emails.
LEMMA RowsBrought ==
    ASSUME NEW l \in ListIds, NEW emails \in SUBSET Contacts, NEW b \in Nat
    PROVE  /\ IsFiniteSet(emails) /\ IsFiniteSet(NewRows(l, emails, b))
           /\ Cardinality(NewRows(l, emails, b)) = Cardinality(emails)
           /\ Cardinality(emails) \in Nat
           /\ NewRows(l, emails, b) \subseteq StoredRows
           /\ \A r \in NewRows(l, emails, b) : r.list = l /\ r.brought = b
<1>1. IsFiniteSet(emails) /\ Cardinality(emails) \in Nat
  BY ListAssumption, FS_Subset, FS_CardinalityType
<1>2. PICK f : f = [x \in emails |-> [list |-> l, email |-> x, brought |-> b]]
  OBVIOUS
<1>3. f \in [emails -> NewRows(l, emails, b)]
  BY <1>2 DEF NewRows
<1>4. \A x, y \in emails : f[x] = f[y] => x = y
  BY <1>2
<1>5. ASSUME NEW r \in NewRows(l, emails, b)
      PROVE  \E x \in emails : f[x] = r
  <2>1. PICK x \in emails : x = r.email
    BY DEF NewRows
  <2>2. r = [list |-> l, email |-> x, brought |-> b]
    BY <2>1 DEF NewRows
  <2> QED  BY <1>2, <2>2
<1>6. f \in Bijection(emails, NewRows(l, emails, b))
  BY <1>3, <1>4, <1>5 DEF Bijection, Injection, Surjection, IsInjective
<1>7. ExistsBijection(emails, NewRows(l, emails, b))
  BY <1>6 DEF ExistsBijection
<1> QED  BY <1>1, <1>7, FS_Bijection DEF NewRows, StoredRows

\* all: the rows of l from now on, n their number if it was read in time
LEMMA CommittedKept ==
    ASSUME Shape, ListInv, NEW w \in Slots, Moves(w, ListOps), Return(w),
           NEW l \in made, NEW all, IsFiniteSet(all), all \subseteq StoredRows,
           \A r \in all :
               r.list = l /\ (r \in rows \/ (/\ call[w].op \in Adding
                                             /\ r.brought = call[w].brought)),
           NEW n \in Nat, NEW at,
           (at = changes[l] /\ l \notin mixed) => n = Cardinality(all),
           Commit(l, all, n, at)
    PROVE  ListInv'
<1>1. /\ call'[w] = Idle /\ calls' = calls
      /\ \A v \in Slots : v # w => call'[v] = call[v]
      /\ l \in ListIds
  BY ListReturns DEF Return, GoOn, Moves, ListInv, ListTyped
<1>2. /\ rows' = {r \in rows : r.list # l} \cup all
      /\ count' = [count EXCEPT ![l] = n]
      /\ changes' = [changes EXCEPT ![l] = changes[l] + 1]
      /\ mixed' = IF at = changes[l] THEN mixed ELSE mixed \cup {l}
      /\ made' = made
  BY DEF Commit
<1>3. /\ count' \in [ListIds -> Nat] /\ count'[l] = n
      /\ changes' \in [ListIds -> Nat] /\ changes'[l] = changes[l] + 1
      /\ \A k \in ListIds : k # l => count'[k] = count[k] /\ changes'[k] = changes[k]
      /\ mixed' \subseteq ListIds /\ mixed \subseteq mixed'
  BY <1>1, <1>2 DEF ListInv, ListTyped
<1>4. RowsOf(l)' = all /\ \A k : k # l => RowsOf(k)' = RowsOf(k)
  BY <1>2 DEF RowsOf
<1>5. \A r \in rows' : /\ r \in StoredRows /\ r.list \in made /\ r.brought <= calls
                       /\ r \in rows \/ (/\ call[w].op \in Adding
                                         /\ r.brought = call[w].brought)
  BY <1>2 DEF ListInv, ListTyped, ListFits, StoredRows
<1>6. ListTyped'
  BY <1>1, <1>2, <1>3, <1>4, <1>5 DEF ListInv, ListTyped
<1>7. \A k, from, read : StillCounts(k, from, read) => StillCounts(k, from, read)'
  BY <1>1, <1>2, <1>3, <1>4 DEF StillCounts, ListInv, ListTyped
<1>8. ASSUME NEW v \in Slots
      PROVE  ListFits(call[v])'
  <2>1. CASE v = w
    BY <1>1, <2>1, ListReturns, ListFitsNamed
  <2>2. CASE v # w
    <3>1. PICK d : d = call[v] /\ d = call'[v]
      BY <1>1, <2>2
    <3>2. ListFits(d)
      BY <3>1 DEF ListInv
    <3>3. d.op \in Adding => \A r \in rows' : r.brought # d.brought
      BY <1>5, <2>2, <3>1, <3>2 DEF ListInv, BroughtApart, ListFits
    <3>4. (d.op = "deleteRow" /\ d.at = changes'[d.row.list]) => d.row \in rows'
      <4>1. ASSUME d.op = "deleteRow", d.at = changes'[d.row.list]
            PROVE  d.row.list # l /\ d.row \in rows
        BY <1>1, <1>3, <3>2, <4>1 DEF ListFits, StillCounts, ListInv, ListTyped
      <4> QED  BY <1>2, <4>1
    <3>5. ListFits(d)'
      BY <1>1, <1>7, <3>2, <3>3, <3>4 DEF ListFits
    <3> QED  BY <3>1, <3>5, ListFitsNamed
  <2> QED  BY <2>1, <2>2
<1>9. BroughtApart'
  BY <1>1, ListReturns DEF ListInv, BroughtApart
<1>10. CountsAddUp'
  BY <1>2, <1>3, <1>4 DEF ListInv, ListTyped, CountsAddUp
<1> QED  BY <1>6, <1>8, <1>9, <1>10 DEF ListInv

LEMMA InsertRowsKept ==
    ASSUME Shape, ListInv, NEW w \in Slots, Moves(w, ListOps), InsertRows(w)
    PROVE  ListInv'
<1>1. PICK c, l : c = call[w] /\ l = c.list
  OBVIOUS
<1>2. /\ c.op = "insertRows" /\ Return(w) /\ ListFits(c)
  BY <1>1 DEF InsertRows, ListInv
<1>3. /\ l \in made /\ l \in ListIds /\ c.emails \subseteq Contacts /\ c.brought \in Nat
      /\ StillCounts(l, c.from, c.at) /\ \A r \in rows : r.brought # c.brought
  BY <1>1, <1>2 DEF ListFits, Adding, StillCounts, ListInv, ListTyped
<1>4. PICK new : new = NewRows(l, c.emails, c.brought)
  OBVIOUS
<1>5. /\ IsFiniteSet(new) /\ Cardinality(new) = Cardinality(c.emails)
      /\ Cardinality(c.emails) \in Nat /\ new \subseteq StoredRows
      /\ \A r \in new : r.list = l /\ r.brought = c.brought
  BY <1>3, <1>4, RowsBrought
<1>6. PICK all, n : all = RowsOf(l) \cup new /\ n = c.from + Cardinality(c.emails)
  OBVIOUS
<1>7. /\ IsFiniteSet(RowsOf(l)) /\ RowsOf(l) \subseteq rows /\ rows \subseteq StoredRows
      /\ \A r \in RowsOf(l) : r.list = l
  BY <1>3 DEF ListInv, ListTyped, RowsOf
<1>8. IsFiniteSet(all) /\ Cardinality(all) = Cardinality(RowsOf(l)) + Cardinality(new)
  <2>1. RowsOf(l) \cap new = {}
    BY <1>3, <1>5, <1>7
  <2>2. Cardinality(RowsOf(l)) \in Nat /\ Cardinality(new) \in Nat
    BY <1>5, <1>7, FS_CardinalityType
  <2>3. /\ IsFiniteSet(RowsOf(l) \cup new)
        /\ Cardinality(RowsOf(l) \cup new)
             = Cardinality(RowsOf(l)) + Cardinality(new) - Cardinality(RowsOf(l) \cap new)
    BY <1>5, <1>7, FS_Union
  <2>4. Cardinality(RowsOf(l) \cap new) = 0
    BY <2>1, FS_EmptySet
  <2> QED  BY <1>6, <2>2, <2>3, <2>4
<1>9. n \in Nat /\ ((c.at = changes[l] /\ l \notin mixed) => n = Cardinality(all))
  BY <1>3, <1>5, <1>6, <1>8 DEF StillCounts
<1>10. CASE Commit(l, all, n, c.at)
  BY <1>1, <1>2, <1>3, <1>5, <1>6, <1>7, <1>8, <1>9, <1>10, CommittedKept DEF Adding
<1>11. CASE UNCHANGED listVars
  BY <1>1, <1>2, <1>11, ListReturns, ListRests
<1> QED  BY <1>1, <1>4, <1>6, <1>10, <1>11 DEF InsertRows

LEMMA DeleteRowKept ==
    ASSUME Shape, ListInv, NEW w \in Slots, Moves(w, ListOps), DeleteRow(w)
    PROVE  ListInv'
<1>1. PICK c, row, l : c = call[w] /\ row = c.row /\ l = row.list
  OBVIOUS
<1>2. c.op = "deleteRow" /\ Return(w) /\ ListFits(c)
  BY <1>1 DEF DeleteRow, ListInv
<1>3. /\ l \in made /\ l \in ListIds /\ StillCounts(l, c.from, c.at)
      /\ c.at = changes[l] => row \in RowsOf(l)
  BY <1>1, <1>2 DEF ListFits, StillCounts, ListInv, ListTyped, RowsOf
<1>4. PICK all, n : /\ all = RowsOf(l) \ {row}
                    /\ n = IF c.from = 0 THEN 0 ELSE c.from - 1
  OBVIOUS
<1>5. /\ IsFiniteSet(RowsOf(l)) /\ RowsOf(l) \subseteq rows /\ rows \subseteq StoredRows
      /\ \A r \in RowsOf(l) : r.list = l
  BY <1>3 DEF ListInv, ListTyped, RowsOf
<1>6. /\ IsFiniteSet(all) /\ Cardinality(all) \in Nat
      /\ row \in RowsOf(l) => Cardinality(all) = Cardinality(RowsOf(l)) - 1
  BY <1>4, <1>5, FS_RemoveElement, FS_CardinalityType
<1>7. n \in Nat /\ ((c.at = changes[l] /\ l \notin mixed) => n = Cardinality(all))
  BY <1>3, <1>4, <1>6 DEF StillCounts
<1>8. Commit(l, all, n, c.at)
  BY <1>1, <1>4 DEF DeleteRow
<1> QED  BY <1>2, <1>3, <1>4, <1>5, <1>6, <1>7, <1>8, CommittedKept

LEMMA InsertListKept ==
    ASSUME Shape, ListInv, NEW w \in Slots, Moves(w, ListOps), InsertList(w)
    PROVE  ListInv'
<1>1. PICK c : c = call[w]
  OBVIOUS
<1>2. /\ c.op = "createList" /\ Return(w) /\ ListFits(c)
      /\ call'[w] = Idle /\ calls' = calls /\ \A v \in Slots : v # w => call'[v] = call[v]
  BY <1>1, ListReturns DEF InsertList, ListInv, Return, GoOn, Moves
<1>3. /\ c.emails \subseteq Contacts /\ c.brought \in Nat /\ c.brought <= calls
      /\ \A r \in rows : r.brought # c.brought
  BY <1>2 DEF ListFits, Adding, ListInv, ListTyped
<1>4. CASE UNCHANGED listVars
  BY <1>1, <1>2, <1>4, ListReturns, ListRests
<1>5. CASE ~UNCHANGED listVars
  <2>1. PICK free : free = {k \in ListIds \ made : ListKind[k] = c.kind}
    OBVIOUS
  <2>2. PICK l \in free : l = CHOOSE k \in free : TRUE
    BY <1>1, <1>5, <2>1 DEF InsertList
  <2>3. l \in ListIds /\ l \notin made
    BY <2>1, <2>2
  <2>4. PICK new, n : new = NewRows(l, c.emails, c.brought) /\ n = Cardinality(c.emails)
    OBVIOUS
  <2>5. /\ made' = made \cup {l} /\ rows' = rows \cup new
        /\ count' = [count EXCEPT ![l] = n] /\ UNCHANGED <<changes, mixed>>
    BY <1>1, <1>5, <2>1, <2>2, <2>4 DEF InsertList
  <2>6. /\ IsFiniteSet(new) /\ Cardinality(new) = n /\ n \in Nat /\ new \subseteq StoredRows
        /\ \A r \in new : r.list = l /\ r.brought = c.brought
    BY <1>3, <2>3, <2>4, RowsBrought
  <2>7. \A r \in rows : r \in StoredRows /\ r.list # l /\ r.list \in made /\ r.brought <= calls
    BY <2>3 DEF ListInv, ListTyped
  <2>8. RowsOf(l)' = new /\ \A k : k # l => RowsOf(k)' = RowsOf(k)
    BY <2>5, <2>6, <2>7 DEF RowsOf
  <2>9. /\ count' \in [ListIds -> Nat] /\ count'[l] = n
        /\ \A k \in ListIds : k # l => count'[k] = count[k]
    BY <2>3, <2>5, <2>6 DEF ListInv, ListTyped
  <2>10. \A r \in rows' : r \in StoredRows /\ r.list \in made' /\ r.brought <= calls
    BY <1>3, <2>5, <2>6, <2>7
  <2>11. ListTyped'
    BY <1>2, <2>3, <2>5, <2>6, <2>8, <2>9, <2>10 DEF ListInv, ListTyped
  <2>12. \A k, from, read : StillCounts(k, from, read) => StillCounts(k, from, read)'
    BY <2>3, <2>5, <2>8 DEF StillCounts
  <2>13. ASSUME NEW v \in Slots
         PROVE  ListFits(call[v])'
    <3>1. CASE v = w
      BY <1>2, <3>1, ListReturns, ListFitsNamed
    <3>2. CASE v # w
      <4>1. PICK d : d = call[v] /\ d = call'[v]
        BY <1>2, <3>2
      <4>2. ListFits(d)
        BY <4>1 DEF ListInv
      <4>3. d.op \in Adding => \A r \in rows' : r.brought # d.brought
        BY <1>1, <1>2, <2>5, <2>6, <3>2, <4>1, <4>2
        DEF ListInv, BroughtApart, ListFits, Adding
      <4>4. ListFits(d)'
        BY <1>2, <2>5, <2>12, <4>2, <4>3 DEF ListFits
      <4> QED  BY <4>1, <4>4, ListFitsNamed
    <3> QED  BY <3>1, <3>2
  <2>14. BroughtApart'
    BY <1>2, ListReturns DEF ListInv, BroughtApart
  <2>15. CountsAddUp'
    BY <2>3, <2>5, <2>6, <2>8, <2>9 DEF ListInv, ListTyped, CountsAddUp
  <2> QED  BY <2>11, <2>13, <2>14, <2>15 DEF ListInv
<1> QED  BY <1>4, <1>5

LEMMA ListNext ==
    ASSUME Shape, ListInv, [Next]_vars
    PROVE  ListInv'
<1>1. ASSUME NEW w \in Slots, ListStep(w), Moves(w, ListOps)
      PROVE  ListInv'
  BY <1>1, ListBegunKept, ListLookKept, InsertRowsKept, DeleteRowKept, InsertListKept
  DEF ListStep
<1>2. ASSUME UNCHANGED listVars, calls' \in {calls, calls + 1},
             \A v \in Slots : call'[v] = call[v] \/ call'[v].op \notin ListOps
      PROVE  ListInv'
  <2>1. ASSUME NEW v \in Slots
        PROVE  ListFits(call[v])'
    <3>1. CASE call'[v] = call[v]
      <4>1. PICK d : d = call[v] /\ d = call'[v]
        BY <3>1
      <4>2. ListFits(d)'
        BY <1>2, <4>1, ListFitsLater DEF ListInv
      <4> QED  BY <4>1, <4>2, ListFitsNamed
    <3>2. CASE call'[v].op \notin ListOps
      BY <3>2 DEF ListFits, Adding, ListOps
    <3> QED  BY <1>2, <3>1, <3>2
  <2>2. BroughtApart'
    BY <1>2 DEF ListInv, BroughtApart, Adding, ListOps
  <2> QED  BY <1>2, <2>1, <2>2, ListsStill DEF ListInv
<1> QED  BY <1>1, <1>2, ListApart

LEMMA ListStart ==
    ASSUME Init
    PROVE  ListInv
<1>1. (\A w \in Slots : call[w].op = "idle") /\ calls = 0
  BY DEF Init, SlotsInit, Idle
<1>2. /\ made = {l \in ListIds : FirstMembers[l] # {}}
      /\ rows = UNION {NewRows(l, FirstMembers[l], 0) : l \in ListIds}
      /\ count = [l \in ListIds |-> Cardinality(FirstMembers[l])]
      /\ changes = [l \in ListIds |-> 0] /\ mixed = {}
  BY DEF Init, ListInit
<1>3. ASSUME NEW l \in ListIds
      PROVE  /\ FirstMembers[l] \in SUBSET Contacts
             /\ IsFiniteSet(NewRows(l, FirstMembers[l], 0))
             /\ Cardinality(NewRows(l, FirstMembers[l], 0)) = Cardinality(FirstMembers[l])
             /\ Cardinality(FirstMembers[l]) \in Nat
             /\ NewRows(l, FirstMembers[l], 0) \subseteq StoredRows
             /\ \A r \in NewRows(l, FirstMembers[l], 0) : r.list = l /\ r.brought = 0
  BY ListAssumption, RowsBrought
<1>4. ASSUME NEW l \in ListIds
      PROVE  RowsOf(l) = NewRows(l, FirstMembers[l], 0)
  BY <1>2, <1>3 DEF RowsOf
<1>5. ASSUME NEW r \in rows
      PROVE  r \in StoredRows /\ r.list \in made /\ r.brought <= calls
  <2>1. PICK l \in ListIds : r \in NewRows(l, FirstMembers[l], 0)
    BY <1>2
  <2>2. FirstMembers[l] # {}
    BY <2>1 DEF NewRows
  <2> QED  BY <1>1, <1>2, <1>3, <2>1, <2>2
<1>6. ListTyped
  BY <1>1, <1>2, <1>3, <1>4, <1>5 DEF ListTyped
<1>7. CountsAddUp
  BY <1>2, <1>3, <1>4 DEF CountsAddUp
<1> QED  BY <1>1, <1>6, <1>7 DEF ListInv, ListFits, BroughtApart, Adding

(***************************************************************************)
(* The number a list shows is the number of its rows, for lists of any     *)
(* length, unless a change of the list committed between another's reading *)
(* of the list and its transaction: in particular after a failed insertion *)
(* of an email that the list has, and after imports that leave rows out.   *)
(***************************************************************************)
THEOREM ListsCountTheirRows == Spec => []CountsAddUp
<1>1. Init => Shape /\ ListInv
  BY InitShape, ListStart
<1>2. Shape /\ ListInv /\ [Next]_vars => Shape' /\ ListInv'
  BY NextKnown, ListNext
<1>3. ListInv => CountsAddUp
  BY DEF ListInv
<1> QED  BY <1>1, <1>2, <1>3, PTL DEF Spec

-----------------------------------------------------------------------------
(* Check, then insert.  A handler that is past its check counts as what it *)
(* is about to insert: those who invite an address, or ask for a deletion, *)
(* with what they have inserted, are never more than handlers.  While an   *)
(* address has no account, a handler that is about to create it stands     *)
(* behind each organization of the address that was not abandoned.         *)

Inviting(e) == {w \in Slots : call[w].op = "saveInvitation" /\ call[w].email = e}
Founding(e) == {w \in Slots : call[w].op = "createOrganization" /\ call[w].email = e}
Joining(e) == {w \in Slots : call[w].op = "createAccount" /\ call[w].email = e}
FoundedBy(e) == {o \in Organizations \ abandoned : organization[o] = e}

InvitesCounted ==
    \A e \in Emails :
        /\ IsFiniteSet(PendingFor(e))
        /\ Cardinality(PendingFor(e)) + Cardinality(Inviting(e)) <= Cardinality(Slots)

BehindIt(e) == \A o \in FoundedBy(e) : \E w \in Joining(e) : call[w].organization = o
FewFoundings(e) ==
    /\ IsFiniteSet(FoundedBy(e))
    /\ Cardinality(FoundedBy(e)) + Cardinality(Founding(e)) <= Cardinality(Slots)

FoundingsCounted ==
    \A e \in Emails : IF account[e] = Nobody THEN BehindIt(e) ELSE FewFoundings(e)

RepeatsInv == InvitesCounted /\ FoundingsCounted

Asking(i) == {w \in Slots : call[w].op = "saveRequest" /\ call[w].item = i}
Removing(i) == {w \in Slots : call[w].op = "removeItem" /\ call[w].item = i}
Approving(i, r) == \E w \in Slots : call[w].op = "commitApproval" /\ call[w].item = i
                                                         /\ call[w].request = r

RequestsCounted(i) ==
    /\ \A r \in Requests :
        (Made(r) /\ request[r].about = i) => request[r].item = i
    /\ Cardinality(PendingAbout(i)) + Cardinality(Asking(i)) + Cardinality(Removing(i))
            <= Cardinality(Slots)
    /\ \A r \in Requests :
        Approving(i, r) => Cardinality(PendingAbout(i) \ {r}) + Cardinality(Asking(i))
                                < Cardinality(Slots)

ItemCounted(i) ==
    /\ IsFiniteSet(PendingAbout(i))
    /\ i \notin revived =>
          /\ item[i] # "gone" => RequestsCounted(i)
          /\ item[i] = "gone" => Cardinality(PendingAbout(i)) < Cardinality(Slots)

RequestsInv == \A i \in Items : ItemCounted(i)

-----------------------------------------------------------------------------
\* Counting handlers

LEMMA HandlersCounted ==
    ASSUME NEW some \in SUBSET Slots
    PROVE  /\ IsFiniteSet(some) /\ Cardinality(some) \in Nat /\ Cardinality(Slots) \in Nat
           /\ Cardinality(some) <= Cardinality(Slots)
BY WorkspaceAssumption, FS_Subset, FS_CardinalityType

LEMMA HandlersApart ==
    ASSUME NEW some \in SUBSET Slots, NEW others \in SUBSET Slots, some \cap others = {}
    PROVE  Cardinality(some) + Cardinality(others) <= Cardinality(Slots)
<1>1. /\ IsFiniteSet(some) /\ Cardinality(some) \in Nat
      /\ IsFiniteSet(others) /\ Cardinality(others) \in Nat
  BY HandlersCounted
<1>2. Cardinality(some \cup others)
        = Cardinality(some) + Cardinality(others) - Cardinality(some \cap others)
  BY <1>1, FS_Union
<1>3. Cardinality(some \cap others) = 0
  BY FS_EmptySet
<1>4. Cardinality(some \cup others) <= Cardinality(Slots)
  BY HandlersCounted
<1> QED  BY <1>1, <1>2, <1>3, <1>4

\* The handler in w has inserted what it was counted for.
LEMMA OneInserted ==
    ASSUME NEW there, IsFiniteSet(there), NEW some \in SUBSET Slots, NEW w \in some, NEW x
    PROVE  /\ IsFiniteSet(there \cup {x}) /\ Cardinality(some \ {w}) \in Nat
           /\ Cardinality(there \cup {x}) \in Nat
           /\ Cardinality(there \cup {x}) + Cardinality(some \ {w})
                <= Cardinality(there) + Cardinality(some)
<1>1. IsFiniteSet(some) /\ Cardinality(some) \in Nat /\ Cardinality(there) \in Nat
  BY HandlersCounted, FS_CardinalityType
<1>2. /\ IsFiniteSet(there \cup {x})
      /\ \/ Cardinality(there \cup {x}) = Cardinality(there)
         \/ Cardinality(there \cup {x}) = Cardinality(there) + 1
  BY FS_AddElement
<1>3. IsFiniteSet(some \ {w}) /\ Cardinality(some \ {w}) = Cardinality(some) - 1
  BY <1>1, FS_RemoveElement
<1>4. Cardinality(some \ {w}) \in Nat /\ Cardinality(there \cup {x}) \in Nat
  BY <1>2, <1>3, FS_CardinalityType
<1> QED  BY <1>1, <1>2, <1>3, <1>4

LEMMA NoMoreThan ==
    ASSUME NEW there, IsFiniteSet(there), NEW less \in SUBSET there
    PROVE  /\ IsFiniteSet(less) /\ Cardinality(less) \in Nat /\ Cardinality(there) \in Nat
           /\ Cardinality(less) <= Cardinality(there)
BY FS_Subset, FS_CardinalityType

-----------------------------------------------------------------------------
\* Invitations and sign-ups

LEMMA RepeatsApart ==
    ASSUME Shape, [Next]_vars
    PROVE  \/ \E w \in Slots : MembershipStep(w) /\ Moves(w, MembershipOps)
           \/ /\ UNCHANGED membershipVars \/ \E i \in Invitations : Lapse(i)
              /\ Elsewhere(MembershipOps)
           \/ \E ended \in SUBSET Slots : FoundersLost(ended) /\ Ends(ended)
<1>1. ASSUME NEW w \in Slots, NEW Ops \in AllOps, Ops # MembershipOps, Moves(w, Ops),
             StepOf(w, Ops)
      PROVE  UNCHANGED membershipVars /\ Elsewhere(MembershipOps)
  BY <1>1, Aside, OpsDistinct DEF StepOf
<1>2. CASE CutShort
  BY <1>2, CutShortKnown
<1>3. CASE Besides /\ ~CutShort
  BY <1>3 DEF Besides, RunnerStep, Elsewhere
<1> QED  BY <1>1, <1>2, <1>3, NextKnown DEF StepOf

\* An address that gets no further invitation, nor is about to
LEMMA InvitesFewer ==
    ASSUME InvitesCounted, NEW e \in Emails,
           PendingFor(e)' \subseteq PendingFor(e), Inviting(e)' \subseteq Inviting(e)
    PROVE  /\ IsFiniteSet(PendingFor(e)')
           /\ Cardinality(PendingFor(e)') + Cardinality(Inviting(e)') <= Cardinality(Slots)
<1>1. Inviting(e) \in SUBSET Slots /\ IsFiniteSet(PendingFor(e))
  BY DEF Inviting, InvitesCounted
<1>2. /\ IsFiniteSet(PendingFor(e)') /\ Cardinality(PendingFor(e)') \in Nat
      /\ Cardinality(PendingFor(e)') <= Cardinality(PendingFor(e))
      /\ Cardinality(PendingFor(e)) \in Nat
  BY <1>1, NoMoreThan
<1>3. /\ Cardinality(Inviting(e)') <= Cardinality(Inviting(e))
      /\ Cardinality(Inviting(e)') \in Nat /\ Cardinality(Inviting(e)) \in Nat
      /\ Cardinality(Slots) \in Nat
  BY <1>1, HandlersCounted, NoMoreThan
<1> QED  BY <1>2, <1>3 DEF InvitesCounted

\* The foundings of an address are never more than handlers.
LEMMA FoundingsFew ==
    ASSUME FoundingsCounted, NEW e \in Emails
    PROVE  FewFoundings(e)
<1>1. CASE account[e] = Nobody
  <2>1. /\ Joining(e) \in SUBSET Slots /\ Founding(e) \in SUBSET Slots
        /\ Joining(e) \cap Founding(e) = {}
    BY DEF Joining, Founding
  <2>2. PICK f : f = [w \in Slots |-> call[w].organization]
    OBVIOUS
  <2>3. \A o \in FoundedBy(e) : \E w \in Joining(e) : f[w] = o
    BY <1>1, <2>1, <2>2 DEF FoundingsCounted, BehindIt
  <2> QED  BY <2>1, <2>3, DomainHolders DEF FewFoundings
<1>2. CASE account[e] # Nobody
  BY <1>2 DEF FoundingsCounted
<1> QED  BY <1>1, <1>2

\* Nobody founds an organization with this address in this step.
LEMMA FoundingsStay ==
    ASSUME FoundingsCounted, NEW e \in Emails,
           FoundedBy(e)' \subseteq FoundedBy(e),
           account'[e] = Nobody =>
               /\ account[e] = Nobody
               /\ \A w \in Joining(e) : call[w].organization \in FoundedBy(e)' =>
                     w \in Joining(e)' /\ call'[w].organization = call[w].organization,
           account'[e] # Nobody => Founding(e)' \subseteq Founding(e)
    PROVE  /\ account'[e] = Nobody => BehindIt(e)'
           /\ account'[e] # Nobody => FewFoundings(e)'
<1>1. CASE account'[e] = Nobody
  BY <1>1 DEF FoundingsCounted, BehindIt
<1>2. CASE account'[e] # Nobody
  <2>1. FewFoundings(e)
    BY FoundingsFew
  <2>2. PICK there, less : there = FoundedBy(e) /\ less = FoundedBy(e)'
    OBVIOUS
  <2>3. PICK some, fewer : some = Founding(e) /\ fewer = Founding(e)'
    OBVIOUS
  <2>4. /\ some \in SUBSET Slots /\ fewer \in SUBSET some /\ less \in SUBSET there
        /\ IsFiniteSet(there)
        /\ Cardinality(there) + Cardinality(some) <= Cardinality(Slots)
    BY <1>2, <2>1, <2>2, <2>3 DEF Founding, FewFoundings
  <2>5. /\ IsFiniteSet(less) /\ Cardinality(less) \in Nat /\ Cardinality(there) \in Nat
        /\ Cardinality(less) <= Cardinality(there)
    BY <2>4, NoMoreThan
  <2>6. /\ Cardinality(fewer) \in Nat /\ Cardinality(some) \in Nat
        /\ Cardinality(fewer) <= Cardinality(some) /\ Cardinality(Slots) \in Nat
    BY <2>4, HandlersCounted, NoMoreThan
  <2>7. Cardinality(less) + Cardinality(fewer) <= Cardinality(Slots)
    BY <2>4, <2>5, <2>6
  <2> QED  BY <1>2, <2>2, <2>3, <2>5, <2>7 DEF FewFoundings
<1> QED  BY <1>1, <1>2

LEMMA FoundingsKept ==
    ASSUME FoundingsCounted,
           \A e \in Emails :
               /\ FoundedBy(e)' \subseteq FoundedBy(e)
               /\ account'[e] = Nobody =>
                     /\ account[e] = Nobody
                     /\ \A w \in Joining(e) : call[w].organization \in FoundedBy(e)' =>
                           /\ w \in Joining(e)'
                           /\ call'[w].organization = call[w].organization
               /\ account'[e] # Nobody => Founding(e)' \subseteq Founding(e)
    PROVE  FoundingsCounted'
<1>1. ASSUME NEW e \in Emails
      PROVE  /\ account'[e] = Nobody => BehindIt(e)'
             /\ account'[e] # Nobody => FewFoundings(e)'
  BY FoundingsStay
<1> QED  BY <1>1 DEF FoundingsCounted

\* The handlers that are past a check are those that were.
LEMMA SameHandlers ==
    ASSUME NEW w \in Slots, Moves(w, MembershipOps), NEW e,
           call[w].op \notin {"saveInvitation", "createOrganization", "createAccount"}
    PROVE  /\ Inviting(e) \subseteq Inviting(e)'
           /\ Founding(e) \subseteq Founding(e)'
           /\ Joining(e) \subseteq Joining(e)'
           /\ call'[w].op # "saveInvitation" => Inviting(e)' = Inviting(e)
           /\ call'[w].op # "createOrganization" => Founding(e)' = Founding(e)
           /\ call'[w].op # "createAccount" => Joining(e)' = Joining(e)
           /\ \A v \in Joining(e) : call'[v] = call[v]
BY DEF Moves, Inviting, Founding, Joining

LEMMA InvitesKept ==
    ASSUME InvitesCounted,
           \A e \in Emails : /\ PendingFor(e)' \subseteq PendingFor(e)
                             /\ Inviting(e)' \subseteq Inviting(e)
    PROVE  InvitesCounted'
<1>1. ASSUME NEW e \in Emails
      PROVE  /\ IsFiniteSet(PendingFor(e)')
             /\ Cardinality(PendingFor(e)') + Cardinality(Inviting(e)')
                    <= Cardinality(Slots)
  BY InvitesFewer
<1> QED  BY <1>1 DEF InvitesCounted

\* Only an address without a pending invitation gets a handler that invites it.
LEMMA InviteeCounted ==
    ASSUME Shape, MembershipInv, InvitesCounted, NEW w \in Slots, Moves(w, MembershipOps),
           FindInvitation(w)
    PROVE  InvitesCounted'
<1>1. PICK x \in Emails : x = call[w].email
  BY DEF FindInvitation, MembershipInv, MembershipFits
<1>2. \A e \in Emails : PendingFor(e)' = PendingFor(e)
  BY DEF FindInvitation, membershipVars, peopleVars, PendingFor
<1>3. CASE Return(w)
  <2>1. call'[w] = Idle
    BY <1>3, Makes DEF Return
  <2>2. \A e \in Emails : Inviting(e)' \subseteq Inviting(e)
    BY <2>1 DEF Idle, Inviting, Moves
  <2> QED  BY <1>2, <2>2, InvitesKept
<1>4. CASE /\ PendingFor(x) = {}
           /\ GoOn(w, [op |-> "saveInvitation", email |-> x])
  <2>1. call'[w] = [op |-> "saveInvitation", email |-> x]
    BY <1>4, Makes
  <2>2. ASSUME NEW e \in Emails, e # x
        PROVE  /\ IsFiniteSet(PendingFor(e)')
               /\ Cardinality(PendingFor(e)') + Cardinality(Inviting(e)')
                    <= Cardinality(Slots)
    <3>1. Inviting(e)' \subseteq Inviting(e)
      BY <2>1, <2>2 DEF Inviting, Moves
    <3> QED  BY <1>2, <3>1, InvitesFewer
  <2>3. PICK none : none = PendingFor(x)' /\ none = {}
    BY <1>2, <1>4
  <2>4. IsFiniteSet(none) /\ Cardinality(none) = 0
    BY <2>3, FS_EmptySet
  <2>5. PICK some \in SUBSET Slots : some = Inviting(x)'
    BY DEF Inviting
  <2>6. /\ Cardinality(some) \in Nat /\ Cardinality(Slots) \in Nat
        /\ Cardinality(some) <= Cardinality(Slots)
    BY HandlersCounted
  <2>7. /\ IsFiniteSet(PendingFor(x)')
        /\ Cardinality(PendingFor(x)') + Cardinality(Inviting(x)') <= Cardinality(Slots)
    BY <2>3, <2>4, <2>5, <2>6
  <2> QED  BY <2>2, <2>7 DEF InvitesCounted
<1> QED  BY <1>1, <1>3, <1>4 DEF FindInvitation

LEMMA InvitedCounted ==
    ASSUME Shape, MembershipInv, InvitesCounted, NEW w \in Slots, Moves(w, MembershipOps),
           SaveInvitation(w)
    PROVE  InvitesCounted'
<1>1. PICK x \in Emails : x = call[w].email
  BY DEF SaveInvitation, MembershipInv, MembershipFits
<1>2. PICK j : j = NewId(Invitations, invitation)
  OBVIOUS
<1>3. j \in Invitations /\ invitation[j] = None
  BY <1>2 DEF SaveInvitation, Room, NewId
<1>4. PICK row : row = [email |-> x, status |-> "pending", late |-> FALSE]
  OBVIOUS
<1>5. row \in InvitationRows /\ row.status = "pending" /\ row.email = x
  BY <1>4 DEF InvitationRows
<1>6. /\ invitation' = [invitation EXCEPT ![j] = row]
      /\ invitation \in [Invitations -> InvitationRows \cup {None}]
  BY <1>1, <1>2, <1>4 DEF SaveInvitation, MembershipInv, MembershipTypeOK
<1>7. invitation'[j] = row /\ \A i \in Invitations : i # j => invitation'[i] = invitation[i]
  BY <1>3, <1>6
<1>8. call'[w] = Idle /\ call[w].op = "saveInvitation"
  BY Makes DEF SaveInvitation, Return
<1>9. ASSUME NEW e \in Emails, e # x
      PROVE  /\ IsFiniteSet(PendingFor(e)')
             /\ Cardinality(PendingFor(e)') + Cardinality(Inviting(e)')
                  <= Cardinality(Slots)
  <2>1. PendingFor(e)' \subseteq PendingFor(e)
    BY <1>5, <1>7, <1>9 DEF PendingFor
  <2>2. Inviting(e)' \subseteq Inviting(e)
    BY <1>8 DEF Inviting, Moves, Idle
  <2> QED  BY <2>1, <2>2, InvitesFewer
<1>10. PendingFor(x)' = PendingFor(x) \cup {j}
  BY <1>3, <1>5, <1>7, NoneApart DEF PendingFor
<1>11. /\ Inviting(x)' = Inviting(x) \ {w}
       /\ w \in Inviting(x) /\ Inviting(x) \in SUBSET Slots
  BY <1>1, <1>8 DEF Inviting, Moves, Idle
<1>12. PICK there, some : there = PendingFor(x) /\ some = Inviting(x)
  OBVIOUS
<1>13. /\ IsFiniteSet(there)
       /\ Cardinality(there) + Cardinality(some) <= Cardinality(Slots)
  BY <1>12 DEF InvitesCounted
<1>14. /\ IsFiniteSet(there \cup {j}) /\ Cardinality(some \ {w}) \in Nat
       /\ Cardinality(there \cup {j}) \in Nat
       /\ Cardinality(there \cup {j}) + Cardinality(some \ {w})
            <= Cardinality(there) + Cardinality(some)
  BY <1>11, <1>12, <1>13, OneInserted
<1>15. /\ some \in SUBSET Slots /\ Cardinality(there) \in Nat /\ Cardinality(some) \in Nat
       /\ Cardinality(Slots) \in Nat
  BY <1>11, <1>12, <1>13, HandlersCounted, FS_CardinalityType
<1>16. Cardinality(there \cup {j}) + Cardinality(some \ {w}) <= Cardinality(Slots)
  BY <1>13, <1>14, <1>15
<1> QED  BY <1>9, <1>10, <1>11, <1>12, <1>14, <1>16 DEF InvitesCounted

\* The other steps add nothing to either count.
LEMMA InvitesStep ==
    ASSUME Shape, MembershipInv, InvitesCounted, NEW w \in Slots, Moves(w, MembershipOps),
           MembershipStep(w)
    PROVE  InvitesCounted'
<1>1. ASSUME invitation' = invitation, call'[w].op # "saveInvitation"
      PROVE  InvitesCounted'
  <2>1. \A e \in Emails : /\ PendingFor(e)' = PendingFor(e)
                          /\ Inviting(e)' \subseteq Inviting(e)
    BY <1>1 DEF PendingFor, Inviting, Moves
  <2> QED  BY <2>1, InvitesKept
<1>2. ASSUME NEW c, Begin(w, c) \/ GoOn(w, c), c.op # "saveInvitation",
             invitation' = invitation
      PROVE  InvitesCounted'
  BY <1>1, <1>2, Makes
<1>3. CASE UpdateStatus(w)
  <2>1. PICK j \in Invitations : j = call[w].invitation /\ invitation[j] # None
    BY <1>3 DEF UpdateStatus, MembershipInv, MembershipFits
  <2>2. PICK status : status = MarkedBy(call[w].op)
    OBVIOUS
  <2>3. status # "pending" /\ invitation[j] \in InvitationRows
    BY <1>3, <2>1, <2>2 DEF UpdateStatus, MarkedBy, MembershipInv, MembershipTypeOK
  <2>4. PICK row : row = [invitation[j] EXCEPT !.status = status]
    OBVIOUS
  <2>5. row.status = status
    BY <2>3, <2>4 DEF InvitationRows
  <2>6. /\ invitation' = [invitation EXCEPT ![j] = row]
        /\ invitation \in [Invitations -> InvitationRows \cup {None}]
    BY <1>3, <2>1, <2>2, <2>4 DEF UpdateStatus, MembershipInv, MembershipTypeOK
  <2>7. call'[w] = Idle
    BY <1>3, Makes DEF UpdateStatus, Return
  <2>8. \A e \in Emails : PendingFor(e)' \subseteq PendingFor(e)
    BY <2>3, <2>5, <2>6 DEF PendingFor
  <2>9. \A e \in Emails : Inviting(e)' \subseteq Inviting(e)
    BY <2>7 DEF Idle, Inviting, Moves
  <2> QED  BY <2>8, <2>9, InvitesKept
<1>4. CASE \/ \E e \in Emails : Invite(w, e)
           \/ \E e \in Emails, oauth \in BOOLEAN : StartSignup(w, e, oauth)
           \/ \E i \in Invitations : Revoke(w, i) \/ FindLate(w, i) \/ Accept(w, i)
  <2>1. ASSUME NEW e \in Emails, Invite(w, e)
        PROVE  InvitesCounted'
    <3>1. PICK c : Begin(w, c) /\ c.op # "saveInvitation"
      BY <2>1 DEF Invite
    <3> QED  BY <1>2, <2>1, <3>1 DEF Invite, membershipVars, peopleVars
  <2>2. ASSUME NEW e \in Emails, NEW oauth \in BOOLEAN, StartSignup(w, e, oauth)
        PROVE  InvitesCounted'
    BY <1>2, <2>2 DEF StartSignup, membershipVars, peopleVars
  <2>3. ASSUME NEW i \in Invitations, Revoke(w, i) \/ FindLate(w, i) \/ Accept(w, i)
        PROVE  InvitesCounted'
    BY <1>2, <2>3 DEF Revoke, FindLate, Accept, membershipVars, peopleVars
  <2> QED  BY <1>4, <2>1, <2>2, <2>3
<1>5. CASE \E s \in Sessions :
               SetCompany(w, s) \/ ResendOtp(w, s) \/ VerifyOtp(w, s) \/ Complete(w, s)
  BY <1>2, <1>5 DEF SetCompany, ResendOtp, VerifyOtp, Complete, Prepare,
                    membershipVars, peopleVars
<1>6. CASE SaveMember(w) \/ CreateOrganization(w) \/ CreateAccount(w)
  BY <1>2, <1>6 DEF SaveMember, CreateOrganization, CreateAccount, Return, Idle
<1>7. CASE CreateSession(w) \/ SaveSession(w) \/ DeleteSession(w)
  BY <1>2, <1>7 DEF CreateSession, SaveSession, DeleteSession, Return, Idle
<1>8. CASE CountUsersFirst(w) \/ CountPendingFirst(w) \/ CountPending(w)
             \/ CountUsers(w) \/ FindInvitee(w)
  BY <1>2, <1>8 DEF CountUsersFirst, CountPendingFirst, CountPending, CountUsers, Admit,
                    FindInvitee, Return, Idle, membershipVars, peopleVars
<1> QED  BY <1>3, <1>4, <1>5, <1>6, <1>7, <1>8, InviteeCounted, InvitedCounted
         DEF MembershipStep

-----------------------------------------------------------------------------
LEMMA OrganizationCounted ==
    ASSUME Shape, MembershipInv, FoundingsCounted, NEW w \in Slots,
           Moves(w, MembershipOps), CreateOrganization(w)
    PROVE  FoundingsCounted'
<1>1. PICK x \in Emails : x = call[w].email
  BY DEF CreateOrganization, MembershipInv, MembershipFits, MembershipTypeOK
<1>2. PICK o : o = CHOOSE y \in Organizations : organization[y] = Nobody
  OBVIOUS
<1>3. o \in Organizations /\ organization[o] = Nobody
  BY <1>2 DEF CreateOrganization
<1>4. /\ organization' = [organization EXCEPT ![o] = x]
      /\ organization \in [Organizations -> Emails \cup {Nobody}]
      /\ account' = account /\ abandoned' = abandoned
      /\ GoOn(w, [op |-> "createAccount", session |-> call[w].session, email |-> x,
                  organization |-> o])
  BY <1>1, <1>2 DEF CreateOrganization, MembershipInv, MembershipTypeOK
<1>5. /\ organization'[o] = x
      /\ \A q \in Organizations : q # o => organization'[q] = organization[q]
  BY <1>3, <1>4
<1>6. /\ call'[w].op = "createAccount" /\ call'[w].email = x
      /\ call'[w].organization = o /\ call[w].op = "createOrganization"
  <2>1. call'[w] = [op |-> "createAccount", session |-> call[w].session, email |-> x,
                    organization |-> o]
    BY <1>4, Makes
  <2> QED  BY <2>1 DEF CreateOrganization
<1>7. \A e \in Emails : /\ Joining(e) \subseteq Joining(e)'
                        /\ \A v \in Joining(e) : call'[v] = call[v]
                        /\ Founding(e)' \subseteq Founding(e)
  BY <1>6 DEF Joining, Founding, Moves
<1>8. FoundedBy(x)' \subseteq FoundedBy(x) \cup {o}
  BY <1>3, <1>4, <1>5 DEF FoundedBy
<1>9. ASSUME NEW e \in Emails, e # x
      PROVE  /\ account'[e] = Nobody => BehindIt(e)'
             /\ account'[e] # Nobody => FewFoundings(e)'
  <2>1. FoundedBy(e)' \subseteq FoundedBy(e)
    BY <1>3, <1>4, <1>5, <1>9 DEF FoundedBy
  <2> QED  BY <1>4, <1>7, <2>1, FoundingsStay
<1>10. CASE account[x] = Nobody
  <2>1. w \in Joining(x)'
    BY <1>6 DEF Joining
  <2>2. BehindIt(x)
    BY <1>10 DEF FoundingsCounted
  <2>3. ASSUME NEW q \in FoundedBy(x)'
        PROVE  \E v \in Joining(x)' : call'[v].organization = q
    <3>1. CASE q = o
      BY <1>6, <2>1, <3>1
    <3>2. CASE q \in FoundedBy(x)
      <4>1. PICK v \in Joining(x) : call[v].organization = q
        BY <2>2, <3>2 DEF BehindIt
      <4> QED  BY <1>7, <4>1
    <3> QED  BY <1>8, <2>3, <3>1, <3>2
  <2>4. BehindIt(x)'
    BY <2>3 DEF BehindIt
  <2> QED  BY <1>4, <1>9, <1>10, <2>4 DEF FoundingsCounted
<1>11. CASE account[x] # Nobody
  <2>1. PICK there, less : there = FoundedBy(x) /\ less = FoundedBy(x)'
    OBVIOUS
  <2>2. PICK some \in SUBSET Slots : /\ some = Founding(x) /\ w \in some
                                     /\ Founding(x)' = some \ {w}
    <3>1. /\ Founding(x) \in SUBSET Slots /\ w \in Founding(x)
          /\ Founding(x)' = Founding(x) \ {w}
      BY <1>1, <1>6 DEF Founding, Moves
    <3> QED  BY <3>1
  <2>3. /\ IsFiniteSet(there)
        /\ Cardinality(there) + Cardinality(some) <= Cardinality(Slots)
    BY <2>1, <2>2, FoundingsFew DEF FewFoundings
  <2>4. /\ IsFiniteSet(there \cup {o}) /\ Cardinality(some \ {w}) \in Nat
        /\ Cardinality(there \cup {o}) \in Nat
        /\ Cardinality(there \cup {o}) + Cardinality(some \ {w})
             <= Cardinality(there) + Cardinality(some)
    BY <2>2, <2>3, OneInserted
  <2>5. less \in SUBSET (there \cup {o})
    BY <1>8, <2>1
  <2>6. /\ IsFiniteSet(less) /\ Cardinality(less) \in Nat
        /\ Cardinality(less) <= Cardinality(there \cup {o})
    BY <2>4, <2>5, NoMoreThan
  <2>7. /\ Cardinality(some) \in Nat /\ Cardinality(Slots) \in Nat
        /\ Cardinality(there) \in Nat
    BY <2>3, HandlersCounted, FS_CardinalityType
  <2>8. Cardinality(less) + Cardinality(some \ {w}) <= Cardinality(Slots)
    BY <2>3, <2>4, <2>6, <2>7
  <2>9. FewFoundings(x)'
    BY <2>1, <2>2, <2>6, <2>8 DEF FewFoundings
  <2> QED  BY <1>4, <1>9, <1>11, <2>9 DEF FoundingsCounted
<1> QED  BY <1>10, <1>11

\* An account that is made is the end of the address's sign-ups.
LEMMA AccountCounted ==
    ASSUME Shape, MembershipInv, FoundingsCounted, NEW w \in Slots,
           Moves(w, MembershipOps), CreateAccount(w)
    PROVE  FoundingsCounted'
<1>1. PICK x \in Emails : x = call[w].email
  BY DEF CreateAccount, MembershipInv, MembershipFits, MembershipTypeOK
<1>2. call'[w].op \in {"idle", "deleteSession"} /\ call[w].op = "createAccount"
  <2>1. call'[w] \in {Idle, [op |-> "deleteSession", session |-> call[w].session]}
    BY Makes DEF CreateAccount, Return
  <2> QED  BY <2>1 DEF CreateAccount, Idle
<1>3. /\ organization' = organization /\ abandoned' = abandoned
      /\ \A e \in Emails : e # x => account'[e] = account[e]
      /\ account'[x] # Nobody
  <2>1. call[w].organization \in Organizations /\ Nobody \notin Organizations
    BY MembershipAssumption DEF CreateAccount, MembershipInv, MembershipFits
  <2> QED  BY <1>1, <2>1 DEF CreateAccount, MembershipInv, MembershipTypeOK
<1>4. ASSUME NEW e \in Emails
      PROVE  /\ FoundedBy(e)' = FoundedBy(e)
             /\ account'[e] = Nobody => /\ account[e] = Nobody
                                        /\ \A v \in Joining(e) : /\ v \in Joining(e)'
                                                                 /\ call'[v] = call[v]
             /\ account'[e] # Nobody => Founding(e)' \subseteq Founding(e)
  <2>1. FoundedBy(e)' = FoundedBy(e)
    BY <1>3 DEF FoundedBy
  <2>2. Founding(e)' \subseteq Founding(e)
    BY <1>2 DEF Founding, Moves
  <2>3. CASE e # x
    <3>1. \A v \in Joining(e) : v \in Joining(e)' /\ call'[v] = call[v]
      BY <1>1, <2>3 DEF Joining, Moves
    <3> QED  BY <1>3, <2>1, <2>2, <2>3, <3>1
  <2>4. CASE e = x
    BY <1>3, <2>1, <2>2, <2>4
  <2> QED  BY <2>3, <2>4
<1> QED  BY <1>4, FoundingsKept

LEMMA FoundingsStep ==
    ASSUME Shape, MembershipInv, FoundingsCounted, NEW w \in Slots,
           Moves(w, MembershipOps), MembershipStep(w)
    PROVE  FoundingsCounted'
<1>1. ASSUME organization' = organization, abandoned' = abandoned,
             call[w].op # "createAccount",
             \A e \in Emails : /\ account'[e] = Nobody => account[e] = Nobody
                               /\ account'[e] # Nobody => Founding(e)' \subseteq Founding(e)
      PROVE  FoundingsCounted'
  <2>1. \A e \in Emails : /\ FoundedBy(e)' = FoundedBy(e)
                          /\ \A v \in Joining(e) : v \in Joining(e)' /\ call'[v] = call[v]
    BY <1>1 DEF FoundedBy, Joining, Moves
  <2> QED  BY <1>1, <2>1, FoundingsKept
<1>2. ASSUME NEW c, Begin(w, c) \/ GoOn(w, c), c.op # "createOrganization",
             UNCHANGED <<organization, abandoned>>, call[w].op # "createAccount",
             \A e \in Emails : account'[e] = Nobody => account[e] = Nobody
      PROVE  FoundingsCounted'
  <2>1. call'[w].op # "createOrganization"
    BY <1>2, Makes
  <2>2. \A e \in Emails : Founding(e)' \subseteq Founding(e)
    BY <2>1 DEF Founding, Moves
  <2> QED  BY <1>1, <1>2, <2>2
<1>3. ASSUME NEW c, Begin(w, c), c.op # "createOrganization",
             UNCHANGED <<organization, abandoned, account>>
      PROVE  FoundingsCounted'
  <2>1. call[w].op # "createAccount"
    BY <1>3 DEF Begin, Idle
  <2> QED  BY <1>2, <1>3, <2>1
<1>4. ASSUME NEW s \in Sessions, Complete(w, s)
      PROVE  FoundingsCounted'
  <2>1. PICK x : x = session[s].email /\ account[x] = Nobody
    BY <1>4 DEF Complete
  <2>2. call'[w] = [op |-> "createOrganization", session |-> s, email |-> x]
    BY <1>4, <2>1, Makes DEF Complete
  <2>3. UNCHANGED <<organization, abandoned, account>> /\ call[w].op # "createAccount"
    BY <1>4 DEF Complete, membershipVars, peopleVars, Begin, Idle
  <2>4. ASSUME NEW e \in Emails, account'[e] # Nobody
        PROVE  Founding(e)' \subseteq Founding(e)
    <3>1. e # x
      BY <2>1, <2>3, <2>4
    <3> QED  BY <2>2, <3>1 DEF Founding, Moves
  <2> QED  BY <1>1, <2>3, <2>4
<1>5. CASE SaveMember(w)
  <2>1. PICK i, x :
            /\ i \in Invitations /\ i = call[w].invitation
            /\ invitation[i] # None /\ x = invitation[i].email
    BY <1>5 DEF SaveMember, MembershipInv, MembershipFits
  <2>2. x \in Emails /\ account \in [Emails -> Organizations \cup {Home, Nobody}]
    BY <2>1 DEF MembershipInv, MembershipTypeOK, InvitationRows
  <2>3. \A e \in Emails : account'[e] = Nobody => account[e] = Nobody
    BY <1>5, <2>1, <2>2, NoneApart DEF SaveMember
  <2>4. PICK c : GoOn(w, c) /\ c.op # "createOrganization"
    BY <1>5 DEF SaveMember, Return, Idle
  <2> QED  BY <1>2, <1>5, <2>3, <2>4 DEF SaveMember
<1>6. CASE \/ \E e \in Emails : Invite(w, e)
           \/ \E e \in Emails, oauth \in BOOLEAN : StartSignup(w, e, oauth)
           \/ \E i \in Invitations : Revoke(w, i) \/ FindLate(w, i) \/ Accept(w, i)
  <2>1. ASSUME NEW e \in Emails, Invite(w, e)
        PROVE  FoundingsCounted'
    <3>1. PICK c : Begin(w, c) /\ c.op # "createOrganization"
      BY <2>1 DEF Invite
    <3> QED  BY <1>3, <2>1, <3>1 DEF Invite, membershipVars, peopleVars
  <2> QED  BY <1>3, <1>6, <2>1 DEF StartSignup, Revoke, FindLate, Accept,
                                   membershipVars, peopleVars
<1>7. CASE \E s \in Sessions : SetCompany(w, s) \/ ResendOtp(w, s) \/ VerifyOtp(w, s)
  BY <1>3, <1>7 DEF SetCompany, ResendOtp, VerifyOtp, Prepare, membershipVars, peopleVars
<1>8. CASE SaveInvitation(w) \/ UpdateStatus(w)
  BY <1>2, <1>8 DEF SaveInvitation, UpdateStatus, Return, Idle
<1>9. CASE CreateSession(w) \/ SaveSession(w) \/ DeleteSession(w)
  BY <1>2, <1>9 DEF CreateSession, SaveSession, DeleteSession, Return, Idle
<1>10. CASE CountUsersFirst(w) \/ CountPendingFirst(w) \/ CountPending(w)
              \/ CountUsers(w) \/ FindInvitee(w) \/ FindInvitation(w)
  BY <1>2, <1>10 DEF CountUsersFirst, CountPendingFirst, CountPending, CountUsers, Admit,
                     FindInvitee, FindInvitation, Return, Idle, membershipVars, peopleVars
<1> QED  BY <1>4, <1>5, <1>6, <1>7, <1>8, <1>9, <1>10, OrganizationCounted, AccountCounted
         DEF MembershipStep

\* The organizations of the handlers that end here are abandoned.
LEMMA FoundingsInterrupted ==
    ASSUME FoundingsCounted, NEW ended \in SUBSET Slots, FoundersLost(ended), Ends(ended)
    PROVE  FoundingsCounted'
<1>1. UNCHANGED <<account, organization>>
  BY DEF FoundersLost, peopleVars
<1>2. ASSUME NEW e \in Emails
      PROVE  /\ FoundedBy(e)' \subseteq FoundedBy(e)
             /\ \A v \in Joining(e) : call[v].organization \in FoundedBy(e)' =>
                   v \in Joining(e)' /\ call'[v] = call[v]
             /\ Founding(e)' \subseteq Founding(e)
  <2>1. FoundedBy(e)' \subseteq FoundedBy(e)
    BY <1>1 DEF FoundersLost, FoundedBy
  <2>2. ASSUME NEW v \in Joining(e), call[v].organization \in FoundedBy(e)'
        PROVE  v \in Joining(e)' /\ call'[v] = call[v]
    <3>1. v \notin ended
      BY <2>2 DEF FoundersLost, FoundedBy, Joining
    <3> QED  BY <3>1 DEF Ends, Joining
  <2>3. Founding(e)' \subseteq Founding(e)
    BY DEF Ends, Founding, Idle
  <2> QED  BY <2>1, <2>2, <2>3
<1> QED  BY <1>1, <1>2, FoundingsKept

LEMMA RepeatsNext ==
    ASSUME Shape, MembershipInv, RepeatsInv, [Next]_vars
    PROVE  RepeatsInv'
<1>1. ASSUME NEW w \in Slots, MembershipStep(w), Moves(w, MembershipOps)
      PROVE  RepeatsInv'
  BY <1>1, InvitesStep, FoundingsStep DEF RepeatsInv
<1>2. ASSUME UNCHANGED membershipVars \/ \E i \in Invitations : Lapse(i)
      PROVE  /\ UNCHANGED <<account, organization, abandoned>>
             /\ \A e \in Emails : PendingFor(e)' \subseteq PendingFor(e)
  <2>1. CASE UNCHANGED membershipVars
    BY <2>1 DEF membershipVars, peopleVars, PendingFor
  <2>2. ASSUME NEW i \in Invitations, Lapse(i)
        PROVE  \A e \in Emails : PendingFor(e)' \subseteq PendingFor(e)
    <3>1. invitation[i] \in InvitationRows /\ invitation[i] # None
      BY <2>2 DEF Lapse, MembershipInv, MembershipTypeOK
    <3>2. PICK row : row = [invitation[i] EXCEPT !.late = TRUE]
      OBVIOUS
    <3>3. row.status = invitation[i].status /\ row.email = invitation[i].email
      BY <3>1, <3>2 DEF InvitationRows
    <3>4. /\ invitation' = [invitation EXCEPT ![i] = row]
          /\ invitation \in [Invitations -> InvitationRows \cup {None}]
      BY <2>2, <3>2 DEF Lapse, MembershipInv, MembershipTypeOK
    <3> QED  BY <3>1, <3>3, <3>4 DEF PendingFor
  <2> QED  BY <1>2, <2>1, <2>2 DEF Lapse, membershipVars, peopleVars
<1>3. ASSUME UNCHANGED membershipVars \/ \E i \in Invitations : Lapse(i),
             Elsewhere(MembershipOps)
      PROVE  RepeatsInv'
  <2>1. \A e \in Emails : /\ Inviting(e)' \subseteq Inviting(e)
                          /\ Founding(e)' \subseteq Founding(e)
                          /\ \A v \in Joining(e) : v \in Joining(e)' /\ call'[v] = call[v]
    BY <1>3 DEF Inviting, Founding, Joining, Elsewhere, MembershipOps
  <2>2. \A e \in Emails : FoundedBy(e)' = FoundedBy(e)
    BY <1>2, <1>3 DEF FoundedBy
  <2> QED  BY <1>2, <1>3, <2>1, <2>2, InvitesKept, FoundingsKept DEF RepeatsInv
<1>4. ASSUME NEW ended \in SUBSET Slots, FoundersLost(ended), Ends(ended)
      PROVE  RepeatsInv'
  <2>1. \A e \in Emails : /\ Inviting(e)' \subseteq Inviting(e)
                          /\ PendingFor(e)' = PendingFor(e)
    BY <1>4 DEF Inviting, PendingFor, Ends, Idle, FoundersLost, peopleVars
  <2> QED  BY <1>4, <2>1, InvitesKept, FoundingsInterrupted DEF RepeatsInv
<1> QED  BY <1>1, <1>3, <1>4, RepeatsApart

LEMMA RepeatsStart ==
    ASSUME Init
    PROVE  RepeatsInv
<1>1. \A w \in Slots : call[w].op = "idle"
  BY DEF Init, SlotsInit, Idle
<1>2. ASSUME NEW e \in Emails
      PROVE  Inviting(e) = {} /\ Founding(e) = {} /\ Joining(e) = {} /\ FoundedBy(e) = {}
  BY <1>1, NoneApart DEF Inviting, Founding, Joining, FoundedBy, Init, MembershipInit
<1>3. /\ Cardinality({}) = 0 /\ IsFiniteSet({})
      /\ Cardinality(Slots) \in Nat /\ Cardinality(Slots) >= 1
  <2>1. Cardinality(Slots) # 0
    BY WorkspaceAssumption, FS_EmptySet
  <2> QED  BY <2>1, HandlersCounted, FS_EmptySet
<1>4. \A e \in Emails : BehindIt(e) /\ FewFoundings(e)
  BY <1>2, <1>3 DEF BehindIt, FewFoundings
<1>5. FoundingsCounted
  BY <1>4 DEF FoundingsCounted
<1>6. PICK one : one = {First(Invitations)}
  OBVIOUS
<1>7. IsFiniteSet(one) /\ Cardinality(one) = 1
  BY <1>6, FS_Singleton
<1>8. ASSUME NEW e \in Emails
      PROVE  PendingFor(e) \in SUBSET one
  BY <1>6 DEF PendingFor, Init, MembershipInit
<1>9. ASSUME NEW e \in Emails
      PROVE  /\ IsFiniteSet(PendingFor(e)) /\ Cardinality(PendingFor(e)) \in Nat
             /\ Cardinality(PendingFor(e)) <= 1
  BY <1>7, <1>8, NoMoreThan
<1>10. InvitesCounted
  BY <1>2, <1>3, <1>9 DEF InvitesCounted
<1> QED  BY <1>5, <1>10 DEF RepeatsInv

(***************************************************************************)
(* An address has at most one pending invitation for each handler that can *)
(* be in progress, and founds at most one organization for each of them,   *)
(* apart from those whose handler was cut short between complete's two     *)
(* inserts: create and complete check before they insert, and only         *)
(* overlapping requests get past the check.                                *)
(***************************************************************************)
THEOREM RepeatsBoundedByOverlap == Spec => []RepeatsNeedOverlap
<1>1. Init => Shape /\ MembershipInv /\ RepeatsInv
  BY InitShape, MembershipStart, RepeatsStart
<1>2. Shape /\ MembershipInv /\ RepeatsInv /\ [Next]_vars
        => Shape' /\ MembershipInv' /\ RepeatsInv'
  BY NextKnown, MembershipNext, RepeatsNext
<1>3. ASSUME RepeatsInv
      PROVE  RepeatsNeedOverlap
  <2>1. ASSUME NEW e \in Emails
        PROVE  /\ Cardinality(PendingFor(e)) <= Cardinality(Slots)
               /\ Cardinality(FoundedBy(e)) <= Cardinality(Slots)
    <3>1. Inviting(e) \in SUBSET Slots /\ Founding(e) \in SUBSET Slots
      BY DEF Inviting, Founding
    <3>2. /\ Cardinality(Inviting(e)) \in Nat /\ Cardinality(Founding(e)) \in Nat
          /\ Cardinality(Slots) \in Nat
      BY <3>1, HandlersCounted
    <3>3. FewFoundings(e)
      BY <1>3, FoundingsFew DEF RepeatsInv
    <3>4. Cardinality(PendingFor(e)) \in Nat /\ Cardinality(FoundedBy(e)) \in Nat
      BY <1>3, <3>3, FS_CardinalityType DEF RepeatsInv, InvitesCounted, FewFoundings
    <3> QED  BY <1>3, <3>2, <3>3, <3>4 DEF RepeatsInv, InvitesCounted, FewFoundings
  <2> QED  BY <2>1 DEF RepeatsNeedOverlap, FoundedBy
<1> QED  BY <1>1, <1>2, <1>3, PTL DEF Spec

-----------------------------------------------------------------------------
\* Requests about campaigns and prospects

LEMMA RequestsApart ==
    ASSUME Shape, [Next]_vars
    PROVE  \/ \E w \in Slots : Removes(w) /\ Moves(w, RemovalOps)
           \/ \E w \in Slots : /\ PlanStep(w)
                               /\ Moves(w, PlanOps) /\ Elsewhere(RemovalOps)
           \/ /\ UNCHANGED removalVars
              /\ \A v \in Slots : call'[v] = call[v] \/ call'[v].op \notin RemovalOps
<1>1. ASSUME NEW w \in Slots, NEW Ops \in AllOps, Ops # RemovalOps, Moves(w, Ops)
      PROVE  Elsewhere(RemovalOps)
  BY <1>1, Aside, OpsDistinct
<1>2. CASE CutShort
  BY <1>2, CutShortKnown, OpsDistinct, OpsApart DEF Idle
<1>3. CASE Besides /\ ~CutShort
  BY <1>3 DEF Besides
<1>4. ASSUME NEW w \in Slots, NEW Ops \in AllOps, Moves(w, Ops), StepOf(w, Ops)
      PROVE  \/ Removes(w) /\ Moves(w, RemovalOps)
             \/ PlanStep(w) /\ Moves(w, PlanOps) /\ Elsewhere(RemovalOps)
             \/ UNCHANGED removalVars /\ Elsewhere(RemovalOps)
  <2>1. CASE Ops = RemovalOps
    BY <1>4, <2>1, OpsDistinct DEF StepOf
  <2>2. CASE Ops = PlanOps
    BY <1>1, <1>4, <2>2, OpsDistinct DEF StepOf
  <2>3. CASE Ops \notin {RemovalOps, PlanOps}
    BY <1>1, <1>4, <2>3 DEF StepOf
  <2> QED  BY <2>1, <2>2, <2>3
<1> QED  BY <1>2, <1>3, <1>4, NextKnown DEF Elsewhere

\* No handler is about to do more to this row than before.
NoMore(i) ==
    /\ Asking(i)' \subseteq Asking(i)
    /\ Removing(i)' \subseteq Removing(i)
    /\ \A r \in Requests : Approving(i, r)' => Approving(i, r)

LEMMA OthersWait ==
    ASSUME NEW i \in Items,
           \A v \in Slots : \/ call'[v] = call[v]
                            \/ call'[v].op \in {"saveRequest", "removeItem", "commitApproval"}
                                 => call'[v].item # i
    PROVE  NoMore(i)
BY DEF NoMore, Asking, Removing, Approving

LEMMA HandlerWaits ==
    ASSUME NEW w \in Slots, Moves(w, RemovalOps), NEW i \in Items,
           call'[w].op \in {"saveRequest", "removeItem", "commitApproval"}
               => call'[w].item # i
    PROVE  NoMore(i)
BY OthersWait DEF Moves

\* The requests about this row are fewer, or answered.
LEMMA ItemFewer ==
    ASSUME NEW i \in Items, ItemCounted(i), revived \subseteq revived', NoMore(i),
           i \notin revived' => (item'[i] = "gone" <=> item[i] = "gone"),
           \A r \in Requests :
               (Made(r)' /\ request'[r].about = i) =>
                   /\ Made(r) /\ request[r].about = i
                   /\ request'[r].item = request[r].item
                   /\ request'[r].status = "pending" => request[r].status = "pending"
    PROVE  ItemCounted(i)'
<1>1. PICK less, there : less = PendingAbout(i)' /\ there = PendingAbout(i)
  OBVIOUS
<1>2. less \in SUBSET there /\ IsFiniteSet(there)
  BY <1>1 DEF PendingAbout, Pending, Made, ItemCounted
<1>3. /\ IsFiniteSet(less) /\ Cardinality(less) \in Nat /\ Cardinality(there) \in Nat
      /\ Cardinality(less) <= Cardinality(there)
  BY <1>2, NoMoreThan
<1>4. /\ Asking(i) \in SUBSET Slots /\ Removing(i) \in SUBSET Slots
      /\ Asking(i)' \in SUBSET Asking(i) /\ Removing(i)' \in SUBSET Removing(i)
  BY DEF NoMore, Asking, Removing
<1>5. /\ Cardinality(Asking(i)) \in Nat /\ Cardinality(Asking(i)') \in Nat
      /\ Cardinality(Asking(i)') <= Cardinality(Asking(i))
      /\ Cardinality(Removing(i)) \in Nat /\ Cardinality(Removing(i)') \in Nat
      /\ Cardinality(Removing(i)') <= Cardinality(Removing(i))
      /\ Cardinality(Slots) \in Nat
  BY <1>4, HandlersCounted, NoMoreThan
<1>6. CASE i \notin revived' /\ item'[i] = "gone"
  BY <1>1, <1>3, <1>5, <1>6 DEF ItemCounted
<1>7. CASE i \notin revived' /\ item'[i] # "gone"
  <2>1. RequestsCounted(i)
    BY <1>7 DEF ItemCounted
  <2>2. \A r \in Requests : (Made(r)' /\ request'[r].about = i) => request'[r].item = i
    BY <2>1 DEF RequestsCounted
  <2>3. Cardinality(less) + Cardinality(Asking(i)') + Cardinality(Removing(i)')
            <= Cardinality(Slots)
    BY <1>1, <1>3, <1>5, <2>1 DEF RequestsCounted
  <2>4. ASSUME NEW r \in Requests, Approving(i, r)'
        PROVE  Cardinality(less \ {r}) + Cardinality(Asking(i)') < Cardinality(Slots)
    <3>1. Cardinality(there \ {r}) + Cardinality(Asking(i)) < Cardinality(Slots)
      BY <1>1, <2>1, <2>4 DEF RequestsCounted, NoMore
    <3>2. IsFiniteSet(there \ {r}) /\ less \ {r} \in SUBSET (there \ {r})
      BY <1>2, FS_RemoveElement
    <3>3. /\ Cardinality(less \ {r}) \in Nat /\ Cardinality(there \ {r}) \in Nat
          /\ Cardinality(less \ {r}) <= Cardinality(there \ {r})
      BY <3>2, NoMoreThan
    <3> QED  BY <1>5, <3>1, <3>3
  <2>5. RequestsCounted(i)'
    BY <1>1, <2>2, <2>3, <2>4 DEF RequestsCounted
  <2> QED  BY <1>1, <1>3, <1>7, <2>5 DEF ItemCounted
<1> QED  BY <1>1, <1>3, <1>6, <1>7 DEF ItemCounted

\* For the steps that leave the requests as they are
LEMMA ItemRests ==
    ASSUME NEW i \in Items, ItemCounted(i), NoMore(i), request' = request,
           revived \subseteq revived',
           i \notin revived' => (item'[i] = "gone" <=> item[i] = "gone")
    PROVE  ItemCounted(i)'
BY ItemFewer DEF Made

\* Nobody's request about this row is pending: what handlers hold fits.
LEMMA NonePending ==
    ASSUME NEW i \in Items, PendingAbout(i)' = {},
           \A r \in Requests : (Made(r)' /\ request'[r].about = i) => request'[r].item = i
    PROVE  RequestsCounted(i)'
<1>1. PICK none : none = PendingAbout(i)' /\ none = {}
  OBVIOUS
<1>2. PICK some, others : some = Asking(i)' /\ others = Removing(i)'
  OBVIOUS
<1>3. /\ some \in SUBSET Slots /\ others \in SUBSET Slots /\ some \cap others = {}
  BY <1>2 DEF Asking, Removing
<1>4. Cardinality(some) \in Nat /\ Cardinality(others) \in Nat /\ Cardinality(Slots) \in Nat
  BY <1>3, HandlersCounted
<1>5. Cardinality(none) = 0 /\ \A r : none \ {r} = none
  BY <1>1, FS_EmptySet
<1>6. Cardinality(some) + Cardinality(others) <= Cardinality(Slots)
  BY <1>3, HandlersApart
<1>7. ASSUME NEW r \in Requests, Approving(i, r)'
      PROVE  Cardinality(some) < Cardinality(Slots)
  <2>1. PICK v \in Slots : v \notin some
    BY <1>2, <1>7 DEF Approving, Asking
  <2>2. PICK one \in SUBSET Slots : one = {v} /\ some \cap one = {}
    BY <2>1
  <2>3. Cardinality(one) = 1
    BY <2>2, FS_Singleton
  <2>4. Cardinality(some) + Cardinality(one) <= Cardinality(Slots)
    BY <1>3, <2>2, HandlersApart
  <2> QED  BY <1>4, <2>3, <2>4
<1>8. Cardinality(none) + Cardinality(some) + Cardinality(others) <= Cardinality(Slots)
  BY <1>4, <1>5, <1>6
<1>9. ASSUME NEW r \in Requests, Approving(i, r)'
      PROVE  Cardinality(none \ {r}) + Cardinality(some) < Cardinality(Slots)
  <2>1. none \ {r} = none /\ Cardinality(some) < Cardinality(Slots)
    BY <1>1, <1>7, <1>9
  <2> QED  BY <1>4, <1>5, <2>1
<1> QED  BY <1>1, <1>2, <1>8, <1>9 DEF RequestsCounted

LEMMA AskingCounted ==
    ASSUME Shape, RemovalInv, RequestsInv, NEW w \in Slots, Moves(w, RemovalOps),
           FindPending(w), NEW i \in Items
    PROVE  ItemCounted(i)'
<1>1. ItemCounted(i) /\ UNCHANGED <<item, request, revived>>
  BY DEF RequestsInv, FindPending, removalVars
<1>2. CASE Return(w)
  <2>1. call'[w] = Idle
    BY <1>2, Makes DEF Return
  <2> QED  BY <1>1, <2>1, HandlerWaits, ItemRests DEF Idle
<1>3. CASE /\ LinkedPending(call[w].item) = {}
           /\ GoOn(w, [op |-> "saveRequest", item |-> call[w].item])
  <2>1. PICK x : x = call[w].item
    OBVIOUS
  <2>2. call'[w] = [op |-> "saveRequest", item |-> x]
    BY <1>3, <2>1, Makes
  <2>3. CASE x # i
    BY <1>1, <2>2, <2>3, HandlerWaits, ItemRests
  <2>4. CASE x = i /\ i \notin revived /\ item[i] # "gone"
    <3>1. \A r \in Requests : (Made(r) /\ request[r].about = i) => request[r].item = i
      BY <1>1, <2>4 DEF ItemCounted, RequestsCounted
    <3>2. PendingAbout(i) = {}
      BY <1>3, <2>1, <2>4, <3>1 DEF LinkedPending, PendingAbout, Pending
    <3>3. PendingAbout(i)' = PendingAbout(i)
      BY <1>1 DEF PendingAbout, Pending, Made
    <3>4. \A r \in Requests : (Made(r)' /\ request'[r].about = i) => request'[r].item = i
      BY <1>1, <3>1 DEF Made
    <3>5. RequestsCounted(i)'
      BY <3>2, <3>3, <3>4, NonePending
    <3> QED  BY <1>1, <2>4, <3>3, <3>5 DEF ItemCounted
  <2>5. CASE x = i /\ (i \in revived \/ item[i] = "gone")
    <3>1. PendingAbout(i)' = PendingAbout(i)
      BY <1>1 DEF PendingAbout, Pending, Made
    <3> QED  BY <1>1, <2>5, <3>1 DEF ItemCounted
  <2> QED  BY <2>3, <2>4, <2>5
<1> QED  BY <1>2, <1>3 DEF FindPending

LEMMA AskedCounted ==
    ASSUME Shape, RemovalInv, RequestsInv, NEW w \in Slots, Moves(w, RemovalOps),
           SaveRequest(w), NEW i \in Items
    PROVE  ItemCounted(i)'
<1>1. ItemCounted(i) /\ UNCHANGED <<item, revived>>
  BY DEF RequestsInv, SaveRequest
<1>2. PICK x \in Items : x = call[w].item
  BY DEF SaveRequest, RemovalInv, RemovalFits
<1>3. call'[w] = Idle /\ call[w].op = "saveRequest"
  BY Makes DEF SaveRequest, Return
<1>4. NoMore(i)
  BY <1>3, HandlerWaits DEF Idle
<1>a. PICK r \in Requests :
        /\ ~Made(r)
        /\ \/ request' = request
           \/ /\ item[x] = "live"
              /\ request' = [request EXCEPT ![r] =
                                [item |-> x, about |-> x, status |-> "pending"]]
  BY <1>2 DEF SaveRequest
<1>5. PICK new :
        /\ ~Made(r)
        /\ new = [item |-> x, about |-> x, status |-> "pending"]
        /\ \/ request' = request
           \/ item[x] = "live" /\ request' = [request EXCEPT ![r] = new]
  BY <1>a
<1>6. CASE request' = request
  BY <1>1, <1>4, <1>6, ItemRests
<1>7. CASE item[x] = "live" /\ request' = [request EXCEPT ![r] = new]
  <2>1. /\ request'[r] = new /\ new # Absent
        /\ \A q \in Requests : q # r => request'[q] = request[q]
    <3>1. new \in RequestRows
      BY <1>5 DEF RequestRows
    <3> QED  BY <1>7, <3>1, RemovalAssumption DEF RemovalInv, RemovalTypeOK
  <2>2. new.item = x /\ new.about = x /\ new.status = "pending"
    BY <1>5
  <2>3. CASE i # x
    BY <1>1, <1>4, <2>1, <2>2, <2>3, ItemFewer DEF Made
  <2>4. CASE i = x
    <3>1. PICK there : there = PendingAbout(i) /\ PendingAbout(i)' = there \cup {r}
      <4>1. PendingAbout(i)' = PendingAbout(i) \cup {r}
        BY <1>5, <2>1, <2>2, <2>4 DEF PendingAbout, Pending, Made
      <4> QED  BY <4>1
    <3>2. PICK some : /\ some = Asking(i) /\ some \in SUBSET Slots /\ w \in some
                      /\ Asking(i)' = some \ {w}
      <4>1. /\ Asking(i) \in SUBSET Slots /\ w \in Asking(i)
            /\ Asking(i)' = Asking(i) \ {w}
        BY <1>2, <1>3, <2>4 DEF Asking, Moves, Idle
      <4> QED  BY <4>1
    <3>3. PICK others : others = Removing(i) /\ Removing(i)' = others
      <4>1. Removing(i)' = Removing(i)
        BY <1>3 DEF Removing, Moves, Idle
      <4> QED  BY <4>1
    <3>4. IsFiniteSet(there)
      BY <1>1, <3>1 DEF ItemCounted
    <3>5. /\ IsFiniteSet(there \cup {r}) /\ Cardinality(some \ {w}) \in Nat
          /\ Cardinality(there \cup {r}) \in Nat
          /\ Cardinality(there \cup {r}) + Cardinality(some \ {w})
               <= Cardinality(there) + Cardinality(some)
      BY <3>2, <3>4, OneInserted
    <3>6. others \in SUBSET Slots
      BY <3>3 DEF Removing
    <3>7. /\ Cardinality(there) \in Nat /\ Cardinality(some) \in Nat
          /\ Cardinality(others) \in Nat /\ Cardinality(Slots) \in Nat
      BY <3>2, <3>4, <3>6, HandlersCounted, FS_CardinalityType
    <3>8. CASE i \notin revived
      <4>1. RequestsCounted(i)
        BY <1>1, <1>7, <2>4, <3>8 DEF ItemCounted
      <4>2. \A q \in Requests :
              (Made(q)' /\ request'[q].about = i) => request'[q].item = i
        BY <2>1, <2>2, <2>4, <4>1 DEF RequestsCounted, Made
      <4>3. Cardinality(there \cup {r}) + Cardinality(some \ {w}) + Cardinality(others)
                <= Cardinality(Slots)
        BY <3>1, <3>2, <3>3, <3>5, <3>7, <4>1 DEF RequestsCounted
      <4>4. ASSUME NEW q \in Requests, Approving(i, q)'
            PROVE  Cardinality((there \cup {r}) \ {q}) + Cardinality(some \ {w})
                        < Cardinality(Slots)
        <5>1. Approving(i, q)
          BY <1>4, <4>4 DEF NoMore
        <5>2. q # r
          BY <1>5, <5>1 DEF Approving, RemovalInv, RemovalFits, Made
        <5>3. Cardinality(there \ {q}) + Cardinality(some) < Cardinality(Slots)
          BY <3>1, <3>2, <4>1, <5>1 DEF RequestsCounted
        <5>4. PICK rest : rest = there \ {q} /\ (there \cup {r}) \ {q} = rest \cup {r}
          <6>1. (there \cup {r}) \ {q} = (there \ {q}) \cup {r}
            BY <5>2
          <6> QED  BY <6>1
        <5>5. IsFiniteSet(rest)
          BY <3>4, <5>4, FS_RemoveElement
        <5>6. /\ Cardinality(rest \cup {r}) \in Nat
              /\ Cardinality(rest \cup {r}) + Cardinality(some \ {w})
                   <= Cardinality(rest) + Cardinality(some)
          BY <3>2, <5>5, OneInserted
        <5>7. Cardinality(rest) \in Nat
          BY <5>5, FS_CardinalityType
        <5>8. Cardinality(rest) + Cardinality(some) < Cardinality(Slots)
          BY <5>3, <5>4
        <5>9. Cardinality(rest \cup {r}) + Cardinality(some \ {w}) < Cardinality(Slots)
          BY <3>5, <3>7, <5>6, <5>7, <5>8
        <5> QED  BY <5>4, <5>9
      <4>5. RequestsCounted(i)'
        BY <3>1, <3>2, <3>3, <4>2, <4>3, <4>4 DEF RequestsCounted
      <4> QED  BY <1>1, <1>7, <2>4, <3>1, <3>5, <4>5 DEF ItemCounted
    <3>9. CASE i \in revived
      BY <1>1, <3>1, <3>5, <3>9 DEF ItemCounted
    <3> QED  BY <3>8, <3>9
  <2> QED  BY <2>3, <2>4
<1> QED  BY <1>5, <1>6, <1>7

\* A deletion answers the requests it knows of before it takes the row.
LEMMA CancelledCounted ==
    ASSUME Shape, RemovalInv, RequestsInv, NEW w \in Slots, Moves(w, RemovalOps),
           CancelPending(w), NEW i \in Items
    PROVE  ItemCounted(i)'
<1>1. ItemCounted(i) /\ UNCHANGED <<item, revived>>
  BY DEF RequestsInv, CancelPending
<1>2. PICK x \in Items : x = call[w].item
  BY DEF CancelPending, RemovalInv, RemovalFits
<1>3. PICK rs \in SUBSET Requests :
        /\ rs = {r \in Requests : Pending(r) /\ request[r].item = x}
        /\ request' = Answered(rs, "cancelled")
  BY <1>2 DEF CancelPending
<1>4. call'[w] = [op |-> "removeItem", item |-> x] /\ call[w].op = "cancelPending"
  BY <1>2, Makes DEF CancelPending
<1>5. \A r \in rs : Made(r)
  BY <1>3 DEF Pending
<1>6. /\ \A r \in Requests : request'[r] # Absent <=> Made(r)
      /\ \A r \in Requests : Made(r) =>
           /\ request'[r].item = request[r].item /\ request'[r].about = request[r].about
           /\ request'[r].status = IF r \in rs THEN "cancelled" ELSE request[r].status
  BY <1>3, <1>5, AnsweredRows DEF RemovalInv
<1>7. /\ IsFiniteSet(PendingAbout(i)')
      /\ Cardinality(PendingAbout(i)') <= Cardinality(PendingAbout(i))
      /\ Cardinality(PendingAbout(i)') \in Nat /\ Cardinality(PendingAbout(i)) \in Nat
  <2>1. PendingAbout(i)' \subseteq PendingAbout(i)
    BY <1>6 DEF PendingAbout, Pending, Made
  <2>2. IsFiniteSet(PendingAbout(i))
    BY <1>1 DEF ItemCounted
  <2> QED  BY <2>1, <2>2, NoMoreThan
<1>8. CASE i # x
  <2>1. NoMore(i)
    BY <1>4, <1>8, HandlerWaits
  <2>2. \A r \in Requests :
               (Made(r)' /\ request'[r].about = i) =>
                   /\ Made(r) /\ request[r].about = i
                   /\ request'[r].item = request[r].item
                   /\ request'[r].status = "pending" => request[r].status = "pending"
    BY <1>6 DEF Made
  <2> QED  BY <1>1, <2>1, <2>2, ItemFewer
<1>9. CASE i = x /\ i \notin revived /\ item[i] # "gone"
  <2>1. \A r \in Requests : (Made(r) /\ request[r].about = i) => request[r].item = i
    BY <1>1, <1>9 DEF ItemCounted, RequestsCounted
  <2>2. PendingAbout(i)' = {}
    BY <1>3, <1>6, <1>9, <2>1 DEF PendingAbout, Pending, Made
  <2>3. \A r \in Requests : (Made(r)' /\ request'[r].about = i) => request'[r].item = i
    BY <1>6, <2>1 DEF Made
  <2>4. RequestsCounted(i)'
    BY <2>2, <2>3, NonePending
  <2> QED  BY <1>1, <1>7, <1>9, <2>4 DEF ItemCounted
<1>10. CASE i = x /\ (i \in revived \/ item[i] = "gone")
  <2>1. Cardinality(Slots) \in Nat
    BY HandlersCounted
  <2> QED  BY <1>1, <1>7, <1>10, <2>1 DEF ItemCounted
<1> QED  BY <1>8, <1>9, <1>10

\* The request that a transaction is about is not among the others.
LEMMA ApprovingCounted ==
    ASSUME Shape, RemovalInv, RequestsInv, NEW w \in Slots, Moves(w, RemovalOps),
           FindApproved(w), NEW i \in Items
    PROVE  ItemCounted(i)'
<1>1. ItemCounted(i) /\ UNCHANGED <<item, request, revived>>
  BY DEF RequestsInv, FindApproved, removalVars
<1>2. CASE Return(w)
  <2>1. call'[w] = Idle
    BY <1>2, Makes DEF Return
  <2> QED  BY <1>1, <2>1, HandlerWaits, ItemRests DEF Idle
<1>3. CASE Pending(call[w].request) /\ GoOn(w, [call[w] EXCEPT !.op = "commitApproval"])
  <2>1. PICK r, x :
            /\ r \in Requests /\ r = call[w].request /\ x = call[w].item /\ x = request[r].about
            /\ {"request", "item"} \subseteq DOMAIN call[w]
            /\ Pending(r)
    BY <1>3 DEF FindApproved, RemovalInv, RemovalFits
  <2>2. PICK c : c = [call[w] EXCEPT !.op = "commitApproval"]
    OBVIOUS
  <2>3. c.op = "commitApproval" /\ c.request = r /\ c.item = x
    BY <2>1, <2>2, Renamed DEF Shape
  <2>4. call'[w] = c /\ call[w].op = "findApproved"
    BY <1>3, <2>2, Makes DEF FindApproved
  <2>5. CASE x # i
    BY <1>1, <2>3, <2>4, <2>5, HandlerWaits, ItemRests
  <2>6. PendingAbout(i)' = PendingAbout(i)
    BY <1>1 DEF PendingAbout, Pending, Made
  <2>7. CASE x = i /\ i \notin revived /\ item[i] # "gone"
    <3>1. RequestsCounted(i)
      BY <1>1, <2>7 DEF ItemCounted
    <3>2. Asking(i)' = Asking(i) /\ Removing(i)' = Removing(i)
      BY <2>3, <2>4 DEF Asking, Removing, Moves
    <3>3. PICK there, some, others :
            there = PendingAbout(i) /\ some = Asking(i) /\ others = Removing(i)
      OBVIOUS
    <3>4. /\ IsFiniteSet(there) /\ r \in there
          /\ some \in SUBSET Slots /\ others \in SUBSET Slots
      BY <1>1, <2>1, <2>7, <3>3 DEF ItemCounted, PendingAbout, Asking, Removing
    <3>5. /\ Cardinality(there) \in Nat /\ Cardinality(some) \in Nat
          /\ Cardinality(others) \in Nat /\ Cardinality(Slots) \in Nat
      BY <3>4, HandlersCounted, FS_CardinalityType
    <3>6. Cardinality(there \ {r}) = Cardinality(there) - 1
      BY <3>4, FS_RemoveElement
    <3>7. Cardinality(there) + Cardinality(some) + Cardinality(others)
              <= Cardinality(Slots)
      BY <3>1, <3>3 DEF RequestsCounted
    <3>8. Cardinality(there \ {r}) + Cardinality(some) < Cardinality(Slots)
      BY <3>5, <3>6, <3>7
    <3>9. \A q \in Requests : Approving(i, q)' => Approving(i, q) \/ q = r
      BY <2>3, <2>4 DEF Approving, Moves
    <3>10. \A q \in Requests : Approving(i, q)' =>
              Cardinality(there \ {q}) + Cardinality(some) < Cardinality(Slots)
      BY <3>1, <3>3, <3>8, <3>9 DEF RequestsCounted
    <3>11. \A q \in Requests :
             (Made(q)' /\ request'[q].about = i) => request'[q].item = i
      BY <1>1, <3>1 DEF RequestsCounted, Made
    <3>12. RequestsCounted(i)'
      BY <2>6, <3>2, <3>3, <3>7, <3>10, <3>11 DEF RequestsCounted
    <3> QED  BY <1>1, <2>6, <2>7, <3>12 DEF ItemCounted
  <2>8. CASE x = i /\ (i \in revived \/ item[i] = "gone")
    BY <1>1, <2>6, <2>8 DEF ItemCounted
  <2> QED  BY <2>5, <2>7, <2>8
<1> QED  BY <1>2, <1>3 DEF FindApproved

\* The row goes, and the requests about it lose their link.
LEMMA GoneCounted ==
    ASSUME Shape, RemovalInv, RequestsInv, NEW w \in Slots, Moves(w, RemovalOps), Return(w),
           NEW table \in [Requests -> RequestRows \cup {Absent}], NEW x \in Items,
           Removal(table, x),
           \A r \in Requests : table[r] # Absent <=> Made(r),
           \A r \in Requests : Made(r) =>
               /\ table[r].item = request[r].item /\ table[r].about = request[r].about
               /\ table[r].status = "pending" => request[r].status = "pending",
           x \notin revived =>
               Cardinality({r \in PendingAbout(x) : table[r].status = "pending"})
                   < Cardinality(Slots),
           NEW i \in Items
    PROVE  ItemCounted(i)'
<1>1. /\ item' = [item EXCEPT ![x] = "gone"] /\ revived' = revived
      /\ request' = Unlinked(table, x)
      /\ item \in [Items -> {"absent", "live", "gone"}]
  BY DEF Removal, RemovalInv, RemovalTypeOK
<1>2. /\ \A r \in Requests : request'[r] # Absent <=> table[r] # Absent
      /\ \A r \in Requests : table[r] # Absent =>
           request'[r].about = table[r].about /\ request'[r].status = table[r].status
  BY <1>1, UnlinkedRows
<1>3. \A r \in Requests : (Made(r) /\ table[r].item # x) => request'[r] = table[r]
  BY <1>1 DEF Unlinked
<1>4. call'[w] = Idle
  BY Makes DEF Return
<1>5. ItemCounted(i)
  BY DEF RequestsInv
<1>6. CASE i # x
  <2>1. NoMore(i)
    BY <1>4, HandlerWaits DEF Idle
  <2>2. \A r \in Requests : (Made(r) /\ request[r].about = i) => request[r].item # x
    BY <1>6, RemovalAssumption DEF RemovalInv, RequestsLinked
  <2>3. \A r \in Requests :
               (Made(r)' /\ request'[r].about = i) =>
                   /\ Made(r) /\ request[r].about = i
                   /\ request'[r].item = request[r].item
                   /\ request'[r].status = "pending" => request[r].status = "pending"
    BY <1>2, <1>3, <2>2 DEF Made
  <2> QED  BY <1>1, <1>5, <1>6, <2>1, <2>3, ItemFewer
<1>7. CASE i = x
  <2>1. PICK less : less = {r \in PendingAbout(x) : table[r].status = "pending"}
    OBVIOUS
  <2>2. PendingAbout(i)' = less
    BY <1>2, <1>7, <2>1 DEF PendingAbout, Pending, Made
  <2>3. IsFiniteSet(PendingAbout(i)) /\ less \in SUBSET PendingAbout(i)
    BY <1>5, <1>7, <2>1 DEF ItemCounted
  <2>4. IsFiniteSet(less)
    BY <2>3, NoMoreThan
  <2>5. item'[i] = "gone"
    BY <1>1, <1>7
  <2> QED  BY <1>1, <1>7, <2>1, <2>2, <2>4, <2>5 DEF ItemCounted
<1> QED  BY <1>6, <1>7

LEMMA RemovedCounted ==
    ASSUME Shape, RemovalInv, RequestsInv, NEW w \in Slots, Moves(w, RemovalOps),
           RemoveItem(w), NEW i \in Items
    PROVE  ItemCounted(i)'
<1>1. PICK x \in Items : x = call[w].item
  BY DEF RemoveItem, RemovalInv, RemovalFits
<1>2. Return(w) /\ call[w].op = "removeItem" /\ ItemCounted(i)
  BY DEF RemoveItem, RequestsInv
<1>3. CASE UNCHANGED removalVars
  <2>1. call'[w] = Idle
    BY <1>2, Makes DEF Return
  <2> QED  BY <1>2, <1>3, <2>1, HandlerWaits, ItemRests DEF Idle, removalVars
<1>4. CASE item[x] = "live" /\ Removal(request, x)
  <2>1. PICK table : table = request
    OBVIOUS
  <2>2. table \in [Requests -> RequestRows \cup {Absent}]
    BY <2>1 DEF RemovalInv, RemovalTypeOK
  <2>3. ASSUME x \notin revived
        PROVE  Cardinality({r \in PendingAbout(x) : table[r].status = "pending"})
                   < Cardinality(Slots)
    <3>1. ItemCounted(x) /\ RequestsCounted(x)
      BY <1>4, <2>3 DEF RequestsInv, ItemCounted
    <3>2. PICK less : less = {r \in PendingAbout(x) : table[r].status = "pending"}
      OBVIOUS
    <3>3. IsFiniteSet(PendingAbout(x)) /\ less \in SUBSET PendingAbout(x)
      BY <3>1, <3>2 DEF ItemCounted
    <3>4. /\ Cardinality(less) \in Nat /\ Cardinality(PendingAbout(x)) \in Nat
          /\ Cardinality(less) <= Cardinality(PendingAbout(x))
      BY <3>3, NoMoreThan
    <3>5. PICK one \in SUBSET Removing(x) : one = {w}
      BY <1>1, <1>2 DEF Removing
    <3>6. Asking(x) \in SUBSET Slots /\ Removing(x) \in SUBSET Slots
      BY DEF Asking, Removing
    <3>7. Cardinality(one) = 1
      BY <3>5, FS_Singleton
    <3>8. IsFiniteSet(Removing(x)) /\ Cardinality(one) <= Cardinality(Removing(x))
      BY <3>5, <3>6, HandlersCounted, NoMoreThan
    <3>9. /\ Cardinality(Asking(x)) \in Nat /\ Cardinality(Removing(x)) \in Nat
          /\ Cardinality(Slots) \in Nat
      BY <3>6, HandlersCounted
    <3>10. Cardinality(PendingAbout(x)) + Cardinality(Asking(x)) + Cardinality(Removing(x))
               <= Cardinality(Slots)
      BY <3>1 DEF RequestsCounted
    <3>11. Cardinality(less) < Cardinality(Slots)
      BY <3>4, <3>7, <3>8, <3>9, <3>10
    <3> QED  BY <3>2, <3>11
  <2>4. /\ \A r \in Requests : table[r] # Absent <=> Made(r)
        /\ \A r \in Requests : Made(r) =>
             /\ table[r].item = request[r].item /\ table[r].about = request[r].about
             /\ table[r].status = "pending" => request[r].status = "pending"
        /\ Removal(table, x)
    BY <1>4, <2>1 DEF Made
  <2> HIDE <2>1
  <2> QED  BY <1>2, <2>2, <2>3, <2>4, GoneCounted
<1> QED  BY <1>1, <1>3, <1>4 DEF RemoveItem

LEMMA ApprovedCounted ==
    ASSUME Shape, RemovalInv, RequestsInv, NEW w \in Slots, Moves(w, RemovalOps),
           CommitApproval(w), NEW i \in Items
    PROVE  ItemCounted(i)'
<1>1. PICK r, x : /\ r \in Requests /\ r = call[w].request /\ x = call[w].item
                 /\ Made(r) /\ x = request[r].about
  BY DEF CommitApproval, RemovalInv, RemovalFits, Made
<1>2. x \in Items
  BY <1>1 DEF RemovalInv, RemovalTypeOK, RequestRows, Made
<1>3. Return(w) /\ call[w].op = "commitApproval" /\ ItemCounted(i)
  BY DEF CommitApproval, RequestsInv
<1>4. CASE UNCHANGED removalVars
  <2>1. call'[w] = Idle
    BY <1>3, Makes DEF Return
  <2> QED  BY <1>3, <1>4, <2>1, HandlerWaits, ItemRests DEF Idle, removalVars
<1>5. CASE item[x] = "live" /\ Removal(Answered({r}, "approved"), x)
  <2>1. PICK table : table = Answered({r}, "approved")
    OBVIOUS
  <2>2. /\ table \in [Requests -> RequestRows \cup {Absent}]
        /\ \A q \in Requests : table[q] # Absent <=> Made(q)
        /\ \A q \in Requests : Made(q) =>
             /\ table[q].item = request[q].item /\ table[q].about = request[q].about
             /\ table[q].status = IF q \in {r} THEN "approved" ELSE request[q].status
    BY <1>1, <2>1, AnsweredRows DEF RemovalInv
  <2>3. Removal(table, x)
    BY <1>5, <2>1
  <2>4. ASSUME x \notin revived
        PROVE  Cardinality({q \in PendingAbout(x) : table[q].status = "pending"})
                   < Cardinality(Slots)
    <3>1. ItemCounted(x) /\ RequestsCounted(x)
      BY <1>2, <1>5, <2>4 DEF RequestsInv, ItemCounted
    <3>2. Approving(x, r)
      BY <1>1, <1>3 DEF Approving
    <3>3. PICK less : less = {q \in PendingAbout(x) : table[q].status = "pending"}
      OBVIOUS
    <3>4. PICK rest : rest = PendingAbout(x) \ {r}
      OBVIOUS
    <3>5. less \in SUBSET rest
      BY <2>2, <3>3, <3>4 DEF PendingAbout, Pending
    <3>6. IsFiniteSet(rest)
      BY <3>1, <3>4, FS_RemoveElement DEF ItemCounted
    <3>7. /\ Cardinality(less) \in Nat /\ Cardinality(rest) \in Nat
          /\ Cardinality(less) <= Cardinality(rest)
      BY <3>5, <3>6, NoMoreThan
    <3>8. Cardinality(rest) + Cardinality(Asking(x)) < Cardinality(Slots)
      BY <1>1, <3>1, <3>2, <3>4 DEF RequestsCounted
    <3>9. Asking(x) \in SUBSET Slots
      BY DEF Asking
    <3>10. Cardinality(Asking(x)) \in Nat /\ Cardinality(Slots) \in Nat
      BY <3>9, HandlersCounted
    <3>11. Cardinality(less) < Cardinality(Slots)
      BY <3>7, <3>8, <3>10
    <3> QED  BY <3>3, <3>11
  <2>5. /\ table \in [Requests -> RequestRows \cup {Absent}]
        /\ \A q \in Requests : table[q] # Absent <=> Made(q)
        /\ \A q \in Requests : Made(q) =>
             /\ table[q].item = request[q].item /\ table[q].about = request[q].about
             /\ table[q].status = "pending" => request[q].status = "pending"
    BY <2>2
  <2> HIDE <2>1
  <2> QED  BY <1>2, <1>3, <2>3, <2>4, <2>5, GoneCounted
<1> QED  BY <1>1, <1>4, <1>5 DEF CommitApproval, ApprovalCommitted

LEMMA AnsweredCounted ==
    ASSUME Shape, RemovalInv, RequestsInv, NEW w \in Slots, Moves(w, RemovalOps),
           UpdateAnswered(w), NEW i \in Items
    PROVE  ItemCounted(i)'
<1>1. /\ call[w].request \in Requests /\ Made(call[w].request)
      /\ call[w].answer \in {"rejected", "cancelled"}
  BY DEF UpdateAnswered, RemovalInv, RemovalFits, Made
<1>2. PICK rs \in SUBSET Requests, answer \in {call[w].answer} :
        rs = {call[w].request} /\ request' = Answered(rs, answer)
  BY <1>1 DEF UpdateAnswered
<1>3. /\ \A r \in Requests : request'[r] # Absent <=> Made(r)
      /\ \A r \in Requests : Made(r) =>
           /\ request'[r].item = request[r].item /\ request'[r].about = request[r].about
           /\ request'[r].status = IF r \in rs THEN answer ELSE request[r].status
  BY <1>1, <1>2, AnsweredRows DEF RemovalInv
<1>4. UNCHANGED <<item, revived>> /\ ItemCounted(i)
  BY DEF UpdateAnswered, RequestsInv
<1>5. call'[w] = Idle
  BY Makes DEF UpdateAnswered, Return
<1>6. NoMore(i)
  BY <1>5, HandlerWaits DEF Idle
<1>7. \A r \in Requests :
         (Made(r)' /\ request'[r].about = i) =>
             /\ Made(r) /\ request[r].about = i
             /\ request'[r].item = request[r].item
             /\ request'[r].status = "pending" => request[r].status = "pending"
  BY <1>1, <1>2, <1>3 DEF Made
<1> QED  BY <1>4, <1>6, <1>7, ItemFewer

\* A row that was saved after its deletion is not counted any more.
LEMMA RestoredCounted ==
    ASSUME RemovalInv, RequestsInv, NEW x \in Items, Restored(x), NEW i \in Items, NoMore(i)
    PROVE  ItemCounted(i)'
<1>1. /\ item' = [item EXCEPT ![x] = "live"] /\ request' = request
      /\ revived' = IF item[x] = "live" THEN revived ELSE revived \cup {x}
      /\ item \in [Items -> {"absent", "live", "gone"}]
  BY DEF Restored, RemovalInv, RemovalTypeOK
<1>2. i \notin revived' => (item'[i] = "gone" <=> item[i] = "gone")
  BY <1>1
<1>3. revived \subseteq revived' /\ ItemCounted(i)
  BY <1>1 DEF RequestsInv
<1> QED  BY <1>1, <1>2, <1>3, ItemRests

LEMMA InsertedCounted ==
    ASSUME Shape, RemovalInv, RequestsInv, NEW w \in Slots, Moves(w, RemovalOps),
           InsertItem(w) \/ InsertImported(w), NEW i \in Items
    PROVE  ItemCounted(i)'
<1>1. /\ request' = request /\ revived' = revived /\ ItemCounted(i)
      /\ item \in [Items -> {"absent", "live", "gone"}]
  BY DEF InsertItem, InsertImported, RequestsInv, RemovalInv, RemovalTypeOK
<1>2. item'[i] = "gone" <=> item[i] = "gone"
  <2>1. CASE InsertItem(w)
    <3>1. PICK x \in Unborn(call[w].kind) : item' = [item EXCEPT ![x] = "live"]
      BY <2>1 DEF InsertItem
    <3>2. x \in Items /\ item[x] = "absent"
      BY <3>1 DEF Unborn
    <3> QED  BY <1>1, <3>1, <3>2
  <2>2. CASE InsertImported(w)
    <3>1. PICK new \in SUBSET Unborn(call[w].kind) :
              item' = [j \in Items |-> IF j \in new THEN "live" ELSE item[j]]
      BY <2>2 DEF InsertImported
    <3>2. \A x \in new : item[x] = "absent"
      BY <3>1 DEF Unborn
    <3> QED  BY <1>1, <3>1, <3>2
  <2> QED  BY <2>1, <2>2
<1>3. call'[w] = Idle
  BY Makes DEF InsertItem, InsertImported, Return
<1>4. NoMore(i)
  BY <1>3, HandlerWaits DEF Idle
<1> QED  BY <1>1, <1>2, <1>4, ItemRests

\* A request that arrives, or is refused, changes nothing yet.
LEMMA BegunCounted ==
    ASSUME Shape, RequestsInv, NEW w \in Slots, Moves(w, RemovalOps), NEW c,
           Begin(w, c) \/ GoOn(w, c), UNCHANGED removalVars,
           c.op \notin {"saveRequest", "removeItem", "commitApproval"}, NEW i \in Items
    PROVE  ItemCounted(i)'
<1>1. call'[w] = c
  BY Makes
<1> QED  BY <1>1, HandlerWaits, ItemRests DEF RequestsInv, removalVars

LEMMA RequestsStep ==
    ASSUME Shape, RemovalInv, RequestsInv, NEW w \in Slots, Moves(w, RemovalOps), Removes(w),
           NEW i \in Items
    PROVE  ItemCounted(i)'
<1>1. ASSUME NEW kind \in Keys, CreateItem(w, kind)
      PROVE  ItemCounted(i)'
  BY <1>1, BegunCounted DEF CreateItem
<1>2. ASSUME NEW x \in Items, DeleteItem(w, x) \/ UpdateItem(w, x) \/ AskDelete(w, x)
      PROVE  ItemCounted(i)'
  BY <1>2, BegunCounted DEF DeleteItem, UpdateItem, AskDelete
<1>3. ASSUME NEW r \in Requests, Approve(w, r)
      PROVE  ItemCounted(i)'
  BY <1>3, BegunCounted DEF Approve
<1>4. ASSUME NEW r \in Requests, NEW answer, Answer(w, r, answer)
      PROVE  ItemCounted(i)'
  BY <1>4, BegunCounted DEF Answer
<1>5. CASE ImportItems(w)
  BY <1>5, BegunCounted DEF ImportItems
<1>6. CASE SelectAnswered(w)
  <2>1. PICK c : c = [call[w] EXCEPT !.op = "updateAnswered"]
    OBVIOUS
  <2>2. c.op = "updateAnswered"
    BY <2>1, Renamed DEF Shape
  <2>3. /\ GoOn(w, c) \/ GoOn(w, Idle)
        /\ UNCHANGED removalVars
    BY <1>6, <2>1 DEF SelectAnswered, Return
  <2>4. Idle.op = "idle"
    BY DEF Idle
  <2> QED  BY <2>2, <2>3, <2>4, BegunCounted
<1>7. CASE SaveItem(w)
  <2>1. PICK x \in Items : x = call[w].item
    BY <1>7 DEF SaveItem, RemovalInv, RemovalFits
  <2>2. call'[w] = Idle
    BY <1>7, Makes DEF SaveItem, Return
  <2>3. NoMore(i)
    BY <2>2, HandlerWaits DEF Idle
  <2> QED  BY <1>7, <2>1, <2>3, RestoredCounted DEF SaveItem
<1> QED  BY <1>1, <1>2, <1>3, <1>4, <1>5, <1>6, <1>7, AskingCounted, AskedCounted,
            CancelledCounted, ApprovingCounted, RemovedCounted, ApprovedCounted,
            AnsweredCounted, InsertedCounted
         DEF Removes, RowStep, RequestStep, ImportStep

LEMMA RequestsNext ==
    ASSUME Shape, RemovalInv, RequestsInv, [Next]_vars
    PROVE  RequestsInv'
<1>1. ASSUME NEW w \in Slots, Removes(w), Moves(w, RemovalOps)
      PROVE  RequestsInv'
  BY <1>1, RequestsStep DEF RequestsInv
<1>2. ASSUME NEW i \in Items,
             \A v \in Slots : call'[v] = call[v] \/ call'[v].op \notin RemovalOps
      PROVE  NoMore(i)
  BY <1>2, OthersWait DEF RemovalOps
<1>3. ASSUME UNCHANGED removalVars,
             \A v \in Slots : call'[v] = call[v] \/ call'[v].op \notin RemovalOps
      PROVE  RequestsInv'
  BY <1>2, <1>3, ItemRests DEF RequestsInv, removalVars
<1>4. ASSUME NEW w \in Slots, PlanStep(w), Elsewhere(RemovalOps)
      PROVE  RequestsInv'
  <2>1. \A v \in Slots : call'[v] = call[v] \/ call'[v].op \notin RemovalOps
    BY <1>4 DEF Elsewhere
  <2>2. CASE SaveCampaign(w)
    <3>1. PICK x \in Items : x = call[w].item
      BY <2>2 DEF SaveCampaign, RemovalInv, RemovalFits
    <3> QED  BY <1>2, <2>1, <2>2, <3>1, RestoredCounted DEF SaveCampaign, RequestsInv
  <2>3. CASE SaveTicked(w)
    <3>1. PICK x \in Items : x = call[w].item
      BY <2>3 DEF SaveTicked, RemovalInv, RemovalFits
    <3> QED  BY <1>2, <2>1, <2>3, <3>1, RestoredCounted DEF SaveTicked, RequestsInv
  <2>4. CASE UNCHANGED removalVars
    BY <1>3, <2>1, <2>4
  <2> QED  BY <1>4, <2>2, <2>3, <2>4 DEF PlanStep, Schedule, AddRecipient, UpdateCampaign,
                                   TickCampaign, SaveSchedule, SaveRecipient
<1> QED  BY <1>1, <1>3, <1>4, RequestsApart

LEMMA RequestsStart ==
    ASSUME Init
    PROVE  RequestsInv
<1>1. ASSUME NEW i \in Items
      PROVE  /\ PendingAbout(i) = {} /\ Asking(i) = {} /\ Removing(i) = {}
             /\ \A r \in Requests : ~Made(r) /\ ~Approving(i, r)
  BY DEF Init, RemovalInit, SlotsInit, Idle, PendingAbout, Pending, Made, Asking,
         Removing, Approving
<1>2. Cardinality({}) = 0 /\ IsFiniteSet({}) /\ Cardinality(Slots) \in Nat
  BY HandlersCounted, FS_EmptySet
<1>3. Cardinality(Slots) # 0
  BY WorkspaceAssumption, FS_EmptySet
<1>4. ASSUME NEW i \in Items
      PROVE  /\ Cardinality(PendingAbout(i)) = 0 /\ Cardinality(Asking(i)) = 0
             /\ Cardinality(Removing(i)) = 0 /\ IsFiniteSet(PendingAbout(i))
  BY <1>1, <1>2
<1> QED  BY <1>1, <1>2, <1>3, <1>4 DEF RequestsInv, ItemCounted, RequestsCounted

(***************************************************************************)
(* Of the requests to delete one campaign or prospect, no more are pending *)
(* than handlers can be in progress, and fewer once it is deleted: asking  *)
(* checks before it inserts, a deletion cancels those it finds before it   *)
(* takes the row, and an approval is one of those that were pending.       *)
(***************************************************************************)
THEOREM PendingRequestsBounded == Spec => []FewRequestsPend
<1>1. Init => Shape /\ RemovalInv /\ RequestsInv
  BY InitShape, RemovalStart, RequestsStart
<1>2. Shape /\ RemovalInv /\ RequestsInv /\ [Next]_vars
        => Shape' /\ RemovalInv' /\ RequestsInv'
  BY NextKnown, RemovalNext, RequestsNext
<1>3. ASSUME RequestsInv
      PROVE  FewRequestsPend
  <2>1. ASSUME NEW i \in Items \ revived
        PROVE  /\ Cardinality(PendingAbout(i)) <= Cardinality(Slots)
               /\ item[i] = "gone" => Cardinality(PendingAbout(i)) < Cardinality(Slots)
    <3>1. ItemCounted(i) /\ Asking(i) \in SUBSET Slots /\ Removing(i) \in SUBSET Slots
      BY <1>3 DEF RequestsInv, Asking, Removing
    <3>2. /\ Cardinality(Asking(i)) \in Nat /\ Cardinality(Removing(i)) \in Nat
          /\ Cardinality(Slots) \in Nat /\ Cardinality(PendingAbout(i)) \in Nat
      BY <3>1, HandlersCounted, FS_CardinalityType DEF ItemCounted
    <3> QED  BY <3>1, <3>2 DEF ItemCounted, RequestsCounted
  <2> QED  BY <2>1 DEF FewRequestsPend
<1> QED  BY <1>1, <1>2, <1>3, PTL DEF Spec

-----------------------------------------------------------------------------
(* Members and roles.  As long as handlers about a member or a role do not *)
(* overlap, what is stored is what was decided last, but for a replacement *)
(* that has deleted and not yet inserted.                                  *)

PersonOps == {"savePerson", "insertPerson", "findRole", "clearRoleOf", "insertRoleOf"}
RoleOps == {"clearGrants", "insertGrants", "saveRole", "removeRole"}

Decisions ==
    [standing : [People -> {"new", "active", "disabled"}],
     roles : [People -> SUBSET Roles],
     grants : [Roles -> SUBSET Permissions]]

TeamTyped ==
    /\ standing \in [People -> {"new", "active", "disabled"}]
    /\ rolesOf \in [People -> SUBSET Roles]
    /\ roleAt \in [Roles -> {"new", "live", "gone"}]
    /\ grants \in [Roles -> SUBSET Permissions]
    /\ decided \in Decisions
    /\ contested \subseteq People \cup Roles

\* What the handler that makes the call c knows of the rows
TeamFits(c, stand, at, given, set, apart) ==
    /\ c.op \in TeamOps => c \in TeamCalls
    /\ c.op \in PersonOps => c.person \in c.about
    /\ c.op = "savePerson" /\ ~c.sets /\ c.person \notin apart
         => c.status = stand[c.person]
    /\ c.op \in {"insertPerson", "clearRoleOf", "insertRoleOf"} => at[c.role] # "new"
    /\ c.op = "insertRoleOf" /\ c.person \notin apart
         => set.roles[c.person] = {c.role}
    /\ c.op = "insertRole" => \E r \in Roles : at[r] = "new"
    /\ c.op \in RoleOps => /\ c.role \in c.about /\ at[c.role] # "new"
                           /\ c.role \notin apart => at[c.role] = "live"
    /\ c.op = "removeRole" => c.role \notin SystemRoles
    /\ c.op = "insertGrants" /\ c.role \notin apart
         => given[c.role] = {} /\ set.grants[c.role] = c.permissions

\* Handlers whose overlap is not on record are about different rows.
TeamApart ==
    \A v, w \in Slots :
        v # w =>
          /\ (AboutOf(v) \cap AboutOf(w)) \cap People \subseteq contested
          /\ (call[v].op \in RoleOps /\ call[w].op \in RoleOps
                /\ call[v].role = call[w].role) => call[v].role \in contested
          /\ ~(call[v].op = "insertRole" /\ call[w].op = "insertRole")

GivingTo(p) == \E w \in Slots : call[w].op = "insertRoleOf" /\ call[w].person = p
GrantingTo(r) == \E w \in Slots : call[w].op = "insertGrants" /\ call[w].role = r

StandingsAgree ==
    \A p \in People \ contested : standing[p] = decided.standing[p]

\* A role that was removed, or may have been by a handler in between
MayBeGone(r) == roleAt[r] = "gone" \/ r \in contested \ SystemRoles

RolesAgree ==
    \A p \in People \ contested :
        /\ rolesOf[p] \subseteq decided.roles[p]
        /\ ~GivingTo(p) =>
              \A r \in decided.roles[p] : r \in rolesOf[p] \/ MayBeGone(r)

GrantsAgree ==
    \A r \in Roles \ contested :
        /\ grants[r] = {} \/ grants[r] = decided.grants[r]
        /\ ~GrantingTo(r) => grants[r] = decided.grants[r]
        /\ roleAt[r] = "gone" => decided.grants[r] = {}

SystemRolesStay == \A r \in SystemRoles : roleAt[r] = "live"

TeamInv ==
    /\ TeamTyped
    /\ \A w \in Slots : TeamFits(call[w], standing, roleAt, grants, decided, contested)
    /\ TeamApart
    /\ StandingsAgree /\ RolesAgree /\ GrantsAgree /\ SystemRolesStay

-----------------------------------------------------------------------------
\* Calls, and what they are about

LEMMA TeamCallsKnown ==
    ASSUME NEW c \in TeamCalls
    PROVE  /\ c.op \in TeamOps /\ "op" \in DOMAIN c
           /\ c.about \subseteq People \cup Roles
           /\ c.op = "savePerson" =>
                c \in [op : {"savePerson"}, about : Abouts, person : People,
                       status : {"active", "disabled"}, sets : BOOLEAN,
                       roles : SUBSET Roles]
           /\ c.op \in PersonOps \ {"savePerson"} =>
                c \in [op : {"insertPerson", "findRole", "clearRoleOf", "insertRoleOf"},
                       about : Abouts, person : People, role : Roles]
           /\ c.op = "insertRole" =>
                c \in [op : {"insertRole"}, about : Abouts,
                       permissions : SUBSET Permissions]
           /\ c.op \in {"clearGrants", "insertGrants"} =>
                c \in [op : {"clearGrants", "insertGrants"}, about : Abouts, role : Roles,
                       permissions : SUBSET Permissions, new : BOOLEAN]
           /\ c.op \in {"saveRole", "removeRole"} =>
                c \in [op : {"saveRole", "removeRole"}, about : Abouts, role : Roles]
<1>1. CASE c \in [op : {"savePerson"}, about : Abouts, person : People,
                  status : {"active", "disabled"}, sets : BOOLEAN,
                  roles : SUBSET Roles]
  BY <1>1 DEF TeamOps, PersonOps, Abouts
<1>2. CASE c \in [op : {"insertPerson", "findRole", "clearRoleOf", "insertRoleOf"},
                  about : Abouts, person : People, role : Roles]
  BY <1>2 DEF TeamOps, PersonOps, Abouts
<1>3. CASE c \in [op : {"insertRole"}, about : Abouts, permissions : SUBSET Permissions]
  BY <1>3 DEF TeamOps, PersonOps, Abouts
<1>4. CASE c \in [op : {"clearGrants", "insertGrants"}, about : Abouts, role : Roles,
                  permissions : SUBSET Permissions, new : BOOLEAN]
  BY <1>4 DEF TeamOps, PersonOps, Abouts
<1>5. CASE c \in [op : {"saveRole", "removeRole"}, about : Abouts, role : Roles]
  BY <1>5 DEF TeamOps, PersonOps, Abouts
<1> QED  BY <1>1, <1>2, <1>3, <1>4, <1>5 DEF TeamCalls

LEMMA IdleNotTeam == Idle.op \notin TeamOps /\ Idle \notin TeamCalls
BY TeamCallsKnown DEF Idle, TeamOps

LEMMA AboutKnown ==
    ASSUME NEW w \in Slots
    PROVE  /\ call[w] \in TeamCalls => AboutOf(w) = call[w].about
           /\ call[w].op \notin TeamOps => AboutOf(w) = {}
           /\ call'[w] \in TeamCalls => AboutOf(w)' = call'[w].about
           /\ call'[w].op \notin TeamOps => AboutOf(w)' = {}
           /\ call'[w] = call[w] => AboutOf(w)' = AboutOf(w)
BY TeamCallsKnown DEF AboutOf

\* The next call of a handler that goes on with what it holds
LEMMA TeamRenamed ==
    ASSUME NEW c \in TeamCalls, NEW name, NEW d, d = [c EXCEPT !.op = name],
           \/ c.op \in {"insertPerson", "findRole"} /\ name = "clearRoleOf"
           \/ c.op = "clearRoleOf" /\ name = "insertRoleOf"
           \/ c.op = "clearGrants" /\ name = "insertGrants"
    PROVE  /\ d \in TeamCalls /\ d.op = name /\ d.about = c.about /\ d.role = c.role
           /\ c.op \in PersonOps => d.person = c.person
           /\ c.op \notin PersonOps => d.permissions = c.permissions
<1>1. CASE c \in [op : {"insertPerson", "findRole", "clearRoleOf", "insertRoleOf"},
                  about : Abouts, person : People, role : Roles]
  <2>1. d \in [op : {"insertPerson", "findRole", "clearRoleOf", "insertRoleOf"},
               about : Abouts, person : People, role : Roles]
    BY <1>1
  <2>2. d \in TeamCalls
    BY <2>1 DEF TeamCalls
  <2>3. d.op = name /\ d.about = c.about /\ d.role = c.role /\ d.person = c.person
    BY <1>1
  <2> QED  BY <1>1, <2>2, <2>3 DEF PersonOps
<1>2. CASE c \in [op : {"clearGrants", "insertGrants"}, about : Abouts, role : Roles,
                  permissions : SUBSET Permissions, new : BOOLEAN]
  <2>1. d \in [op : {"clearGrants", "insertGrants"}, about : Abouts, role : Roles,
               permissions : SUBSET Permissions, new : BOOLEAN]
    BY <1>2
  <2>2. d \in TeamCalls
    BY <2>1 DEF TeamCalls
  <2>3. /\ d.op = name /\ d.about = c.about /\ d.role = c.role
        /\ d.permissions = c.permissions
    BY <1>2
  <2> QED  BY <1>2, <2>2, <2>3 DEF PersonOps
<1> QED  BY <1>1, <1>2, TeamCallsKnown DEF PersonOps

-----------------------------------------------------------------------------
\* Overlaps

LEMMA TeamMovesApart ==
    ASSUME Shape, [Next]_vars
    PROVE  \/ \E w \in Slots : TeamStep(w) /\ Moves(w, TeamOps)
           \/ UNCHANGED teamVars /\ Elsewhere(TeamOps)
           \/ TeamRestarted /\ \A v \in Slots : call'[v] = Idle
           \/ \E w \in Slots : ReplacementLost(w) /\ Return(w)
<1>1. ASSUME NEW w \in Slots, NEW Ops \in AllOps, Ops # TeamOps, Moves(w, Ops),
             StepOf(w, Ops)
      PROVE  UNCHANGED teamVars /\ Elsewhere(TeamOps)
  BY <1>1, Aside, OpsDistinct DEF StepOf
<1>2. CASE Restart
  BY <1>2 DEF Restart, LoseCalls
<1>3. CASE \E w \in Slots : CallFails(w)
  BY <1>3 DEF CallFails
<1>4. CASE Besides /\ ~CutShort
  BY <1>4 DEF Besides, Elsewhere
<1> QED  BY <1>1, <1>2, <1>3, <1>4, NextKnown DEF StepOf, CutShort

\* What one handler writes, none of the others knows otherwise.
LEMMA OthersFit ==
    ASSUME TeamInv, NEW w \in Slots, Moves(w, TeamOps), contested \subseteq contested',
           \A p \in People \ AboutOf(w) :
               standing'[p] = standing[p] /\ decided'.roles[p] = decided.roles[p],
           \A r \in Roles : roleAt[r] # "new" => roleAt'[r] # "new",
           call[w].op # "insertRole" => \A r \in Roles : roleAt[r] = "new"
                                                            => roleAt'[r] = "new",
           \A r \in Roles : (call[w].op \in RoleOps => call[w].role # r) =>
               /\ roleAt[r] = "live" => roleAt'[r] = "live"
               /\ grants'[r] = grants[r] /\ decided'.grants[r] = decided.grants[r]
    PROVE  \A v \in Slots : v # w =>
               TeamFits(call'[v], standing', roleAt', grants', decided', contested')
<1>1. SUFFICES ASSUME NEW v \in Slots, v # w
               PROVE  TeamFits(call'[v], standing', roleAt', grants', decided', contested')
  OBVIOUS
<1>2. PICK c : c = call[v] /\ c = call'[v]
  BY <1>1 DEF Moves
<1>3. /\ TeamFits(c, standing, roleAt, grants, decided, contested)
      /\ v # w => /\ (AboutOf(v) \cap AboutOf(w)) \cap People \subseteq contested
                  /\ (c.op \in RoleOps /\ call[w].op \in RoleOps
                        /\ c.role = call[w].role) => c.role \in contested
                  /\ ~(c.op = "insertRole" /\ call[w].op = "insertRole")
  BY <1>2 DEF TeamInv, TeamApart
<1>4. CASE c.op \notin TeamOps
  BY <1>2, <1>4 DEF TeamFits, PersonOps, RoleOps, TeamOps
<1>5. CASE c.op \in TeamOps
  <2>1. c \in TeamCalls /\ AboutOf(v) = c.about
    BY <1>2, <1>3, <1>5, AboutKnown DEF TeamFits
  <2>2. CASE c.op \in PersonOps
    <3>1. c.person \in c.about /\ c.person \in People
      BY <1>3, <2>1, <2>2, TeamCallsKnown DEF TeamFits, PersonOps
    <3>2. c.person \notin contested' => c.person \notin AboutOf(w)
      BY <1>1, <1>3, <2>1, <3>1
    <3>3. c.op # "savePerson" => c.role \in Roles
      BY <2>1, <2>2, TeamCallsKnown
    <3> QED  BY <1>2, <1>3, <2>1, <2>2, <3>1, <3>2, <3>3
             DEF TeamFits, PersonOps, RoleOps, TeamOps
  <2>3. CASE c.op \in RoleOps
    <3>1. c.role \in Roles
      BY <2>1, <2>3, TeamCallsKnown DEF RoleOps
    <3>2. c.role \notin contested' =>
             /\ roleAt[c.role] = "live" => roleAt'[c.role] = "live"
             /\ grants'[c.role] = grants[c.role]
             /\ decided'.grants[c.role] = decided.grants[c.role]
      BY <1>1, <1>3, <2>3, <3>1
    <3> QED  BY <1>2, <1>3, <2>1, <2>3, <3>1, <3>2
             DEF TeamFits, PersonOps, RoleOps, TeamOps
  <2>4. CASE c.op = "insertRole"
    BY <1>1, <1>2, <1>3, <2>1, <2>4 DEF TeamFits, PersonOps, RoleOps, TeamOps
  <2> QED  BY <1>5, <2>2, <2>3, <2>4 DEF TeamOps, PersonOps, RoleOps
<1> QED  BY <1>4, <1>5

\* Overlaps as far as one handler is concerned
ApartFrom(w) ==
    \A v \in Slots :
        v # w =>
          /\ (AboutOf(v) \cap AboutOf(w)) \cap People \subseteq contested
          /\ (call[v].op \in RoleOps /\ call[w].op \in RoleOps
                /\ call[v].role = call[w].role) => call[v].role \in contested
          /\ ~(call[v].op = "insertRole" /\ call[w].op = "insertRole")

LEMMA ApartKept ==
    ASSUME TeamApart, NEW w \in Slots, Moves(w, TeamOps), contested \subseteq contested',
           ApartFrom(w)'
    PROVE  TeamApart'
<1>1. \A v \in Slots : v # w => AboutOf(v)' = AboutOf(v)
  BY AboutKnown DEF Moves
<1>2. ASSUME NEW v \in Slots, NEW u \in Slots, v # u
      PROVE  /\ (AboutOf(v)' \cap AboutOf(u)') \cap People \subseteq contested'
             /\ (call'[v].op \in RoleOps /\ call'[u].op \in RoleOps
                   /\ call'[v].role = call'[u].role) => call'[v].role \in contested'
             /\ ~(call'[v].op = "insertRole" /\ call'[u].op = "insertRole")
  <2>1. CASE u = w
    BY <1>2, <2>1 DEF ApartFrom
  <2>2. CASE v = w
    BY <1>2, <2>2 DEF ApartFrom
  <2>3. CASE u # w /\ v # w
    <3>1. AboutOf(v)' = AboutOf(v) /\ AboutOf(u)' = AboutOf(u)
      BY <1>1, <2>3
    <3>2. call'[v] = call[v] /\ call'[u] = call[u]
      BY <2>3 DEF Moves
    <3> QED  BY <1>2, <3>1, <3>2 DEF TeamApart
  <2> QED  BY <2>1, <2>2, <2>3
<1> QED  BY <1>2 DEF TeamApart

\* A handler goes on about the same, or about a role that nobody knows yet.
LEMMA ApartGoing ==
    ASSUME TeamInv, NEW w \in Slots, Moves(w, TeamOps), contested' = contested,
           AboutOf(w)' \cap People \subseteq AboutOf(w),
           call'[w].op \in RoleOps =>
               \/ call[w].op \in RoleOps /\ call[w].role = call'[w].role
               \/ roleAt[call'[w].role] = "new",
           call'[w].op # "insertRole"
    PROVE  TeamApart'
<1>1. ASSUME NEW v \in Slots, v # w
      PROVE  /\ (AboutOf(v)' \cap AboutOf(w)') \cap People \subseteq contested'
             /\ (call'[v].op \in RoleOps /\ call'[w].op \in RoleOps
                   /\ call'[v].role = call'[w].role) => call'[v].role \in contested'
  <2>1. call'[v] = call[v] /\ AboutOf(v)' = AboutOf(v)
    BY <1>1, AboutKnown DEF Moves
  <2>2. call[v].op \in RoleOps => roleAt[call[v].role] # "new"
    BY DEF TeamInv, TeamFits
  <2> QED  BY <1>1, <2>1, <2>2 DEF TeamInv, TeamApart
<1>2. ApartFrom(w)'
  BY <1>1 DEF ApartFrom
<1> QED  BY <1>2, ApartKept DEF TeamInv

\* An overlap is on record when the later of two handlers begins.
LEMMA ApartBegun ==
    ASSUME Shape, TeamInv, NEW w \in Slots, Moves(w, TeamOps), NEW c \in TeamCalls,
           BeginAbout(w, c), c.op \in RoleOps => c.role \in c.about,
           c.op = "insertRole" => \A v \in Slots : call[v].op # "insertRole"
    PROVE  TeamApart' /\ contested \subseteq contested' /\ contested' \subseteq People \cup Roles
<1>1. call'[w] = c /\ call[w] = Idle
  BY Makes DEF BeginAbout, Begin
<1>2. PICK rivals : rivals = {v \in Slots \ {w} : AboutOf(v) \cap c.about # {}}
  OBVIOUS
<1>3. contested' = IF rivals = {} THEN contested
                   ELSE contested \cup c.about \cup UNION {AboutOf(v) : v \in rivals}
  BY <1>2 DEF BeginAbout
<1>4. contested \subseteq contested' /\ (rivals # {} => c.about \subseteq contested')
  BY <1>3
<1>5. contested' \subseteq People \cup Roles
  <2>1. \A v \in Slots : AboutOf(v) \subseteq People \cup Roles
    BY TeamCallsKnown DEF AboutOf
  <2>2. c.about \subseteq People \cup Roles /\ rivals \subseteq Slots
    BY <1>2, TeamCallsKnown
  <2> QED  BY <1>3, <2>1, <2>2 DEF TeamInv, TeamTyped
<1>6. AboutOf(w)' = c.about
  BY <1>1, AboutKnown
<1>7. ASSUME NEW v \in Slots, v # w
      PROVE  /\ (AboutOf(v)' \cap AboutOf(w)') \cap People \subseteq contested'
             /\ (call'[v].op \in RoleOps /\ call'[w].op \in RoleOps
                   /\ call'[v].role = call'[w].role) => call'[v].role \in contested'
             /\ ~(call'[v].op = "insertRole" /\ call'[w].op = "insertRole")
  <2>1. call'[v] = call[v] /\ AboutOf(v)' = AboutOf(v)
    BY <1>7, AboutKnown DEF Moves
  <2>2. \A x : x \in AboutOf(v) \cap c.about => x \in contested'
    BY <1>2, <1>4, <1>7
  <2>3. call[v].op \in RoleOps => call[v].role \in AboutOf(v)
    <3>1. call[v].op \in RoleOps => call[v] \in TeamCalls /\ call[v].role \in call[v].about
      BY DEF TeamInv, TeamFits, RoleOps, TeamOps
    <3> QED  BY <3>1, AboutKnown
  <2>4. (AboutOf(v)' \cap AboutOf(w)') \cap People \subseteq contested'
    BY <1>6, <2>1, <2>2
  <2>5. (call'[v].op \in RoleOps /\ call'[w].op \in RoleOps
            /\ call'[v].role = call'[w].role) => call'[v].role \in contested'
    BY <1>1, <2>1, <2>2, <2>3
  <2>6. ~(call'[v].op = "insertRole" /\ call'[w].op = "insertRole")
    BY <1>1, <2>1
  <2> QED  BY <2>4, <2>5, <2>6
<1>8. ApartFrom(w)'
  BY <1>7 DEF ApartFrom
<1> QED  BY <1>4, <1>5, <1>8, ApartKept DEF TeamInv

\* What handlers in the middle of a replacement excuse stays excused.
LEMMA MiddleKept ==
    ASSUME NEW w \in Slots, Moves(w, TeamOps)
    PROVE  /\ \A p : call[w].op # "insertRoleOf" \/ call[w].person # p =>
                        (GivingTo(p) => GivingTo(p)')
           /\ \A r : call[w].op # "insertGrants" \/ call[w].role # r =>
                        (GrantingTo(r) => GrantingTo(r)')
BY DEF GivingTo, GrantingTo, Moves

LEMMA TeamBegun ==
    ASSUME Shape, TeamInv, NEW w \in Slots, NEW c \in TeamCalls, Moves(w, TeamOps),
           BeginAbout(w, c), UNCHANGED <<standing, rolesOf, roleAt, grants, decided>>,
           TeamFits(c, standing, roleAt, grants, decided, contested),
           c.op = "insertRole" => \A v \in Slots : call[v].op # "insertRole"
    PROVE  TeamInv'
<1>1. call'[w] = c /\ call[w].op = "idle"
  <2>1. Begin(w, c) /\ call[w] = Idle
    BY DEF BeginAbout, Begin
  <2> QED  BY <2>1, Makes DEF Idle
<1>2. c.op \in RoleOps => c.role \in c.about
  BY DEF TeamFits
<1>3. TeamApart' /\ contested \subseteq contested' /\ contested' \subseteq People \cup Roles
  BY <1>2, ApartBegun
<1>4. TeamFits(call'[w], standing', roleAt', grants', decided', contested')
  BY <1>1, <1>3 DEF TeamFits
<1>5. \A v \in Slots : v # w =>
          TeamFits(call'[v], standing', roleAt', grants', decided', contested')
  BY <1>3, OthersFit
<1>6. TeamTyped' /\ StandingsAgree' /\ SystemRolesStay'
  BY <1>3 DEF TeamInv, TeamTyped, StandingsAgree, SystemRolesStay
<1>7. RolesAgree'
  BY <1>1, <1>3, MiddleKept DEF TeamInv, RolesAgree, MayBeGone
<1>8. GrantsAgree'
  BY <1>1, <1>3, MiddleKept DEF TeamInv, GrantsAgree
<1> QED  BY <1>3, <1>4, <1>5, <1>6, <1>7, <1>8 DEF TeamInv

LEMMA TeamBegunKept ==
    ASSUME Shape, TeamInv, NEW w \in Slots, Moves(w, TeamOps),
           \/ \E p \in People :
               \/ \E status \in {"active", "disabled"} : UpdateTeamMemberStatus(w, p, status)
               \/ UpdateLevel(w, p, {}) \/ LinkIdentity(w, p)
               \/ \E r \in Roles :
                   UpdateLevel(w, p, {r}) \/ UpdateRoleOf(w, p, r) \/ AcceptAs(w, p, r)
           \/ \E permissions \in SUBSET Permissions :
               \/ CreateRole(w, permissions)
               \/ \E r \in Roles : UpdateRole(w, r, permissions)
           \/ \E r \in Roles : DeleteRole(w, r)
    PROVE  TeamInv'
<1> USE DEF Member, InPlace
<1>1. ASSUME NEW p \in People, NEW status, NEW sets \in BOOLEAN, NEW roles \in SUBSET Roles,
             Member(p), BeginAbout(w, SavePersonOf(p, status, sets, roles)),
             IF sets THEN status \in {"active", "disabled"} ELSE status = standing[p],
             UNCHANGED <<standing, rolesOf, roleAt, grants, decided>>
      PROVE  TeamInv'
  <2>1. PICK c : c = [op |-> "savePerson", about |-> {p} \cup roles, person |-> p,
                      status |-> status, sets |-> sets, roles |-> roles]
    OBVIOUS
  <2>2. status \in {"active", "disabled"}
    BY <1>1 DEF TeamInv, TeamTyped
  <2>3. c \in TeamCalls
    BY <2>1, <2>2 DEF TeamCalls, Abouts
  <2>4. TeamFits(c, standing, roleAt, grants, decided, contested)
    BY <1>1, <2>1, <2>3 DEF TeamFits, PersonOps, RoleOps
  <2> QED  BY <1>1, <2>1, <2>3, <2>4, TeamBegun DEF SavePersonOf
<1>2. ASSUME NEW p \in People, NEW status \in {"active", "disabled"},
             UpdateTeamMemberStatus(w, p, status)
      PROVE  TeamInv'
  <2>1. TRUE \in BOOLEAN /\ {} \in SUBSET Roles
    OBVIOUS
  <2>2. Member(p) /\ BeginAbout(w, SavePersonOf(p, status, TRUE, {}))
    BY <1>2 DEF UpdateTeamMemberStatus
  <2>3. UNCHANGED <<standing, rolesOf, roleAt, grants, decided>>
    BY <1>2 DEF UpdateTeamMemberStatus
  <2> QED  BY <1>1, <1>2, <2>1, <2>2, <2>3
<1>3. ASSUME NEW p \in People, NEW roles \in SUBSET Roles, UpdateLevel(w, p, roles)
      PROVE  TeamInv'
  BY <1>1, <1>3 DEF UpdateLevel
<1>4. ASSUME NEW p \in People, LinkIdentity(w, p)
      PROVE  TeamInv'
  <2>1. FALSE \in BOOLEAN /\ {} \in SUBSET Roles
    OBVIOUS
  <2>2. Member(p) /\ BeginAbout(w, SavePersonOf(p, standing[p], FALSE, {}))
    BY <1>4 DEF LinkIdentity
  <2>3. UNCHANGED <<standing, rolesOf, roleAt, grants, decided>>
    BY <1>4 DEF LinkIdentity
  <2> QED  BY <1>1, <2>1, <2>2, <2>3
<1>5. ASSUME NEW p \in People, NEW r \in Roles, UpdateRoleOf(w, p, r) \/ AcceptAs(w, p, r)
      PROVE  TeamInv'
  <2>1. PICK c : /\ c \in {[op |-> "findRole", about |-> {p, r}, person |-> p, role |-> r],
                           [op |-> "insertPerson", about |-> {p, r}, person |-> p,
                            role |-> r]}
                 /\ BeginAbout(w, c)
    BY <1>5 DEF UpdateRoleOf, AcceptAs
  <2>2. c \in TeamCalls
    BY <2>1 DEF TeamCalls, Abouts
  <2>3. c.op = "insertPerson" => roleAt[c.role] = "live"
    <3>1. CASE UpdateRoleOf(w, p, r)
      <4>1. BeginAbout(w, [op |-> "findRole", about |-> {p, r}, person |-> p, role |-> r])
        BY <3>1 DEF UpdateRoleOf
      <4>2. call'[w].op = "findRole" /\ call'[w] = c
        BY <2>1, <4>1, Makes DEF BeginAbout
      <4> QED  BY <4>2
    <3>2. CASE AcceptAs(w, p, r)
      BY <2>1, <3>2 DEF AcceptAs
    <3> QED  BY <1>5, <3>1, <3>2
  <2>4. TeamFits(c, standing, roleAt, grants, decided, contested)
    BY <2>1, <2>2, <2>3 DEF TeamFits, PersonOps, RoleOps
  <2> QED  BY <1>5, <2>1, <2>2, <2>4, TeamBegun DEF UpdateRoleOf, AcceptAs
<1>6. ASSUME NEW permissions \in SUBSET Permissions, CreateRole(w, permissions)
      PROVE  TeamInv'
  <2>1. PICK c : c = [op |-> "insertRole", about |-> {}, permissions |-> permissions]
    OBVIOUS
  <2>2. c \in TeamCalls
    BY <2>1 DEF TeamCalls, Abouts
  <2>3. TeamFits(c, standing, roleAt, grants, decided, contested)
    BY <1>6, <2>1, <2>2 DEF TeamFits, PersonOps, RoleOps, CreateRole
  <2> QED  BY <1>6, <2>1, <2>2, <2>3, TeamBegun DEF CreateRole
<1>7. ASSUME NEW r \in Roles, NEW c, BeginAbout(w, c), InPlace(r),
             UNCHANGED <<standing, rolesOf, roleAt, grants, decided>>,
             c \in TeamCalls, c.op \in RoleOps \ {"insertGrants"}, c.role = r,
             r \in c.about, c.op = "removeRole" => r \notin SystemRoles
      PROVE  TeamInv'
  <2>1. TeamFits(c, standing, roleAt, grants, decided, contested)
    BY <1>7 DEF TeamFits, PersonOps, RoleOps
  <2>2. c.op # "insertRole"
    BY <1>7 DEF RoleOps
  <2> QED  BY <1>7, <2>1, <2>2, TeamBegun
<1>8. ASSUME NEW r \in Roles, NEW permissions \in SUBSET Permissions,
             UpdateRole(w, r, permissions)
      PROVE  TeamInv'
  <2>1. PICK c : c \in {[op |-> "saveRole", about |-> {r}, role |-> r],
                        [op |-> "clearGrants", about |-> {r}, role |-> r,
                         permissions |-> permissions, new |-> FALSE]}
                 /\ BeginAbout(w, c)
    BY <1>8 DEF UpdateRole, ReplaceGrants
  <2>2. c \in TeamCalls
    <3>1. CASE c = [op |-> "saveRole", about |-> {r}, role |-> r]
      BY <3>1 DEF TeamCalls, Abouts
    <3>2. CASE c = [op |-> "clearGrants", about |-> {r}, role |-> r,
                    permissions |-> permissions, new |-> FALSE]
      <4>1. c \in [op : {"clearGrants", "insertGrants"}, about : Abouts, role : Roles,
                   permissions : SUBSET Permissions, new : BOOLEAN]
        BY <3>2 DEF Abouts
      <4> QED  BY <4>1 DEF TeamCalls
    <3> QED  BY <2>1, <3>1, <3>2
  <2>3. c.op \in {"saveRole", "clearGrants"} /\ c.role = r /\ r \in c.about
    BY <2>1
  <2> QED  BY <1>7, <1>8, <2>1, <2>2, <2>3 DEF UpdateRole, RoleOps
<1>9. ASSUME NEW r \in Roles, DeleteRole(w, r)
      PROVE  TeamInv'
  <2>1. PICK c : c = [op |-> "removeRole", about |-> {r}, role |-> r]
    OBVIOUS
  <2>2. c \in TeamCalls
    BY <2>1 DEF TeamCalls, Abouts
  <2> QED  BY <1>7, <1>9, <2>1, <2>2 DEF DeleteRole, RoleOps
<1> QED  BY <1>2, <1>3, <1>4, <1>5, <1>6, <1>8, <1>9

-----------------------------------------------------------------------------
\* The steps of handlers that write

LEMMA TeamKeeps ==
    ASSUME TeamInv, NEW w \in Slots, Moves(w, TeamOps), contested' = contested,
           \A p \in People \ AboutOf(w) :
               standing'[p] = standing[p] /\ decided'.roles[p] = decided.roles[p],
           \A r \in Roles : roleAt[r] # "new" => roleAt'[r] # "new",
           call[w].op # "insertRole" => \A r \in Roles : roleAt[r] = "new"
                                                            => roleAt'[r] = "new",
           \A r \in Roles : (call[w].op \in RoleOps => call[w].role # r) =>
               /\ roleAt[r] = "live" => roleAt'[r] = "live"
               /\ grants'[r] = grants[r] /\ decided'.grants[r] = decided.grants[r],
           AboutOf(w)' \cap People \subseteq AboutOf(w),
           call'[w].op \in RoleOps =>
               \/ call[w].op \in RoleOps /\ call[w].role = call'[w].role
               \/ roleAt[call'[w].role] = "new",
           call'[w].op # "insertRole",
           TeamFits(call'[w], standing', roleAt', grants', decided', contested'),
           TeamTyped', StandingsAgree', RolesAgree', GrantsAgree', SystemRolesStay'
    PROVE  TeamInv'
<1>1. TeamApart'
  BY ApartGoing
<1>2. \A v \in Slots : v # w =>
          TeamFits(call'[v], standing', roleAt', grants', decided', contested')
  BY OthersFit
<1> QED  BY <1>1, <1>2 DEF TeamInv

LEMMA TeamIdle ==
    ASSUME Shape, NEW w \in Slots, Return(w), NEW stand, NEW at, NEW given, NEW set, NEW apart
    PROVE  /\ call'[w] = Idle /\ AboutOf(w)' = {}
           /\ call'[w].op \notin RoleOps /\ call'[w].op \notin PersonOps
           /\ call'[w].op # "insertRole"
           /\ TeamFits(call'[w], stand, at, given, set, apart)
<1>1. call'[w] = Idle
  BY Makes DEF Return
<1> QED  BY <1>1, IdleNotTeam, AboutKnown DEF TeamFits, PersonOps, RoleOps, Idle

\* For the steps that leave the roles alone
LEMMA PersonKeeps ==
    ASSUME TeamInv, NEW w \in Slots, Moves(w, TeamOps), call[w].op \in PersonOps,
           UNCHANGED <<roleAt, grants, contested>>, decided' \in Decisions,
           decided'.grants = decided.grants,
           standing' \in [People -> {"new", "active", "disabled"}],
           rolesOf' \in [People -> SUBSET Roles],
           \A p \in People : p # call[w].person =>
               standing'[p] = standing[p] /\ decided'.roles[p] = decided.roles[p],
           StandingsAgree', RolesAgree',
           TeamFits(call'[w], standing', roleAt', grants', decided', contested'),
           (call'[w].op \in PersonOps /\ call'[w].about = call[w].about) \/ call'[w] = Idle
    PROVE  TeamInv'
<1>1. /\ call[w] \in TeamCalls /\ call[w].person \in call[w].about
      /\ call[w].op \notin RoleOps
  BY DEF TeamInv, TeamFits, PersonOps, TeamOps, RoleOps
<1>2. AboutOf(w) = call[w].about
  BY <1>1, AboutKnown
<1>3. /\ AboutOf(w)' \cap People \subseteq AboutOf(w)
      /\ call'[w].op \notin RoleOps /\ call'[w].op # "insertRole"
  <2>1. CASE call'[w] = Idle
    BY <2>1, AboutKnown, IdleNotTeam DEF Idle, RoleOps
  <2>2. CASE call'[w].op \in PersonOps /\ call'[w].about = call[w].about
    <3>1. call'[w] \in TeamCalls
      BY <2>2 DEF TeamFits, PersonOps, TeamOps
    <3> QED  BY <1>2, <2>2, <3>1, AboutKnown DEF PersonOps, RoleOps
  <2> QED  BY <2>1, <2>2
<1>4. \A p \in People \ AboutOf(w) :
           standing'[p] = standing[p] /\ decided'.roles[p] = decided.roles[p]
  BY <1>1, <1>2
<1>5. GrantsAgree'
  <2>1. \A r : GrantingTo(r) => GrantingTo(r)'
    BY MiddleKept DEF PersonOps
  <2> QED  BY <2>1 DEF TeamInv, GrantsAgree
<1>6. TeamTyped' /\ SystemRolesStay'
  BY DEF TeamInv, TeamTyped, SystemRolesStay
<1> QED  BY <1>1, <1>3, <1>4, <1>5, <1>6, TeamKeeps

LEMMA SavePersonKept ==
    ASSUME Shape, TeamInv, NEW w \in Slots, Moves(w, TeamOps), SavePerson(w)
    PROVE  TeamInv'
<1>1. PICK c : c = call[w] /\ c.op = "savePerson"
  BY DEF SavePerson
<1>2. /\ c \in TeamCalls /\ c.person \in c.about /\ c.person \in People
      /\ c.status \in {"active", "disabled"} /\ c.sets \in BOOLEAN
      /\ c.roles \subseteq Roles /\ c.about \in Abouts
      /\ ~c.sets /\ c.person \notin contested => c.status = standing[c.person]
  <2>1. TeamFits(c, standing, roleAt, grants, decided, contested)
    BY <1>1 DEF TeamInv
  <2>2. c \in TeamCalls
    BY <1>1, <2>1 DEF TeamFits, TeamOps
  <2> QED  BY <1>1, <2>1, <2>2, TeamCallsKnown DEF TeamFits, PersonOps
<1>3. PICK p \in People, status \in {"active", "disabled"} :
          p = c.person /\ status = c.status
  BY <1>2
<1>4. /\ standing' = [standing EXCEPT ![p] = status]
      /\ \/ c.sets /\ decided' = [decided EXCEPT !.standing[p] = status]
         \/ ~c.sets /\ decided' = decided
      /\ UNCHANGED <<rolesOf, roleAt, grants, contested>>
  BY <1>1, <1>3 DEF SavePerson
<1>5. decided \in Decisions /\ standing \in [People -> {"new", "active", "disabled"}]
  BY DEF TeamInv, TeamTyped
<1>6. /\ decided' \in Decisions
      /\ decided'.roles = decided.roles /\ decided'.grants = decided.grants
      /\ \/ c.sets /\ decided'.standing = [decided.standing EXCEPT ![p] = status]
         \/ ~c.sets /\ decided'.standing = decided.standing
  <2>1. PICK d : d = [decided EXCEPT !.standing[p] = status]
    OBVIOUS
  <2>2. /\ d \in Decisions
        /\ d.standing = [decided.standing EXCEPT ![p] = status]
        /\ d.roles = decided.roles /\ d.grants = decided.grants
    BY <1>5, <2>1 DEF Decisions
  <2> QED  BY <1>4, <1>5, <2>1, <2>2
<1>7. /\ standing' \in [People -> {"new", "active", "disabled"}]
      /\ standing'[p] = status /\ \A q \in People : q # p => standing'[q] = standing[q]
  BY <1>4, <1>5
<1>8. StandingsAgree'
  <2>1. decided.standing \in [People -> {"new", "active", "disabled"}]
    BY <1>5 DEF Decisions
  <2>2. CASE c.sets
    BY <1>4, <1>6, <1>7, <2>1, <2>2 DEF TeamInv, StandingsAgree
  <2>3. CASE ~c.sets
    BY <1>2, <1>3, <1>4, <1>6, <1>7, <2>3 DEF TeamInv, StandingsAgree
  <2> QED  BY <2>2, <2>3
<1>9. RolesAgree'
  BY <1>1, <1>4, <1>6, MiddleKept DEF TeamInv, RolesAgree, MayBeGone
<1>10. CASE Return(w)
  BY <1>1, <1>3, <1>4, <1>5, <1>6, <1>7, <1>8, <1>9, <1>10, TeamIdle, PersonKeeps
     DEF PersonOps, TeamInv, TeamTyped
<1>11. ASSUME NEW r \in c.roles,
              GoOn(w, [op |-> "findRole", about |-> c.about, person |-> p, role |-> r])
       PROVE  TeamInv'
  <2>1. PICK d : d = [op |-> "findRole", about |-> c.about, person |-> p, role |-> r]
    OBVIOUS
  <2>2. call'[w] = d
    BY <1>11, <2>1, Makes
  <2>3. d \in TeamCalls
    BY <1>2, <2>1 DEF TeamCalls
  <2>4. TeamFits(call'[w], standing', roleAt', grants', decided', contested')
    BY <1>2, <1>3, <2>1, <2>2, <2>3 DEF TeamFits, PersonOps, RoleOps
  <2>5. call'[w].op \in PersonOps /\ call'[w].about = call[w].about
    BY <1>1, <2>1, <2>2 DEF PersonOps
  <2>6. rolesOf' \in [People -> SUBSET Roles]
    BY <1>4 DEF TeamInv, TeamTyped
  <2> QED  BY <1>1, <1>3, <1>4, <1>6, <1>7, <1>8, <1>9, <2>4, <2>5, <2>6, PersonKeeps
           DEF PersonOps
<1> QED  BY <1>1, <1>3, <1>10, <1>11 DEF SavePerson

LEMMA FindRoleKept ==
    ASSUME Shape, TeamInv, NEW w \in Slots, Moves(w, TeamOps), FindRole(w)
    PROVE  TeamInv'
<1>1. PICK c : c = call[w] /\ c.op = "findRole"
  BY DEF FindRole
<1>2. c \in TeamCalls /\ c.person \in c.about
  BY <1>1 DEF TeamInv, TeamFits, TeamOps, PersonOps
<1>3. UNCHANGED teamVars
  BY DEF FindRole
<1>4. /\ decided' \in Decisions /\ StandingsAgree'
      /\ standing' \in [People -> {"new", "active", "disabled"}]
      /\ rolesOf' \in [People -> SUBSET Roles]
  BY <1>3 DEF TeamInv, TeamTyped, teamVars, StandingsAgree
<1>5. RolesAgree'
  BY <1>1, <1>3, MiddleKept DEF TeamInv, RolesAgree, MayBeGone, teamVars
<1>6. CASE Return(w)
  BY <1>1, <1>3, <1>4, <1>5, <1>6, TeamIdle, PersonKeeps DEF PersonOps, teamVars
<1>7. CASE InPlace(c.role) /\ GoOn(w, [c EXCEPT !.op = "clearRoleOf"])
  <2>1. PICK d, name : name = "clearRoleOf" /\ d = [c EXCEPT !.op = name]
    OBVIOUS
  <2>2. /\ d \in TeamCalls /\ d.op = "clearRoleOf" /\ d.about = c.about
        /\ d.role = c.role /\ d.person = c.person
    BY <1>1, <1>2, <2>1, TeamRenamed DEF PersonOps
  <2>3. call'[w] = d
    BY <1>7, <2>1, Makes
  <2>4. TeamFits(d, standing', roleAt', grants', decided', contested')
    BY <1>2, <1>3, <1>7, <2>2 DEF TeamFits, PersonOps, RoleOps, InPlace, teamVars
  <2> QED  BY <1>1, <1>3, <1>4, <1>5, <2>2, <2>3, <2>4, PersonKeeps
           DEF PersonOps, teamVars
<1> QED  BY <1>1, <1>6, <1>7 DEF FindRole

LEMMA ClearRoleOfKept ==
    ASSUME Shape, TeamInv, NEW w \in Slots, Moves(w, TeamOps), ClearRoleOf(w)
    PROVE  TeamInv'
<1>1. PICK c : c = call[w] /\ c.op = "clearRoleOf"
  BY DEF ClearRoleOf
<1>2. c \in TeamCalls /\ c.person \in c.about /\ roleAt[c.role] # "new"
  BY <1>1 DEF TeamInv, TeamFits, TeamOps, PersonOps
<1>3. PICK p \in People, r \in Roles : p = c.person /\ r = c.role
  BY <1>1, <1>2, TeamCallsKnown DEF PersonOps
<1>4. PICK one \in SUBSET Roles : one = {r}
  OBVIOUS
<1>5. /\ rolesOf' = [rolesOf EXCEPT ![p] = {}]
      /\ decided' = [decided EXCEPT !.roles[p] = one]
      /\ UNCHANGED <<standing, roleAt, grants, contested>>
      /\ GoOn(w, [c EXCEPT !.op = "insertRoleOf"])
  BY <1>1, <1>3, <1>4 DEF ClearRoleOf
<1>6. decided \in Decisions /\ rolesOf \in [People -> SUBSET Roles]
  BY DEF TeamInv, TeamTyped
<1>7. /\ decided' \in Decisions
      /\ decided'.roles = [decided.roles EXCEPT ![p] = one]
      /\ decided'.standing = decided.standing /\ decided'.grants = decided.grants
  <2>1. PICK d : d = [decided EXCEPT !.roles[p] = one]
    OBVIOUS
  <2>2. /\ d \in Decisions /\ d.roles = [decided.roles EXCEPT ![p] = one]
        /\ d.standing = decided.standing /\ d.grants = decided.grants
    BY <1>6, <2>1 DEF Decisions
  <2> QED  BY <1>5, <2>1, <2>2
<1>8. decided.roles \in [People -> SUBSET Roles]
  BY <1>6 DEF Decisions
<1>9. /\ decided'.roles[p] = one /\ rolesOf'[p] = {}
      /\ \A q \in People : q # p => /\ decided'.roles[q] = decided.roles[q]
                                    /\ rolesOf'[q] = rolesOf[q]
      /\ rolesOf' \in [People -> SUBSET Roles]
  BY <1>5, <1>6, <1>7, <1>8
<1>10. PICK d, name : name = "insertRoleOf" /\ d = [c EXCEPT !.op = name]
  OBVIOUS
<1>11. /\ d \in TeamCalls /\ d.op = "insertRoleOf" /\ d.about = c.about
       /\ d.role = c.role /\ d.person = c.person
  BY <1>1, <1>2, <1>10, TeamRenamed DEF PersonOps
<1>12. call'[w] = d
  BY <1>5, <1>10, Makes
<1>13. TeamFits(d, standing', roleAt', grants', decided', contested')
  BY <1>2, <1>3, <1>4, <1>5, <1>9, <1>11 DEF TeamFits, PersonOps, RoleOps
<1>14. GivingTo(p)'
  BY <1>3, <1>11, <1>12 DEF GivingTo
<1>15. RolesAgree'
  <2>1. \A q : GivingTo(q) => GivingTo(q)'
    BY <1>1, MiddleKept
  <2> QED  BY <1>5, <1>9, <1>14, <2>1 DEF TeamInv, RolesAgree, MayBeGone
<1>16. StandingsAgree' /\ standing' \in [People -> {"new", "active", "disabled"}]
  BY <1>5, <1>7 DEF TeamInv, TeamTyped, StandingsAgree
<1> QED  BY <1>1, <1>3, <1>5, <1>7, <1>9, <1>11, <1>12, <1>13, <1>15, <1>16, PersonKeeps
         DEF PersonOps

LEMMA InsertRoleOfKept ==
    ASSUME Shape, TeamInv, NEW w \in Slots, Moves(w, TeamOps), InsertRoleOf(w)
    PROVE  TeamInv'
<1>1. PICK c : c = call[w] /\ c.op = "insertRoleOf"
  BY DEF InsertRoleOf
<1>2. /\ c \in TeamCalls /\ roleAt[c.role] # "new"
      /\ c.person \notin contested => decided.roles[c.person] = {c.role}
  BY <1>1 DEF TeamInv, TeamFits, TeamOps
<1>3. PICK p \in People, r \in Roles : p = c.person /\ r = c.role
  BY <1>1, <1>2, TeamCallsKnown DEF PersonOps
<1>4. /\ rolesOf' = IF InPlace(r) THEN [rolesOf EXCEPT ![p] = @ \cup {r}] ELSE rolesOf
      /\ UNCHANGED <<standing, roleAt, grants, decided, contested>> /\ Return(w)
  BY <1>1, <1>3 DEF InsertRoleOf
<1>5. decided \in Decisions /\ rolesOf \in [People -> SUBSET Roles]
      /\ standing \in [People -> {"new", "active", "disabled"}]
      /\ roleAt \in [Roles -> {"new", "live", "gone"}]
  BY DEF TeamInv, TeamTyped
<1>6. /\ rolesOf' \in [People -> SUBSET Roles]
      /\ \A q \in People : q # p => rolesOf'[q] = rolesOf[q]
      /\ rolesOf'[p] \subseteq rolesOf[p] \cup {r}
      /\ roleAt[r] = "gone" \/ r \in rolesOf'[p]
  <2>1. CASE InPlace(r)
    BY <1>4, <1>5, <2>1
  <2>2. CASE ~InPlace(r)
    BY <1>2, <1>3, <1>4, <1>5, <2>2 DEF InPlace
  <2> QED  BY <2>1, <2>2
<1>7. RolesAgree'
  <2>1. \A q : q # p => (GivingTo(q) => GivingTo(q)')
    BY <1>1, <1>3, MiddleKept
  <2> QED  BY <1>2, <1>3, <1>4, <1>6, <2>1 DEF TeamInv, RolesAgree, MayBeGone
<1>8. StandingsAgree'
  BY <1>4 DEF TeamInv, StandingsAgree
<1> QED  BY <1>1, <1>4, <1>5, <1>6, <1>7, <1>8, TeamIdle, PersonKeeps DEF PersonOps

LEMMA InsertPersonKept ==
    ASSUME Shape, TeamInv, NEW w \in Slots, Moves(w, TeamOps), InsertPerson(w)
    PROVE  TeamInv'
<1>1. PICK c : c = call[w] /\ c.op = "insertPerson"
  BY DEF InsertPerson
<1>2. c \in TeamCalls /\ c.person \in c.about /\ roleAt[c.role] # "new"
  BY <1>1 DEF TeamInv, TeamFits, TeamOps, PersonOps
<1>3. PICK p \in People : p = c.person
  BY <1>1, <1>2, TeamCallsKnown DEF PersonOps
<1>4. /\ decided \in Decisions /\ rolesOf \in [People -> SUBSET Roles]
      /\ standing \in [People -> {"new", "active", "disabled"}]
  BY DEF TeamInv, TeamTyped
<1>5. UNCHANGED <<rolesOf, roleAt, grants, contested>>
  BY DEF InsertPerson
<1>6. CASE Return(w) /\ UNCHANGED <<standing, decided>>
  <2>1. RolesAgree'
    BY <1>1, <1>5, <1>6, MiddleKept DEF TeamInv, RolesAgree, MayBeGone
  <2>2. StandingsAgree'
    BY <1>5, <1>6 DEF TeamInv, StandingsAgree
  <2> QED  BY <1>1, <1>4, <1>5, <1>6, <2>1, <2>2, TeamIdle, PersonKeeps DEF PersonOps
<1>7. CASE /\ standing' = [standing EXCEPT ![p] = "active"]
           /\ decided' = [decided EXCEPT !.standing[p] = "active"]
           /\ GoOn(w, [c EXCEPT !.op = "clearRoleOf"])
  <2>1. /\ decided' \in Decisions
        /\ decided'.standing = [decided.standing EXCEPT ![p] = "active"]
        /\ decided'.roles = decided.roles /\ decided'.grants = decided.grants
    <3>1. PICK d : d = [decided EXCEPT !.standing[p] = "active"]
      OBVIOUS
    <3>2. /\ d \in Decisions /\ d.standing = [decided.standing EXCEPT ![p] = "active"]
          /\ d.roles = decided.roles /\ d.grants = decided.grants
      BY <1>4, <3>1 DEF Decisions
    <3> QED  BY <1>7, <3>1, <3>2
  <2>2. decided.standing \in [People -> {"new", "active", "disabled"}]
    BY <1>4 DEF Decisions
  <2>3. /\ standing' \in [People -> {"new", "active", "disabled"}]
        /\ standing'[p] = "active" /\ \A q \in People : q # p => standing'[q] = standing[q]
    BY <1>4, <1>7
  <2>4. StandingsAgree'
    BY <1>5, <2>1, <2>2, <2>3 DEF TeamInv, StandingsAgree
  <2>5. RolesAgree'
    BY <1>1, <1>5, <2>1, MiddleKept DEF TeamInv, RolesAgree, MayBeGone
  <2>6. PICK d, name : name = "clearRoleOf" /\ d = [c EXCEPT !.op = name]
    OBVIOUS
  <2>7. /\ d \in TeamCalls /\ d.op = "clearRoleOf" /\ d.about = c.about
        /\ d.role = c.role /\ d.person = c.person
    BY <1>1, <1>2, <2>6, TeamRenamed DEF PersonOps
  <2>8. call'[w] = d
    BY <1>7, <2>6, Makes
  <2>9. TeamFits(d, standing', roleAt', grants', decided', contested')
    BY <1>2, <1>5, <2>7 DEF TeamFits, PersonOps, RoleOps
  <2> QED  BY <1>1, <1>3, <1>4, <1>5, <2>1, <2>3, <2>4, <2>5, <2>7, <2>8, <2>9, PersonKeeps
           DEF PersonOps
<1> QED  BY <1>1, <1>3, <1>6, <1>7 DEF InsertPerson

-----------------------------------------------------------------------------
\* For the steps that leave the members alone, but for roles that go
LEMMA RoleKeeps ==
    ASSUME TeamInv, NEW w \in Slots, Moves(w, TeamOps), call[w].op \in RoleOps,
           UNCHANGED <<standing, contested>>, decided' \in Decisions,
           decided'.standing = decided.standing, decided'.roles = decided.roles,
           rolesOf' \in [People -> SUBSET Roles],
           roleAt' \in [Roles -> {"new", "live", "gone"}],
           grants' \in [Roles -> SUBSET Permissions],
           \A p \in People, q \in Roles :
               /\ q \in rolesOf'[p] => q \in rolesOf[p]
               /\ q \in rolesOf[p] => q \in rolesOf'[p] \/ MayBeGone(q)',
           \A q \in Roles : MayBeGone(q) => MayBeGone(q)',
           \A q \in Roles : roleAt'[q] = "new" <=> roleAt[q] = "new",
           \A q \in Roles : q # call[w].role =>
               /\ roleAt[q] = roleAt'[q]
               /\ grants'[q] = grants[q] /\ decided'.grants[q] = decided.grants[q],
           GrantsAgree', SystemRolesStay',
           TeamFits(call'[w], standing', roleAt', grants', decided', contested'),
           \/ call'[w].op \in RoleOps /\ call'[w].about = call[w].about
                /\ call'[w].role = call[w].role
           \/ call'[w] = Idle
    PROVE  TeamInv'
<1>1. call[w] \in TeamCalls /\ AboutOf(w) = call[w].about /\ call[w].op # "insertRoleOf"
  <2>1. call[w] \in TeamCalls /\ call[w].op # "insertRoleOf"
    BY DEF TeamInv, TeamFits, RoleOps, TeamOps
  <2> QED  BY <2>1, AboutKnown
<1>2. /\ AboutOf(w)' \cap People \subseteq AboutOf(w)
      /\ call'[w].op \in RoleOps => call[w].role = call'[w].role
      /\ call'[w].op # "insertRole"
  <2>1. CASE call'[w] = Idle
    BY <2>1, AboutKnown, IdleNotTeam DEF Idle, RoleOps
  <2>2. CASE call'[w].op \in RoleOps /\ call'[w].about = call[w].about
             /\ call'[w].role = call[w].role
    <3>1. call'[w] \in TeamCalls
      BY <2>2 DEF TeamFits, RoleOps, TeamOps
    <3> QED  BY <1>1, <2>2, <3>1, AboutKnown DEF RoleOps
  <2> QED  BY <2>1, <2>2
<1>3. StandingsAgree' /\ TeamTyped'
  BY DEF TeamInv, TeamTyped, StandingsAgree
<1>4. RolesAgree'
  <2>1. \A p : GivingTo(p) => GivingTo(p)'
    BY <1>1, MiddleKept
  <2>2. \A p \in People : decided.roles[p] \subseteq Roles /\ rolesOf[p] \subseteq Roles
                          /\ rolesOf'[p] \subseteq Roles
    BY DEF TeamInv, TeamTyped, Decisions
  <2> QED  BY <2>1, <2>2 DEF TeamInv, RolesAgree
<1> QED  BY <1>2, <1>3, <1>4, TeamKeeps

LEMMA ClearGrantsKept ==
    ASSUME Shape, TeamInv, NEW w \in Slots, Moves(w, TeamOps), ClearGrants(w)
    PROVE  TeamInv'
<1>1. PICK c : c = call[w] /\ c.op = "clearGrants"
  BY DEF ClearGrants
<1>2. /\ c \in TeamCalls /\ c.role \in c.about /\ roleAt[c.role] # "new"
      /\ c.role \notin contested => roleAt[c.role] = "live"
  BY <1>1 DEF TeamInv, TeamFits, TeamOps, RoleOps
<1>3. PICK r \in Roles, ps \in SUBSET Permissions : r = c.role /\ ps = c.permissions
  BY <1>1, <1>2, TeamCallsKnown
<1>4. /\ grants' = [grants EXCEPT ![r] = {}]
      /\ decided' = [decided EXCEPT !.grants[r] = ps]
      /\ UNCHANGED <<standing, rolesOf, roleAt, contested>>
      /\ GoOn(w, [c EXCEPT !.op = "insertGrants"])
  BY <1>1, <1>3 DEF ClearGrants
<1>5. /\ decided \in Decisions /\ grants \in [Roles -> SUBSET Permissions]
      /\ rolesOf \in [People -> SUBSET Roles] /\ roleAt \in [Roles -> {"new", "live", "gone"}]
  BY DEF TeamInv, TeamTyped
<1>6. /\ decided' \in Decisions
      /\ decided'.grants = [decided.grants EXCEPT ![r] = ps]
      /\ decided'.standing = decided.standing /\ decided'.roles = decided.roles
  <2>1. PICK d : d = [decided EXCEPT !.grants[r] = ps]
    OBVIOUS
  <2>2. /\ d \in Decisions /\ d.grants = [decided.grants EXCEPT ![r] = ps]
        /\ d.standing = decided.standing /\ d.roles = decided.roles
    BY <1>5, <2>1 DEF Decisions
  <2> QED  BY <1>4, <2>1, <2>2
<1>7. decided.grants \in [Roles -> SUBSET Permissions]
  BY <1>5 DEF Decisions
<1>8. /\ grants' \in [Roles -> SUBSET Permissions]
      /\ grants'[r] = {} /\ decided'.grants[r] = ps
      /\ \A q \in Roles : q # r => /\ grants'[q] = grants[q]
                                   /\ decided'.grants[q] = decided.grants[q]
  BY <1>4, <1>5, <1>6, <1>7
<1>9. PICK d, name : name = "insertGrants" /\ d = [c EXCEPT !.op = name]
  OBVIOUS
<1>10. /\ d \in TeamCalls /\ d.op = "insertGrants" /\ d.about = c.about
       /\ d.role = c.role /\ d.permissions = c.permissions
  BY <1>1, <1>2, <1>9, TeamRenamed DEF PersonOps
<1>11. call'[w] = d
  BY <1>4, <1>9, Makes
<1>12. TeamFits(d, standing', roleAt', grants', decided', contested')
  BY <1>2, <1>3, <1>4, <1>8, <1>10 DEF TeamFits, PersonOps, RoleOps
<1>13. GrantsAgree'
  <2>1. GrantingTo(r)' /\ \A q : GrantingTo(q) => GrantingTo(q)'
    BY <1>1, <1>3, <1>10, <1>11, MiddleKept DEF GrantingTo
  <2> QED  BY <1>2, <1>3, <1>4, <1>8, <2>1 DEF TeamInv, GrantsAgree
<1>14. SystemRolesStay' /\ \A q \in Roles : MayBeGone(q)' <=> MayBeGone(q)
  BY <1>4 DEF TeamInv, SystemRolesStay, MayBeGone
<1> QED  BY <1>1, <1>3, <1>4, <1>5, <1>6, <1>8, <1>10, <1>11, <1>12, <1>13, <1>14, RoleKeeps
         DEF RoleOps

LEMMA InsertGrantsKept ==
    ASSUME Shape, TeamInv, NEW w \in Slots, Moves(w, TeamOps), InsertGrants(w)
    PROVE  TeamInv'
<1>1. PICK c : c = call[w] /\ c.op = "insertGrants"
  BY DEF InsertGrants
<1>2. /\ c \in TeamCalls /\ c.role \in c.about /\ roleAt[c.role] # "new"
      /\ c.role \notin contested => /\ roleAt[c.role] = "live" /\ grants[c.role] = {}
                                    /\ decided.grants[c.role] = c.permissions
  BY <1>1 DEF TeamInv, TeamFits, TeamOps, RoleOps
<1>3. PICK r \in Roles, ps \in SUBSET Permissions : r = c.role /\ ps = c.permissions
  BY <1>1, <1>2, TeamCallsKnown
<1>4. /\ UNCHANGED <<standing, rolesOf, roleAt, decided, contested>>
      /\ IF InPlace(r) /\ ps \cap grants[r] = {}
         THEN grants' = [grants EXCEPT ![r] = @ \cup ps]
         ELSE UNCHANGED grants
      /\ Return(w) \/ GoOn(w, [op |-> "saveRole", about |-> c.about, role |-> r])
  BY <1>1, <1>3 DEF InsertGrants
<1>5. /\ decided \in Decisions /\ grants \in [Roles -> SUBSET Permissions]
      /\ rolesOf \in [People -> SUBSET Roles] /\ roleAt \in [Roles -> {"new", "live", "gone"}]
  BY DEF TeamInv, TeamTyped
<1>6. /\ grants' \in [Roles -> SUBSET Permissions]
      /\ r \notin contested => grants'[r] = decided.grants[r] /\ roleAt[r] = "live"
      /\ \A q \in Roles : q # r => grants'[q] = grants[q]
  <2>1. CASE InPlace(r) /\ ps \cap grants[r] = {}
    <3>1. grants' = [grants EXCEPT ![r] = grants[r] \cup ps]
      BY <1>4, <2>1
    <3>2. r \notin contested => grants[r] \cup ps = decided.grants[r]
      BY <1>2, <1>3
    <3> QED  BY <1>2, <1>3, <1>5, <3>1, <3>2
  <2>2. CASE ~(InPlace(r) /\ ps \cap grants[r] = {})
    BY <1>2, <1>3, <1>4, <1>5, <2>2 DEF InPlace
  <2> QED  BY <2>1, <2>2
<1>7. GrantsAgree'
  <2>1. \A q : q # r => (GrantingTo(q) => GrantingTo(q)')
    BY <1>1, <1>3, MiddleKept
  <2> QED  BY <1>4, <1>6, <2>1 DEF TeamInv, GrantsAgree
<1>8. SystemRolesStay' /\ \A q \in Roles : MayBeGone(q)' <=> MayBeGone(q)
  BY <1>4 DEF TeamInv, SystemRolesStay, MayBeGone
<1>9. /\ TeamFits(call'[w], standing', roleAt', grants', decided', contested')
      /\ \/ call'[w].op \in RoleOps /\ call'[w].about = call[w].about
              /\ call'[w].role = call[w].role
         \/ call'[w] = Idle
  <2>1. CASE Return(w)
    BY <2>1, TeamIdle
  <2>2. CASE GoOn(w, [op |-> "saveRole", about |-> c.about, role |-> r])
    <3>1. PICK d : d = [op |-> "saveRole", about |-> c.about, role |-> r]
      OBVIOUS
    <3>2. call'[w] = d /\ c.about \in Abouts
      BY <1>2, <2>2, <3>1, Makes, TeamCallsKnown DEF Abouts
    <3>3. d \in TeamCalls
      BY <3>1, <3>2 DEF TeamCalls
    <3> QED  BY <1>1, <1>2, <1>3, <1>4, <3>1, <3>2, <3>3 DEF TeamFits, PersonOps, RoleOps
  <2> QED  BY <1>4, <2>1, <2>2
<1> QED  BY <1>1, <1>3, <1>4, <1>5, <1>6, <1>7, <1>8, <1>9, RoleKeeps DEF RoleOps

LEMMA SaveRoleKept ==
    ASSUME Shape, TeamInv, NEW w \in Slots, Moves(w, TeamOps), SaveRole(w)
    PROVE  TeamInv'
<1>1. PICK c : c = call[w] /\ c.op = "saveRole"
  BY DEF SaveRole
<1>2. /\ c \in TeamCalls /\ roleAt[c.role] # "new"
      /\ c.role \notin contested => roleAt[c.role] = "live"
  BY <1>1 DEF TeamInv, TeamFits, TeamOps, RoleOps
<1>3. PICK r \in Roles : r = c.role
  BY <1>1, <1>2, TeamCallsKnown
<1>4. /\ roleAt' = roleAt \/ roleAt' = [roleAt EXCEPT ![r] = "live"]
      /\ UNCHANGED <<standing, rolesOf, grants, decided, contested>> /\ Return(w)
  BY <1>1, <1>3 DEF SaveRole
<1>5. /\ decided \in Decisions /\ grants \in [Roles -> SUBSET Permissions]
      /\ rolesOf \in [People -> SUBSET Roles] /\ roleAt \in [Roles -> {"new", "live", "gone"}]
  BY DEF TeamInv, TeamTyped
<1>6. /\ roleAt' \in [Roles -> {"new", "live", "gone"}]
      /\ roleAt'[r] \in {roleAt[r], "live"}
      /\ \A q \in Roles : q # r => roleAt'[q] = roleAt[q]
  BY <1>4, <1>5
<1>7. \A q \in Roles : roleAt'[q] = "new" <=> roleAt[q] = "new"
  BY <1>2, <1>3, <1>6
<1>8. \A q \in Roles : MayBeGone(q) => MayBeGone(q)'
  <2>1. roleAt[r] = "gone" => r \in contested \ SystemRoles
    BY <1>2, <1>3 DEF TeamInv, SystemRolesStay
  <2> QED  BY <1>4, <1>6, <2>1 DEF MayBeGone
<1>9. GrantsAgree' /\ SystemRolesStay'
  <2>1. \A q : GrantingTo(q) => GrantingTo(q)'
    BY <1>1, MiddleKept
  <2>2. \A q \in Roles : roleAt'[q] = "gone" => roleAt[q] = "gone"
    BY <1>6
  <2>3. GrantsAgree'
    BY <1>4, <2>1, <2>2 DEF TeamInv, GrantsAgree
  <2>4. SystemRolesStay'
    BY <1>6, TeamAssumption DEF TeamInv, SystemRolesStay
  <2> QED  BY <2>3, <2>4
<1> QED  BY <1>1, <1>3, <1>4, <1>5, <1>6, <1>7, <1>8, <1>9, TeamIdle, RoleKeeps DEF RoleOps

LEMMA RemoveRoleKept ==
    ASSUME Shape, TeamInv, NEW w \in Slots, Moves(w, TeamOps), RemoveRole(w)
    PROVE  TeamInv'
<1>1. PICK c : c = call[w] /\ c.op = "removeRole"
  BY DEF RemoveRole
<1>2. c \in TeamCalls /\ roleAt[c.role] # "new" /\ c.role \notin SystemRoles
  BY <1>1 DEF TeamInv, TeamFits, TeamOps, RoleOps
<1>3. PICK r \in Roles, none \in SUBSET Permissions : r = c.role /\ none = {}
  BY <1>1, <1>2, TeamCallsKnown
<1>4. /\ roleAt' = [roleAt EXCEPT ![r] = "gone"]
      /\ grants' = [grants EXCEPT ![r] = {}]
      /\ rolesOf' = [p \in People |-> rolesOf[p] \ {r}]
      /\ decided' = [decided EXCEPT !.grants[r] = none]
      /\ Return(w) /\ UNCHANGED <<standing, contested>>
  BY <1>1, <1>3 DEF RemoveRole
<1>5. /\ decided \in Decisions /\ grants \in [Roles -> SUBSET Permissions]
      /\ rolesOf \in [People -> SUBSET Roles] /\ roleAt \in [Roles -> {"new", "live", "gone"}]
  BY DEF TeamInv, TeamTyped
<1>6. /\ decided' \in Decisions
      /\ decided'.grants = [decided.grants EXCEPT ![r] = none]
      /\ decided'.standing = decided.standing /\ decided'.roles = decided.roles
  <2>1. PICK d : d = [decided EXCEPT !.grants[r] = none]
    OBVIOUS
  <2>2. /\ d \in Decisions /\ d.grants = [decided.grants EXCEPT ![r] = none]
        /\ d.standing = decided.standing /\ d.roles = decided.roles
    BY <1>5, <2>1 DEF Decisions
  <2> QED  BY <1>4, <2>1, <2>2
<1>7. decided.grants \in [Roles -> SUBSET Permissions]
  BY <1>5 DEF Decisions
<1>8. /\ grants' \in [Roles -> SUBSET Permissions]
      /\ grants'[r] = {} /\ decided'.grants[r] = {}
      /\ roleAt' \in [Roles -> {"new", "live", "gone"}] /\ roleAt'[r] = "gone"
      /\ \A q \in Roles : q # r => /\ grants'[q] = grants[q] /\ roleAt'[q] = roleAt[q]
                                   /\ decided'.grants[q] = decided.grants[q]
  BY <1>3, <1>4, <1>5, <1>6, <1>7
<1>9. /\ rolesOf' \in [People -> SUBSET Roles]
      /\ \A p \in People, q \in Roles :
           /\ q \in rolesOf'[p] => q \in rolesOf[p]
           /\ q \in rolesOf[p] => q \in rolesOf'[p] \/ MayBeGone(q)'
  <2>1. MayBeGone(r)'
    BY <1>8 DEF MayBeGone
  <2>2. \A q \in Roles : q = r \/ q # r
    OBVIOUS
  <2> QED  BY <1>4, <1>5, <2>1
<1>10. \A q \in Roles : MayBeGone(q) => MayBeGone(q)'
  BY <1>4, <1>8 DEF MayBeGone
<1>11. GrantsAgree'
  <2>1. \A q : GrantingTo(q) => GrantingTo(q)'
    BY <1>1, MiddleKept
  <2> QED  BY <1>4, <1>8, <2>1 DEF TeamInv, GrantsAgree
<1>12. SystemRolesStay'
  BY <1>2, <1>3, <1>8, TeamAssumption DEF TeamInv, SystemRolesStay
<1>13. \A q \in Roles : roleAt'[q] = "new" <=> roleAt[q] = "new"
  BY <1>2, <1>3, <1>8
<1>14. /\ call'[w] = Idle
       /\ TeamFits(call'[w], standing', roleAt', grants', decided', contested')
  BY <1>4, TeamIdle
<1>15. call[w].op \in RoleOps
  BY <1>1 DEF RoleOps
<1>16. \A q \in Roles : q # call[w].role =>
          /\ roleAt[q] = roleAt'[q]
          /\ grants'[q] = grants[q] /\ decided'.grants[q] = decided.grants[q]
  BY <1>1, <1>3, <1>8
<1> QED  BY <1>4, <1>6, <1>8, <1>9, <1>10, <1>11, <1>12, <1>13, <1>14, <1>15, <1>16,
            RoleKeeps

LEMMA InsertRoleKept ==
    ASSUME Shape, TeamInv, NEW w \in Slots, Moves(w, TeamOps), InsertRole(w)
    PROVE  TeamInv'
<1>1. PICK c : c = call[w] /\ c.op = "insertRole"
  BY DEF InsertRole
<1>2. c \in TeamCalls /\ \E r \in Roles : roleAt[r] = "new"
  BY <1>1 DEF TeamInv, TeamFits, TeamOps
<1>3. PICK r : r = CHOOSE x \in Roles : roleAt[x] = "new"
  OBVIOUS
<1>4. r \in Roles /\ roleAt[r] = "new"
  BY <1>2, <1>3
<1>5. PICK ps \in SUBSET Permissions : ps = c.permissions
  BY <1>1, <1>2, TeamCallsKnown
<1>6. PICK d : d = [op |-> "clearGrants", about |-> {r}, role |-> r,
                    permissions |-> ps, new |-> TRUE]
  OBVIOUS
<1>7. /\ roleAt' = [roleAt EXCEPT ![r] = "live"]
      /\ GoOn(w, d)
      /\ UNCHANGED <<standing, rolesOf, grants, decided, contested>>
  BY <1>1, <1>3, <1>5, <1>6 DEF InsertRole, ReplaceGrants
<1>8. call'[w] = d
  BY <1>7, Makes
<1>9. /\ roleAt' \in [Roles -> {"new", "live", "gone"}] /\ roleAt'[r] = "live"
      /\ \A q \in Roles : q # r => roleAt'[q] = roleAt[q]
  BY <1>4, <1>7 DEF TeamInv, TeamTyped
<1>10. d \in TeamCalls
  <2>1. d \in [op : {"clearGrants", "insertGrants"}, about : Abouts, role : Roles,
               permissions : SUBSET Permissions, new : BOOLEAN]
    BY <1>4, <1>5, <1>6 DEF Abouts
  <2> QED  BY <2>1 DEF TeamCalls
<1>11. /\ d.op = "clearGrants" /\ d.about = {r} /\ d.role = r
  BY <1>6
<1>12. TeamFits(d, standing', roleAt', grants', decided', contested')
  BY <1>9, <1>10, <1>11 DEF TeamFits, PersonOps, RoleOps
<1>13. AboutOf(w)' \cap People = {}
  BY <1>4, <1>8, <1>10, <1>11, AboutKnown, TeamAssumption
<1>14. TeamTyped' /\ StandingsAgree'
  BY <1>7, <1>9 DEF TeamInv, TeamTyped, StandingsAgree
<1>15. \A q \in Roles : MayBeGone(q)' <=> MayBeGone(q)
  BY <1>4, <1>7, <1>9 DEF MayBeGone
<1>16. RolesAgree'
  <2>1. \A p \in People : decided.roles[p] \subseteq Roles
    BY DEF TeamInv, TeamTyped, Decisions
  <2>2. \A p : GivingTo(p) => GivingTo(p)'
    BY <1>1, MiddleKept
  <2> QED  BY <1>7, <1>15, <2>1, <2>2 DEF TeamInv, RolesAgree
<1>17. GrantsAgree'
  <2>1. \A q : GrantingTo(q) => GrantingTo(q)'
    BY <1>1, MiddleKept
  <2>2. \A q \in Roles : roleAt'[q] = "gone" => roleAt[q] = "gone"
    BY <1>9
  <2> QED  BY <1>7, <2>1, <2>2 DEF TeamInv, GrantsAgree
<1>18. SystemRolesStay'
  BY <1>9, TeamAssumption DEF TeamInv, SystemRolesStay
<1>19. \A q \in Roles : /\ roleAt[q] # "new" => roleAt'[q] # "new"
                        /\ roleAt[q] = "live" => roleAt'[q] = "live"
  BY <1>9
<1> QED  BY <1>1, <1>4, <1>7, <1>8, <1>11, <1>12, <1>13, <1>14, <1>16, <1>17, <1>18, <1>19,
            TeamKeeps

-----------------------------------------------------------------------------
\* The process starts again: handlers that were about a row are on record.
LEMMA TeamRestartKept ==
    ASSUME TeamInv, TeamRestarted, \A v \in Slots : call'[v] = Idle
    PROVE  TeamInv'
<1>1. PICK stopped : stopped = UNION {AboutOf(w) : w \in Slots}
  OBVIOUS
<1>2. /\ contested' = (contested \cup stopped) \ SystemRoles
      /\ UNCHANGED <<standing, rolesOf, roleAt>>
      /\ grants' = SeedRoles(grants)
      /\ decided' = [decided EXCEPT !.grants =
                       [r \in Roles |-> IF r \in SystemRoles THEN Seed[r] ELSE @[r]]]
  BY <1>1 DEF TeamRestarted
<1>3. stopped \subseteq People \cup Roles
  BY <1>1, TeamCallsKnown DEF AboutOf
<1>4. /\ decided \in Decisions /\ contested \subseteq People \cup Roles
      /\ grants \in [Roles -> SUBSET Permissions]
  BY DEF TeamInv, TeamTyped
<1>5. /\ grants' \in [Roles -> SUBSET Permissions]
      /\ \A r \in Roles : grants'[r] = IF r \in SystemRoles THEN Seed[r] ELSE grants[r]
  BY <1>2, <1>4, TeamAssumption DEF SeedRoles
<1>6. PICK given : given = [r \in Roles |-> IF r \in SystemRoles THEN Seed[r]
                                            ELSE decided.grants[r]]
  OBVIOUS
<1>7. given \in [Roles -> SUBSET Permissions]
  <2>1. decided.grants \in [Roles -> SUBSET Permissions]
    BY <1>4 DEF Decisions
  <2> QED  BY <1>6, <2>1, TeamAssumption
<1>8. decided' = [decided EXCEPT !.grants = given]
  BY <1>2, <1>6
<1>9. /\ decided' \in Decisions /\ decided'.grants = given
      /\ decided'.standing = decided.standing /\ decided'.roles = decided.roles
  BY <1>4, <1>7, <1>8 DEF Decisions
<1>10. TeamTyped'
  BY <1>2, <1>3, <1>4, <1>5, <1>9 DEF TeamInv, TeamTyped
<1>11. /\ \A p \in People : p \notin contested' => p \notin contested /\ p \notin stopped
       /\ \A r \in Roles \ SystemRoles : r \notin contested' => r \notin contested /\ r \notin stopped
  BY <1>2, TeamAssumption
<1>12. /\ \A p : GivingTo(p) => p \in stopped
       /\ \A r : GrantingTo(r) => r \in stopped
  <2>1. ASSUME NEW w \in Slots, call[w].op \in {"insertRoleOf", "insertGrants"}
        PROVE  AboutOf(w) = call[w].about /\ AboutOf(w) \subseteq stopped
    <3>1. call[w] \in TeamCalls
      BY <2>1 DEF TeamInv, TeamFits, TeamOps
    <3> QED  BY <1>1, <3>1, AboutKnown
  <2>2. ASSUME NEW w \in Slots, call[w].op = "insertRoleOf"
        PROVE  call[w].person \in stopped
    BY <2>1, <2>2 DEF TeamInv, TeamFits, PersonOps
  <2>3. ASSUME NEW w \in Slots, call[w].op = "insertGrants"
        PROVE  call[w].role \in stopped
    BY <2>1, <2>3 DEF TeamInv, TeamFits, RoleOps
  <2> QED  BY <2>2, <2>3 DEF GivingTo, GrantingTo
<1>13. StandingsAgree' /\ SystemRolesStay'
  BY <1>2, <1>9, <1>11 DEF TeamInv, StandingsAgree, SystemRolesStay
<1>14. RolesAgree'
  <2>1. \A r : MayBeGone(r) => MayBeGone(r)'
    BY <1>2 DEF MayBeGone
  <2> QED  BY <1>2, <1>9, <1>11, <1>12, <2>1 DEF TeamInv, RolesAgree
<1>15. GrantsAgree'
  <2>1. ASSUME NEW r \in Roles, r \notin contested'
        PROVE  grants'[r] = decided'.grants[r] /\ (roleAt'[r] = "gone" => decided'.grants[r] = {})
    <3>1. CASE r \in SystemRoles
      BY <1>2, <1>5, <1>6, <1>9, <3>1 DEF TeamInv, SystemRolesStay
    <3>2. CASE r \notin SystemRoles
      BY <1>2, <1>5, <1>6, <1>9, <1>11, <1>12, <2>1, <3>2 DEF TeamInv, GrantsAgree
    <3> QED  BY <3>1, <3>2
  <2> QED  BY <2>1 DEF GrantsAgree
<1>16. \A v \in Slots : /\ AboutOf(v)' = {} /\ call'[v].op = "idle"
                        /\ TeamFits(call'[v], standing', roleAt', grants', decided', contested')
  BY IdleNotTeam, AboutKnown DEF TeamFits, PersonOps, RoleOps, TeamOps, Idle
<1>17. TeamApart'
  BY <1>16 DEF TeamApart, RoleOps
<1> QED  BY <1>10, <1>13, <1>14, <1>15, <1>16, <1>17 DEF TeamInv

\* A replacement that does not come to its second half is on record.
LEMMA ReplacementLostKept ==
    ASSUME Shape, TeamInv, NEW w \in Slots, ReplacementLost(w), Return(w)
    PROVE  TeamInv'
<1>1. /\ call'[w] = Idle
      /\ \A v \in Slots : v # w => call'[v] = call[v]
  BY DEF Return, GoOn, Shape
<1>2. /\ UNCHANGED <<standing, rolesOf, roleAt, grants, decided>>
      /\ contested \subseteq contested'
  BY DEF ReplacementLost
<1>3. /\ call[w].op = "insertRoleOf" =>
           call[w].person \in People /\ contested' = contested \cup {call[w].person}
      /\ call[w].op = "insertGrants" =>
           call[w].role \in Roles /\ contested' = contested \cup {call[w].role}
      /\ call[w].op \notin {"insertRoleOf", "insertGrants"} => contested' = contested
  <2>1. call[w].op \in {"insertRoleOf", "insertGrants"} => call[w] \in TeamCalls
    BY DEF TeamInv, TeamFits, TeamOps
  <2> QED  BY <2>1, TeamCallsKnown DEF ReplacementLost, PersonOps
<1>4. TeamTyped'
  BY <1>2, <1>3 DEF TeamInv, TeamTyped
<1>5. /\ AboutOf(w)' = {} /\ call'[w].op = "idle"
      /\ \A v \in Slots : v # w => AboutOf(v)' = AboutOf(v)
      /\ TeamFits(call'[w], standing', roleAt', grants', decided', contested')
  BY <1>1, IdleNotTeam, AboutKnown DEF TeamFits, PersonOps, RoleOps, TeamOps, Idle
<1>6. ASSUME NEW v \in Slots
      PROVE  TeamFits(call'[v], standing', roleAt', grants', decided', contested')
  <2>1. CASE v = w
    BY <1>5, <2>1
  <2>2. CASE v # w
    BY <1>1, <1>2, <2>2 DEF TeamInv, TeamFits
  <2> QED  BY <2>1, <2>2
<1>7. TeamApart'
  <2>1. ASSUME NEW v \in Slots, NEW u \in Slots, v # u
        PROVE  /\ (AboutOf(v)' \cap AboutOf(u)') \cap People \subseteq contested'
               /\ (call'[v].op \in RoleOps /\ call'[u].op \in RoleOps
                     /\ call'[v].role = call'[u].role) => call'[v].role \in contested'
               /\ ~(call'[v].op = "insertRole" /\ call'[u].op = "insertRole")
    <3>1. CASE v = w \/ u = w
      BY <1>5, <3>1 DEF RoleOps
    <3>2. CASE v # w /\ u # w
      <4>1. /\ call'[v] = call[v] /\ call'[u] = call[u]
            /\ AboutOf(v)' = AboutOf(v) /\ AboutOf(u)' = AboutOf(u)
        BY <1>1, <1>5, <3>2
      <4> QED  BY <1>2, <2>1, <4>1 DEF TeamInv, TeamApart
    <3> QED  BY <3>1, <3>2
  <2> QED  BY <2>1 DEF TeamApart
<1>8. StandingsAgree' /\ SystemRolesStay'
  BY <1>2 DEF TeamInv, StandingsAgree, SystemRolesStay
<1>9. /\ \A p \in People : p \notin contested' => (GivingTo(p) => GivingTo(p)')
      /\ \A r \in Roles : r \notin contested' => (GrantingTo(r) => GrantingTo(r)')
  <2>1. \A p : GivingTo(p) => \/ GivingTo(p)'
                             \/ (call[w].op = "insertRoleOf" /\ call[w].person = p)
    BY <1>1 DEF GivingTo
  <2>2. \A r : GrantingTo(r) => \/ GrantingTo(r)'
                               \/ (call[w].op = "insertGrants" /\ call[w].role = r)
    BY <1>1 DEF GrantingTo
  <2> QED  BY <1>3, <2>1, <2>2
<1>10. RolesAgree'
  <2>1. \A r : MayBeGone(r) => MayBeGone(r)'
    BY <1>2 DEF MayBeGone
  <2> QED  BY <1>2, <1>9, <2>1 DEF TeamInv, RolesAgree
<1>11. GrantsAgree'
  BY <1>2, <1>9 DEF TeamInv, GrantsAgree
<1> QED  BY <1>4, <1>6, <1>7, <1>8, <1>10, <1>11 DEF TeamInv

LEMMA TeamNext ==
    ASSUME Shape, TeamInv, [Next]_vars
    PROVE  TeamInv'
<1>1. ASSUME NEW w \in Slots, TeamStep(w), Moves(w, TeamOps)
      PROVE  TeamInv'
  <2>1. CASE \/ \E p \in People :
                  \/ \E status \in {"active", "disabled"} :
                        UpdateTeamMemberStatus(w, p, status)
                  \/ UpdateLevel(w, p, {}) \/ LinkIdentity(w, p)
                  \/ \E r \in Roles :
                        UpdateLevel(w, p, {r}) \/ UpdateRoleOf(w, p, r) \/ AcceptAs(w, p, r)
             \/ \E permissions \in SUBSET Permissions :
                  \/ CreateRole(w, permissions)
                  \/ \E r \in Roles : UpdateRole(w, r, permissions)
             \/ \E r \in Roles : DeleteRole(w, r)
    BY <1>1, <2>1, TeamBegunKept
  <2>2. CASE SavePerson(w) \/ FindRole(w) \/ ClearRoleOf(w) \/ InsertRoleOf(w)
               \/ InsertPerson(w) \/ InsertRole(w) \/ ClearGrants(w) \/ InsertGrants(w)
               \/ SaveRole(w) \/ RemoveRole(w)
    BY <1>1, <2>2, SavePersonKept, FindRoleKept, ClearRoleOfKept, InsertRoleOfKept,
       InsertPersonKept, InsertRoleKept, ClearGrantsKept, InsertGrantsKept, SaveRoleKept,
       RemoveRoleKept
  <2> QED  BY <1>1, <2>1, <2>2 DEF TeamStep
<1>2. CASE UNCHANGED teamVars /\ Elsewhere(TeamOps)
  <2>1. UNCHANGED <<standing, rolesOf, roleAt, grants, decided, contested>>
    BY <1>2 DEF teamVars
  <2>2. \A v \in Slots : \/ call'[v] = call[v]
                         \/ call[v].op \notin TeamOps /\ call'[v].op \notin TeamOps
    BY <1>2 DEF Elsewhere
  <2>3. \A v \in Slots : AboutOf(v)' = AboutOf(v)
    BY <2>2, AboutKnown
  <2>4. \A v \in Slots : TeamFits(call'[v], standing, roleAt, grants, decided, contested)
    BY <2>2 DEF TeamInv, TeamFits, PersonOps, RoleOps, TeamOps
  <2>5. TeamApart'
    <3>1. \A v \in Slots : call'[v] = call[v] \/ call'[v].op \notin RoleOps \cup {"insertRole"}
      BY <2>2 DEF TeamOps, RoleOps
    <3> QED  BY <2>1, <2>3, <3>1 DEF TeamInv, TeamApart
  <2>6. /\ \A p : GivingTo(p)' <=> GivingTo(p)
        /\ \A r : GrantingTo(r)' <=> GrantingTo(r)
    BY <2>2 DEF GivingTo, GrantingTo, TeamOps
  <2>7. TeamTyped' /\ StandingsAgree' /\ SystemRolesStay'
    BY <2>1 DEF TeamInv, TeamTyped, StandingsAgree, SystemRolesStay
  <2>8. RolesAgree' /\ GrantsAgree'
    BY <2>1, <2>6 DEF TeamInv, RolesAgree, GrantsAgree, MayBeGone
  <2> QED  BY <2>1, <2>4, <2>5, <2>7, <2>8 DEF TeamInv
<1> QED  BY <1>1, <1>2, TeamMovesApart, TeamRestartKept, ReplacementLostKept

LEMMA TeamStart ==
    ASSUME Init
    PROVE  TeamInv
<1>1. \A w \in Slots : call[w] = Idle
  BY DEF Init, SlotsInit
<1>2. PICK own : own = First(Roles \ SystemRoles)
  OBVIOUS
<1>3. /\ standing = [p \in People |-> IF FirstRole[p] = {} THEN "new" ELSE "active"]
      /\ rolesOf = FirstRole
      /\ roleAt = [r \in Roles |->
                      IF r \in SystemRoles \cup {own} \cup UNION {FirstRole[p] : p \in People}
                      THEN "live" ELSE "new"]
      /\ grants = [r \in Roles |-> IF r \in SystemRoles THEN Seed[r]
                                   ELSE IF r = own THEN Permissions ELSE {}]
      /\ decided = [standing |-> standing, roles |-> rolesOf, grants |-> grants]
      /\ contested = {}
  BY <1>2 DEF Init, TeamInit
<1>4. /\ standing \in [People -> {"new", "active", "disabled"}]
      /\ rolesOf \in [People -> SUBSET Roles]
      /\ roleAt \in [Roles -> {"new", "live", "gone"}]
      /\ grants \in [Roles -> SUBSET Permissions]
  BY <1>3, TeamAssumption
<1>5. /\ decided \in Decisions
      /\ decided.standing = standing /\ decided.roles = rolesOf /\ decided.grants = grants
  BY <1>3, <1>4 DEF Decisions
<1>6. TeamTyped
  BY <1>3, <1>4, <1>5 DEF TeamTyped
<1>7. \A w \in Slots : /\ AboutOf(w) = {} /\ call[w].op = "idle"
                       /\ TeamFits(call[w], standing, roleAt, grants, decided, contested)
  BY <1>1, IdleNotTeam, AboutKnown DEF TeamFits, PersonOps, RoleOps, TeamOps, Idle
<1>8. TeamApart
  BY <1>7 DEF TeamApart, RoleOps
<1>9. StandingsAgree /\ SystemRolesStay
  BY <1>3, <1>5, TeamAssumption DEF StandingsAgree, SystemRolesStay
<1>10. RolesAgree
  BY <1>4, <1>5 DEF RolesAgree
<1>11. GrantsAgree
  BY <1>3, <1>5 DEF GrantsAgree
<1> QED  BY <1>6, <1>7, <1>8, <1>9, <1>10, <1>11 DEF TeamInv

(***************************************************************************)
(* However requests about members and roles interleave with the rest, a    *)
(* member about whom no two overlapped, and none was cut short, may do     *)
(* what was last decided, and while a handler about them is half way at    *)
(* most that: the role of a member and the permissions of a role are       *)
(* replaced without a transaction (replaceRoleForUser, replacePermissions).*)
(***************************************************************************)
THEOREM AccessFollowsDecisions == Spec => []AccessAsDecided
<1>1. Init => Shape /\ TeamInv
  BY InitShape, TeamStart
<1>2. Shape /\ TeamInv /\ [Next]_vars => Shape' /\ TeamInv'
  BY NextKnown, TeamNext
<1>3. TeamInv => AccessAsDecided
  <2> SUFFICES ASSUME TeamInv, NEW p \in People,
                      ({p} \cup decided.roles[p]) \cap contested = {}
               PROVE  /\ Allowed(p) \subseteq Entitled(p)
                      /\ \/ Allowed(p) = Entitled(p)
                         \/ \E w \in Slots : AboutOf(w) \cap ({p} \cup decided.roles[p]) # {}
    BY DEF AccessAsDecided
  <2>1. PICK mine : mine = decided.roles[p]
    OBVIOUS
  <2>2. /\ p \notin contested /\ mine \cap contested = {}
        /\ mine \subseteq Roles
    BY <2>1 DEF TeamInv, TeamTyped, Decisions
  <2>3. standing[p] = decided.standing[p] /\ rolesOf[p] \subseteq mine
    BY <2>1, <2>2 DEF TeamInv, StandingsAgree, RolesAgree
  <2>4. \A r \in mine : grants[r] \subseteq decided.grants[r]
    BY <2>2 DEF TeamInv, GrantsAgree
  <2>5. Allowed(p) \subseteq Entitled(p)
    BY <2>1, <2>3, <2>4 DEF Allowed, Entitled
  <2>6. ASSUME \A w \in Slots : AboutOf(w) \cap ({p} \cup mine) = {}
        PROVE  Entitled(p) \subseteq Allowed(p)
    <3>1. \A w \in Slots : call[w].op \in {"insertRoleOf", "insertGrants"} =>
              call[w] \in TeamCalls /\ AboutOf(w) = call[w].about
      <4>1. \A w \in Slots : call[w].op \in {"insertRoleOf", "insertGrants"} =>
                                call[w] \in TeamCalls
        BY DEF TeamInv, TeamFits, TeamOps
      <4> QED  BY <4>1, AboutKnown
    <3>2. ~GivingTo(p)
      BY <2>6, <3>1 DEF TeamInv, TeamFits, PersonOps, GivingTo
    <3>3. \A r \in mine : ~GrantingTo(r)
      BY <2>6, <3>1 DEF TeamInv, TeamFits, RoleOps, GrantingTo
    <3>4. \A r \in mine : /\ grants[r] = decided.grants[r]
                          /\ roleAt[r] = "gone" => decided.grants[r] = {}
      BY <2>2, <3>3 DEF TeamInv, GrantsAgree
    <3>5. \A r \in mine : r \in rolesOf[p] \/ roleAt[r] = "gone"
      BY <2>1, <2>2, <3>2 DEF TeamInv, RolesAgree, MayBeGone
    <3> QED  BY <2>1, <2>3, <3>4, <3>5 DEF Allowed, Entitled
  <2> QED  BY <2>1, <2>5, <2>6
<1> QED  BY <1>1, <1>2, <1>3, PTL DEF Spec

-----------------------------------------------------------------------------
(* Limits of an organization.  What is there of a kind, or may come back   *)
(* by a handler that has it in hand, and the handlers past the check for   *)
(* one more, are together fewer than the limit and the handlers.           *)

Kept(there, coming, limit) ==
    /\ IsFiniteSet(there)
    /\ limit # Null =>
           Cardinality(there) + Cardinality(coming) < limit + Cardinality(Slots)

\* Rows of this kind, or in the hands of a handler that is to save them
SaveOps == {"saveItem", "saveCampaign", "saveTicked"}
RowSavers == {w \in Slots : call[w].op \in SaveOps}
RowsThere(key) ==
    {i \in Items : /\ Kind[i] = key /\ i \notin imported
                   /\ item[i] = "live" \/ \E w \in RowSavers : call[w].item = i}
RowsComing(key) == {w \in Slots : call[w].op = "insertItem" /\ call[w].kind = key}

SiteSavers == {w \in Slots : call[w].op \in {"findOther", "saveSite"}}
SitesThere == {s \in Sites : Exists(s) \/ \E w \in SiteSavers : call[w].site = s}
SitesComing == {w \in Slots : call[w].op \in {"findDomain", "insertSite"}}

\* Members, and invitations of others that are pending or being accepted
Accepting == {w \in Slots : call[w].op = "saveMember"}
Expected(i) ==
    /\ invitation[i] # None
    /\ account[invitation[i].email] # Home
    /\ invitation[i].status = "pending" \/ \E w \in Accepting : call[w].invitation = i
Awaited == {i \in Invitations : Expected(i)}
Tagged(tag, some) == {<<tag, x>> : x \in some}
PeopleThere == Tagged("member", Homes) \cup Tagged("invited", Awaited)
\* Handlers that have passed the check for one more member, or that have counted
\* the pending invitations and will pass if nobody accepts meanwhile
MayPass(w) == call[w].op = "countUsers" /\ call[w].pending + Cardinality(Homes) < call[w].limit
PeopleComing ==
    {w \in Slots : \/ call[w].op \in {"findInvitee", "findInvitation", "saveInvitation"}
                  \/ MayPass(w)}

\* A count compares with a limit that was in force, and knows only members.
CountFits(c) ==
    /\ c.op \in {"countMembers", "countPending", "countUsers"} =>
           /\ c.limit \in Nat
           /\ ceiling["members"] # Null => c.limit <= ceiling["members"]
    /\ c.op = "countPending" => c.users \subseteq Homes
    /\ c.op = "countUsers" => c.pending \in Nat
CountsFit == \A w \in Slots : CountFits(call[w])

PeopleLimit(overlooked) ==
    IF ceiling["members"] = Null THEN Null ELSE ceiling["members"] + overlooked
PeopleWithin == Kept(PeopleThere, PeopleComing, PeopleLimit(missed))
SitesWithin == Kept(SitesThere, SitesComing, ceiling["websites"])
RowsWithin == \A key \in Keys : Kept(RowsThere(key), RowsComing(key), ceiling[key])

\* No limit in force exceeds the highest one so far.
Capped ==
    \A key \in Keys : ceiling[key] # Null =>
        /\ EffectiveLimit(key, entitlements) # Null
        /\ EffectiveLimit(key, entitlements) <= ceiling[key]

OverrunInv == Capped /\ CountsFit /\ PeopleWithin /\ SitesWithin /\ RowsWithin

-----------------------------------------------------------------------------
\* Counting

LEMMA KeptFewer ==
    ASSUME NEW there, NEW coming \in SUBSET Slots, NEW limit \in Nat \cup {Null},
           Kept(there, coming, limit),
           NEW fewer \in SUBSET there, NEW less \in SUBSET coming
    PROVE  Kept(fewer, less, limit)
<1>1. IsFiniteSet(there) /\ IsFiniteSet(coming)
  BY HandlersCounted DEF Kept
<1>2. /\ IsFiniteSet(fewer) /\ Cardinality(fewer) \in Nat /\ Cardinality(there) \in Nat
      /\ Cardinality(fewer) <= Cardinality(there)
  BY <1>1, NoMoreThan
<1>3. /\ Cardinality(less) \in Nat /\ Cardinality(coming) \in Nat
      /\ Cardinality(less) <= Cardinality(coming)
  BY <1>1, NoMoreThan
<1>4. Cardinality(Slots) \in Nat
  BY HandlersCounted
<1> QED  BY <1>2, <1>3, <1>4, QuotaAssumption DEF Kept

LEMMA KeptInserted ==
    ASSUME NEW there, NEW coming \in SUBSET Slots, NEW limit \in Nat \cup {Null},
           Kept(there, coming, limit), NEW w \in coming, NEW x,
           NEW now \in SUBSET (there \cup {x}), NEW less \in SUBSET (coming \ {w})
    PROVE  Kept(now, less, limit)
<1>1. IsFiniteSet(there)
  BY DEF Kept
<1>2. /\ IsFiniteSet(there \cup {x}) /\ Cardinality(coming \ {w}) \in Nat
      /\ Cardinality(there \cup {x}) \in Nat
      /\ Cardinality(there \cup {x}) + Cardinality(coming \ {w})
           <= Cardinality(there) + Cardinality(coming)
  BY <1>1, OneInserted
<1>3. /\ Cardinality(Slots) \in Nat /\ Cardinality(there) \in Nat
      /\ Cardinality(coming) \in Nat
  BY <1>1, HandlersCounted, NoMoreThan
<1>4. Kept(there \cup {x}, coming \ {w}, limit)
  BY <1>2, <1>3, QuotaAssumption DEF Kept
<1>5. coming \ {w} \in SUBSET Slots
  OBVIOUS
<1> QED  BY <1>4, <1>5, KeptFewer

\* One that was counted is there in another form.
LEMMA KeptReplaced ==
    ASSUME NEW there, NEW coming \in SUBSET Slots, NEW limit \in Nat \cup {Null},
           Kept(there, coming, limit), NEW old \in there, NEW x,
           NEW now \in SUBSET ((there \ {old}) \cup {x}), NEW less \in SUBSET coming
    PROVE  Kept(now, less, limit)
<1>1. PICK rest : rest = there \ {old}
  OBVIOUS
<1>2. /\ IsFiniteSet(there) /\ Cardinality(there) \in Nat
      /\ IsFiniteSet(rest) /\ Cardinality(rest) = Cardinality(there) - 1
  BY <1>1, FS_RemoveElement, FS_CardinalityType DEF Kept
<1>3. /\ IsFiniteSet(rest \cup {x})
      /\ \/ Cardinality(rest \cup {x}) = Cardinality(rest)
         \/ Cardinality(rest \cup {x}) = Cardinality(rest) + 1
  BY <1>2, FS_AddElement
<1>4. Cardinality(rest \cup {x}) \in Nat /\ Cardinality(rest \cup {x}) <= Cardinality(there)
  BY <1>2, <1>3, FS_CardinalityType
<1>5. Cardinality(Slots) \in Nat /\ Cardinality(coming) \in Nat
  BY HandlersCounted
<1>6. Kept(rest \cup {x}, coming, limit)
  BY <1>2, <1>3, <1>4, <1>5, QuotaAssumption DEF Kept
<1> QED  BY <1>1, <1>6, KeptFewer

\* A check counted those that are there; the others are in somebody's hands.
Checked(live, limit, savers, coming, saved, hand, there) ==
    /\ IsFiniteSet(live) /\ limit \in Nat \cup {Null}
    /\ limit # Null => Cardinality(live) < limit
    /\ savers \in SUBSET Slots /\ coming \in SUBSET Slots
    /\ savers \cap coming = {}
    /\ \A s \in saved : \E w \in savers : hand[w] = s
    /\ there \in SUBSET (live \cup saved)

LEMMA KeptChecked ==
    ASSUME NEW live, NEW limit, NEW savers, NEW coming, NEW saved, NEW hand, NEW there,
           Checked(live, limit, savers, coming, saved, hand, there)
    PROVE  Kept(there, coming, limit)
<1> USE DEF Checked
<1>1. PICK holders : holders = {w \in savers : hand[w] \in saved}
  OBVIOUS
<1>2. holders \in SUBSET Slots /\ holders \cap coming = {}
  BY <1>1
<1>3. PICK g : g = [w \in holders |-> hand[w]]
  OBVIOUS
<1>4. g \in Surjection(holders, saved)
  BY <1>1, <1>3 DEF Surjection
<1>5. IsFiniteSet(holders) /\ Cardinality(holders) \in Nat /\ Cardinality(coming) \in Nat
  BY <1>2, HandlersCounted
<1>6. /\ IsFiniteSet(saved) /\ Cardinality(saved) <= Cardinality(holders)
      /\ Cardinality(saved) \in Nat
  BY <1>4, <1>5, FS_Surjection, FS_CardinalityType
<1>7. Cardinality(holders) + Cardinality(coming) <= Cardinality(Slots)
  BY <1>2, HandlersApart
<1>8. /\ IsFiniteSet(live \cup saved) /\ Cardinality(live) \in Nat
      /\ Cardinality(live \cup saved)
           = Cardinality(live) + Cardinality(saved) - Cardinality(live \cap saved)
  BY <1>6, FS_Union, FS_CardinalityType
<1>9. Cardinality(live \cap saved) \in Nat /\ Cardinality(Slots) \in Nat
  <2>1. live \cap saved \in SUBSET live
    OBVIOUS
  <2> QED  BY <2>1, NoMoreThan, HandlersCounted
<1>10. Cardinality(live \cup saved) <= Cardinality(live) + Cardinality(saved)
       /\ Cardinality(live \cup saved) \in Nat
  BY <1>6, <1>8, <1>9, FS_CardinalityType
<1>11. Kept(live \cup saved, coming, limit)
  BY <1>5, <1>6, <1>7, <1>8, <1>9, <1>10, QuotaAssumption DEF Kept
<1> QED  BY <1>11, KeptFewer

LEMMA KeptBelow ==
    ASSUME NEW there, NEW coming \in SUBSET Slots, NEW limit \in Nat \cup {Null},
           NEW higher \in Nat \cup {Null}, Kept(there, coming, limit),
           higher # Null => limit # Null /\ limit <= higher
    PROVE  Kept(there, coming, higher)
<1>1. Cardinality(there) \in Nat /\ Cardinality(coming) \in Nat /\ Cardinality(Slots) \in Nat
  BY HandlersCounted, FS_CardinalityType DEF Kept
<1> QED  BY <1>1, QuotaAssumption DEF Kept

-----------------------------------------------------------------------------
\* The limits

LEMMA CeilingTyped ==
    ASSUME QuotaTypeOK, NEW key \in Keys
    PROVE  ceiling[key] \in Nat \cup {Null}
BY QuotaAssumption DEF QuotaTypeOK

LEMMA WithinCeiling ==
    ASSUME QuotaTypeOK, Capped, NEW key \in Keys, NEW used \in Nat, WithinLimit(key, used)
    PROVE  ceiling[key] # Null => used < ceiling[key]
<1>1. EffectiveLimit(key, entitlements) \in Nat \cup {Null}
  BY EffectiveTyped, QuotaAssumption DEF QuotaTypeOK
<1>2. ceiling[key] \in Nat \cup {Null}
  BY CeilingTyped
<1> QED  BY <1>1, <1>2, QuotaAssumption DEF WithinLimit, Within, Capped

\* The highest limit in force grows.
LEMMA CeilingGrows ==
    ASSUME Shape, QuotaInv, QuotaInv', Capped, [Next]_vars
    PROVE  /\ Capped'
           /\ \A key \in Keys : ceiling'[key] # Null =>
                  ceiling[key] # Null /\ ceiling[key] <= ceiling'[key]
<1>1. CASE UNCHANGED quotaVars
  <2>1. \A key \in Keys : ceiling[key] \in Nat \cup {Null}
    BY CeilingTyped DEF QuotaInv
  <2> QED  BY <1>1, <2>1, QuotaAssumption DEF Capped, quotaVars
<1>2. ASSUME NEW e, Entitle(e)
      PROVE  /\ Capped'
             /\ \A key \in Keys : ceiling'[key] # Null =>
                    ceiling[key] # Null /\ ceiling[key] <= ceiling'[key]
  <2>1. entitlements' = e /\ e \in Entitlements
    BY <1>2 DEF Entitle, QuotaInv, QuotaTypeOK
  <2>2. ASSUME NEW key \in Keys
        PROVE  /\ ceiling[key] \in Nat \cup {Null}
               /\ EffectiveLimit(key, e) \in Nat \cup {Null}
               /\ ceiling'[key] = Higher(ceiling[key], EffectiveLimit(key, e))
    BY <1>2, <2>1, CeilingTyped, EffectiveTyped, QuotaAssumption DEF Entitle, QuotaInv
  <2>3. ASSUME NEW key \in Keys, ceiling'[key] # Null
        PROVE  /\ ceiling[key] # Null /\ EffectiveLimit(key, e) # Null
               /\ ceiling[key] <= ceiling'[key]
               /\ EffectiveLimit(key, e) <= ceiling'[key]
    BY <2>2, <2>3, QuotaAssumption DEF Higher
  <2>4. \A key \in Keys : EffectiveLimit(key, entitlements)' = EffectiveLimit(key, e)
    BY <2>1 DEF EffectiveLimit, PlatformCap
  <2> QED  BY <2>3, <2>4 DEF Capped
<1>3. ASSUME NEW w \in Slots, QuotaStep(w)
      PROVE  UNCHANGED quotaVars \/ \E e : Entitle(e)
  BY <1>3 DEF QuotaStep, UpdateOrgLimits, UpdatePlatformCaps, SaveOrgLimits, SaveCaps
<1> QED  BY <1>1, <1>2, <1>3, QuotaApart

-----------------------------------------------------------------------------
\* Websites

SitesCounted == Kept(SitesThere', SitesComing', ceiling["websites"])

LEMMA WebsitesLimited ==
    ASSUME QuotaInv
    PROVE  /\ "websites" \in Keys /\ ceiling["websites"] \in Nat \cup {Null}
           /\ SitesComing \in SUBSET Slots /\ SitesComing' \in SUBSET Slots
BY CeilingTyped, SiteAssumption DEF QuotaInv, SitesComing

LEMMA SitesFewer ==
    ASSUME QuotaInv, SitesWithin, NEW w \in Slots, Moves(w, SiteOps),
           call'[w].op \in {"findDomain", "insertSite"}
               => call[w].op \in {"findDomain", "insertSite"},
           call'[w].op \in {"findOther", "saveSite"} => call'[w].site \in SitesThere,
           \A s \in Sites : Exists(s)' => s \in SitesThere
    PROVE  SitesCounted
<1>1. SitesComing' \in SUBSET SitesComing
  BY DEF SitesComing, Moves
<1>2. ASSUME NEW v \in SiteSavers'
      PROVE  call'[v].site \in Sites => call'[v].site \in SitesThere
  BY <1>2 DEF SiteSavers, SitesThere, Moves
<1>3. SitesThere' \in SUBSET SitesThere
  BY <1>2 DEF SitesThere, SiteSavers
<1> QED  BY <1>1, <1>3, WebsitesLimited, KeptFewer DEF SitesWithin, SitesCounted

LEMMA SiteCreated ==
    ASSUME Shape, QuotaInv, Capped, NEW w \in Slots, Moves(w, SiteOps),
           NEW row, CreateSite(w, row)
    PROVE  SitesCounted
<1>1. /\ call[w] = Idle /\ call'[w] = [op |-> "findDomain", row |-> row]
      /\ site' = site
  BY Makes DEF CreateSite, Begin, siteVars
<1>2. IsFiniteSet(Websites) /\ Cardinality(Websites) \in Nat
  <2>1. Websites \in SUBSET Sites
    BY DEF Websites
  <2> QED  BY <2>1, NoMoreThan, WorkspaceAssumption
<1>3. ceiling["websites"] # Null => Cardinality(Websites) < ceiling["websites"]
  BY <1>2, WithinCeiling, WebsitesLimited DEF CreateSite, QuotaInv
<1>4. SiteSavers' = SiteSavers /\ SiteSavers \in SUBSET Slots
  BY <1>1 DEF SiteSavers, Moves, Idle
<1>5. SiteSavers \cap SitesComing' = {}
  BY <1>4 DEF SiteSavers, SitesComing
<1>6. PICK saved : saved = {s \in Sites : \E v \in SiteSavers : call[v].site = s}
  OBVIOUS
<1>7. PICK hand : hand = [v \in Slots |-> call[v].site]
  OBVIOUS
<1>8. \A s \in saved : \E v \in SiteSavers : hand[v] = s
  BY <1>4, <1>6, <1>7
<1>9. \A v \in SiteSavers : call'[v] = call[v]
  BY <1>1, <1>4 DEF SiteSavers, Moves, Idle
<1>10. SitesThere' \in SUBSET (Websites \cup saved)
  BY <1>1, <1>4, <1>6, <1>9 DEF SitesThere, Websites, Exists
<1>11. PICK there, coming : there = SitesThere' /\ coming = SitesComing'
  OBVIOUS
<1>12. Checked(Websites, ceiling["websites"], SiteSavers, coming, saved, hand, there)
  BY <1>2, <1>3, <1>4, <1>5, <1>8, <1>10, <1>11, WebsitesLimited DEF Checked
<1> QED  BY <1>11, <1>12, KeptChecked DEF SitesCounted

LEMMA SiteInserted ==
    ASSUME Shape, QuotaInv, SiteInv, SitesWithin, NEW w \in Slots, Moves(w, SiteOps),
           InsertSite(w)
    PROVE  SitesCounted
<1>1. /\ call[w].op = "insertSite" /\ call'[w] = Idle
  BY Makes DEF InsertSite, Return
<1>2. PICK x : site' = [site EXCEPT ![x] = call[w].row]
  BY DEF InsertSite
<1>3. w \in SitesComing
  BY <1>1 DEF SitesComing
<1>4. SitesComing' \in SUBSET (SitesComing \ {w})
  BY <1>1 DEF SitesComing, Moves, Idle
<1>5. \A v \in SiteSavers' : v \in SiteSavers /\ call'[v] = call[v]
  BY <1>1 DEF SiteSavers, Moves, Idle
<1>6. \A s \in Sites : s # x => site'[s] = site[s]
  BY <1>2 DEF SiteInv, RunsInv, SiteTypeOK
<1>7. SitesThere' \in SUBSET (SitesThere \cup {x})
  BY <1>5, <1>6 DEF SitesThere, Exists
<1> QED  BY <1>3, <1>4, <1>7, WebsitesLimited, KeptInserted DEF SitesWithin, SitesCounted

LEMMA SitesStep ==
    ASSUME Shape, QuotaInv, Capped, SiteInv, SitesWithin, NEW w \in Slots,
           Moves(w, SiteOps), SiteStep(w)
    PROVE  SitesCounted
<1>1. ASSUME NEW c, Begin(w, c) \/ GoOn(w, c), site' = site,
             c.op \in {"deleteSite", "saveRuns", "idle"}
      PROVE  SitesCounted
  <2>1. call'[w] = c
    BY <1>1, Makes
  <2> QED  BY <1>1, <2>1, SitesFewer DEF Exists, SitesThere
<1>2. ASSUME NEW s \in Sites, NEW row, UpdateSite(w, s, row)
      PROVE  SitesCounted
  <2>1. call'[w] = [op |-> IF row.domain = site[s].domain THEN "saveSite" ELSE "findOther",
                    site |-> s, row |-> row]
    BY <1>2, Makes DEF UpdateSite
  <2>2. call'[w].op \notin {"findDomain", "insertSite"} /\ call'[w].site = s
    BY <2>1
  <2>3. s \in SitesThere /\ site' = site
    BY <1>2 DEF UpdateSite, SitesThere, siteVars
  <2> QED  BY <2>2, <2>3, SitesFewer DEF Exists, SitesThere
<1>3. ASSUME NEW s \in Sites, DeleteSite(w, s) \/ TriggerAudit(w, {s})
      PROVE  SitesCounted
  BY <1>1, <1>3 DEF DeleteSite, TriggerAudit, siteVars
<1>4. CASE TriggerAudit(w, ActiveSites) \/ MonthlyAudits(w)
  BY <1>1, <1>4 DEF TriggerAudit, MonthlyAudits, siteVars
<1>5. ASSUME NEW s \in Sites, SaveRun(w, s)
      PROVE  SitesCounted
  <2>1. call'[w].op \in {"idle", "saveRuns"}
    <3>1. PICK c : c = [call[w] EXCEPT !.sites = call[w].sites \ {s}]
      OBVIOUS
    <3>2. c.op = "saveRuns"
      BY <1>5, <3>1 DEF SaveRun, Shape
    <3>3. GoOn(w, c) \/ GoOn(w, Idle)
      BY <1>5, <3>1 DEF SaveRun, Return
    <3> QED  BY <3>2, <3>3, Makes DEF Idle
  <2>2. site' = site
    BY <1>5 DEF SaveRun
  <2> QED  BY <2>1, <2>2, SitesFewer DEF Exists, SitesThere
<1>6. CASE FindDomain(w)
  <2>1. /\ call[w].op = "findDomain" /\ site' = site
        /\ GoOn(w, [call[w] EXCEPT !.op = "insertSite"]) \/ GoOn(w, Idle)
    BY <1>6 DEF FindDomain, siteVars, Return
  <2>2. PICK c : c = [call[w] EXCEPT !.op = "insertSite"]
    OBVIOUS
  <2>3. c.op = "insertSite"
    BY <2>2, Renamed DEF Shape
  <2>4. call'[w] = c \/ call'[w] = Idle
    BY <2>1, <2>2, Makes
  <2>5. call'[w].op \notin {"findOther", "saveSite"}
    BY <2>3, <2>4 DEF Idle
  <2> QED  BY <2>1, <2>5, SitesFewer DEF Exists, SitesThere
<1>7. CASE FindOther(w)
  <2>1. /\ call[w].op = "findOther" /\ site' = site
        /\ GoOn(w, [call[w] EXCEPT !.op = "saveSite"]) \/ GoOn(w, Idle)
    BY <1>7 DEF FindOther, siteVars, Return
  <2>2. PICK c : c = [call[w] EXCEPT !.op = "saveSite"]
    OBVIOUS
  <2>3. c.op = "saveSite" /\ c.site = call[w].site
    BY <2>1, <2>2, Renamed DEF Shape, SiteInv, SiteFits
  <2>4. call[w].site \in SitesThere
    BY <2>1 DEF SiteInv, SiteFits, SitesThere, SiteSavers
  <2>5. call'[w] = c \/ call'[w] = Idle
    BY <2>1, <2>2, Makes
  <2>6. /\ call'[w].op \notin {"findDomain", "insertSite"}
        /\ call'[w].op \in {"findOther", "saveSite"} => call'[w].site \in SitesThere
    BY <2>3, <2>4, <2>5 DEF Idle
  <2> QED  BY <2>1, <2>6, SitesFewer DEF Exists, SitesThere
<1>8. CASE SaveSite(w)
  <2>1. PICK x \in Sites : x = call[w].site
    BY <1>8 DEF SaveSite, SiteInv, SiteFits
  <2>2. x \in SitesThere
    BY <1>8, <2>1 DEF SaveSite, SitesThere, SiteSavers
  <2>3. site' = [site EXCEPT ![x] = call[w].row]
    BY <1>8, <2>1 DEF SaveSite
  <2>4. \A s \in Sites : s # x => site'[s] = site[s]
    BY <2>3 DEF SiteInv, RunsInv, SiteTypeOK
  <2>5. call'[w] = Idle
    BY <1>8, Makes DEF SaveSite, Return
  <2>6. \A s \in Sites : Exists(s)' => s \in SitesThere
    BY <2>2, <2>4 DEF Exists, SitesThere
  <2> QED  BY <2>5, <2>6, SitesFewer DEF Idle
<1>9. CASE RemoveSite(w)
  <2>1. site' = [site EXCEPT ![call[w].site] = Nil] /\ call'[w] = Idle
    BY <1>9, Makes DEF RemoveSite, Return
  <2>2. \A s \in Sites : Exists(s)' => Exists(s)
    BY <2>1 DEF Exists, SiteInv, RunsInv, SiteTypeOK
  <2> QED  BY <2>1, <2>2, SitesFewer DEF Idle, SitesThere
<1> QED  BY <1>2, <1>3, <1>4, <1>5, <1>6, <1>7, <1>8, <1>9, SiteCreated, SiteInserted
         DEF SiteStep

LEMMA SitesNext ==
    ASSUME Shape, QuotaInv, Capped, SiteInv, SitesWithin, [Next]_vars
    PROVE  SitesCounted
<1>1. ASSUME site' = site,
             \A v \in Slots : call'[v] = call[v] \/ call'[v].op \notin SiteOps
      PROVE  SitesCounted
  <2>1. SitesComing' \in SUBSET SitesComing
    BY <1>1 DEF SitesComing, SiteOps
  <2>2. \A v \in SiteSavers' : v \in SiteSavers /\ call'[v] = call[v]
    BY <1>1 DEF SiteSavers, SiteOps
  <2>3. SitesThere' \in SUBSET SitesThere
    BY <1>1, <2>2 DEF SitesThere, Exists
  <2> QED  BY <2>1, <2>3, WebsitesLimited, KeptFewer DEF SitesWithin, SitesCounted
<1>2. ASSUME NEW r \in Runs, RunnerStep(r), UNCHANGED call
      PROVE  SitesCounted
  <2>1. site' = site
    BY <1>2 DEF RunnerStep, FindRun, StartRun, FetchSitemap, FetchPage, CompleteRun,
                RunFails, MarkFailed, SaveJob, JobStep
  <2> QED  BY <1>1, <1>2, <2>1
<1>3. ASSUME JobsLost, \A v \in Slots : call'[v].op = "idle"
      PROVE  SitesCounted
  <2>1. "idle" \notin SiteOps
    BY DEF SiteOps
  <2> QED  BY <1>1, <1>3, <2>1 DEF JobsLost
<1>4. ASSUME UNCHANGED siteVars,
             \A v \in Slots : call'[v] = call[v] \/ call'[v].op \notin SiteOps
      PROVE  SitesCounted
  BY <1>1, <1>4 DEF siteVars
<1> QED  BY <1>2, <1>3, <1>4, SiteApart, SitesStep

-----------------------------------------------------------------------------
\* Campaigns and prospects

RowsCounted == \A key \in Keys : Kept(RowsThere(key)', RowsComing(key)', ceiling[key])

LEMMA RowsLimited ==
    ASSUME QuotaInv, NEW key \in Keys
    PROVE  /\ ceiling[key] \in Nat \cup {Null}
           /\ RowsComing(key) \in SUBSET Slots /\ RowsComing(key)' \in SUBSET Slots
BY CeilingTyped DEF QuotaInv, RowsComing

LEMMA RowsOfKindFewer ==
    ASSUME QuotaInv, RowsWithin, NEW key \in Keys,
           RowsThere(key)' \subseteq RowsThere(key),
           RowsComing(key)' \subseteq RowsComing(key)
    PROVE  Kept(RowsThere(key)', RowsComing(key)', ceiling[key])
BY RowsLimited, KeptFewer DEF RowsWithin

\* No row is there that was not, or is about to be saved by w that was not there.
NoneAdded(w) ==
    /\ call'[w].op \in SaveOps =>
           \/ item[call'[w].item] = "live"
           \/ w \in RowSavers /\ call'[w] = call[w]
    /\ imported \subseteq imported'
    /\ \A i \in Items : item'[i] = "live" =>
           \/ item[i] = "live" \/ i \in imported'
           \/ \E v \in RowSavers : call[v].item = i

LEMMA NoRowAdded ==
    ASSUME NEW w \in Slots, \A v \in Slots : v # w => call'[v] = call[v], NoneAdded(w),
           NEW key
    PROVE  RowsThere(key)' \subseteq RowsThere(key)
<1>1. ASSUME NEW v \in RowSavers', call'[v].item \in Items
      PROVE  \/ item[call'[v].item] = "live"
             \/ v \in RowSavers /\ call[v].item = call'[v].item
  BY <1>1 DEF RowSavers, NoneAdded
<1> QED  BY <1>1 DEF RowsThere, NoneAdded

LEMMA RowsFewer ==
    ASSUME QuotaInv, RowsWithin, NEW w \in Slots,
           \A v \in Slots : v # w => call'[v] = call[v],
           NoneAdded(w), call'[w].op # "insertItem"
    PROVE  RowsCounted
<1>1. \A key \in Keys : RowsComing(key)' \subseteq RowsComing(key)
  BY DEF RowsComing
<1> QED  BY <1>1, NoRowAdded, RowsOfKindFewer DEF RowsCounted

LEMMA RowCreated ==
    ASSUME Shape, QuotaInv, Capped, RowsWithin, NEW w \in Slots, Moves(w, RemovalOps),
           NEW kind \in Keys, CreateItem(w, kind)
    PROVE  RowsCounted
<1>1. /\ call[w] = Idle /\ call'[w] = [op |-> "insertItem", kind |-> kind]
      /\ item' = item /\ imported' = imported
      /\ \A v \in Slots : v # w => call'[v] = call[v]
  BY Makes DEF CreateItem, Begin, removalVars, Moves
<1>2. ASSUME NEW key \in Keys, key # kind
      PROVE  Kept(RowsThere(key)', RowsComing(key)', ceiling[key])
  <2>1. RowsThere(key)' \subseteq RowsThere(key)
    BY <1>1, NoRowAdded DEF NoneAdded, SaveOps
  <2>2. RowsComing(key)' \subseteq RowsComing(key)
    BY <1>1, <1>2 DEF RowsComing
  <2> QED  BY <2>1, <2>2, RowsOfKindFewer
<1>3. IsFiniteSet(Live(kind)) /\ Cardinality(Live(kind)) \in Nat
  <2>1. Live(kind) \in SUBSET Items
    BY DEF Live
  <2> QED  BY <2>1, NoMoreThan, WorkspaceAssumption
<1>4. ceiling[kind] # Null => Cardinality(Live(kind)) < ceiling[kind]
  BY <1>3, WithinCeiling DEF CreateItem, QuotaInv
<1>5. RowSavers' = RowSavers /\ RowSavers \in SUBSET Slots
  BY <1>1 DEF RowSavers, SaveOps, Idle
<1>6. RowSavers \cap RowsComing(kind)' = {}
  BY <1>5 DEF RowSavers, SaveOps, RowsComing
<1>7. PICK saved : saved = {i \in Items : \E v \in RowSavers : call[v].item = i}
  OBVIOUS
<1>8. PICK hand : hand = [v \in Slots |-> call[v].item]
  OBVIOUS
<1>9. \A i \in saved : \E v \in RowSavers : hand[v] = i
  BY <1>5, <1>7, <1>8
<1>10. \A v \in RowSavers : call'[v] = call[v]
  BY <1>1, <1>5 DEF RowSavers, SaveOps, Idle
<1>11. RowsThere(kind)' \in SUBSET (Live(kind) \cup saved)
  BY <1>1, <1>5, <1>7, <1>10 DEF RowsThere, Live
<1>12. PICK there, coming : there = RowsThere(kind)' /\ coming = RowsComing(kind)'
  OBVIOUS
<1>13. Checked(Live(kind), ceiling[kind], RowSavers, coming, saved, hand, there)
  BY <1>3, <1>4, <1>5, <1>6, <1>9, <1>11, <1>12, RowsLimited DEF Checked
<1>14. Kept(RowsThere(kind)', RowsComing(kind)', ceiling[kind])
  BY <1>12, <1>13, KeptChecked
<1> QED  BY <1>2, <1>14 DEF RowsCounted

LEMMA RowInserted ==
    ASSUME Shape, QuotaInv, RemovalInv, RowsWithin, NEW w \in Slots, Moves(w, RemovalOps),
           InsertItem(w)
    PROVE  RowsCounted
<1>1. /\ call[w].op = "insertItem" /\ call'[w] = Idle /\ imported' = imported
      /\ \A v \in Slots : v # w => call'[v] = call[v]
  BY Makes DEF InsertItem, Return, Moves
<1>2. PICK x \in Unborn(call[w].kind) : item' = [item EXCEPT ![x] = "live"]
  BY DEF InsertItem
<1>3. x \in Items /\ Kind[x] = call[w].kind
  BY <1>2 DEF Unborn
<1>4. \A i \in Items : i # x => item'[i] = item[i]
  BY <1>2 DEF RemovalInv, RemovalTypeOK
<1>5. \A v \in RowSavers' : v \in RowSavers /\ call'[v] = call[v]
  BY <1>1 DEF RowSavers, SaveOps, Idle
<1>6. ASSUME NEW key \in Keys, key # call[w].kind
      PROVE  Kept(RowsThere(key)', RowsComing(key)', ceiling[key])
  <2>1. RowsThere(key)' \subseteq RowsThere(key)
    BY <1>1, <1>3, <1>4, <1>5, <1>6 DEF RowsThere
  <2>2. RowsComing(key)' \subseteq RowsComing(key)
    BY <1>1 DEF RowsComing, Idle
  <2> QED  BY <2>1, <2>2, RowsOfKindFewer
<1>7. ASSUME NEW key \in Keys, key = call[w].kind
      PROVE  Kept(RowsThere(key)', RowsComing(key)', ceiling[key])
  <2>1. RowsThere(key)' \in SUBSET (RowsThere(key) \cup {x})
    BY <1>1, <1>4, <1>5 DEF RowsThere
  <2>2. w \in RowsComing(key)
    BY <1>1, <1>7 DEF RowsComing
  <2>3. RowsComing(key)' \in SUBSET (RowsComing(key) \ {w})
    BY <1>1 DEF RowsComing, Idle
  <2>4. Kept(RowsThere(key), RowsComing(key), ceiling[key])
    BY DEF RowsWithin
  <2> QED  BY <2>1, <2>2, <2>3, <2>4, RowsLimited, KeptInserted
<1> QED  BY <1>6, <1>7 DEF RowsCounted

LEMMA RowsSaved ==
    ASSUME Shape, QuotaInv, RemovalInv, RowsWithin, NEW w \in Slots,
           \A v \in Slots : v # w => call'[v] = call[v],
           w \in RowSavers, Restored(call[w].item), Return(w) \/ call' = call
    PROVE  RowsCounted
<1>1. call'[w] = Idle \/ call'[w] = call[w]
  BY Makes DEF Return
<1>2. PICK x \in Items : x = call[w].item
  BY DEF RowSavers, SaveOps, RemovalInv, RemovalFits
<1>3. item' = [item EXCEPT ![x] = "live"] /\ imported' = imported
  BY <1>2 DEF Restored
<1>4. \A i \in Items : i # x => item'[i] = item[i]
  BY <1>3 DEF RemovalInv, RemovalTypeOK
<1>5. w \in RowSavers /\ call[w].item = x
  BY <1>2 DEF RowSavers
<1>6. NoneAdded(w)
  BY <1>1, <1>3, <1>4, <1>5 DEF NoneAdded, SaveOps, Idle
<1>7. call'[w].op # "insertItem"
  BY <1>1 DEF RowSavers, SaveOps, Idle
<1> QED  BY <1>6, <1>7, RowsFewer

LEMMA RowsStep ==
    ASSUME Shape, QuotaInv, Capped, RemovalInv, RowsWithin, NEW w \in Slots,
           Moves(w, RemovalOps), Removes(w)
    PROVE  RowsCounted
<1> USE DEF Moves
<1>1. ASSUME NEW c, Begin(w, c) \/ GoOn(w, c), item' = item, imported' = imported,
             c.op \notin {"insertItem"} \cup SaveOps
      PROVE  RowsCounted
  <2>1. call'[w] = c
    BY <1>1, Makes
  <2> QED  BY <1>1, <2>1, RowsFewer DEF NoneAdded, SaveOps
<1>2. ASSUME NEW x \in Items, UpdateItem(w, x)
      PROVE  RowsCounted
  <2>1. /\ call'[w] = [op |-> "saveItem", item |-> x] /\ item[x] = "live"
        /\ item' = item /\ imported' = imported
    BY <1>2, Makes DEF UpdateItem, removalVars
  <2> QED  BY <2>1, RowsFewer DEF NoneAdded, SaveOps
<1>3. ASSUME NEW x \in Items, DeleteItem(w, x) \/ AskDelete(w, x)
      PROVE  RowsCounted
  BY <1>1, <1>3 DEF DeleteItem, AskDelete, removalVars, SaveOps
<1>4. ASSUME NEW r \in Requests, NEW answer, Approve(w, r) \/ Answer(w, r, answer)
      PROVE  RowsCounted
  BY <1>1, <1>4 DEF Approve, Answer, removalVars, SaveOps
<1>5. CASE ImportItems(w) \/ CancelPending(w) \/ FindPending(w) \/ SaveRequest(w)
           \/ UpdateAnswered(w)
  BY <1>1, <1>5 DEF ImportItems, CancelPending, FindPending, SaveRequest, UpdateAnswered,
                    Return, Idle, removalVars, SaveOps
<1>6. ASSUME NEW name \in {"commitApproval", "updateAnswered"},
             GoOn(w, [call[w] EXCEPT !.op = name]) \/ GoOn(w, Idle), UNCHANGED removalVars
      PROVE  RowsCounted
  <2>1. PICK c : c = [call[w] EXCEPT !.op = name]
    OBVIOUS
  <2>2. c.op = name
    BY <2>1, Renamed DEF Shape
  <2>3. Idle.op = "idle"
    BY DEF Idle
  <2> QED  BY <1>1, <1>6, <2>1, <2>2, <2>3 DEF removalVars, SaveOps
<1>7. CASE FindApproved(w)
  BY <1>6, <1>7 DEF FindApproved, Return
<1>8. CASE SelectAnswered(w)
  BY <1>6, <1>8 DEF SelectAnswered, Return
<1>9. CASE RemoveItem(w) \/ CommitApproval(w)
  <2>1. call'[w] = Idle
    BY <1>9, Makes DEF RemoveItem, CommitApproval, Return
  <2>2. imported' = imported /\ (item' = item \/ \E x : item' = [item EXCEPT ![x] = "gone"])
    BY <1>9 DEF RemoveItem, CommitApproval, ApprovalCommitted, Removal, removalVars
  <2>3. \A i \in Items : item'[i] = "live" => item[i] = "live"
    BY <2>2 DEF RemovalInv, RemovalTypeOK
  <2> QED  BY <2>1, <2>2, <2>3, RowsFewer DEF NoneAdded, SaveOps, Idle
<1>10. CASE InsertImported(w)
  <2>1. call'[w] = Idle
    BY <1>10, Makes DEF InsertImported, Return
  <2>2. PICK new : /\ item' = [i \in Items |-> IF i \in new THEN "live" ELSE item[i]]
                   /\ imported' = imported \cup new
    BY <1>10 DEF InsertImported
  <2> QED  BY <2>1, <2>2, RowsFewer DEF NoneAdded, SaveOps, Idle
<1>11. CASE SaveItem(w)
  BY <1>11, RowsSaved DEF SaveItem, RowSavers, SaveOps
<1> QED  BY <1>2, <1>3, <1>4, <1>5, <1>7, <1>8, <1>9, <1>10, <1>11, RowCreated, RowInserted
         DEF Removes, RowStep, RequestStep, ImportStep

LEMMA PlansStep ==
    ASSUME Shape, QuotaInv, RemovalInv, RowsWithin, NEW w \in Slots, Moves(w, PlanOps),
           PlanStep(w)
    PROVE  RowsCounted
<1> USE DEF Moves
<1>1. ASSUME NEW c, Begin(w, c) \/ GoOn(w, c), UNCHANGED removalVars,
             c.op # "insertItem",
             c.op \in SaveOps => item[c.item] = "live"
      PROVE  RowsCounted
  <2>1. call'[w] = c
    BY <1>1, Makes
  <2> QED  BY <1>1, <2>1, RowsFewer DEF NoneAdded, SaveOps, removalVars
<1>2. ASSUME NEW i \in Campaigns, NEW cal, NEW n,
             \/ Schedule(w, i, cal, n) \/ AddRecipient(w, i)
             \/ UpdateCampaign(w, i) \/ TickCampaign(w, i)
      PROVE  RowsCounted
  BY <1>1, <1>2 DEF Schedule, AddRecipient, UpdateCampaign, TickCampaign, SaveOps
<1>3. CASE SaveSchedule(w) \/ SaveRecipient(w)
  BY <1>1, <1>3 DEF SaveSchedule, SaveRecipient, Return, Idle, SaveOps
<1>4. CASE SaveCampaign(w) \/ SaveTicked(w)
  BY <1>4, RowsSaved DEF SaveCampaign, SaveTicked, RowSavers, SaveOps, slotVars
<1> QED  BY <1>2, <1>3, <1>4 DEF PlanStep

LEMMA RowsNext ==
    ASSUME Shape, QuotaInv, Capped, RemovalInv, RowsWithin, [Next]_vars
    PROVE  RowsCounted
<1>1. ASSUME UNCHANGED removalVars,
             \A v \in Slots : \/ call'[v] = call[v]
                              \/ call'[v].op \notin RemovalOps \cup PlanOps
      PROVE  RowsCounted
  <2>1. \A v \in RowSavers' : v \in RowSavers /\ call'[v] = call[v]
    BY <1>1 DEF RowSavers, SaveOps, RemovalOps, PlanOps
  <2>2. ASSUME NEW key \in Keys
        PROVE  /\ RowsThere(key)' \subseteq RowsThere(key)
               /\ RowsComing(key)' \subseteq RowsComing(key)
    BY <1>1, <2>1 DEF RowsThere, RowsComing, removalVars, RemovalOps
  <2> QED  BY <2>2, RowsOfKindFewer DEF RowsCounted
<1> QED  BY <1>1, RemovalApart, RowsStep, PlansStep

-----------------------------------------------------------------------------
\* Members and invitations

PeopleCounted == Kept(PeopleThere', PeopleComing', PeopleLimit(missed'))

LEMMA PeopleLimited ==
    ASSUME QuotaInv, MembershipInv, MembershipInv'
    PROVE  /\ PeopleLimit(missed) \in Nat \cup {Null}
           /\ PeopleLimit(missed') \in Nat \cup {Null}
           /\ PeopleComing \in SUBSET Slots /\ PeopleComing' \in SUBSET Slots
<1>1. ceiling["members"] \in Nat \cup {Null}
  BY CeilingTyped, MembershipAssumption DEF QuotaInv
<1>2. missed \in Nat /\ missed' \in Nat
  BY DEF MembershipInv, MembershipTypeOK
<1> QED  BY <1>1, <1>2 DEF PeopleLimit, PeopleComing

LEMMA TaggedCounted ==
    ASSUME NEW tag, NEW some, IsFiniteSet(some) \/ IsFiniteSet(Tagged(tag, some))
    PROVE  /\ IsFiniteSet(some) /\ IsFiniteSet(Tagged(tag, some))
           /\ Cardinality(Tagged(tag, some)) = Cardinality(some)
           /\ Cardinality(some) \in Nat
<1>1. PICK f : f = [x \in some |-> <<tag, x>>]
  OBVIOUS
<1>2. f \in Surjection(some, Tagged(tag, some))
  BY <1>1 DEF Tagged, Surjection
<1>3. PICK g : g = [y \in Tagged(tag, some) |-> y[2]]
  OBVIOUS
<1>4. g \in Surjection(Tagged(tag, some), some)
  <2>1. \A x \in some : <<tag, x>> \in Tagged(tag, some) /\ <<tag, x>>[2] = x
    BY DEF Tagged
  <2>2. \A y \in Tagged(tag, some) : y[2] \in some
    BY DEF Tagged
  <2>3. g \in [Tagged(tag, some) -> some]
    BY <1>3, <2>2
  <2>4. \A x \in some : \E y \in Tagged(tag, some) : g[y] = x
    BY <1>3, <2>1
  <2> QED  BY <2>3, <2>4 DEF Surjection
<1>5. IsFiniteSet(some) /\ IsFiniteSet(Tagged(tag, some))
  BY <1>2, <1>4, FS_Surjection
<1>6. /\ Cardinality(some) <= Cardinality(Tagged(tag, some))
      /\ Cardinality(Tagged(tag, some)) <= Cardinality(some)
  BY <1>2, <1>4, <1>5, FS_Surjection
<1> QED  BY <1>5, <1>6, FS_CardinalityType

LEMMA PeopleFewer ==
    ASSUME QuotaInv, MembershipInv, MembershipInv', PeopleWithin, missed' = missed,
           Homes' \subseteq Homes, Awaited' \subseteq Awaited,
           PeopleComing' \subseteq PeopleComing
    PROVE  PeopleCounted
<1>1. PeopleThere' \in SUBSET PeopleThere
  BY DEF PeopleThere, Tagged
<1> QED  BY <1>1, PeopleLimited, KeptFewer DEF PeopleWithin, PeopleCounted

\* Nobody leaves, so that whoever counts later passes less easily.
LEMMA HomesGrow ==
    ASSUME Shape, MembershipInv, [Next]_vars
    PROVE  Homes \subseteq Homes'
<1>1. CASE account' = account
  BY <1>1 DEF Homes
<1>2. ASSUME NEW e, NEW org, account[e] = Nobody, account' = [account EXCEPT ![e] = org]
      PROVE  Homes \subseteq Homes'
  BY <1>2, NoneApart DEF Homes, MembershipInv, MembershipTypeOK
<1>3. ASSUME NEW w \in Slots, SaveMember(w) \/ CreateAccount(w)
      PROVE  Homes \subseteq Homes'
  BY <1>1, <1>2, <1>3 DEF SaveMember, CreateAccount
<1>4. ASSUME NEW w \in Slots, MembershipStep(w), ~SaveMember(w), ~CreateAccount(w)
      PROVE  account' = account
  <2>1. ASSUME NEW e \in Emails, Invite(w, e) \/ \E oauth \in BOOLEAN : StartSignup(w, e, oauth)
        PROVE  account' = account
    BY <2>1 DEF Invite, StartSignup, membershipVars, peopleVars
  <2>2. ASSUME NEW i \in Invitations, Revoke(w, i) \/ FindLate(w, i) \/ Accept(w, i)
        PROVE  account' = account
    BY <2>2 DEF Revoke, FindLate, Accept, membershipVars, peopleVars
  <2>3. ASSUME NEW x \in Sessions,
               SetCompany(w, x) \/ ResendOtp(w, x) \/ VerifyOtp(w, x) \/ Complete(w, x)
        PROVE  account' = account
    BY <2>3 DEF SetCompany, ResendOtp, VerifyOtp, Complete, membershipVars, peopleVars
  <2>4. CASE CountUsersFirst(w) \/ CountPendingFirst(w) \/ CountPending(w) \/ CountUsers(w)
             \/ FindInvitee(w) \/ FindInvitation(w) \/ SaveInvitation(w) \/ UpdateStatus(w)
    BY <2>4 DEF CountUsersFirst, CountPendingFirst, CountPending, CountUsers, FindInvitee,
                FindInvitation, SaveInvitation, UpdateStatus, membershipVars, peopleVars
  <2>5. CASE CreateSession(w) \/ SaveSession(w) \/ DeleteSession(w) \/ CreateOrganization(w)
    BY <2>5 DEF CreateSession, SaveSession, DeleteSession, CreateOrganization
  <2> QED  BY <1>4, <2>1, <2>2, <2>3, <2>4, <2>5 DEF MembershipStep
<1> QED  BY <1>1, <1>3, <1>4, MembershipApart
         DEF Lapse, FoundersLost, membershipVars, peopleVars

LEMMA ComingFewer ==
    ASSUME MembershipInv, MembershipInv', CountsFit, Homes \subseteq Homes',
           \A v \in Slots : \/ call'[v] = call[v]
                            \/ call'[v].op \notin {"countUsers", "findInvitee",
                                                   "findInvitation", "saveInvitation"}
    PROVE  PeopleComing' \subseteq PeopleComing
<1>1. /\ Cardinality(Homes) \in Nat /\ Cardinality(Homes') \in Nat
      /\ Cardinality(Homes) <= Cardinality(Homes')
  <2>1. IsFiniteSet(Homes') /\ Homes \in SUBSET Homes'
    BY DEF MembershipInv, PeopleFinite
  <2> QED  BY <2>1, NoMoreThan
<1>2. ASSUME NEW v \in Slots, call'[v] = call[v], MayPass(v)'
      PROVE  MayPass(v)
  <2>1. call[v].pending \in Nat /\ call[v].limit \in Nat
    BY <1>2 DEF MayPass, CountsFit, CountFits
  <2>2. call[v].op = "countUsers" /\ call[v].pending + Cardinality(Homes') < call[v].limit
    BY <1>2 DEF MayPass
  <2> QED  BY <1>1, <2>1, <2>2 DEF MayPass
<1>3. ASSUME NEW v \in PeopleComing'
      PROVE  v \in PeopleComing
  <2>1. v \in Slots /\ call'[v] = call[v]
    BY <1>3 DEF PeopleComing, MayPass
  <2> QED  BY <1>2, <1>3, <2>1 DEF PeopleComing
<1> QED  BY <1>3

\* What a handler holds between the two queries of a count.
LEMMA CountingNext ==
    ASSUME Shape, QuotaInv, QuotaInv', Capped, MembershipInv, CountsFit, [Next]_vars
    PROVE  CountsFit'
<1>1. /\ ceiling["members"] \in Nat \cup {Null} /\ ceiling'["members"] \in Nat \cup {Null}
      /\ ceiling'["members"] # Null =>
             ceiling["members"] # Null /\ ceiling["members"] <= ceiling'["members"]
  <2>1. "members" \in Keys
    BY MembershipAssumption
  <2>2. ceiling'["members"] \in Nat \cup {Null}
    BY <2>1, QuotaAssumption DEF QuotaInv, QuotaTypeOK
  <2> QED  BY <2>1, <2>2, CeilingTyped, CeilingGrows DEF QuotaInv
<1>2. ASSUME NEW c, CountFits(c)
      PROVE  CountFits(c)'
  <2>1. c.op \in {"countMembers", "countPending", "countUsers"} =>
            /\ c.limit \in Nat
            /\ ceiling'["members"] # Null => c.limit <= ceiling'["members"]
    BY <1>1, <1>2, QuotaAssumption DEF CountFits
  <2> QED  BY <1>2, <2>1, HomesGrow DEF CountFits
<1>3. ASSUME NEW c, c.op \notin {"countMembers", "countPending", "countUsers"}
      PROVE  CountFits(c)
  BY <1>3 DEF CountFits
<1>4. ASSUME NEW w \in Slots, Moves(w, MembershipOps), CountFits(call'[w])
      PROVE  CountsFit'
  <2>1. \A v \in Slots : CountFits(call'[v])
    BY <1>4 DEF Moves, CountsFit
  <2> QED  BY <1>2, <2>1 DEF CountsFit, CountFits
<1>5. ASSUME NEW w \in Slots, MembershipStep(w)
      PROVE  CountFits(call'[w])
  <2>1. ASSUME NEW c, Begin(w, c) \/ GoOn(w, c), CountFits(c)
        PROVE  CountFits(call'[w])
    BY <2>1, Makes
  <2>2. ASSUME NEW e \in Emails, Invite(w, e)
        PROVE  CountFits(call'[w])
    <3>1. PICK limit : limit = EffectiveLimit("members", entitlements)
      OBVIOUS
    <3>2. /\ limit \in Nat \cup {Null}
          /\ ceiling["members"] # Null => limit # Null /\ limit <= ceiling["members"]
      BY <3>1, EffectiveTyped, QuotaAssumption, MembershipAssumption
         DEF QuotaInv, QuotaTypeOK, Capped
    <3>3. CASE limit = Null
      <4>1. Begin(w, [op |-> "findInvitee", email |-> e])
        BY <2>2, <3>1, <3>3 DEF Invite
      <4> QED  BY <1>3, <2>1, <4>1
    <3>4. CASE limit # Null
      <4>1. Begin(w, [op |-> "countMembers", email |-> e, limit |-> limit])
        BY <2>2, <3>1, <3>4 DEF Invite
      <4>2. CountFits([op |-> "countMembers", email |-> e, limit |-> limit])
        BY <3>2, <3>4 DEF CountFits
      <4> QED  BY <2>1, <4>1, <4>2
    <3> QED  BY <3>3, <3>4
  <2>3. CASE CountUsersFirst(w)
    <3>1. PICK c : c = [op |-> "countPending", email |-> call[w].email,
                        limit |-> call[w].limit, users |-> Homes]
      OBVIOUS
    <3>2. GoOn(w, c) /\ call[w].op = "countMembers"
      BY <2>3, <3>1 DEF CountUsersFirst
    <3>3. CountFits(c)
      BY <3>1, <3>2 DEF CountsFit, CountFits
    <3> QED  BY <2>1, <3>2, <3>3
  <2>4. CASE CountPendingFirst(w)
    <3>1. PICK c : c = [op |-> "countUsers", email |-> call[w].email,
                        limit |-> call[w].limit, pending |-> Cardinality(Opens)]
      OBVIOUS
    <3>2. GoOn(w, c) /\ call[w].op = "countMembers"
      BY <2>4, <3>1 DEF CountPendingFirst
    <3>3. Cardinality(Opens) \in Nat
      BY FS_CardinalityType DEF MembershipInv, PeopleFinite
    <3>4. CountFits(c)
      BY <3>1, <3>2, <3>3 DEF CountsFit, CountFits
    <3> QED  BY <2>1, <3>2, <3>4
  <2>5. CASE \/ CountPending(w) \/ CountUsers(w) \/ FindInvitee(w) \/ FindInvitation(w)
             \/ SaveInvitation(w) \/ SaveMember(w) \/ UpdateStatus(w)
    BY <1>3, <2>1, <2>5
       DEF CountPending, CountUsers, Admit, FindInvitee, FindInvitation, SaveInvitation,
           SaveMember, UpdateStatus, Return, Idle
  <2>6. CASE \/ CreateSession(w) \/ SaveSession(w) \/ DeleteSession(w)
             \/ CreateOrganization(w) \/ CreateAccount(w)
    BY <1>3, <2>1, <2>6
       DEF CreateSession, SaveSession, DeleteSession, CreateOrganization, CreateAccount,
           Return, Idle
  <2>7. ASSUME NEW e \in Emails, NEW oauth \in BOOLEAN, StartSignup(w, e, oauth)
        PROVE  CountFits(call'[w])
    BY <1>3, <2>1, <2>7 DEF StartSignup
  <2>8. ASSUME NEW i \in Invitations, Revoke(w, i) \/ FindLate(w, i) \/ Accept(w, i)
        PROVE  CountFits(call'[w])
    BY <1>3, <2>1, <2>8 DEF Revoke, FindLate, Accept
  <2>9. ASSUME NEW x \in Sessions,
               SetCompany(w, x) \/ ResendOtp(w, x) \/ VerifyOtp(w, x) \/ Complete(w, x)
        PROVE  CountFits(call'[w])
    BY <1>3, <2>1, <2>9 DEF SetCompany, ResendOtp, VerifyOtp, Complete, Prepare
  <2> QED  BY <1>5, <2>2, <2>3, <2>4, <2>5, <2>6, <2>7, <2>8, <2>9 DEF MembershipStep
<1>6. ASSUME \A v \in Slots : call'[v] = call[v] \/ call'[v].op \notin MembershipOps
      PROVE  CountsFit'
  <2>1. \A v \in Slots : CountFits(call'[v])
    BY <1>3, <1>6 DEF CountsFit, MembershipOps
  <2> QED  BY <1>2, <2>1 DEF CountsFit, CountFits
<1> QED  BY <1>4, <1>5, <1>6, MembershipApart

\* A handler that is not past the check for a member goes on.
LEMMA PeopleStay ==
    ASSUME QuotaInv, MembershipInv, MembershipInv', PeopleWithin, NEW w \in Slots,
           \A v \in Slots : v # w => call'[v] = call[v],
           UNCHANGED <<account, invitation, missed>>,
           w \in PeopleComing' => w \in PeopleComing,
           call'[w].op = "saveMember" => call'[w].invitation \in Awaited
    PROVE  PeopleCounted
<1>1. Homes' = Homes
  BY DEF Homes
<1>2. PeopleComing' \subseteq PeopleComing
  BY <1>1 DEF PeopleComing, MayPass
<1>3. ASSUME NEW v \in Accepting'
      PROVE  \/ call'[v].invitation \in Awaited
             \/ v \in Accepting /\ call'[v] = call[v]
  BY <1>3 DEF Accepting
<1>4. Awaited' \subseteq Awaited
  BY <1>3 DEF Awaited, Expected
<1> QED  BY <1>1, <1>2, <1>4, PeopleFewer

\* There are fewer people than the limit: one more may be on the way.
LEMMA PersonPasses ==
    ASSUME MembershipInv, NEW w \in Slots, Moves(w, MembershipOps),
           UNCHANGED <<account, invitation>>,
           call[w].op # "saveMember", call'[w].op # "saveMember",
           NEW limit \in Nat \cup {Null},
           limit # Null => Cardinality(Homes) + Cardinality(Opens) < limit
    PROVE  Kept(PeopleThere', PeopleComing', limit)
<1>1. /\ IsFiniteSet(Homes) /\ Cardinality(Homes) \in Nat
      /\ IsFiniteSet(Opens) /\ Cardinality(Opens) \in Nat
  BY FS_CardinalityType DEF MembershipInv, PeopleFinite
<1>2. PICK others : others = {i \in Opens : account[invitation[i].email] # Home}
  OBVIOUS
<1>3. /\ IsFiniteSet(others) /\ Cardinality(others) \in Nat
      /\ Cardinality(others) <= Cardinality(Opens)
  <2>1. others \in SUBSET Opens
    BY <1>2
  <2> QED  BY <1>1, <2>1, NoMoreThan
<1>4. PICK members, invited :
          members = Tagged("member", Homes) /\ invited = Tagged("invited", others)
  OBVIOUS
<1>5. /\ IsFiniteSet(members) /\ Cardinality(members) = Cardinality(Homes)
      /\ IsFiniteSet(invited) /\ Cardinality(invited) = Cardinality(others)
  BY <1>1, <1>3, <1>4, TaggedCounted
<1>6. /\ IsFiniteSet(members \cup invited)
      /\ Cardinality(members \cup invited)
           = Cardinality(members) + Cardinality(invited) - Cardinality(members \cap invited)
      /\ Cardinality(members \cup invited) \in Nat
      /\ Cardinality(members \cap invited) \in Nat
  <2>1. members \cap invited \in SUBSET members
    OBVIOUS
  <2> QED  BY <1>5, <2>1, FS_Union, FS_CardinalityType, NoMoreThan
<1>7. Cardinality(members \cup invited) <= Cardinality(Homes) + Cardinality(Opens)
  BY <1>1, <1>3, <1>5, <1>6
<1>8. limit # Null => Cardinality(members \cup invited) < limit
  BY <1>1, <1>6, <1>7, QuotaAssumption
<1>9. Accepting' = Accepting /\ Accepting \in SUBSET Slots
  BY DEF Accepting, Moves
<1>10. PeopleComing' \in SUBSET Slots /\ Accepting \cap PeopleComing' = {}
  BY <1>9 DEF Accepting, PeopleComing, MayPass
<1>11. PICK saved : saved = {<<"invited", call[v].invitation>> : v \in Accepting}
  OBVIOUS
<1>12. PICK hand : hand = [v \in Slots |-> <<"invited", call[v].invitation>>]
  OBVIOUS
<1>13. \A x \in saved : \E v \in Accepting : hand[v] = x
  BY <1>9, <1>11, <1>12
<1>14. \A v \in Accepting : call'[v] = call[v]
  BY <1>9 DEF Accepting, Moves
<1>15. Homes' = Homes /\ Awaited' = Awaited
  BY <1>9, <1>14 DEF Homes, Awaited, Expected
<1>16. ASSUME NEW i \in Awaited
       PROVE  i \in others \/ <<"invited", i>> \in saved
  BY <1>2, <1>11 DEF Awaited, Expected, Opens, Open
<1>17. PeopleThere' \in SUBSET ((members \cup invited) \cup saved)
  BY <1>4, <1>15, <1>16 DEF PeopleThere, Tagged
<1>18. PICK there, coming : there = PeopleThere' /\ coming = PeopleComing'
  OBVIOUS
<1>19. PICK live : live = members \cup invited
  OBVIOUS
<1>20. Checked(live, limit, Accepting, coming, saved, hand, there)
  BY <1>6, <1>8, <1>9, <1>10, <1>13, <1>17, <1>18, <1>19 DEF Checked
<1> QED  BY <1>18, <1>20, KeptChecked

LEMMA PersonInvited ==
    ASSUME Shape, QuotaInv, Capped, MembershipInv, MembershipInv', PeopleWithin,
           NEW w \in Slots, Moves(w, MembershipOps), NEW e, Invite(w, e)
    PROVE  PeopleCounted
<1>1. call[w].op = "idle" /\ UNCHANGED <<account, invitation, missed>>
  BY DEF Invite, Begin, Idle, membershipVars, peopleVars
<1>2. PICK limit : limit = EffectiveLimit("members", entitlements)
  OBVIOUS
<1>3. CASE limit = Null
  <2>1. call'[w] = [op |-> "findInvitee", email |-> e]
    BY <1>2, <1>3, Makes DEF Invite
  <2>2. PeopleLimit(missed') = Null
    BY <1>2, <1>3, MembershipAssumption DEF Capped, PeopleLimit
  <2>3. call[w].op # "saveMember" /\ call'[w].op # "saveMember" /\ Null \in Nat \cup {Null}
    BY <1>1, <2>1
  <2>4. Kept(PeopleThere', PeopleComing', Null)
    BY <1>1, <2>3, PersonPasses
  <2> QED  BY <2>2, <2>4 DEF PeopleCounted
<1>4. CASE limit # Null
  <2>1. call'[w] = [op |-> "countMembers", email |-> e, limit |-> limit]
    BY <1>2, <1>4, Makes DEF Invite
  <2> QED  BY <1>1, <2>1, PeopleStay DEF Moves, PeopleComing, MayPass
<1> QED  BY <1>3, <1>4

\* The invitations are counted first: who passes is known from then on.
LEMMA PendingCountedFirst ==
    ASSUME Shape, QuotaInv, CountsFit, MembershipInv, MembershipInv', PeopleWithin,
           NEW w \in Slots, Moves(w, MembershipOps), CountPendingFirst(w)
    PROVE  PeopleCounted
<1>1. call[w].op = "countMembers" /\ UNCHANGED <<account, invitation, missed>>
  BY DEF CountPendingFirst, membershipVars, peopleVars
<1>2. call'[w] = [op |-> "countUsers", email |-> call[w].email,
                  limit |-> call[w].limit, pending |-> Cardinality(Opens)]
  BY Makes DEF CountPendingFirst
<1>3. PICK most : most = PeopleLimit(missed')
  OBVIOUS
<1>4. CASE w \in PeopleComing'
  <2>1. Cardinality(Opens) + Cardinality(Homes') < call[w].limit /\ Homes' = Homes
    BY <1>1, <1>2, <1>4 DEF PeopleComing, MayPass, Homes
  <2>2. /\ Cardinality(Homes) \in Nat /\ Cardinality(Opens) \in Nat
        /\ missed \in Nat /\ missed' = missed
    BY <1>1, FS_CardinalityType DEF MembershipInv, MembershipTypeOK, PeopleFinite
  <2>3. /\ call[w].limit \in Nat
        /\ ceiling["members"] # Null => call[w].limit <= ceiling["members"]
    BY <1>1 DEF CountsFit, CountFits
  <2>4. ceiling["members"] \in Nat \cup {Null} /\ most \in Nat \cup {Null}
    BY <1>3, PeopleLimited, CeilingTyped, MembershipAssumption DEF QuotaInv
  <2>5. most # Null => Cardinality(Homes) + Cardinality(Opens) < most
    BY <1>3, <2>1, <2>2, <2>3, <2>4, QuotaAssumption DEF PeopleLimit
  <2>6. Kept(PeopleThere', PeopleComing', most)
    BY <1>1, <1>2, <2>4, <2>5, PersonPasses
  <2> QED  BY <1>3, <2>6 DEF PeopleCounted
<1>5. CASE w \notin PeopleComing'
  BY <1>1, <1>2, <1>5, PeopleStay DEF Moves
<1> QED  BY <1>4, <1>5

\* The accounts were counted first: those who accepted since are counted nowhere.
LEMMA PendingCountedLast ==
    ASSUME Shape, QuotaInv, CountsFit, MembershipInv, MembershipInv', PeopleWithin,
           NEW w \in Slots, Moves(w, MembershipOps), CountPending(w)
    PROVE  PeopleCounted
<1>1. call[w].op = "countPending" /\ UNCHANGED <<account, invitation>>
  BY DEF CountPending, peopleVars
<1>2. PICK users, unseen, limit : /\ users = call[w].users /\ limit = call[w].limit
                                  /\ unseen = Cardinality(Homes \ users)
  OBVIOUS
<1>3. CASE Within(limit, Cardinality(users) + Cardinality(Opens))
  <2>1. /\ call'[w] = [op |-> "findInvitee", email |-> call[w].email]
        /\ missed' = IF unseen > missed THEN unseen ELSE missed
    BY <1>2, <1>3, Makes DEF CountPending, Admit
  <2>2. /\ limit \in Nat /\ users \subseteq Homes
        /\ ceiling["members"] # Null => limit <= ceiling["members"]
    BY <1>1, <1>2 DEF CountsFit, CountFits
  <2>3. /\ IsFiniteSet(Homes) /\ Cardinality(Homes) \in Nat /\ Cardinality(Opens) \in Nat
        /\ Cardinality(users) \in Nat
    BY <2>2, FS_Subset, FS_CardinalityType DEF MembershipInv, PeopleFinite
  <2>4. unseen = Cardinality(Homes) - Cardinality(users) /\ unseen \in Nat
    <3>1. Homes \cap users = users
      BY <2>2
    <3>2. /\ IsFiniteSet(Homes \ users)
          /\ Cardinality(Homes \ users) = Cardinality(Homes) - Cardinality(Homes \cap users)
      BY <2>3, FS_Difference
    <3>3. Cardinality(Homes \ users) \in Nat
      BY <3>2, FS_CardinalityType
    <3> QED  BY <1>2, <3>1, <3>2, <3>3
  <2>5. missed \in Nat /\ missed' \in Nat /\ unseen <= missed'
    BY <2>1, <2>4 DEF MembershipInv, MembershipTypeOK
  <2>6. PICK most : most = PeopleLimit(missed')
    OBVIOUS
  <2>7. ceiling["members"] \in Nat \cup {Null} /\ most \in Nat \cup {Null}
    BY <2>6, PeopleLimited, CeilingTyped, MembershipAssumption DEF QuotaInv
  <2>8. Cardinality(users) + Cardinality(Opens) < limit
    BY <1>3, <2>2, QuotaAssumption DEF Within
  <2>9. most # Null => Cardinality(Homes) + Cardinality(Opens) < most
    BY <2>2, <2>3, <2>4, <2>5, <2>6, <2>7, <2>8, QuotaAssumption DEF PeopleLimit
  <2>10. call[w].op # "saveMember" /\ call'[w].op # "saveMember"
    BY <1>1, <2>1
  <2>11. Kept(PeopleThere', PeopleComing', most)
    BY <1>1, <2>7, <2>9, <2>10, PersonPasses
  <2> QED  BY <2>6, <2>11 DEF PeopleCounted
<1>4. CASE ~Within(limit, Cardinality(users) + Cardinality(Opens))
  <2>1. call'[w] = Idle /\ missed' = missed
    BY <1>2, <1>4, Makes DEF CountPending, Return
  <2> QED  BY <1>1, <2>1, PeopleStay DEF Moves, PeopleComing, MayPass, Idle
<1> QED  BY <1>3, <1>4

\* Who is past the check, or has just passed it, goes on.
LEMMA PersonComes ==
    ASSUME Shape, QuotaInv, CountsFit, MembershipInv, MembershipInv', PeopleWithin,
           NEW w \in Slots, Moves(w, MembershipOps),
           CountUsers(w) \/ FindInvitee(w) \/ FindInvitation(w)
    PROVE  PeopleCounted
<1>1. UNCHANGED <<account, invitation, missed>>
  BY DEF CountUsers, FindInvitee, FindInvitation, membershipVars, peopleVars
<1>2. \/ Return(w)
      \/ /\ w \in PeopleComing
         /\ \/ GoOn(w, [op |-> "findInvitee", email |-> call[w].email])
            \/ GoOn(w, [op |-> "findInvitation", email |-> call[w].email])
            \/ GoOn(w, [op |-> "saveInvitation", email |-> call[w].email])
  <2>1. CASE CountUsers(w)
    <3>1. CASE Within(call[w].limit, Cardinality(Homes) + call[w].pending)
      <4>1. call[w].limit \in Nat /\ call[w].pending \in Nat /\ call[w].op = "countUsers"
        BY <2>1 DEF CountUsers, CountsFit, CountFits
      <4>2. Cardinality(Homes) \in Nat
        BY FS_CardinalityType DEF MembershipInv, PeopleFinite
      <4>3. call[w].pending + Cardinality(Homes) < call[w].limit
        BY <3>1, <4>1, <4>2, QuotaAssumption DEF Within
      <4> QED  BY <2>1, <3>1, <4>1, <4>3 DEF CountUsers, Admit, PeopleComing, MayPass
    <3>2. CASE ~Within(call[w].limit, Cardinality(Homes) + call[w].pending)
      BY <2>1, <3>2 DEF CountUsers
    <3> QED  BY <3>1, <3>2
  <2>2. CASE FindInvitee(w) \/ FindInvitation(w)
    BY <2>2 DEF FindInvitee, FindInvitation, PeopleComing
  <2> QED  BY <2>1, <2>2
<1>3. CASE Return(w)
  <2>1. call'[w] = Idle
    BY <1>3, Makes DEF Return
  <2> QED  BY <1>1, <2>1, PeopleStay DEF Moves, PeopleComing, MayPass, Idle
<1>4. CASE ~Return(w)
  <2>1. w \in PeopleComing /\ call'[w].op # "saveMember"
    BY <1>2, <1>4, Makes
  <2> QED  BY <1>1, <2>1, PeopleStay DEF Moves
<1> QED  BY <1>3, <1>4

LEMMA InvitationSaved ==
    ASSUME Shape, QuotaInv, CountsFit, MembershipInv, MembershipInv', PeopleWithin,
           NEW w \in Slots, Moves(w, MembershipOps), SaveInvitation(w)
    PROVE  PeopleCounted
<1>1. PICK j : j = NewId(Invitations, invitation)
  OBVIOUS
<1>2. j \in Invitations
  BY <1>1 DEF SaveInvitation, Room, NewId
<1>3. \E row : invitation' = [invitation EXCEPT ![j] = row]
  BY <1>1 DEF SaveInvitation
<1>4. /\ \A i \in Invitations : i # j => invitation'[i] = invitation[i]
      /\ account' = account /\ missed' = missed
  BY <1>2, <1>3 DEF SaveInvitation, MembershipInv, MembershipTypeOK
<1>5. call'[w] = Idle /\ call[w].op = "saveInvitation"
  BY Makes DEF SaveInvitation, Return
<1>6. \A v \in Accepting' : v \in Accepting /\ call'[v] = call[v]
  BY <1>5 DEF Accepting, Moves, Idle
<1>7. Homes' = Homes /\ Awaited' \subseteq Awaited \cup {j}
  BY <1>4, <1>6 DEF Homes, Awaited, Expected
<1>8. PeopleThere' \in SUBSET (PeopleThere \cup {<<"invited", j>>})
  BY <1>7 DEF PeopleThere, Tagged
<1>9. w \in PeopleComing /\ w \notin PeopleComing'
  BY <1>5 DEF PeopleComing, MayPass, Idle
<1>10. PeopleComing' \in SUBSET (PeopleComing \ {w})
  BY <1>5, <1>7, <1>9, ComingFewer DEF Moves, Idle
<1>11. Kept(PeopleThere', PeopleComing', PeopleLimit(missed))
  BY <1>8, <1>9, <1>10, PeopleLimited, KeptInserted DEF PeopleWithin
<1> QED  BY <1>4, <1>11 DEF PeopleCounted, PeopleLimit

\* Who accepts is a member, and the invitation counts no longer.
LEMMA MemberSaved ==
    ASSUME Shape, QuotaInv, CountsFit, MembershipInv, MembershipInv', PeopleWithin,
           Homes \subseteq Homes', NEW w \in Slots, Moves(w, MembershipOps), SaveMember(w)
    PROVE  PeopleCounted
<1>1. PICK i, x : /\ i \in Invitations /\ i = call[w].invitation /\ invitation[i] # None
                  /\ x = invitation[i].email
  BY DEF SaveMember, MembershipInv, MembershipFits
<1>2. x \in Emails /\ account \in [Emails -> Organizations \cup {Home, Nobody}]
  BY <1>1 DEF MembershipInv, MembershipTypeOK, InvitationRows
<1>3. call[w].op = "saveMember" /\ invitation' = invitation /\ missed' = missed
  BY DEF SaveMember
<1>4. CASE account[x] # Nobody
  <2>1. account' = account /\ Return(w)
    BY <1>1, <1>4 DEF SaveMember
  <2>2. call'[w] = Idle
    BY <2>1, Makes DEF Return
  <2> QED  BY <1>3, <2>1, <2>2, PeopleStay DEF Moves, PeopleComing, MayPass, Idle
<1>5. CASE account[x] = Nobody
  <2>1. /\ account' = [account EXCEPT ![x] = Home]
        /\ GoOn(w, [op |-> "markAccepted", invitation |-> i])
    BY <1>1, <1>5 DEF SaveMember
  <2>2. call'[w] = [op |-> "markAccepted", invitation |-> i]
    BY <2>1, Makes
  <2>3. /\ account'[x] = Home
        /\ \A e \in Emails : e # x => account'[e] = account[e]
    BY <1>2, <2>1
  <2>4. Homes' \subseteq Homes \cup {x}
    BY <2>3 DEF Homes
  <2>5. w \in Accepting /\ \A v \in Accepting' : v \in Accepting /\ call'[v] = call[v]
    BY <1>3, <2>2 DEF Accepting, Moves
  <2>6. i \in Awaited
    BY <1>1, <1>5, <2>5, NoneApart DEF Awaited, Expected
  <2>7. \A k \in Invitations : invitation[k] # None => invitation[k].email \in Emails
    BY DEF MembershipInv, MembershipTypeOK, InvitationRows
  <2>8. \A k \in Awaited' : k \in Invitations /\ invitation[k] # None
                            /\ account'[invitation[k].email] # Home
    BY <1>3 DEF Awaited, Expected
  <2>9. \A k \in Awaited' : k # i /\ invitation[k].email # x /\ invitation[k].email \in Emails
    BY <1>1, <2>3, <2>7, <2>8
  <2>10. Awaited' \subseteq Awaited \ {i}
    BY <1>3, <2>3, <2>5, <2>9 DEF Awaited, Expected
  <2>11. PICK old, new : old = <<"invited", i>> /\ new = <<"member", x>>
    OBVIOUS
  <2>12. old \in PeopleThere
    BY <2>6, <2>11 DEF PeopleThere, Tagged
  <2>13. PeopleThere' \in SUBSET ((PeopleThere \ {old}) \cup {new})
    BY <2>4, <2>10, <2>11 DEF PeopleThere, Tagged
  <2>14. PeopleComing' \in SUBSET PeopleComing
    BY <2>2, ComingFewer DEF Moves
  <2>15. Kept(PeopleThere', PeopleComing', PeopleLimit(missed))
    BY <2>12, <2>13, <2>14, PeopleLimited, KeptReplaced DEF PeopleWithin
  <2> QED  BY <1>3, <2>15 DEF PeopleCounted, PeopleLimit
<1> QED  BY <1>4, <1>5

\* Invitations that change, but stay whose they are
LEMMA InvitationsChange ==
    ASSUME QuotaInv, MembershipInv, MembershipInv', PeopleWithin, missed' = missed,
           NEW i \in Invitations, NEW row, row # None, invitation[i] # None,
           invitation' = [invitation EXCEPT ![i] = row], account' = account,
           row.email = invitation[i].email,
           row.status = "pending" => invitation[i].status = "pending",
           PeopleComing' \subseteq PeopleComing,
           \A v \in Accepting' : v \in Accepting /\ call'[v] = call[v]
    PROVE  PeopleCounted
<1>1. invitation \in [Invitations -> InvitationRows \cup {None}]
  BY DEF MembershipInv, MembershipTypeOK
<1>2. /\ invitation'[i] = row
      /\ \A k \in Invitations : k # i => invitation'[k] = invitation[k]
  BY <1>1
<1>3. Homes' = Homes
  BY DEF Homes
<1>4. Awaited' \subseteq Awaited
  BY <1>2 DEF Awaited, Expected
<1> QED  BY <1>3, <1>4, PeopleFewer

LEMMA PeopleStep ==
    ASSUME Shape, QuotaInv, Capped, CountsFit, MembershipInv, MembershipInv', PeopleWithin,
           Homes \subseteq Homes', NEW w \in Slots, Moves(w, MembershipOps),
           MembershipStep(w)
    PROVE  PeopleCounted
<1>1. ASSUME NEW c, Begin(w, c) \/ GoOn(w, c), UNCHANGED <<account, invitation, missed>>,
             c.op \notin {"countUsers", "findInvitee", "findInvitation", "saveInvitation",
                          "saveMember"}
      PROVE  PeopleCounted
  <2>1. call'[w] = c
    BY <1>1, Makes
  <2> QED  BY <1>1, <2>1, PeopleStay DEF Moves, PeopleComing, MayPass
<1>2. ASSUME NEW e \in Emails, NEW oauth \in BOOLEAN, StartSignup(w, e, oauth)
      PROVE  PeopleCounted
  BY <1>1, <1>2 DEF StartSignup, membershipVars, peopleVars
<1>3. ASSUME NEW i \in Invitations, Revoke(w, i) \/ FindLate(w, i)
      PROVE  PeopleCounted
  BY <1>1, <1>3 DEF Revoke, FindLate, membershipVars, peopleVars
<1>4. ASSUME NEW i \in Invitations, Accept(w, i)
      PROVE  PeopleCounted
  <2>1. call'[w] = [op |-> "saveMember", invitation |-> i]
    BY <1>4, Makes DEF Accept
  <2>2. i \in Awaited /\ UNCHANGED <<account, invitation, missed>>
    BY <1>4, NoneApart DEF Accept, Open, Awaited, Expected, membershipVars, peopleVars
  <2> QED  BY <2>1, <2>2, PeopleStay DEF Moves, PeopleComing, MayPass
<1>5. ASSUME NEW x \in Sessions,
             SetCompany(w, x) \/ ResendOtp(w, x) \/ VerifyOtp(w, x) \/ Complete(w, x)
      PROVE  PeopleCounted
  BY <1>1, <1>5 DEF SetCompany, ResendOtp, VerifyOtp, Complete, Prepare, membershipVars,
                    peopleVars
<1>6. CASE CountUsersFirst(w)
  BY <1>1, <1>6 DEF CountUsersFirst, membershipVars, peopleVars
<1>7. CASE UpdateStatus(w)
  <2>1. PICK j \in Invitations : j = call[w].invitation /\ invitation[j] # None
    BY <1>7 DEF UpdateStatus, MembershipInv, MembershipFits
  <2>2. PICK status : status = MarkedBy(call[w].op)
    OBVIOUS
  <2>3. status # "pending" /\ invitation[j] \in InvitationRows
    BY <1>7, <2>1, <2>2 DEF UpdateStatus, MarkedBy, MembershipInv, MembershipTypeOK
  <2>4. status \in {"revoked", "expired", "accepted"}
    BY <1>7, <2>2 DEF UpdateStatus, MarkedBy
  <2>5. PICK row : row = [invitation[j] EXCEPT !.status = status]
    OBVIOUS
  <2>6. /\ row.status = status /\ row.email = invitation[j].email
        /\ row \in InvitationRows
    BY <2>3, <2>4, <2>5 DEF InvitationRows
  <2>7. /\ invitation' = [invitation EXCEPT ![j] = row] /\ account' = account
        /\ missed' = missed
    BY <1>7, <2>1, <2>2, <2>5 DEF UpdateStatus, MembershipInv, MembershipTypeOK
  <2>8. call'[w] = Idle
    BY <1>7, Makes DEF UpdateStatus, Return
  <2>9. PeopleComing' \subseteq PeopleComing
    BY <2>8, ComingFewer DEF Moves, Idle
  <2>10. \A v \in Accepting' : v \in Accepting /\ call'[v] = call[v]
    BY <2>8 DEF Accepting, Moves, Idle
  <2> QED  BY <2>1, <2>3, <2>6, <2>7, <2>9, <2>10, NoneApart, InvitationsChange
<1>8. CASE CreateSession(w) \/ SaveSession(w) \/ DeleteSession(w) \/ CreateOrganization(w)
  BY <1>1, <1>8 DEF CreateSession, SaveSession, DeleteSession, CreateOrganization, Return,
                    Idle
<1>9. CASE CreateAccount(w)
  <2>1. call'[w].op \in {"idle", "deleteSession"} /\ call[w].op = "createAccount"
    <3>1. call'[w] \in {Idle, [op |-> "deleteSession", session |-> call[w].session]}
      BY <1>9, Makes DEF CreateAccount, Return
    <3> QED  BY <1>9, <3>1 DEF CreateAccount, Idle
  <2>2. invitation' = invitation /\ missed' = missed
    BY <1>9 DEF CreateAccount
  <2>3. \A e \in Emails : account'[e] = Home <=> account[e] = Home
    <3>1. call[w].organization # Home
      BY <2>1, MembershipAssumption DEF MembershipInv, MembershipFits
    <3> QED  BY <1>9, <3>1, NoneApart DEF CreateAccount, MembershipInv, MembershipTypeOK
  <2>4. \A k \in Invitations : invitation[k] # None => invitation[k].email \in Emails
    BY DEF MembershipInv, MembershipTypeOK, InvitationRows
  <2>5. Homes' = Homes
    BY <2>3 DEF Homes
  <2>6. \A v \in Accepting' : v \in Accepting /\ call'[v] = call[v]
    BY <2>1 DEF Accepting, Moves
  <2>7. Awaited' \subseteq Awaited
    BY <2>2, <2>3, <2>4, <2>6 DEF Awaited, Expected
  <2>8. PeopleComing' \subseteq PeopleComing
    BY <2>1, ComingFewer DEF Moves
  <2> QED  BY <2>2, <2>5, <2>7, <2>8, PeopleFewer
<1> QED  BY <1>2, <1>3, <1>4, <1>5, <1>6, <1>7, <1>8, <1>9, PersonInvited,
            PendingCountedFirst, PendingCountedLast, PersonComes, InvitationSaved,
            MemberSaved DEF MembershipStep

LEMMA PeopleNext ==
    ASSUME Shape, QuotaInv, Capped, CountsFit, MembershipInv, MembershipInv', PeopleWithin,
           [Next]_vars
    PROVE  PeopleCounted
<1>1. ASSUME \A v \in Slots : call'[v] = call[v] \/ call'[v].op \notin MembershipOps
      PROVE  /\ PeopleComing' \subseteq PeopleComing
             /\ \A v \in Accepting' : v \in Accepting /\ call'[v] = call[v]
  <2>1. \A v \in Slots : \/ call'[v] = call[v]
                         \/ call'[v].op \notin {"countUsers", "findInvitee",
                                                "findInvitation", "saveInvitation"}
    BY <1>1 DEF MembershipOps
  <2>2. PeopleComing' \subseteq PeopleComing
    BY <2>1, HomesGrow, ComingFewer
  <2> QED  BY <1>1, <2>2 DEF Accepting, MembershipOps
<1>2. ASSUME UNCHANGED <<account, invitation, missed>>,
             \A v \in Slots : call'[v] = call[v] \/ call'[v].op \notin MembershipOps
      PROVE  PeopleCounted
  <2>1. Homes' = Homes
    BY <1>2 DEF Homes
  <2>2. Awaited' \subseteq Awaited
    BY <1>1, <1>2 DEF Awaited, Expected
  <2> QED  BY <1>1, <1>2, <2>1, <2>2, PeopleFewer
<1>3. ASSUME NEW i \in Invitations, Lapse(i),
             \A v \in Slots : call'[v] = call[v] \/ call'[v].op \notin MembershipOps
      PROVE  PeopleCounted
  <2>1. invitation[i] \in InvitationRows /\ invitation[i] # None
    BY <1>3 DEF Lapse, MembershipInv, MembershipTypeOK
  <2>2. PICK row : row = [invitation[i] EXCEPT !.late = TRUE]
    OBVIOUS
  <2>3. /\ row.status = invitation[i].status /\ row.email = invitation[i].email
        /\ row \in InvitationRows
    BY <2>1, <2>2 DEF InvitationRows
  <2>4. /\ invitation' = [invitation EXCEPT ![i] = row] /\ account' = account
        /\ missed' = missed
    BY <1>3, <2>2 DEF Lapse, MembershipInv, MembershipTypeOK
  <2> QED  BY <1>1, <1>3, <2>1, <2>3, <2>4, NoneApart, InvitationsChange
<1> QED  BY <1>2, <1>3, PeopleStep, HomesGrow, MembershipApart
         DEF FoundersLost, membershipVars, peopleVars

-----------------------------------------------------------------------------
LEMMA OverrunNext ==
    ASSUME Shape, QuotaInv, MembershipInv, MembershipInv', RemovalInv, SiteInv, OverrunInv,
           [Next]_vars
    PROVE  OverrunInv'
<1>1. QuotaInv' /\ \A key \in Keys : ceiling'[key] \in Nat \cup {Null}
  <2>1. QuotaInv'
    BY QuotaNext
  <2> QED  BY <2>1, QuotaAssumption DEF QuotaInv, QuotaTypeOK
<1>2. /\ Capped'
      /\ \A key \in Keys : ceiling'[key] # Null =>
             ceiling[key] # Null /\ ceiling[key] <= ceiling'[key]
  BY <1>1, CeilingGrows DEF OverrunInv
<1>3. CountsFit' /\ PeopleCounted /\ SitesCounted /\ RowsCounted
  BY <1>1, CountingNext, PeopleNext, SitesNext, RowsNext DEF OverrunInv
<1>4. PeopleWithin'
  <2>1. PICK limit, higher : limit = PeopleLimit(missed') /\ higher = PeopleLimit(missed)'
    OBVIOUS
  <2>2. "members" \in Keys /\ missed' \in Nat /\ PeopleComing' \in SUBSET Slots
    BY MembershipAssumption DEF MembershipInv, MembershipTypeOK, PeopleComing
  <2>3. /\ ceiling["members"] \in Nat \cup {Null} /\ ceiling'["members"] \in Nat \cup {Null}
        /\ ceiling'["members"] # Null =>
               ceiling["members"] # Null /\ ceiling["members"] <= ceiling'["members"]
    BY <1>1, <1>2, <2>2, CeilingTyped DEF QuotaInv
  <2>4. /\ limit \in Nat \cup {Null} /\ higher \in Nat \cup {Null}
        /\ higher # Null => limit # Null /\ limit <= higher
    BY <2>1, <2>2, <2>3, QuotaAssumption DEF PeopleLimit
  <2>5. Kept(PeopleThere', PeopleComing', limit)
    BY <1>3, <2>1 DEF PeopleCounted
  <2>6. Kept(PeopleThere', PeopleComing', higher)
    BY <2>2, <2>4, <2>5, KeptBelow
  <2> QED  BY <2>1, <2>6 DEF PeopleWithin, Kept
<1>5. SitesWithin'
  <2>1. Kept(SitesThere', SitesComing', ceiling'["websites"])
    BY <1>1, <1>2, <1>3, WebsitesLimited, KeptBelow DEF SitesCounted
  <2> QED  BY <2>1 DEF SitesWithin, Kept
<1>6. RowsWithin'
  <2>1. ASSUME NEW key \in Keys
        PROVE  Kept(RowsThere(key)', RowsComing(key)', ceiling'[key])
    BY <1>1, <1>2, <1>3, RowsLimited, KeptBelow DEF RowsCounted
  <2> QED  BY <2>1 DEF RowsWithin, Kept
<1> QED  BY <1>2, <1>3, <1>4, <1>5, <1>6 DEF OverrunInv

LEMMA KeptAtFirst ==
    ASSUME NEW x, NEW y, NEW there \in SUBSET {x, y}, NEW key \in Keys
    PROVE  Kept(there, {}, DefaultCap[key])
<1>1. IsFiniteSet({x}) /\ Cardinality({x}) = 1 /\ {x} \cup {y} = {x, y}
  BY FS_Singleton
<1>2. IsFiniteSet({x, y}) /\ Cardinality({x, y}) <= 2
  BY <1>1, FS_AddElement
<1>3. IsFiniteSet(there) /\ Cardinality(there) \in Nat /\ Cardinality(there) <= 2
  BY <1>2, NoMoreThan
<1>4. Cardinality({}) = 0 /\ Cardinality(Slots) \in Nat /\ Cardinality(Slots) # 0
  BY WorkspaceAssumption, HandlersCounted, FS_EmptySet
<1>5. DefaultCap[key] # Null => DefaultCap[key] \in Nat /\ DefaultCap[key] > 1
  BY WorkspaceAssumption, QuotaAssumption
<1> QED  BY <1>3, <1>4, <1>5 DEF Kept

LEMMA OverrunStart ==
    ASSUME Init
    PROVE  OverrunInv
<1>1. \A w \in Slots : call[w].op = "idle"
  BY DEF Init, SlotsInit, Idle
<1>2. /\ PeopleComing = {} /\ Accepting = {} /\ SitesComing = {} /\ SiteSavers = {}
      /\ RowSavers = {} /\ \A key \in Keys : RowsComing(key) = {}
  BY <1>1 DEF PeopleComing, MayPass, Accepting, SitesComing, SiteSavers, RowSavers, SaveOps,
              RowsComing
<1>3. ceiling = DefaultCap /\ entitlements.caps = DefaultCap
      /\ \A key \in Keys : entitlements.own[key] = Unset
  BY DEF Init, QuotaInit
<1>4. ASSUME NEW key \in Keys
      PROVE  /\ EffectiveLimit(key, entitlements) = DefaultCap[key]
             /\ DefaultCap[key] \in Nat \cup {Null}
  <2>1. DefaultCap[key] \in Nat \cup {Null} /\ DefaultCap[key] # Unset
    BY QuotaAssumption
  <2> QED  BY <1>3, <2>1 DEF EffectiveLimit, PlatformCap
<1>5. Capped
  BY <1>3, <1>4, QuotaAssumption DEF Capped
<1>6. PeopleWithin /\ CountsFit
  <2>1. Homes \subseteq {Owner} /\ Awaited \subseteq {First(Invitations)} /\ missed = 0
    BY NoneApart DEF Init, MembershipInit, Homes, Awaited, Expected
  <2>2. PICK x, y : x = <<"member", Owner>> /\ y = <<"invited", First(Invitations)>>
    OBVIOUS
  <2>3. PeopleThere \in SUBSET {x, y}
    BY <2>1, <2>2 DEF PeopleThere, Tagged
  <2>4. "members" \in Keys
    BY MembershipAssumption
  <2>5. PeopleLimit(missed) = DefaultCap["members"]
    BY <1>3, <1>4, <2>1, <2>4 DEF PeopleLimit
  <2>6. CountsFit
    BY <1>1 DEF CountsFit, CountFits
  <2>7. Kept(PeopleThere, {}, DefaultCap["members"])
    BY <2>3, <2>4, KeptAtFirst
  <2> QED  BY <1>2, <2>5, <2>6, <2>7 DEF PeopleWithin
<1>7. SitesWithin
  <2>1. SitesThere \in SUBSET {First(Sites), First(Sites)}
    BY <1>2 DEF Init, SiteInit, SitesThere, Exists
  <2>2. "websites" \in Keys
    BY SiteAssumption
  <2> QED  BY <1>2, <1>3, <2>1, <2>2, KeptAtFirst DEF SitesWithin
<1>8. ASSUME NEW key \in Keys
      PROVE  Kept(RowsThere(key), RowsComing(key), ceiling[key])
  <2>1. \A i \in Items : item[i] = "live" => i = FirstOf(Kind[i])
    BY DEF Init, RemovalInit
  <2>2. RowsThere(key) \in SUBSET {FirstOf(key), FirstOf(key)}
    BY <1>2, <2>1 DEF RowsThere
  <2> QED  BY <1>2, <1>3, <2>2, KeptAtFirst
<1> QED  BY <1>5, <1>6, <1>7, <1>8 DEF OverrunInv, RowsWithin

LEMMA KeptMeans ==
    ASSUME NEW there, NEW coming \in SUBSET Slots, NEW limit \in Nat \cup {Null},
           Kept(there, coming, limit), NEW some \in SUBSET there, limit # Null
    PROVE  Cardinality(some) <= limit + Cardinality(Slots) - 1
<1>1. /\ Cardinality(some) \in Nat /\ Cardinality(there) \in Nat
      /\ Cardinality(some) <= Cardinality(there)
  BY NoMoreThan DEF Kept
<1>2. Cardinality(coming) \in Nat /\ Cardinality(Slots) \in Nat
  BY HandlersCounted
<1> QED  BY <1>1, <1>2 DEF Kept

LEMMA MembersKept ==
    ASSUME QuotaInv, MembershipInv, PeopleWithin, ceiling["members"] # Null
    PROVE  Members <= ceiling["members"] + Cardinality(Slots) - 1 + missed
<1>1. PICK others : others = UNION {PendingFor(e) : e \in {e \in Emails : account[e] # Home}}
  OBVIOUS
<1>2. others \in SUBSET Opens /\ others \subseteq Awaited
  BY <1>1 DEF PendingFor, Opens, Open, Awaited, Expected
<1>3. PICK members, invited :
          members = Tagged("member", Homes) /\ invited = Tagged("invited", others)
  OBVIOUS
<1>4. members \cup invited \in SUBSET PeopleThere
  BY <1>2, <1>3 DEF PeopleThere, Tagged
<1>5. IsFiniteSet(members) /\ IsFiniteSet(others)
  <2>1. members \in SUBSET PeopleThere
    BY <1>4
  <2> QED  BY <1>2, <2>1, NoMoreThan
           DEF PeopleWithin, Kept, MembershipInv, PeopleFinite
<1>6. /\ IsFiniteSet(invited) /\ Cardinality(invited) = Cardinality(others)
      /\ Cardinality(members) = Cardinality(Homes)
      /\ Cardinality(Homes) \in Nat /\ Cardinality(others) \in Nat
  BY <1>3, <1>5, TaggedCounted
<1>7. Cardinality(members \cap invited) = 0
  <2>1. members \cap invited = {}
    BY <1>3 DEF Tagged
  <2> QED  BY <2>1, FS_EmptySet
<1>8. Cardinality(members \cup invited) = Cardinality(Homes) + Cardinality(others)
  <2>1. Cardinality(members \cup invited)
          = Cardinality(members) + Cardinality(invited) - Cardinality(members \cap invited)
    BY <1>5, <1>6, FS_Union
  <2> QED  BY <1>6, <1>7, <2>1
<1>9. Cardinality(members \cup invited) <= ceiling["members"] + Cardinality(Slots) - 1 + missed
  <2>1. PICK most : most = ceiling["members"] + missed
    OBVIOUS
  <2>2. /\ ceiling["members"] \in Nat /\ missed \in Nat /\ Cardinality(Slots) \in Nat
        /\ most \in Nat /\ most # Null /\ PeopleLimit(missed) = most
    BY <2>1, CeilingTyped, MembershipAssumption, QuotaAssumption, HandlersCounted
       DEF QuotaInv, MembershipInv, MembershipTypeOK, PeopleLimit
  <2>3. PeopleComing \in SUBSET Slots
    BY DEF PeopleComing
  <2>4. Cardinality(members \cup invited) <= most + Cardinality(Slots) - 1
    BY <1>4, <2>2, <2>3, KeptMeans DEF PeopleWithin
  <2>5. Cardinality(members \cup invited) \in Nat
    BY <1>6, <1>8
  <2> QED  BY <2>1, <2>2, <2>4, <2>5
<1>10. Members = Cardinality(Homes) + Cardinality(others)
  BY <1>1 DEF Members, Homes
<1> QED  BY <1>8, <1>9, <1>10

(***************************************************************************)
(* An organization has never more members and invitations, websites,       *)
(* campaigns or prospects made one by one than the highest limit that was  *)
(* in force, except one for each other handler that can be in progress,    *)
(* and, of members, as many as a count has overlooked: assertWithinLimit   *)
(* counts before the row is inserted, in other statements, countMembers    *)
(* counts accounts and invitations one after the other, and only requests  *)
(* that overlap get past it.                                               *)
(***************************************************************************)
THEOREM OverrunNeedsOverlap == Spec => []QuotaOverrunBounded
<1> DEFINE Inv == /\ Shape /\ QuotaInv /\ MembershipInv /\ RemovalInv /\ SiteInv
                  /\ OverrunInv
<1>1. Init => Inv
  BY InitShape, QuotaStart, MembershipStart, RemovalStart, SiteStart, OverrunStart
<1>2. Inv /\ [Next]_vars => Inv'
  BY NextKnown, QuotaNext, MembershipNext, RemovalNext, SiteNext, OverrunNext
<1>3. ASSUME Inv
      PROVE  QuotaOverrunBounded
  <2>1. ASSUME NEW key \in Keys, ceiling[key] # Null
        PROVE  InUse(key) <= ceiling[key] + Cardinality(Slots) - 1 + Overlooked(key)
    <3>1. CASE key = "members"
      BY <1>3, <2>1, <3>1, MembersKept DEF InUse, Overlooked, OverrunInv
    <3>2. ASSUME key # "members", InUse(key) <= ceiling[key] + Cardinality(Slots) - 1
          PROVE  InUse(key) <= ceiling[key] + Cardinality(Slots) - 1 + Overlooked(key)
      <4>1. ceiling[key] \in Nat /\ Cardinality(Slots) \in Nat
        BY <1>3, <2>1, CeilingTyped, HandlersCounted DEF QuotaInv
      <4> QED  BY <3>2, <4>1 DEF Overlooked
    <3>3. CASE key = "websites"
      <4>1. Websites \in SUBSET SitesThere
        BY DEF Websites, SitesThere
      <4>2. Cardinality(Websites) <= ceiling["websites"] + Cardinality(Slots) - 1
        BY <1>3, <2>1, <3>3, <4>1, WebsitesLimited, KeptMeans DEF OverrunInv, SitesWithin
      <4> QED  BY <3>2, <3>3, <4>2 DEF InUse
    <3>4. CASE key \notin {"members", "websites"}
      <4>1. Live(key) \ imported \in SUBSET RowsThere(key)
        BY DEF Live, RowsThere
      <4>2. Cardinality(Live(key) \ imported) <= ceiling[key] + Cardinality(Slots) - 1
        BY <1>3, <2>1, <4>1, RowsLimited, KeptMeans DEF OverrunInv, RowsWithin
      <4> QED  BY <3>2, <3>4, <4>2 DEF InUse
    <3> QED  BY <3>1, <3>3, <3>4
  <2> QED  BY <2>1 DEF QuotaOverrunBounded
<1> QED  BY <1>1, <1>2, <1>3, PTL DEF Spec

-----------------------------------------------------------------------------
(* Types.  What the other handlers go on with, which is as it should be    *)
(* because of what they know of the rows, and the rows themselves.         *)

\* What the calls about policies hold
LEMMA PolicyHolds ==
    ASSUME NEW c \in PolicyCalls
    PROVE  /\ c.op = "insertPolicy" => c.users \in SUBSET Users
           /\ c.op = "savePolicy" => c.policy \in Policies /\ c.users \in SUBSET Users
           /\ c.op = "clearPairs" => c.pairs \in SUBSET (Users \X Policies)
<1>1. c.op = "insertPolicy" => c.users \in SUBSET Users
  BY DEF PolicyCalls
<1>2. c.op = "savePolicy" => c.policy \in Policies /\ c.users \in SUBSET Users
  BY DEF PolicyCalls
<1>3. c.op = "clearPairs" => c.pairs \in SUBSET (Users \X Policies)
  BY DEF PolicyCalls
<1> QED  BY <1>1, <1>2, <1>3

LEMMA PolicyActs ==
    ASSUME TypeOK, PolicyInv, NEW w \in Slots, PolicyStep(w)
    PROVE  Acts(w, PolicyCalls)
<1>1. call[w].op \in PolicyOps => call[w] # Idle /\ call[w] \in PolicyCalls
  BY HoldsCall, OpsDistinct
<1>2. \A users, policies :
         users \subseteq Users /\ policies \subseteq Policies
           => users \X policies \in SUBSET (Users \X Policies)
  OBVIOUS
<1>3. assigned \subseteq Users \X Policies
  BY DEF TypeOK, PolicyTypeOK, Existing
<1>4. ASSUME NEW row \in PolicyInputs, NEW users \in SUBSET Users, CreatePolicy(w, row, users)
      PROVE  Acts(w, PolicyCalls)
  BY <1>4, BeginsCall DEF CreatePolicy, PolicyCalls
<1>5. ASSUME NEW p \in Policies, NEW row \in PolicyInputs, NEW given \in BOOLEAN,
             NEW users \in SUBSET Users, UpdatePolicy(w, p, row, given, users)
      PROVE  Acts(w, PolicyCalls)
  <2>1. HoldersOf(p) \in SUBSET Users
    BY DEF HoldersOf
  <2> QED  BY <1>5, <2>1, BeginsCall DEF UpdatePolicy, PolicyCalls
<1>6. ASSUME NEW p \in Policies, DeletePolicy(w, p)
      PROVE  Acts(w, PolicyCalls)
  BY <1>6, BeginsCall DEF DeletePolicy, PolicyCalls
<1>7. ASSUME NEW u \in Users, NEW policies \in SUBSET Policies, AssignToUser(w, u, policies)
      PROVE  Acts(w, PolicyCalls)
  <2>1. PICK scope, pairs \in SUBSET (Users \X Policies) :
           scope = {u} \X Policies /\ pairs = {u} \X policies
    BY <1>2
  <2> QED  BY <1>7, <2>1, BeginsCall DEF AssignToUser, PolicyCalls
<1>8. ASSUME NEW users \in SUBSET Users, NEW policies \in SUBSET Policies,
             NEW mode \in {"add", "replace"}, BulkAssign(w, users, policies, mode)
      PROVE  Acts(w, PolicyCalls)
  <2>1. PICK pairs \in SUBSET (Users \X Policies) :
           pairs = (IF mode = "add" THEN assigned \cap (users \X Policies) ELSE {})
                      \cup (users \X policies)
    BY <1>2, <1>3
  <2> QED  BY <1>8, <2>1, BeginsCall DEF BulkAssign, PolicyCalls
<1>9. ASSUME NEW scope \in SUBSET (Users \X Policies),
             NEW pairs \in SUBSET (Users \X Policies),
             Replace(w, scope, pairs), call[w] # Idle
      PROVE  Acts(w, PolicyCalls)
  BY <1>9, MakesCall DEF Replace, PolicyCalls
<1>10. ASSUME InsertPolicy(w) \/ SavePolicy(w)
       PROVE  Acts(w, PolicyCalls)
  <2>1. call[w] # Idle /\ call[w] \in PolicyCalls
    BY <1>1, <1>10 DEF InsertPolicy, SavePolicy, PolicyOps
  <2>2. PICK users \in SUBSET Users : users = call[w].users
    BY <1>10, <2>1, PolicyHolds DEF InsertPolicy, SavePolicy
  <2>3. Return(w) \/ \E p \in Policies : Replace(w, Users \X {p}, users \X {p})
    <3>1. CASE InsertPolicy(w)
      <4>1. \E p \in Policies : policy[p].at = "new"
        BY <3>1 DEF InsertPolicy, PolicyInv, OneCreation
      <4> QED  BY <2>2, <3>1, <4>1 DEF InsertPolicy
    <3>2. CASE SavePolicy(w)
      BY <2>1, <2>2, <3>2, PolicyHolds DEF SavePolicy
    <3> QED  BY <1>10, <3>1, <3>2
  <2>4. \A p \in Policies :
           Users \X {p} \in SUBSET (Users \X Policies)
             /\ users \X {p} \in SUBSET (Users \X Policies)
    OBVIOUS
  <2> QED  BY <1>9, <2>1, <2>3, <2>4, AnswersCall
<1>11. ASSUME ClearPairs(w)
       PROVE  Acts(w, PolicyCalls)
  <2>1. call[w] # Idle /\ call[w].pairs \in SUBSET (Users \X Policies)
    BY <1>1, <1>11, PolicyHolds DEF ClearPairs, PolicyOps
  <2> QED  BY <1>11, <2>1, MakesCall, AnswersCall DEF ClearPairs, PolicyCalls
<1>12. ASSUME InsertPairs(w) \/ RemovePolicy(w) \/ ReplaceAll(w)
       PROVE  Acts(w, PolicyCalls)
  BY <1>12, AnswersCall DEF InsertPairs, RemovePolicy, ReplaceAll, Idle
<1>13. ASSUME NEW p \in Policies, NEW row \in PolicyInputs,
              \/ UpdatePolicy(w, p, row, FALSE, {})
              \/ \E users \in SUBSET Users : UpdatePolicy(w, p, row, TRUE, users)
       PROVE  Acts(w, PolicyCalls)
  <2>1. {} \in SUBSET Users /\ TRUE \in BOOLEAN /\ FALSE \in BOOLEAN
    OBVIOUS
  <2> QED  BY <1>5, <1>13, <2>1
<1> QED  BY <1>4, <1>6, <1>7, <1>8, <1>10, <1>11, <1>12, <1>13 DEF PolicyStep

LEMMA EventActs ==
    ASSUME TypeOK, MeetingInv, NEW w \in Slots, CreateEvent(w) \/ DeleteEvent(w)
    PROVE  Acts(w, MeetingCalls)
<1>1. call[w] # Idle /\ call[w] \in MeetingCalls
  <2>1. call[w].op \in MeetingOps
    BY DEF CreateEvent, DeleteEvent, MeetingOps
  <2> QED  BY <2>1, HoldsCall, OpsDistinct
<1>2. PICK goal \in Goals : goal = call[w].goal
  BY <1>1, MeetingHolds DEF CreateEvent, DeleteEvent
<1>3. CASE CreateEvent(w)
  <2>1. PICK m \in MeetingIds : m = CHOOSE x \in Unused : TRUE
    BY <1>3 DEF CreateEvent, Unused
  <2>2. \/ GoOn(w, [op |-> "saveMeeting", meeting |-> m, goal |-> goal])
        \/ Return(w)
    BY <1>2, <1>3, <2>1 DEF CreateEvent
  <2> QED  BY <1>1, <2>2, MakesCall, AnswersCall DEF MeetingCalls
<1>4. CASE DeleteEvent(w)
  <2>1. goal.do = "cancel"
    BY <1>2, <1>4 DEF DeleteEvent, MeetingInv, MeetingFits
  <2>2. \/ GoOn(w, [op |-> "saveCancelled", meeting |-> goal.meeting, goal |-> goal])
        \/ Return(w)
    BY <1>2, <1>4 DEF DeleteEvent
  <2> QED  BY <1>1, <2>1, <2>2, GoalHolds, MakesCall, AnswersCall DEF MeetingCalls
<1> QED  BY <1>3, <1>4

LEMMA MeetingActs ==
    ASSUME TypeOK, MeetingInv, NEW w \in Slots, MeetingStep(w)
    PROVE  Acts(w, MeetingCalls)
<1>1. ASSUME DeleteConnection(w) \/ SaveMeeting(w) \/ SaveCancelled(w)
      PROVE  Acts(w, MeetingCalls)
  BY <1>1, AnswersCall DEF DeleteConnection, SaveMeeting, SaveCancelled, Idle
<1> QED  BY <1>1, MeetingBegunActs, ConnectionActs, TokenActs, EventActs DEF MeetingStep

-----------------------------------------------------------------------------
\* What the calls about lists hold
LEMMA ListHolds ==
    ASSUME NEW c \in ListCalls
    PROVE  /\ c.op = "findMember" => [c EXCEPT !.op = "insertRows"] \in ListCalls
           /\ c.op = "findMembers" =>
                /\ c.list \in ListIds
                /\ \A emails \in SUBSET Contacts, from, at \in Nat :
                      [c EXCEPT !.op = "insertRows", !.emails = c.emails \ emails,
                                !.from = from, !.at = at] \in ListCalls
           /\ c.op = "findRow" => [c EXCEPT !.op = "deleteRow"] \in ListCalls
           /\ c.op = "insertRows" =>
                c.list \in ListIds /\ c.emails \in SUBSET Contacts /\ c.brought \in 1..MaxCalls
           /\ c.op = "createList" =>
                c.emails \in SUBSET Contacts /\ c.brought \in 1..MaxCalls
           /\ c.op = "deleteRow" => c.row \in ListRows
<1>1. CASE c.op \in {"findMember", "findMembers", "insertRows"}
  <2>1. c \in [op : {"findMember", "findMembers", "insertRows"}, list : ListIds,
               emails : SUBSET Contacts, brought : 1..MaxCalls, from : Nat, at : Nat]
    BY <1>1 DEF ListCalls
  <2>2. \A emails \in SUBSET Contacts, from, at \in Nat :
           [c EXCEPT !.op = "insertRows", !.emails = c.emails \ emails,
                     !.from = from, !.at = at] \in
               [op : {"findMember", "findMembers", "insertRows"}, list : ListIds,
                emails : SUBSET Contacts, brought : 1..MaxCalls, from : Nat, at : Nat]
    BY <2>1
  <2>3. [c EXCEPT !.op = "insertRows"] \in
               [op : {"findMember", "findMembers", "insertRows"}, list : ListIds,
                emails : SUBSET Contacts, brought : 1..MaxCalls, from : Nat, at : Nat]
    BY <2>1
  <2>4. \A emails \in SUBSET Contacts, from, at \in Nat :
           [c EXCEPT !.op = "insertRows", !.emails = c.emails \ emails,
                     !.from = from, !.at = at] \in ListCalls
    BY <2>2 DEF ListCalls
  <2>5. [c EXCEPT !.op = "insertRows"] \in ListCalls
    BY <2>3 DEF ListCalls
  <2> QED  BY <1>1, <2>1, <2>4, <2>5
<1>2. CASE c.op \in {"findRow", "deleteRow"}
  <2>1. c \in [op : {"findRow", "deleteRow"}, row : ListRows, from : Nat, at : Nat]
    BY <1>2 DEF ListCalls
  <2>2. [c EXCEPT !.op = "deleteRow"] \in ListCalls
    BY <2>1 DEF ListCalls
  <2> QED  BY <1>2, <2>1, <2>2
<1>3. CASE c.op = "createList"
  BY <1>3 DEF ListCalls
<1>4. c.op \in ListOps
  BY CallsNamed
<1> QED  BY <1>1, <1>2, <1>3, <1>4 DEF ListOps

LEMMA ListActs ==
    ASSUME TypeOK, ListInv, NEW w \in Slots, ListStep(w)
    PROVE  Acts(w, ListCalls)
<1>1. call[w].op \in ListOps => call[w] # Idle /\ call[w] \in ListCalls
  BY HoldsCall, OpsDistinct
<1>2. calls < MaxCalls => calls + 1 \in 1..MaxCalls
  BY SlotsAssumption DEF TypeOK
<1>3. /\ count \in [ListIds -> Nat] /\ changes \in [ListIds -> Nat]
      /\ \A l \in ListIds : Cardinality(RowsOf(l)) \in Nat
  BY FS_CardinalityType DEF ListInv, ListTyped
<1>4. \A r \in rows : r \in ListRows /\ r.list \in ListIds
  BY DEF TypeOK, ListTypeOK, ListRows
<1>5. ASSUME NEW kind \in {"contact", "manual"}, NEW emails \in SUBSET Contacts,
             CreateList(w, kind, emails)
      PROVE  Acts(w, ListCalls)
  <2>1. PICK b \in 1..MaxCalls : b = calls + 1
    BY <1>2, <1>5 DEF CreateList, Begin
  <2>2. Begin(w, [op |-> "createList", kind |-> kind, emails |-> emails, brought |-> b])
    BY <1>5, <2>1 DEF CreateList
  <2> QED  BY <2>2, BeginsCall DEF ListCalls
<1>6. ASSUME NEW l \in ListIds, NEW emails \in SUBSET Contacts, NEW one,
             AddRows(w, l, emails, one)
      PROVE  Acts(w, ListCalls)
  <2>1. PICK b \in 1..MaxCalls : b = calls + 1
    BY <1>2, <1>6 DEF AddRows, Begin
  <2>2. PICK from, at \in Nat : from = count[l] /\ at = changes[l]
    BY <1>3
  <2>3. PICK name \in {"insertRows", "findMember", "findMembers"} :
          name = IF ListKind[l] = "manual" THEN "insertRows"
                 ELSE IF one THEN "findMember" ELSE "findMembers"
    OBVIOUS
  <2>4. Begin(w, [op |-> name, list |-> l, emails |-> emails, brought |-> b,
                  from |-> from, at |-> at])
    BY <1>6, <2>1, <2>2, <2>3 DEF AddRows
  <2> QED  BY <2>4, BeginsCall DEF ListCalls
<1>7. ASSUME NEW r \in rows, RemoveRow(w, r)
      PROVE  Acts(w, ListCalls)
  <2>1. PICK from, at \in Nat : from = count[r.list] /\ at = changes[r.list]
    BY <1>3, <1>4
  <2>2. Begin(w, [op |-> "findRow", row |-> r, from |-> from, at |-> at])
    BY <1>7, <2>1 DEF RemoveRow
  <2> QED  BY <1>4, <2>2, BeginsCall DEF ListCalls
<1>8. ASSUME FindMember(w) \/ FindRow(w)
      PROVE  Acts(w, ListCalls)
  <2>1. call[w] # Idle /\ call[w] \in ListCalls
    BY <1>1, <1>8 DEF FindMember, FindRow, ListOps
  <2>2. (\E c \in ListCalls : GoOn(w, c)) \/ Return(w)
    BY <1>8, <2>1, ListHolds DEF FindMember, FindRow
  <2> QED  BY <2>1, <2>2, MakesCall, AnswersCall
<1>9. ASSUME FindMembers(w)
      PROVE  Acts(w, ListCalls)
  <2>1. call[w] # Idle /\ call[w] \in ListCalls
    BY <1>1, <1>9 DEF FindMembers, ListOps
  <2>2. PICK c \in ListCalls : c = call[w]
    BY <2>1
  <2>3. c.op = "findMembers" /\ c.list \in ListIds
    BY <1>9, <2>2, ListHolds DEF FindMembers
  <2>4. PICK emails \in SUBSET Contacts : emails = Contacts \cap Listed(c.list)
    OBVIOUS
  <2>5. PICK from, at \in Nat : from = Cardinality(RowsOf(c.list)) /\ at = changes[c.list]
    BY <1>3, <2>3
  <2>6. c.emails \subseteq Contacts
    BY <2>3 DEF ListCalls
  <2>7. c.emails \ emails = c.emails \ Listed(c.list)
    BY <2>4, <2>6
  <2>8. PICK d : d = [c EXCEPT !.op = "insertRows", !.emails = c.emails \ emails,
                               !.from = from, !.at = at]
    OBVIOUS
  <2>9. GoOn(w, d)
    BY <1>9, <2>2, <2>5, <2>7, <2>8 DEF FindMembers
  <2>10. d \in ListCalls
    BY <2>3, <2>8, ListHolds
  <2> QED  BY <2>1, <2>9, <2>10, MakesCall
<1>10. ASSUME InsertList(w) \/ InsertRows(w) \/ DeleteRow(w)
       PROVE  Acts(w, ListCalls)
  <2>1. call[w] # Idle /\ Return(w)
    BY <1>1, <1>10 DEF InsertList, InsertRows, DeleteRow, ListOps
  <2> QED  BY <2>1, AnswersCall
<1> QED  BY <1>5, <1>6, <1>7, <1>8, <1>9, <1>10 DEF ListStep

-----------------------------------------------------------------------------
\* Handlers that are about something
LEMMA TeamBegins ==
    ASSUME NEW w, NEW c \in TeamCalls, BeginAbout(w, c)
    PROVE  Acts(w, TeamCalls)
BY BeginsCall DEF BeginAbout

LEMMA TeamBegunActs ==
    ASSUME TypeOK, NEW w \in Slots,
           \/ \E p \in People :
               \/ \E status \in {"active", "disabled"} : UpdateTeamMemberStatus(w, p, status)
               \/ UpdateLevel(w, p, {}) \/ LinkIdentity(w, p)
               \/ \E r \in Roles :
                   UpdateLevel(w, p, {r}) \/ UpdateRoleOf(w, p, r) \/ AcceptAs(w, p, r)
           \/ \E permissions \in SUBSET Permissions :
               \/ CreateRole(w, permissions)
               \/ \E r \in Roles : UpdateRole(w, r, permissions)
           \/ \E r \in Roles : DeleteRole(w, r)
    PROVE  Acts(w, TeamCalls)
<1>1. standing \in [People -> {"new", "active", "disabled"}]
  BY DEF TypeOK, TeamTypeOK
<1>2. ASSUME NEW p \in People, NEW status \in {"active", "disabled"}, NEW sets \in BOOLEAN,
             NEW roles \in SUBSET Roles,
             BeginAbout(w, SavePersonOf(p, status, sets, roles))
      PROVE  Acts(w, TeamCalls)
  <2>1. {p} \cup roles \in Abouts
    BY DEF Abouts
  <2>2. SavePersonOf(p, status, sets, roles) \in TeamCalls
    BY <2>1 DEF SavePersonOf, TeamCalls
  <2> QED  BY <1>2, <2>2, TeamBegins
<1>3. ASSUME NEW p \in People, NEW status \in {"active", "disabled"},
             UpdateTeamMemberStatus(w, p, status)
      PROVE  Acts(w, TeamCalls)
  <2>1. PICK sets \in BOOLEAN, roles \in SUBSET Roles :
           BeginAbout(w, SavePersonOf(p, status, sets, roles))
    BY <1>3 DEF UpdateTeamMemberStatus
  <2> QED  BY <1>2, <2>1
<1>4. ASSUME NEW p \in People, NEW roles \in SUBSET Roles, UpdateLevel(w, p, roles)
      PROVE  Acts(w, TeamCalls)
  <2>1. PICK status \in {"active", "disabled"}, sets \in BOOLEAN :
           BeginAbout(w, SavePersonOf(p, status, sets, roles))
    BY <1>1, <1>4 DEF UpdateLevel, Member
  <2> QED  BY <1>2, <2>1
<1>5. ASSUME NEW p \in People, LinkIdentity(w, p)
      PROVE  Acts(w, TeamCalls)
  <2>1. PICK status \in {"active", "disabled"}, sets \in BOOLEAN, roles \in SUBSET Roles :
           BeginAbout(w, SavePersonOf(p, status, sets, roles))
    BY <1>5 DEF LinkIdentity
  <2> QED  BY <1>2, <2>1
<1>6. ASSUME NEW p \in People, NEW r \in Roles, UpdateRoleOf(w, p, r) \/ AcceptAs(w, p, r)
      PROVE  Acts(w, TeamCalls)
  <2>1. PICK about \in Abouts, name \in {"findRole", "insertPerson"} :
           BeginAbout(w, [op |-> name, about |-> about, person |-> p, role |-> r])
    <3>1. {p, r} \in Abouts
      BY DEF Abouts
    <3> QED  BY <1>6, <3>1 DEF UpdateRoleOf, AcceptAs
  <2> QED  BY <2>1, TeamBegins DEF TeamCalls
<1>7. ASSUME NEW permissions \in SUBSET Permissions, CreateRole(w, permissions)
      PROVE  Acts(w, TeamCalls)
  <2>1. PICK about \in Abouts :
           BeginAbout(w, [op |-> "insertRole", about |-> about, permissions |-> permissions])
    <3>1. {} \in Abouts
      BY DEF Abouts
    <3> QED  BY <1>7, <3>1 DEF CreateRole
  <2> QED  BY <2>1, TeamBegins DEF TeamCalls
<1>8. ASSUME NEW permissions \in SUBSET Permissions, NEW r \in Roles,
             UpdateRole(w, r, permissions) \/ DeleteRole(w, r)
      PROVE  Acts(w, TeamCalls)
  <2>1. PICK about \in Abouts : about = {r}
    BY DEF Abouts
  <2>2. PICK new \in BOOLEAN : new = FALSE
    OBVIOUS
  <2>3. \/ BeginAbout(w, [op |-> "saveRole", about |-> about, role |-> r])
        \/ BeginAbout(w, [op |-> "removeRole", about |-> about, role |-> r])
        \/ BeginAbout(w, [op |-> "clearGrants", about |-> about, role |-> r,
                          permissions |-> permissions, new |-> new])
    BY <1>8, <2>1, <2>2 DEF UpdateRole, DeleteRole, ReplaceGrants
  <2> QED  BY <2>3, TeamBegins DEF TeamCalls
<1>9. \A p \in People, r \in Roles : {r} \in SUBSET Roles /\ {} \in SUBSET Roles
  OBVIOUS
<1>10. CASE \E p \in People :
               \/ \E status \in {"active", "disabled"} : UpdateTeamMemberStatus(w, p, status)
               \/ UpdateLevel(w, p, {}) \/ LinkIdentity(w, p)
               \/ \E r \in Roles :
                   UpdateLevel(w, p, {r}) \/ UpdateRoleOf(w, p, r) \/ AcceptAs(w, p, r)
  <2>1. \A p \in People : UpdateLevel(w, p, {}) => Acts(w, TeamCalls)
    BY <1>4
  <2> QED  BY <1>3, <1>4, <1>5, <1>6, <1>9, <1>10, <2>1
<1>11. CASE \E permissions \in SUBSET Permissions :
               \/ CreateRole(w, permissions)
               \/ \E r \in Roles : UpdateRole(w, r, permissions)
  BY <1>7, <1>8, <1>11
<1>12. CASE \E r \in Roles : DeleteRole(w, r)
  <2>1. {} \in SUBSET Permissions
    OBVIOUS
  <2> QED  BY <1>8, <1>12, <2>1
<1> QED  BY <1>10, <1>11, <1>12

LEMMA TeamActs ==
    ASSUME TypeOK, TeamInv, NEW w \in Slots, TeamStep(w)
    PROVE  Acts(w, TeamCalls)
<1>1. call[w].op \in TeamOps => call[w] # Idle /\ call[w] \in TeamCalls
  BY HoldsCall, OpsDistinct
<1>2. ASSUME SavePerson(w)
      PROVE  Acts(w, TeamCalls)
  <2>1. call[w] # Idle /\ call[w] \in TeamCalls
    BY <1>1, <1>2 DEF SavePerson, TeamOps
  <2>2. call[w].about \in Abouts /\ call[w].person \in People /\ call[w].roles \subseteq Roles
    BY <1>2, <2>1, TeamCallsKnown DEF SavePerson
  <2>3. \/ Return(w)
        \/ \E r \in Roles : GoOn(w, [op |-> "findRole", about |-> call[w].about,
                                     person |-> call[w].person, role |-> r])
    BY <1>2, <2>2 DEF SavePerson
  <2> QED  BY <2>1, <2>2, <2>3, MakesCall, AnswersCall DEF TeamCalls
<1>3. ASSUME FindRole(w) \/ ClearRoleOf(w) \/ InsertPerson(w) \/ ClearGrants(w)
      PROVE  Acts(w, TeamCalls)
  <2>1. call[w] # Idle /\ call[w] \in TeamCalls
    BY <1>1, <1>3 DEF FindRole, ClearRoleOf, InsertPerson, ClearGrants, TeamOps
  <2>2. PICK c \in TeamCalls : c = call[w]
    BY <2>1
  <2>3. \/ Return(w)
        \/ c.op \in {"insertPerson", "findRole"} /\ GoOn(w, [c EXCEPT !.op = "clearRoleOf"])
        \/ c.op = "clearRoleOf" /\ GoOn(w, [c EXCEPT !.op = "insertRoleOf"])
        \/ c.op = "clearGrants" /\ GoOn(w, [c EXCEPT !.op = "insertGrants"])
    BY <1>3, <2>2 DEF FindRole, ClearRoleOf, InsertPerson, ClearGrants
  <2>4. Return(w) \/ \E d \in TeamCalls : GoOn(w, d)
    BY <2>3, TeamRenamed
  <2> QED  BY <2>1, <2>4, MakesCall, AnswersCall
<1>4. ASSUME InsertRole(w)
      PROVE  Acts(w, TeamCalls)
  <2>1. call[w] # Idle /\ call[w] \in TeamCalls
    BY <1>1, <1>4 DEF InsertRole, TeamOps
  <2>2. call[w].permissions \in SUBSET Permissions
    BY <1>4, <2>1, TeamCallsKnown DEF InsertRole
  <2>3. \E r \in Roles : roleAt[r] = "new"
    BY <1>4 DEF InsertRole, TeamInv, TeamFits
  <2>4. PICK r \in Roles : GoOn(w, ReplaceGrants(w, r, call[w].permissions, TRUE))
    BY <1>4, <2>3 DEF InsertRole
  <2>5. PICK new \in BOOLEAN, about \in Abouts : new = TRUE /\ about = {r}
    BY DEF Abouts
  <2>6. GoOn(w, [op |-> "clearGrants", about |-> about, role |-> r,
                 permissions |-> call[w].permissions, new |-> new])
    BY <2>4, <2>5 DEF ReplaceGrants
  <2> QED  BY <2>1, <2>2, <2>6, MakesCall DEF TeamCalls
<1>5. ASSUME InsertGrants(w)
      PROVE  Acts(w, TeamCalls)
  <2>1. call[w] # Idle /\ call[w] \in TeamCalls
    BY <1>1, <1>5 DEF InsertGrants, TeamOps
  <2>2. call[w].about \in Abouts /\ call[w].role \in Roles
    BY <1>5, <2>1, TeamCallsKnown DEF InsertGrants
  <2>3. \/ Return(w)
        \/ GoOn(w, [op |-> "saveRole", about |-> call[w].about, role |-> call[w].role])
    BY <1>5 DEF InsertGrants
  <2> QED  BY <2>1, <2>2, <2>3, MakesCall, AnswersCall DEF TeamCalls
<1>6. ASSUME InsertRoleOf(w) \/ SaveRole(w) \/ RemoveRole(w)
      PROVE  Acts(w, TeamCalls)
  <2>1. call[w] # Idle /\ Return(w)
    BY <1>1, <1>6 DEF InsertRoleOf, SaveRole, RemoveRole, TeamOps
  <2> QED  BY <2>1, AnswersCall
<1> QED  BY <1>2, <1>3, <1>4, <1>5, <1>6, TeamBegunActs DEF TeamStep

-----------------------------------------------------------------------------
\* A list changes when a handler that was begun for it answers.

Busy == {w \in Slots : call[w] # Idle}

ChangesCounted ==
    \A l \in ListIds : changes[l] + Cardinality(Busy) <= calls

LEMMA StepActs ==
    ASSUME TypeOK, PeopleFinite, PolicyInv, MeetingInv, ListInv, TeamInv,
           NEW w \in Slots, NEW Ops \in AllOps, StepOf(w, Ops)
    PROVE  Acts(w, Calls)
<1>1. \A Mine : Mine \subseteq Calls /\ Acts(w, Mine) => Acts(w, Calls)
  BY DEF Acts
<1>2. /\ QuotaCalls \subseteq Calls /\ MembershipCalls \subseteq Calls
      /\ RemovalCalls \subseteq Calls /\ PlanCalls \subseteq Calls
      /\ MeetingCalls \subseteq Calls /\ SiteCalls \subseteq Calls
      /\ PolicyCalls \subseteq Calls /\ GoogleCalls \subseteq Calls
      /\ ListCalls \subseteq Calls /\ TeamCalls \subseteq Calls
  BY DEF Calls
<1>3. \/ QuotaStep(w) \/ MembershipStep(w) \/ Removes(w) \/ PlanStep(w) \/ MeetingStep(w)
      \/ SiteStep(w) \/ PolicyStep(w) \/ GoogleStep(w) \/ ListStep(w) \/ TeamStep(w)
  BY OpsDistinct DEF StepOf
<1> QED  BY <1>1, <1>2, <1>3, QuotaActs, MembershipActs, RemovalActs, PlanActs, MeetingActs,
            SiteActs, PolicyActs, GoogleActs, ListActs, TeamActs

LEMMA CallsKept ==
    ASSUME TypeOK, NEW w \in Slots, Acts(w, Calls)
    PROVE  /\ call' \in [Slots -> {Idle} \cup Calls]
           /\ calls' \in 0..MaxCalls /\ restarts' \in 0..MaxRestarts
<1>1. PICK c \in Calls \cup {Idle} : Begin(w, c) \/ (call[w] # Idle /\ GoOn(w, c))
  BY DEF Acts
<1>2. /\ call \in [Slots -> {Idle} \cup Calls] /\ call' = [call EXCEPT ![w] = c]
      /\ restarts' = restarts
  BY <1>1 DEF Begin, GoOn, TypeOK
<1>3. calls' = calls \/ (calls < MaxCalls /\ calls' = calls + 1)
  BY <1>1 DEF Begin, GoOn
<1>4. calls' \in 0..MaxCalls
  BY <1>3, SlotsAssumption DEF TypeOK
<1> QED  BY <1>2, <1>4 DEF TypeOK

LEMMA BusyCounted ==
    ASSUME TypeOK, NEW w \in Slots, Acts(w, Calls)
    PROVE  /\ Cardinality(Busy)' + calls <= Cardinality(Busy) + calls'
           /\ Return(w) /\ call[w] # Idle =>
                Cardinality(Busy)' + 1 = Cardinality(Busy) /\ calls' = calls
<1>1. PICK c \in Calls \cup {Idle} : Begin(w, c) \/ (call[w] # Idle /\ GoOn(w, c))
  BY DEF Acts
<1>2. call' = [v \in Slots |-> IF v = w THEN c ELSE call[v]]
  BY <1>1 DEF Begin, GoOn, TypeOK
<1>3. PICK some, now : some = Busy /\ now = Busy'
  OBVIOUS
<1>4. /\ some = {v \in Slots : call[v] # Idle}
      /\ now = IF c = Idle THEN some \ {w} ELSE some \cup {w}
      /\ w \in some <=> call[w] # Idle
  BY <1>2, <1>3 DEF Busy
<1>5. IsFiniteSet(some) /\ Cardinality(some) \in Nat
  BY <1>4, HandlersCounted
<1>6. /\ Cardinality(some \ {w}) = IF w \in some THEN Cardinality(some) - 1
                                   ELSE Cardinality(some)
      /\ Cardinality(some \cup {w}) = IF w \in some THEN Cardinality(some)
                                      ELSE Cardinality(some) + 1
  BY <1>5, FS_RemoveElement, FS_AddElement
<1>7. calls \in Nat
  BY DEF TypeOK
<1>8. \/ call[w] = Idle /\ calls' = calls + 1
      \/ call[w] # Idle /\ calls' = calls
  BY <1>1 DEF Begin, GoOn
<1>9. Cardinality(now) + calls <= Cardinality(some) + calls'
  BY <1>4, <1>5, <1>6, <1>7, <1>8
<1>10. Return(w) /\ call[w] # Idle => c = Idle
  <2>1. Return(w) => call'[w] = Idle
    BY DEF Return, GoOn, TypeOK
  <2> QED  BY <1>2, <2>1
<1>11. Return(w) /\ call[w] # Idle => Cardinality(now) + 1 = Cardinality(some) /\ calls' = calls
  BY <1>4, <1>5, <1>6, <1>8, <1>10
<1> QED  BY <1>3, <1>9, <1>11

LEMMA ListsChange ==
    ASSUME TypeOK, NEW w \in Slots, ListStep(w)
    PROVE  \/ changes' = changes
           \/ /\ Return(w) /\ call[w] # Idle
              /\ \A l \in ListIds : changes'[l] \in {changes[l], changes[l] + 1}
<1>1. changes' = changes
        \/ \E l, all, n, at : Commit(l, all, n, at) /\ (InsertRows(w) \/ DeleteRow(w))
  BY DEF ListStep, CreateList, AddRows, RemoveRow, InsertList, FindMember, FindMembers,
         InsertRows, FindRow, DeleteRow, listVars
<1>2. ASSUME NEW l, NEW all, NEW n, NEW at, Commit(l, all, n, at)
      PROVE  \A k \in ListIds : changes'[k] \in {changes[k], changes[k] + 1}
  BY <1>2 DEF Commit, TypeOK, ListTypeOK
<1>3. InsertRows(w) \/ DeleteRow(w) => Return(w) /\ call[w] # Idle
  BY DEF InsertRows, DeleteRow, Idle
<1> QED  BY <1>1, <1>2, <1>3

LEMMA SlotsNext ==
    ASSUME Shape, TypeOK, ChangesCounted, PeopleFinite, PolicyInv, MeetingInv, ListInv,
           TeamInv, [Next]_vars
    PROVE  /\ call' \in [Slots -> {Idle} \cup Calls]
           /\ calls' \in 0..MaxCalls /\ restarts' \in 0..MaxRestarts
           /\ ChangesCounted'
<1>1. /\ \A l \in ListIds : changes[l] \in Nat
      /\ calls \in Nat /\ Cardinality(Busy) \in Nat /\ Cardinality(Busy)' \in Nat
  BY HandlersCounted DEF TypeOK, ListTypeOK, Busy
<1>2. ASSUME NEW w \in Slots, CallFails(w) \/ \E Ops \in AllOps : StepOf(w, Ops)
      PROVE  /\ call' \in [Slots -> {Idle} \cup Calls]
             /\ calls' \in 0..MaxCalls /\ restarts' \in 0..MaxRestarts
             /\ ChangesCounted'
  <2>1. Acts(w, Calls)
    BY <1>2, StepActs, AnswersCall DEF CallFails
  <2>2. \/ changes' = changes
        \/ /\ Return(w) /\ call[w] # Idle
           /\ \A l \in ListIds : changes'[l] \in {changes[l], changes[l] + 1}
    BY <1>2, ListsChange DEF StepOf, CallFails, listVars
  <2>3. calls' \in Nat
    BY <2>1, CallsKept
  <2>4. PICK some, now : some = Cardinality(Busy) /\ now = Cardinality(Busy)'
    OBVIOUS
  <2>5. /\ now + calls <= some + calls'
        /\ Return(w) /\ call[w] # Idle => now + 1 = some /\ calls' = calls
    BY <2>1, <2>4, BusyCounted
  <2>6. ASSUME NEW l \in ListIds
        PROVE  changes'[l] + now <= calls'
    <3>1. changes[l] + some <= calls /\ changes[l] \in Nat /\ some \in Nat /\ now \in Nat
      BY <1>1, <2>4 DEF ChangesCounted
    <3>2. \/ changes'[l] = changes[l]
          \/ changes'[l] = changes[l] + 1 /\ now + 1 = some /\ calls' = calls
      BY <2>2, <2>5
    <3>3. PICK k, n : k = changes'[l] /\ n = calls'
      OBVIOUS
    <3>4. now + calls <= some + n /\ n \in Nat
      BY <2>3, <2>5, <3>3
    <3>5. \/ k = changes[l]
          \/ k = changes[l] + 1 /\ now + 1 = some /\ n = calls
      BY <3>2, <3>3
    <3>6. k + now <= n
      BY <1>1, <3>1, <3>4, <3>5
    <3> QED  BY <3>3, <3>6
  <2>7. ChangesCounted'
    BY <2>4, <2>6 DEF ChangesCounted
  <2> QED  BY <2>1, <2>7, CallsKept
<1>3. CASE UNCHANGED <<call, calls, restarts, changes>>
  BY <1>3 DEF TypeOK, ChangesCounted, Busy
<1>4. CASE Restart
  <2>1. /\ call' = [w \in Slots |-> Idle] /\ calls' = calls /\ changes' = changes
        /\ restarts < MaxRestarts /\ restarts' = restarts + 1
    BY <1>4 DEF Restart, LoseCalls, listVars
  <2>2. restarts' \in 0..MaxRestarts
    BY <2>1, SlotsAssumption DEF TypeOK
  <2>3. Cardinality(Busy)' = 0
    <3>1. Busy' = {}
      BY <2>1 DEF Busy
    <3> QED  BY <3>1, FS_EmptySet
  <2>4. ChangesCounted'
    BY <1>1, <2>1, <2>3 DEF ChangesCounted
  <2> QED  BY <2>1, <2>2, <2>4 DEF TypeOK
<1> QED  BY <1>2, <1>3, <1>4, NextKnown DEF Besides, CutShort, listVars

-----------------------------------------------------------------------------
LEMMA GoogleTypeNext ==
    ASSUME Shape, TypeOK, [Next]_vars
    PROVE  GoogleTypeOK'
<1>1. ASSUME NEW w \in Slots, NEW Ops \in AllOps, StepOf(w, Ops)
      PROVE  GoogleStep(w) \/ UNCHANGED googleVars
  BY <1>1 DEF StepOf
<1>2. Besides => UNCHANGED googleVars
  BY CutShortKnown DEF Besides
<1> QED  BY <1>1, <1>2, NextKnown, GoogleTyped, GoogleRowsKept DEF TypeOK

\* Who has a role has one that is there: its removal takes it from all.
LEMMA RolesThere ==
    ASSUME TypeOK, NEW w \in Slots, TeamStep(w)
    PROVE  \A p \in People : \A r \in Roles : r \in rolesOf'[p] => roleAt'[r] = "live"
<1>1. /\ rolesOf \in [People -> SUBSET Roles]
      /\ \A p \in People : \A r \in rolesOf[p] : roleAt[r] = "live"
      /\ roleAt \in [Roles -> {"new", "live", "gone"}]
  BY DEF TypeOK, TeamTypeOK, InPlace
<1>2. CASE InsertRoleOf(w)
  <2>1. PICK x, s : /\ roleAt' = roleAt
                    /\ \/ rolesOf' = rolesOf
                       \/ roleAt[s] = "live" /\ rolesOf' = [rolesOf EXCEPT ![x] = @ \cup {s}]
    BY <1>2 DEF InsertRoleOf, InPlace
  <2> QED  BY <1>1, <2>1
<1>3. CASE ClearRoleOf(w)
  <2>1. PICK x : roleAt' = roleAt /\ rolesOf' = [rolesOf EXCEPT ![x] = {}]
    BY <1>3 DEF ClearRoleOf
  <2> QED  BY <1>1, <2>1
<1>4. CASE RemoveRole(w)
  <2>1. PICK s : /\ roleAt' = [roleAt EXCEPT ![s] = "gone"]
                 /\ rolesOf' = [p \in People |-> rolesOf[p] \ {s}]
    BY <1>4 DEF RemoveRole
  <2> QED  BY <1>1, <2>1
<1>5. CASE SaveRole(w) \/ InsertRole(w)
  <2>1. PICK s : /\ roleAt' = [roleAt EXCEPT ![s] = "live"] \/ roleAt' = roleAt
                 /\ rolesOf' = rolesOf
    BY <1>5 DEF SaveRole, InsertRole
  <2> QED  BY <1>1, <2>1
<1>6. CASE UNCHANGED <<rolesOf, roleAt>>
  BY <1>1, <1>6
<1> QED  BY <1>2, <1>3, <1>4, <1>5, <1>6
         DEF TeamStep, UpdateTeamMemberStatus, UpdateLevel, LinkIdentity, UpdateRoleOf,
             AcceptAs, CreateRole, UpdateRole, DeleteRole, SavePerson, FindRole,
             InsertPerson, ClearGrants, InsertGrants, teamVars

LEMMA TeamTypeNext ==
    ASSUME Shape, TypeOK, TeamInv', [Next]_vars
    PROVE  TeamTypeOK'
<1>1. ASSUME NEW w \in Slots, NEW Ops \in AllOps, StepOf(w, Ops)
      PROVE  TeamStep(w) \/ UNCHANGED <<rolesOf, roleAt>>
  BY <1>1 DEF StepOf, teamVars
<1>2. Besides => UNCHANGED <<rolesOf, roleAt>>
  BY DEF Besides, CutShort, Restart, TeamRestarted, CallFails, ReplacementLost, teamVars
<1>3. \A p \in People : \A r \in Roles : r \in rolesOf'[p] => roleAt'[r] = "live"
  <2>1. UNCHANGED <<rolesOf, roleAt>> =>
          \A p \in People : \A r \in Roles : r \in rolesOf'[p] => roleAt'[r] = "live"
    BY DEF TypeOK, TeamTypeOK, InPlace
  <2> QED  BY <1>1, <1>2, <2>1, NextKnown, RolesThere
<1>4. TeamTyped'
  BY DEF TeamInv
<1>5. rolesOf' \in [People -> SUBSET {r \in Roles : roleAt'[r] = "live"}]
  BY <1>3, <1>4 DEF TeamTyped
<1> QED  BY <1>4, <1>5 DEF TeamTyped, TeamTypeOK, Decisions, Abouts, InPlace

\* Rows were brought, and lists changed, by requests that were made.
LEMMA ListTypes ==
    ASSUME calls \in 0..MaxCalls, ListInv, ChangesCounted
    PROVE  ListTypeOK
<1>1. \A r \in rows : r \in ListRows
  <2>1. ASSUME NEW r \in rows
        PROVE  r \in ListRows
    <3>1. r \in StoredRows /\ r.brought <= calls
      BY DEF ListInv, ListTyped
    <3>2. r.brought \in 0..MaxCalls
      BY <3>1, SlotsAssumption DEF StoredRows
    <3> QED  BY <3>1, <3>2 DEF StoredRows, ListRows
  <2> QED  BY <2>1
<1>2. \A l \in ListIds : changes[l] \in 0..MaxCalls
  <2>1. Cardinality(Busy) \in Nat
    BY HandlersCounted DEF Busy
  <2> QED  BY <2>1, SlotsAssumption DEF ChangesCounted, ListInv, ListTyped
<1>3. changes \in [ListIds -> 0..MaxCalls]
  BY <1>2 DEF ListInv, ListTyped
<1> QED  BY <1>1, <1>3 DEF ListInv, ListTyped, ListTypeOK

-----------------------------------------------------------------------------
LEMMA GoogleTypeStart ==
    ASSUME Init
    PROVE  GoogleTypeOK
<1>1. PICK c \in LinkIds, p \in PropertyIds, row \in [app : Apps, email : GoogleEmails] :
         /\ c = First(LinkIds) /\ p = First(PropertyIds)
         /\ row = [app |-> First(Apps), email |-> First(GoogleEmails)]
  <2>1. /\ First(LinkIds) \in LinkIds /\ First(PropertyIds) \in PropertyIds
        /\ First(Apps) \in Apps /\ First(GoogleEmails) \in GoogleEmails
    BY WorkspaceAssumption DEF First
  <2> QED  BY <2>1
<1>2. /\ apps = Apps /\ issued = {c, p}
      /\ google = [x \in LinkIds |-> IF x = c THEN row ELSE Missing]
      /\ link = [x \in PropertyIds |-> IF x = p THEN c ELSE Missing]
  BY <1>1 DEF Init, GoogleInit
<1>3. row # Missing
  BY GoogleAssumption DEF GoogleRows
<1>4. Connected = {c}
  BY <1>2, <1>3 DEF Connected
<1> QED  BY <1>1, <1>2, <1>4 DEF GoogleTypeOK

LEMMA TeamTypeStart ==
    ASSUME Init, TeamInv
    PROVE  TeamTypeOK
<1>1. PICK first : first = SystemRoles \cup {First(Roles \ SystemRoles)}
                             \cup UNION {FirstRole[p] : p \in People}
  OBVIOUS
<1>2. /\ rolesOf = FirstRole
      /\ roleAt = [r \in Roles |-> IF r \in first THEN "live" ELSE "new"]
  BY <1>1 DEF Init, TeamInit
<1>3. \A p \in People : \A r \in Roles : r \in rolesOf[p] => r \in first
  BY <1>1, <1>2
<1>4. rolesOf \in [People -> SUBSET {r \in Roles : roleAt[r] = "live"}]
  BY <1>2, <1>3 DEF TeamInv, TeamTyped
<1> QED  BY <1>4 DEF TeamInv, TeamTyped, TeamTypeOK, Decisions, Abouts, InPlace

LEMMA SlotsStart ==
    ASSUME Init
    PROVE  /\ call \in [Slots -> {Idle} \cup Calls]
           /\ calls \in 0..MaxCalls /\ restarts \in 0..MaxRestarts
           /\ ChangesCounted
<1>1. call = [w \in Slots |-> Idle] /\ calls = 0 /\ restarts = 0
  BY DEF Init, SlotsInit
<1>2. calls \in 0..MaxCalls /\ restarts \in 0..MaxRestarts
  BY <1>1, SlotsAssumption
<1>3. Cardinality(Busy) = 0
  <2>1. Busy = {}
    BY <1>1 DEF Busy
  <2> QED  BY <2>1, FS_EmptySet
<1>4. changes = [l \in ListIds |-> 0]
  BY DEF Init, ListInit
<1> QED  BY <1>1, <1>2, <1>3, <1>4 DEF ChangesCounted

(***************************************************************************)
(* Handlers hold the variables of the calls they make, and rows refer to   *)
(* rows of their tables: a member's roles are there, a property's Google   *)
(* account is, a list is there for each of its rows.  No more requests     *)
(* arrive than the bound lets, and no list changes more often.             *)
(***************************************************************************)
THEOREM WorkspaceTyped == Spec => []TypeOK
<1> DEFINE Inv == /\ Shape /\ QuotaInv /\ MembershipInv /\ RemovalInv /\ PlanInv
                  /\ MeetingInv /\ SiteInv /\ PolicyInv /\ ListInv /\ TeamInv
<1> DEFINE Typed == /\ call \in [Slots -> {Idle} \cup Calls]
                    /\ calls \in 0..MaxCalls /\ restarts \in 0..MaxRestarts
                    /\ ChangesCounted /\ GoogleTypeOK /\ TeamTypeOK
<1>1. Init => Inv
  BY InitShape, QuotaStart, MembershipStart, RemovalStart, PlanStart, MeetingStart,
     SiteStart, PolicyStart, ListStart, TeamStart
<1>2. Inv /\ [Next]_vars => Inv'
  BY NextKnown, QuotaNext, MembershipNext, RemovalNext, PlanNext, MeetingNext, SiteNext,
     PolicyNext, ListNext, TeamNext
<1>3. Inv /\ Typed => TypeOK
  <2> SUFFICES ASSUME Inv, Typed
               PROVE  TypeOK
    OBVIOUS
  <2>1. /\ QuotaTypeOK /\ MembershipTypeOK /\ RemovalTypeOK /\ PlanTypeOK /\ MeetingTypeOK
        /\ SiteTypeOK /\ PolicyTypeOK
    BY DEF QuotaInv, MembershipInv, RemovalInv, PlanInv, MeetingInv, SiteInv, RunsInv,
           PolicyInv
  <2>2. ListTypeOK
    BY ListTypes
  <2> QED  BY <2>1, <2>2 DEF TypeOK
<1>4. Init => Typed
  BY <1>1, SlotsStart, GoogleTypeStart, TeamTypeStart
<1>5. Inv /\ Typed /\ [Next]_vars => Typed'
  <2> SUFFICES ASSUME Inv, Typed, [Next]_vars
               PROVE  Typed'
    OBVIOUS
  <2>1. Inv' /\ TypeOK
    BY <1>2, <1>3
  <2>2. PeopleFinite
    BY DEF MembershipInv
  <2> QED  BY <2>1, <2>2, SlotsNext, GoogleTypeNext, TeamTypeNext
<1> QED  BY <1>1, <1>2, <1>3, <1>4, <1>5, PTL DEF Spec
=============================================================================
