------------------------------ MODULE Workspace ------------------------------
(***************************************************************************)
(* One organization's workspace: its people, its campaigns and prospects,  *)
(* and the limits that bound how many of each there may be.  Requests of   *)
(* any of these parts interleave, call by call.                            *)
(***************************************************************************)
EXTENDS Memberships, CampaignPlans, Meetings, SiteAudits, AccessPolicies,
        SiteConnections, AudienceLists, TeamRoles

CONSTANTS
    Owner,          \* the account that Home started with
    FirstSessions,  \* bound: the sign-ups that may be under way at first
    FirstPolicy,    \* a policy that everybody is assigned
    FirstAccount,   \* the calendar account that the owner has connected
    Topics          \* bound: the parts whose requests meet in a behaviour

VARIABLE topic      \* the parts whose requests are made

(* The stages a sign-up that nobody disturbs goes through: started, named, *)
(* proved; or started by an identity provider.                             *)
Started(email, oauth) ==
    [email |-> email, oauth |-> oauth, company |-> FALSE, code |-> FALSE,
     tries |-> 0, verified |-> oauth]
Named(email) == WithCode(Started(email, FALSE))
Stages(email) ==
    {Started(email, FALSE), Started(email, TRUE), Named(email),
     [Named(email) EXCEPT !.code = FALSE, !.verified = TRUE]}

Parts ==
    {"limits", "people", "rows", "requests", "imports", "plans", "meetings",
     "sites", "policies", "google", "lists", "team"}

ASSUME WorkspaceAssumption ==
    /\ Owner \in Emails
    /\ FirstSessions \subseteq UNION {Stages(e) : e \in Emails \ {Owner}}
    /\ FirstSessions # {}
    /\ Slots # {} /\ IsFiniteSet(Slots)
    /\ Policies # {}
    /\ MeetingIds # {} /\ \E i \in Items : Kind[i] = "prospects"
    /\ Sites # {} /\ IsFiniteSet(Sites) /\ Domains # {} /\ IsFiniteSet(Runs)
    /\ IsFiniteSet(Items)
    /\ Apps # {} /\ GoogleEmails # {} /\ LinkIds # {} /\ PropertyIds # {}
    \* The registry's caps have room for what there is at first.
    /\ \A key \in Keys : DefaultCap[key] # Null => DefaultCap[key] > 1
    /\ FirstAccount \in Accounts
    /\ FirstPolicy \in PolicyInputs
    /\ Topics \subseteq SUBSET Parts

\* Parts that share no rows with the others
apartVars == <<policyVars, googleVars, listVars, teamVars>>

vars == <<slotVars, quotaVars, membershipVars, removalVars, plan, meetingVars,
          siteVars, apartVars, topic>>

Calls ==
    QuotaCalls \cup MembershipCalls \cup RemovalCalls \cup PlanCalls
        \cup MeetingCalls \cup SiteCalls \cup PolicyCalls
        \cup GoogleCalls \cup ListCalls \cup TeamCalls

\* A request of this part, or what follows from one
About(part) == part \in topic

Step(w) ==
    /\ \/ /\ About("limits") /\ QuotaStep(w)
          /\ UNCHANGED <<membershipVars, removalVars, plan, meetingVars, siteVars,
                         apartVars>>
       \/ /\ About("people") /\ MembershipStep(w)
          /\ UNCHANGED <<quotaVars, removalVars, plan, meetingVars, siteVars,
                         apartVars>>
       \/ /\ \/ About("rows") /\ RowStep(w)
             \/ About("requests") /\ RequestStep(w)
             \/ About("imports") /\ ImportStep(w)
          /\ PlansCascade /\ MeetingsCascade
          /\ UNCHANGED <<quotaVars, membershipVars, siteVars, apartVars>>
       \/ /\ About("plans") /\ PlanStep(w)
          /\ UNCHANGED <<quotaVars, membershipVars, meetingVars, siteVars,
                         apartVars>>
       \/ /\ About("meetings") /\ MeetingStep(w)
          /\ UNCHANGED <<quotaVars, membershipVars, removalVars, plan, siteVars,
                         apartVars>>
       \/ /\ About("sites") /\ SiteStep(w)
          /\ UNCHANGED <<quotaVars, membershipVars, removalVars, plan, meetingVars,
                         apartVars>>
       \/ /\ About("policies") /\ PolicyStep(w)
          /\ UNCHANGED <<quotaVars, membershipVars, removalVars, plan, meetingVars,
                         siteVars, googleVars, listVars, teamVars>>
       \/ /\ About("google") /\ GoogleStep(w)
          /\ UNCHANGED <<quotaVars, membershipVars, removalVars, plan, meetingVars,
                         siteVars, policyVars, listVars, teamVars>>
       \/ /\ About("lists") /\ ListStep(w)
          /\ UNCHANGED <<quotaVars, membershipVars, removalVars, plan, meetingVars,
                         siteVars, policyVars, googleVars, teamVars>>
       \/ /\ About("team") /\ TeamStep(w)
          /\ UNCHANGED <<quotaVars, membershipVars, removalVars, plan, meetingVars,
                         siteVars, policyVars, googleVars, listVars>>
    /\ UNCHANGED topic

\* Audits run on their own.
Audit(r) ==
    /\ RunnerStep(r)
    /\ UNCHANGED <<quotaVars, membershipVars, removalVars, plan, meetingVars,
                   apartVars, topic>>

InvitationLapses(i) ==
    /\ About("people") /\ Lapse(i)
    /\ UNCHANGED <<slotVars, quotaVars, removalVars, plan, meetingVars, siteVars,
                   apartVars, topic>>

TokenExpires ==
    /\ About("meetings") /\ Expire
    /\ UNCHANGED <<slotVars, quotaVars, membershipVars, removalVars, plan,
                   siteVars, apartVars, topic>>

\* The call that a handler makes fails, without an effect, and the handler
\* throws.
CallFails(w) ==
    /\ call[w] # Idle
    /\ Return(w)
    /\ FoundersLost({w}) /\ MeetingsInterrupted({w}) /\ AssignmentsLost({w})
    /\ ReplacementLost(w)
    /\ UNCHANGED <<quotaVars, removalVars, plan, siteVars, googleVars, listVars,
                   topic>>

\* The process stops and starts again.
Restart ==
    /\ LoseCalls /\ FoundersLost(Slots) /\ MeetingsInterrupted(Slots) /\ JobsLost
    /\ AssignmentsLost(Slots) /\ TeamRestarted
    /\ UNCHANGED <<quotaVars, removalVars, plan, googleVars, listVars, topic>>

\* No request is in progress and the bound on requests is reached.
Quiet ==
    /\ calls = MaxCalls
    /\ \A w \in Slots : call[w] = Idle
    /\ UNCHANGED vars

Next ==
    \/ \E w \in Slots : Step(w)
    \/ \E r \in Runs : Audit(r)
    \/ \E i \in Invitations : InvitationLapses(i)
    \/ TokenExpires
    \/ \E w \in Slots : CallFails(w)
    \/ Restart
    \/ Quiet

-----------------------------------------------------------------------------
(* The workspace starts with an owner who has connected a calendar, a      *)
(* sign-up under way, an invitation of the same address, a campaign, a     *)
(* prospect with a meeting, a website linked to a Google account, a policy,*)
(* lists of contacts, and members with roles.                              *)

First(ids) == CHOOSE i \in ids : TRUE

MembershipInit ==
    /\ account = [e \in Emails |-> IF e = Owner THEN Home ELSE Nobody]
    /\ organization = [o \in Organizations |-> Nobody]
    /\ \E row \in IF About("people") THEN FirstSessions ELSE {First(FirstSessions)} :
        /\ session = [s \in Sessions |->
                        IF s = First(Sessions) THEN row ELSE None]
        /\ proved = IF row.verified THEN {row.email} ELSE {}
        /\ invitation = [i \in Invitations |->
             IF i = First(Invitations)
             THEN [email |-> row.email, status |-> "pending", late |-> FALSE]
             ELSE None]
    /\ abandoned = {}
    /\ missed = 0

FirstOf(kind) == First({i \in Items : Kind[i] = kind})

RemovalInit ==
    /\ item = [i \in Items |-> IF i = FirstOf(Kind[i]) THEN "live" ELSE "absent"]
    /\ request = [r \in Requests |-> Absent]
    /\ revived = {}
    /\ imported = {}

MeetingInit ==
    LET m == First(MeetingIds)
    IN  /\ connection = [id |-> 1, email |-> FirstAccount,
                         token |-> FirstAccount, fresh |-> TRUE]
        /\ revision = 1
        /\ chosen = FirstAccount
        /\ crossed = FALSE
        /\ interrupted = {}
        /\ event = [x \in MeetingIds |-> IF x = m THEN FirstAccount ELSE Off]
        /\ meeting = [x \in MeetingIds |->
                        IF x = m THEN [prospect |-> FirstOf("prospects"),
                                       status |-> "scheduled"] ELSE Off]

SiteInit ==
    LET s == First(Sites)
    IN  /\ site = [x \in Sites |->
                      IF x = s THEN [domain |-> First(Domains), active |-> TRUE]
                      ELSE Nil]
        /\ siteIds = {s}
        /\ run = [r \in Runs |-> Nil]
        /\ job = [r \in Runs |-> Nil]
        /\ stranded = {}

PolicyInit ==
    /\ policy = [p \in Policies |->
                    IF p = First(Policies) THEN FirstPolicy
                    ELSE [FirstPolicy EXCEPT !.at = "new"]]
    /\ assigned = Users \X {First(Policies)}
    /\ wanted = assigned
    /\ lost = {}

GoogleInit ==
    LET c == First(LinkIds)
        p == First(PropertyIds)
    IN  /\ apps = Apps
        /\ google = [x \in LinkIds |->
                        IF x = c THEN [app |-> First(Apps), email |-> First(GoogleEmails)]
                        ELSE Missing]
        /\ issued = {c, p}
        /\ link = [x \in PropertyIds |-> IF x = p THEN c ELSE Missing]

ListInit ==
    /\ made = {l \in ListIds : FirstMembers[l] # {}}
    /\ rows = UNION {NewRows(l, FirstMembers[l], 0) : l \in ListIds}
    /\ count = [l \in ListIds |-> Cardinality(FirstMembers[l])]
    /\ changes = [l \in ListIds |-> 0]
    /\ mixed = {}

\* Beside the system roles there is one of the organization's own.
TeamInit ==
    LET own == First(Roles \ SystemRoles)
        first == SystemRoles \cup {own} \cup UNION {FirstRole[p] : p \in People}
    IN  /\ standing = [p \in People |-> IF FirstRole[p] = {} THEN "new" ELSE "active"]
        /\ rolesOf = FirstRole
        /\ roleAt = [r \in Roles |->
                        IF r \in first THEN "live" ELSE "new"]
        /\ grants = [r \in Roles |->
                       IF r \in SystemRoles THEN Seed[r]
                       ELSE IF r = own THEN Permissions ELSE {}]
        /\ decided = [standing |-> standing, roles |-> rolesOf, grants |-> grants]
        /\ contested = {}

Init ==
    /\ topic \in Topics
    /\ SlotsInit /\ QuotaInit /\ MembershipInit /\ RemovalInit
    /\ plan = [i \in Campaigns |-> Draft]
    /\ MeetingInit /\ SiteInit /\ PolicyInit /\ GoogleInit /\ ListInit
    /\ TeamInit

Spec == Init /\ [][Next]_vars

TypeOK ==
    /\ call \in [Slots -> {Idle} \cup Calls]
    /\ calls \in 0..MaxCalls
    /\ restarts \in 0..MaxRestarts
    /\ QuotaTypeOK
    /\ MembershipTypeOK
    /\ RemovalTypeOK
    /\ PlanTypeOK
    /\ MeetingTypeOK
    /\ SiteTypeOK
    /\ PolicyTypeOK
    /\ GoogleTypeOK
    /\ ListTypeOK
    /\ TeamTypeOK

-----------------------------------------------------------------------------
\* How many there are: people who are members or invited to be, websites, and
\* the rows that were created one by one
Members ==
    Cardinality(Homes)
      + Cardinality(UNION {PendingFor(e) : e \in {e \in Emails : account[e] # Home}})

InUse(key) ==
    CASE key = "members" -> Members
      [] key = "websites" -> Cardinality(Websites)
      [] OTHER -> Cardinality(Live(key) \ imported)

(***************************************************************************)
(* There are never more of a kind than the highest limit that was ever in  *)
(* force, except one for each other handler that was past its check:       *)
(* assertWithinLimit counts first and the row is inserted later.  To       *)
(* accept an invitation that is revoked meanwhile, or to save a row that   *)
(* is deleted meanwhile, exceeds it no further.  Prospects that came by an *)
(* import or from a list were not checked, and do not count here.  Of the  *)
(* members there may be as many more as a count has overlooked, because    *)
(* they accepted between its two queries.                                  *)
(***************************************************************************)
Overlooked(key) == IF key = "members" THEN missed ELSE 0

QuotaOverrunBounded ==
    \A key \in Keys :
        ceiling[key] # Null =>
            InUse(key) <= ceiling[key] + Cardinality(Slots) - 1 + Overlooked(key)
=============================================================================
