--------------------------- MODULE WorkspaceSafety ---------------------------
(***************************************************************************)
(* Theorems about Workspace: what requests that interleave call by call,   *)
(* in as many handlers as one likes, cannot do to the rows of each part.   *)
(*                                                                         *)
(* The argument has the same shape for every part.  A handler makes only   *)
(* calls of the part its request is about, so that the requests of other   *)
(* parts leave the rows of this part and its handlers alone; and what a    *)
(* handler of this part is about to do still fits the rows as they are.    *)
(***************************************************************************)
EXTENDS Workspace, FiniteSetTheorems, TLAPS

QuotaOps == {"saveOrgLimits", "saveCaps"}

MembershipOps ==
    {"countMembers", "countPending", "countUsers", "findInvitee", "findInvitation",
     "saveInvitation", "markRevoked", "markExpired", "saveMember", "markAccepted",
     "createSession", "saveSession", "createOrganization", "createAccount",
     "deleteSession"}

RemovalOps ==
    {"insertItem", "importItems", "findPending", "saveRequest", "cancelPending",
     "removeItem", "saveItem", "findApproved", "commitApproval",
     "selectAnswered", "updateAnswered"}

PlanOps == {"saveSchedule", "saveRecipient", "saveCampaign", "saveTicked"}

GoalOps ==
    {"findToken", "refresh", "findConnection", "insertConnection",
     "selectConnection", "updateConnection"}

MeetingOps ==
    GoalOps \cup {"createEvent", "deleteEvent", "saveMeeting", "saveCancelled",
                  "deleteConnection"}

SiteOps == {"findDomain", "insertSite", "findOther", "saveSite", "deleteSite", "saveRuns"}

PolicyOps ==
    {"insertPolicy", "savePolicy", "removePolicy", "clearPairs", "insertPairs",
     "replaceAll"}

GoogleOps ==
    {"findAccount", "insertAccount", "updateAccount", "findSite", "saveLink",
     "insertProperty", "removeProperty", "countLinks", "deleteAccount",
     "countAccounts", "deleteApp", "saveApp"}

ListOps ==
    {"createList", "findMember", "findMembers", "insertRows", "findRow", "deleteRow"}

TeamOps ==
    {"savePerson", "insertPerson", "findRole", "clearRoleOf", "insertRoleOf",
     "insertRole", "clearGrants", "insertGrants", "saveRole", "removeRole"}

-----------------------------------------------------------------------------
\* Whose calls a handler makes

GoalKnown(c) ==
    c.op \in GoalOps => /\ "goal" \in DOMAIN c
                        /\ c.goal.do \in {"connect", "create", "cancel"}

\* A handler knows which call it makes next, and what it needs a token for.
Shape ==
    /\ call = [w \in Slots |-> call[w]]
    /\ \A w \in Slots : "op" \in DOMAIN call[w] /\ GoalKnown(call[w])

\* The handler in w makes one of these calls, or begins or ends with one.
Moves(w, Ops) ==
    /\ \A v \in Slots : v # w => call'[v] = call[v]
    /\ call[w].op \in Ops \cup {"idle"}
    /\ call'[w].op \in Ops \cup {"idle"}
    /\ calls' \in {calls, calls + 1} /\ restarts' = restarts

Entry(c, Ops) == "op" \in DOMAIN c /\ c.op \in Ops /\ GoalKnown(c)

LEMMA IdleKnown == "op" \in DOMAIN Idle /\ Idle.op = "idle" /\ GoalKnown(Idle)
BY DEF Idle, GoalKnown, GoalOps

\* A handler that makes another call with what it holds
LEMMA Renamed ==
    ASSUME NEW c, "op" \in DOMAIN c, NEW name, NEW d, d = [c EXCEPT !.op = name]
    PROVE  /\ DOMAIN d = DOMAIN c
           /\ d.op = name
           /\ \A f \in DOMAIN c : f # "op" => d[f] = c[f]
OBVIOUS

LEMMA Began ==
    ASSUME Shape, NEW w \in Slots, NEW c, NEW Ops, Begin(w, c), Entry(c, Ops)
    PROVE  Shape' /\ Moves(w, Ops) /\ call[w] = Idle /\ call'[w] = c
<1>1. /\ call' = [call EXCEPT ![w] = c]
      /\ call[w] = Idle
  BY DEF Begin
<1>2. call' = [v \in Slots |-> IF v = w THEN c ELSE call[v]]
  BY <1>1 DEF Shape
<1>3. call'[w] = c /\ \A v \in Slots : v # w => call'[v] = call[v]
  BY <1>2
<1>4. \A v \in Slots : "op" \in DOMAIN call'[v] /\ GoalKnown(call'[v])
  BY <1>3 DEF Shape, Entry
<1>5. calls' \in {calls, calls + 1} /\ restarts' = restarts
  BY DEF Begin
<1> QED  BY <1>1, <1>2, <1>3, <1>4, <1>5, IdleKnown DEF Shape, Moves, Entry, GoalKnown

LEMMA Went ==
    ASSUME Shape, NEW w \in Slots, NEW c, NEW Ops, GoOn(w, c), call[w].op \in Ops,
           Entry(c, Ops) \/ c = Idle
    PROVE  Shape' /\ Moves(w, Ops) /\ call'[w] = c
<1>1. call' = [call EXCEPT ![w] = c]
  BY DEF GoOn
<1>2. call' = [v \in Slots |-> IF v = w THEN c ELSE call[v]]
  BY <1>1 DEF Shape
<1>3. call'[w] = c /\ \A v \in Slots : v # w => call'[v] = call[v]
  BY <1>2
<1>4. "op" \in DOMAIN c /\ GoalKnown(c) /\ c.op \in Ops \cup {"idle"}
  BY IdleKnown DEF Entry
<1>5. \A v \in Slots : "op" \in DOMAIN call'[v] /\ GoalKnown(call'[v])
  BY <1>3, <1>4 DEF Shape
<1>6. calls' = calls /\ restarts' = restarts
  BY DEF GoOn
<1> QED  BY <1>2, <1>3, <1>4, <1>5, <1>6 DEF Shape, Moves, GoalKnown

\* The call that a handler makes next
LEMMA Makes ==
    ASSUME Shape, NEW w \in Slots, NEW c, Begin(w, c) \/ GoOn(w, c)
    PROVE  call'[w] = c
BY DEF Begin, GoOn, Shape

LEMMA Returned ==
    ASSUME Shape, NEW w \in Slots, NEW Ops, Return(w), call[w].op \in Ops
    PROVE  Shape' /\ Moves(w, Ops) /\ call'[w] = Idle
BY Went DEF Return

-----------------------------------------------------------------------------
LEMMA QuotaMoves ==
    ASSUME Shape, NEW w \in Slots, QuotaStep(w)
    PROVE  Shape' /\ Moves(w, QuotaOps)
<1>1. ASSUME NEW limits \in LimitInputs, UpdateOrgLimits(w, limits)
      PROVE  Shape' /\ Moves(w, QuotaOps)
  BY <1>1, Began DEF UpdateOrgLimits, Entry, GoalKnown, GoalOps, QuotaOps
<1>2. ASSUME NEW caps \in LimitInputs, UpdatePlatformCaps(w, caps)
      PROVE  Shape' /\ Moves(w, QuotaOps)
  BY <1>2, Began DEF UpdatePlatformCaps, Entry, GoalKnown, GoalOps, QuotaOps
<1>3. ASSUME SaveOrgLimits(w) \/ SaveCaps(w)
      PROVE  Shape' /\ Moves(w, QuotaOps)
  BY <1>3, Returned DEF SaveOrgLimits, SaveCaps, QuotaOps
<1> QED  BY <1>1, <1>2, <1>3 DEF QuotaStep

LEMMA MembershipMoves ==
    ASSUME Shape, NEW w \in Slots, MembershipStep(w)
    PROVE  Shape' /\ Moves(w, MembershipOps)
<1>1. ASSUME NEW e \in Emails, Invite(w, e)
      PROVE  Shape' /\ Moves(w, MembershipOps)
  <2>1. PICK limit : limit = EffectiveLimit("members", entitlements)
    OBVIOUS
  <2>2. \/ Begin(w, [op |-> "findInvitee", email |-> e])
        \/ Begin(w, [op |-> "countMembers", email |-> e, limit |-> limit])
    BY <1>1, <2>1 DEF Invite
  <2>3. Entry([op |-> "findInvitee", email |-> e], MembershipOps)
    BY DEF Entry, GoalKnown, GoalOps, MembershipOps
  <2>4. Entry([op |-> "countMembers", email |-> e, limit |-> limit], MembershipOps)
    BY DEF Entry, GoalKnown, GoalOps, MembershipOps
  <2> QED  BY <2>2, <2>3, <2>4, Began
<1>2. ASSUME NEW e \in Emails, NEW oauth \in BOOLEAN, StartSignup(w, e, oauth)
      PROVE  Shape' /\ Moves(w, MembershipOps)
  BY <1>2, Began DEF StartSignup, Entry, GoalKnown, GoalOps, MembershipOps
<1>3. ASSUME NEW i \in Invitations, Revoke(w, i)
      PROVE  Shape' /\ Moves(w, MembershipOps)
  BY <1>3, Began DEF Revoke, Entry, GoalKnown, GoalOps, MembershipOps
<1>4. ASSUME NEW i \in Invitations, FindLate(w, i)
      PROVE  Shape' /\ Moves(w, MembershipOps)
  BY <1>4, Began DEF FindLate, Entry, GoalKnown, GoalOps, MembershipOps
<1>5. ASSUME NEW i \in Invitations, Accept(w, i)
      PROVE  Shape' /\ Moves(w, MembershipOps)
  BY <1>5, Began DEF Accept, Entry, GoalKnown, GoalOps, MembershipOps
<1>6. ASSUME NEW s \in Sessions, SetCompany(w, s)
      PROVE  Shape' /\ Moves(w, MembershipOps)
  BY <1>6, Began DEF SetCompany, Prepare, Entry, GoalKnown, GoalOps, MembershipOps
<1>7. ASSUME NEW s \in Sessions, ResendOtp(w, s)
      PROVE  Shape' /\ Moves(w, MembershipOps)
  BY <1>7, Began DEF ResendOtp, Prepare, Entry, GoalKnown, GoalOps, MembershipOps
<1>8. ASSUME NEW s \in Sessions, VerifyOtp(w, s)
      PROVE  Shape' /\ Moves(w, MembershipOps)
  BY <1>8, Began DEF VerifyOtp, Prepare, Entry, GoalKnown, GoalOps, MembershipOps
<1>9. ASSUME NEW s \in Sessions, Complete(w, s)
      PROVE  Shape' /\ Moves(w, MembershipOps)
  BY <1>9, Began DEF Complete, Entry, GoalKnown, GoalOps, MembershipOps
<1>10. ASSUME FindInvitee(w)
      PROVE  Shape' /\ Moves(w, MembershipOps)
  BY <1>10, Went, Returned DEF FindInvitee, Entry, GoalKnown, GoalOps, MembershipOps
<1>11. ASSUME SaveMember(w)
      PROVE  Shape' /\ Moves(w, MembershipOps)
  BY <1>11, Went, Returned DEF SaveMember, Entry, GoalKnown, GoalOps, MembershipOps
<1>12. ASSUME CreateOrganization(w)
      PROVE  Shape' /\ Moves(w, MembershipOps)
  BY <1>12, Went, Returned DEF CreateOrganization, Entry, GoalKnown, GoalOps, MembershipOps
<1>13. ASSUME CreateAccount(w)
      PROVE  Shape' /\ Moves(w, MembershipOps)
  BY <1>13, Went, Returned DEF CreateAccount, Entry, GoalKnown, GoalOps, MembershipOps
<1>14. ASSUME SaveInvitation(w) \/ UpdateStatus(w) \/ CreateSession(w) \/ SaveSession(w) \/ DeleteSession(w)
      PROVE  Shape' /\ Moves(w, MembershipOps)
  BY <1>14, Returned DEF SaveInvitation, UpdateStatus, CreateSession, SaveSession, DeleteSession, MembershipOps
<1>15. ASSUME CountUsersFirst(w) \/ CountPendingFirst(w)
      PROVE  Shape' /\ Moves(w, MembershipOps)
  BY <1>15, Went DEF CountUsersFirst, CountPendingFirst, Entry, GoalKnown, GoalOps, MembershipOps
<1>16. ASSUME CountPending(w) \/ CountUsers(w)
      PROVE  Shape' /\ Moves(w, MembershipOps)
  <2>1. call[w].op \in MembershipOps /\ (Admit(w) \/ Return(w))
    BY <1>16 DEF CountPending, CountUsers, MembershipOps
  <2> QED  BY <2>1, Went, Returned DEF Admit, Entry, GoalKnown, GoalOps, MembershipOps
<1>17. ASSUME FindInvitation(w)
      PROVE  Shape' /\ Moves(w, MembershipOps)
  BY <1>17, Went, Returned DEF FindInvitation, Entry, GoalKnown, GoalOps, MembershipOps
<1> QED  BY <1>1, <1>2, <1>3, <1>4, <1>5, <1>6, <1>7, <1>8, <1>9, <1>10, <1>11, <1>12, <1>13, <1>14,
            <1>15, <1>16, <1>17 DEF MembershipStep

LEMMA RowMoves ==
    ASSUME Shape, NEW w \in Slots, RowStep(w)
    PROVE  Shape' /\ Moves(w, RemovalOps)
<1>1. ASSUME NEW key \in Keys, CreateItem(w, key)
      PROVE  Shape' /\ Moves(w, RemovalOps)
  BY <1>1, Began DEF CreateItem, Entry, GoalKnown, GoalOps, RemovalOps
<1>2. ASSUME NEW i \in Items, DeleteItem(w, i)
      PROVE  Shape' /\ Moves(w, RemovalOps)
  BY <1>2, Began DEF DeleteItem, Entry, GoalKnown, GoalOps, RemovalOps
<1>3. ASSUME NEW i \in Items, UpdateItem(w, i)
      PROVE  Shape' /\ Moves(w, RemovalOps)
  BY <1>3, Began DEF UpdateItem, Entry, GoalKnown, GoalOps, RemovalOps
<1>4. ASSUME CancelPending(w)
      PROVE  Shape' /\ Moves(w, RemovalOps)
  BY <1>4, Went, Returned DEF CancelPending, Entry, GoalKnown, GoalOps, RemovalOps
<1>5. ASSUME InsertItem(w) \/ SaveItem(w) \/ RemoveItem(w)
      PROVE  Shape' /\ Moves(w, RemovalOps)
  BY <1>5, Returned DEF InsertItem, SaveItem, RemoveItem, RemovalOps
<1> QED  BY <1>1, <1>2, <1>3, <1>4, <1>5 DEF RowStep

LEMMA RequestMoves ==
    ASSUME Shape, NEW w \in Slots, RequestStep(w)
    PROVE  Shape' /\ Moves(w, RemovalOps)
<1>1. ASSUME NEW i \in Items, AskDelete(w, i)
      PROVE  Shape' /\ Moves(w, RemovalOps)
  BY <1>1, Began DEF AskDelete, Entry, GoalKnown, GoalOps, RemovalOps
<1>2. ASSUME NEW r \in Requests, Approve(w, r)
      PROVE  Shape' /\ Moves(w, RemovalOps)
  BY <1>2, Began DEF Approve, Entry, GoalKnown, GoalOps, RemovalOps
<1>3. ASSUME NEW r \in Requests, NEW answer \in {"rejected", "cancelled"}, Answer(w, r, answer)
      PROVE  Shape' /\ Moves(w, RemovalOps)
  BY <1>3, Began DEF Answer, Entry, GoalKnown, GoalOps, RemovalOps
<1>4. ASSUME FindPending(w)
      PROVE  Shape' /\ Moves(w, RemovalOps)
  BY <1>4, Went, Returned DEF FindPending, Entry, GoalKnown, GoalOps, RemovalOps
<1>5. ASSUME FindApproved(w)
      PROVE  Shape' /\ Moves(w, RemovalOps)
  BY <1>5, Went, Returned DEF FindApproved, Shape, Entry, GoalKnown, GoalOps, RemovalOps
<1>6. ASSUME SelectAnswered(w)
      PROVE  Shape' /\ Moves(w, RemovalOps)
  <2>1. PICK c : c = [call[w] EXCEPT !.op = "updateAnswered"]
    OBVIOUS
  <2>2. "op" \in DOMAIN c /\ c.op = "updateAnswered"
    BY <2>1, Renamed DEF Shape
  <2>3. Entry(c, RemovalOps)
    BY <2>2 DEF Entry, GoalKnown, GoalOps, RemovalOps
  <2>4. (GoOn(w, c) \/ Return(w)) /\ call[w].op \in RemovalOps
    BY <1>6, <2>1 DEF SelectAnswered, RemovalOps
  <2> QED  BY <2>3, <2>4, Went, Returned
<1>7. ASSUME SaveRequest(w) \/ CommitApproval(w) \/ UpdateAnswered(w)
      PROVE  Shape' /\ Moves(w, RemovalOps)
  BY <1>7, Returned DEF SaveRequest, CommitApproval, UpdateAnswered, RemovalOps
<1> QED  BY <1>1, <1>2, <1>3, <1>4, <1>5, <1>6, <1>7 DEF RequestStep

LEMMA ImportMoves ==
    ASSUME Shape, NEW w \in Slots, ImportStep(w)
    PROVE  Shape' /\ Moves(w, RemovalOps)
<1>1. ASSUME ImportItems(w)
      PROVE  Shape' /\ Moves(w, RemovalOps)
  BY <1>1, Began DEF ImportItems, Entry, GoalKnown, GoalOps, RemovalOps
<1>2. ASSUME InsertImported(w)
      PROVE  Shape' /\ Moves(w, RemovalOps)
  BY <1>2, Returned DEF InsertImported, RemovalOps
<1> QED  BY <1>1, <1>2 DEF ImportStep

LEMMA PlanMoves ==
    ASSUME Shape, NEW w \in Slots, PlanStep(w)
    PROVE  Shape' /\ Moves(w, PlanOps)
<1>1. ASSUME NEW i \in Campaigns, NEW c \in Calendars, NEW n \in Audiences, Schedule(w, i, c, n)
      PROVE  Shape' /\ Moves(w, PlanOps)
  BY <1>1, Began DEF Schedule, Entry, GoalKnown, GoalOps, PlanOps
<1>2. ASSUME NEW i \in Campaigns, AddRecipient(w, i)
      PROVE  Shape' /\ Moves(w, PlanOps)
  BY <1>2, Began DEF AddRecipient, Entry, GoalKnown, GoalOps, PlanOps
<1>3. ASSUME NEW i \in Campaigns, UpdateCampaign(w, i)
      PROVE  Shape' /\ Moves(w, PlanOps)
  BY <1>3, Began DEF UpdateCampaign, Entry, GoalKnown, GoalOps, PlanOps
<1>4. ASSUME SaveSchedule(w) \/ SaveRecipient(w) \/ SaveCampaign(w)
      PROVE  Shape' /\ Moves(w, PlanOps)
  BY <1>4, Returned DEF SaveSchedule, SaveRecipient, SaveCampaign, PlanOps
<1>5. ASSUME NEW i \in Campaigns, TickCampaign(w, i)
      PROVE  Shape' /\ Moves(w, PlanOps)
  BY <1>5, Began DEF TickCampaign, Entry, GoalKnown, GoalOps, PlanOps
<1>6. ASSUME SaveTicked(w)
      PROVE  Shape' /\ Moves(w, PlanOps)
  <2>1. CASE UNCHANGED slotVars
    BY <1>6, <2>1 DEF SaveTicked, slotVars, Shape, GoalKnown, Moves, PlanOps
  <2> QED  BY <1>6, <2>1, Returned DEF SaveTicked, PlanOps
<1> QED  BY <1>1, <1>2, <1>3, <1>4, <1>5, <1>6 DEF PlanStep

LEMMA SiteMoves ==
    ASSUME Shape, NEW w \in Slots, SiteStep(w)
    PROVE  Shape' /\ Moves(w, SiteOps)
<1>1. ASSUME NEW row \in SiteRows, CreateSite(w, row)
      PROVE  Shape' /\ Moves(w, SiteOps)
  BY <1>1, Began DEF CreateSite, Entry, GoalKnown, GoalOps, SiteOps
<1>2. ASSUME NEW row \in SiteRows, NEW s \in Sites, UpdateSite(w, s, row)
      PROVE  Shape' /\ Moves(w, SiteOps)
  BY <1>2, Began DEF UpdateSite, Entry, GoalKnown, GoalOps, SiteOps
<1>3. ASSUME NEW s \in Sites, DeleteSite(w, s)
      PROVE  Shape' /\ Moves(w, SiteOps)
  BY <1>3, Began DEF DeleteSite, Entry, GoalKnown, GoalOps, SiteOps
<1>4. ASSUME NEW sites, TriggerAudit(w, sites)
      PROVE  Shape' /\ Moves(w, SiteOps)
  BY <1>4, Began DEF TriggerAudit, Entry, GoalKnown, GoalOps, SiteOps
<1>5. ASSUME MonthlyAudits(w)
      PROVE  Shape' /\ Moves(w, SiteOps)
  BY <1>5, Began DEF MonthlyAudits, Entry, GoalKnown, GoalOps, SiteOps
<1>6. ASSUME NEW s \in Sites, SaveRun(w, s)
      PROVE  Shape' /\ Moves(w, SiteOps)
  BY <1>6, Went, Returned DEF SaveRun, Shape, Entry, GoalKnown, GoalOps, SiteOps
<1>7. ASSUME FindDomain(w)
      PROVE  Shape' /\ Moves(w, SiteOps)
  BY <1>7, Went, Returned DEF FindDomain, Shape, Entry, GoalKnown, GoalOps, SiteOps
<1>8. ASSUME FindOther(w)
      PROVE  Shape' /\ Moves(w, SiteOps)
  BY <1>8, Went, Returned DEF FindOther, Shape, Entry, GoalKnown, GoalOps, SiteOps
<1>9. ASSUME InsertSite(w) \/ SaveSite(w) \/ RemoveSite(w)
      PROVE  Shape' /\ Moves(w, SiteOps)
  BY <1>9, Returned DEF InsertSite, SaveSite, RemoveSite, SiteOps
<1> QED  BY <1>1, <1>2, <1>3, <1>4, <1>5, <1>6, <1>7, <1>8, <1>9 DEF SiteStep

LEMMA PolicyMoves ==
    ASSUME Shape, NEW w \in Slots, PolicyStep(w)
    PROVE  Shape' /\ Moves(w, PolicyOps)
<1>1. ASSUME NEW row \in PolicyInputs, NEW users \in SUBSET Users, CreatePolicy(w, row, users)
      PROVE  Shape' /\ Moves(w, PolicyOps)
  BY <1>1, Began DEF CreatePolicy, Entry, GoalKnown, GoalOps, PolicyOps
<1>2. ASSUME NEW p \in Policies, NEW row \in PolicyInputs, NEW given, NEW users, UpdatePolicy(w, p, row, given, users)
      PROVE  Shape' /\ Moves(w, PolicyOps)
  BY <1>2, Began DEF UpdatePolicy, Entry, GoalKnown, GoalOps, PolicyOps
<1>3. ASSUME NEW p \in Policies, DeletePolicy(w, p)
      PROVE  Shape' /\ Moves(w, PolicyOps)
  BY <1>3, Began DEF DeletePolicy, Entry, GoalKnown, GoalOps, PolicyOps
<1>4. ASSUME NEW u \in Users, NEW policies \in SUBSET Policies, AssignToUser(w, u, policies)
      PROVE  Shape' /\ Moves(w, PolicyOps)
  BY <1>4, Began DEF AssignToUser, Entry, GoalKnown, GoalOps, PolicyOps
<1>5. ASSUME NEW users, NEW policies, NEW mode, BulkAssign(w, users, policies, mode)
      PROVE  Shape' /\ Moves(w, PolicyOps)
  BY <1>5, Began DEF BulkAssign, Entry, GoalKnown, GoalOps, PolicyOps
<1>6. ASSUME InsertPolicy(w)
      PROVE  Shape' /\ Moves(w, PolicyOps)
  BY <1>6, Went, Returned DEF InsertPolicy, Replace, Entry, GoalKnown, GoalOps, PolicyOps
<1>7. ASSUME SavePolicy(w)
      PROVE  Shape' /\ Moves(w, PolicyOps)
  BY <1>7, Went, Returned DEF SavePolicy, Replace, Entry, GoalKnown, GoalOps, PolicyOps
<1>8. ASSUME ClearPairs(w)
      PROVE  Shape' /\ Moves(w, PolicyOps)
  BY <1>8, Went, Returned DEF ClearPairs, Entry, GoalKnown, GoalOps, PolicyOps
<1>9. ASSUME RemovePolicy(w) \/ InsertPairs(w) \/ ReplaceAll(w)
      PROVE  Shape' /\ Moves(w, PolicyOps)
  BY <1>9, Returned DEF RemovePolicy, InsertPairs, ReplaceAll, PolicyOps
<1> QED  BY <1>1, <1>2, <1>3, <1>4, <1>5, <1>6, <1>7, <1>8, <1>9 DEF PolicyStep

LEMMA GoogleMoves ==
    ASSUME Shape, NEW w \in Slots, GoogleStep(w)
    PROVE  Shape' /\ Moves(w, GoogleOps)
<1>1. ASSUME NEW row \in GoogleRows, NEW for \in Built \cup {NoLink}, Callback(w, row, for)
      PROVE  Shape' /\ Moves(w, GoogleOps)
  BY <1>1, Began DEF Callback, Entry, GoalKnown, GoalOps, GoogleOps
<1>2. ASSUME NEW c \in LinkIds, RefreshAccount(w, c)
      PROVE  Shape' /\ Moves(w, GoogleOps)
  BY <1>2, Began DEF RefreshAccount, Entry, GoalKnown, GoalOps, GoogleOps
<1>3. ASSUME NEW c \in LinkIds, DeleteOrganizationConnection(w, c)
      PROVE  Shape' /\ Moves(w, GoogleOps)
  BY <1>3, Began DEF DeleteOrganizationConnection, Entry, GoalKnown, GoalOps, GoogleOps
<1>4. ASSUME NEW c \in LinkIds, CreateProperty(w, c)
      PROVE  Shape' /\ Moves(w, GoogleOps)
  BY <1>4, Began DEF CreateProperty, Entry, GoalKnown, GoalOps, GoogleOps
<1>5. ASSUME NEW c \in LinkIds, NEW p \in PropertyIds, AssignConnection(w, p, c)
      PROVE  Shape' /\ Moves(w, GoogleOps)
  BY <1>5, Began DEF AssignConnection, Entry, GoalKnown, GoalOps, GoogleOps
<1>6. ASSUME NEW p \in PropertyIds, DisconnectProperty(w, p)
      PROVE  Shape' /\ Moves(w, GoogleOps)
  BY <1>6, Began DEF DisconnectProperty, Entry, GoalKnown, GoalOps, GoogleOps
<1>7. ASSUME NEW p \in PropertyIds, EditProperty(w, p)
      PROVE  Shape' /\ Moves(w, GoogleOps)
  BY <1>7, Began DEF EditProperty, Entry, GoalKnown, GoalOps, GoogleOps
<1>8. ASSUME NEW p \in PropertyIds, DeleteProperty(w, p)
      PROVE  Shape' /\ Moves(w, GoogleOps)
  BY <1>8, Began DEF DeleteProperty, Entry, GoalKnown, GoalOps, GoogleOps
<1>9. ASSUME NEW a \in Apps, DeleteApp(w, a)
      PROVE  Shape' /\ Moves(w, GoogleOps)
  BY <1>9, Began DEF DeleteApp, Entry, GoalKnown, GoalOps, GoogleOps
<1>10. ASSUME NEW a \in Apps, UpdateApp(w, a)
      PROVE  Shape' /\ Moves(w, GoogleOps)
  BY <1>10, Began DEF UpdateApp, Entry, GoalKnown, GoalOps, GoogleOps
<1>11. ASSUME FindAccount(w)
      PROVE  Shape' /\ Moves(w, GoogleOps)
  <2>1. call[w].op \in GoogleOps
    BY <1>11 DEF FindAccount, GoogleOps
  <2>2. PICK c : c = [call[w] EXCEPT !.op = "insertAccount"]
    OBVIOUS
  <2>3. "op" \in DOMAIN c /\ c.op = "insertAccount"
    BY <2>2, Renamed DEF Shape
  <2>4. Entry(c, GoogleOps)
    BY <2>3 DEF Entry, GoalKnown, GoalOps, GoogleOps
  <2>5. \/ GoOn(w, c)
        \/ \E k : GoOn(w, [op |-> "updateAccount", id |-> k, row |-> call[w].row,
                          for |-> call[w].for])
    BY <1>11, <2>2 DEF FindAccount
  <2>6. ASSUME NEW k, GoOn(w, [op |-> "updateAccount", id |-> k, row |-> call[w].row,
                               for |-> call[w].for])
        PROVE  Shape' /\ Moves(w, GoogleOps)
    BY <2>1, <2>6, Went DEF Entry, GoalKnown, GoalOps, GoogleOps
  <2> QED  BY <2>1, <2>4, <2>5, <2>6, Went
<1>12. ASSUME InsertAccount(w)
      PROVE  Shape' /\ Moves(w, GoogleOps)
  BY <1>12, Went, Returned DEF InsertAccount, Store, Stored, Entry, GoalKnown, GoalOps, GoogleOps
<1>13. ASSUME UpdateAccount(w)
      PROVE  Shape' /\ Moves(w, GoogleOps)
  BY <1>13, Went, Returned DEF UpdateAccount, Store, Stored, Entry, GoalKnown, GoalOps, GoogleOps
<1>14. ASSUME FindSite(w)
      PROVE  Shape' /\ Moves(w, GoogleOps)
  BY <1>14, Went, Returned DEF FindSite, Entry, GoalKnown, GoalOps, GoogleOps
<1>15. ASSUME CountLinks(w)
      PROVE  Shape' /\ Moves(w, GoogleOps)
  BY <1>15, Went, Returned DEF CountLinks, Entry, GoalKnown, GoalOps, GoogleOps
<1>16. ASSUME CountAccounts(w)
      PROVE  Shape' /\ Moves(w, GoogleOps)
  BY <1>16, Went, Returned DEF CountAccounts, Shape, Entry, GoalKnown, GoalOps, GoogleOps
<1>17. ASSUME SaveLink(w) \/ InsertProperty(w) \/ RemoveProperty(w) \/ DeleteAccount(w) \/ RemoveApp(w) \/ SaveApp(w)
      PROVE  Shape' /\ Moves(w, GoogleOps)
  BY <1>17, Returned DEF SaveLink, InsertProperty, RemoveProperty, DeleteAccount, RemoveApp, SaveApp, GoogleOps
<1> QED  BY <1>1, <1>2, <1>3, <1>4, <1>5, <1>6, <1>7, <1>8, <1>9, <1>10, <1>11, <1>12, <1>13, <1>14, <1>15, <1>16, <1>17 DEF GoogleStep

LEMMA ListMoves ==
    ASSUME Shape, NEW w \in Slots, ListStep(w)
    PROVE  Shape' /\ Moves(w, ListOps)
<1>1. ASSUME NEW kind \in {"contact", "manual"}, NEW emails \in SUBSET Contacts, CreateList(w, kind, emails)
      PROVE  Shape' /\ Moves(w, ListOps)
  BY <1>1, Began DEF CreateList, Entry, GoalKnown, GoalOps, ListOps
<1>2. ASSUME NEW l \in ListIds, NEW emails \in SUBSET Contacts, NEW one \in BOOLEAN, AddRows(w, l, emails, one)
      PROVE  Shape' /\ Moves(w, ListOps)
  BY <1>2, Began DEF AddRows, Entry, GoalKnown, GoalOps, ListOps
<1>3. ASSUME NEW r \in rows, RemoveRow(w, r)
      PROVE  Shape' /\ Moves(w, ListOps)
  BY <1>3, Began DEF RemoveRow, Entry, GoalKnown, GoalOps, ListOps
<1>4. ASSUME FindMember(w)
      PROVE  Shape' /\ Moves(w, ListOps)
  BY <1>4, Went, Returned DEF FindMember, Shape, Entry, GoalKnown, GoalOps, ListOps
<1>5. ASSUME FindMembers(w)
      PROVE  Shape' /\ Moves(w, ListOps)
  <2>1. call[w].op \in ListOps
    BY <1>5 DEF FindMembers, ListOps
  <2>2. PICK c : c = [call[w] EXCEPT !.op = "insertRows",
                                     !.emails = @ \ Listed(call[w].list),
                                     !.from = Cardinality(RowsOf(call[w].list)),
                                     !.at = changes[call[w].list]]
    OBVIOUS
  <2>3. "op" \in DOMAIN c /\ c.op = "insertRows"
    BY <2>2 DEF Shape
  <2>4. Entry(c, ListOps)
    BY <2>3 DEF Entry, GoalKnown, GoalOps, ListOps
  <2>5. GoOn(w, c)
    BY <1>5, <2>2 DEF FindMembers
  <2> QED  BY <2>1, <2>4, <2>5, Went
<1>6. ASSUME FindRow(w)
      PROVE  Shape' /\ Moves(w, ListOps)
  BY <1>6, Went, Returned DEF FindRow, Shape, Entry, GoalKnown, GoalOps, ListOps
<1>7. ASSUME InsertList(w) \/ InsertRows(w) \/ DeleteRow(w)
      PROVE  Shape' /\ Moves(w, ListOps)
  BY <1>7, Returned DEF InsertList, InsertRows, DeleteRow, ListOps
<1> QED  BY <1>1, <1>2, <1>3, <1>4, <1>5, <1>6, <1>7 DEF ListStep

LEMMA TeamMoves ==
    ASSUME Shape, NEW w \in Slots, TeamStep(w)
    PROVE  Shape' /\ Moves(w, TeamOps)
<1>1. ASSUME NEW p \in People, NEW status, UpdateTeamMemberStatus(w, p, status)
      PROVE  Shape' /\ Moves(w, TeamOps)
  BY <1>1, Began DEF UpdateTeamMemberStatus, BeginAbout, SavePersonOf, Entry, GoalKnown, GoalOps, TeamOps
<1>2. ASSUME NEW p \in People, NEW roles, UpdateLevel(w, p, roles)
      PROVE  Shape' /\ Moves(w, TeamOps)
  BY <1>2, Began DEF UpdateLevel, BeginAbout, SavePersonOf, Entry, GoalKnown, GoalOps, TeamOps
<1>3. ASSUME NEW p \in People, LinkIdentity(w, p)
      PROVE  Shape' /\ Moves(w, TeamOps)
  BY <1>3, Began DEF LinkIdentity, BeginAbout, SavePersonOf, Entry, GoalKnown, GoalOps, TeamOps
<1>4. ASSUME NEW p \in People, NEW r \in Roles, UpdateRoleOf(w, p, r)
      PROVE  Shape' /\ Moves(w, TeamOps)
  BY <1>4, Began DEF UpdateRoleOf, BeginAbout, Entry, GoalKnown, GoalOps, TeamOps
<1>5. ASSUME NEW p \in People, NEW r \in Roles, AcceptAs(w, p, r)
      PROVE  Shape' /\ Moves(w, TeamOps)
  BY <1>5, Began DEF AcceptAs, BeginAbout, Entry, GoalKnown, GoalOps, TeamOps
<1>6. ASSUME NEW permissions, CreateRole(w, permissions)
      PROVE  Shape' /\ Moves(w, TeamOps)
  BY <1>6, Began DEF CreateRole, BeginAbout, Entry, GoalKnown, GoalOps, TeamOps
<1>7. ASSUME NEW permissions, NEW r \in Roles, UpdateRole(w, r, permissions)
      PROVE  Shape' /\ Moves(w, TeamOps)
  BY <1>7, Began DEF UpdateRole, BeginAbout, ReplaceGrants, Entry, GoalKnown, GoalOps, TeamOps
<1>8. ASSUME NEW r \in Roles, DeleteRole(w, r)
      PROVE  Shape' /\ Moves(w, TeamOps)
  BY <1>8, Began DEF DeleteRole, BeginAbout, Entry, GoalKnown, GoalOps, TeamOps
<1>9. ASSUME SavePerson(w)
      PROVE  Shape' /\ Moves(w, TeamOps)
  <2>1. call[w].op \in TeamOps
    BY <1>9 DEF SavePerson, TeamOps
  <2>2. \/ Return(w)
        \/ \E r : GoOn(w, [op |-> "findRole", about |-> call[w].about,
                          person |-> call[w].person, role |-> r])
    BY <1>9 DEF SavePerson
  <2>3. ASSUME NEW r, GoOn(w, [op |-> "findRole", about |-> call[w].about,
                               person |-> call[w].person, role |-> r])
        PROVE  Shape' /\ Moves(w, TeamOps)
    BY <2>1, <2>3, Went DEF Entry, GoalKnown, GoalOps, TeamOps
  <2> QED  BY <2>1, <2>2, <2>3, Returned
<1>10. ASSUME FindRole(w)
      PROVE  Shape' /\ Moves(w, TeamOps)
  BY <1>10, Went, Returned DEF FindRole, Shape, Entry, GoalKnown, GoalOps, TeamOps
<1>11. ASSUME ClearRoleOf(w)
      PROVE  Shape' /\ Moves(w, TeamOps)
  BY <1>11, Went, Returned DEF ClearRoleOf, Shape, Entry, GoalKnown, GoalOps, TeamOps
<1>12. ASSUME InsertPerson(w)
      PROVE  Shape' /\ Moves(w, TeamOps)
  BY <1>12, Went, Returned DEF InsertPerson, Shape, Entry, GoalKnown, GoalOps, TeamOps
<1>13. ASSUME InsertRole(w)
      PROVE  Shape' /\ Moves(w, TeamOps)
  BY <1>13, Went, Returned DEF InsertRole, ReplaceGrants, Entry, GoalKnown, GoalOps, TeamOps
<1>14. ASSUME ClearGrants(w)
      PROVE  Shape' /\ Moves(w, TeamOps)
  BY <1>14, Went, Returned DEF ClearGrants, Shape, Entry, GoalKnown, GoalOps, TeamOps
<1>15. ASSUME InsertGrants(w)
      PROVE  Shape' /\ Moves(w, TeamOps)
  BY <1>15, Went, Returned DEF InsertGrants, Shape, Entry, GoalKnown, GoalOps, TeamOps
<1>16. ASSUME InsertRoleOf(w) \/ SaveRole(w) \/ RemoveRole(w)
      PROVE  Shape' /\ Moves(w, TeamOps)
  BY <1>16, Returned DEF InsertRoleOf, SaveRole, RemoveRole, TeamOps
<1> QED  BY <1>1, <1>2, <1>3, <1>4, <1>5, <1>6, <1>7, <1>8, <1>9, <1>10, <1>11, <1>12, <1>13, <1>14, <1>15, <1>16 DEF TeamStep

\* What a handler goes on with once it has its token
LEMMA TokenCalls ==
    ASSUME NEW goal, goal.do \in {"connect", "create", "cancel"}, NEW a
    PROVE  WithToken(a, goal) = Idle \/ Entry(WithToken(a, goal), MeetingOps)
<1>1. CASE goal.do = "connect"
  BY <1>1 DEF WithToken
<1>2. CASE goal.do = "create"
  <2>1. WithToken(a, goal) = [op |-> "createEvent", account |-> a, goal |-> goal]
    BY <1>2 DEF WithToken
  <2> QED  BY <2>1 DEF Entry, GoalKnown, GoalOps, MeetingOps
<1>3. CASE goal.do = "cancel"
  <2>1. WithToken(a, goal) = [op |-> "deleteEvent", account |-> a, goal |-> goal]
    BY <1>3 DEF WithToken
  <2> QED  BY <2>1 DEF Entry, GoalKnown, GoalOps, MeetingOps
<1> QED  BY <1>1, <1>2, <1>3

LEMMA InsertRowMoves ==
    ASSUME Shape, NEW w \in Slots, call[w].op \in GoalOps, NEW id, InsertRow(w, id)
    PROVE  Shape' /\ Moves(w, MeetingOps)
<1>1. call[w].op \in MeetingOps /\ call[w].goal.do \in {"connect", "create", "cancel"}
  BY DEF MeetingOps, Shape, GoalKnown
<1>2. GoOn(w, WithToken(call[w].new.token, call[w].goal)) \/ Return(w)
  BY DEF InsertRow, Saved
<1> QED  BY <1>1, <1>2, TokenCalls, Went, Returned

LEMMA MeetingMoves ==
    ASSUME Shape, NEW w \in Slots, MeetingStep(w)
    PROVE  Shape' /\ Moves(w, MeetingOps)
<1>1. ASSUME NEW a \in Accounts, Connect(w, a)
      PROVE  Shape' /\ Moves(w, MeetingOps)
  BY <1>1, Began DEF Connect, Entry, GoalKnown, GoalOps, MeetingOps
<1>2. ASSUME NEW i \in Items, ScheduleMeeting(w, i)
      PROVE  Shape' /\ Moves(w, MeetingOps)
  BY <1>2, Began DEF ScheduleMeeting, Entry, GoalKnown, GoalOps, MeetingOps
<1>3. ASSUME NEW m \in MeetingIds, NEW creator \in BOOLEAN, Cancel(w, m, creator)
      PROVE  Shape' /\ Moves(w, MeetingOps)
  BY <1>3, Began DEF Cancel, Entry, GoalKnown, GoalOps, MeetingOps
<1>4. ASSUME Disconnect(w)
      PROVE  Shape' /\ Moves(w, MeetingOps)
  BY <1>4, Began DEF Disconnect, Entry, GoalKnown, GoalOps, MeetingOps
<1>5. ASSUME FindConnection(w)
      PROVE  Shape' /\ Moves(w, MeetingOps)
  BY <1>5, Went, Returned DEF FindConnection, Shape, Entry, GoalKnown, GoalOps, MeetingOps
<1>6. ASSUME InsertConnection(w)
      PROVE  Shape' /\ Moves(w, MeetingOps)
  BY <1>6, InsertRowMoves DEF InsertConnection, GoalOps
<1>7. ASSUME SelectConnection(w)
      PROVE  Shape' /\ Moves(w, MeetingOps)
  BY <1>7, Went, Returned DEF SelectConnection, Shape, Entry, GoalKnown, GoalOps, MeetingOps
<1>8. ASSUME UpdateConnection(w)
      PROVE  Shape' /\ Moves(w, MeetingOps)
  <2>1. call[w].op \in GoalOps
    BY <1>8 DEF UpdateConnection, GoalOps
  <2>2. call[w].op \in MeetingOps /\ call[w].goal.do \in {"connect", "create", "cancel"}
    BY <2>1 DEF MeetingOps, Shape, GoalKnown
  <2>3. InsertRow(w, call[w].id) \/ GoOn(w, WithToken(call[w].new.token, call[w].goal))
    BY <1>8 DEF UpdateConnection, Saved
  <2> QED  BY <2>1, <2>2, <2>3, InsertRowMoves, TokenCalls, Went
<1>9. ASSUME FindToken(w)
      PROVE  Shape' /\ Moves(w, MeetingOps)
  <2>1. call[w].op \in MeetingOps /\ call[w].goal.do \in {"connect", "create", "cancel"}
    BY <1>9 DEF FindToken, MeetingOps, GoalOps, Shape, GoalKnown
  <2>2. PICK c : c = [op |-> "refresh", goal |-> call[w].goal,
                      new |-> [email |-> connection.email,
                               token |-> connection.token, since |-> revision]]
    OBVIOUS
  <2>3. Entry(c, MeetingOps)
    BY <2>1, <2>2 DEF Entry, GoalKnown, GoalOps, MeetingOps
  <2>4. Return(w) \/ GoOn(w, WithToken(connection.token, call[w].goal)) \/ GoOn(w, c)
    BY <1>9, <2>2 DEF FindToken
  <2> QED  BY <2>1, <2>3, <2>4, TokenCalls, Went, Returned
<1>10. ASSUME Refresh(w)
      PROVE  Shape' /\ Moves(w, MeetingOps)
  BY <1>10, Went, Returned DEF Refresh, Shape, Entry, GoalKnown, GoalOps, MeetingOps
<1>11. ASSUME CreateEvent(w)
      PROVE  Shape' /\ Moves(w, MeetingOps)
  BY <1>11, Went, Returned DEF CreateEvent, Entry, GoalKnown, GoalOps, MeetingOps
<1>12. ASSUME DeleteEvent(w)
      PROVE  Shape' /\ Moves(w, MeetingOps)
  BY <1>12, Went, Returned DEF DeleteEvent, Entry, GoalKnown, GoalOps, MeetingOps
<1>13. ASSUME DeleteConnection(w) \/ SaveMeeting(w) \/ SaveCancelled(w)
      PROVE  Shape' /\ Moves(w, MeetingOps)
  BY <1>13, Returned DEF DeleteConnection, SaveMeeting, SaveCancelled, MeetingOps, GoalOps
<1> QED  BY <1>1, <1>2, <1>3, <1>4, <1>5, <1>6, <1>7, <1>8, <1>9, <1>10, <1>11, <1>12, <1>13 DEF MeetingStep

-----------------------------------------------------------------------------
(* What the requests of one part leave to the others                       *)

AllOps ==
    {QuotaOps, MembershipOps, RemovalOps, PlanOps, MeetingOps, SiteOps, PolicyOps,
     GoogleOps, ListOps, TeamOps}

\* No handler makes one of these calls, or begins or ends with one.
Elsewhere(Ops) ==
    \A v \in Slots : \/ call'[v] = call[v]
                     \/ call[v].op \notin Ops /\ call'[v].op \notin Ops

Removes(w) == RowStep(w) \/ RequestStep(w) \/ ImportStep(w)

\* What the step of the handler in w is, if its calls are those of Ops
StepOf(w, Ops) ==
    /\ IF Ops = QuotaOps THEN QuotaStep(w) ELSE UNCHANGED quotaVars
    /\ IF Ops = MembershipOps THEN MembershipStep(w) ELSE UNCHANGED membershipVars
    /\ IF Ops = RemovalOps THEN Removes(w) /\ PlansCascade /\ MeetingsCascade
       ELSE IF Ops = PlanOps THEN PlanStep(w)
       ELSE UNCHANGED <<removalVars, plan>>
    /\ IF Ops = MeetingOps THEN MeetingStep(w)
       ELSE Ops # RemovalOps => UNCHANGED meetingVars
    /\ IF Ops = SiteOps THEN SiteStep(w) ELSE UNCHANGED siteVars
    /\ IF Ops = PolicyOps THEN PolicyStep(w) ELSE UNCHANGED policyVars
    /\ IF Ops = GoogleOps THEN GoogleStep(w) ELSE UNCHANGED googleVars
    /\ IF Ops = ListOps THEN ListStep(w) ELSE UNCHANGED listVars
    /\ IF Ops = TeamOps THEN TeamStep(w) ELSE UNCHANGED teamVars

LEMMA OpsApart ==
    /\ \A Mine, Theirs \in AllOps : Mine # Theirs => Mine \cap Theirs = {}
    /\ \A Mine \in AllOps : "idle" \notin Mine
BY DEF AllOps, QuotaOps, MembershipOps, RemovalOps, PlanOps, GoalOps, MeetingOps,
       SiteOps, PolicyOps, GoogleOps, ListOps, TeamOps

LEMMA OpsDistinct ==
    /\ QuotaOps \notin {MembershipOps, RemovalOps, PlanOps, MeetingOps, SiteOps,
                        PolicyOps, GoogleOps, ListOps, TeamOps}
    /\ MembershipOps \notin {RemovalOps, PlanOps, MeetingOps, SiteOps, PolicyOps,
                             GoogleOps, ListOps, TeamOps}
    /\ RemovalOps \notin {PlanOps, MeetingOps, SiteOps, PolicyOps, GoogleOps,
                          ListOps, TeamOps}
    /\ PlanOps \notin {MeetingOps, SiteOps, PolicyOps, GoogleOps, ListOps, TeamOps}
    /\ MeetingOps \notin {SiteOps, PolicyOps, GoogleOps, ListOps, TeamOps}
    /\ SiteOps \notin {PolicyOps, GoogleOps, ListOps, TeamOps}
    /\ PolicyOps \notin {GoogleOps, ListOps, TeamOps}
    /\ GoogleOps \notin {ListOps, TeamOps}
    /\ ListOps # TeamOps
    /\ AllOps = {QuotaOps, MembershipOps, RemovalOps, PlanOps, MeetingOps, SiteOps,
                 PolicyOps, GoogleOps, ListOps, TeamOps}
BY DEF AllOps, QuotaOps, MembershipOps, RemovalOps, PlanOps, GoalOps, MeetingOps,
       SiteOps, PolicyOps, GoogleOps, ListOps, TeamOps

LEMMA Aside ==
    ASSUME NEW w \in Slots, NEW Mine \in AllOps, NEW Theirs \in AllOps,
           Mine # Theirs, Moves(w, Theirs)
    PROVE  Elsewhere(Mine)
<1>1. Mine \cap Theirs = {} /\ "idle" \notin Mine
  BY OpsApart
<1> QED  BY <1>1 DEF Moves, Elsewhere

LEMMA StepKnown ==
    ASSUME Shape, NEW w \in Slots, Step(w)
    PROVE  Shape' /\ \E Ops \in AllOps : Moves(w, Ops) /\ StepOf(w, Ops)
<1> USE OpsDistinct DEF StepOf, apartVars
<1>1. CASE QuotaStep(w) /\ UNCHANGED <<membershipVars, removalVars, plan, meetingVars,
                                       siteVars, apartVars>>
  BY <1>1, QuotaMoves
<1>2. CASE MembershipStep(w) /\ UNCHANGED <<quotaVars, removalVars, plan, meetingVars,
                                            siteVars, apartVars>>
  BY <1>2, MembershipMoves
<1>3. CASE /\ Removes(w) /\ PlansCascade /\ MeetingsCascade
           /\ UNCHANGED <<quotaVars, membershipVars, siteVars, apartVars>>
  BY <1>3, RowMoves, RequestMoves, ImportMoves DEF Removes
<1>4. CASE PlanStep(w) /\ UNCHANGED <<quotaVars, membershipVars, meetingVars, siteVars,
                                      apartVars>>
  BY <1>4, PlanMoves
<1>5. CASE MeetingStep(w) /\ UNCHANGED <<quotaVars, membershipVars, removalVars, plan,
                                         siteVars, apartVars>>
  BY <1>5, MeetingMoves
<1>6. CASE SiteStep(w) /\ UNCHANGED <<quotaVars, membershipVars, removalVars, plan,
                                      meetingVars, apartVars>>
  BY <1>6, SiteMoves
<1>7. CASE PolicyStep(w) /\ UNCHANGED <<quotaVars, membershipVars, removalVars, plan,
                               meetingVars, siteVars, googleVars, listVars, teamVars>>
  BY <1>7, PolicyMoves
<1>8. CASE GoogleStep(w) /\ UNCHANGED <<quotaVars, membershipVars, removalVars, plan,
                               meetingVars, siteVars, policyVars, listVars, teamVars>>
  BY <1>8, GoogleMoves
<1>9. CASE ListStep(w) /\ UNCHANGED <<quotaVars, membershipVars, removalVars, plan,
                             meetingVars, siteVars, policyVars, googleVars, teamVars>>
  BY <1>9, ListMoves
<1>10. CASE TeamStep(w) /\ UNCHANGED <<quotaVars, membershipVars, removalVars, plan,
                              meetingVars, siteVars, policyVars, googleVars, listVars>>
  BY <1>10, TeamMoves
<1> QED  BY <1>1, <1>2, <1>3, <1>4, <1>5, <1>6, <1>7, <1>8, <1>9, <1>10
         DEF Step, Removes

\* A call fails, or the process stops: handlers end here.
CutShort == Restart \/ \E w \in Slots : CallFails(w)

Ends(ended) ==
    /\ \A v \in ended : call'[v] = Idle
    /\ \A v \in Slots \ ended : call'[v] = call[v]

LEMMA CutShortKnown ==
    ASSUME Shape, CutShort
    PROVE  /\ Shape' /\ calls' = calls
           /\ UNCHANGED <<quotaVars, removalVars, plan, googleVars, listVars>>
           /\ \A v \in Slots : call'[v] = call[v] \/ call'[v] = Idle
           /\ \E ended \in SUBSET Slots :
                  /\ Ends(ended) /\ FoundersLost(ended)
                  /\ MeetingsInterrupted(ended) /\ AssignmentsLost(ended)
<1>1. ASSUME Restart
      PROVE  /\ Shape' /\ calls' = calls
             /\ UNCHANGED <<quotaVars, removalVars, plan, googleVars, listVars>>
             /\ Ends(Slots) /\ FoundersLost(Slots)
             /\ MeetingsInterrupted(Slots) /\ AssignmentsLost(Slots)
  <2>1. call' = [w \in Slots |-> Idle]
    BY <1>1 DEF Restart, LoseCalls
  <2>2. Shape' /\ Ends(Slots)
    BY <2>1, IdleKnown DEF Shape, GoalKnown, Ends
  <2> QED  BY <1>1, <2>2 DEF Restart, LoseCalls
<1>2. ASSUME NEW w \in Slots, CallFails(w)
      PROVE  /\ Shape' /\ calls' = calls
             /\ UNCHANGED <<quotaVars, removalVars, plan, googleVars, listVars>>
             /\ Ends({w}) /\ FoundersLost({w})
             /\ MeetingsInterrupted({w}) /\ AssignmentsLost({w})
  <2>1. call' = [call EXCEPT ![w] = Idle] /\ calls' = calls
    BY <1>2 DEF CallFails, Return, GoOn
  <2>2. call' = [v \in Slots |-> IF v = w THEN Idle ELSE call[v]]
    BY <2>1 DEF Shape
  <2>3. Shape' /\ Ends({w})
    BY <2>2, IdleKnown DEF Shape, GoalKnown, Ends
  <2> QED  BY <1>2, <2>1, <2>3 DEF CallFails
<1>3. \A ended \in SUBSET Slots :
          Ends(ended) => \A v \in Slots : call'[v] = call[v] \/ call'[v] = Idle
  BY DEF Ends
<1>4. CASE Restart
  BY <1>1, <1>3, <1>4
<1>5. CASE \E w \in Slots : CallFails(w)
  <2>1. PICK w \in Slots : CallFails(w)
    BY <1>5
  <2>2. {w} \in SUBSET Slots
    OBVIOUS
  <2> QED  BY <1>2, <1>3, <2>1, <2>2
<1> QED  BY <1>4, <1>5 DEF CutShort

\* Every step is one of a handler, or one of these.
Besides ==
    \/ /\ UNCHANGED <<call, calls, restarts>>
       /\ UNCHANGED <<quotaVars, removalVars, plan, policyVars, googleVars,
                      listVars, teamVars>>
       /\ \/ \E r \in Runs : RunnerStep(r) /\ UNCHANGED <<membershipVars, meetingVars>>
          \/ \E i \in Invitations : Lapse(i) /\ UNCHANGED <<meetingVars, siteVars>>
          \/ Expire /\ UNCHANGED <<membershipVars, siteVars>>
          \/ UNCHANGED <<membershipVars, meetingVars, siteVars>>
    \/ CutShort

LEMMA NextKnown ==
    ASSUME Shape, [Next]_vars
    PROVE  /\ Shape'
           /\ \/ \E w \in Slots, Ops \in AllOps : Moves(w, Ops) /\ StepOf(w, Ops)
              \/ Besides
<1>1. CASE \E w \in Slots : Step(w)
  BY <1>1, StepKnown
<1>2. ASSUME NEW r \in Runs, Audit(r)
      PROVE  UNCHANGED call /\ Besides
  <2>1. UNCHANGED slotVars
    BY <1>2 DEF Audit, RunnerStep, FindRun, StartRun, FetchSitemap, FetchPage,
                CompleteRun, RunFails, MarkFailed, SaveJob, JobStep
  <2> QED  BY <1>2, <2>1 DEF Audit, Besides, slotVars, apartVars
<1>3. ASSUME NEW i \in Invitations, InvitationLapses(i)
      PROVE  UNCHANGED call /\ Besides
  BY <1>3 DEF InvitationLapses, Besides, slotVars, apartVars
<1>4. ASSUME TokenExpires
      PROVE  UNCHANGED call /\ Besides
  BY <1>4 DEF TokenExpires, Besides, slotVars, apartVars
<1>5. ASSUME Quiet \/ UNCHANGED vars
      PROVE  UNCHANGED call /\ Besides
  BY <1>5 DEF Quiet, vars, Besides, slotVars, apartVars
<1>6. ASSUME Restart \/ \E w \in Slots : CallFails(w)
      PROVE  Shape' /\ Besides
  BY <1>6, CutShortKnown DEF CutShort, Besides
<1>7. UNCHANGED call => Shape'
  BY DEF Shape, GoalKnown
<1> QED  BY <1>1, <1>2, <1>3, <1>4, <1>5, <1>6, <1>7 DEF Next

LEMMA InitShape ==
    ASSUME Init
    PROVE  Shape
BY IdleKnown DEF Init, SlotsInit, Shape

-----------------------------------------------------------------------------
(* Limits.  What a handler saves was validated against the entitlements it *)
(* had read.                                                               *)

QuotaFits(c) ==
    /\ c.op = "saveOrgLimits" => /\ c.limits \in Limits
                                 /\ OrgLimitsValid(c.limits, c.current.caps)
    /\ c.op = "saveCaps" => /\ c.caps \in Limits
                            /\ CapsValid(c.caps, c.current.own)

QuotaInv == QuotaTypeOK /\ \A w \in Slots : QuotaFits(call[w])

LEMMA QuotaApart ==
    ASSUME Shape, [Next]_vars
    PROVE  \/ \E w \in Slots : QuotaStep(w) /\ Moves(w, QuotaOps)
           \/ UNCHANGED quotaVars /\ \A v \in Slots : call'[v] = call[v]
                                                      \/ call'[v].op \notin QuotaOps
<1>1. ASSUME NEW w \in Slots, NEW Ops \in AllOps, Ops # QuotaOps, Moves(w, Ops),
             StepOf(w, Ops)
      PROVE  UNCHANGED quotaVars /\ Elsewhere(QuotaOps)
  BY <1>1, Aside, OpsDistinct DEF StepOf
<1>2. CASE CutShort
  BY <1>2, CutShortKnown, OpsDistinct, OpsApart DEF Idle
<1> QED  BY <1>1, <1>2, NextKnown DEF Elsewhere, StepOf, Besides

LEMMA QuotaStart ==
    ASSUME Init
    PROVE  QuotaInv
<1> USE QuotaAssumption
<1>1. DefaultCap \in [Keys -> Amounts \cup {Null}] /\ DefaultCap \in Limits
  BY DEF Limits
<1>2. [key \in Keys |-> Unset] \in Limits
  BY DEF Limits
<1>3. QuotaTypeOK
  BY <1>1, <1>2 DEF Init, QuotaInit, QuotaTypeOK, Entitlements
<1>4. \A w \in Slots : call[w].op = "idle"
  BY DEF Init, SlotsInit, Idle
<1> QED  BY <1>3, <1>4 DEF QuotaInv, QuotaFits

LEMMA EffectiveTyped ==
    ASSUME NEW e \in Entitlements, NEW key \in Keys
    PROVE  EffectiveLimit(key, e) \in Amounts \cup {Null}
BY QuotaAssumption DEF EffectiveLimit, PlatformCap, Entitlements, Limits

LEMMA EntitleTyped ==
    ASSUME QuotaTypeOK, NEW e \in Entitlements, Entitle(e)
    PROVE  QuotaTypeOK'
<1>1. ceiling' = [key \in Keys |-> Higher(ceiling[key], EffectiveLimit(key, e))]
  BY DEF Entitle
<1>2. ASSUME NEW key \in Keys
      PROVE  Higher(ceiling[key], EffectiveLimit(key, e)) \in Amounts \cup {Null}
  BY EffectiveTyped DEF Higher, QuotaTypeOK
<1>3. ceiling' \in [Keys -> Amounts \cup {Null}]
  BY <1>1, <1>2
<1> QED  BY <1>3 DEF Entitle, QuotaTypeOK

LEMMA MergedTyped ==
    ASSUME QuotaInv, NEW w \in Slots
    PROVE  /\ call[w].op = "saveOrgLimits" =>
                [entitlements EXCEPT !.own = call[w].limits] \in Entitlements
           /\ call[w].op = "saveCaps" =>
                [entitlements EXCEPT !.caps =
                    [key \in Keys |-> IF call[w].caps[key] # Unset
                                      THEN call[w].caps[key] ELSE @[key]]]
                \in Entitlements
<1>1. entitlements \in Entitlements /\ QuotaFits(call[w])
  BY DEF QuotaInv, QuotaTypeOK
<1>2. ASSUME call[w].op = "saveCaps"
      PROVE  [key \in Keys |-> IF call[w].caps[key] # Unset
                               THEN call[w].caps[key]
                               ELSE entitlements.caps[key]] \in Limits
  BY <1>1, <1>2 DEF QuotaFits, Limits, Entitlements
<1> QED  BY <1>1, <1>2 DEF QuotaFits, Entitlements

LEMMA QuotaStepKept ==
    ASSUME QuotaInv, NEW w \in Slots, QuotaStep(w), Moves(w, QuotaOps), Shape
    PROVE  QuotaInv'
<1> SUFFICES QuotaTypeOK' /\ QuotaFits(call'[w])
  BY DEF QuotaInv, Moves
<1>1. ASSUME NEW limits \in LimitInputs, UpdateOrgLimits(w, limits)
      PROVE  QuotaTypeOK' /\ QuotaFits(call'[w])
  <2>1. call'[w] = [op |-> "saveOrgLimits", limits |-> limits, current |-> entitlements]
    BY <1>1, Began DEF UpdateOrgLimits, Entry, GoalKnown, GoalOps, QuotaOps
  <2>2. QuotaFits(call'[w])
    BY <1>1, <2>1, QuotaAssumption DEF UpdateOrgLimits, QuotaFits
  <2> QED  BY <1>1, <2>2 DEF UpdateOrgLimits, QuotaInv, QuotaTypeOK, quotaVars
<1>2. ASSUME NEW caps \in LimitInputs, UpdatePlatformCaps(w, caps)
      PROVE  QuotaTypeOK' /\ QuotaFits(call'[w])
  <2>1. call'[w] = [op |-> "saveCaps", caps |-> caps, current |-> entitlements]
    BY <1>2, Began DEF UpdatePlatformCaps, Entry, GoalKnown, GoalOps, QuotaOps
  <2>2. QuotaFits(call'[w])
    BY <1>2, <2>1, QuotaAssumption DEF UpdatePlatformCaps, QuotaFits
  <2> QED  BY <1>2, <2>2 DEF UpdatePlatformCaps, QuotaInv, QuotaTypeOK, quotaVars
<1>3. ASSUME SaveOrgLimits(w) \/ SaveCaps(w)
      PROVE  QuotaTypeOK' /\ QuotaFits(call'[w])
  <2>1. call'[w] = Idle
    BY <1>3, Returned DEF SaveOrgLimits, SaveCaps, QuotaOps
  <2>2. QuotaTypeOK'
    BY <1>3, MergedTyped, EntitleTyped DEF SaveOrgLimits, SaveCaps, QuotaInv
  <2> QED  BY <2>1, <2>2 DEF QuotaFits, Idle
<1> QED  BY <1>1, <1>2, <1>3 DEF QuotaStep

LEMMA QuotaNext ==
    ASSUME Shape, QuotaInv, [Next]_vars
    PROVE  QuotaInv'
<1>1. ASSUME UNCHANGED quotaVars,
             \A v \in Slots : call'[v] = call[v] \/ call'[v].op \notin QuotaOps
      PROVE  QuotaInv'
  BY <1>1 DEF QuotaInv, QuotaFits, QuotaTypeOK, quotaVars, QuotaOps
<1> QED  BY <1>1, QuotaApart, QuotaStepKept

\* A handler that saves is done.
LEMMA SaverChanges ==
    ASSUME Shape, NEW w \in Slots, NEW Ops \in AllOps, Return(w), call[w].op \in Ops
    PROVE  call[w] # call'[w]
<1>1. call'[w] = Idle
  BY Returned
<1> QED  BY <1>1, OpsApart DEF Idle

LEMMA SavedLimitsRespectCaps ==
    ASSUME Shape, QuotaInv, NEW w \in Slots, SaveOrgLimits(w),
           call[w].current = entitlements
    PROVE  CapsKept(entitlements')
<1>1. /\ OrgLimitsValid(call[w].limits, entitlements.caps)
      /\ entitlements' = [entitlements EXCEPT !.own = call[w].limits]
      /\ entitlements \in Entitlements
  BY DEF SaveOrgLimits, Entitle, QuotaInv, QuotaFits, QuotaTypeOK
<1>2. entitlements'.own = call[w].limits /\ entitlements'.caps = entitlements.caps
  BY <1>1 DEF Entitlements
<1> QED  BY <1>1, <1>2 DEF OrgLimitsValid, CapsKept

LEMMA SavedCapsSpareLimits ==
    ASSUME Shape, QuotaInv, NEW w \in Slots, SaveCaps(w), CapsKept(entitlements),
           call[w].current = entitlements
    PROVE  CapsKept(entitlements')
<1> DEFINE merged == [key \in Keys |-> IF call[w].caps[key] # Unset
                                       THEN call[w].caps[key]
                                       ELSE entitlements.caps[key]]
<1>1. /\ CapsValid(call[w].caps, entitlements.own)
      /\ entitlements' = [entitlements EXCEPT !.caps = merged]
      /\ entitlements \in Entitlements
  BY DEF SaveCaps, Entitle, QuotaInv, QuotaFits, QuotaTypeOK
<1>2. entitlements'.own = entitlements.own /\ entitlements'.caps = merged
  BY <1>1 DEF Entitlements
<1>3. ASSUME NEW key \in Keys, entitlements.own[key] \in Amounts,
             PlatformCap(key, merged) \in Amounts
      PROVE  entitlements.own[key] <= PlatformCap(key, merged)
  <2>1. CASE call[w].caps[key] = Unset
    <3>1. PlatformCap(key, merged) = PlatformCap(key, entitlements.caps)
      BY <2>1 DEF PlatformCap
    <3> QED  BY <1>3, <3>1 DEF CapsKept
  <2>2. CASE call[w].caps[key] # Unset
    <3>1. PlatformCap(key, merged) = call[w].caps[key]
      BY <2>2 DEF PlatformCap
    <3> QED  BY <1>1, <1>3, <3>1 DEF CapsValid
  <2> QED  BY <2>1, <2>2
<1> QED  BY <1>2, <1>3 DEF CapsKept

(***************************************************************************)
(* An organization's limit comes to exceed the platform's cap only through *)
(* a handler that saves what it validated against entitlements that have   *)
(* changed since, however many of updateOrgLimits and                      *)
(* updatePlatformEntitlements overlap.                                     *)
(***************************************************************************)
THEOREM CapsNeedOverlap == Spec => CapsBrokenOnlyByOverlap
<1>1. Init => Shape /\ QuotaInv
  BY InitShape, QuotaStart
<1>2. Shape /\ QuotaInv /\ [Next]_vars => Shape' /\ QuotaInv'
  BY NextKnown, QuotaNext
<1>3. ASSUME Shape, QuotaInv, [Next]_vars, CapsKept(entitlements),
             ~CapsKept(entitlements')
      PROVE  \E w \in Slots : /\ call[w] # call'[w]
                              /\ call[w].op \in {"saveOrgLimits", "saveCaps"}
                              /\ call[w].current # entitlements
  <2>1. PICK w \in Slots : QuotaStep(w)
    BY <1>3, QuotaApart DEF quotaVars
  <2>2. SaveOrgLimits(w) \/ SaveCaps(w)
    BY <1>3, <2>1 DEF QuotaStep, UpdateOrgLimits, UpdatePlatformCaps, quotaVars
  <2>3. call[w].op \in {"saveOrgLimits", "saveCaps"} /\ Return(w)
    BY <2>2 DEF SaveOrgLimits, SaveCaps
  <2>4. call[w] # call'[w]
    BY <1>3, <2>3, SaverChanges, OpsDistinct DEF QuotaOps
  <2>5. call[w].current # entitlements
    BY <1>3, <2>2, SavedLimitsRespectCaps, SavedCapsSpareLimits
  <2> QED  BY <2>3, <2>4, <2>5
<1> QED  BY <1>1, <1>2, <1>3, PTL DEF Spec, CapsBrokenOnlyByOverlap

-----------------------------------------------------------------------------
(* Links of websites.  The requests are about websites whose ids were      *)
(* given out, so that an insertion touches none of them, and an account is *)
(* deleted by a handler that found no link to it.                          *)

GoogleFits(c, ids) ==
    /\ c.op \in {"findSite", "saveLink", "removeProperty"} => c.property \in ids
    /\ c.op \in {"findAccount", "insertAccount", "updateAccount"} =>
            "for" \in DOMAIN c /\ c.for \in ids \cup {NoLink}
    /\ c.op \in {"countLinks", "deleteAccount"} => c.id \in LinkIds
    /\ c.op = "deleteAccount" => c.without = PropertyIds

GoogleInv ==
    /\ link = [p \in PropertyIds |-> link[p]]
    /\ Built \subseteq issued
    /\ \A w \in Slots : GoogleFits(call[w], issued)

LEMMA GoogleApart ==
    ASSUME Shape, [Next]_vars
    PROVE  \/ \E w \in Slots : GoogleStep(w) /\ Moves(w, GoogleOps)
           \/ UNCHANGED googleVars /\ \A v \in Slots : call'[v] = call[v]
                                                       \/ call'[v].op \notin GoogleOps
<1>1. ASSUME NEW w \in Slots, NEW Ops \in AllOps, Ops # GoogleOps, Moves(w, Ops),
             StepOf(w, Ops)
      PROVE  UNCHANGED googleVars /\ Elsewhere(GoogleOps)
  BY <1>1, Aside, OpsDistinct DEF StepOf
<1>2. CASE CutShort
  BY <1>2, CutShortKnown, OpsDistinct, OpsApart DEF Idle
<1> QED  BY <1>1, <1>2, NextKnown DEF Elsewhere, StepOf, Besides

LEMMA GoogleStart ==
    ASSUME Init
    PROVE  GoogleInv
<1>1. \A w \in Slots : call[w].op = "idle"
  BY DEF Init, SlotsInit, Idle
<1>2. /\ issued = {First(LinkIds), First(PropertyIds)}
      /\ link = [x \in PropertyIds |->
                    IF x = First(PropertyIds) THEN First(LinkIds) ELSE Missing]
  BY DEF Init, GoogleInit
<1> QED  BY <1>1, <1>2 DEF GoogleInv, GoogleFits, Built

LEMMA GoogleKeeps ==
    ASSUME GoogleInv, NEW w \in Slots, Moves(w, GoogleOps),
           issued \subseteq issued', GoogleFits(call'[w], issued'),
           link' = [p \in PropertyIds |-> link'[p]],
           \A p \in PropertyIds : link'[p] # Missing => link[p] # Missing \/ p \in issued'
    PROVE  GoogleInv'
BY DEF GoogleInv, GoogleFits, Built, Moves

LEMMA StoredFits ==
    ASSUME Shape, GoogleInv, NEW w \in Slots, NEW c, Stored(w, c),
           call[w].op \in {"insertAccount", "updateAccount"},
           issued \subseteq issued'
    PROVE  GoogleFits(call'[w], issued')
<1>1. call[w].op \in GoogleOps
  BY DEF GoogleOps
<1>2. CASE call[w].for = NoLink
  <2>1. call'[w] = Idle
    BY <1>1, <1>2, Returned DEF Stored
  <2> QED  BY <2>1 DEF GoogleFits, Idle
<1>3. CASE call[w].for # NoLink
  <2>1. call'[w] = [op |-> "findSite", property |-> call[w].for, to |-> c]
    BY <1>1, <1>3, Went DEF Stored, Entry, GoalKnown, GoalOps, GoogleOps
  <2> QED  BY <1>3, <2>1 DEF GoogleInv, GoogleFits
<1> QED  BY <1>2, <1>3

LEMMA StoreFits ==
    ASSUME Shape, GoogleInv, NEW w \in Slots, NEW c, Store(w, c),
           call[w].op \in {"insertAccount", "updateAccount"}
    PROVE  issued \subseteq issued' /\ GoogleFits(call'[w], issued')
<1>1. CASE Storable(call[w].row)
  BY <1>1, StoredFits DEF Store
<1>2. CASE ~Storable(call[w].row)
  <2>1. call'[w] = Idle
    BY <1>2, Returned DEF Store, GoogleOps
  <2> QED  BY <1>2, <2>1 DEF Store, GoogleFits, Idle
<1> QED  BY <1>1, <1>2

LEMMA GoogleStepKept ==
    ASSUME Shape, GoogleInv, NEW w \in Slots, GoogleStep(w), Moves(w, GoogleOps)
    PROVE  GoogleInv'
<1> USE DEF googleVars
<1>0. /\ link = [p \in PropertyIds |-> link[p]]
      /\ Built \subseteq issued
      /\ GoogleFits(call[w], issued)
  BY DEF GoogleInv
<1>1. ASSUME UNCHANGED googleVars, GoogleFits(call'[w], issued)
      PROVE  GoogleInv'
  BY <1>1, GoogleKeeps, <1>0
<1>2. ASSUME NEW row, NEW for \in Built \cup {NoLink}, Callback(w, row, for)
      PROVE  GoogleInv'
  <2>1. call'[w] = [op |-> "findAccount", row |-> row, for |-> for]
    BY <1>2, Began DEF Callback, Entry, GoalKnown, GoalOps, GoogleOps
  <2>2. GoogleFits(call'[w], issued)
    BY <1>0, <2>1 DEF GoogleFits
  <2> QED  BY <1>1, <1>2, <2>2 DEF Callback
<1>3. ASSUME NEW c \in LinkIds, RefreshAccount(w, c)
      PROVE  GoogleInv'
  <2>1. call'[w] = [op |-> "findAccount", row |-> google[c], for |-> NoLink]
    BY <1>3, Began DEF RefreshAccount, Entry, GoalKnown, GoalOps, GoogleOps
  <2>2. GoogleFits(call'[w], issued)
    BY <2>1 DEF GoogleFits
  <2> QED  BY <1>1, <1>3, <2>2 DEF RefreshAccount
<1>4. ASSUME NEW c \in LinkIds, DeleteOrganizationConnection(w, c)
      PROVE  GoogleInv'
  <2>1. call'[w] = [op |-> "countLinks", id |-> c]
    BY <1>4, Began DEF DeleteOrganizationConnection, Entry, GoalKnown, GoalOps, GoogleOps
  <2>2. GoogleFits(call'[w], issued)
    BY <2>1 DEF GoogleFits
  <2> QED  BY <1>1, <1>4, <2>2 DEF DeleteOrganizationConnection
<1>5. ASSUME NEW c \in LinkIds, CreateProperty(w, c)
      PROVE  GoogleInv'
  <2>1. call'[w] = [op |-> "insertProperty", to |-> c]
    BY <1>5, Began DEF CreateProperty, Entry, GoalKnown, GoalOps, GoogleOps
  <2>2. GoogleFits(call'[w], issued)
    BY <2>1 DEF GoogleFits
  <2> QED  BY <1>1, <1>5, <2>2 DEF CreateProperty
<1>6. ASSUME NEW p \in PropertyIds, NEW c, NEW d, p \in Built, UNCHANGED googleVars,
             Begin(w, [op |-> "saveLink", property |-> p, to |-> c, decided |-> d])
      PROVE  GoogleInv'
  <2>1. call'[w] = [op |-> "saveLink", property |-> p, to |-> c, decided |-> d]
    BY <1>6, Began DEF Entry, GoalKnown, GoalOps, GoogleOps
  <2>2. GoogleFits(call'[w], issued)
    BY <1>0, <1>6, <2>1 DEF GoogleFits
  <2> QED  BY <1>1, <1>6, <2>2
<1>7. ASSUME NEW p \in PropertyIds, NEW c \in LinkIds, AssignConnection(w, p, c)
      PROVE  GoogleInv'
  BY <1>6, <1>7 DEF AssignConnection
<1>8. ASSUME NEW p \in PropertyIds, DisconnectProperty(w, p)
      PROVE  GoogleInv'
  BY <1>6, <1>8, GoogleAssumption DEF DisconnectProperty, Built
<1>9. ASSUME NEW p \in PropertyIds, EditProperty(w, p)
      PROVE  GoogleInv'
  BY <1>6, <1>9 DEF EditProperty
<1>10. ASSUME NEW p \in PropertyIds, DeleteProperty(w, p)
       PROVE  GoogleInv'
  <2>1. call'[w] = [op |-> "removeProperty", property |-> p]
    BY <1>10, Began DEF DeleteProperty, Entry, GoalKnown, GoalOps, GoogleOps
  <2>2. GoogleFits(call'[w], issued)
    BY <1>0, <1>10, <2>1 DEF GoogleFits, DeleteProperty
  <2> QED  BY <1>1, <1>10, <2>2 DEF DeleteProperty
<1>11. ASSUME NEW a \in Apps, DeleteApp(w, a)
       PROVE  GoogleInv'
  <2>1. call'[w] = [op |-> "countAccounts", app |-> a]
    BY <1>11, Began DEF DeleteApp, Entry, GoalKnown, GoalOps, GoogleOps
  <2>2. GoogleFits(call'[w], issued)
    BY <2>1 DEF GoogleFits
  <2> QED  BY <1>1, <1>11, <2>2 DEF DeleteApp
<1>12. ASSUME NEW a \in Apps, UpdateApp(w, a)
       PROVE  GoogleInv'
  <2>1. call'[w] = [op |-> "saveApp", app |-> a]
    BY <1>12, Began DEF UpdateApp, Entry, GoalKnown, GoalOps, GoogleOps
  <2>2. GoogleFits(call'[w], issued)
    BY <2>1 DEF GoogleFits
  <2> QED  BY <1>1, <1>12, <2>2 DEF UpdateApp
<1>13. ASSUME Return(w), call[w].op \in GoogleOps
       PROVE  \A ids : GoogleFits(call'[w], ids)
  <2>1. call'[w] = Idle
    BY <1>13, Returned
  <2> QED  BY <2>1 DEF GoogleFits, Idle
<1>14. ASSUME FindAccount(w)
       PROVE  GoogleInv'
  <2>1. /\ call[w].op \in GoogleOps
        /\ "for" \in DOMAIN call[w] /\ call[w].for \in issued \cup {NoLink}
    BY <1>0, <1>14 DEF FindAccount, GoogleOps, GoogleFits
  <2>2. PICK c : c = [call[w] EXCEPT !.op = "insertAccount"]
    OBVIOUS
  <2>3. ASSUME GoOn(w, c)
        PROVE  GoogleFits(call'[w], issued)
    <3>1. /\ "op" \in DOMAIN c /\ c.op = "insertAccount"
          /\ "for" \in DOMAIN c /\ c.for \in issued \cup {NoLink}
      BY <2>1, <2>2, Renamed DEF Shape
    <3>2. call'[w] = c
      BY <2>1, <2>3, <3>1, Went DEF Entry, GoalKnown, GoalOps, GoogleOps
    <3> QED  BY <3>1, <3>2 DEF GoogleFits
  <2>4. ASSUME NEW k, GoOn(w, [op |-> "updateAccount", id |-> k, row |-> call[w].row,
                               for |-> call[w].for])
        PROVE  GoogleFits(call'[w], issued)
    <3>1. call'[w] = [op |-> "updateAccount", id |-> k, row |-> call[w].row,
                      for |-> call[w].for]
      BY <2>1, <2>4, Went DEF Entry, GoalKnown, GoalOps, GoogleOps
    <3> QED  BY <2>1, <3>1 DEF GoogleFits
  <2> QED  BY <1>1, <1>14, <2>2, <2>3, <2>4 DEF FindAccount
<1>15. ASSUME InsertAccount(w) \/ UpdateAccount(w)
       PROVE  GoogleInv'
  <2>1. issued \subseteq issued' /\ GoogleFits(call'[w], issued')
    BY <1>15, StoreFits, StoredFits DEF InsertAccount, UpdateAccount
  <2>2. link' = link
    BY <1>15 DEF InsertAccount, UpdateAccount
  <2> QED  BY <1>0, <2>1, <2>2, GoogleKeeps
<1>16. ASSUME FindSite(w)
       PROVE  GoogleInv'
  <2>1. call[w].op \in GoogleOps /\ call[w].property \in issued
    BY <1>0, <1>16 DEF FindSite, GoogleOps, GoogleFits
  <2>2. ASSUME GoOn(w, [op |-> "saveLink", property |-> call[w].property,
                        to |-> call[w].to, decided |-> TRUE])
        PROVE  GoogleFits(call'[w], issued)
    <3>1. call'[w] = [op |-> "saveLink", property |-> call[w].property,
                      to |-> call[w].to, decided |-> TRUE]
      BY <2>1, <2>2, Went DEF Entry, GoalKnown, GoalOps, GoogleOps
    <3> QED  BY <2>1, <3>1 DEF GoogleFits
  <2> QED  BY <1>1, <1>13, <1>16, <2>1, <2>2 DEF FindSite
<1>17. ASSUME SaveLink(w)
       PROVE  GoogleInv'
  <2>1. GoogleFits(call'[w], issued) /\ issued' = issued
    BY <1>13, <1>17 DEF SaveLink, GoogleOps
  <2>2. call[w].property \in issued
    BY <1>0, <1>17 DEF SaveLink, GoogleFits
  <2>3. \/ link' = link
        \/ link' = [link EXCEPT ![call[w].property] = call[w].to]
    BY <1>17 DEF SaveLink
  <2>4. /\ link' = [p \in PropertyIds |-> link'[p]]
        /\ \A p \in PropertyIds : p # call[w].property => link'[p] = link[p]
    BY <1>0, <2>3
  <2> QED  BY <2>1, <2>2, <2>4, GoogleKeeps
<1>18. ASSUME InsertProperty(w)
       PROVE  GoogleInv'
  <2>1. GoogleFits(call'[w], issued') /\ issued \subseteq issued'
    BY <1>13, <1>18 DEF InsertProperty, GoogleOps
  <2>2. PICK p : \/ link' = link
                 \/ link' = [link EXCEPT ![p] = call[w].to] /\ p \in issued'
    BY <1>18 DEF InsertProperty
  <2>3. /\ link' = [q \in PropertyIds |-> link'[q]]
        /\ \A q \in PropertyIds : link'[q] = link[q] \/ q \in issued'
    BY <1>0, <2>2
  <2> QED  BY <2>1, <2>3, GoogleKeeps
<1>19. ASSUME RemoveProperty(w)
       PROVE  GoogleInv'
  <2>1. GoogleFits(call'[w], issued) /\ issued' = issued
    BY <1>13, <1>19 DEF RemoveProperty, GoogleOps
  <2>2. /\ link' = [p \in PropertyIds |-> link'[p]]
        /\ \A p \in PropertyIds : link'[p] # Missing => link'[p] = link[p]
    BY <1>0, <1>19 DEF RemoveProperty
  <2> QED  BY <2>1, <2>2, GoogleKeeps
<1>20. ASSUME CountLinks(w)
       PROVE  GoogleInv'
  <2>1. call[w].op \in GoogleOps /\ call[w].id \in LinkIds
    BY <1>0, <1>20 DEF CountLinks, GoogleOps, GoogleFits
  <2>2. PICK left : left = PropertyIds \ LinkedTo(call[w].id)
    OBVIOUS
  <2>3. ASSUME LinkedTo(call[w].id) = {},
               GoOn(w, [op |-> "deleteAccount", id |-> call[w].id, without |-> left])
        PROVE  GoogleFits(call'[w], issued)
    <3>1. call'[w] = [op |-> "deleteAccount", id |-> call[w].id, without |-> left]
      BY <2>1, <2>3, Went DEF Entry, GoalKnown, GoalOps, GoogleOps
    <3> QED  BY <2>1, <2>2, <2>3, <3>1 DEF GoogleFits
  <2> QED  BY <1>1, <1>13, <1>20, <2>1, <2>2, <2>3 DEF CountLinks
<1>21. ASSUME DeleteAccount(w)
       PROVE  GoogleInv'
  <2>1. GoogleFits(call'[w], issued) /\ issued' = issued
    BY <1>13, <1>21 DEF DeleteAccount, GoogleOps
  <2>2. link' = [p \in PropertyIds |->
                   IF p \in LinkedTo(call[w].id) THEN NoLink ELSE link[p]]
    BY <1>21 DEF DeleteAccount
  <2>3. call[w].id \in LinkIds
    BY <1>0, <1>21 DEF DeleteAccount, GoogleFits
  <2>4. \A p \in PropertyIds : link'[p] # Missing => link[p] # Missing
    BY <2>2, <2>3, GoogleAssumption DEF LinkedTo
  <2> QED  BY <2>1, <2>2, <2>4, GoogleKeeps
<1>22. ASSUME CountAccounts(w)
       PROVE  GoogleInv'
  <2>1. call[w].op \in GoogleOps
    BY <1>22 DEF CountAccounts, GoogleOps
  <2>2. PICK c : c = [call[w] EXCEPT !.op = "deleteApp"]
    OBVIOUS
  <2>3. "op" \in DOMAIN c /\ c.op = "deleteApp"
    BY <2>2, Renamed DEF Shape
  <2>4. ASSUME GoOn(w, c)
        PROVE  GoogleFits(call'[w], issued)
    <3>1. call'[w] = c
      BY <2>1, <2>3, <2>4, Went DEF Entry, GoalKnown, GoalOps, GoogleOps
    <3> QED  BY <2>3, <3>1 DEF GoogleFits
  <2> QED  BY <1>1, <1>13, <1>22, <2>1, <2>2, <2>4 DEF CountAccounts
<1>23. ASSUME RemoveApp(w) \/ SaveApp(w)
       PROVE  GoogleInv'
  <2>1. GoogleFits(call'[w], issued) /\ issued' = issued /\ link' = link
    BY <1>13, <1>23 DEF RemoveApp, SaveApp, GoogleOps
  <2> QED  BY <1>0, <2>1, GoogleKeeps
<1> QED  BY <1>2, <1>3, <1>4, <1>5, <1>7, <1>8, <1>9, <1>10, <1>11, <1>12, <1>14,
            <1>15, <1>16, <1>17, <1>18, <1>19, <1>20, <1>21, <1>22, <1>23
         DEF GoogleStep

LEMMA GoogleNext ==
    ASSUME Shape, GoogleInv, [Next]_vars
    PROVE  GoogleInv'
<1>1. ASSUME UNCHANGED googleVars,
             \A v \in Slots : call'[v] = call[v] \/ call'[v].op \notin GoogleOps
      PROVE  GoogleInv'
  BY <1>1 DEF GoogleInv, GoogleFits, Built, googleVars, GoogleOps
<1> QED  BY <1>1, GoogleApart, GoogleStepKept

(***************************************************************************)
(* A website loses its link to a Google account only to a handler that     *)
(* sets the link or removes the website, or to a deletion of the account   *)
(* that had found no link to it (deleteOrganizationConnection counts       *)
(* first), however many requests about websites, accounts and apps overlap.*)
(***************************************************************************)
THEOREM LinksAreKept == Spec => LinksKept
<1>1. Init => Shape /\ GoogleInv
  BY InitShape, GoogleStart
<1>2. Shape /\ GoogleInv /\ [Next]_vars => Shape' /\ GoogleInv'
  BY NextKnown, GoogleNext
<1>3. ASSUME Shape, GoogleInv, [Next]_vars, NEW p \in PropertyIds,
             link[p] \in LinkIds, link'[p] # link[p]
      PROVE  \E w \in Slots :
                 /\ call[w] # call'[w]
                 /\ \/ /\ call[w].op = "saveLink" /\ call[w].property = p
                       /\ call[w].decided \/ call[w].to # link[p]
                    \/ /\ call[w].op = "removeProperty" /\ call[w].property = p
                    \/ /\ call[w].op = "deleteAccount" /\ call[w].id = link[p]
                       /\ p \in call[w].without
  <2>0. /\ link = [q \in PropertyIds |-> link[q]]
        /\ p \in issued
    BY <1>3, GoogleAssumption DEF GoogleInv, Built
  <2>1. PICK w \in Slots : GoogleStep(w)
    BY <1>3, GoogleApart DEF googleVars
  <2>2. \/ SaveLink(w) \/ InsertProperty(w) \/ RemoveProperty(w) \/ DeleteAccount(w)
    BY <1>3, <2>1 DEF GoogleStep, Callback, RefreshAccount, FindAccount, InsertAccount,
        UpdateAccount, AssignConnection, FindSite, DisconnectProperty, EditProperty,
        CreateProperty, DeleteProperty, DeleteOrganizationConnection, CountLinks,
        DeleteApp, CountAccounts, RemoveApp, UpdateApp, SaveApp, googleVars
  <2>3. call[w].op \in GoogleOps /\ Return(w)
    BY <2>2 DEF SaveLink, InsertProperty, RemoveProperty, DeleteAccount, GoogleOps
  <2>4. call[w] # call'[w]
    BY <1>3, <2>3, SaverChanges, OpsDistinct
  <2>5. CASE SaveLink(w)
    BY <1>3, <2>0, <2>4, <2>5 DEF SaveLink
  <2>6. CASE InsertProperty(w)
    <3>1. PICK q : /\ q \notin issued
                   /\ link' = link \/ link' = [link EXCEPT ![q] = call[w].to]
      BY <2>6 DEF InsertProperty
    <3> QED  BY <1>3, <2>0, <3>1
  <2>7. CASE RemoveProperty(w)
    BY <1>3, <2>0, <2>4, <2>7 DEF RemoveProperty
  <2>8. CASE DeleteAccount(w)
    <3>1. p \in LinkedTo(call[w].id)
      BY <1>3, <2>8 DEF DeleteAccount
    <3>2. call[w].op = "deleteAccount" /\ call[w].without = PropertyIds
      BY <1>3, <2>8 DEF DeleteAccount, GoogleInv, GoogleFits
    <3> QED  BY <2>4, <3>1, <3>2 DEF LinkedTo
  <2> QED  BY <2>2, <2>5, <2>6, <2>7, <2>8
<1>4. Shape /\ GoogleInv /\ [Next]_vars
         => [ \A p \in PropertyIds :
                (link[p] \in LinkIds /\ link'[p] # link[p])
                  => \E w \in Slots :
                       /\ call[w] # call'[w]
                       /\ \/ /\ call[w].op = "saveLink" /\ call[w].property = p
                             /\ call[w].decided \/ call[w].to # link[p]
                          \/ /\ call[w].op = "removeProperty" /\ call[w].property = p
                          \/ /\ call[w].op = "deleteAccount" /\ call[w].id = link[p]
                             /\ p \in call[w].without ]_<<link, call>>
  BY <1>3
<1> QED  BY <1>1, <1>2, <1>4, PTL DEF Spec, LinksKept

-----------------------------------------------------------------------------
(* Members and founders.  Accounts stay, invitations keep their address,   *)
(* and what was proved stays proved; so what a handler has seen of them    *)
(* still holds when it goes on, from stale copies too.                     *)

MembershipFits(c, inv, acc, known) ==
    /\ c.op \in {"countMembers", "countPending", "countUsers", "findInvitee",
                 "findInvitation", "saveInvitation"} => c.email \in Emails
    /\ c.op \in {"saveMember", "markAccepted", "markRevoked", "markExpired"} =>
            c.invitation \in Invitations /\ inv[c.invitation] # None
    /\ c.op = "markAccepted" => acc[inv[c.invitation].email] = Home
    /\ c.op = "createSession" => c.email \in Emails /\ c.oauth \in BOOLEAN
    /\ c.op = "saveSession" => /\ c.row \in SessionRows
                               /\ c.row.verified => c.row.email \in known
    /\ c.op \in {"createOrganization", "createAccount"} => c.email \in known
    /\ c.op = "createAccount" => c.organization \in Organizations

SessionsProved ==
    \A s \in Sessions :
        (Active(s) /\ session[s].verified) => session[s].email \in proved

\* Of the rows that are counted there are never infinitely many.
PeopleFinite == IsFiniteSet(Homes) /\ IsFiniteSet(Opens)

MembershipInv ==
    /\ MembershipTypeOK
    /\ PeopleFinite
    /\ SessionsProved
    /\ AcceptedAreMembers
    /\ FoundersAreProved
    /\ \A w \in Slots : MembershipFits(call[w], invitation, account, proved)

LEMMA MembershipApart ==
    ASSUME Shape, [Next]_vars
    PROVE  \/ \E w \in Slots : MembershipStep(w) /\ Moves(w, MembershipOps)
           \/ /\ \/ UNCHANGED membershipVars
                 \/ \E i \in Invitations : Lapse(i)
                 \/ \E ended \in SUBSET Slots : FoundersLost(ended)
              /\ \A v \in Slots : call'[v] = call[v] \/ call'[v].op \notin MembershipOps
<1>1. ASSUME NEW w \in Slots, NEW Ops \in AllOps, Ops # MembershipOps, Moves(w, Ops),
             StepOf(w, Ops)
      PROVE  UNCHANGED membershipVars /\ Elsewhere(MembershipOps)
  BY <1>1, Aside, OpsDistinct DEF StepOf
<1>2. CASE CutShort
  BY <1>2, CutShortKnown, OpsDistinct, OpsApart DEF Idle
<1>3. CASE Besides /\ ~CutShort
  BY <1>3 DEF Besides, RunnerStep
<1> QED  BY <1>1, <1>2, <1>3, NextKnown DEF Elsewhere, StepOf

LEMMA NoneApart ==
    /\ \A row \in InvitationRows \cup SessionRows : row \notin {None, Gone}
    /\ None # Gone /\ Home # Nobody
    /\ \A o \in Organizations \cup {Home} \cup Emails : o # Nobody
BY MembershipAssumption

\* What a handler has seen stays true in a world that has only grown.
LEMMA FitsLater ==
    ASSUME NEW c, NEW inv \in [Invitations -> InvitationRows \cup {None}], NEW inv2,
           NEW acc, NEW acc2, NEW known, NEW known2,
           \A i \in Invitations : inv[i] # None => /\ inv2[i] # None
                                                   /\ inv2[i].email = inv[i].email,
           \A e \in Emails : acc[e] = Home => acc2[e] = Home,
           known \subseteq known2,
           MembershipFits(c, inv, acc, known)
    PROVE  MembershipFits(c, inv2, acc2, known2)
<1>1. \A i \in Invitations : inv[i] # None => inv[i].email \in Emails
  BY DEF InvitationRows
<1> QED  BY <1>1 DEF MembershipFits

LEMMA MembershipKeeps ==
    ASSUME MembershipInv, NEW w \in Slots, Moves(w, MembershipOps), MembershipTypeOK',
           \A i \in Invitations :
               invitation[i] # None => /\ invitation'[i] # None
                                       /\ invitation'[i].email = invitation[i].email,
           \A e \in Emails : account[e] = Home => account'[e] = Home,
           proved \subseteq proved',
           MembershipFits(call'[w], invitation', account', proved'),
           PeopleFinite', SessionsProved', AcceptedAreMembers', FoundersAreProved'
    PROVE  MembershipInv'
<1>1. invitation \in [Invitations -> InvitationRows \cup {None}]
  BY DEF MembershipInv, MembershipTypeOK
<1>2. \A c : MembershipFits(c, invitation, account, proved)
               => MembershipFits(c, invitation', account', proved')
  BY <1>1, FitsLater
<1>3. \A v \in Slots : MembershipFits(call'[v], invitation', account', proved')
  BY <1>2 DEF MembershipInv, Moves
<1> QED  BY <1>3 DEF MembershipInv

\* For the steps that only go on
LEMMA MembershipRests ==
    ASSUME MembershipInv, NEW w \in Slots, Moves(w, MembershipOps),
           UNCHANGED membershipVars,
           MembershipFits(call'[w], invitation, account, proved)
    PROVE  MembershipInv'
<1>1. UNCHANGED <<account, organization, invitation, session, proved, abandoned, missed>>
  BY DEF membershipVars, peopleVars
<1>2. PeopleFinite'
  BY <1>1 DEF MembershipInv, PeopleFinite, Homes, Opens, Open
<1> QED  BY <1>1, <1>2, MembershipKeeps
         DEF MembershipInv, MembershipTypeOK, SessionsProved, Active,
             AcceptedAreMembers, FoundersAreProved

LEMMA PeopleStayFinite ==
    ASSUME MembershipInv, UNCHANGED <<account, invitation>>
    PROVE  PeopleFinite'
BY DEF MembershipInv, PeopleFinite, Homes, Opens, Open

LEMMA MembershipReturns ==
    ASSUME Shape, NEW w \in Slots, Return(w), call[w].op \in MembershipOps,
           NEW inv, NEW acc, NEW known
    PROVE  MembershipFits(call'[w], inv, acc, known)
<1>1. call'[w] = Idle
  BY Returned
<1> QED  BY <1>1 DEF MembershipFits, Idle

LEMMA WithCodeTyped ==
    ASSUME NEW row \in SessionRows
    PROVE  /\ WithCode(row) \in SessionRows
           /\ WithCode(row).verified = row.verified
           /\ WithCode(row).email = row.email
<1>1. 0 \in 0..MaxTries
  BY MembershipAssumption
<1>2. PICK new : new = [row EXCEPT !.company = TRUE, !.code = TRUE, !.tries = 0]
  OBVIOUS
<1>3. new \in SessionRows /\ new.verified = row.verified /\ new.email = row.email
  BY <1>1, <1>2 DEF SessionRows
<1> QED  BY <1>2, <1>3 DEF WithCode

LEMMA MembershipBegunKept ==
    ASSUME Shape, MembershipInv, NEW w \in Slots, Moves(w, MembershipOps),
           \/ \E e \in Emails : Invite(w, e)
           \/ \E e \in Emails, oauth \in BOOLEAN : StartSignup(w, e, oauth)
           \/ \E i \in Invitations : Revoke(w, i) \/ FindLate(w, i) \/ Accept(w, i)
           \/ \E s \in Sessions : SetCompany(w, s) \/ ResendOtp(w, s) \/ Complete(w, s)
    PROVE  MembershipInv'
<1>1. ASSUME NEW e \in Emails, Invite(w, e)
      PROVE  MembershipInv'
  <2>1. PICK limit : limit = EffectiveLimit("members", entitlements)
    OBVIOUS
  <2>2. CASE limit = Null
    <3>1. Begin(w, [op |-> "findInvitee", email |-> e])
      BY <1>1, <2>1, <2>2 DEF Invite
    <3>2. call'[w] = [op |-> "findInvitee", email |-> e]
      BY <3>1, Makes
    <3> QED  BY <1>1, <3>2, MembershipRests DEF Invite, MembershipFits
  <2>3. CASE limit # Null
    <3>1. Begin(w, [op |-> "countMembers", email |-> e, limit |-> limit])
      BY <1>1, <2>1, <2>3 DEF Invite
    <3>2. call'[w] = [op |-> "countMembers", email |-> e, limit |-> limit]
      BY <3>1, Makes
    <3> QED  BY <1>1, <3>2, MembershipRests DEF Invite, MembershipFits
  <2> QED  BY <2>2, <2>3
<1>2. ASSUME NEW e \in Emails, NEW oauth \in BOOLEAN, StartSignup(w, e, oauth)
      PROVE  MembershipInv'
  <2>1. call'[w] = [op |-> "createSession", email |-> e, oauth |-> oauth]
    BY <1>2, Makes DEF StartSignup
  <2> QED  BY <1>2, <2>1, MembershipRests DEF StartSignup, MembershipFits
<1>3. ASSUME NEW i \in Invitations, Revoke(w, i)
      PROVE  MembershipInv'
  <2>1. call'[w] = [op |-> "markRevoked", invitation |-> i]
    BY <1>3, Makes DEF Revoke
  <2> QED  BY <1>3, <2>1, MembershipRests DEF Revoke, Open, MembershipFits
<1>4. ASSUME NEW i \in Invitations, FindLate(w, i)
      PROVE  MembershipInv'
  <2>1. call'[w] = [op |-> "markExpired", invitation |-> i]
    BY <1>4, Makes DEF FindLate
  <2> QED  BY <1>4, <2>1, MembershipRests DEF FindLate, Open, MembershipFits
<1>5. ASSUME NEW i \in Invitations, Accept(w, i)
      PROVE  MembershipInv'
  <2>1. call'[w] = [op |-> "saveMember", invitation |-> i]
    BY <1>5, Makes DEF Accept
  <2> QED  BY <1>5, <2>1, MembershipRests DEF Accept, Open, MembershipFits
<1>6. ASSUME NEW s \in Sessions, Active(s)
      PROVE  /\ session[s] \in SessionRows
             /\ WithCode(session[s]) \in SessionRows
             /\ WithCode(session[s]).verified = session[s].verified
             /\ WithCode(session[s]).email = session[s].email
             /\ session[s].verified => session[s].email \in proved
  <2>1. session[s] \in SessionRows
    BY <1>6 DEF Active, MembershipInv, MembershipTypeOK
  <2>2. session[s].verified => session[s].email \in proved
    BY <1>6 DEF MembershipInv, SessionsProved
  <2> QED  BY <2>1, <2>2, WithCodeTyped
<1>7. ASSUME NEW s \in Sessions, SetCompany(w, s) \/ ResendOtp(w, s)
      PROVE  MembershipInv'
  <2>1. PICK row : row = WithCode(session[s])
    OBVIOUS
  <2>2. call'[w] = [op |-> "saveSession", session |-> s, row |-> row]
    BY <1>7, <2>1, Makes DEF SetCompany, ResendOtp, Prepare
  <2>3. row \in SessionRows /\ (row.verified => row.email \in proved)
    BY <1>6, <1>7, <2>1 DEF SetCompany, ResendOtp
  <2> QED  BY <1>7, <2>2, <2>3, MembershipRests DEF SetCompany, ResendOtp, MembershipFits
<1>8. ASSUME NEW s \in Sessions, Complete(w, s)
      PROVE  MembershipInv'
  <2>1. call'[w] = [op |-> "createOrganization", session |-> s,
                    email |-> session[s].email]
    BY <1>8, Makes DEF Complete
  <2>2. session[s].email \in proved
    BY <1>6, <1>8 DEF Complete, MayComplete
  <2> QED  BY <1>8, <2>1, <2>2, MembershipRests DEF Complete, MembershipFits
<1> QED  BY <1>1, <1>2, <1>3, <1>4, <1>5, <1>7, <1>8

LEMMA VerifyOtpKept ==
    ASSUME Shape, MembershipInv, NEW w \in Slots, Moves(w, MembershipOps),
           NEW s \in Sessions, VerifyOtp(w, s)
    PROVE  MembershipInv'
<1>1. /\ session[s] \in SessionRows
      /\ session[s].verified => session[s].email \in proved
      /\ session[s].tries < MaxTries
  BY DEF VerifyOtp, MayVerify, Active, MembershipInv, MembershipTypeOK, SessionsProved
<1>2. PICK row : /\ Prepare(w, s, row)
                 /\ \/ /\ row = [session[s] EXCEPT !.verified = TRUE, !.code = FALSE]
                       /\ proved' = proved \cup {session[s].email}
                    \/ /\ row = [session[s] EXCEPT !.tries = @ + 1]
                       /\ proved' = proved
  BY DEF VerifyOtp
<1>3. row \in SessionRows /\ (row.verified => row.email \in proved')
  <2>1. session[s].tries + 1 \in 0..MaxTries
    BY <1>1, MembershipAssumption DEF SessionRows
  <2>2. CASE /\ row = [session[s] EXCEPT !.verified = TRUE, !.code = FALSE]
             /\ proved' = proved \cup {session[s].email}
    <3>1. row \in SessionRows /\ row.email = session[s].email
      BY <1>1, <2>2 DEF SessionRows
    <3> QED  BY <2>2, <3>1
  <2>3. CASE /\ row = [session[s] EXCEPT !.tries = @ + 1]
             /\ proved' = proved
    <3>1. /\ row \in SessionRows /\ row.email = session[s].email
          /\ row.verified = session[s].verified
      BY <1>1, <2>1, <2>3 DEF SessionRows
    <3> QED  BY <1>1, <2>3, <3>1
  <2> QED  BY <1>2, <2>2, <2>3
<1>4. call'[w] = [op |-> "saveSession", session |-> s, row |-> row]
  BY <1>2, Makes DEF Prepare
<1>5. UNCHANGED <<account, organization, invitation, session, abandoned, missed>>
  BY DEF VerifyOtp
<1>6. MembershipFits(call'[w], invitation', account', proved')
  BY <1>3, <1>4 DEF MembershipFits
<1>7. proved \subseteq proved' /\ proved' \subseteq Emails
  BY <1>1, <1>2 DEF SessionRows, MembershipInv, MembershipTypeOK
<1>8. MembershipTypeOK' /\ SessionsProved' /\ AcceptedAreMembers' /\ FoundersAreProved'
  BY <1>5, <1>7 DEF MembershipInv, MembershipTypeOK, SessionsProved, Active,
                    AcceptedAreMembers, FoundersAreProved
<1> QED  BY <1>5, <1>6, <1>7, <1>8, MembershipKeeps, PeopleStayFinite

LEMMA SaveMemberKept ==
    ASSUME Shape, MembershipInv, NEW w \in Slots, Moves(w, MembershipOps), SaveMember(w)
    PROVE  MembershipInv'
<1>1. /\ call[w].invitation \in Invitations /\ invitation[call[w].invitation] # None
      /\ call[w].op \in MembershipOps
  BY DEF SaveMember, MembershipInv, MembershipFits, MembershipOps
<1>2. PICK i \in Invitations : i = call[w].invitation
  BY <1>1
<1>3. PICK email \in Emails : email = invitation[i].email
  BY <1>1, <1>2 DEF MembershipInv, MembershipTypeOK, InvitationRows
<1>4. CASE account[email] = Nobody
  <2>1. /\ account' = [account EXCEPT ![email] = Home]
        /\ GoOn(w, [op |-> "markAccepted", invitation |-> i])
        /\ UNCHANGED <<organization, invitation, session, proved, abandoned, missed>>
    BY <1>2, <1>3, <1>4 DEF SaveMember
  <2>2. call'[w] = [op |-> "markAccepted", invitation |-> i]
    BY <1>1, <2>1, Makes
  <2>3. /\ account' \in [Emails -> Organizations \cup {Home, Nobody}]
        /\ account'[email] = Home
        /\ \A e \in Emails : account[e] = Home => account'[e] = Home
    BY <2>1 DEF MembershipInv, MembershipTypeOK
  <2>4. MembershipFits(call'[w], invitation', account', proved')
    BY <1>1, <1>2, <1>3, <2>1, <2>2, <2>3 DEF MembershipFits
  <2>5. MembershipTypeOK' /\ SessionsProved' /\ FoundersAreProved'
    BY <2>1, <2>3 DEF MembershipInv, MembershipTypeOK, SessionsProved, Active,
                      FoundersAreProved
  <2>6. AcceptedAreMembers'
    BY <2>1, <2>3 DEF MembershipInv, MembershipTypeOK, InvitationRows, AcceptedAreMembers
  <2>7. PeopleFinite'
    <3>1. Homes' \subseteq Homes \cup {email}
      BY <2>1 DEF Homes, MembershipInv, MembershipTypeOK
    <3>2. IsFiniteSet(Homes \cup {email})
      BY FS_AddElement DEF MembershipInv, PeopleFinite
    <3>3. IsFiniteSet(Homes')
      BY <3>1, <3>2, FS_Subset
    <3>4. Opens' = Opens
      BY <2>1 DEF Opens, Open
    <3> QED  BY <3>3, <3>4 DEF MembershipInv, PeopleFinite
  <2> QED  BY <2>1, <2>3, <2>4, <2>5, <2>6, <2>7, MembershipKeeps
<1>5. CASE account[email] # Nobody
  <2>1. Return(w) /\ UNCHANGED membershipVars
    BY <1>2, <1>3, <1>5 DEF SaveMember, membershipVars, peopleVars
  <2>2. MembershipFits(call'[w], invitation, account, proved)
    BY <1>1, <2>1, MembershipReturns
  <2> QED  BY <2>1, <2>2, MembershipRests
<1> QED  BY <1>4, <1>5

LEMMA InvitationsKept ==
    ASSUME Shape, MembershipInv, NEW w \in Slots, Moves(w, MembershipOps),
           SaveInvitation(w) \/ UpdateStatus(w)
    PROVE  MembershipInv'
<1>1. call[w].op \in MembershipOps /\ Return(w)
  BY DEF SaveInvitation, UpdateStatus, MembershipOps
<1>2. MembershipFits(call'[w], invitation', account', proved')
  BY <1>1, MembershipReturns
<1>3. UNCHANGED <<account, organization, session, proved, abandoned, missed>>
  BY DEF SaveInvitation, UpdateStatus
<1>4. SessionsProved' /\ FoundersAreProved'
  BY <1>3 DEF MembershipInv, SessionsProved, Active, FoundersAreProved
<1>5. /\ invitation' \in [Invitations -> InvitationRows \cup {None}]
      /\ \A i \in Invitations :
            invitation[i] # None => /\ invitation'[i] # None
                                    /\ invitation'[i].email = invitation[i].email
      /\ AcceptedAreMembers'
      /\ \E j \in Invitations : Opens' \subseteq Opens \cup {j}
  <2>1. CASE SaveInvitation(w)
    <3>1. PICK j : j = NewId(Invitations, invitation)
      OBVIOUS
    <3>2. j \in Invitations /\ invitation[j] = None
      BY <2>1, <3>1 DEF SaveInvitation, Room, NewId
    <3>3. PICK row : row = [email |-> call[w].email, status |-> "pending", late |-> FALSE]
      OBVIOUS
    <3>4. row \in InvitationRows /\ row.status = "pending"
      BY <2>1, <3>3 DEF SaveInvitation, MembershipInv, MembershipFits, InvitationRows
    <3>5. invitation' = [invitation EXCEPT ![j] = row]
      BY <2>1, <3>1, <3>3 DEF SaveInvitation
    <3>6. Opens' \subseteq Opens \cup {j}
      BY <3>2, <3>5 DEF Opens, Open, MembershipInv, MembershipTypeOK
    <3> QED  BY <1>3, <3>2, <3>4, <3>5, <3>6
             DEF MembershipInv, MembershipTypeOK, AcceptedAreMembers
  <2>2. CASE UpdateStatus(w)
    <3>1. PICK j \in Invitations : j = call[w].invitation
      BY <2>2 DEF UpdateStatus, MembershipInv, MembershipFits
    <3>2. PICK status : status = MarkedBy(call[w].op)
      OBVIOUS
    <3>3. /\ invitation[j] \in InvitationRows
          /\ status = "accepted" => account[invitation[j].email] = Home
          /\ status \in {"revoked", "expired", "accepted"}
      BY <2>2, <3>1, <3>2
         DEF UpdateStatus, MembershipInv, MembershipTypeOK, MembershipFits, MarkedBy
    <3>4. PICK row : row = [invitation[j] EXCEPT !.status = status]
      OBVIOUS
    <3>5. /\ row \in InvitationRows /\ row.status = status
          /\ row.email = invitation[j].email
      BY <3>3, <3>4 DEF InvitationRows
    <3>6. invitation' = [invitation EXCEPT ![j] = row]
      BY <2>2, <3>1, <3>2, <3>4 DEF UpdateStatus
    <3>7. Opens' \subseteq Opens \cup {j}
      BY <3>1, <3>6 DEF Opens, Open, MembershipInv, MembershipTypeOK
    <3> QED  BY <1>3, <3>1, <3>3, <3>5, <3>6, <3>7, NoneApart
             DEF MembershipInv, MembershipTypeOK, AcceptedAreMembers
  <2> QED  BY <2>1, <2>2
<1>6. MembershipTypeOK'
  BY <1>3, <1>5 DEF MembershipInv, MembershipTypeOK
<1>7. PeopleFinite'
  <2>1. PICK j \in Invitations : Opens' \subseteq Opens \cup {j}
    BY <1>5
  <2>2. IsFiniteSet(Opens \cup {j})
    BY FS_AddElement DEF MembershipInv, PeopleFinite
  <2>3. IsFiniteSet(Opens')
    BY <2>1, <2>2, FS_Subset
  <2>4. Homes' = Homes
    BY <1>3 DEF Homes
  <2> QED  BY <2>3, <2>4 DEF MembershipInv, PeopleFinite
<1> QED  BY <1>2, <1>3, <1>4, <1>5, <1>6, <1>7, MembershipKeeps

LEMMA LapseKept ==
    ASSUME MembershipInv, NEW i \in Invitations, Lapse(i),
           \A v \in Slots : call'[v] = call[v] \/ call'[v].op \notin MembershipOps
    PROVE  MembershipInv'
<1>1. invitation[i] \in InvitationRows
  BY DEF Lapse, MembershipInv, MembershipTypeOK
<1>2. PICK row : row = [invitation[i] EXCEPT !.late = TRUE]
  OBVIOUS
<1>3. /\ row \in InvitationRows /\ row.status = invitation[i].status
      /\ row.email = invitation[i].email
  BY <1>1, <1>2 DEF InvitationRows
<1>4. /\ invitation' = [invitation EXCEPT ![i] = row]
      /\ UNCHANGED <<account, organization, session, proved, abandoned, missed>>
  BY <1>2 DEF Lapse
<1>5. /\ invitation \in [Invitations -> InvitationRows \cup {None}]
      /\ invitation' \in [Invitations -> InvitationRows \cup {None}]
      /\ \A j \in Invitations :
            invitation[j] # None => /\ invitation'[j] # None
                                    /\ invitation'[j].email = invitation[j].email
  BY <1>3, <1>4, NoneApart DEF MembershipInv, MembershipTypeOK
<1>6. AcceptedAreMembers'
  BY <1>1, <1>3, <1>4, NoneApart DEF MembershipInv, MembershipTypeOK, AcceptedAreMembers
<1>7. MembershipTypeOK' /\ SessionsProved' /\ FoundersAreProved'
  BY <1>4, <1>5 DEF MembershipInv, MembershipTypeOK, SessionsProved, Active,
                    FoundersAreProved
<1>8. \A c : MembershipFits(c, invitation, account, proved)
               => MembershipFits(c, invitation', account', proved')
  BY <1>4, <1>5, FitsLater
<1>9. \A c : c.op \notin MembershipOps =>
                 MembershipFits(c, invitation', account', proved')
  BY DEF MembershipFits, MembershipOps
<1>10. \A v \in Slots : MembershipFits(call'[v], invitation', account', proved')
  BY <1>8, <1>9 DEF MembershipInv
<1>11. Opens' = Opens /\ Homes' = Homes
  BY <1>1, <1>3, <1>4, NoneApart DEF Opens, Open, Homes, MembershipInv, MembershipTypeOK
<1> QED  BY <1>6, <1>7, <1>10, <1>11 DEF MembershipInv, PeopleFinite

LEMMA SessionsKept ==
    ASSUME Shape, MembershipInv, NEW w \in Slots, Moves(w, MembershipOps),
           CreateSession(w) \/ SaveSession(w) \/ DeleteSession(w)
    PROVE  MembershipInv'
<1>1. call[w].op \in MembershipOps /\ Return(w)
  BY DEF CreateSession, SaveSession, DeleteSession, MembershipOps
<1>2. MembershipFits(call'[w], invitation', account', proved')
  BY <1>1, MembershipReturns
<1>3. UNCHANGED <<account, organization, invitation, abandoned, missed>>
  BY DEF CreateSession, SaveSession, DeleteSession
<1>4. PICK s, row : /\ session' = [session EXCEPT ![s] = row]
                    /\ \/ row = Gone
                       \/ /\ row \in SessionRows
                          /\ row.verified => row.email \in proved'
                    /\ proved \subseteq proved' /\ proved' \subseteq Emails
  <2>1. CASE CreateSession(w)
    <3>1. call[w].email \in Emails /\ call[w].oauth \in BOOLEAN
      BY <2>1 DEF CreateSession, MembershipInv, MembershipFits
    <3>2. PICK row : row = [email |-> call[w].email, oauth |-> call[w].oauth,
                            company |-> FALSE, code |-> FALSE, tries |-> 0,
                            verified |-> call[w].oauth]
      OBVIOUS
    <3>3. row \in SessionRows /\ row.verified = call[w].oauth /\ row.email = call[w].email
      BY <3>1, <3>2, MembershipAssumption DEF SessionRows
    <3> QED  BY <2>1, <3>1, <3>2, <3>3 DEF CreateSession, MembershipInv, MembershipTypeOK
  <2>2. CASE SaveSession(w)
    BY <2>2 DEF SaveSession, MembershipInv, MembershipTypeOK, MembershipFits
  <2>3. CASE DeleteSession(w)
    BY <2>3 DEF DeleteSession, MembershipInv, MembershipTypeOK
  <2> QED  BY <2>1, <2>2, <2>3
<1>5. session' \in [Sessions -> SessionRows \cup {None, Gone}]
  BY <1>4 DEF MembershipInv, MembershipTypeOK
<1>6. SessionsProved'
  BY <1>4 DEF MembershipInv, MembershipTypeOK, SessionsProved, Active
<1>7. MembershipTypeOK' /\ AcceptedAreMembers' /\ FoundersAreProved'
  BY <1>3, <1>4, <1>5 DEF MembershipInv, MembershipTypeOK, AcceptedAreMembers,
                          FoundersAreProved
<1> QED  BY <1>2, <1>3, <1>4, <1>6, <1>7, MembershipKeeps, PeopleStayFinite

LEMMA FoundingKept ==
    ASSUME Shape, MembershipInv, NEW w \in Slots, Moves(w, MembershipOps),
           CreateOrganization(w) \/ CreateAccount(w)
    PROVE  MembershipInv'
<1>1. PICK email \in proved : email = call[w].email
  BY DEF CreateOrganization, CreateAccount, MembershipInv, MembershipFits
<1>2. email \in Emails /\ call[w].op \in MembershipOps
  BY DEF MembershipInv, MembershipTypeOK, CreateOrganization, CreateAccount, MembershipOps
<1>3. CASE CreateOrganization(w)
  <2>1. PICK o \in Organizations :
            /\ organization' = [organization EXCEPT ![o] = email]
            /\ GoOn(w, [op |-> "createAccount", session |-> call[w].session,
                        email |-> email, organization |-> o])
    BY <1>1, <1>3 DEF CreateOrganization
  <2>2. UNCHANGED <<account, invitation, session, proved, abandoned, missed>>
    BY <1>3 DEF CreateOrganization
  <2>3. call'[w] = [op |-> "createAccount", session |-> call[w].session,
                    email |-> email, organization |-> o]
    BY <1>2, <2>1, Makes
  <2>4. MembershipFits(call'[w], invitation', account', proved')
    BY <1>1, <2>2, <2>3 DEF MembershipFits
  <2>5. MembershipTypeOK' /\ FoundersAreProved'
    BY <1>2, <2>1, <2>2 DEF MembershipInv, MembershipTypeOK, FoundersAreProved
  <2>6. SessionsProved' /\ AcceptedAreMembers'
    BY <2>2 DEF MembershipInv, SessionsProved, Active, AcceptedAreMembers
  <2> QED  BY <2>2, <2>4, <2>5, <2>6, MembershipKeeps, PeopleStayFinite
<1>4. CASE CreateAccount(w) /\ account[email] = Nobody
  <2>1. PICK o \in Organizations :
            /\ account' = [account EXCEPT ![email] = o]
            /\ GoOn(w, [op |-> "deleteSession", session |-> call[w].session])
    BY <1>1, <1>4 DEF CreateAccount, MembershipInv, MembershipFits
  <2>2. UNCHANGED <<organization, invitation, session, proved, abandoned, missed>>
    BY <1>4 DEF CreateAccount
  <2>3. call'[w] = [op |-> "deleteSession", session |-> call[w].session]
    BY <1>2, <2>1, Makes
  <2>4. MembershipFits(call'[w], invitation', account', proved')
    BY <2>3 DEF MembershipFits
  <2>5. /\ account' \in [Emails -> Organizations \cup {Home, Nobody}]
        /\ \A e \in Emails : account[e] = Home => account'[e] = Home
    BY <1>2, <1>4, <2>1, NoneApart DEF MembershipInv, MembershipTypeOK
  <2>6. MembershipTypeOK' /\ FoundersAreProved' /\ SessionsProved'
    BY <2>2, <2>5 DEF MembershipInv, MembershipTypeOK, FoundersAreProved,
                      SessionsProved, Active
  <2>7. AcceptedAreMembers'
    BY <2>2, <2>5 DEF MembershipInv, MembershipTypeOK, InvitationRows, AcceptedAreMembers
  <2>8. Homes' = Homes /\ Opens' = Opens
    BY <1>2, <1>4, <2>1, <2>2, NoneApart, MembershipAssumption
       DEF Homes, Opens, Open, MembershipInv, MembershipTypeOK
  <2> QED  BY <2>2, <2>4, <2>5, <2>6, <2>7, <2>8, MembershipKeeps
           DEF MembershipInv, PeopleFinite
<1>5. CASE CreateAccount(w) /\ account[email] # Nobody
  <2>1. Return(w) /\ UNCHANGED membershipVars
    BY <1>1, <1>5 DEF CreateAccount, membershipVars, peopleVars
  <2>2. MembershipFits(call'[w], invitation, account, proved)
    BY <1>2, <2>1, MembershipReturns
  <2> QED  BY <2>1, <2>2, MembershipRests
<1> QED  BY <1>3, <1>4, <1>5

LEMMA FindInviteeKept ==
    ASSUME Shape, MembershipInv, NEW w \in Slots, Moves(w, MembershipOps), FindInvitee(w)
    PROVE  MembershipInv'
<1>1. call[w].op \in MembershipOps /\ call[w].email \in Emails
  BY DEF FindInvitee, MembershipInv, MembershipFits, MembershipOps
<1>2. CASE Return(w)
  BY <1>1, <1>2, MembershipReturns, MembershipRests DEF FindInvitee
<1>3. CASE GoOn(w, [op |-> "findInvitation", email |-> call[w].email])
  <2>1. call'[w] = [op |-> "findInvitation", email |-> call[w].email]
    BY <1>1, <1>3, Makes
  <2> QED  BY <1>1, <2>1, MembershipRests DEF MembershipFits, FindInvitee
<1> QED  BY <1>2, <1>3 DEF FindInvitee

LEMMA FindInvitationKept ==
    ASSUME Shape, MembershipInv, NEW w \in Slots, Moves(w, MembershipOps),
           FindInvitation(w)
    PROVE  MembershipInv'
<1>1. call[w].op \in MembershipOps /\ call[w].email \in Emails
  BY DEF FindInvitation, MembershipInv, MembershipFits, MembershipOps
<1>2. CASE Return(w)
  BY <1>1, <1>2, MembershipReturns, MembershipRests DEF FindInvitation
<1>3. CASE GoOn(w, [op |-> "saveInvitation", email |-> call[w].email])
  <2>1. call'[w] = [op |-> "saveInvitation", email |-> call[w].email]
    BY <1>1, <1>3, Makes
  <2> QED  BY <1>1, <2>1, MembershipRests DEF MembershipFits, FindInvitation
<1> QED  BY <1>2, <1>3 DEF FindInvitation

LEMMA CountsKept ==
    ASSUME Shape, MembershipInv, NEW w \in Slots, Moves(w, MembershipOps),
           \/ CountUsersFirst(w) \/ CountPendingFirst(w)
           \/ CountPending(w) \/ CountUsers(w)
    PROVE  MembershipInv'
<1>1. call[w].op \in MembershipOps /\ call[w].email \in Emails
  BY DEF CountUsersFirst, CountPendingFirst, CountPending, CountUsers,
         MembershipInv, MembershipFits, MembershipOps
<1>2. ASSUME Admit(w) \/ Return(w)
      PROVE  MembershipFits(call'[w], invitation, account, proved)
  <2>1. CASE Admit(w)
    <3>1. call'[w] = [op |-> "findInvitee", email |-> call[w].email]
      BY <1>1, <2>1, Makes DEF Admit
    <3> QED  BY <1>1, <3>1 DEF MembershipFits
  <2> QED  BY <1>1, <1>2, <2>1, MembershipReturns
<1>3. CASE CountUsersFirst(w)
  <2>1. GoOn(w, [op |-> "countPending", email |-> call[w].email,
                 limit |-> call[w].limit, users |-> Homes])
    BY <1>3 DEF CountUsersFirst
  <2>2. call'[w] = [op |-> "countPending", email |-> call[w].email,
                    limit |-> call[w].limit, users |-> Homes]
    BY <1>1, <2>1, Makes
  <2> QED  BY <1>1, <1>3, <2>2, MembershipRests DEF MembershipFits, CountUsersFirst
<1>4. CASE CountPendingFirst(w)
  <2>1. GoOn(w, [op |-> "countUsers", email |-> call[w].email,
                 limit |-> call[w].limit, pending |-> Cardinality(Opens)])
    BY <1>4 DEF CountPendingFirst
  <2>2. call'[w] = [op |-> "countUsers", email |-> call[w].email,
                    limit |-> call[w].limit, pending |-> Cardinality(Opens)]
    BY <1>1, <2>1, Makes
  <2> QED  BY <1>1, <1>4, <2>2, MembershipRests DEF MembershipFits, CountPendingFirst
<1>5. CASE CountUsers(w)
  BY <1>2, <1>5, MembershipRests DEF CountUsers
<1>6. CASE CountPending(w)
  <2>1. Cardinality(Homes \ call[w].users) \in Nat
    BY FS_Difference, FS_CardinalityType DEF MembershipInv, PeopleFinite
  <2>2. missed' \in Nat
    BY <1>6, <2>1 DEF CountPending, MembershipInv, MembershipTypeOK
  <2>3. UNCHANGED <<account, organization, invitation, session, proved, abandoned>>
    BY <1>6 DEF CountPending, peopleVars
  <2>4. Admit(w) \/ Return(w)
    BY <1>6 DEF CountPending
  <2>5. MembershipTypeOK' /\ SessionsProved' /\ AcceptedAreMembers' /\ FoundersAreProved'
    BY <2>2, <2>3 DEF MembershipInv, MembershipTypeOK, SessionsProved, Active,
                      AcceptedAreMembers, FoundersAreProved
  <2> QED  BY <1>2, <2>3, <2>4, <2>5, MembershipKeeps, PeopleStayFinite
<1> QED  BY <1>3, <1>4, <1>5, <1>6

\* Handlers that end leave organizations behind; the rows stay.
LEMMA FoundersLostKept ==
    ASSUME MembershipInv, NEW ended \in SUBSET Slots, FoundersLost(ended),
           \A v \in Slots : call'[v] = call[v] \/ call'[v].op \notin MembershipOps
    PROVE  MembershipInv'
<1>1. UNCHANGED <<account, organization, invitation, session, proved, missed>>
  BY DEF FoundersLost, peopleVars
<1>2. abandoned' \subseteq Organizations
  BY DEF FoundersLost, MembershipInv, MembershipTypeOK, MembershipFits
<1>3. \A c : c.op \notin MembershipOps =>
                 MembershipFits(c, invitation', account', proved')
  BY DEF MembershipFits, MembershipOps
<1>4. \A v \in Slots : MembershipFits(call'[v], invitation', account', proved')
  BY <1>1, <1>3 DEF MembershipInv
<1>5. MembershipTypeOK' /\ SessionsProved' /\ AcceptedAreMembers' /\ FoundersAreProved'
  BY <1>1, <1>2 DEF MembershipInv, MembershipTypeOK, SessionsProved, Active,
                    AcceptedAreMembers, FoundersAreProved
<1> QED  BY <1>1, <1>4, <1>5, PeopleStayFinite DEF MembershipInv

LEMMA MembershipNext ==
    ASSUME Shape, MembershipInv, [Next]_vars
    PROVE  MembershipInv'
<1>1. ASSUME NEW w \in Slots, MembershipStep(w), Moves(w, MembershipOps)
      PROVE  MembershipInv'
  BY <1>1, MembershipBegunKept, VerifyOtpKept, SaveMemberKept, InvitationsKept,
     SessionsKept, FoundingKept, FindInviteeKept, FindInvitationKept, CountsKept
     DEF MembershipStep
<1>2. ASSUME UNCHANGED membershipVars,
             \A v \in Slots : call'[v] = call[v] \/ call'[v].op \notin MembershipOps
      PROVE  MembershipInv'
  <2>1. FoundersLost({})
    BY <1>2 DEF FoundersLost, membershipVars
  <2> QED  BY <1>2, <2>1, FoundersLostKept
<1> QED  BY <1>1, <1>2, MembershipApart, LapseKept, FoundersLostKept

LEMMA StagesTyped ==
    ASSUME NEW e \in Emails, NEW row \in Stages(e)
    PROVE  row \in SessionRows /\ row.email = e
<1>1. ASSUME NEW oauth \in BOOLEAN
      PROVE  Started(e, oauth) \in SessionRows /\ Started(e, oauth).email = e
  <2>1. 0 \in 0..MaxTries
    BY MembershipAssumption
  <2> QED  BY <2>1 DEF Started, SessionRows
<1>2. Named(e) \in SessionRows /\ Named(e).email = e
  BY <1>1, WithCodeTyped DEF Named
<1>3. PICK new : new = [Named(e) EXCEPT !.code = FALSE, !.verified = TRUE]
  OBVIOUS
<1>4. new \in SessionRows /\ new.email = e
  BY <1>2, <1>3 DEF SessionRows
<1> QED  BY <1>1, <1>2, <1>3, <1>4 DEF Stages

LEMMA MembershipStart ==
    ASSUME Init
    PROVE  MembershipInv
<1>1. PICK row \in SessionRows :
        /\ session = [s \in Sessions |-> IF s = First(Sessions) THEN row ELSE None]
        /\ proved = IF row.verified THEN {row.email} ELSE {}
        /\ invitation = [i \in Invitations |->
             IF i = First(Invitations)
             THEN [email |-> row.email, status |-> "pending", late |-> FALSE]
             ELSE None]
  <2>1. First(FirstSessions) \in FirstSessions
    BY WorkspaceAssumption DEF First
  <2>2. \A row \in FirstSessions : row \in SessionRows
    BY WorkspaceAssumption, StagesTyped
  <2> QED  BY <2>1, <2>2 DEF Init, MembershipInit
<1>2. row.email \in Emails
  BY DEF SessionRows
<1>3. /\ account = [e \in Emails |-> IF e = Owner THEN Home ELSE Nobody]
      /\ organization = [o \in Organizations |-> Nobody]
      /\ abandoned = {} /\ missed = 0
  BY DEF Init, MembershipInit
<1>4. MembershipTypeOK /\ SessionsProved
  BY <1>1, <1>2, <1>3 DEF MembershipTypeOK, InvitationRows, SessionsProved, Active
<1>5. AcceptedAreMembers /\ FoundersAreProved
  BY <1>1, <1>3 DEF AcceptedAreMembers, FoundersAreProved
<1>6. \A w \in Slots : MembershipFits(call[w], invitation, account, proved)
  BY DEF Init, SlotsInit, Idle, MembershipFits
<1>7. PeopleFinite
  <2>1. Homes \subseteq {Owner} /\ Opens \subseteq {First(Invitations)}
    BY <1>1, <1>3, NoneApart DEF Homes, Opens, Open
  <2> QED  BY <2>1, FS_Singleton, FS_Subset DEF PeopleFinite
<1> QED  BY <1>4, <1>5, <1>6, <1>7 DEF MembershipInv

(***************************************************************************)
(* The address of an accepted invitation has its account in the            *)
(* organization, whichever requests of accept, revoke, validateToken and   *)
(* sign-ups with the same address overlap, and wherever a restart falls.   *)
(***************************************************************************)
THEOREM AcceptedHaveAccounts == Spec => []AcceptedAreMembers
<1>1. Init => Shape /\ MembershipInv
  BY InitShape, MembershipStart
<1>2. Shape /\ MembershipInv /\ [Next]_vars => Shape' /\ MembershipInv'
  BY NextKnown, MembershipNext
<1>3. MembershipInv => AcceptedAreMembers
  BY DEF MembershipInv
<1> QED  BY <1>1, <1>2, <1>3, PTL DEF Spec

(***************************************************************************)
(* Whoever founded an organization had proved the address, by a code or    *)
(* through an identity provider, although the session that complete reads  *)
(* may have been saved from a copy that is older than another request's.   *)
(***************************************************************************)
THEOREM FoundersProveTheirEmail == Spec => []FoundersAreProved
<1>1. Init => Shape /\ MembershipInv
  BY InitShape, MembershipStart
<1>2. Shape /\ MembershipInv /\ [Next]_vars => Shape' /\ MembershipInv'
  BY NextKnown, MembershipNext
<1>3. MembershipInv => FoundersAreProved
  BY DEF MembershipInv
<1> QED  BY <1>1, <1>2, <1>3, PTL DEF Spec

-----------------------------------------------------------------------------
(* Approved deletions.  A request keeps what it is about, an approval is   *)
(* committed with the deletion, and a row that is gone comes back only     *)
(* through a handler that had read it before.                              *)

RemovalFits(c, req) ==
    /\ c.op \in {"findPending", "saveRequest", "cancelPending", "removeItem",
                 "saveItem", "saveCampaign", "saveTicked"} => c.item \in Items
    /\ c.op \in {"findApproved", "commitApproval"} =>
            /\ {"request", "item"} \subseteq DOMAIN c
            /\ c.request \in Requests /\ req[c.request] # Absent
            /\ c.item = req[c.request].about
    /\ c.op \in {"selectAnswered", "updateAnswered"} =>
            /\ {"request", "answer"} \subseteq DOMAIN c
            /\ c.request \in Requests /\ req[c.request] # Absent
            /\ c.answer \in {"rejected", "cancelled"}

RequestsLinked ==
    \A r \in Requests : Made(r) => request[r].item \in {request[r].about, Null}

RemovalInv ==
    /\ RemovalTypeOK
    /\ RequestsLinked
    /\ ApprovedMeansDeleted
    /\ \A w \in Slots : RemovalFits(call[w], request)

\* Requests keep what they are about, and may lose their link to it.
Continues(old, new) ==
    \A r \in Requests :
        old[r] # Absent => /\ new[r] # Absent
                           /\ new[r].about = old[r].about
                           /\ new[r].item \in {old[r].item, Null}

LEMMA RemovalApart ==
    ASSUME Shape, [Next]_vars
    PROVE  \/ \E w \in Slots : Removes(w) /\ Moves(w, RemovalOps)
           \/ \E w \in Slots : PlanStep(w) /\ Moves(w, PlanOps)
           \/ /\ UNCHANGED removalVars
              /\ \A v \in Slots : \/ call'[v] = call[v]
                                  \/ call'[v].op \notin RemovalOps \cup PlanOps
<1>1. ASSUME NEW w \in Slots, NEW Ops \in AllOps, Ops \notin {RemovalOps, PlanOps},
             Moves(w, Ops), StepOf(w, Ops)
      PROVE  /\ UNCHANGED removalVars
             /\ Elsewhere(RemovalOps) /\ Elsewhere(PlanOps)
  BY <1>1, Aside, OpsDistinct DEF StepOf
<1>2. CASE CutShort
  BY <1>2, CutShortKnown, OpsDistinct, OpsApart DEF Idle
<1>3. CASE Besides /\ ~CutShort
  BY <1>3 DEF Besides
<1> QED  BY <1>1, <1>2, <1>3, NextKnown, OpsDistinct DEF Elsewhere, StepOf

LEMMA AnsweredRows ==
    ASSUME RemovalTypeOK, NEW rs \in SUBSET Requests, \A r \in rs : Made(r),
           NEW answer \in {"approved", "rejected", "cancelled"},
           NEW new, new = Answered(rs, answer)
    PROVE  /\ new \in [Requests -> RequestRows \cup {Absent}]
           /\ \A r \in Requests : new[r] # Absent <=> Made(r)
           /\ \A r \in Requests : Made(r) =>
                /\ new[r].item = request[r].item /\ new[r].about = request[r].about
                /\ new[r].status = IF r \in rs THEN answer ELSE request[r].status
<1>1. ASSUME NEW r \in rs
      PROVE  /\ new[r] \in RequestRows
             /\ new[r].item = request[r].item /\ new[r].about = request[r].about
             /\ new[r].status = answer
  <2>1. request[r] \in RequestRows
    BY DEF RemovalTypeOK, Made
  <2>2. new[r] = [request[r] EXCEPT !.status = answer]
    BY DEF Answered
  <2> QED  BY <2>1, <2>2 DEF RequestRows
<1>2. \A r \in Requests \ rs : new[r] = request[r]
  BY DEF Answered
<1>3. new = [r \in Requests |-> new[r]]
  BY DEF Answered
<1> QED  BY <1>1, <1>2, <1>3, RemovalAssumption DEF RemovalTypeOK, Made

LEMMA UnlinkedRows ==
    ASSUME NEW table \in [Requests -> RequestRows \cup {Absent}], NEW i,
           NEW new, new = Unlinked(table, i)
    PROVE  /\ new \in [Requests -> RequestRows \cup {Absent}]
           /\ \A r \in Requests : new[r] # Absent <=> table[r] # Absent
           /\ \A r \in Requests : table[r] # Absent =>
                /\ new[r].item \in {table[r].item, Null}
                /\ new[r].about = table[r].about /\ new[r].status = table[r].status
<1>1. ASSUME NEW r \in Requests, table[r] # Absent, table[r].item = i
      PROVE  /\ new[r] \in RequestRows
             /\ new[r].item = Null /\ new[r].about = table[r].about
             /\ new[r].status = table[r].status
  <2>1. table[r] \in RequestRows
    BY <1>1
  <2>2. new[r] = [table[r] EXCEPT !.item = Null]
    BY <1>1 DEF Unlinked
  <2> QED  BY <2>1, <2>2 DEF RequestRows
<1>2. \A r \in Requests : ~(table[r] # Absent /\ table[r].item = i) => new[r] = table[r]
  BY DEF Unlinked
<1>3. new = [r \in Requests |-> new[r]]
  BY DEF Unlinked
<1> QED  BY <1>1, <1>2, <1>3, RemovalAssumption

LEMMA RemovalFitsLater ==
    ASSUME NEW c, NEW req, NEW req2, RemovalFits(c, req), Continues(req, req2)
    PROVE  RemovalFits(c, req2)
BY DEF RemovalFits, Continues

LEMMA RemovalKeeps ==
    ASSUME RemovalInv, NEW w \in Slots, Moves(w, RemovalOps) \/ Moves(w, PlanOps),
           RemovalTypeOK', Continues(request, request'),
           \A r \in Requests : (Made(r)' /\ ~Made(r)) =>
               request'[r].item \in {request'[r].about, Null},
           \A i \in Items : item[i] = "gone" => item'[i] = "gone" \/ i \in revived',
           revived \subseteq revived',
           \A r \in Requests : (Made(r)' /\ request'[r].status = "approved") =>
               \/ Made(r) /\ request[r].status = "approved"
               \/ item'[request'[r].about] = "gone",
           RemovalFits(call'[w], request')
    PROVE  RemovalInv'
<1>1. RequestsLinked'
  BY DEF RemovalInv, RequestsLinked, Continues, Made
<1>2. \A r \in Requests : Made(r) => request[r].about \in Items
  BY DEF RemovalInv, RemovalTypeOK, RequestRows, Made
<1>3. ApprovedMeansDeleted'
  BY <1>2 DEF RemovalInv, ApprovedMeansDeleted, Continues, Made
<1>4. \A c : RemovalFits(c, request) => RemovalFits(c, request')
  BY RemovalFitsLater
<1>5. \A v \in Slots : RemovalFits(call'[v], request')
  BY <1>4 DEF RemovalInv, Moves
<1> QED  BY <1>1, <1>3, <1>5 DEF RemovalInv

\* The requests are as they were, and so is what a row that is gone means.
LEMMA RemovalItems ==
    ASSUME RemovalInv, NEW w \in Slots, Moves(w, RemovalOps) \/ Moves(w, PlanOps),
           request' = request, item' \in [Items -> {"absent", "live", "gone"}],
           \A i \in Items : item[i] = "gone" => item'[i] = "gone" \/ i \in revived',
           revived \subseteq revived', revived' \subseteq Items,
           imported' \subseteq Items,
           RemovalFits(call'[w], request)
    PROVE  RemovalInv'
<1>1. RemovalTypeOK'
  BY DEF RemovalInv, RemovalTypeOK
<1>2. Continues(request, request')
  BY DEF Continues
<1> QED  BY <1>1, <1>2, RemovalKeeps DEF Made

LEMMA RemovalRests ==
    ASSUME RemovalInv, NEW w \in Slots, Moves(w, RemovalOps) \/ Moves(w, PlanOps),
           UNCHANGED removalVars, RemovalFits(call'[w], request)
    PROVE  RemovalInv'
BY RemovalItems DEF RemovalInv, RemovalTypeOK, removalVars

LEMMA RemovalReturns ==
    ASSUME Shape, NEW w \in Slots, Return(w), NEW req
    PROVE  RemovalFits(call'[w], req)
<1>1. call'[w] = Idle
  BY Makes DEF Return
<1> QED  BY <1>1 DEF RemovalFits, Idle

LEMMA RemovalBegunKept ==
    ASSUME Shape, RemovalInv, NEW w \in Slots, Moves(w, RemovalOps),
           \/ \E key \in Keys : CreateItem(w, key)
           \/ \E i \in Items : DeleteItem(w, i) \/ UpdateItem(w, i) \/ AskDelete(w, i)
           \/ \E r \in Requests :
                 \/ Approve(w, r)
                 \/ \E answer \in {"rejected", "cancelled"} : Answer(w, r, answer)
           \/ ImportItems(w)
    PROVE  RemovalInv'
<1>1. ASSUME NEW key \in Keys, CreateItem(w, key)
      PROVE  RemovalInv'
  <2>1. call'[w] = [op |-> "insertItem", kind |-> key]
    BY <1>1, Makes DEF CreateItem
  <2> QED  BY <1>1, <2>1, RemovalRests DEF CreateItem, RemovalFits
<1>2. ASSUME ImportItems(w)
      PROVE  RemovalInv'
  <2>1. call'[w] = [op |-> "importItems", kind |-> "prospects"]
    BY <1>2, Makes DEF ImportItems
  <2> QED  BY <1>2, <2>1, RemovalRests DEF ImportItems, RemovalFits
<1>3. ASSUME NEW i \in Items, DeleteItem(w, i)
      PROVE  RemovalInv'
  <2>1. call'[w] = [op |-> "cancelPending", item |-> i]
    BY <1>3, Makes DEF DeleteItem
  <2> QED  BY <1>3, <2>1, RemovalRests DEF DeleteItem, RemovalFits
<1>4. ASSUME NEW i \in Items, UpdateItem(w, i)
      PROVE  RemovalInv'
  <2>1. call'[w] = [op |-> "saveItem", item |-> i]
    BY <1>4, Makes DEF UpdateItem
  <2> QED  BY <1>4, <2>1, RemovalRests DEF UpdateItem, RemovalFits
<1>5. ASSUME NEW i \in Items, AskDelete(w, i)
      PROVE  RemovalInv'
  <2>1. call'[w] = [op |-> "findPending", item |-> i]
    BY <1>5, Makes DEF AskDelete
  <2> QED  BY <1>5, <2>1, RemovalRests DEF AskDelete, RemovalFits
<1>6. ASSUME NEW r \in Requests, Approve(w, r)
      PROVE  RemovalInv'
  <2>1. PICK i : i = request[r].item
    OBVIOUS
  <2>2. call'[w] = [op |-> "findApproved", request |-> r, item |-> i]
    BY <1>6, <2>1, Makes DEF Approve
  <2>3. request[r] # Absent /\ i = request[r].about
    BY <1>6, <2>1 DEF Approve, Pending, Made, RemovalInv, RequestsLinked
  <2> QED  BY <1>6, <2>2, <2>3, RemovalRests DEF Approve, RemovalFits
<1>7. ASSUME NEW r \in Requests, NEW answer \in {"rejected", "cancelled"},
             Answer(w, r, answer)
      PROVE  RemovalInv'
  <2>1. PICK i : i = request[r].item
    OBVIOUS
  <2>2. call'[w] = [op |-> "selectAnswered", request |-> r, item |-> i,
                    answer |-> answer]
    BY <1>7, <2>1, Makes DEF Answer
  <2>3. request[r] # Absent
    BY <1>7 DEF Answer, Pending, Made
  <2> QED  BY <1>7, <2>2, <2>3, RemovalRests DEF Answer, RemovalFits
<1> QED  BY <1>1, <1>2, <1>3, <1>4, <1>5, <1>6, <1>7

\* The steps that look before the row or the request is written
LEMMA RemovalLookKept ==
    ASSUME Shape, RemovalInv, NEW w \in Slots, Moves(w, RemovalOps),
           FindPending(w) \/ FindApproved(w) \/ SelectAnswered(w)
    PROVE  RemovalInv'
<1>1. RemovalFits(call[w], request) /\ UNCHANGED removalVars
  BY DEF RemovalInv, FindPending, FindApproved, SelectAnswered
<1>2. CASE Return(w)
  BY <1>1, <1>2, RemovalReturns, RemovalRests
<1>3. CASE /\ FindPending(w)
           /\ GoOn(w, [op |-> "saveRequest", item |-> call[w].item])
  <2>1. call'[w] = [op |-> "saveRequest", item |-> call[w].item]
    BY <1>3, Makes
  <2>2. RemovalFits(call'[w], request)
    BY <1>1, <1>3, <2>1 DEF RemovalFits, FindPending
  <2> QED  BY <1>1, <2>2, RemovalRests
<1>4. ASSUME NEW c, NEW name, c = [call[w] EXCEPT !.op = name], GoOn(w, c),
             \/ FindApproved(w) /\ name = "commitApproval"
             \/ SelectAnswered(w) /\ name = "updateAnswered"
      PROVE  RemovalInv'
  <2>1. call'[w] = c
    BY <1>4, Makes
  <2>2. /\ c.op = name
        /\ DOMAIN c = DOMAIN call[w]
        /\ \A f \in DOMAIN c : f # "op" => c[f] = call[w][f]
    BY <1>4, Renamed DEF Shape
  <2>3. RemovalFits(c, request)
    BY <1>1, <1>4, <2>2 DEF RemovalFits, FindApproved, SelectAnswered
  <2> QED  BY <1>1, <2>1, <2>3, RemovalRests
<1>5. CASE FindApproved(w)
  BY <1>2, <1>4, <1>5 DEF FindApproved
<1>6. CASE SelectAnswered(w)
  BY <1>2, <1>4, <1>6 DEF SelectAnswered
<1> QED  BY <1>2, <1>3, <1>5, <1>6 DEF FindPending

LEMMA RestoredKept ==
    ASSUME Shape, RemovalInv, NEW w \in Slots, Moves(w, RemovalOps) \/ Moves(w, PlanOps),
           call[w].op \in {"saveItem", "saveCampaign", "saveTicked"},
           Restored(call[w].item), Return(w) \/ UNCHANGED slotVars
    PROVE  RemovalInv'
<1>1. PICK i \in Items : i = call[w].item
  BY DEF RemovalInv, RemovalFits
<1>2. /\ item' = [item EXCEPT ![i] = "live"]
      /\ revived' = IF item[i] = "live" THEN revived ELSE revived \cup {i}
      /\ UNCHANGED <<request, imported>>
  BY <1>1 DEF Restored
<1>3. RemovalFits(call'[w], request)
  BY RemovalReturns DEF slotVars, RemovalInv
<1> QED  BY <1>2, <1>3, RemovalItems DEF RemovalInv, RemovalTypeOK

LEMMA RowsInsertedKept ==
    ASSUME Shape, RemovalInv, NEW w \in Slots, Moves(w, RemovalOps),
           InsertItem(w) \/ InsertImported(w)
    PROVE  RemovalInv'
<1>1. RemovalFits(call'[w], request) /\ request' = request /\ revived' = revived
  BY RemovalReturns DEF InsertItem, InsertImported
<1>2. CASE InsertItem(w)
  <2>1. PICK i \in Unborn(call[w].kind) : item' = [item EXCEPT ![i] = "live"]
    BY <1>2 DEF InsertItem
  <2>2. i \in Items /\ item[i] = "absent" /\ imported' = imported
    BY <1>2, <2>1 DEF Unborn, InsertItem
  <2> QED  BY <1>1, <2>1, <2>2, RemovalItems DEF RemovalInv, RemovalTypeOK
<1>3. CASE InsertImported(w)
  <2>1. PICK new \in SUBSET Unborn(call[w].kind) :
            /\ item' = [i \in Items |-> IF i \in new THEN "live" ELSE item[i]]
            /\ imported' = imported \cup new
    BY <1>3 DEF InsertImported
  <2>2. new \subseteq Items /\ \A i \in new : item[i] = "absent"
    BY <2>1 DEF Unborn
  <2> QED  BY <1>1, <2>1, <2>2, RemovalItems DEF RemovalInv, RemovalTypeOK
<1> QED  BY <1>2, <1>3

LEMMA CancelPendingKept ==
    ASSUME Shape, RemovalInv, NEW w \in Slots, Moves(w, RemovalOps), CancelPending(w)
    PROVE  RemovalInv'
<1>1. PICK rs \in SUBSET Requests : /\ \A r \in rs : Made(r)
                                    /\ request' = Answered(rs, "cancelled")
  BY DEF CancelPending, Pending
<1>2. call[w].item \in Items
  BY DEF CancelPending, RemovalInv, RemovalFits
<1>3. call'[w] = [op |-> "removeItem", item |-> call[w].item]
  BY Makes DEF CancelPending
<1>4. RemovalFits(call'[w], request')
  BY <1>2, <1>3 DEF RemovalFits
<1>5. UNCHANGED <<item, revived, imported>>
  BY DEF CancelPending
<1>6. /\ request' \in [Requests -> RequestRows \cup {Absent}]
      /\ \A r \in Requests : request'[r] # Absent <=> Made(r)
      /\ \A r \in Requests : Made(r) =>
           /\ request'[r].item = request[r].item /\ request'[r].about = request[r].about
           /\ request'[r].status = IF r \in rs THEN "cancelled" ELSE request[r].status
  BY <1>1, AnsweredRows DEF RemovalInv
<1>7. RemovalTypeOK' /\ Continues(request, request')
  BY <1>5, <1>6 DEF RemovalInv, RemovalTypeOK, Continues, Made
<1> QED  BY <1>4, <1>5, <1>6, <1>7, RemovalKeeps DEF Made

LEMMA UpdateAnsweredKept ==
    ASSUME Shape, RemovalInv, NEW w \in Slots, Moves(w, RemovalOps), UpdateAnswered(w)
    PROVE  RemovalInv'
<1>1. /\ call[w].request \in Requests /\ Made(call[w].request)
      /\ call[w].answer \in {"rejected", "cancelled"}
  BY DEF UpdateAnswered, RemovalInv, RemovalFits, Made
<1>2. PICK rs \in SUBSET Requests, answer \in {call[w].answer} :
        rs = {call[w].request} /\ request' = Answered(rs, answer)
  BY <1>1 DEF UpdateAnswered
<1>3. RemovalFits(call'[w], request')
  BY RemovalReturns DEF UpdateAnswered
<1>4. UNCHANGED <<item, revived, imported>>
  BY DEF UpdateAnswered
<1>5. /\ request' \in [Requests -> RequestRows \cup {Absent}]
      /\ \A r \in Requests : request'[r] # Absent <=> Made(r)
      /\ \A r \in Requests : Made(r) =>
           /\ request'[r].item = request[r].item /\ request'[r].about = request[r].about
           /\ request'[r].status = IF r \in rs THEN answer ELSE request[r].status
  BY <1>1, <1>2, AnsweredRows DEF RemovalInv
<1>6. RemovalTypeOK' /\ Continues(request, request')
  BY <1>4, <1>5 DEF RemovalInv, RemovalTypeOK, Continues, Made
<1> QED  BY <1>1, <1>2, <1>3, <1>4, <1>5, <1>6, RemovalKeeps DEF Made

LEMMA SaveRequestKept ==
    ASSUME Shape, RemovalInv, NEW w \in Slots, Moves(w, RemovalOps), SaveRequest(w)
    PROVE  RemovalInv'
<1>1. PICK i \in Items : i = call[w].item
  BY DEF SaveRequest, RemovalInv, RemovalFits
<1>2. PICK r, new :
        /\ r \in Requests /\ ~Made(r)
        /\ new = [item |-> i, about |-> i, status |-> "pending"]
        /\ request' = request \/ request' = [request EXCEPT ![r] = new]
  BY <1>1 DEF SaveRequest
<1>3. new \in RequestRows /\ new.item = i /\ new.about = i /\ new.status = "pending"
  BY <1>2 DEF RequestRows
<1>4. RemovalFits(call'[w], request')
  BY RemovalReturns DEF SaveRequest
<1>5. UNCHANGED <<item, revived, imported>>
  BY DEF SaveRequest
<1>6. /\ RemovalTypeOK'
      /\ \A q \in Requests : q # r => request'[q] = request[q]
      /\ request'[r] = request[r] \/ request'[r] = new
  BY <1>2, <1>3, <1>5 DEF RemovalInv, RemovalTypeOK
<1>7. Continues(request, request')
  BY <1>2, <1>6 DEF Continues, Made
<1> QED  BY <1>2, <1>3, <1>4, <1>5, <1>6, <1>7, RemovalKeeps DEF Made

LEMMA RemovalDoneKept ==
    ASSUME Shape, RemovalInv, NEW w \in Slots, Moves(w, RemovalOps), Return(w),
           NEW table \in [Requests -> RequestRows \cup {Absent}], NEW i \in Items,
           Removal(table, i),
           \A r \in Requests : table[r] # Absent <=> Made(r),
           \A r \in Requests : Made(r) =>
                /\ table[r].item = request[r].item /\ table[r].about = request[r].about
                /\ table[r].status = "approved" =>
                       request[r].status = "approved" \/ request[r].about = i
    PROVE  RemovalInv'
<1>1. /\ item' = [item EXCEPT ![i] = "gone"]
      /\ request' = Unlinked(table, i)
      /\ UNCHANGED <<revived, imported>>
  BY DEF Removal
<1>2. /\ request' \in [Requests -> RequestRows \cup {Absent}]
      /\ \A r \in Requests : request'[r] # Absent <=> table[r] # Absent
      /\ \A r \in Requests : table[r] # Absent =>
           /\ request'[r].item \in {table[r].item, Null}
           /\ request'[r].about = table[r].about /\ request'[r].status = table[r].status
  BY <1>1, UnlinkedRows
<1>3. RemovalFits(call'[w], request')
  BY RemovalReturns
<1>4. /\ item' \in [Items -> {"absent", "live", "gone"}] /\ item'[i] = "gone"
      /\ \A j \in Items : item[j] = "gone" => item'[j] = "gone"
  BY <1>1 DEF RemovalInv, RemovalTypeOK
<1>5. RemovalTypeOK'
  BY <1>1, <1>2, <1>4 DEF RemovalInv, RemovalTypeOK
<1>6. Continues(request, request')
  BY <1>2 DEF Continues, Made
<1> QED  BY <1>1, <1>2, <1>3, <1>4, <1>5, <1>6, RemovalKeeps DEF Made

LEMMA RowsRemovedKept ==
    ASSUME Shape, RemovalInv, NEW w \in Slots, Moves(w, RemovalOps),
           RemoveItem(w) \/ CommitApproval(w)
    PROVE  RemovalInv'
<1>1. Return(w)
  BY DEF RemoveItem, CommitApproval
<1>2. CASE UNCHANGED removalVars
  BY <1>1, <1>2, RemovalRests, RemovalReturns
<1>3. CASE RemoveItem(w) /\ Removal(request, call[w].item)
  <2>1. PICK i \in Items : i = call[w].item
    BY <1>3 DEF RemoveItem, RemovalInv, RemovalFits
  <2>2. request \in [Requests -> RequestRows \cup {Absent}]
    BY DEF RemovalInv, RemovalTypeOK
  <2>3. PICK table : table = request
    OBVIOUS
  <2> QED  BY <1>1, <1>3, <2>1, <2>2, <2>3, RemovalDoneKept DEF Made
<1>4. CASE /\ CommitApproval(w)
           /\ Removal(Answered({call[w].request}, "approved"), call[w].item)
  <2>1. PICK r \in Requests : r = call[w].request /\ Made(r)
    BY <1>4 DEF CommitApproval, RemovalInv, RemovalFits, Made
  <2>2. PICK i : i = call[w].item /\ i = request[r].about
    BY <1>4, <2>1 DEF CommitApproval, RemovalInv, RemovalFits
  <2>3. i \in Items
    BY <2>1, <2>2 DEF RemovalInv, RemovalTypeOK, RequestRows, Made
  <2>4. PICK table : table = Answered({r}, "approved")
    OBVIOUS
  <2>5. /\ table \in [Requests -> RequestRows \cup {Absent}]
        /\ \A q \in Requests : table[q] # Absent <=> Made(q)
        /\ \A q \in Requests : Made(q) =>
             /\ table[q].item = request[q].item /\ table[q].about = request[q].about
             /\ table[q].status = IF q \in {r} THEN "approved" ELSE request[q].status
    BY <2>1, <2>4, AnsweredRows DEF RemovalInv
  <2>6. Removal(table, i)
    BY <1>4, <2>1, <2>2, <2>4
  <2>7. \A q \in Requests : Made(q) =>
          /\ table[q].item = request[q].item /\ table[q].about = request[q].about
          /\ table[q].status = "approved" =>
                 request[q].status = "approved" \/ request[q].about = i
    BY <2>2, <2>5
  <2>8. /\ table \in [Requests -> RequestRows \cup {Absent}]
        /\ \A q \in Requests : table[q] # Absent <=> Made(q)
    BY <2>5
  <2> HIDE <2>4
  <2> QED  BY <1>1, <2>3, <2>6, <2>7, <2>8, RemovalDoneKept
<1> QED  BY <1>2, <1>3, <1>4 DEF RemoveItem, CommitApproval, ApprovalCommitted

LEMMA PlansLeaveRequests ==
    ASSUME Shape, RemovalInv, NEW w \in Slots, Moves(w, PlanOps), PlanStep(w)
    PROVE  RemovalInv'
<1>1. ASSUME NEW i \in Campaigns, NEW c, NEW seen,
             c = [op |-> "saveRecipient", item |-> i, seen |-> seen]
               \/ c = [op |-> "saveCampaign", item |-> i, seen |-> seen]
               \/ c = [op |-> "saveTicked", item |-> i, seen |-> seen],
             Begin(w, c), UNCHANGED removalVars
      PROVE  RemovalInv'
  <2>1. call'[w] = c /\ i \in Items
    BY <1>1, Makes DEF Campaigns
  <2> QED  BY <1>1, <2>1, RemovalRests DEF RemovalFits
<1>2. ASSUME NEW i \in Campaigns, NEW cal \in Calendars, NEW n \in Audiences,
             Schedule(w, i, cal, n)
      PROVE  RemovalInv'
  <2>1. call'[w] = [op |-> "saveSchedule", item |-> i, calendar |-> cal, audience |-> n]
    BY <1>2, Makes DEF Schedule
  <2> QED  BY <1>2, <2>1, RemovalRests DEF Schedule, RemovalFits
<1>3. CASE SaveSchedule(w) \/ SaveRecipient(w)
  BY <1>3, RemovalRests, RemovalReturns DEF SaveSchedule, SaveRecipient
<1>4. CASE SaveCampaign(w) \/ SaveTicked(w)
  BY <1>4, RestoredKept DEF SaveCampaign, SaveTicked
<1>5. ASSUME NEW i \in Campaigns,
             AddRecipient(w, i) \/ UpdateCampaign(w, i) \/ TickCampaign(w, i)
      PROVE  RemovalInv'
  BY <1>1, <1>5 DEF AddRecipient, UpdateCampaign, TickCampaign
<1> QED  BY <1>2, <1>3, <1>4, <1>5 DEF PlanStep

LEMMA RemovalNext ==
    ASSUME Shape, RemovalInv, [Next]_vars
    PROVE  RemovalInv'
<1>1. ASSUME NEW w \in Slots, Removes(w), Moves(w, RemovalOps)
      PROVE  RemovalInv'
  <2>1. CASE SaveItem(w)
    BY <1>1, <2>1, RestoredKept DEF SaveItem
  <2> QED  BY <1>1, <2>1, RemovalBegunKept, RemovalLookKept, RowsInsertedKept,
              CancelPendingKept, UpdateAnsweredKept, SaveRequestKept, RowsRemovedKept
           DEF Removes, RowStep, RequestStep, ImportStep
<1>2. ASSUME UNCHANGED removalVars,
             \A v \in Slots : \/ call'[v] = call[v]
                              \/ call'[v].op \notin RemovalOps \cup PlanOps
      PROVE  RemovalInv'
  <2>1. \A v \in Slots : RemovalFits(call'[v], request)
    BY <1>2 DEF RemovalInv, RemovalFits, RemovalOps, PlanOps
  <2> QED  BY <1>2, <2>1 DEF RemovalInv, RemovalTypeOK, RequestsLinked,
              ApprovedMeansDeleted, Made, removalVars
<1> QED  BY <1>1, <1>2, RemovalApart, PlansLeaveRequests

LEMMA RemovalStart ==
    ASSUME Init
    PROVE  RemovalInv
<1>1. \A w \in Slots : RemovalFits(call[w], request)
  BY DEF Init, SlotsInit, Idle, RemovalFits
<1> QED  BY <1>1 DEF Init, RemovalInit, RemovalInv, RemovalTypeOK, RequestsLinked,
            ApprovedMeansDeleted, Made

(***************************************************************************)
(* What an approved request was about has been deleted, and is there again *)
(* only if an edit that had read it before saved it afterwards: whichever  *)
(* approvals, deletions, rejections and edits of campaigns and prospects   *)
(* overlap, and wherever a restart falls (approveDeleteRequest).           *)
(***************************************************************************)
THEOREM ApprovalsDelete == Spec => []ApprovedMeansDeleted
<1>1. Init => Shape /\ RemovalInv
  BY InitShape, RemovalStart
<1>2. Shape /\ RemovalInv /\ [Next]_vars => Shape' /\ RemovalInv'
  BY NextKnown, RemovalNext
<1>3. RemovalInv => ApprovedMeansDeleted
  BY DEF RemovalInv
<1> QED  BY <1>1, <1>2, <1>3, PTL DEF Spec

-----------------------------------------------------------------------------
(* Calendars.  The library's induction theorems take an operator that the  *)
(* provers cannot instantiate; that a set of numbers has a least one       *)
(* follows from what it says of finite sets, and serves as well.           *)

LEMMA LeastNumber ==
    ASSUME NEW some \in SUBSET Nat, some # {}
    PROVE  \E n \in some : \A m \in some : n <= m
<1>1. PICK top \in some : TRUE
  OBVIOUS
<1>2. PICK all : all = 0..top
  OBVIOUS
<1>3. IsFiniteSet(all)
  BY <1>1, <1>2, FS_Interval
<1>4. PICK down : down = {0..n : n \in {n \in some : n <= top}}
  OBVIOUS
<1>5. down \subseteq SUBSET all /\ down # {}
  BY <1>1, <1>2, <1>4
<1>6. PICK order : order = StrictSubsetOrdering(all)
  OBVIOUS
<1>7. IsWellFoundedOn(order, SUBSET all)
  BY <1>3, <1>6, FS_StrictSubsetOrderingWellFounded, FS_FiniteSubsetsOfFinite
<1>8. PICK x \in down : \A y \in down : <<y, x>> \notin order
  BY <1>5, <1>7, WFMin
<1>9. PICK n \in some : x = 0..n /\ n <= top
  BY <1>4
<1>10. ASSUME NEW m \in some, m < n
       PROVE  FALSE
  <2>1. 0..m \in down /\ 0..m \in SUBSET all /\ x \in SUBSET all
    BY <1>1, <1>2, <1>4, <1>9, <1>10
  <2>2. 0..m \subseteq x /\ 0..m # x
    BY <1>9, <1>10
  <2>3. <<0..m, x>> \in order
    BY <1>6, <2>1, <2>2 DEF StrictSubsetOrdering
  <2> QED  BY <1>8, <2>1, <2>3
<1> QED  BY <1>10

LEMMA NumbersFollow ==
    ASSUME NEW some, 0 \in some, \A n \in Nat : n \in some => n + 1 \in some
    PROVE  \A n \in Nat : n \in some
<1>1. PICK others : others = {n \in Nat : n \notin some}
  OBVIOUS
<1>2. ASSUME others # {}
      PROVE  FALSE
  <2>1. PICK n \in others : \A m \in others : n <= m
    BY <1>1, <1>2, LeastNumber
  <2>2. n \in Nat /\ n # 0 /\ n - 1 \in Nat /\ n - 1 \notin others
    BY <1>1, <2>1
  <2> QED  BY <1>1, <2>1, <2>2
<1> QED  BY <1>1, <1>2

\* The active days from one day to another; and the n-th of them
ActiveIn(from, to, c) == {day \in from..to : ActiveDay(day, c)}
Numbered(day, n, from, c) ==
    /\ day \in Nat /\ from <= day /\ ActiveDay(day, c)
    /\ Cardinality(ActiveIn(from, day, c)) = n

LEMMA ActiveCounted ==
    ASSUME NEW c, NEW from \in Nat, NEW to \in Nat
    PROVE  /\ IsFiniteSet(ActiveIn(from, to, c))
           /\ Cardinality(ActiveIn(from, to, c)) \in Nat
<1>1. IsFiniteSet(from..to) /\ ActiveIn(from, to, c) \subseteq from..to
  BY FS_Interval DEF ActiveIn
<1> QED  BY <1>1, FS_Subset, FS_CardinalityType

\* An active day more or less
LEMMA ActiveOneMore ==
    ASSUME NEW c, NEW from \in Nat, NEW to \in Nat, NEW s \in Nat, NEW t \in Nat,
           NEW day, day \notin ActiveIn(from, to, c),
           ActiveIn(s, t, c) = ActiveIn(from, to, c) \cup {day}
    PROVE  Cardinality(ActiveIn(s, t, c)) = Cardinality(ActiveIn(from, to, c)) + 1
BY ActiveCounted, FS_AddElement

LEMMA ActiveFirst ==
    ASSUME NEW c, NEW from \in Nat, NEW to \in Nat, from <= to
    PROVE  Cardinality(ActiveIn(from, to, c))
             = IF ActiveDay(from, c) THEN Cardinality(ActiveIn(from + 1, to, c)) + 1
               ELSE Cardinality(ActiveIn(from + 1, to, c))
<1>1. from + 1 \in Nat
  OBVIOUS
<1>2. CASE ActiveDay(from, c)
  <2>1. /\ from \notin ActiveIn(from + 1, to, c)
        /\ ActiveIn(from, to, c) = ActiveIn(from + 1, to, c) \cup {from}
    BY <1>2 DEF ActiveIn
  <2> QED  BY <1>1, <1>2, <2>1, ActiveOneMore
<1>3. CASE ~ActiveDay(from, c)
  <2>1. ActiveIn(from, to, c) = ActiveIn(from + 1, to, c)
    BY <1>3 DEF ActiveIn
  <2> QED  BY <1>3, <2>1
<1> QED  BY <1>2, <1>3

LEMMA ActiveNone ==
    ASSUME NEW c, NEW from \in Nat
    PROVE  Cardinality(ActiveIn(from + 1, from, c)) = 0
<1>1. ActiveIn(from + 1, from, c) = {}
  BY DEF ActiveIn
<1> QED  BY <1>1, FS_EmptySet

\* A later active day has a higher number.
LEMMA LaterIsHigher ==
    ASSUME NEW c, NEW from \in Nat, NEW d \in Nat, NEW e \in Nat, NEW m, NEW n,
           Numbered(d, m, from, c), Numbered(e, n, from, c), d < e
    PROVE  m < n
<1>1. PICK some : some = ActiveIn(from, d, c)
  OBVIOUS
<1>2. PICK more : more = ActiveIn(from, e, c)
  OBVIOUS
<1>3. IsFiniteSet(some) /\ IsFiniteSet(more)
  BY <1>1, <1>2, ActiveCounted
<1>4. some \cup {e} \subseteq more /\ e \notin some
  BY <1>1, <1>2 DEF ActiveIn, Numbered
<1>5. IsFiniteSet(some \cup {e}) /\ Cardinality(some \cup {e}) = Cardinality(some) + 1
  BY <1>3, <1>4, FS_AddElement
<1>6. Cardinality(some \cup {e}) <= Cardinality(more)
  BY <1>3, <1>4, FS_Subset
<1>7. Cardinality(some) \in Nat /\ Cardinality(more) \in Nat
  BY <1>3, FS_CardinalityType
<1>8. Cardinality(some) = m /\ Cardinality(more) = n
  BY <1>1, <1>2 DEF Numbered
<1> QED  BY <1>5, <1>6, <1>7, <1>8

LEMMA NumberedOnce ==
    ASSUME NEW c, NEW from \in Nat, NEW d \in Nat, NEW e \in Nat, NEW n,
           Numbered(d, n, from, c), Numbered(e, n, from, c)
    PROVE  d = e
<1>1. n \in Nat
  BY ActiveCounted DEF Numbered
<1>2. ~(d < e) /\ ~(e < d)
  BY <1>1, LaterIsHigher
<1> QED  BY <1>2

\* Seen from the day after, a day has the same number, or one less.
LEMMA NumberedFromNext ==
    ASSUME NEW c, NEW from \in Nat, NEW d \in Nat, NEW n
    PROVE  /\ Numbered(d, n, from, c) /\ d # from
                => Numbered(d, IF ActiveDay(from, c) THEN n - 1 ELSE n, from + 1, c)
           /\ Numbered(d, n, from, c) => n \in Nat \ {0}
           /\ Numbered(from, n, from, c) => n = 1
           /\ ActiveDay(from, c) => Numbered(from, 1, from, c)
<1>1. from + 1 \in Nat
  OBVIOUS
<1>2. ASSUME Numbered(d, n, from, c), d # from
      PROVE  Numbered(d, IF ActiveDay(from, c) THEN n - 1 ELSE n, from + 1, c)
  <2>1. from + 1 <= d /\ from <= d /\ n = Cardinality(ActiveIn(from, d, c))
    BY <1>2 DEF Numbered
  <2>2. Cardinality(ActiveIn(from + 1, d, c)) \in Nat
    BY <1>1, ActiveCounted
  <2>3. Cardinality(ActiveIn(from + 1, d, c)) = IF ActiveDay(from, c) THEN n - 1 ELSE n
    BY <2>1, <2>2, ActiveFirst
  <2> QED  BY <1>2, <2>1, <2>3 DEF Numbered
<1>3. ASSUME Numbered(d, n, from, c)
      PROVE  n \in Nat \ {0}
  <2>1. IsFiniteSet(ActiveIn(from, d, c)) /\ n = Cardinality(ActiveIn(from, d, c))
    BY <1>3, ActiveCounted DEF Numbered
  <2>2. d \in ActiveIn(from, d, c)
    BY <1>3 DEF ActiveIn, Numbered
  <2> QED  BY <2>1, <2>2, FS_EmptySet, FS_CardinalityType
<1>4. ActiveDay(from, c) => Cardinality(ActiveIn(from, from, c)) = 1
  BY ActiveFirst, ActiveNone
<1> QED  BY <1>2, <1>3, <1>4 DEF Numbered

\* Every week has an active day, so that there is a next one.
LEMMA ActiveSoon ==
    ASSUME NEW c, IsCalendar(c), NEW from \in Nat
    PROVE  \E d \in Nat : from <= d /\ ActiveDay(d, c)
<1>1. PICK day \in 0..6 : day \in c.weekdays
  BY DEF IsCalendar
<1>2. 7 * from + day \in Nat /\ from <= 7 * from + day /\ (7 * from + day) % 7 = day
  OBVIOUS
<1> QED  BY <1>1, <1>2 DEF ActiveDay

LEMMA NextActive ==
    ASSUME NEW c, IsCalendar(c), NEW from \in Nat
    PROVE  \E d \in Nat : /\ from <= d /\ ActiveDay(d, c)
                          /\ \A x \in from..(d - 1) : ~ActiveDay(x, c)
<1>1. PICK some : some = {d \in Nat : from <= d /\ ActiveDay(d, c)}
  OBVIOUS
<1>2. some \in SUBSET Nat /\ some # {}
  BY <1>1, ActiveSoon
<1>3. PICK d \in some : \A m \in some : d <= m
  BY <1>2, LeastNumber
<1> QED  BY <1>1, <1>3

LEMMA NumberedExists ==
    ASSUME NEW c, IsCalendar(c), NEW from \in Nat
    PROVE  \A n \in Nat \ {0} : \E d \in Nat : Numbered(d, n, from, c)
<1>1. PICK some : some = {n \in Nat : \E d \in Nat : Numbered(d, n + 1, from, c)}
  OBVIOUS
<1>2. 0 \in some
  <2>1. PICK d \in Nat : /\ from <= d /\ ActiveDay(d, c)
                         /\ \A x \in from..(d - 1) : ~ActiveDay(x, c)
    BY NextActive
  <2>2. ActiveIn(from, d, c) = {d}
    BY <2>1 DEF ActiveIn
  <2>3. Cardinality({d}) = 1
    BY FS_Singleton
  <2>4. Numbered(d, 1, from, c)
    BY <2>1, <2>2, <2>3 DEF Numbered
  <2>5. 0 + 1 = 1
    OBVIOUS
  <2> QED  BY <1>1, <2>4, <2>5
<1>3. ASSUME NEW n \in Nat, n \in some
      PROVE  n + 1 \in some
  <2>1. PICK d \in Nat : Numbered(d, n + 1, from, c)
    BY <1>1, <1>3
  <2>2. PICK e \in Nat : /\ d + 1 <= e /\ ActiveDay(e, c)
                         /\ \A x \in (d + 1)..(e - 1) : ~ActiveDay(x, c)
    BY NextActive
  <2>3. /\ ActiveIn(from, e, c) = ActiveIn(from, d, c) \cup {e}
        /\ e \notin ActiveIn(from, d, c)
    BY <2>1, <2>2 DEF ActiveIn, Numbered
  <2>4. Cardinality(ActiveIn(from, e, c)) = Cardinality(ActiveIn(from, d, c)) + 1
    BY <2>3, ActiveOneMore
  <2>5. Cardinality(ActiveIn(from, d, c)) = n + 1 /\ from <= e
    BY <2>1, <2>2 DEF Numbered
  <2>6. Numbered(e, (n + 1) + 1, from, c)
    BY <2>2, <2>4, <2>5 DEF Numbered
  <2> QED  BY <1>1, <1>3, <2>6
<1>4. \A n \in Nat : n \in some
  BY <1>2, <1>3, NumbersFollow
<1>5. ASSUME NEW n \in Nat \ {0}
      PROVE  \E d \in Nat : Numbered(d, n, from, c)
  <2>1. n - 1 \in some /\ (n - 1) + 1 = n
    BY <1>4
  <2> QED  BY <1>1, <2>1
<1> QED  BY <1>5

\* addActiveDays: the loop arrives at the day with the number that is wanted.
Onward(f, at, c) ==
    IF at[2] = 0 \/ (ActiveDay(at[1], c) /\ at[2] = 1) THEN at[1]
    ELSE f[<<at[1] + 1, IF ActiveDay(at[1], c) THEN at[2] - 1 ELSE at[2]>>]
Walks(f, c) == f = [at \in Nat \X Nat |-> Onward(f, at, c)]

LEMMA WalkAt ==
    ASSUME NEW c, NEW f, Walks(f, c), NEW from \in Nat, NEW n \in Nat
    PROVE  f[<<from, n>>] =
             IF n = 0 \/ (ActiveDay(from, c) /\ n = 1) THEN from
             ELSE f[<<from + 1, IF ActiveDay(from, c) THEN n - 1 ELSE n>>]
<1>1. f[<<from, n>>] = Onward(f, <<from, n>>, c)
  <2>1. <<from, n>> \in Nat \X Nat
    OBVIOUS
  <2> QED  BY <2>1 DEF Walks
<1> QED  BY <1>1 DEF Onward

LEMMA WalkArrives ==
    ASSUME NEW c, NEW f, Walks(f, c), NEW from \in Nat, NEW d \in Nat, NEW n,
           Numbered(d, n, from, c)
    PROVE  f[<<from, n>>] = d
<1>1. PICK some :
        some = {k \in Nat : \A s \in Nat, m \in Nat :
                    Numbered(s + k, m, s, c) => f[<<s, m>>] = s + k}
  OBVIOUS
<1>2. 0 \in some
  <2>1. ASSUME NEW s \in Nat, NEW m \in Nat, Numbered(s + 0, m, s, c)
        PROVE  f[<<s, m>>] = s + 0
    <3>1. Numbered(s, m, s, c) /\ s + 0 = s
      BY <2>1
    <3>2. m = 1 /\ ActiveDay(s, c)
      BY <3>1, NumberedFromNext DEF Numbered
    <3>3. f[<<s, m>>] = IF m = 0 \/ (ActiveDay(s, c) /\ m = 1) THEN s
                        ELSE f[<<s + 1, IF ActiveDay(s, c) THEN m - 1 ELSE m>>]
      BY WalkAt
    <3> QED  BY <3>2, <3>3
  <2> QED  BY <1>1, <2>1
<1>3. ASSUME NEW k \in Nat, k \in some
      PROVE  k + 1 \in some
  <2>1. ASSUME NEW s \in Nat, NEW m \in Nat, Numbered(s + (k + 1), m, s, c)
        PROVE  f[<<s, m>>] = s + (k + 1)
    <3>1. PICK e \in Nat : e = s + (k + 1) /\ e = (s + 1) + k /\ e # s
      OBVIOUS
    <3>2. PICK less : less = IF ActiveDay(s, c) THEN m - 1 ELSE m
      OBVIOUS
    <3>3. Numbered(e, less, s + 1, c) /\ m \in Nat \ {0}
      BY <2>1, <3>1, <3>2, NumberedFromNext
    <3>4. less \in Nat \ {0}
      <4>1. s + 1 \in Nat
        OBVIOUS
      <4> QED  BY <3>3, <4>1, NumberedFromNext
    <3>5. f[<<s + 1, less>>] = e
      BY <1>1, <1>3, <3>1, <3>3, <3>4
    <3>6. ~(m = 0 \/ (ActiveDay(s, c) /\ m = 1))
      BY <3>2, <3>3, <3>4
    <3>7. f[<<s, m>>] = f[<<s + 1, less>>]
      BY <3>2, <3>6, WalkAt
    <3> QED  BY <3>1, <3>5, <3>7
  <2> QED  BY <1>1, <2>1
<1>4. \A k \in Nat : k \in some
  BY <1>2, <1>3, NumbersFollow
<1>5. d - from \in Nat /\ from + (d - from) = d /\ n \in Nat
  BY NumberedFromNext DEF Numbered
<1> QED  BY <1>1, <1>4, <1>5

LEMMA WalkExists ==
    ASSUME NEW c, IsCalendar(c)
    PROVE  \E f : Walks(f, c)
<1>1. PICK f : f = [at \in Nat \X Nat |->
                      IF at[2] = 0 THEN at[1]
                      ELSE CHOOSE d \in Nat : Numbered(d, at[2], at[1], c)]
  OBVIOUS
<1>2. ASSUME NEW s \in Nat, NEW n \in Nat \ {0}
      PROVE  f[<<s, n>>] \in Nat /\ Numbered(f[<<s, n>>], n, s, c)
  <2>1. f[<<s, n>>] = CHOOSE d \in Nat : Numbered(d, n, s, c)
    BY <1>1
  <2>2. \E d \in Nat : Numbered(d, n, s, c)
    BY NumberedExists
  <2> QED  BY <2>1, <2>2
<1>3. ASSUME NEW s \in Nat, NEW n \in Nat
      PROVE  f[<<s, n>>] = Onward(f, <<s, n>>, c)
  <2>1. CASE n = 0
    BY <1>1, <2>1 DEF Onward
  <2>2. CASE n = 1 /\ ActiveDay(s, c)
    <3>1. Numbered(s, 1, s, c)
      BY <2>2, NumberedFromNext
    <3>2. f[<<s, n>>] = s
      BY <1>2, <2>2, <3>1, NumberedOnce
    <3> QED  BY <2>2, <3>2 DEF Onward
  <2>3. CASE n # 0 /\ ~(n = 1 /\ ActiveDay(s, c))
    <3>1. PICK less \in Nat \ {0} : less = IF ActiveDay(s, c) THEN n - 1 ELSE n
      BY <2>3
    <3>2. PICK d \in Nat : d = f[<<s, n>>] /\ Numbered(d, n, s, c)
      BY <1>2, <2>3
    <3>3. d # s
      BY <2>3, <3>2, NumberedFromNext DEF Numbered
    <3>4. Numbered(d, less, s + 1, c)
      BY <3>1, <3>2, <3>3, NumberedFromNext
    <3>5. f[<<s + 1, less>>] \in Nat /\ Numbered(f[<<s + 1, less>>], less, s + 1, c)
      BY <1>2
    <3>6. f[<<s + 1, less>>] = d
      BY <3>4, <3>5, NumberedOnce
    <3>7. Onward(f, <<s, n>>, c) = f[<<s + 1, less>>]
      BY <2>3, <3>1 DEF Onward
    <3> QED  BY <3>2, <3>6, <3>7
  <2> QED  BY <2>1, <2>2, <2>3
<1>4. \A at \in Nat \X Nat : f[at] = Onward(f, at, c)
  BY <1>3
<1> QED  BY <1>1, <1>4 DEF Walks

(***************************************************************************)
(* What addActiveDays returns for any day, number n and calendar: the day  *)
(* itself if n is 0, else the n-th active day from that day on, which is   *)
(* counted too when it is active.  So the walk over the calendar always    *)
(* ends, and on an active day.                                             *)
(***************************************************************************)
THEOREM AddsActiveDays ==
    ASSUME NEW c, IsCalendar(c), NEW from \in Nat, NEW n \in Nat
    PROVE  /\ AddActiveDays(from, n, c) \in Nat
           /\ n = 0 => AddActiveDays(from, n, c) = from
           /\ n # 0 => Numbered(AddActiveDays(from, n, c), n, from, c)
<1> DEFINE walk == CHOOSE f : Walks(f, c)
<1>1. AddActiveDays(from, n, c) = walk[<<from, n>>]
  BY DEF AddActiveDays, Walks, Onward
<1>2. Walks(walk, c)
  BY WalkExists
<1> HIDE DEF walk
<1>3. CASE n = 0
  <2>1. walk[<<from, n>>]
          = IF n = 0 \/ (ActiveDay(from, c) /\ n = 1) THEN from
            ELSE walk[<<from + 1, IF ActiveDay(from, c) THEN n - 1 ELSE n>>]
    BY <1>2, WalkAt
  <2> QED  BY <1>1, <1>3, <2>1
<1>4. CASE n # 0
  <2>1. PICK d \in Nat : Numbered(d, n, from, c)
    BY <1>4, NumberedExists
  <2> QED  BY <1>1, <1>2, <1>4, <2>1, WalkArrives
<1> QED  BY <1>3, <1>4

\* Batches.  The recipients of the q-th day are numbered q * b + 1 .. q * b + b.
LEMMA Quotient ==
    ASSUME NEW b \in Nat \ {0}, NEW n \in Nat
    PROVE  n \div b \in Nat /\ (n \div b) * b <= n /\ n < (n \div b) * b + b
OBVIOUS

LEMMA QuotientOf ==
    ASSUME NEW b \in Nat \ {0}, NEW n \in Nat, NEW q \in Nat, q * b <= n, n < q * b + b
    PROVE  n \div b = q
OBVIOUS

LEMMA Multiples ==
    ASSUME NEW b \in Nat \ {0}, NEW m \in Nat, NEW q \in Nat, m < q
    PROVE  m * b + b <= q * b
OBVIOUS

LEMMA ProductNatural ==
    ASSUME NEW b \in Nat \ {0}, NEW q \in Nat
    PROVE  q * b \in Nat
OBVIOUS

LEMMA PlannedDays ==
    ASSUME NEW c, IsCalendar(c), NEW n \in Nat
    PROVE  /\ PlannedDay(n, c) \in Nat
           /\ n \div c.batch = 0 => PlannedDay(n, c) = c.launch
           /\ n \div c.batch # 0 =>
                 Numbered(PlannedDay(n, c), n \div c.batch, c.launch, c)
<1>1. c.batch \in Nat \ {0} /\ c.launch \in Nat
  BY DEF IsCalendar
<1>2. PICK q \in Nat : q = n \div c.batch
  BY <1>1, Quotient
<1>3. PICK from \in Nat : from = c.launch
  BY <1>1
<1>4. PlannedDay(n, c) = AddActiveDays(from, q, c)
  BY <1>2, <1>3 DEF PlannedDay, DayIndex
<1>5. /\ AddActiveDays(from, q, c) \in Nat
      /\ q = 0 => AddActiveDays(from, q, c) = from
      /\ q # 0 => Numbered(AddActiveDays(from, q, c), q, from, c)
  BY AddsActiveDays
<1> QED  BY <1>2, <1>3, <1>4, <1>5

\* Among n recipients none is due after the last day.
LEMMA EndDays ==
    ASSUME NEW c, IsCalendar(c), NEW n \in Nat
    PROVE  /\ EndDay(n, c) \in Nat
           /\ \A k \in 1..n : PlannedDay(k - 1, c) <= EndDay(n, c)
<1>1. PICK b \in Nat \ {0} : b = c.batch
  BY DEF IsCalendar
<1>2. c.launch \in Nat
  BY DEF IsCalendar
<1>3. PICK up \in Nat : up = (n + b - 1) \div b /\ n + b - 1 < up * b + b
  <2>1. n + b - 1 \in Nat
    OBVIOUS
  <2> QED  BY <2>1, Quotient
<1>4. PICK m \in Nat \ {0} : m = AtLeastOne(up)
  BY DEF AtLeastOne
<1>5. PICK end \in Nat : end = EndDay(n, c) /\ Numbered(end, m, c.launch, c)
  <2>1. EndDay(n, c) = AddActiveDays(c.launch, m, c)
    BY <1>1, <1>3, <1>4 DEF EndDay
  <2> QED  BY <1>2, <2>1, AddsActiveDays
<1>6. ASSUME NEW k \in 1..n
      PROVE  PlannedDay(k - 1, c) <= end
  <2>1. PICK i \in Nat : i = k - 1 /\ i < n
    OBVIOUS
  <2>2. PICK q \in Nat : q = i \div b /\ q * b <= i
    BY Quotient
  <2>3. q < m
    <3>1. CASE m <= q
      <4>1. up <= q
        BY <1>4, <3>1 DEF AtLeastOne
      <4>2. up * b <= q * b
        <5>1. CASE up = q
          BY <5>1
        <5>2. CASE up < q
          BY <5>2, Multiples
        <5> QED  BY <4>1, <5>1, <5>2
      <4>3. up * b \in Nat /\ q * b \in Nat
        BY ProductNatural
      <4> QED  BY <1>3, <2>1, <2>2, <4>2, <4>3
    <3> QED  BY <3>1
  <2>4. /\ PlannedDay(i, c) \in Nat
        /\ q = 0 => PlannedDay(i, c) = c.launch
        /\ q # 0 => Numbered(PlannedDay(i, c), q, c.launch, c)
    BY <1>1, <2>2, PlannedDays
  <2>5. q # 0 => ~(end < PlannedDay(i, c))
    <3>1. PICK day \in Nat : day = PlannedDay(i, c)
      BY <2>4
    <3>2. CASE q # 0 /\ end < day
      BY <1>2, <1>5, <2>3, <2>4, <3>1, <3>2, LaterIsHigher
    <3> QED  BY <3>1, <3>2
  <2>6. c.launch <= end
    BY <1>5 DEF Numbered
  <2> QED  BY <1>5, <2>1, <2>4, <2>5, <2>6
<1> QED  BY <1>5, <1>6

LEMMA AtMost ==
    ASSUME NEW some, NEW a \in Nat, NEW n \in Nat, some \subseteq (a + 1)..(a + n)
    PROVE  IsFiniteSet(some) /\ Cardinality(some) \in Nat /\ Cardinality(some) <= n
<1>1. PICK all : all = (a + 1)..(a + n)
  OBVIOUS
<1>2. IsFiniteSet(all) /\ Cardinality(all) = IF a + 1 > a + n THEN 0 ELSE (a + n) - (a + 1) + 1
  BY <1>1, FS_Interval
<1>3. Cardinality(all) = n
  BY <1>2
<1>4. IsFiniteSet(some) /\ Cardinality(some) <= Cardinality(all)
  BY <1>1, <1>2, FS_Subset
<1> QED  BY <1>3, <1>4, FS_CardinalityType

LEMMA AtLeast ==
    ASSUME NEW some, IsFiniteSet(some), NEW a \in Nat, NEW n \in Nat,
           (a + 1)..(a + n) \subseteq some
    PROVE  Cardinality(some) >= n
<1>1. PICK all : all = (a + 1)..(a + n)
  OBVIOUS
<1>2. IsFiniteSet(all) /\ Cardinality(all) = IF a + 1 > a + n THEN 0 ELSE (a + n) - (a + 1) + 1
  BY <1>1, FS_Interval
<1>3. Cardinality(all) = n
  BY <1>2
<1>4. Cardinality(all) <= Cardinality(some)
  BY <1>1, FS_Subset
<1> QED  BY <1>3, <1>4, FS_CardinalityType

\* The recipients are planned one after the other.
InOrder(p) ==
    /\ p.count = Len(p.days)
    /\ \A k \in 1..p.count : p.days[k] = PlannedDay(k - 1, p.calendar)

PlanFits(p) ==
    (p # Draft /\ ~p.overlap) =>
        /\ InOrder(p)
        /\ p.listed \in 1..p.count
        /\ p.end = EndDay(p.listed, p.calendar)

\* Which day the k-th recipient is on
LEMMA OrderedDays ==
    ASSUME NEW p, p \in Planned, InOrder(p), NEW k \in 1..p.count
    PROVE  /\ p.days[k] \in Nat
           /\ \E q \in Nat : /\ q * p.calendar.batch <= k - 1
                             /\ k - 1 < q * p.calendar.batch + p.calendar.batch
                             /\ q = 0 => p.days[k] = p.calendar.launch
                             /\ q # 0 => Numbered(p.days[k], q, p.calendar.launch,
                                                  p.calendar)
<1>1. PICK c : c = p.calendar /\ IsCalendar(c)
  BY PlanAssumption DEF Planned
<1>2. p.count \in Nat
  BY DEF Planned
<1>3. PICK i \in Nat : i = k - 1
  BY <1>2
<1>4. p.days[k] = PlannedDay(i, c)
  BY <1>1, <1>3 DEF InOrder
<1>5. c.batch \in Nat \ {0}
  BY <1>1 DEF IsCalendar
<1>6. PICK q \in Nat : q = i \div c.batch /\ q * c.batch <= i /\ i < q * c.batch + c.batch
  BY <1>5, Quotient
<1> QED  BY <1>1, <1>3, <1>4, <1>6, PlannedDays

LEMMA OnNumberedDay ==
    ASSUME NEW p, p \in Planned, InOrder(p), NEW k \in 1..p.count, NEW m \in Nat \ {0},
           Numbered(p.days[k], m, p.calendar.launch, p.calendar),
           p.days[k] # p.calendar.launch
    PROVE  m * p.calendar.batch <= k - 1 /\ k - 1 < m * p.calendar.batch + p.calendar.batch
<1>1. PICK q \in Nat : /\ q * p.calendar.batch <= k - 1
                       /\ k - 1 < q * p.calendar.batch + p.calendar.batch
                       /\ q = 0 => p.days[k] = p.calendar.launch
                       /\ q # 0 => Numbered(p.days[k], q, p.calendar.launch, p.calendar)
  BY OrderedDays
<1>2. q = m
  BY <1>1 DEF Numbered
<1> QED  BY <1>1, <1>2

\* Which recipients are on the launch day
LEMMA LaunchDay ==
    ASSUME NEW p, p \in Planned, InOrder(p)
    PROVE  Cardinality(SentOn(p.calendar.launch, p)) <=
              IF ActiveDay(p.calendar.launch, p.calendar) THEN 2 * p.calendar.batch
              ELSE p.calendar.batch
<1>1. PICK c : c = p.calendar /\ IsCalendar(c)
  BY PlanAssumption DEF Planned
<1>2. PICK b \in Nat \ {0} : b = c.batch
  BY <1>1 DEF IsCalendar
<1>3. PICK from \in Nat : from = c.launch
  BY <1>1 DEF IsCalendar
<1>4. PICK some : some = SentOn(from, p)
  OBVIOUS
<1>5. DOMAIN p.days = 1..p.count /\ p.count \in Nat
  BY DEF Planned, InOrder
<1>6. ASSUME NEW k \in some
      PROVE  k \in 1..(2 * b) /\ (ActiveDay(from, c) \/ k \in 1..b)
  <2>1. k \in 1..p.count /\ p.days[k] = from
    BY <1>4, <1>5 DEF SentOn
  <2>2. PICK q \in Nat : /\ q * b <= k - 1 /\ k - 1 < q * b + b
                         /\ q # 0 => Numbered(from, q, from, c)
    BY <1>1, <1>2, <1>3, <2>1, OrderedDays
  <2>3. q = 0 \/ (q = 1 /\ ActiveDay(from, c))
    <3>1. Numbered(from, q, from, c) => ActiveDay(from, c)
      BY DEF Numbered
    <3>2. Numbered(from, q, from, c) => q = 1
      BY NumberedFromNext
    <3> QED  BY <2>2, <3>1, <3>2
  <2>4. 0 * b = 0 /\ 1 * b = b
    OBVIOUS
  <2>5. q * b = IF q = 0 THEN 0 ELSE b
    <3>1. CASE q = 0
      BY <2>4, <3>1
    <3>2. CASE q = 1
      BY <2>4, <3>2
    <3> QED  BY <2>3, <3>1, <3>2
  <2>6. k - 1 < (IF q = 0 THEN 0 ELSE b) + b
    BY <2>2, <2>5
  <2>7. 2 * b = b + b
    OBVIOUS
  <2> QED  BY <2>1, <2>3, <2>6, <2>7, <1>5
<1>7. CASE ActiveDay(from, c)
  <2>1. some \subseteq (0 + 1)..(0 + 2 * b) /\ 2 * b \in Nat
    BY <1>6
  <2>2. Cardinality(some) <= 2 * b
    BY <2>1, AtMost
  <2> QED  BY <1>1, <1>2, <1>3, <1>4, <1>7, <2>2
<1>8. CASE ~ActiveDay(from, c)
  <2>1. some \subseteq (0 + 1)..(0 + b)
    BY <1>6, <1>8
  <2>2. Cardinality(some) <= b
    BY <2>1, AtMost
  <2> QED  BY <1>1, <1>2, <1>3, <1>4, <1>8, <2>2
<1> QED  BY <1>7, <1>8

\* Which are on another day, and on an active day before it
LEMMA OtherDay ==
    ASSUME NEW p, p \in Planned, InOrder(p), NEW k \in 1..p.count,
           NEW day, day = p.days[k], day # p.calendar.launch
    PROVE  /\ ActiveDay(day, p.calendar)
           /\ Cardinality(SentOn(day, p)) <= p.calendar.batch
           /\ \A d \in p.calendar.launch..(day - 1) : ActiveDay(d, p.calendar) =>
                 Cardinality(SentOn(d, p)) >= p.calendar.batch
<1>1. PICK c : c = p.calendar /\ IsCalendar(c)
  BY PlanAssumption DEF Planned
<1>2. PICK b \in Nat \ {0} : b = c.batch
  BY <1>1 DEF IsCalendar
<1>3. PICK from \in Nat : from = c.launch
  BY <1>1 DEF IsCalendar
<1>4. DOMAIN p.days = 1..p.count /\ p.count \in Nat
  BY DEF Planned, InOrder
<1>5. PICK q \in Nat \ {0} : /\ Numbered(day, q, from, c)
                             /\ q * b <= k - 1 /\ k - 1 < q * b + b
  BY <1>1, <1>2, <1>3, OrderedDays
<1>6. day \in Nat /\ ActiveDay(day, c)
  BY <1>5 DEF Numbered
<1>7. Cardinality(SentOn(day, p)) <= b
  <2>1. PICK some : some = SentOn(day, p)
    OBVIOUS
  <2>2. PICK a \in Nat : a = q * b
    BY ProductNatural
  <2>3. ASSUME NEW j \in some
        PROVE  j \in (a + 1)..(a + b)
    <3>1. j \in 1..p.count /\ p.days[j] = day
      BY <1>4, <2>1, <2>3 DEF SentOn
    <3>2. q * b <= j - 1 /\ j - 1 < q * b + b
      BY <1>1, <1>2, <1>3, <1>5, <3>1, OnNumberedDay
    <3> QED  BY <1>4, <2>2, <3>1, <3>2
  <2>4. some \subseteq (a + 1)..(a + b)
    BY <2>3
  <2> QED  BY <2>1, <2>4, AtMost
<1>8. ASSUME NEW d \in from..(day - 1), ActiveDay(d, c)
      PROVE  Cardinality(SentOn(d, p)) >= b
  <2>1. PICK some : some = SentOn(d, p)
    OBVIOUS
  <2>2. d \in Nat /\ from <= d /\ d < day
    BY <1>3, <1>6, <1>8
  <2>3. PICK m \in Nat \ {0} : Numbered(d, m, from, c)
    <3>1. PICK m : m = Cardinality(ActiveIn(from, d, c))
      OBVIOUS
    <3>2. Numbered(d, m, from, c)
      BY <1>8, <2>2, <3>1 DEF Numbered
    <3> QED  BY <2>2, <3>2, NumberedFromNext
  <2>4. m < q
    BY <1>5, <1>6, <2>2, <2>3, LaterIsHigher
  <2>5. PICK a \in Nat : a = m * b
    BY ProductNatural
  <2>6. a + b <= q * b /\ q * b \in Nat
    BY <2>4, <2>5, Multiples, ProductNatural
  <2>7. ASSUME NEW j \in (a + 1)..(a + b)
        PROVE  j \in some
    <3>1. j \in 1..p.count
      BY <1>4, <1>5, <2>5, <2>6, <2>7
    <3>2. PICK i \in Nat : i = j - 1 /\ a <= i /\ i < a + b
      BY <2>7
    <3>3. i \div b = m
      BY <2>5, <3>2, QuotientOf
    <3>4. p.days[j] = PlannedDay(i, c)
      BY <1>1, <3>1, <3>2 DEF InOrder
    <3>5. Numbered(p.days[j], m, from, c)
      BY <1>1, <1>2, <1>3, <3>3, <3>4, PlannedDays
    <3>6. p.days[j] \in Nat
      BY <3>5 DEF Numbered
    <3>7. p.days[j] = d
      BY <2>2, <2>3, <3>5, <3>6, NumberedOnce
    <3> QED  BY <1>4, <2>1, <3>1, <3>7 DEF SentOn
  <2>8. IsFiniteSet(some)
    <3>1. some \subseteq (0 + 1)..(0 + p.count)
      BY <1>4, <2>1 DEF SentOn
    <3> QED  BY <1>4, <3>1, AtMost
  <2>9. (a + 1)..(a + b) \subseteq some
    BY <2>7
  <2> QED  BY <2>1, <2>8, <2>9, AtLeast
<1> QED  BY <1>1, <1>2, <1>3, <1>6, <1>7, <1>8

LEMMA FittingIsKept ==
    ASSUME \A i \in Campaigns : plan[i] \in Planned \cup {Draft} /\ PlanFits(plan[i])
    PROVE  PlanKept
<1>1. ASSUME NEW i \in Campaigns, NEW p, p = plan[i], p # Draft, ~p.overlap
      PROVE  /\ p.count = Len(p.days)
             /\ \A k \in 1..p.listed : p.days[k] <= p.end
             /\ \A k \in DOMAIN p.days :
                   LET day == p.days[k]
                   IN  IF day = p.calendar.launch
                       THEN Cardinality(SentOn(day, p)) <=
                               IF ActiveDay(day, p.calendar) THEN 2 * p.calendar.batch
                               ELSE p.calendar.batch
                       ELSE /\ ActiveDay(day, p.calendar)
                            /\ Cardinality(SentOn(day, p)) <= p.calendar.batch
                            /\ \A d \in p.calendar.launch .. (day - 1) :
                                 ActiveDay(d, p.calendar) =>
                                     Cardinality(SentOn(d, p)) >= p.calendar.batch
  <2>1. p \in Planned /\ InOrder(p)
    BY <1>1 DEF PlanFits
  <2>2. /\ p.listed \in 1..p.count /\ p.end = EndDay(p.listed, p.calendar)
        /\ p.count = Len(p.days) /\ p.count \in Nat /\ DOMAIN p.days = 1..p.count
    BY <1>1, <2>1 DEF PlanFits, InOrder, Planned
  <2>3. ASSUME NEW k \in 1..p.listed
        PROVE  p.days[k] <= p.end
    <3>1. IsCalendar(p.calendar)
      BY <2>1, PlanAssumption DEF Planned
    <3>2. PICK c : c = p.calendar
      OBVIOUS
    <3>3. PICK n \in Nat : n = p.listed /\ n <= p.count
      BY <2>2
    <3>4. PlannedDay(k - 1, c) <= EndDay(n, c)
      BY <3>1, <3>2, <3>3, EndDays
    <3>5. k \in 1..p.count
      BY <2>2, <3>3
    <3>6. p.days[k] = PlannedDay(k - 1, c)
      BY <2>1, <3>2, <3>5 DEF InOrder
    <3> QED  BY <2>2, <3>2, <3>3, <3>4, <3>6
  <2>4. ASSUME NEW k \in 1..p.count, p.days[k] = p.calendar.launch
        PROVE  Cardinality(SentOn(p.days[k], p)) <=
                  IF ActiveDay(p.days[k], p.calendar) THEN 2 * p.calendar.batch
                  ELSE p.calendar.batch
    BY <2>1, <2>4, LaunchDay
  <2>5. ASSUME NEW k \in 1..p.count, p.days[k] # p.calendar.launch
        PROVE  /\ ActiveDay(p.days[k], p.calendar)
               /\ Cardinality(SentOn(p.days[k], p)) <= p.calendar.batch
               /\ \A d \in p.calendar.launch .. (p.days[k] - 1) :
                     ActiveDay(d, p.calendar) =>
                         Cardinality(SentOn(d, p)) >= p.calendar.batch
    BY <2>1, <2>5, OtherDay
  <2> QED  BY <2>2, <2>3, <2>4, <2>5
<1> QED  BY <1>1 DEF PlanKept

\* What a handler is about to save
PlanCallFits(c) ==
    /\ c.op = "saveSchedule" =>
            c.item \in Campaigns /\ c.calendar \in Calendars /\ c.audience \in Audiences
    /\ c.op = "saveRecipient" => c.item \in Campaigns /\ c.seen \in CampaignRow
    /\ c.op \in {"saveCampaign", "saveTicked"} =>
            c.item \in Campaigns /\ c.seen \in AllSettings

PlanInv ==
    /\ PlanTypeOK
    /\ \A i \in Campaigns : PlanFits(plan[i])
    /\ \A w \in Slots : PlanCallFits(call[w])

LEMMA PlanApart ==
    ASSUME Shape, [Next]_vars
    PROVE  \/ \E w \in Slots : PlanStep(w) /\ Moves(w, PlanOps)
           \/ /\ UNCHANGED plan \/ PlansCascade
              /\ \A v \in Slots : call'[v] = call[v] \/ call'[v].op \notin PlanOps
<1>1. ASSUME NEW w \in Slots, NEW Ops \in AllOps, Ops # PlanOps, Moves(w, Ops),
             StepOf(w, Ops)
      PROVE  (UNCHANGED plan \/ PlansCascade) /\ Elsewhere(PlanOps)
  BY <1>1, Aside, OpsDistinct DEF StepOf
<1>2. CASE CutShort
  BY <1>2, CutShortKnown, OpsDistinct, OpsApart DEF Idle
<1>3. CASE Besides /\ ~CutShort
  BY <1>3 DEF Besides
<1>4. ASSUME NEW w \in Slots, Moves(w, PlanOps), StepOf(w, PlanOps)
      PROVE  PlanStep(w)
  BY <1>4, OpsDistinct DEF StepOf
<1>5. CASE \E w \in Slots, Ops \in AllOps : Moves(w, Ops) /\ StepOf(w, Ops)
  <2>1. PICK w \in Slots, Ops \in AllOps : Moves(w, Ops) /\ StepOf(w, Ops)
    BY <1>5
  <2>2. CASE Ops = PlanOps
    BY <1>4, <2>1, <2>2
  <2>3. CASE Ops # PlanOps
    BY <1>1, <2>1, <2>3 DEF Elsewhere
  <2> QED  BY <2>2, <2>3
<1> QED  BY <1>2, <1>3, <1>5, NextKnown

LEMMA SettingsSeen ==
    ASSUME NEW p \in Planned \cup {Draft}
    PROVE  /\ Settings(p) \in AllSettings
           /\ p # Draft => Settings(p) \in CampaignRow
           /\ Settings(p) = Draft <=> p = Draft
BY PlanAssumption DEF Planned, Settings, AllSettings, CampaignRow

\* Saving a copy that is out of date leaves a mark.
LEMMA OverwrittenRow ==
    ASSUME NEW p \in Planned \cup {Draft}, NEW seen \in AllSettings
    PROVE  /\ Overwritten(p, seen) \in Planned \cup {Draft}
           /\ \/ Overwritten(p, seen) = p /\ seen = Settings(p)
              \/ Overwritten(p, seen) = Draft /\ seen = Draft
              \/ Overwritten(p, seen).overlap /\ Overwritten(p, seen) # Draft
<1>1. CASE seen = Settings(p)
  BY <1>1, SettingsSeen DEF Overwritten
<1>2. CASE seen # Settings(p) /\ seen = Draft
  BY <1>2, SettingsSeen DEF Overwritten
<1>3. CASE seen # Settings(p) /\ seen # Draft
  <2>1. PICK days \in Seq(Nat) : days = IF p = Draft THEN <<>> ELSE p.days
    <3>1. <<>> \in Seq(Nat)
      OBVIOUS
    <3>2. p # Draft => p.days \in Seq(Nat)
      BY DEF Planned
    <3> QED  BY <3>1, <3>2
  <2>2. PICK listed \in Nat : listed = IF p = Draft THEN 0 ELSE p.listed
    BY DEF Planned
  <2>3. PICK q : q = [calendar |-> seen.calendar, end |-> seen.end,
                      count |-> seen.count, days |-> days, listed |-> listed,
                      overlap |-> TRUE]
    OBVIOUS
  <2>4. q \in Planned /\ q.overlap
    BY <1>3, <2>3 DEF Planned, AllSettings, CampaignRow
  <2>5. Overwritten(p, seen) = q
    BY <1>3, <2>1, <2>2, <2>3 DEF Overwritten
  <2> QED  BY <2>4, <2>5, PlanAssumption
<1> QED  BY <1>1, <1>2, <1>3

LEMMA PlanSaved ==
    ASSUME Shape, PlanInv, NEW w \in Slots, Moves(w, PlanOps), NEW i \in Campaigns,
           NEW p \in Planned \cup {Draft}, PlanFits(p), plan' = [plan EXCEPT ![i] = p],
           PlanCallFits(call'[w])
    PROVE  PlanInv'
<1>1. plan' \in [Campaigns -> Planned \cup {Draft}]
  BY DEF PlanInv, PlanTypeOK
<1>2. \A j \in Campaigns : plan'[j] = IF j = i THEN p ELSE plan[j]
  BY DEF PlanInv, PlanTypeOK
<1>3. \A j \in Campaigns : PlanFits(plan'[j])
  BY <1>2 DEF PlanInv
<1>4. \A v \in Slots : PlanCallFits(call'[v])
  BY DEF PlanInv, Moves
<1> QED  BY <1>1, <1>3, <1>4 DEF PlanInv, PlanTypeOK

LEMMA PlanRests ==
    ASSUME Shape, PlanInv, NEW w \in Slots, Moves(w, PlanOps), UNCHANGED plan,
           PlanCallFits(call'[w])
    PROVE  PlanInv'
BY DEF PlanInv, PlanTypeOK, Moves

LEMMA PlanReturns ==
    ASSUME Shape, NEW w \in Slots, Return(w)
    PROVE  PlanCallFits(call'[w])
<1>1. call'[w] = Idle
  BY Makes DEF Return
<1> QED  BY <1>1 DEF PlanCallFits, Idle

LEMMA PlanBegunKept ==
    ASSUME Shape, PlanInv, NEW w \in Slots, Moves(w, PlanOps), NEW i \in Campaigns,
           \/ \E c \in Calendars, n \in Audiences : Schedule(w, i, c, n)
           \/ AddRecipient(w, i)
           \/ UpdateCampaign(w, i)
           \/ TickCampaign(w, i)
    PROVE  PlanInv'
<1>1. plan[i] \in Planned \cup {Draft}
  BY DEF PlanInv, PlanTypeOK
<1>2. ASSUME NEW c \in Calendars, NEW n \in Audiences, Schedule(w, i, c, n)
      PROVE  PlanInv'
  <2>1. call'[w] = [op |-> "saveSchedule", item |-> i, calendar |-> c, audience |-> n]
    BY <1>2, Makes DEF Schedule
  <2>2. PlanCallFits(call'[w])
    BY <2>1 DEF PlanCallFits
  <2> QED  BY <1>2, <2>2, PlanRests DEF Schedule
<1>3. CASE AddRecipient(w, i)
  <2>1. call'[w] = [op |-> "saveRecipient", item |-> i, seen |-> Settings(plan[i])]
    BY <1>3, Makes DEF AddRecipient
  <2>2. PlanCallFits(call'[w])
    BY <1>1, <1>3, <2>1, SettingsSeen DEF AddRecipient, PlanCallFits
  <2> QED  BY <1>3, <2>2, PlanRests DEF AddRecipient
<1>4. CASE UpdateCampaign(w, i)
  <2>1. call'[w] = [op |-> "saveCampaign", item |-> i, seen |-> Settings(plan[i])]
    BY <1>4, Makes DEF UpdateCampaign
  <2>2. PlanCallFits(call'[w])
    BY <1>1, <2>1, SettingsSeen DEF PlanCallFits
  <2> QED  BY <1>4, <2>2, PlanRests DEF UpdateCampaign
<1>5. CASE TickCampaign(w, i)
  <2>1. call'[w] = [op |-> "saveTicked", item |-> i, seen |-> Settings(plan[i])]
    BY <1>5, Makes DEF TickCampaign
  <2>2. PlanCallFits(call'[w])
    BY <1>1, <2>1, SettingsSeen DEF PlanCallFits
  <2> QED  BY <1>5, <2>2, PlanRests DEF TickCampaign
<1> QED  BY <1>2, <1>3, <1>4, <1>5

\* A schedule spreads the recipients from the first to the last.
LEMMA SaveScheduleKept ==
    ASSUME Shape, PlanInv, NEW w \in Slots, Moves(w, PlanOps), SaveSchedule(w)
    PROVE  PlanInv'
<1>1. PlanCallFits(call'[w])
  BY PlanReturns DEF SaveSchedule
<1>2. PICK i \in Campaigns, c \in Calendars, n \in Audiences :
        i = call[w].item /\ c = call[w].calendar /\ n = call[w].audience
  BY DEF SaveSchedule, PlanInv, PlanCallFits
<1>3. CASE item[i] # "live"
  <2>1. UNCHANGED plan
    BY <1>2, <1>3 DEF SaveSchedule
  <2> QED  BY <1>1, <2>1, PlanRests
<1>4. CASE item[i] = "live"
  <2>1. PICK days : days = Spread(n, c)
    OBVIOUS
  <2>2. PICK end : end = EndDay(n, c)
    OBVIOUS
  <2>3. PICK p : p = [calendar |-> c, end |-> end, count |-> n, days |-> days,
                      listed |-> n, overlap |-> FALSE]
    OBVIOUS
  <2>4. plan' = [plan EXCEPT ![i] = p]
    BY <1>2, <1>4, <2>1, <2>2, <2>3 DEF SaveSchedule
  <2>5. IsCalendar(c) /\ n \in Nat \ {0}
    BY PlanAssumption
  <2>6. \A k \in 1..n : PlannedDay(k - 1, c) \in Nat
    <3>1. \A k \in 1..n : k - 1 \in Nat
      BY <2>5
    <3> QED  BY <2>5, <3>1, PlannedDays
  <2>7. days \in [1..n -> Nat] /\ days \in Seq(Nat) /\ Len(days) = n
    BY <2>1, <2>5, <2>6 DEF Spread
  <2>8. end \in Nat
    BY <2>2, <2>5, EndDays
  <2>9. p \in Planned
    BY <2>3, <2>5, <2>7, <2>8 DEF Planned
  <2>10. \A k \in 1..n : days[k] = PlannedDay(k - 1, c)
    BY <2>1 DEF Spread
  <2>11. InOrder(p)
    BY <2>3, <2>7, <2>10 DEF InOrder
  <2>12. PlanFits(p)
    BY <2>2, <2>3, <2>5, <2>11 DEF PlanFits
  <2> QED  BY <1>1, <2>4, <2>9, <2>12, PlanSaved
<1> QED  BY <1>3, <1>4

\* One more recipient comes after the others.
LEMMA OneMoreFits ==
    ASSUME NEW p \in Planned, PlanFits(p), NEW seen \in CampaignRow,
           p.overlap \/ seen = Settings(p), NEW q, q = WithOneMore(p, seen)
    PROVE  q \in Planned /\ PlanFits(q)
<1>1. seen.calendar \in Calendars /\ seen.count \in Nat
  BY DEF CampaignRow
<1>2. PICK day \in Nat : day = PlannedDay(seen.count, seen.calendar)
  BY <1>1, PlanAssumption, PlannedDays
<1>3. PICK days : days = Append(p.days, day)
  OBVIOUS
<1>4. /\ p.days \in Seq(Nat) /\ p.count \in Nat /\ p.listed \in Nat
      /\ p.calendar \in Calendars /\ p.end \in Nat /\ p.overlap \in BOOLEAN
  BY DEF Planned
<1>5. /\ days \in Seq(Nat) /\ Len(days) = Len(p.days) + 1
      /\ days[Len(p.days) + 1] = day
      /\ \A k \in 1..Len(p.days) : days[k] = p.days[k]
  BY <1>2, <1>3, <1>4
<1>6. /\ q.calendar = p.calendar /\ q.end = p.end /\ q.count = p.count + 1
      /\ q.days = days /\ q.listed = p.listed /\ q.overlap = p.overlap
  BY <1>2, <1>3 DEF Planned, WithOneMore
<1>7. q \in Planned
  <2>1. q = [p EXCEPT !.count = p.count + 1, !.days = days]
    BY <1>2, <1>3 DEF WithOneMore
  <2>2. p.count + 1 \in Nat
    BY <1>4
  <2> QED  BY <1>5, <2>1, <2>2 DEF Planned
<1>8. ASSUME ~q.overlap
      PROVE  InOrder(q) /\ q.listed \in 1..q.count /\ q.end = EndDay(q.listed, q.calendar)
  <2>1. /\ InOrder(p) /\ p.listed \in 1..p.count /\ p.end = EndDay(p.listed, p.calendar)
        /\ seen = Settings(p)
    BY <1>6, <1>8, PlanAssumption DEF PlanFits
  <2>2. seen.calendar = p.calendar /\ seen.count = p.count
    BY <2>1, PlanAssumption DEF Settings
  <2>3. p.count = Len(p.days)
    BY <2>1 DEF InOrder
  <2>4. PICK c : c = p.calendar
    OBVIOUS
  <2>5. PICK n \in Nat : n = p.count
    BY <1>4
  <2>6. ASSUME NEW k \in 1..(n + 1)
        PROVE  days[k] = PlannedDay(k - 1, c)
    <3>1. CASE k = n + 1
      <4>1. k - 1 = n
        BY <3>1
      <4> QED  BY <1>2, <1>5, <2>2, <2>3, <2>4, <2>5, <3>1, <4>1
    <3>2. CASE k \in 1..n
      <4>1. p.days[k] = PlannedDay(k - 1, c)
        BY <2>1, <2>4, <2>5, <3>2 DEF InOrder
      <4>2. days[k] = p.days[k]
        BY <1>5, <2>3, <2>5, <3>2
      <4> QED  BY <4>1, <4>2
    <3> QED  BY <3>1, <3>2
  <2>7. InOrder(q)
    BY <1>5, <1>6, <2>3, <2>4, <2>5, <2>6 DEF InOrder
  <2>8. q.listed \in 1..q.count
    BY <1>4, <1>6, <2>1
  <2> QED  BY <1>6, <2>1, <2>7, <2>8
<1> QED  BY <1>7, <1>8 DEF PlanFits

LEMMA SaveRecipientKept ==
    ASSUME Shape, PlanInv, NEW w \in Slots, Moves(w, PlanOps), SaveRecipient(w)
    PROVE  PlanInv'
<1>1. PlanCallFits(call'[w])
  BY PlanReturns DEF SaveRecipient
<1>2. PICK i \in Campaigns, seen \in CampaignRow : i = call[w].item /\ seen = call[w].seen
  BY DEF SaveRecipient, PlanInv, PlanCallFits
<1>3. CASE item[i] # "live"
  <2>1. UNCHANGED plan
    BY <1>2, <1>3 DEF SaveRecipient
  <2> QED  BY <1>1, <2>1, PlanRests
<1>4. CASE item[i] = "live"
  <2>1. plan \in [Campaigns -> Planned \cup {Draft}]
        /\ plan[i] \in Planned \cup {Draft} /\ PlanFits(plan[i])
    BY DEF PlanInv, PlanTypeOK
  <2>2. PICK p : p = Overwritten(plan[i], seen)
    OBVIOUS
  <2>3. /\ p \in Planned \cup {Draft}
        /\ \/ p = plan[i] /\ seen = Settings(plan[i])
           \/ p = Draft /\ seen = Draft
           \/ p.overlap /\ p # Draft
    BY <2>1, <2>2, OverwrittenRow DEF AllSettings
  <2>4. seen # Draft
    BY PlanAssumption
  <2>5. p \in Planned /\ PlanFits(p) /\ (p.overlap \/ seen = Settings(p))
    BY <2>1, <2>3, <2>4, SettingsSeen DEF PlanFits
  <2>6. PICK q : q = WithOneMore(p, seen)
    OBVIOUS
  <2>7. q \in Planned /\ PlanFits(q)
    BY <2>5, <2>6, OneMoreFits
  <2>8. plan' = [plan EXCEPT ![i] = q]
    BY <1>2, <1>4, <2>2, <2>6 DEF SaveRecipient
  <2> QED  BY <1>1, <2>7, <2>8, PlanSaved
<1> QED  BY <1>3, <1>4

LEMMA SaveCampaignKept ==
    ASSUME Shape, PlanInv, NEW w \in Slots, Moves(w, PlanOps),
           SaveCampaign(w) \/ SaveTicked(w)
    PROVE  PlanInv'
<1>1. PlanCallFits(call'[w])
  <2>1. CASE Return(w)
    BY <2>1, PlanReturns
  <2>2. CASE UNCHANGED slotVars
    BY <2>2 DEF slotVars, PlanInv
  <2> QED  BY <2>1, <2>2 DEF SaveCampaign, SaveTicked
<1>2. PICK i \in Campaigns, seen \in AllSettings : i = call[w].item /\ seen = call[w].seen
  BY DEF SaveCampaign, SaveTicked, PlanInv, PlanCallFits
<1>3. plan \in [Campaigns -> Planned \cup {Draft}]
      /\ plan[i] \in Planned \cup {Draft} /\ PlanFits(plan[i])
  BY DEF PlanInv, PlanTypeOK
<1>4. PICK p : p = Overwritten(plan[i], seen)
  OBVIOUS
<1>5. p \in Planned \cup {Draft} /\ PlanFits(p)
  BY <1>3, <1>4, OverwrittenRow DEF PlanFits
<1>6. plan' = [plan EXCEPT ![i] = p]
  BY <1>2, <1>3, <1>4 DEF SaveCampaign, SaveTicked
<1> QED  BY <1>1, <1>5, <1>6, PlanSaved

LEMMA PlanNext ==
    ASSUME Shape, PlanInv, [Next]_vars
    PROVE  PlanInv'
<1>1. ASSUME NEW w \in Slots, PlanStep(w), Moves(w, PlanOps)
      PROVE  PlanInv'
  BY <1>1, PlanBegunKept, SaveScheduleKept, SaveRecipientKept, SaveCampaignKept
     DEF PlanStep
<1>2. ASSUME UNCHANGED plan \/ PlansCascade,
             \A v \in Slots : call'[v] = call[v] \/ call'[v].op \notin PlanOps
      PROVE  PlanInv'
  <2>1. \A v \in Slots : PlanCallFits(call'[v])
    BY <1>2 DEF PlanInv, PlanCallFits, PlanOps
  <2>2. CASE UNCHANGED plan
    BY <2>1, <2>2 DEF PlanInv, PlanTypeOK
  <2>3. CASE PlansCascade
    <3>1. plan' \in [Campaigns -> Planned \cup {Draft}]
      BY <2>3 DEF PlansCascade, PlanInv, PlanTypeOK
    <3>2. \A i \in Campaigns : plan'[i] \in {plan[i], Draft}
      BY <2>3 DEF PlansCascade
    <3>3. PlanFits(Draft)
      BY DEF PlanFits
    <3> QED  BY <2>1, <3>1, <3>2, <3>3 DEF PlanInv, PlanTypeOK
  <2> QED  BY <1>2, <2>2, <2>3
<1> QED  BY <1>1, <1>2, PlanApart

LEMMA PlanStart ==
    ASSUME Init
    PROVE  PlanInv
<1>1. \A w \in Slots : PlanCallFits(call[w])
  BY DEF Init, SlotsInit, Idle, PlanCallFits
<1>2. plan = [i \in Campaigns |-> Draft]
  BY DEF Init
<1> QED  BY <1>1, <1>2 DEF PlanInv, PlanTypeOK, PlanFits

(***************************************************************************)
(* Unless a stale copy of a campaign was saved over its row, by a request  *)
(* that overlapped with another or by the scheduler's run, its recipients  *)
(* are planned as its calendar says, whatever the calendar, the size of    *)
(* the batch and the audience: everyone is counted, the audience list is   *)
(* served by estimatedEndAt, a day after the launch is active and gets one *)
(* batch at most, and no active day before the last has room left          *)
(* (schedule and addRecipient, computeInitialNextSendAt,                   *)
(* computeEstimatedEndAt, the saves of processCampaign).                   *)
(***************************************************************************)
THEOREM PlansFollowCalendars == Spec => []PlanKept
<1>1. Init => Shape /\ PlanInv
  BY InitShape, PlanStart
<1>2. Shape /\ PlanInv /\ [Next]_vars => Shape' /\ PlanInv'
  BY NextKnown, PlanNext
<1>3. PlanInv => PlanKept
  BY FittingIsKept DEF PlanInv, PlanTypeOK
<1> QED  BY <1>1, <1>2, <1>3, PTL DEF Spec

-----------------------------------------------------------------------------
(* Types.  A handler holds the variables of a call of its part: what it    *)
(* goes on with is made of what it holds and of rows that are well typed.  *)

Acts(w, Mine) ==
    \E c \in Mine \cup {Idle} : Begin(w, c) \/ (call[w] # Idle /\ GoOn(w, c))

LEMMA CallsNamed ==
    /\ \A c \in QuotaCalls : c.op \in QuotaOps
    /\ \A c \in MembershipCalls : c.op \in MembershipOps
    /\ \A c \in RemovalCalls : c.op \in RemovalOps
    /\ \A c \in PlanCalls : c.op \in PlanOps
    /\ \A c \in MeetingCalls : c.op \in MeetingOps
    /\ \A c \in SiteCalls : c.op \in SiteOps
    /\ \A c \in PolicyCalls : c.op \in PolicyOps
    /\ \A c \in GoogleCalls : c.op \in GoogleOps
    /\ \A c \in ListCalls : c.op \in ListOps
    /\ \A c \in TeamCalls : c.op \in TeamOps
<1>1. \A c \in QuotaCalls : c.op \in QuotaOps
  BY DEF QuotaCalls, QuotaOps
<1>2. \A c \in MembershipCalls : c.op \in MembershipOps
  BY DEF MembershipCalls, MembershipOps
<1>3. \A c \in RemovalCalls : c.op \in RemovalOps
  BY DEF RemovalCalls, RemovalOps
<1>4. \A c \in PlanCalls : c.op \in PlanOps
  BY DEF PlanCalls, PlanOps
<1>5. \A c \in MeetingCalls : c.op \in MeetingOps
  BY DEF MeetingCalls, MeetingOps, GoalOps
<1>6. \A c \in SiteCalls : c.op \in SiteOps
  BY DEF SiteCalls, SiteOps
<1>7. \A c \in PolicyCalls : c.op \in PolicyOps
  BY DEF PolicyCalls, PolicyOps
<1>8. \A c \in GoogleCalls : c.op \in GoogleOps
  BY DEF GoogleCalls, GoogleOps
<1>9. \A c \in ListCalls : c.op \in ListOps
  BY DEF ListCalls, ListOps
<1>10. \A c \in TeamCalls : c.op \in TeamOps
  BY DEF TeamCalls, TeamOps
<1> QED  BY <1>1, <1>2, <1>3, <1>4, <1>5, <1>6, <1>7, <1>8, <1>9, <1>10

\* The name of a call tells whose it is.
LEMMA CallKnown ==
    ASSUME NEW c \in {Idle} \cup Calls
    PROVE  /\ c.op \in QuotaOps => c \in QuotaCalls
           /\ c.op \in MembershipOps => c \in MembershipCalls
           /\ c.op \in RemovalOps => c \in RemovalCalls
           /\ c.op \in PlanOps => c \in PlanCalls
           /\ c.op \in MeetingOps => c \in MeetingCalls
           /\ c.op \in SiteOps => c \in SiteCalls
           /\ c.op \in PolicyOps => c \in PolicyCalls
           /\ c.op \in GoogleOps => c \in GoogleCalls
           /\ c.op \in ListOps => c \in ListCalls
           /\ c.op \in TeamOps => c \in TeamCalls
<1>1. CASE c = Idle
  BY <1>1, OpsApart, OpsDistinct DEF Idle
<1>2. CASE c \in Calls
  BY <1>2, CallsNamed, OpsApart, OpsDistinct DEF Calls
<1> QED  BY <1>1, <1>2

\* What a handler in the middle of something holds
LEMMA HoldsCall ==
    ASSUME TypeOK, NEW w \in Slots, NEW Ops \in AllOps, call[w].op \in Ops
    PROVE  /\ call[w] # Idle /\ call[w] \in Calls
           /\ Ops = QuotaOps => call[w] \in QuotaCalls
           /\ Ops = MembershipOps => call[w] \in MembershipCalls
           /\ Ops = RemovalOps => call[w] \in RemovalCalls
           /\ Ops = PlanOps => call[w] \in PlanCalls
           /\ Ops = MeetingOps => call[w] \in MeetingCalls
           /\ Ops = SiteOps => call[w] \in SiteCalls
           /\ Ops = PolicyOps => call[w] \in PolicyCalls
           /\ Ops = GoogleOps => call[w] \in GoogleCalls
           /\ Ops = ListOps => call[w] \in ListCalls
           /\ Ops = TeamOps => call[w] \in TeamCalls
<1>1. call[w] \in {Idle} \cup Calls
  BY DEF TypeOK
<1>2. call[w] # Idle
  BY OpsApart DEF Idle
<1> QED  BY <1>1, <1>2, CallKnown

LEMMA BeginsCall ==
    ASSUME NEW w, NEW Mine, NEW c \in Mine, Begin(w, c)
    PROVE  Acts(w, Mine)
BY DEF Acts

LEMMA MakesCall ==
    ASSUME NEW w, call[w] # Idle, NEW Mine, NEW c \in Mine \cup {Idle}, GoOn(w, c)
    PROVE  Acts(w, Mine)
BY DEF Acts

LEMMA AnswersCall ==
    ASSUME NEW w, call[w] # Idle, NEW Mine, Return(w)
    PROVE  Acts(w, Mine)
BY DEF Acts, Return

-----------------------------------------------------------------------------
LEMMA QuotaActs ==
    ASSUME TypeOK, NEW w \in Slots, QuotaStep(w)
    PROVE  Acts(w, QuotaCalls)
<1>1. entitlements \in Entitlements
  BY DEF TypeOK, QuotaTypeOK
<1>2. ASSUME NEW limits \in LimitInputs, UpdateOrgLimits(w, limits)
      PROVE  Acts(w, QuotaCalls)
  BY <1>1, <1>2, BeginsCall DEF UpdateOrgLimits, QuotaCalls
<1>3. ASSUME NEW caps \in LimitInputs, UpdatePlatformCaps(w, caps)
      PROVE  Acts(w, QuotaCalls)
  BY <1>1, <1>3, BeginsCall DEF UpdatePlatformCaps, QuotaCalls
<1>4. ASSUME SaveOrgLimits(w) \/ SaveCaps(w)
      PROVE  Acts(w, QuotaCalls)
  BY <1>4, AnswersCall DEF SaveOrgLimits, SaveCaps, Idle
<1> QED  BY <1>2, <1>3, <1>4 DEF QuotaStep

\* What the calls of sign-ups and invitations hold
LEMMA MembershipHolds ==
    ASSUME NEW c \in MembershipCalls
    PROVE  /\ c.op \in {"countMembers", "countPending", "countUsers", "findInvitee",
                        "findInvitation"} => c.email \in Emails
           /\ c.op \in {"countMembers", "countPending", "countUsers"} =>
                c.limit \in Amounts
           /\ c.op = "saveMember" => c.invitation \in Invitations
           /\ c.op = "createOrganization" => c.session \in Sessions /\ c.email \in Emails
           /\ c.op = "createAccount" => c.session \in Sessions
BY DEF MembershipCalls

LEMMA SessionRowsSaved ==
    ASSUME NEW row \in SessionRows
    PROVE  /\ WithCode(row) \in SessionRows
           /\ [row EXCEPT !.verified = TRUE, !.code = FALSE] \in SessionRows
           /\ MayVerify(row) => [row EXCEPT !.tries = @ + 1] \in SessionRows
<1>1. MaxTries \in Nat \ {0}
  BY MembershipAssumption
<1>2. WithCode(row) \in SessionRows
  <2>1. PICK n \in 0..MaxTries : n = 0
    BY <1>1
  <2>2. [row EXCEPT !.company = TRUE, !.code = TRUE, !.tries = n] \in SessionRows
    BY DEF SessionRows
  <2> QED  BY <2>1, <2>2 DEF WithCode
<1>3. [row EXCEPT !.verified = TRUE, !.code = FALSE] \in SessionRows
  BY DEF SessionRows
<1>4. ASSUME row.tries < MaxTries
      PROVE  [row EXCEPT !.tries = @ + 1] \in SessionRows
  <2>1. row.tries + 1 \in 0..MaxTries
    BY <1>1, <1>4 DEF SessionRows
  <2> QED  BY <2>1 DEF SessionRows
<1> QED  BY <1>2, <1>3, <1>4 DEF MayVerify

LEMMA MembershipActs ==
    ASSUME TypeOK, PeopleFinite, NEW w \in Slots, MembershipStep(w)
    PROVE  Acts(w, MembershipCalls)
<1>1. \A s \in Sessions : Active(s) => session[s] \in SessionRows
  BY DEF TypeOK, MembershipTypeOK, Active
<1>2. call[w].op \in MembershipOps => call[w] # Idle /\ call[w] \in MembershipCalls
  BY HoldsCall, OpsDistinct
<1>3. ASSUME NEW e \in Emails, Invite(w, e)
      PROVE  Acts(w, MembershipCalls)
  <2>1. PICK limit \in Amounts \cup {Null} : limit = EffectiveLimit("members", entitlements)
    BY EffectiveTyped, MembershipAssumption DEF TypeOK, QuotaTypeOK
  <2>2. CASE limit = Null
    BY <1>3, <2>1, <2>2, BeginsCall DEF Invite, MembershipCalls
  <2>3. CASE limit \in Amounts
    <3>1. limit # Null
      BY <2>3, QuotaAssumption
    <3> QED  BY <1>3, <2>1, <2>3, <3>1, BeginsCall DEF Invite, MembershipCalls
  <2> QED  BY <2>2, <2>3
<1>4. ASSUME NEW e \in Emails, NEW oauth \in BOOLEAN, StartSignup(w, e, oauth)
      PROVE  Acts(w, MembershipCalls)
  BY <1>4, BeginsCall DEF StartSignup, MembershipCalls
<1>5. ASSUME NEW i \in Invitations, Revoke(w, i) \/ FindLate(w, i) \/ Accept(w, i)
      PROVE  Acts(w, MembershipCalls)
  BY <1>5, BeginsCall DEF Revoke, FindLate, Accept, MembershipCalls
<1>6. ASSUME NEW s \in Sessions, NEW row \in SessionRows, Prepare(w, s, row)
      PROVE  Acts(w, MembershipCalls)
  BY <1>6, BeginsCall DEF Prepare, MembershipCalls
<1>7. ASSUME NEW s \in Sessions, SetCompany(w, s) \/ ResendOtp(w, s) \/ VerifyOtp(w, s)
      PROVE  Acts(w, MembershipCalls)
  <2>1. PICK old \in SessionRows : old = session[s]
    BY <1>1, <1>7 DEF SetCompany, ResendOtp, VerifyOtp
  <2>2. \/ Prepare(w, s, WithCode(old))
        \/ Prepare(w, s, [old EXCEPT !.verified = TRUE, !.code = FALSE])
        \/ MayVerify(old) /\ Prepare(w, s, [old EXCEPT !.tries = @ + 1])
    BY <1>7, <2>1 DEF SetCompany, ResendOtp, VerifyOtp
  <2> QED  BY <1>6, <2>2, SessionRowsSaved
<1>8. ASSUME NEW s \in Sessions, Complete(w, s)
      PROVE  Acts(w, MembershipCalls)
  <2>1. session[s].email \in Emails
    BY <1>1, <1>8 DEF Complete, SessionRows
  <2> QED  BY <1>8, <2>1, BeginsCall DEF Complete, MembershipCalls
<1>9. ASSUME \/ FindInvitee(w) \/ FindInvitation(w) \/ SaveMember(w)
             \/ CreateOrganization(w) \/ CreateAccount(w)
      PROVE  Acts(w, MembershipCalls)
  <2>1. call[w] # Idle /\ call[w] \in MembershipCalls
    BY <1>2, <1>9 DEF FindInvitee, FindInvitation, SaveMember, CreateOrganization,
                      CreateAccount, MembershipOps
  <2>2. CASE FindInvitee(w) \/ FindInvitation(w)
    <3>1. call[w].email \in Emails
      BY <2>1, <2>2, MembershipHolds DEF FindInvitee, FindInvitation
    <3> QED  BY <2>1, <2>2, <3>1, MakesCall, AnswersCall
             DEF FindInvitee, FindInvitation, MembershipCalls
  <2>3. CASE SaveMember(w)
    <3>1. call[w].invitation \in Invitations
      BY <2>1, <2>3, MembershipHolds DEF SaveMember
    <3> QED  BY <2>1, <2>3, <3>1, MakesCall, AnswersCall DEF SaveMember, MembershipCalls
  <2>4. CASE CreateOrganization(w)
    <3>1. call[w].session \in Sessions /\ call[w].email \in Emails
      BY <2>1, <2>4, MembershipHolds DEF CreateOrganization
    <3>2. PICK o \in Organizations :
             GoOn(w, [op |-> "createAccount", session |-> call[w].session,
                      email |-> call[w].email, organization |-> o])
      BY <2>4 DEF CreateOrganization
    <3> QED  BY <2>1, <3>1, <3>2, MakesCall DEF MembershipCalls
  <2>5. CASE CreateAccount(w)
    <3>1. call[w].session \in Sessions
      BY <2>1, <2>5, MembershipHolds DEF CreateAccount
    <3> QED  BY <2>1, <2>5, <3>1, MakesCall, AnswersCall DEF CreateAccount, MembershipCalls
  <2> QED  BY <1>9, <2>2, <2>3, <2>4, <2>5
<1>10. ASSUME \/ SaveInvitation(w) \/ UpdateStatus(w) \/ CreateSession(w)
              \/ SaveSession(w) \/ DeleteSession(w)
      PROVE  Acts(w, MembershipCalls)
  BY <1>10, AnswersCall DEF SaveInvitation, UpdateStatus, CreateSession, SaveSession,
                            DeleteSession, Idle
<1>11. ASSUME \/ CountUsersFirst(w) \/ CountPendingFirst(w)
              \/ CountPending(w) \/ CountUsers(w)
       PROVE  Acts(w, MembershipCalls)
  <2>1. call[w] # Idle /\ call[w] \in MembershipCalls
    BY <1>2, <1>11 DEF CountUsersFirst, CountPendingFirst, CountPending, CountUsers,
                       MembershipOps
  <2>2. call[w].email \in Emails /\ call[w].limit \in Amounts
    BY <1>11, <2>1, MembershipHolds
       DEF CountUsersFirst, CountPendingFirst, CountPending, CountUsers
  <2>3. CASE CountUsersFirst(w)
    <3>1. Homes \in SUBSET Emails
      BY DEF Homes
    <3> QED  BY <2>1, <2>2, <2>3, <3>1, MakesCall DEF CountUsersFirst, MembershipCalls
  <2>4. CASE CountPendingFirst(w)
    <3>1. PICK n \in Nat : n = Cardinality(Opens)
      BY FS_CardinalityType DEF PeopleFinite
    <3>2. GoOn(w, [op |-> "countUsers", email |-> call[w].email,
                   limit |-> call[w].limit, pending |-> n])
      BY <2>4, <3>1 DEF CountPendingFirst
    <3> QED  BY <2>1, <2>2, <3>2, MakesCall DEF MembershipCalls
  <2>5. CASE CountPending(w) \/ CountUsers(w)
    <3>1. Admit(w) \/ Return(w)
      BY <2>5 DEF CountPending, CountUsers
    <3> QED  BY <2>1, <2>2, <3>1, MakesCall, AnswersCall DEF Admit, MembershipCalls
  <2> QED  BY <1>11, <2>3, <2>4, <2>5
<1> QED  BY <1>3, <1>4, <1>5, <1>7, <1>8, <1>9, <1>10, <1>11 DEF MembershipStep

-----------------------------------------------------------------------------
\* What the calls about campaigns, prospects and delete requests hold
LEMMA RemovalHolds ==
    ASSUME NEW c \in RemovalCalls
    PROVE  /\ c.op \in {"findPending", "cancelPending"} => c.item \in Items
           /\ c.op = "findApproved" => [c EXCEPT !.op = "commitApproval"] \in RemovalCalls
           /\ c.op = "selectAnswered" => [c EXCEPT !.op = "updateAnswered"] \in RemovalCalls
<1>1. c.op \in {"findPending", "cancelPending"} => c.item \in Items
  BY DEF RemovalCalls
<1>2. c.op = "findApproved" => [c EXCEPT !.op = "commitApproval"] \in RemovalCalls
  <2>1. c.op = "findApproved" =>
          c \in [op : {"findApproved", "commitApproval"}, request : Requests, item : Items]
    BY DEF RemovalCalls
  <2> QED  BY <2>1 DEF RemovalCalls
<1>3. c.op = "selectAnswered" => [c EXCEPT !.op = "updateAnswered"] \in RemovalCalls
  <2>1. c.op = "selectAnswered" =>
          c \in [op : {"selectAnswered", "updateAnswered"}, request : Requests,
                 item : Items \cup {Null}, answer : {"rejected", "cancelled"}]
    BY DEF RemovalCalls
  <2> QED  BY <2>1 DEF RemovalCalls
<1> QED  BY <1>1, <1>2, <1>3

LEMMA RemovalActs ==
    ASSUME TypeOK, NEW w \in Slots, Removes(w)
    PROVE  Acts(w, RemovalCalls)
<1>1. \A r \in Requests : Pending(r) => request[r].item \in Items \cup {Null}
  BY DEF TypeOK, RemovalTypeOK, Pending, Made, RequestRows
<1>2. call[w].op \in RemovalOps => call[w] # Idle /\ call[w] \in RemovalCalls
  BY HoldsCall, OpsDistinct
<1>3. ASSUME NEW key \in Keys, CreateItem(w, key)
      PROVE  Acts(w, RemovalCalls)
  BY <1>3, BeginsCall DEF CreateItem, RemovalCalls
<1>4. ASSUME NEW i \in Items, DeleteItem(w, i) \/ UpdateItem(w, i) \/ AskDelete(w, i)
      PROVE  Acts(w, RemovalCalls)
  BY <1>4, BeginsCall DEF DeleteItem, UpdateItem, AskDelete, RemovalCalls
<1>5. ASSUME NEW r \in Requests, Approve(w, r)
      PROVE  Acts(w, RemovalCalls)
  <2>1. request[r].item \in Items
    BY <1>1, <1>5 DEF Approve
  <2> QED  BY <1>5, <2>1, BeginsCall DEF Approve, RemovalCalls
<1>6. ASSUME NEW r \in Requests, NEW answer \in {"rejected", "cancelled"},
             Answer(w, r, answer)
      PROVE  Acts(w, RemovalCalls)
  <2>1. request[r].item \in Items \cup {Null}
    BY <1>1, <1>6 DEF Answer
  <2> QED  BY <1>6, <2>1, BeginsCall DEF Answer, RemovalCalls
<1>7. ASSUME ImportItems(w)
      PROVE  Acts(w, RemovalCalls)
  <2>1. "prospects" \in Keys
    BY WorkspaceAssumption, RemovalAssumption
  <2> QED  BY <1>7, <2>1, BeginsCall DEF ImportItems, RemovalCalls
<1>8. ASSUME CancelPending(w) \/ FindPending(w)
      PROVE  Acts(w, RemovalCalls)
  <2>1. call[w] # Idle /\ call[w] \in RemovalCalls
    BY <1>2, <1>8 DEF CancelPending, FindPending, RemovalOps
  <2>2. call[w].item \in Items
    BY <1>8, <2>1, RemovalHolds DEF CancelPending, FindPending
  <2> QED  BY <1>8, <2>1, <2>2, MakesCall, AnswersCall
           DEF CancelPending, FindPending, RemovalCalls
<1>9. ASSUME FindApproved(w) \/ SelectAnswered(w)
      PROVE  Acts(w, RemovalCalls)
  <2>1. call[w] # Idle /\ call[w] \in RemovalCalls
    BY <1>2, <1>9 DEF FindApproved, SelectAnswered, RemovalOps
  <2>2. (\E c \in RemovalCalls : GoOn(w, c)) \/ Return(w)
    BY <1>9, <2>1, RemovalHolds DEF FindApproved, SelectAnswered
  <2> QED  BY <2>1, <2>2, MakesCall, AnswersCall
<1>10. ASSUME \/ InsertItem(w) \/ SaveItem(w) \/ RemoveItem(w) \/ SaveRequest(w)
              \/ CommitApproval(w) \/ UpdateAnswered(w) \/ InsertImported(w)
      PROVE  Acts(w, RemovalCalls)
  BY <1>10, AnswersCall DEF InsertItem, SaveItem, RemoveItem, SaveRequest,
                            CommitApproval, UpdateAnswered, InsertImported, Idle
<1> QED  BY <1>3, <1>4, <1>5, <1>6, <1>7, <1>8, <1>9, <1>10
         DEF Removes, RowStep, RequestStep, ImportStep

LEMMA PlanActs ==
    ASSUME TypeOK, NEW w \in Slots, PlanStep(w)
    PROVE  Acts(w, PlanCalls)
<1>1. \A i \in Campaigns : Settings(plan[i]) \in AllSettings
  BY SettingsSeen DEF TypeOK, PlanTypeOK
<1>2. ASSUME NEW i \in Campaigns, NEW c \in Calendars, NEW n \in Audiences,
             Schedule(w, i, c, n)
      PROVE  Acts(w, PlanCalls)
  BY <1>2, BeginsCall DEF Schedule, PlanCalls
<1>3. ASSUME NEW i \in Campaigns,
             AddRecipient(w, i) \/ UpdateCampaign(w, i) \/ TickCampaign(w, i)
      PROVE  Acts(w, PlanCalls)
  BY <1>1, <1>3, BeginsCall DEF AddRecipient, UpdateCampaign, TickCampaign, PlanCalls
<1>4. ASSUME SaveSchedule(w) \/ SaveRecipient(w) \/ SaveCampaign(w)
      PROVE  Acts(w, PlanCalls)
  BY <1>4, AnswersCall DEF SaveSchedule, SaveRecipient, SaveCampaign, Idle
<1>5. ASSUME SaveTicked(w)
      PROVE  Acts(w, PlanCalls)
  <2>1. call[w] # Idle /\ call[w] \in PlanCalls
    BY <1>5, HoldsCall, OpsDistinct DEF SaveTicked, PlanOps
  <2>2. CASE UNCHANGED slotVars
    <3>1. call' = [call EXCEPT ![w] = call[w]]
      BY <2>2 DEF slotVars, TypeOK
    <3>2. GoOn(w, call[w])
      BY <2>2, <3>1 DEF GoOn, slotVars
    <3> QED  BY <2>1, <3>2, MakesCall
  <2>3. CASE Return(w)
    BY <2>1, <2>3, AnswersCall
  <2> QED  BY <1>5, <2>2, <2>3 DEF SaveTicked
<1> QED  BY <1>2, <1>3, <1>4, <1>5 DEF PlanStep

-----------------------------------------------------------------------------
\* What the calls about websites hold
LEMMA SiteHolds ==
    ASSUME NEW c \in SiteCalls
    PROVE  /\ c.op = "findDomain" => [c EXCEPT !.op = "insertSite"] \in SiteCalls
           /\ c.op = "findOther" => [c EXCEPT !.op = "saveSite"] \in SiteCalls
           /\ c.op = "saveRuns" =>
                \A s : [c EXCEPT !.sites = c.sites \ {s}] \in SiteCalls
<1>1. c.op = "findDomain" => [c EXCEPT !.op = "insertSite"] \in SiteCalls
  <2>1. c.op = "findDomain" => c \in [op : {"findDomain", "insertSite"}, row : SiteRows]
    BY DEF SiteCalls
  <2> QED  BY <2>1 DEF SiteCalls
<1>2. c.op = "findOther" => [c EXCEPT !.op = "saveSite"] \in SiteCalls
  <2>1. c.op = "findOther" =>
          c \in [op : {"findOther", "saveSite"}, site : Sites, row : SiteRows]
    BY DEF SiteCalls
  <2> QED  BY <2>1 DEF SiteCalls
<1>3. ASSUME c.op = "saveRuns", NEW s
      PROVE  [c EXCEPT !.sites = c.sites \ {s}] \in SiteCalls
  <2>1. c \in [op : {"saveRuns"}, sites : SUBSET Sites, cron : BOOLEAN]
    BY <1>3 DEF SiteCalls
  <2>2. [c EXCEPT !.sites = c.sites \ {s}]
           \in [op : {"saveRuns"}, sites : SUBSET Sites, cron : BOOLEAN]
    BY <2>1
  <2> QED  BY <2>2 DEF SiteCalls
<1> QED  BY <1>1, <1>2, <1>3

LEMMA SiteActs ==
    ASSUME TypeOK, NEW w \in Slots, SiteStep(w)
    PROVE  Acts(w, SiteCalls)
<1>1. call[w].op \in SiteOps => call[w] # Idle /\ call[w] \in SiteCalls
  BY HoldsCall, OpsDistinct
<1>2. ASSUME NEW row \in SiteRows, CreateSite(w, row)
      PROVE  Acts(w, SiteCalls)
  BY <1>2, BeginsCall DEF CreateSite, SiteCalls
<1>3. ASSUME NEW row \in SiteRows, NEW s \in Sites, UpdateSite(w, s, row)
      PROVE  Acts(w, SiteCalls)
  <2>1. PICK name \in {"saveSite", "findOther"} :
           name = IF row.domain = site[s].domain THEN "saveSite" ELSE "findOther"
    OBVIOUS
  <2>2. PICK c : c = [op |-> name, site |-> s, row |-> row]
    OBVIOUS
  <2>3. c \in SiteCalls
    BY <2>1, <2>2 DEF SiteCalls
  <2> QED  BY <1>3, <2>1, <2>2, <2>3, BeginsCall DEF UpdateSite
<1>4. ASSUME NEW s \in Sites, DeleteSite(w, s)
      PROVE  Acts(w, SiteCalls)
  BY <1>4, BeginsCall DEF DeleteSite, SiteCalls
<1>5. ASSUME NEW sites \in SUBSET Sites, TriggerAudit(w, sites)
      PROVE  Acts(w, SiteCalls)
  BY <1>5, BeginsCall DEF TriggerAudit, SiteCalls
<1>6. ASSUME MonthlyAudits(w)
      PROVE  Acts(w, SiteCalls)
  <2>1. ActiveSites \in SUBSET Sites
    BY DEF ActiveSites
  <2> QED  BY <1>6, <2>1, BeginsCall DEF MonthlyAudits, SiteCalls
<1>7. ASSUME FindDomain(w) \/ FindOther(w)
      PROVE  Acts(w, SiteCalls)
  <2>1. call[w] # Idle /\ call[w] \in SiteCalls
    BY <1>1, <1>7 DEF FindDomain, FindOther, SiteOps
  <2>2. (\E c \in SiteCalls : GoOn(w, c)) \/ Return(w)
    BY <1>7, <2>1, SiteHolds DEF FindDomain, FindOther
  <2> QED  BY <2>1, <2>2, MakesCall, AnswersCall
<1>8. ASSUME NEW s \in Sites, SaveRun(w, s)
      PROVE  Acts(w, SiteCalls)
  <2>1. call[w] # Idle /\ call[w] \in SiteCalls
    BY <1>1, <1>8 DEF SaveRun, SiteOps
  <2>2. GoOn(w, [call[w] EXCEPT !.sites = call[w].sites \ {s}]) \/ Return(w)
    BY <1>8 DEF SaveRun
  <2>3. [call[w] EXCEPT !.sites = call[w].sites \ {s}] \in SiteCalls
    BY <1>8, <2>1, SiteHolds DEF SaveRun
  <2> QED  BY <2>1, <2>2, <2>3, MakesCall, AnswersCall
<1>9. ASSUME InsertSite(w) \/ SaveSite(w) \/ RemoveSite(w)
      PROVE  Acts(w, SiteCalls)
  BY <1>9, AnswersCall DEF InsertSite, SaveSite, RemoveSite, Idle
<1>10. ActiveSites \in SUBSET Sites /\ \A s \in Sites : {s} \in SUBSET Sites
  BY DEF ActiveSites
<1> QED  BY <1>2, <1>3, <1>4, <1>5, <1>6, <1>7, <1>8, <1>9, <1>10 DEF SiteStep


-----------------------------------------------------------------------------
\* What the calls about meetings hold
LEMMA MeetingHolds ==
    ASSUME NEW c \in MeetingCalls
    PROVE  /\ c.op # "deleteConnection" => c.goal \in Goals
           /\ c.op \in {"refresh", "findConnection", "insertConnection",
                        "selectConnection", "updateConnection"} =>
                c.new \in NewConnections
           /\ c.op \in {"selectConnection", "updateConnection"} => c.id \in Nat
           /\ c.op = "refresh" => [c EXCEPT !.op = "findConnection"] \in MeetingCalls
           /\ c.op = "findConnection" =>
                [c EXCEPT !.op = "insertConnection"] \in MeetingCalls
<1>1. CASE c.op \in {"refresh", "findConnection", "insertConnection"}
  <2>1. c \in [op : {"refresh", "findConnection", "insertConnection"},
               new : NewConnections, goal : Goals]
    BY <1>1 DEF MeetingCalls
  <2>2. \A name \in {"findConnection", "insertConnection"} :
           [c EXCEPT !.op = name] \in
               [op : {"refresh", "findConnection", "insertConnection"},
                new : NewConnections, goal : Goals]
    BY <2>1
  <2>3. \A name \in {"findConnection", "insertConnection"} :
           [c EXCEPT !.op = name] \in MeetingCalls
    BY <2>2 DEF MeetingCalls
  <2> QED  BY <1>1, <2>1, <2>3
<1>2. CASE c.op \in {"selectConnection", "updateConnection"}
  BY <1>2 DEF MeetingCalls
<1>3. CASE c.op \notin {"refresh", "findConnection", "insertConnection",
                        "selectConnection", "updateConnection"}
  BY <1>3 DEF MeetingCalls
<1> QED  BY <1>1, <1>2, <1>3

LEMMA GoalHolds ==
    ASSUME NEW goal \in Goals
    PROVE  /\ goal.do \in {"connect", "create", "cancel"}
           /\ goal.do = "cancel" => goal.meeting \in MeetingIds
BY DEF Goals

LEMMA TokenTyped ==
    ASSUME NEW a \in Accounts, NEW goal \in Goals
    PROVE  WithToken(a, goal) \in MeetingCalls \cup {Idle}
<1>1. CASE goal.do = "create"
  <2>1. WithToken(a, goal) = [op |-> "createEvent", account |-> a, goal |-> goal]
    BY <1>1 DEF WithToken
  <2> QED  BY <2>1 DEF MeetingCalls
<1>2. CASE goal.do = "cancel"
  <2>1. WithToken(a, goal) = [op |-> "deleteEvent", account |-> a, goal |-> goal]
    BY <1>2 DEF WithToken
  <2> QED  BY <2>1 DEF MeetingCalls
<1>3. CASE goal.do = "connect"
  BY <1>3 DEF WithToken
<1> QED  BY <1>1, <1>2, <1>3, GoalHolds

LEMMA MeetingBegunActs ==
    ASSUME TypeOK, NEW w \in Slots,
           \/ \E a \in Accounts : Connect(w, a)
           \/ \E i \in Items : ScheduleMeeting(w, i)
           \/ \E m \in MeetingIds, creator \in BOOLEAN : Cancel(w, m, creator)
           \/ Disconnect(w)
    PROVE  Acts(w, MeetingCalls)
<1>1. revision \in Nat
  BY DEF TypeOK, MeetingTypeOK
<1>2. ASSUME NEW a \in Accounts, Connect(w, a)
      PROVE  Acts(w, MeetingCalls)
  <2>1. PICK new \in NewConnections :
           new = [email |-> a, token |-> a, since |-> revision]
    BY <1>1 DEF NewConnections
  <2>2. PICK goal \in Goals : goal = [do |-> "connect", account |-> a]
    BY DEF Goals
  <2>3. Begin(w, [op |-> "findConnection", new |-> new, goal |-> goal])
    BY <1>2, <2>1, <2>2 DEF Connect
  <2> QED  BY <2>3, BeginsCall DEF MeetingCalls
<1>3. ASSUME NEW i \in Items, ScheduleMeeting(w, i)
      PROVE  Acts(w, MeetingCalls)
  <2>1. PICK goal \in Goals : goal = [do |-> "create", item |-> i]
    BY DEF Goals
  <2>2. Begin(w, [op |-> "findToken", goal |-> goal])
    BY <1>3, <2>1 DEF ScheduleMeeting
  <2> QED  BY <2>2, BeginsCall DEF MeetingCalls
<1>4. ASSUME NEW m \in MeetingIds, NEW creator \in BOOLEAN, Cancel(w, m, creator)
      PROVE  Acts(w, MeetingCalls)
  <2>1. PICK goal \in Goals : goal = [do |-> "cancel", meeting |-> m]
    BY DEF Goals
  <2>2. \/ Begin(w, [op |-> "findToken", goal |-> goal])
        \/ Begin(w, [op |-> "saveCancelled", meeting |-> m, goal |-> goal])
    BY <1>4, <2>1 DEF Cancel
  <2> QED  BY <2>2, BeginsCall DEF MeetingCalls
<1>5. ASSUME Disconnect(w)
      PROVE  Acts(w, MeetingCalls)
  BY <1>5, BeginsCall DEF Disconnect, MeetingCalls
<1> QED  BY <1>2, <1>3, <1>4, <1>5

LEMMA RowInsertedActs ==
    ASSUME NEW w \in Slots, NEW id, InsertRow(w, id), call[w] # Idle,
           call[w].new \in NewConnections, call[w].goal \in Goals
    PROVE  Acts(w, MeetingCalls)
<1>1. call[w].new.token \in Accounts
  BY DEF NewConnections
<1>2. GoOn(w, WithToken(call[w].new.token, call[w].goal)) \/ Return(w)
  BY DEF InsertRow, Saved
<1> QED  BY <1>1, <1>2, TokenTyped, MakesCall, AnswersCall

LEMMA ConnectionActs ==
    ASSUME TypeOK, NEW w \in Slots,
           \/ FindConnection(w) \/ InsertConnection(w)
           \/ SelectConnection(w) \/ UpdateConnection(w)
    PROVE  Acts(w, MeetingCalls)
<1>1. /\ call[w].op \in {"findConnection", "insertConnection", "selectConnection",
                         "updateConnection"}
      /\ call[w] # Idle /\ call[w] \in MeetingCalls
  <2>1. call[w].op \in {"findConnection", "insertConnection", "selectConnection",
                        "updateConnection"}
    BY DEF FindConnection, InsertConnection, SelectConnection, UpdateConnection
  <2>2. call[w].op \in MeetingOps
    BY <2>1 DEF MeetingOps, GoalOps
  <2> QED  BY <2>1, <2>2, HoldsCall, OpsDistinct
<1>2. call[w].new \in NewConnections /\ call[w].goal \in Goals
  BY <1>1, MeetingHolds
<1>3. CASE FindConnection(w)
  <2>1. CASE connection = Off
    <3>1. GoOn(w, [call[w] EXCEPT !.op = "insertConnection"])
      BY <1>3, <2>1 DEF FindConnection
    <3>2. [call[w] EXCEPT !.op = "insertConnection"] \in MeetingCalls
      BY <1>1, <1>3, MeetingHolds DEF FindConnection
    <3> QED  BY <1>1, <3>1, <3>2, MakesCall
  <2>2. CASE connection # Off
    <3>1. PICK id \in Nat : id = connection.id
      BY <2>2 DEF TypeOK, MeetingTypeOK, Connections
    <3>2. GoOn(w, [op |-> "selectConnection", id |-> id, new |-> call[w].new,
                   goal |-> call[w].goal])
      BY <1>3, <2>2, <3>1 DEF FindConnection
    <3> QED  BY <1>1, <1>2, <3>2, MakesCall DEF MeetingCalls
  <2> QED  BY <2>1, <2>2
<1>4. CASE InsertConnection(w)
  BY <1>1, <1>2, <1>4, RowInsertedActs DEF InsertConnection
<1>5. CASE SelectConnection(w)
  <2>1. call[w].id \in Nat
    BY <1>1, <1>5, MeetingHolds DEF SelectConnection
  <2>2. PICK selected \in Accounts \cup {Off} :
           GoOn(w, [op |-> "updateConnection", id |-> call[w].id, new |-> call[w].new,
                    selected |-> selected, goal |-> call[w].goal])
    BY <1>5 DEF SelectConnection, TypeOK, MeetingTypeOK, Connections
  <2> QED  BY <1>1, <1>2, <2>1, <2>2, MakesCall DEF MeetingCalls
<1>6. CASE UpdateConnection(w)
  <2>1. call[w].new.token \in Accounts
    BY <1>2 DEF NewConnections
  <2>2. InsertRow(w, call[w].id) \/ GoOn(w, WithToken(call[w].new.token, call[w].goal))
    BY <1>6 DEF UpdateConnection, Saved
  <2> QED  BY <1>1, <1>2, <2>1, <2>2, RowInsertedActs, TokenTyped, MakesCall
<1> QED  BY <1>3, <1>4, <1>5, <1>6

LEMMA TokenActs ==
    ASSUME TypeOK, NEW w \in Slots, FindToken(w) \/ Refresh(w)
    PROVE  Acts(w, MeetingCalls)
<1>1. call[w] # Idle /\ call[w] \in MeetingCalls
  <2>1. call[w].op \in MeetingOps
    BY DEF FindToken, Refresh, MeetingOps, GoalOps
  <2> QED  BY <2>1, HoldsCall, OpsDistinct
<1>2. PICK goal \in Goals : goal = call[w].goal
  BY <1>1, MeetingHolds DEF FindToken, Refresh
<1>3. CASE FindToken(w)
  <2>1. CASE connection = Off
    BY <1>1, <1>3, <2>1, AnswersCall DEF FindToken
  <2>2. CASE connection # Off
    <3>1. connection \in Connections /\ revision \in Nat
      BY <2>2 DEF TypeOK, MeetingTypeOK
    <3>2. PICK new \in NewConnections :
             new = [email |-> connection.email, token |-> connection.token,
                    since |-> revision]
      BY <3>1 DEF Connections, NewConnections
    <3>3. connection.token \in Accounts
      BY <3>1 DEF Connections
    <3>4. \/ GoOn(w, WithToken(connection.token, goal))
          \/ GoOn(w, [op |-> "refresh", goal |-> goal, new |-> new])
      BY <1>2, <1>3, <2>2, <3>2 DEF FindToken
    <3>5. [op |-> "refresh", goal |-> goal, new |-> new] \in MeetingCalls
      BY DEF MeetingCalls
    <3> QED  BY <1>1, <3>3, <3>4, <3>5, TokenTyped, MakesCall
  <2> QED  BY <2>1, <2>2
<1>4. CASE Refresh(w)
  <2>1. [call[w] EXCEPT !.op = "findConnection"] \in MeetingCalls
    BY <1>1, <1>4, MeetingHolds DEF Refresh
  <2> QED  BY <1>1, <1>4, <2>1, MakesCall, AnswersCall DEF Refresh
<1> QED  BY <1>3, <1>4

-----------------------------------------------------------------------------
\* What the calls about Google accounts hold
LEMMA GoogleHolds ==
    ASSUME NEW c \in GoogleCalls
    PROVE  /\ c.op \in {"findAccount", "insertAccount", "updateAccount"} =>
                c.row \in GoogleRows /\ c.for \in PropertyIds \cup {NoLink}
           /\ c.op = "findAccount" => [c EXCEPT !.op = "insertAccount"] \in GoogleCalls
           /\ c.op \in {"updateAccount", "countLinks", "deleteAccount"} => c.id \in LinkIds
           /\ c.op = "findSite" => c.property \in PropertyIds /\ c.to \in LinkIds
           /\ c.op \in {"saveLink", "removeProperty"} => c.property \in PropertyIds
           /\ c.op \in {"countAccounts", "deleteApp", "saveApp"} => c.app \in Apps
           /\ c.op = "countAccounts" => [c EXCEPT !.op = "deleteApp"] \in GoogleCalls
<1>1. CASE c.op \in {"findAccount", "insertAccount"}
  <2>1. c \in [op : {"findAccount", "insertAccount"}, row : GoogleRows,
               for : PropertyIds \cup {NoLink}]
    BY <1>1 DEF GoogleCalls
  <2>2. [c EXCEPT !.op = "insertAccount"] \in GoogleCalls
    BY <2>1 DEF GoogleCalls
  <2> QED  BY <1>1, <2>1, <2>2
<1>2. CASE c.op \in {"countAccounts", "deleteApp", "saveApp"}
  <2>1. c \in [op : {"countAccounts", "deleteApp", "saveApp"}, app : Apps]
    BY <1>2 DEF GoogleCalls
  <2>2. [c EXCEPT !.op = "deleteApp"] \in GoogleCalls
    BY <2>1 DEF GoogleCalls
  <2> QED  BY <1>2, <2>1, <2>2
<1>3. CASE c.op \notin {"findAccount", "insertAccount", "countAccounts", "deleteApp",
                        "saveApp"}
  BY <1>3 DEF GoogleCalls
<1> QED  BY <1>1, <1>2, <1>3

LEMMA GoogleBegunActs ==
    ASSUME TypeOK, NEW w \in Slots,
           \/ \E row \in GoogleRows, for \in Built \cup {NoLink} : Callback(w, row, for)
           \/ \E c \in LinkIds :
               \/ RefreshAccount(w, c) \/ DeleteOrganizationConnection(w, c)
               \/ CreateProperty(w, c)
               \/ \E p \in PropertyIds : AssignConnection(w, p, c)
           \/ \E p \in PropertyIds :
               DisconnectProperty(w, p) \/ EditProperty(w, p) \/ DeleteProperty(w, p)
           \/ \E a \in Apps : DeleteApp(w, a) \/ UpdateApp(w, a)
    PROVE  Acts(w, GoogleCalls)
<1>1. ASSUME NEW row \in GoogleRows, NEW for \in Built \cup {NoLink}, Callback(w, row, for)
      PROVE  Acts(w, GoogleCalls)
  BY <1>1, BeginsCall DEF Callback, Built, GoogleCalls
<1>2. ASSUME NEW c \in LinkIds, RefreshAccount(w, c)
      PROVE  Acts(w, GoogleCalls)
  <2>1. PICK row \in GoogleRows : row = google[c]
    BY <1>2 DEF RefreshAccount, Connected, TypeOK, GoogleTypeOK, GoogleRows
  <2>2. Begin(w, [op |-> "findAccount", row |-> row, for |-> NoLink])
    BY <1>2, <2>1 DEF RefreshAccount
  <2> QED  BY <2>2, BeginsCall DEF GoogleCalls
<1>3. ASSUME NEW c \in LinkIds, DeleteOrganizationConnection(w, c) \/ CreateProperty(w, c)
      PROVE  Acts(w, GoogleCalls)
  BY <1>3, BeginsCall DEF DeleteOrganizationConnection, CreateProperty, GoogleCalls
<1>4. ASSUME NEW c \in LinkIds, NEW p \in PropertyIds, AssignConnection(w, p, c)
      PROVE  Acts(w, GoogleCalls)
  <2>1. PICK said \in BOOLEAN : said = TRUE
    OBVIOUS
  <2>2. Begin(w, [op |-> "saveLink", property |-> p, to |-> c, decided |-> said])
    BY <1>4, <2>1 DEF AssignConnection
  <2> QED  BY <2>2, BeginsCall DEF GoogleCalls
<1>5. ASSUME NEW p \in PropertyIds, DisconnectProperty(w, p) \/ DeleteProperty(w, p)
      PROVE  Acts(w, GoogleCalls)
  <2>1. PICK said \in BOOLEAN : said = TRUE
    OBVIOUS
  <2>2. \/ Begin(w, [op |-> "saveLink", property |-> p, to |-> NoLink, decided |-> said])
        \/ Begin(w, [op |-> "removeProperty", property |-> p])
    BY <1>5, <2>1 DEF DisconnectProperty, DeleteProperty
  <2> QED  BY <2>2, BeginsCall DEF GoogleCalls
<1>6. ASSUME NEW p \in PropertyIds, EditProperty(w, p)
      PROVE  Acts(w, GoogleCalls)
  <2>1. PICK to \in LinkIds \cup {NoLink} : to = link[p]
    BY <1>6 DEF EditProperty, Built, Connected, TypeOK, GoogleTypeOK
  <2>3. PICK said \in BOOLEAN : said = FALSE
    OBVIOUS
  <2>2. Begin(w, [op |-> "saveLink", property |-> p, to |-> to, decided |-> said])
    BY <1>6, <2>1, <2>3 DEF EditProperty
  <2> QED  BY <2>2, BeginsCall DEF GoogleCalls
<1>7. ASSUME NEW a \in Apps, DeleteApp(w, a) \/ UpdateApp(w, a)
      PROVE  Acts(w, GoogleCalls)
  BY <1>7, BeginsCall DEF DeleteApp, UpdateApp, GoogleCalls
<1> QED  BY <1>1, <1>2, <1>3, <1>4, <1>5, <1>6, <1>7

LEMMA StoredActs ==
    ASSUME NEW w \in Slots, NEW c \in LinkIds, Stored(w, c), call[w] # Idle,
           call[w].for \in PropertyIds \cup {NoLink}
    PROVE  Acts(w, GoogleCalls)
BY MakesCall, AnswersCall DEF Stored, GoogleCalls

LEMMA AccountActs ==
    ASSUME TypeOK, NEW w \in Slots, FindAccount(w) \/ InsertAccount(w) \/ UpdateAccount(w)
    PROVE  Acts(w, GoogleCalls)
<1>1. /\ call[w].op \in {"findAccount", "insertAccount", "updateAccount"}
      /\ call[w] # Idle /\ call[w] \in GoogleCalls
  <2>1. call[w].op \in {"findAccount", "insertAccount", "updateAccount"}
    BY DEF FindAccount, InsertAccount, UpdateAccount
  <2>2. call[w].op \in GoogleOps
    BY <2>1 DEF GoogleOps
  <2> QED  BY <2>1, <2>2, HoldsCall, OpsDistinct
<1>2. PICK row, for : /\ row = call[w].row /\ for = call[w].for
                      /\ row \in GoogleRows /\ for \in PropertyIds \cup {NoLink}
  BY <1>1, GoogleHolds
<1>3. CASE FindAccount(w)
  <2>1. \/ GoOn(w, [call[w] EXCEPT !.op = "insertAccount"])
        \/ \E c \in LinkIds :
              GoOn(w, [op |-> "updateAccount", id |-> c, row |-> row, for |-> for])
    BY <1>2, <1>3 DEF FindAccount, Connected
  <2>2. [call[w] EXCEPT !.op = "insertAccount"] \in GoogleCalls
    BY <1>1, <1>3, GoogleHolds DEF FindAccount
  <2>3. \A c \in LinkIds :
           [op |-> "updateAccount", id |-> c, row |-> row, for |-> for] \in GoogleCalls
    BY <1>2 DEF GoogleCalls
  <2> QED  BY <1>1, <2>1, <2>2, <2>3, MakesCall
<1>4. CASE InsertAccount(w)
  <2>1. PICK c \in LinkIds : Store(w, c)
    BY <1>4 DEF InsertAccount
  <2> QED  BY <1>1, <1>2, <2>1, StoredActs, AnswersCall DEF Store
<1>5. CASE UpdateAccount(w)
  <2>1. call[w].id \in LinkIds
    BY <1>1, <1>5, GoogleHolds DEF UpdateAccount
  <2> QED  BY <1>1, <1>2, <1>5, <2>1, StoredActs, AnswersCall DEF UpdateAccount, Store
<1> QED  BY <1>3, <1>4, <1>5

LEMMA GoogleActs ==
    ASSUME TypeOK, NEW w \in Slots, GoogleStep(w)
    PROVE  Acts(w, GoogleCalls)
<1>1. call[w].op \in GoogleOps => call[w] # Idle /\ call[w] \in GoogleCalls
  BY HoldsCall, OpsDistinct
<1>2. ASSUME FindSite(w)
      PROVE  Acts(w, GoogleCalls)
  <2>1. call[w] # Idle /\ call[w].property \in PropertyIds /\ call[w].to \in LinkIds
    BY <1>1, <1>2, GoogleHolds DEF FindSite, GoogleOps
  <2> QED  BY <1>2, <2>1, MakesCall, AnswersCall DEF FindSite, GoogleCalls
<1>3. ASSUME CountLinks(w)
      PROVE  Acts(w, GoogleCalls)
  <2>1. call[w] # Idle /\ call[w].id \in LinkIds
    BY <1>1, <1>3, GoogleHolds DEF CountLinks, GoogleOps
  <2>2. PICK without \in SUBSET PropertyIds : without = PropertyIds \ LinkedTo(call[w].id)
    OBVIOUS
  <2> QED  BY <1>3, <2>1, <2>2, MakesCall, AnswersCall DEF CountLinks, GoogleCalls
<1>4. ASSUME CountAccounts(w)
      PROVE  Acts(w, GoogleCalls)
  <2>1. call[w] # Idle /\ [call[w] EXCEPT !.op = "deleteApp"] \in GoogleCalls
    BY <1>1, <1>4, GoogleHolds DEF CountAccounts, GoogleOps
  <2> QED  BY <1>4, <2>1, MakesCall, AnswersCall DEF CountAccounts
<1>5. ASSUME \/ SaveLink(w) \/ InsertProperty(w) \/ RemoveProperty(w)
             \/ DeleteAccount(w) \/ RemoveApp(w) \/ SaveApp(w)
      PROVE  Acts(w, GoogleCalls)
  BY <1>5, AnswersCall DEF SaveLink, InsertProperty, RemoveProperty, DeleteAccount,
                           RemoveApp, SaveApp, Idle
<1> QED  BY <1>2, <1>3, <1>4, <1>5, GoogleBegunActs, AccountActs DEF GoogleStep

-----------------------------------------------------------------------------
\* Rows: a connection needs its app, and a link its connection.

LEMMA GoogleRowsKept ==
    ASSUME GoogleTypeOK, UNCHANGED googleVars
    PROVE  GoogleTypeOK'
BY DEF googleVars, GoogleTypeOK, Connected

LEMMA StoreTyped ==
    ASSUME GoogleTypeOK, NEW w, NEW c \in LinkIds, Store(w, c),
           call[w].row \in GoogleRows, UNCHANGED <<apps, link>>
    PROVE  GoogleTypeOK'
<1>1. CASE Storable(call[w].row)
  <2>1. PICK row : row = call[w].row /\ row \in [app : apps, email : GoogleEmails]
    BY <1>1 DEF Storable, GoogleRows
  <2>2. google' = [google EXCEPT ![c] = row] /\ issued' = issued \cup {c}
    BY <1>1, <2>1 DEF Store
  <2>3. row # Missing
    BY <2>1, GoogleAssumption DEF GoogleTypeOK, GoogleRows
  <2>4. Connected' = Connected \cup {c}
    BY <2>2, <2>3 DEF Connected, GoogleTypeOK
  <2> QED  BY <2>1, <2>2, <2>4 DEF GoogleTypeOK
<1>2. CASE ~Storable(call[w].row)
  BY <1>2, GoogleRowsKept DEF Store, googleVars
<1> QED  BY <1>1, <1>2

LEMMA GoogleWritesTyped ==
    ASSUME TypeOK, NEW w \in Slots,
           \/ InsertAccount(w) \/ UpdateAccount(w) \/ SaveLink(w) \/ InsertProperty(w)
           \/ RemoveProperty(w) \/ DeleteAccount(w) \/ RemoveApp(w) \/ SaveApp(w)
    PROVE  GoogleTypeOK'
<1>1. GoogleTypeOK
  BY DEF TypeOK
<1>2. call[w].op \in GoogleOps => call[w] # Idle /\ call[w] \in GoogleCalls
  BY HoldsCall, OpsDistinct
<1>3. CASE InsertAccount(w)
  <2>1. call[w].row \in GoogleRows
    BY <1>2, <1>3, GoogleHolds DEF InsertAccount, GoogleOps
  <2>2. PICK c \in LinkIds : Store(w, c)
    BY <1>3 DEF InsertAccount
  <2> QED  BY <1>1, <1>3, <2>1, <2>2, StoreTyped DEF InsertAccount
<1>4. CASE UpdateAccount(w)
  <2>1. call[w].row \in GoogleRows /\ call[w].id \in LinkIds
    BY <1>2, <1>4, GoogleHolds DEF UpdateAccount, GoogleOps
  <2> QED  BY <1>1, <1>4, <2>1, StoreTyped, GoogleRowsKept DEF UpdateAccount, googleVars
<1>5. CASE SaveLink(w)
  <2>1. UNCHANGED <<apps, google, issued>> /\ Connected' = Connected
    BY <1>5 DEF SaveLink, Connected
  <2>2. link' \in [PropertyIds -> Connected \cup {NoLink, Missing}]
    BY <1>1, <1>5 DEF SaveLink, GoogleTypeOK
  <2> QED  BY <1>1, <2>1, <2>2 DEF GoogleTypeOK
<1>6. CASE InsertProperty(w)
  <2>1. UNCHANGED <<apps, google>> /\ Connected' = Connected
    BY <1>6 DEF InsertProperty, Connected
  <2>2. PICK p \in PropertyIds :
           \/ call[w].to \in Connected /\ link' = [link EXCEPT ![p] = call[w].to]
              /\ issued' = issued \cup {p}
           \/ UNCHANGED <<link, issued>>
    <3>1. \E p \in PropertyIds : p \notin issued
      BY <1>6 DEF InsertProperty
    <3> QED  BY <1>6, <3>1 DEF InsertProperty
  <2> QED  BY <1>1, <2>1, <2>2 DEF GoogleTypeOK
<1>7. CASE RemoveProperty(w)
  <2>1. UNCHANGED <<apps, google, issued>> /\ Connected' = Connected
    BY <1>7 DEF RemoveProperty, Connected
  <2>2. link' \in [PropertyIds -> Connected \cup {NoLink, Missing}]
    BY <1>1, <1>7 DEF RemoveProperty, GoogleTypeOK
  <2> QED  BY <1>1, <2>1, <2>2 DEF GoogleTypeOK
<1>8. CASE DeleteAccount(w)
  <2>1. PICK c \in LinkIds : c = call[w].id
    BY <1>2, <1>8, GoogleHolds DEF DeleteAccount, GoogleOps
  <2>2. /\ google' = [google EXCEPT ![c] = Missing]
        /\ link' = [p \in PropertyIds |-> IF link[p] = c THEN NoLink ELSE link[p]]
        /\ UNCHANGED <<apps, issued>>
    BY <1>8, <2>1 DEF DeleteAccount, LinkedTo
  <2>3. Connected' = Connected \ {c}
    BY <1>1, <2>2 DEF Connected, GoogleTypeOK
  <2>4. google' \in [LinkIds -> [app : apps, email : GoogleEmails] \cup {Missing}]
    BY <1>1, <2>2 DEF GoogleTypeOK
  <2> QED  BY <1>1, <2>2, <2>3, <2>4 DEF GoogleTypeOK
<1>9. CASE RemoveApp(w)
  <2>1. UNCHANGED <<google, issued, link>> /\ Connected' = Connected
    BY <1>9 DEF RemoveApp, Connected
  <2>2. PICK a : apps' = (IF ThroughApp(a) = {} THEN apps \ {a} ELSE apps)
    BY <1>9 DEF RemoveApp
  <2>3. \A c \in LinkIds : google[c] # Missing =>
           google[c] \in [app : apps, email : GoogleEmails]
    BY <1>1 DEF GoogleTypeOK
  <2>4. \A c \in LinkIds : google[c] # Missing =>
           google[c] \in [app : apps', email : GoogleEmails]
    BY <2>2, <2>3 DEF ThroughApp, Connected
  <2>5. google' \in [LinkIds -> [app : apps', email : GoogleEmails] \cup {Missing}]
    BY <1>1, <2>1, <2>4 DEF GoogleTypeOK
  <2> QED  BY <1>1, <2>1, <2>2, <2>5 DEF GoogleTypeOK
<1>10. CASE SaveApp(w)
  <2>1. UNCHANGED <<google, issued, link>> /\ Connected' = Connected
    BY <1>10 DEF SaveApp, Connected
  <2>2. apps' = apps \cup {call[w].app} /\ call[w].app \in Apps
    BY <1>2, <1>10, GoogleHolds DEF SaveApp, GoogleOps
  <2>3. google \in [LinkIds -> [app : apps', email : GoogleEmails] \cup {Missing}]
    BY <1>1, <2>2 DEF GoogleTypeOK
  <2> QED  BY <1>1, <2>1, <2>2, <2>3 DEF GoogleTypeOK
<1> QED  BY <1>3, <1>4, <1>5, <1>6, <1>7, <1>8, <1>9, <1>10

LEMMA GoogleTyped ==
    ASSUME TypeOK, NEW w \in Slots, GoogleStep(w)
    PROVE  GoogleTypeOK'
<1>1. UNCHANGED googleVars \/ \/ InsertAccount(w) \/ UpdateAccount(w) \/ SaveLink(w)
                              \/ InsertProperty(w) \/ RemoveProperty(w)
                              \/ DeleteAccount(w) \/ RemoveApp(w) \/ SaveApp(w)
  BY DEF GoogleStep, Callback, RefreshAccount, DeleteOrganizationConnection,
         CreateProperty, AssignConnection, DisconnectProperty, EditProperty,
         DeleteProperty, DeleteApp, UpdateApp, FindAccount, FindSite, CountLinks,
         CountAccounts
<1> QED  BY <1>1, GoogleWritesTyped, GoogleRowsKept DEF TypeOK
=============================================================================
