----------------------------- MODULE TeamRoles -----------------------------
(***************************************************************************)
(* The members of one organization, the one role each is meant to have,    *)
(* and the permissions of the roles.  A role of a member and the           *)
(* permissions of a role are replaced by a deletion and an insertion that  *)
(* no transaction holds together; a member is saved as a whole row.        *)
(***************************************************************************)
EXTENDS HandlerSlots

CONSTANTS
    People,
    Roles,          \* ids of roles
    SystemRoles,    \* the seeded roles (isSystem)
    SuperRole,      \* the system role that is not for members
    FirstRole,      \* member |-> the roles (one or none) at first
    Permissions,
    Seed            \* system role |-> the permissions the program lists

VARIABLES
    standing,       \* member |-> status, or "new"
    rolesOf,        \* user_roles: member |-> roles
    roleAt,         \* role |-> whether its row is there
    grants,         \* role_permissions: role |-> permissions
    decided,        \* history: what the last handler to write set out to write
    contested       \* history: members and roles whose handlers overlapped or
                    \*          were cut short

teamVars == <<standing, rolesOf, roleAt, grants, decided, contested>>

ASSUME TeamAssumption ==
    /\ SuperRole \in SystemRoles
    /\ SystemRoles \subseteq Roles
    /\ People \cap Roles = {}
    /\ FirstRole \in [People -> SUBSET (Roles \ {SuperRole})]
    /\ Seed \in [SystemRoles -> SUBSET Permissions]

\* about: the members and roles that the handler reads or writes
Abouts == SUBSET (People \cup Roles)

TeamCalls ==
         [op : {"savePerson"}, about : Abouts, person : People,
          status : {"active", "disabled"}, sets : BOOLEAN,
          roles : SUBSET Roles]
    \cup [op : {"insertPerson", "findRole", "clearRoleOf", "insertRoleOf"},
          about : Abouts, person : People, role : Roles]
    \cup [op : {"insertRole"}, about : Abouts, permissions : SUBSET Permissions]
    \cup [op : {"clearGrants", "insertGrants"}, about : Abouts, role : Roles,
          permissions : SUBSET Permissions, new : BOOLEAN]
    \cup [op : {"saveRole", "removeRole"}, about : Abouts, role : Roles]

AboutOf(w) == IF call[w] \in TeamCalls THEN call[w].about ELSE {}

\* A request begins while others about the same are in progress.
BeginAbout(w, c) ==
    /\ Begin(w, c)
    /\ LET rivals == {v \in Slots \ {w} : AboutOf(v) \cap c.about # {}}
       IN  contested' = IF rivals = {} THEN contested
                        ELSE contested \cup c.about
                                 \cup UNION {AboutOf(v) : v \in rivals}

InPlace(r) == roleAt[r] = "live"

-----------------------------------------------------------------------------
(* Members.  That a member is of this organization, and that there is      *)
(* anything to update, is checked first.                                   *)

Member(p) == standing[p] # "new"

SavePersonOf(p, status, sets, roles) ==
    [op |-> "savePerson", about |-> {p} \cup roles, person |-> p,
     status |-> status, sets |-> sets, roles |-> roles]

UpdateTeamMemberStatus(w, p, status) ==
    /\ Member(p)
    /\ BeginAbout(w, SavePersonOf(p, status, TRUE, {}))
    /\ UNCHANGED <<standing, rolesOf, roleAt, grants, decided>>

(* updateTeamMember with a new level, and then perhaps a new role: the row *)
(* goes back with the status that it was read with.                        *)

UpdateLevel(w, p, roles) ==
    /\ Member(p)
    /\ BeginAbout(w, SavePersonOf(p, standing[p], FALSE, roles))
    /\ UNCHANGED <<standing, rolesOf, roleAt, grants, decided>>

\* A first login through a provider keeps the identity in the member's row.
LinkIdentity(w, p) ==
    /\ standing[p] = "active"
    /\ BeginAbout(w, SavePersonOf(p, "active", FALSE, {}))
    /\ UNCHANGED <<standing, rolesOf, roleAt, grants, decided>>

UpdateRoleOf(w, p, r) ==
    /\ Member(p)
    /\ BeginAbout(w, [op |-> "findRole", about |-> {p, r}, person |-> p, role |-> r])
    /\ UNCHANGED <<standing, rolesOf, roleAt, grants, decided>>

SavePerson(w) ==
    /\ call[w].op = "savePerson"
    /\ LET c == call[w]
       IN  /\ standing' = [standing EXCEPT ![c.person] = c.status]
           /\ decided' = IF c.sets
                         THEN [decided EXCEPT !.standing[c.person] = c.status]
                         ELSE decided
           /\ IF c.roles = {} THEN Return(w)
              ELSE \E r \in c.roles :
                    GoOn(w, [op |-> "findRole", about |-> c.about,
                             person |-> c.person, role |-> r])
    /\ UNCHANGED <<rolesOf, roleAt, grants, contested>>

FindRole(w) ==
    /\ call[w].op = "findRole"
    /\ IF InPlace(call[w].role) /\ call[w].role # SuperRole
       THEN GoOn(w, [call[w] EXCEPT !.op = "clearRoleOf"])
       ELSE Return(w)
    /\ UNCHANGED teamVars

\* replaceRoleForUser
ClearRoleOf(w) ==
    /\ call[w].op = "clearRoleOf"
    /\ LET c == call[w]
       IN  /\ rolesOf' = [rolesOf EXCEPT ![c.person] = {}]
           /\ decided' = [decided EXCEPT !.roles[c.person] = {c.role}]
    /\ GoOn(w, [call[w] EXCEPT !.op = "insertRoleOf"])
    /\ UNCHANGED <<standing, roleAt, grants, contested>>

\* The role must be there still, and not have been given to the member again.
InsertRoleOf(w) ==
    /\ call[w].op = "insertRoleOf"
    /\ LET p == call[w].person
           r == call[w].role
       IN  rolesOf' = IF InPlace(r) THEN [rolesOf EXCEPT ![p] = @ \cup {r}]
                                    ELSE rolesOf
    /\ Return(w)
    /\ UNCHANGED <<standing, roleAt, grants, decided, contested>>

(* accept of an invitation: the account first, its role afterwards.  An    *)
(* invitation goes with its role.                                          *)

AcceptAs(w, p, r) ==
    /\ ~Member(p)
    /\ InPlace(r)
    /\ r # SuperRole
    /\ BeginAbout(w, [op |-> "insertPerson", about |-> {p, r}, person |-> p, role |-> r])
    /\ UNCHANGED <<standing, rolesOf, roleAt, grants, decided>>

InsertPerson(w) ==
    /\ call[w].op = "insertPerson"
    /\ LET p == call[w].person
       IN  IF Member(p)
           THEN Return(w) /\ UNCHANGED <<standing, decided>>
           ELSE /\ standing' = [standing EXCEPT ![p] = "active"]
                /\ decided' = [decided EXCEPT !.standing[p] = "active"]
                /\ GoOn(w, [call[w] EXCEPT !.op = "clearRoleOf"])
    /\ UNCHANGED <<rolesOf, roleAt, grants, contested>>

-----------------------------------------------------------------------------
(* Roles.  Names and descriptions are left out, but for the refusals.      *)

\* bound: the ids that are left allow one creation at a time
CreateRole(w, permissions) ==
    /\ permissions # {}
    /\ \E r \in Roles : roleAt[r] = "new"
    /\ \A v \in Slots : call[v].op # "insertRole"
    /\ BeginAbout(w, [op |-> "insertRole", about |-> {}, permissions |-> permissions])
    /\ UNCHANGED <<standing, rolesOf, roleAt, grants, decided>>

ReplaceGrants(w, r, permissions, new) ==
    [op |-> "clearGrants", about |-> {r}, role |-> r,
     permissions |-> permissions, new |-> new]

InsertRole(w) ==
    /\ call[w].op = "insertRole"
    /\ LET r == CHOOSE r \in Roles : roleAt[r] = "new"
       IN  /\ roleAt' = [roleAt EXCEPT ![r] = "live"]
           /\ GoOn(w, ReplaceGrants(w, r, call[w].permissions, TRUE))
    /\ UNCHANGED <<standing, rolesOf, grants, decided, contested>>

\* With no permissions, the request is about the name or the description.
UpdateRole(w, r, permissions) ==
    /\ InPlace(r)
    /\ BeginAbout(w, IF permissions = {}
                     THEN [op |-> "saveRole", about |-> {r}, role |-> r]
                     ELSE ReplaceGrants(w, r, permissions, FALSE))
    /\ UNCHANGED <<standing, rolesOf, roleAt, grants, decided>>

\* replacePermissions
ClearGrants(w) ==
    /\ call[w].op = "clearGrants"
    /\ LET c == call[w]
       IN  /\ grants' = [grants EXCEPT ![c.role] = {}]
           /\ decided' = [decided EXCEPT !.grants[c.role] = c.permissions]
    /\ GoOn(w, [call[w] EXCEPT !.op = "insertGrants"])
    /\ UNCHANGED <<standing, rolesOf, roleAt, contested>>

\* Unique pairs, of a role that exists: all of them or none.
InsertGrants(w) ==
    /\ call[w].op = "insertGrants"
    /\ LET c == call[w]
           insertable == InPlace(c.role) /\ c.permissions \cap grants[c.role] = {}
       IN  IF insertable
           THEN /\ grants' = [grants EXCEPT ![c.role] = @ \cup c.permissions]
                /\ IF c.new THEN Return(w)
                   ELSE GoOn(w, [op |-> "saveRole", about |-> c.about, role |-> c.role])
           ELSE Return(w) /\ UNCHANGED grants
    /\ UNCHANGED <<standing, rolesOf, roleAt, decided, contested>>

(* The save of a role that was removed meanwhile inserts it again, without *)
(* permissions.  It may be refused, for its name or for the permissions it *)
(* was read with, which another row has replaced.                          *)

SaveRole(w) ==
    /\ call[w].op = "saveRole"
    /\ \/ roleAt' = [roleAt EXCEPT ![call[w].role] = "live"]
       \/ UNCHANGED roleAt
    /\ Return(w)
    /\ UNCHANGED <<standing, rolesOf, grants, decided, contested>>

DeleteRole(w, r) ==
    /\ InPlace(r)
    /\ r \notin SystemRoles
    /\ BeginAbout(w, [op |-> "removeRole", about |-> {r}, role |-> r])
    /\ UNCHANGED <<standing, rolesOf, roleAt, grants, decided>>

\* Both foreign keys cascade.
RemoveRole(w) ==
    /\ call[w].op = "removeRole"
    /\ LET r == call[w].role
       IN  /\ roleAt' = [roleAt EXCEPT ![r] = "gone"]
           /\ grants' = [grants EXCEPT ![r] = {}]
           /\ rolesOf' = [p \in People |-> rolesOf[p] \ {r}]
           /\ decided' = [decided EXCEPT !.grants[r] = {}]
    /\ Return(w)
    /\ UNCHANGED <<standing, contested>>

-----------------------------------------------------------------------------
(* The process starts: the system roles get the permissions the program    *)
(* lists, before the first request; what was decided of them is undone.    *)

\* A mutant for the runs: roles that exist are left as they are.
SeedMissing(current) == current

SeedRoles(current) ==
    [r \in Roles |-> IF r \in SystemRoles THEN Seed[r] ELSE current[r]]

\* A failure of the second half of a replacement leaves the first one.
ReplacementLost(w) ==
    /\ contested' = CASE call[w].op = "insertRoleOf" -> contested \cup {call[w].person}
                      [] call[w].op = "insertGrants" -> contested \cup {call[w].role}
                      [] OTHER -> contested
    /\ UNCHANGED <<standing, rolesOf, roleAt, grants, decided>>

TeamRestarted ==
    /\ grants' = SeedRoles(grants)
    /\ decided' = [decided EXCEPT !.grants =
                     [r \in Roles |-> IF r \in SystemRoles THEN Seed[r] ELSE @[r]]]
    /\ contested' = (contested \cup UNION {AboutOf(w) : w \in Slots}) \ SystemRoles
    /\ UNCHANGED <<standing, rolesOf, roleAt>>

TeamStep(w) ==
    \/ \E p \in People :
        \/ \E status \in {"active", "disabled"} : UpdateTeamMemberStatus(w, p, status)
        \/ UpdateLevel(w, p, {}) \/ LinkIdentity(w, p)
        \/ \E r \in Roles :
            UpdateLevel(w, p, {r}) \/ UpdateRoleOf(w, p, r) \/ AcceptAs(w, p, r)
    \/ \E permissions \in SUBSET Permissions :
        \/ CreateRole(w, permissions)
        \/ \E r \in Roles : UpdateRole(w, r, permissions)
    \/ \E r \in Roles : DeleteRole(w, r)
    \/ SavePerson(w) \/ FindRole(w) \/ ClearRoleOf(w) \/ InsertRoleOf(w)
    \/ InsertPerson(w) \/ InsertRole(w) \/ ClearGrants(w) \/ InsertGrants(w)
    \/ SaveRole(w) \/ RemoveRole(w)

TeamTypeOK ==
    /\ standing \in [People -> {"new", "active", "disabled"}]
    /\ rolesOf \in [People -> SUBSET {r \in Roles : InPlace(r)}]
    /\ roleAt \in [Roles -> {"new", "live", "gone"}]
    /\ grants \in [Roles -> SUBSET Permissions]
    /\ decided \in [standing : [People -> {"new", "active", "disabled"}],
                    roles : [People -> SUBSET Roles],
                    grants : [Roles -> SUBSET Permissions]]
    /\ contested \in Abouts

-----------------------------------------------------------------------------
\* resolveAuthUser and findPermissionKeysByUserId
Allowed(p) ==
    IF standing[p] = "active" THEN UNION {grants[r] : r \in rolesOf[p]} ELSE {}

Entitled(p) ==
    IF decided.standing[p] = "active"
    THEN UNION {decided.grants[r] : r \in decided.roles[p]} ELSE {}

(***************************************************************************)
(* A member may do what was last decided about their status, their role    *)
(* and the permissions of that role; while a replacement is half way, at   *)
(* most that.  This survives the removal of roles that others hold, a      *)
(* second account that is refused, and, for a member with a system role,   *)
(* any overlap of edits of that role from the next start on.  The          *)
(* exception are handlers that overlap about the same member or role, that *)
(* a restart stops, or that fail half way through a replacement: a         *)
(* disabled member who logs in through a provider, or whose level is       *)
(* saved, at that moment is active again, two assignments leave two roles, *)
(* and one that is cut short leaves none, or a role without permissions.   *)
(***************************************************************************)
AccessAsDecided ==
    \A p \in People :
        LET scope == {p} \cup decided.roles[p]
        IN  scope \cap contested = {} =>
              /\ Allowed(p) \subseteq Entitled(p)
              /\ \/ Allowed(p) = Entitled(p)
                 \/ \E w \in Slots : AboutOf(w) \cap scope # {}
=============================================================================
