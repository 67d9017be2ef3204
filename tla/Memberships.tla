----------------------------- MODULE Memberships -----------------------------
(***************************************************************************)
(* How people come to have an account: an invitation to the organization   *)
(* Home that is accepted, or a sign-up that founds an organization.  Both  *)
(* check that the email has no account and create it several awaits later; *)
(* the unique email column decides.  Accounts are never deleted.           *)
(***************************************************************************)
EXTENDS OrgQuota

CONSTANTS
    Emails, Invitations, Sessions, Organizations,
    Home,           \* the organization whose entitlements are modelled
    Nobody,         \* no account, no organization
    None, Gone,     \* a row that was not created yet, that was deleted
    MaxTries        \* MAX_OTP_ATTEMPTS

VARIABLES
    account,        \* users: email |-> its organization
    organization,   \* organizations of sign-ups: id |-> the founder's email
    invitation,     \* invitations to Home
    session,        \* signup_sessions
    proved,         \* history: emails that entered their code or came by OAuth
    abandoned,      \* history: organizations whose handler was cut short before
                    \*          it created the account
    missed          \* history: the most members that a count overlooked and
                    \*          let another invitation pass

peopleVars == <<account, organization, invitation, session, proved>>
membershipVars == <<peopleVars, abandoned, missed>>

InvitationRows ==
    [email : Emails,
     status : {"pending", "accepted", "expired", "revoked"},
     late : BOOLEAN]            \* expiresAt has passed

SessionRows ==
    [email : Emails,
     oauth : BOOLEAN,           \* oauthProvider
     company : BOOLEAN,         \* companyName
     code : BOOLEAN,            \* otpHash
     tries : 0..MaxTries,       \* otpAttempts
     verified : BOOLEAN]        \* emailVerifiedAt

ASSUME MembershipAssumption ==
    /\ "members" \in Keys
    /\ MaxTries \in Nat \ {0}
    /\ Nobody \notin Organizations \cup {Home} \cup Emails
    /\ Home \notin Organizations
    /\ None # Gone
    /\ {None, Gone} \cap (InvitationRows \cup SessionRows) = {}

\* The id the next row of a table gets.
NewId(ids, table) == CHOOSE i \in ids : table[i] = None
Room(ids, table) == \E i \in ids : table[i] = None

PendingFor(email) ==
    {i \in Invitations : /\ invitation[i] # None
                         /\ invitation[i].status = "pending"
                         /\ invitation[i].email = email}

Open(i) == invitation[i] # None /\ invitation[i].status = "pending"

Opens == {i \in Invitations : Open(i)}
Homes == {e \in Emails : account[e] = Home}

MembershipCalls ==
         [op : {"countMembers"}, email : Emails, limit : Amounts]
    \cup [op : {"countPending"}, email : Emails, limit : Amounts,
          users : SUBSET Emails]
    \cup [op : {"countUsers"}, email : Emails, limit : Amounts, pending : Nat]
    \cup [op : {"findInvitee", "findInvitation", "saveInvitation"}, email : Emails]
    \cup [op : {"markRevoked", "markExpired", "saveMember", "markAccepted"},
          invitation : Invitations]
    \cup [op : {"createSession"}, email : Emails, oauth : BOOLEAN]
    \cup [op : {"saveSession"}, session : Sessions, row : SessionRows]
    \cup [op : {"createOrganization"}, session : Sessions, email : Emails]
    \cup [op : {"createAccount"}, session : Sessions, email : Emails,
          organization : Organizations]
    \cup [op : {"deleteSession"}, session : Sessions]

-----------------------------------------------------------------------------
(* invitations.service.ts                                                  *)

\* assertWithinLimit reads the limit, and counts if there is one.
Invite(w, email) ==
    /\ LET limit == EffectiveLimit("members", entitlements)
       IN  Begin(w, IF limit = Null
                    THEN [op |-> "findInvitee", email |-> email]
                    ELSE [op |-> "countMembers", email |-> email, limit |-> limit])
    /\ UNCHANGED membershipVars

(* countMembers asks for the accounts and for the pending invitations in   *)
(* two queries, either of which may be answered first.                     *)

CountUsersFirst(w) ==
    /\ call[w].op = "countMembers"
    /\ GoOn(w, [op |-> "countPending", email |-> call[w].email,
                limit |-> call[w].limit, users |-> Homes])
    /\ UNCHANGED membershipVars

CountPendingFirst(w) ==
    /\ call[w].op = "countMembers"
    /\ GoOn(w, [op |-> "countUsers", email |-> call[w].email,
                limit |-> call[w].limit, pending |-> Cardinality(Opens)])
    /\ UNCHANGED membershipVars

Admit(w) == GoOn(w, [op |-> "findInvitee", email |-> call[w].email])

\* Those who accepted since the accounts were counted are counted nowhere.
CountPending(w) ==
    /\ call[w].op = "countPending"
    /\ LET users == call[w].users
           unseen == Cardinality(Homes \ users)
       IN  IF Within(call[w].limit, Cardinality(users) + Cardinality(Opens))
           THEN /\ Admit(w)
                /\ missed' = IF unseen > missed THEN unseen ELSE missed
           ELSE Return(w) /\ UNCHANGED missed
    /\ UNCHANGED <<peopleVars, abandoned>>

CountUsers(w) ==
    /\ call[w].op = "countUsers"
    /\ IF Within(call[w].limit, Cardinality(Homes) + call[w].pending)
       THEN Admit(w)
       ELSE Return(w)
    /\ UNCHANGED membershipVars

FindInvitee(w) ==
    /\ call[w].op = "findInvitee"
    /\ IF account[call[w].email] = Nobody
       THEN GoOn(w, [op |-> "findInvitation", email |-> call[w].email])
       ELSE Return(w)
    /\ UNCHANGED membershipVars

\* A mutant for the runs: a pending invitation is no obstacle.
InviteAgain(w) ==
    /\ call[w].op = "findInvitation"
    /\ GoOn(w, [op |-> "saveInvitation", email |-> call[w].email])
    /\ UNCHANGED membershipVars

FindInvitation(w) ==
    /\ call[w].op = "findInvitation"
    /\ IF PendingFor(call[w].email) = {}
       THEN GoOn(w, [op |-> "saveInvitation", email |-> call[w].email])
       ELSE Return(w)
    /\ UNCHANGED membershipVars

SaveInvitation(w) ==
    /\ call[w].op = "saveInvitation"
    /\ Room(Invitations, invitation)
    /\ invitation' = [invitation EXCEPT ![NewId(Invitations, invitation)] =
            [email |-> call[w].email, status |-> "pending", late |-> FALSE]]
    /\ Return(w)
    /\ UNCHANGED <<account, organization, session, proved, abandoned, missed>>

Revoke(w, i) ==
    /\ Open(i)
    /\ Begin(w, [op |-> "markRevoked", invitation |-> i])
    /\ UNCHANGED membershipVars

\* validateToken or accept of a pending invitation whose date has passed.
FindLate(w, i) ==
    /\ Open(i)
    /\ invitation[i].late
    /\ Begin(w, [op |-> "markExpired", invitation |-> i])
    /\ UNCHANGED membershipVars

Accept(w, i) ==
    /\ Open(i)
    /\ ~invitation[i].late
    /\ account[invitation[i].email] = Nobody
    /\ Begin(w, [op |-> "saveMember", invitation |-> i])
    /\ UNCHANGED membershipVars

\* A mutant for the runs: the refusal of the second account is swallowed.
SaveMemberQuietly(w) ==
    /\ call[w].op = "saveMember"
    /\ LET email == invitation[call[w].invitation].email
       IN  account' = [account EXCEPT ![email] = IF @ = Nobody THEN Home ELSE @]
    /\ GoOn(w, [op |-> "markAccepted", invitation |-> call[w].invitation])
    /\ UNCHANGED <<organization, invitation, session, proved, abandoned, missed>>

\* The unique email column refuses a second account: the handler throws.
SaveMember(w) ==
    /\ call[w].op = "saveMember"
    /\ LET email == invitation[call[w].invitation].email
       IN  IF account[email] = Nobody
           THEN /\ account' = [account EXCEPT ![email] = Home]
                /\ GoOn(w, [op |-> "markAccepted",
                            invitation |-> call[w].invitation])
           ELSE Return(w) /\ UNCHANGED account
    /\ UNCHANGED <<organization, invitation, session, proved, abandoned, missed>>

\* updateStatus writes by id, whatever the status has become.
MarkedBy(op) == CASE op = "markRevoked" -> "revoked"
                  [] op = "markExpired" -> "expired"
                  [] op = "markAccepted" -> "accepted"

UpdateStatus(w) ==
    /\ call[w].op \in {"markRevoked", "markExpired", "markAccepted"}
    /\ invitation' = [invitation EXCEPT ![call[w].invitation].status =
                                            MarkedBy(call[w].op)]
    /\ Return(w)
    /\ UNCHANGED <<account, organization, session, proved, abandoned, missed>>

\* Seven days pass.
Lapse(i) ==
    /\ invitation[i] # None
    /\ ~invitation[i].late
    /\ invitation' = [invitation EXCEPT ![i].late = TRUE]
    /\ UNCHANGED <<account, organization, session, proved, abandoned, missed>>

-----------------------------------------------------------------------------
(* signup.service.ts.  That a session, a code or a cooldown has run out    *)
(* refuses a request, at any time.                                         *)

StartSignup(w, email, oauth) ==
    /\ account[email] = Nobody
    /\ Begin(w, [op |-> "createSession", email |-> email, oauth |-> oauth])
    /\ UNCHANGED membershipVars

CreateSession(w) ==
    /\ call[w].op = "createSession"
    /\ Room(Sessions, session)
    /\ session' = [session EXCEPT ![NewId(Sessions, session)] =
            [email |-> call[w].email, oauth |-> call[w].oauth,
             company |-> FALSE, code |-> FALSE, tries |-> 0,
             verified |-> call[w].oauth]]
    /\ proved' = IF call[w].oauth THEN proved \cup {call[w].email} ELSE proved
    /\ Return(w)
    /\ UNCHANGED <<account, organization, invitation, abandoned, missed>>

Active(s) == session[s] \notin {None, Gone}

\* The rows that each of these requests saves after its checks.
WithCode(row) == [row EXCEPT !.company = TRUE, !.code = TRUE, !.tries = 0]

MayResend(row) == row.company /\ ~row.verified

\* Mutants for the runs: codes may be guessed for ever; a code that was sent is
\* as good as one that was entered.
MayGuess(row) == row.company /\ row.code /\ ~row.verified
MayCompleteEarly(row) == row.company \/ row.oauth

MayVerify(row) ==
    row.company /\ row.code /\ ~row.verified /\ row.tries < MaxTries
MayComplete(row) == row.verified /\ (row.company \/ row.oauth)

Prepare(w, s, row) ==
    Begin(w, [op |-> "saveSession", session |-> s, row |-> row])

SetCompany(w, s) ==
    /\ Active(s)
    /\ Prepare(w, s, WithCode(session[s]))
    /\ UNCHANGED membershipVars

ResendOtp(w, s) ==
    /\ Active(s)
    /\ MayResend(session[s])
    /\ Prepare(w, s, WithCode(session[s]))
    /\ UNCHANGED membershipVars

VerifyOtp(w, s) ==
    /\ Active(s)
    /\ MayVerify(session[s])
    /\ \/ /\ Prepare(w, s, [session[s] EXCEPT !.verified = TRUE, !.code = FALSE])
          /\ proved' = proved \cup {session[s].email}
       \/ /\ Prepare(w, s, [session[s] EXCEPT !.tries = @ + 1])
          /\ UNCHANGED proved
    /\ UNCHANGED <<account, organization, invitation, session, abandoned, missed>>

\* TypeORM's save writes the row it has, and inserts it again if it is gone.
SaveSession(w) ==
    /\ call[w].op = "saveSession"
    /\ session' = [session EXCEPT ![call[w].session] = call[w].row]
    /\ Return(w)
    /\ UNCHANGED <<account, organization, invitation, proved, abandoned, missed>>

\* complete and completeOAuth
Complete(w, s) ==
    /\ Active(s)
    /\ MayComplete(session[s])
    /\ account[session[s].email] = Nobody
    /\ Begin(w, [op |-> "createOrganization", session |-> s,
                 email |-> session[s].email])
    /\ UNCHANGED membershipVars

CreateOrganization(w) ==
    /\ call[w].op = "createOrganization"
    /\ \E o \in Organizations : organization[o] = Nobody
    /\ LET o == CHOOSE o \in Organizations : organization[o] = Nobody
       IN  /\ organization' = [organization EXCEPT ![o] = call[w].email]
           /\ GoOn(w, [op |-> "createAccount", session |-> call[w].session,
                       email |-> call[w].email, organization |-> o])
    /\ UNCHANGED <<account, invitation, session, proved, abandoned, missed>>

\* The unique email column refuses a second account, here too; the
\* organization stays.
CreateAccount(w) ==
    /\ call[w].op = "createAccount"
    /\ IF account[call[w].email] = Nobody
       THEN /\ account' = [account EXCEPT ![call[w].email] = call[w].organization]
            /\ GoOn(w, [op |-> "deleteSession", session |-> call[w].session])
       ELSE Return(w) /\ UNCHANGED account
    /\ UNCHANGED <<organization, invitation, session, proved, abandoned, missed>>

DeleteSession(w) ==
    /\ call[w].op = "deleteSession"
    /\ session' = [session EXCEPT ![call[w].session] = Gone]
    /\ Return(w)
    /\ UNCHANGED <<account, organization, invitation, proved, abandoned, missed>>

\* What handlers that end here leave behind: the two inserts of complete are
\* not in a transaction.
FoundersLost(ended) ==
    /\ abandoned' = abandoned \cup
            {call[w].organization : w \in {w \in ended : call[w].op = "createAccount"}}
    /\ UNCHANGED <<peopleVars, missed>>

-----------------------------------------------------------------------------
MembershipStep(w) ==
    \/ \E e \in Emails :
        \/ Invite(w, e)
        \/ \E oauth \in BOOLEAN : StartSignup(w, e, oauth)
    \/ \E i \in Invitations : Revoke(w, i) \/ FindLate(w, i) \/ Accept(w, i)
    \/ \E s \in Sessions :
        SetCompany(w, s) \/ ResendOtp(w, s) \/ VerifyOtp(w, s) \/ Complete(w, s)
    \/ CountUsersFirst(w) \/ CountPendingFirst(w) \/ CountPending(w) \/ CountUsers(w)
    \/ FindInvitee(w) \/ FindInvitation(w) \/ SaveInvitation(w)
    \/ SaveMember(w) \/ UpdateStatus(w)
    \/ CreateSession(w) \/ SaveSession(w) \/ DeleteSession(w)
    \/ CreateOrganization(w) \/ CreateAccount(w)

MembershipTypeOK ==
    /\ account \in [Emails -> Organizations \cup {Home, Nobody}]
    /\ organization \in [Organizations -> Emails \cup {Nobody}]
    /\ invitation \in [Invitations -> InvitationRows \cup {None}]
    /\ session \in [Sessions -> SessionRows \cup {None, Gone}]
    /\ proved \subseteq Emails
    /\ abandoned \subseteq Organizations
    /\ missed \in Nat

-----------------------------------------------------------------------------
(***************************************************************************)
(* An accepted invitation has its member: accept marks it only after the   *)
(* account is there, and the account of another organization never counts. *)
(***************************************************************************)
AcceptedAreMembers ==
    \A i \in Invitations :
        (invitation[i] # None /\ invitation[i].status = "accepted")
            => account[invitation[i].email] = Home

(***************************************************************************)
(* Nobody founds an organization with an email they did not prove, although*)
(* sessions are saved from stale copies and may be inserted again after    *)
(* complete deleted them.                                                  *)
(***************************************************************************)
FoundersAreProved ==
    \A o \in Organizations : organization[o] # Nobody => organization[o] \in proved

(***************************************************************************)
(* Check, then insert: an email has at most one pending invitation, and    *)
(* founds at most one organization, per handler that can be in progress.   *)
(* Overlapping requests do create several, since only complete's account   *)
(* is protected by a unique column; the other organizations are left       *)
(* without a member.  Apart from these are the organizations that complete *)
(* had created when it failed or was stopped: the two inserts are not in a *)
(* transaction, and every further attempt may leave another one.           *)
(***************************************************************************)
RepeatsNeedOverlap ==
    \A e \in Emails :
        /\ Cardinality(PendingFor(e)) <= Cardinality(Slots)
        /\ Cardinality({o \in Organizations \ abandoned : organization[o] = e})
              <= Cardinality(Slots)
=============================================================================
