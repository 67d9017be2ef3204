--------------------------- MODULE AccessPolicies ---------------------------
(***************************************************************************)
(* The attribute policies of one organization about one permission, the    *)
(* users each is assigned to, and the decision they lead to.  Users who    *)
(* are super admins pass every check and are left out.                     *)
(***************************************************************************)
EXTENDS HandlerSlots

CONSTANTS
    Users,
    Policies,       \* ids of policies
    PolicyInputs    \* bound: the rows that requests bring

VARIABLES
    policy,         \* policy |-> its row, and whether it is there
    assigned,       \* the pairs of user_abac_policies
    wanted,         \* history: pairs that were asked for and not taken back
    lost            \* history: wanted pairs that a handler lost

policyVars == <<policy, assigned, wanted, lost>>

\* meets: the users who meet the conditions (evaluateConditions)
PolicyRows ==
    [effect : {"allow", "deny"}, enabled : BOOLEAN, meets : SUBSET Users,
     at : {"new", "live", "gone"}]

ASSUME PolicyAssumption ==
    PolicyInputs \subseteq {row \in PolicyRows : row.at = "live"}

Present(p) == policy[p].at = "live"
Existing == {p \in Policies : Present(p)}

PolicyCalls ==
         [op : {"insertPolicy"}, row : PolicyInputs, users : SUBSET Users]
    \cup [op : {"savePolicy"}, policy : Policies, row : PolicyInputs,
          seen : SUBSET Users, given : BOOLEAN, users : SUBSET Users]
    \cup [op : {"removePolicy"}, policy : Policies]
    \cup [op : {"clearPairs"}, scope : SUBSET (Users \X Policies),
          pairs : SUBSET (Users \X Policies)]
    \cup [op : {"insertPairs"}, pairs : SUBSET (Users \X Policies)]
    \cup [op : {"replaceAll"}, users : SUBSET Users, mode : {"add", "replace"},
          asked : SUBSET Policies, pairs : SUBSET (Users \X Policies)]

-----------------------------------------------------------------------------
\* A mutant for the runs: a permission that is granted cannot be denied.
AllowFirst(u, policies) ==
    \/ policies = {}
    \/ \E p \in policies : policy[p].effect = "allow" /\ u \in policy[p].meets

\* Without a policy, the permission itself is enough.
Permitted(u, policies) ==
    \/ policies = {}
    \/ /\ \A p \in policies : policy[p].effect = "deny" => u \notin policy[p].meets
       /\ \E p \in policies : policy[p].effect = "allow" /\ u \in policy[p].meets

CanAccess(u) ==
    Permitted(u, {p \in Existing : <<u, p>> \in assigned /\ policy[p].enabled})

-----------------------------------------------------------------------------
(* replaceUsersForPolicy and replacePoliciesForUser: the pairs in scope    *)
(* are deleted, and then the new ones inserted, outside a transaction.     *)

Replace(w, scope, pairs) ==
    GoOn(w, [op |-> "clearPairs", scope |-> scope, pairs |-> pairs])

ClearPairs(w) ==
    /\ call[w].op = "clearPairs"
    /\ assigned' = assigned \ call[w].scope
    /\ wanted' = (wanted \ call[w].scope) \cup call[w].pairs
    /\ lost' = lost \ call[w].scope
    /\ IF call[w].pairs = {} THEN Return(w)
       ELSE GoOn(w, [op |-> "insertPairs", pairs |-> call[w].pairs])
    /\ UNCHANGED policy

\* Unique pairs, of a policy that exists
Insertable(pairs) ==
    /\ pairs \cap assigned = {}
    /\ \A pair \in pairs : Present(pair[2])

InsertPairs(w) ==
    /\ call[w].op = "insertPairs"
    /\ IF Insertable(call[w].pairs)
       THEN /\ assigned' = assigned \cup call[w].pairs
            /\ lost' = lost \ call[w].pairs
       ELSE /\ lost' = lost \cup (call[w].pairs \ assigned)
            /\ UNCHANGED assigned
    /\ Return(w)
    /\ UNCHANGED <<policy, wanted>>

-----------------------------------------------------------------------------
\* bound: the ids that are left allow one creation at a time
CreatePolicy(w, row, users) ==
    /\ \E p \in Policies : policy[p].at = "new"
    /\ \A v \in Slots : call[v].op # "insertPolicy"
    /\ Begin(w, [op |-> "insertPolicy", row |-> row, users |-> users])
    /\ UNCHANGED policyVars

InsertPolicy(w) ==
    /\ call[w].op = "insertPolicy"
    /\ LET p == CHOOSE p \in Policies : policy[p].at = "new"
           users == call[w].users
       IN  /\ policy' = [policy EXCEPT ![p] = call[w].row]
           /\ IF users = {} THEN Return(w)
              ELSE Replace(w, Users \X {p}, users \X {p})
    /\ UNCHANGED <<assigned, wanted, lost>>

HoldersOf(p) == {u \in Users : <<u, p>> \in assigned}

\* given: the request says who the users are to be
UpdatePolicy(w, p, row, given, users) ==
    /\ Present(p)
    /\ Begin(w, [op |-> "savePolicy", policy |-> p, row |-> row,
                 seen |-> HoldersOf(p), given |-> given, users |-> users])
    /\ UNCHANGED policyVars

(* The policy is saved with the assignments it was read with.  One that    *)
(* was inserted since would lose its policy, which its column refuses, and *)
(* with it the update; a pair that was replaced counts as inserted.  A     *)
(* policy that was removed since is inserted again, without them.          *)

SavePolicy(w) ==
    /\ call[w].op = "savePolicy"
    /\ LET p == call[w].policy
           users == call[w].users
       IN  \/ /\ HoldersOf(p) \subseteq call[w].seen
              /\ policy' = [policy EXCEPT ![p] = call[w].row]
              /\ IF call[w].given THEN Replace(w, Users \X {p}, users \X {p})
                                  ELSE Return(w)
           \/ /\ HoldersOf(p) # {}
              /\ Return(w)
              /\ UNCHANGED policy
    /\ UNCHANGED <<assigned, wanted, lost>>

DeletePolicy(w, p) ==
    /\ Present(p)
    /\ Begin(w, [op |-> "removePolicy", policy |-> p])
    /\ UNCHANGED policyVars

\* The foreign key of the pairs cascades.
RemovePolicy(w) ==
    /\ call[w].op = "removePolicy"
    /\ LET p == call[w].policy
       IN  /\ policy' = IF Present(p) THEN [policy EXCEPT ![p].at = "gone"]
                                      ELSE policy
           /\ assigned' = assigned \ (Users \X {p})
           /\ wanted' = wanted \ (Users \X {p})
    /\ Return(w)
    /\ UNCHANGED lost

AssignToUser(w, u, policies) ==
    /\ policies \subseteq Existing
    /\ Begin(w, [op |-> "clearPairs", scope |-> {u} \X Policies,
                 pairs |-> {u} \X policies])
    /\ UNCHANGED policyVars

(* bulkAssignPolicies: what users have is read first, and then, in one     *)
(* transaction, replaced by what they had and what is added, or by what    *)
(* is asked for alone.                                                     *)

BulkAssign(w, users, policies, mode) ==
    /\ policies \subseteq Existing
    /\ LET scope == users \X Policies
           existing == IF mode = "add" THEN assigned \cap scope ELSE {}
       IN  Begin(w, [op |-> "replaceAll", users |-> users, mode |-> mode,
                     asked |-> policies,
                     pairs |-> existing \cup (users \X policies)])
    /\ UNCHANGED policyVars

ReplaceAll(w) ==
    /\ call[w].op = "replaceAll"
    /\ LET c == call[w]
           scope == c.users \X Policies
           kept == IF c.mode = "add" THEN wanted ELSE wanted \ scope
       IN  IF \A pair \in c.pairs : Present(pair[2])
           THEN /\ assigned' = (assigned \ scope) \cup c.pairs
                /\ wanted' = kept \cup (c.users \X c.asked)
                /\ lost' = (lost \cup (kept \cap scope)) \ c.pairs
           ELSE UNCHANGED <<assigned, wanted, lost>>
    /\ Return(w)
    /\ UNCHANGED policy

\* What handlers that end between the deletion and the insertion leave behind
AssignmentsLost(ended) ==
    /\ lost' = lost \cup UNION {call[w].pairs :
                    w \in {w \in ended : call[w].op = "insertPairs"}}
    /\ UNCHANGED <<policy, assigned, wanted>>

-----------------------------------------------------------------------------
PolicyStep(w) ==
    \/ \E row \in PolicyInputs, users \in SUBSET Users : CreatePolicy(w, row, users)
    \/ \E p \in Policies :
        \/ \E row \in PolicyInputs :
            \/ UpdatePolicy(w, p, row, FALSE, {})
            \/ \E users \in SUBSET Users : UpdatePolicy(w, p, row, TRUE, users)
        \/ DeletePolicy(w, p)
    \/ \E policies \in SUBSET Policies :
        \/ \E u \in Users : AssignToUser(w, u, policies)
        \/ \E users \in SUBSET Users \ {{}}, mode \in {"add", "replace"} :
            policies # {} /\ BulkAssign(w, users, policies, mode)
    \/ InsertPolicy(w) \/ SavePolicy(w) \/ RemovePolicy(w)
    \/ ClearPairs(w) \/ InsertPairs(w) \/ ReplaceAll(w)

PolicyTypeOK ==
    /\ policy \in [Policies -> PolicyRows]
    /\ assigned \subseteq Users \X Existing
    /\ wanted \subseteq Users \X Policies
    /\ lost \subseteq Users \X Policies

-----------------------------------------------------------------------------
(***************************************************************************)
(* A user whom an enabled policy denies is not let in, whatever other      *)
(* policies allow, as long as nobody took the assignment back.  There are  *)
(* two exceptions, because assignments are deleted before they are         *)
(* inserted again and no policy means access: while a replacement is half  *)
(* way, and when the other half was lost, by a restart, by an insertion    *)
(* that failed, or by a bulk assignment that read before another one.      *)
(***************************************************************************)
DenialsHold ==
    \A pair \in wanted \ lost :
        LET row == policy[pair[2]]
        IN  (row.at = "live" /\ row.effect = "deny" /\ row.enabled
                /\ pair[1] \in row.meets)
             => \/ ~CanAccess(pair[1])
                \/ \E w \in Slots : /\ call[w].op = "insertPairs"
                                    /\ pair \in call[w].pairs
=============================================================================
