----------------------------- MODULE MCWorkspace -----------------------------
(***************************************************************************)
(* An instance of Workspace for TLC.                                       *)
(***************************************************************************)
EXTENDS Workspace, TLC

CONSTANTS w1, w2, c1, c2, c3, e1, e2, v1, v2, x1,
          n1, admin, root

SlotSymmetry == Permutations({w1, w2})

TwoEach == [k \in Keys |-> 2]
KindOf == [i \in Items |-> IF i \in {c1, c2, c3} THEN "campaigns" ELSE "prospects"]

\* Limits columns: one or two campaigns, and unlimited members
SomeLimits ==
    {[k \in Keys |-> IF k = "campaigns" THEN 1 ELSE Unset],
     [k \in Keys |-> IF k = "campaigns" THEN 2 ELSE Unset],
     [k \in Keys |-> IF k = "members" THEN Null ELSE Unset]}

\* A code was sent; or an identity provider vouches for the address
TwoSignups == {Named(e1), Started(e1, TRUE)}

\* Parts that share rows or limits
Neighbours ==
    {{"limits", "people"}, {"limits", "rows", "imports"}, {"rows", "requests"},
     {"rows", "plans"}, {"rows", "meetings"}, {"sites"}, {"policies"}, {"google"}, {"lists"},
     {"team"}}

\* Friday, and a Sunday that is not active
WorkingDays ==
    {[launch |-> 5, weekdays |-> 1..5, batch |-> 1],
     [launch |-> 7, weekdays |-> 1..5, batch |-> 2]}

\* A policy that denies everybody, one that allows, and one that is disabled
Denial == [effect |-> "deny", enabled |-> TRUE, meets |-> Users, at |-> "live"]
SomePolicies ==
    {Denial, [Denial EXCEPT !.effect = "allow"], [Denial EXCEPT !.enabled = FALSE]}

\* One list of each kind, and a manual list to be created
KindOfList == [l \in ListIds |-> IF l = v1 THEN "contact" ELSE "manual"]
OneEach == [l \in ListIds |-> IF l \in {v1, v2} THEN {x1} ELSE {}]

\* One member, and one who is invited; the program lists one permission for
\* its administrators and all of them for itself
OneMember == [p \in People |-> IF p = n1 THEN {admin} ELSE {}]
Listing == [r \in {admin, root} |-> IF r = admin THEN {"read"} ELSE Permissions]
=============================================================================
