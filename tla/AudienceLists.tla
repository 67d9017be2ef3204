--------------------------- MODULE AudienceLists ---------------------------
(***************************************************************************)
(* The contact lists and manual lists of one organization.  A list keeps   *)
(* the number of its rows in a column of its own; handlers read the list,  *)
(* go on to other things, and in the end change rows and number in a       *)
(* transaction, which reads committed data and locks no list.              *)
(***************************************************************************)
EXTENDS HandlerSlots, FiniteSets

CONSTANTS
    ListIds,
    ListKind,       \* list |-> "contact" or "manual"
    Contacts,       \* emails
    FirstMembers    \* list |-> the contacts it starts with

VARIABLES
    made,           \* the lists that were created
    count,          \* list |-> contactCount or rowCount
    rows,           \* contact_list_members and manual_list_rows
    changes,        \* history: list |-> how often its rows changed
    mixed           \* history: lists with a number that overlaps produced

listVars == <<made, count, rows, changes, mixed>>

\* brought: the request that inserted it, which tells rows of a contact apart
ListRows == [list : ListIds, email : Contacts, brought : 0..MaxCalls]

ASSUME ListAssumption ==
    /\ ListKind \in [ListIds -> {"contact", "manual"}]
    /\ IsFiniteSet(Contacts)
    /\ FirstMembers \in [ListIds -> SUBSET Contacts]

RowsOf(l) == {r \in rows : r.list = l}
Listed(l) == {r.email : r \in RowsOf(l)}

\* from: the number to count on from;  at: how often the rows had changed then
ListCalls ==
         [op : {"createList"}, kind : {"contact", "manual"},
          emails : SUBSET Contacts, brought : 1..MaxCalls]
    \cup [op : {"findMember", "findMembers", "insertRows"}, list : ListIds,
          emails : SUBSET Contacts, brought : 1..MaxCalls, from : Nat, at : Nat]
    \cup [op : {"findRow", "deleteRow"}, row : ListRows, from : Nat, at : Nat]

\* The transaction commits: these are the rows of l, and n is their number.
Commit(l, all, n, at) ==
    /\ rows' = {r \in rows : r.list # l} \cup all
    /\ count' = [count EXCEPT ![l] = n]
    /\ changes' = [changes EXCEPT ![l] = @ + 1]
    /\ mixed' = IF at = changes[l] THEN mixed ELSE mixed \cup {l}
    /\ UNCHANGED made

NewRows(l, emails, brought) ==
    [list : {l}, email : emails, brought : {brought}]

-----------------------------------------------------------------------------
\* importListWithMembers and createListWithRows
CreateList(w, kind, emails) ==
    /\ \E l \in ListIds \ made : ListKind[l] = kind
    /\ Begin(w, [op |-> "createList", kind |-> kind, emails |-> emails,
                 brought |-> calls + 1])
    /\ UNCHANGED listVars

InsertList(w) ==
    /\ call[w].op = "createList"
    /\ LET c == call[w]
           free == {l \in ListIds \ made : ListKind[l] = c.kind}
           l == CHOOSE l \in free : TRUE
       IN  IF free = {} THEN UNCHANGED listVars     \* bound: ids of lists
           ELSE /\ made' = made \cup {l}
                /\ rows' = rows \cup NewRows(l, c.emails, c.brought)
                /\ count' = [count EXCEPT ![l] = Cardinality(c.emails)]
                /\ UNCHANGED <<changes, mixed>>
    /\ Return(w)

(* addMember, addRow and appendImport.  addMember refuses an email that    *)
(* the list has; the import of a contact list leaves such emails out, and  *)
(* counts the members again; manual lists take any row.                    *)

AddRows(w, l, emails, one) ==
    /\ l \in made
    /\ emails # {}
    /\ Begin(w, [op |-> IF ListKind[l] = "manual" THEN "insertRows"
                        ELSE IF one THEN "findMember" ELSE "findMembers",
                 list |-> l, emails |-> emails, brought |-> calls + 1,
                 from |-> count[l], at |-> changes[l]])
    /\ UNCHANGED listVars

FindMember(w) ==
    /\ call[w].op = "findMember"
    /\ IF call[w].emails \subseteq Listed(call[w].list)
       THEN Return(w)
       ELSE GoOn(w, [call[w] EXCEPT !.op = "insertRows"])
    /\ UNCHANGED listVars

FindMembers(w) ==
    /\ call[w].op = "findMembers"
    /\ LET l == call[w].list
       IN  GoOn(w, [call[w] EXCEPT !.op = "insertRows",
                                   !.emails = @ \ Listed(l),
                                   !.from = Cardinality(RowsOf(l)),
                                   !.at = changes[l]])
    /\ UNCHANGED listVars

\* Emails are unique in a contact list, or nothing is committed.
InsertRows(w) ==
    /\ call[w].op = "insertRows"
    /\ LET c == call[w]
           l == c.list
       IN  IF ListKind[l] = "contact" /\ c.emails \cap Listed(l) # {}
           THEN UNCHANGED listVars
           ELSE Commit(l, RowsOf(l) \cup NewRows(l, c.emails, c.brought),
                       c.from + Cardinality(c.emails), c.at)
    /\ Return(w)

-----------------------------------------------------------------------------
(* removeMember and removeRow: before the transaction, the contact is      *)
(* removed from campaigns, one by one.                                     *)

RemoveRow(w, r) ==
    /\ Begin(w, [op |-> "findRow", row |-> r,
                 from |-> count[r.list], at |-> changes[r.list]])
    /\ UNCHANGED listVars

FindRow(w) ==
    /\ call[w].op = "findRow"
    /\ IF call[w].row \in rows
       THEN GoOn(w, [call[w] EXCEPT !.op = "deleteRow"])
       ELSE Return(w)
    /\ UNCHANGED listVars

\* A mutant for the runs: the row goes, its number stays.
DeleteUncounted(w) ==
    /\ call[w].op = "deleteRow"
    /\ LET l == call[w].row.list
       IN  Commit(l, RowsOf(l) \ {call[w].row}, call[w].from, call[w].at)
    /\ Return(w)

DeleteRow(w) ==
    /\ call[w].op = "deleteRow"
    /\ LET l == call[w].row.list
           from == call[w].from
       IN  Commit(l, RowsOf(l) \ {call[w].row},
                  IF from = 0 THEN 0 ELSE from - 1, call[w].at)
    /\ Return(w)

ListStep(w) ==
    \/ \E kind \in {"contact", "manual"}, emails \in SUBSET Contacts :
        CreateList(w, kind, emails)
    \/ \E l \in ListIds, emails \in SUBSET Contacts :
        \/ AddRows(w, l, emails, FALSE)
        \/ Cardinality(emails) = 1 /\ AddRows(w, l, emails, TRUE)
    \/ \E r \in rows : RemoveRow(w, r)
    \/ InsertList(w) \/ FindMember(w) \/ FindMembers(w) \/ InsertRows(w)
    \/ FindRow(w) \/ DeleteRow(w)

ListTypeOK ==
    /\ made \subseteq ListIds
    /\ count \in [ListIds -> Nat]
    /\ rows \subseteq ListRows
    /\ \A r \in rows : r.list \in made
    /\ changes \in [ListIds -> 0..MaxCalls]
    /\ mixed \subseteq ListIds

-----------------------------------------------------------------------------
(***************************************************************************)
(* The number a list shows is the number of its rows, unless two handlers  *)
(* changed the list at the same time: each saves the number it read with   *)
(* the list, plus or minus its own rows, and a removal reads it before it  *)
(* goes through the campaigns.  No later handler counts a manual list anew.*)
(***************************************************************************)
CountsAddUp ==
    \A l \in made \ mixed : count[l] = Cardinality(RowsOf(l))
=============================================================================
