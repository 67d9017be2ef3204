--------------------------- MODULE DeleteRequests ---------------------------
(***************************************************************************)
(* Campaigns and prospects of one organization: created against the quota, *)
(* deleted at once by those who may, or on a request that somebody else    *)
(* approves.  The two kinds have the same code twice.  A row that is saved *)
(* from a copy after it was deleted is inserted again, as TypeORM does.    *)
(***************************************************************************)
EXTENDS OrgQuota

CONSTANTS
    Items,          \* ids of campaigns and prospects
    Kind,           \* item |-> the key its quota has
    Requests,       \* ids of delete requests
    Absent          \* a request that was not made yet

VARIABLES
    item,           \* campaigns and prospects: "absent", "live" or "gone"
    request,        \* delete requests
    revived,        \* history: items that were inserted again
    imported        \* history: prospects that came by an import

removalVars == <<item, request, revived, imported>>

RequestRows ==
    [item : Items \cup {Null},          \* campaignId: null once it is deleted
     about : Items,                     \* history: what campaignId was
     status : {"pending", "approved", "rejected", "cancelled"}]

ASSUME RemovalAssumption ==
    /\ Kind \in [Items -> Keys]
    /\ Absent \notin RequestRows
    /\ Null \notin Items

Made(r) == request[r] # Absent
Pending(r) == Made(r) /\ request[r].status = "pending"
PendingAbout(i) == {r \in Requests : Pending(r) /\ request[r].about = i}
Live(kind) == {i \in Items : Kind[i] = kind /\ item[i] = "live"}

RemovalCalls ==
         [op : {"insertItem", "importItems"}, kind : Keys]
    \cup [op : {"findPending", "saveRequest", "cancelPending", "removeItem",
                "saveItem"}, item : Items]
    \cup [op : {"findApproved", "commitApproval"},
          request : Requests, item : Items]
    \cup [op : {"selectAnswered", "updateAnswered"}, request : Requests,
          item : Items \cup {Null}, answer : {"rejected", "cancelled"}]

-----------------------------------------------------------------------------
CreateItem(w, kind) ==
    /\ \E i \in Items : Kind[i] = kind
    /\ WithinLimit(kind, Cardinality(Live(kind)))
    /\ Begin(w, [op |-> "insertItem", kind |-> kind])
    /\ UNCHANGED removalVars

Unborn(kind) == {i \in Items : Kind[i] = kind /\ item[i] = "absent"}

InsertItem(w) ==
    /\ call[w].op = "insertItem"
    /\ Unborn(call[w].kind) # {}
    /\ item' = [item EXCEPT ![CHOOSE i \in Unborn(call[w].kind) : TRUE] = "live"]
    /\ Return(w)
    /\ UNCHANGED <<request, revived, imported>>

(* A file or a list of prospects: the addresses that exist already are     *)
(* left out, and the others are inserted, whatever the limit.              *)

ImportItems(w) ==
    /\ Begin(w, [op |-> "importItems", kind |-> "prospects"])
    /\ UNCHANGED removalVars

InsertImported(w) ==
    /\ call[w].op = "importItems"
    /\ \E rows \in SUBSET Unborn(call[w].kind) :
        /\ rows = Unborn(call[w].kind) => rows = {}  \* bound: ids for InsertItem
        /\ item' = [i \in Items |-> IF i \in rows THEN "live" ELSE item[i]]
        /\ imported' = imported \cup rows
    /\ Return(w)
    /\ UNCHANGED <<request, revived>>

\* updateProspect reads the row, and saves it after its checks.
UpdateItem(w, i) ==
    /\ Kind[i] = "prospects"
    /\ item[i] = "live"
    /\ Begin(w, [op |-> "saveItem", item |-> i])
    /\ UNCHANGED removalVars

Restored(i) ==
    /\ item' = [item EXCEPT ![i] = "live"]
    /\ revived' = IF item[i] = "live" THEN revived ELSE revived \cup {i}
    /\ UNCHANGED <<request, imported>>

SaveItem(w) ==
    /\ call[w].op = "saveItem"
    /\ Restored(call[w].item)
    /\ Return(w)

(* deleteCampaign, deleteProspect.  The foreign key of the requests is set *)
(* to null with the row.                                                   *)

DeleteItem(w, i) ==
    /\ item[i] = "live"
    /\ Begin(w, [op |-> "cancelPending", item |-> i])
    /\ UNCHANGED removalVars

Answered(rs, answer) ==
    [r \in Requests |-> IF r \in rs THEN [request[r] EXCEPT !.status = answer]
                                    ELSE request[r]]

\* A mutant for the runs: the deletion leaves the requests as they are.
LeavePending(w) ==
    /\ call[w].op = "cancelPending"
    /\ GoOn(w, [op |-> "removeItem", item |-> call[w].item])
    /\ UNCHANGED removalVars

CancelPending(w) ==
    /\ call[w].op = "cancelPending"
    /\ request' = Answered({r \in Requests : Pending(r) /\
                                             request[r].item = call[w].item},
                           "cancelled")
    /\ GoOn(w, [op |-> "removeItem", item |-> call[w].item])
    /\ UNCHANGED <<item, revived, imported>>

Unlinked(rows, i) ==
    [r \in Requests |-> IF rows[r] # Absent /\ rows[r].item = i
                        THEN [rows[r] EXCEPT !.item = Null] ELSE rows[r]]

Removal(rows, i) ==
    /\ item' = [item EXCEPT ![i] = "gone"]
    /\ request' = Unlinked(rows, i)
    /\ UNCHANGED <<revived, imported>>

RemoveItem(w) ==
    /\ call[w].op = "removeItem"
    /\ IF item[call[w].item] = "live" THEN Removal(request, call[w].item)
                                      ELSE UNCHANGED removalVars
    /\ Return(w)

-----------------------------------------------------------------------------
AskDelete(w, i) ==
    /\ item[i] = "live"
    /\ Begin(w, [op |-> "findPending", item |-> i])
    /\ UNCHANGED removalVars

LinkedPending(i) == {r \in Requests : Pending(r) /\ request[r].item = i}

FindPending(w) ==
    /\ call[w].op = "findPending"
    /\ IF LinkedPending(call[w].item) = {}
       THEN GoOn(w, [op |-> "saveRequest", item |-> call[w].item])
       ELSE Return(w)
    /\ UNCHANGED removalVars

\* The foreign key refuses a request about a row that is gone.
SaveRequest(w) ==
    /\ call[w].op = "saveRequest"
    /\ \E r \in Requests : ~Made(r)
    /\ LET r == CHOOSE r \in Requests : ~Made(r)
           i == call[w].item
       IN  request' = IF item[i] = "live"
                      THEN [request EXCEPT ![r] = [item |-> i, about |-> i,
                                                   status |-> "pending"]]
                      ELSE request
    /\ Return(w)
    /\ UNCHANGED <<item, revived, imported>>

Approve(w, r) ==
    /\ Pending(r)
    /\ request[r].item # Null
    /\ Begin(w, [op |-> "findApproved", request |-> r, item |-> request[r].item])
    /\ UNCHANGED removalVars

\* The transaction looks for the request again, while it is pending.
FindApproved(w) ==
    /\ call[w].op = "findApproved"
    /\ IF Pending(call[w].request)
       THEN GoOn(w, [call[w] EXCEPT !.op = "commitApproval"])
       ELSE Return(w)
    /\ UNCHANGED removalVars

\* A mutant for the runs: the deletion is not part of the transaction.
ApprovalSaved(r, i) ==
    request' = Answered({r}, "approved") /\ UNCHANGED <<item, revived, imported>>

\* It saves the request and deletes the row, or neither.
ApprovalCommitted(r, i) ==
    IF item[i] = "live" THEN Removal(Answered({r}, "approved"), i)
                        ELSE UNCHANGED removalVars

CommitApproval(w) ==
    /\ call[w].op = "commitApproval"
    /\ ApprovalCommitted(call[w].request, call[w].item)
    /\ Return(w)

\* reject, and cancel by the requester
Answer(w, r, answer) ==
    /\ Pending(r)
    /\ Begin(w, [op |-> "selectAnswered", request |-> r,
                 item |-> request[r].item, answer |-> answer])
    /\ UNCHANGED removalVars

(* TypeORM's save reads the row and updates the columns that differ.  If   *)
(* the item was deleted in between, its id is one of them, and the foreign *)
(* key refuses the update.  If it is deleted after that read, only the     *)
(* status is written.                                                      *)

SelectAnswered(w) ==
    /\ call[w].op = "selectAnswered"
    /\ IF request[call[w].request].item = call[w].item
       THEN GoOn(w, [call[w] EXCEPT !.op = "updateAnswered"])
       ELSE Return(w)
    /\ UNCHANGED removalVars

UpdateAnswered(w) ==
    /\ call[w].op = "updateAnswered"
    /\ request' = Answered({call[w].request}, call[w].answer)
    /\ Return(w)
    /\ UNCHANGED <<item, revived, imported>>

-----------------------------------------------------------------------------
RowStep(w) ==
    \/ \E key \in Keys : CreateItem(w, key)
    \/ \E i \in Items : DeleteItem(w, i) \/ UpdateItem(w, i)
    \/ InsertItem(w) \/ SaveItem(w) \/ CancelPending(w) \/ RemoveItem(w)

RequestStep(w) ==
    \/ \E i \in Items : AskDelete(w, i)
    \/ \E r \in Requests :
        \/ Approve(w, r)
        \/ \E answer \in {"rejected", "cancelled"} : Answer(w, r, answer)
    \/ FindPending(w) \/ SaveRequest(w)
    \/ FindApproved(w) \/ CommitApproval(w)
    \/ SelectAnswered(w) \/ UpdateAnswered(w)

ImportStep(w) == ImportItems(w) \/ InsertImported(w)

RemovalTypeOK ==
    /\ item \in [Items -> {"absent", "live", "gone"}]
    /\ request \in [Requests -> RequestRows \cup {Absent}]
    /\ revived \subseteq Items
    /\ imported \subseteq Items

-----------------------------------------------------------------------------
(***************************************************************************)
(* An approved request has had its effect, whatever other requests about   *)
(* the campaign or prospect did meanwhile: approval and deletion are one   *)
(* transaction, which a second deletion makes fail.  Only a save of what   *)
(* was read before the deletion, by an edit or for a campaign by the       *)
(* scheduler, brings the row back.                                         *)
(***************************************************************************)
ApprovedMeansDeleted ==
    \A r \in Requests :
        (Made(r) /\ request[r].status = "approved")
            => \/ item[request[r].about] = "gone"
               \/ request[r].about \in revived

(***************************************************************************)
(* Requests about one row: at most one is pending per handler that can be  *)
(* in progress, and fewer once the row is deleted for good, since the      *)
(* deletion answers those it knows of.  A request that overlaps with the   *)
(* deletion stays pending with nothing to delete.                          *)
(***************************************************************************)
FewRequestsPend ==
    \A i \in Items \ revived :
        /\ Cardinality(PendingAbout(i)) <= Cardinality(Slots)
        /\ item[i] = "gone" => Cardinality(PendingAbout(i)) < Cardinality(Slots)
=============================================================================
