-------------------------- MODULE OutreachPromise --------------------------
(***************************************************************************)
(* What the campaign pipeline promises the people it writes to, with no    *)
(* scheduler, tables or handlers in sight:                                 *)
(*   - each recipient gets the steps of the sequence in order, none left   *)
(*     out (a step may come twice: the pipeline promises at least once);   *)
(*   - after an address is put on the exclusion list at most one more      *)
(*     email goes to it, the one that was already on its way, until it is  *)
(*     taken off the list again.                                           *)
(* CampaignDispatch implements it.                                         *)
(***************************************************************************)
EXTENDS Integers

CONSTANTS Recipients, Emails, EmailOf, Steps

VARIABLES
  delivered,  \* pairs of a recipient and a step the provider has accepted
  excluded,   \* addresses on the exclusion list
  straggled   \* those of them that were written to after they were excluded

promiseVars == <<delivered, excluded, straggled>>

Init ==
  /\ delivered = {}
  /\ excluded = {}
  /\ straggled = {}

Deliver(r, k) ==
  /\ \A j \in Steps : j < k => <<r, j>> \in delivered
  /\ EmailOf[r] \notin straggled
  /\ delivered' = delivered \cup {<<r, k>>}
  /\ straggled' = straggled \cup ({EmailOf[r]} \cap excluded)
  /\ UNCHANGED excluded

Exclude(e) ==
  /\ e \notin excluded
  /\ excluded' = excluded \cup {e}
  /\ UNCHANGED <<delivered, straggled>>

Readmit(e) ==
  /\ e \in excluded
  /\ excluded' = excluded \ {e}
  /\ straggled' = straggled \ {e}
  /\ UNCHANGED delivered

Next ==
  \/ \E r \in Recipients, k \in Steps : Deliver(r, k)
  \/ \E e \in Emails : Exclude(e) \/ Readmit(e)

Spec == Init /\ [][Next]_promiseVars
=============================================================================
