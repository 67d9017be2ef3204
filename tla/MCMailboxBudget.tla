--------------------------- MODULE MCMailboxBudget ---------------------------
(***************************************************************************)
(* Instances of MailboxBudget for TLC.                                     *)
(***************************************************************************)
EXTENDS MailboxBudget, TLC

CONSTANTS c1, c2, b1, s1, s2, s3, w1, reply

\* Two campaigns that send through one mailbox
SharedMailbox ==
  (s1 :> [of |-> c1, mailbox |-> b1]) @@ (s2 :> [of |-> c2, mailbox |-> b1])

=============================================================================
