-------------------------- MODULE MCMessageTracking --------------------------
(***************************************************************************)
(* Instances of MessageTracking for TLC.                                   *)
(***************************************************************************)
EXTENDS MessageTracking, TLC

CONSTANTS m1, m2, r1, e1, x1, w1, w2, reply, bounce, boot

\* One message, or two of a sequence, to one recipient
SoleRecipient == [m \in Messages |-> r1]
SoleAddress == [r \in Recipients |-> e1]
InSequence == [m \in Messages |-> IF m = m1 THEN 1 ELSE 2]
=============================================================================
