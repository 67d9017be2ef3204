------------------------- MODULE MCCampaignDispatch -------------------------
(***************************************************************************)
(* Instances of CampaignDispatch for TLC.                                  *)
(***************************************************************************)
EXTENDS CampaignDispatch, TLC

CONSTANTS c1, c2, r1, r2, r3, e1, e2, m1, m2, m3, m4, m5, m6, w1, w2

\* One campaign, two recipients with an address each
OneCampaign == [r \in {r1, r2} |-> c1]
OwnAddress == (r1 :> e1) @@ (r2 :> e2)

\* One recipient
SoleCampaign == [r \in {r1} |-> c1]
SoleAddress == [r \in {r1} |-> e1]

\* Two campaigns that both mail the same address
TwoCampaigns == (r1 :> c1) @@ (r2 :> c2)
SharedAddress == [r \in {r1, r2} |-> e1]

=============================================================================
