------------------------- MODULE MCCampaignDispatch -------------------------
(* Instances of CampaignDispatch for TLC. *)
EXTENDS CampaignDispatch

CONSTANTS c1, r1, r2, r3, w1, w2

(* One campaign; one of its recipients has an unusable phone.           *)
OneCampaign == [r \in Recipients |-> c1]
AllButR2 == Recipients \ {r2}
=============================================================================
