-------------------------- MODULE MCRewardFunding --------------------------
(***************************************************************************)
(* RewardFunding for TLC: which source belongs to whom.                    *)
(***************************************************************************)
EXTENDS RewardFunding

CONSTANTS c1, o1, o2, u1, s1, t1, t2, i1, i2

\* One organization and one campaign for everything.
OneOrg == [s \in Sources |-> o1]
OneCampaign == [s \in Sources |-> c1]
OneUser == [s \in Sources |-> u1]
OneSession == [i \in Items |-> s1]
SmallBudget == [c \in Campaigns |-> 5]

\* The session belongs to another organization than the trip.
TwoOrgs == [s \in Sources |-> IF s \in Sessions THEN o2 ELSE o1]
TripCampaign == [s \in Sources |-> IF s \in Sessions THEN NoCampaign ELSE c1]

TopupAndReversal == {2, -1}
Topup == {2}
=============================================================================
