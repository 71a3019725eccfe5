---------------------------- MODULE MCOperations ----------------------------
(***************************************************************************)
(* The operators' side for TLC: pickup dispatch, partnerships, trips,      *)
(* prices, payout destinations, the realtime gateway, regions, campaigns   *)
(* and the fleet.  They share no state, so one run checks them side by     *)
(* side: a behaviour follows one part, chosen at the start, and the others *)
(* rest in an initial state.                                               *)
(***************************************************************************)
EXTENDS PickupDispatch, Partnership, TripValidation, SessionPricing, PayoutDestination, RealtimeGateway,
        Regions, Campaigns, Fleet, TLC

VARIABLE part

opsVars == <<part, pickupVars, partnershipVars, tripVars, pricingVars, payoutVars, gatewayVars,
             regionVars, campaignVars, fleetVars>>

\* Waste types and rates: per item, per kilogram with and without bounds.
PerItem == [unit |-> "ITEM", points |-> 1, min |-> Null, max |-> Null]
PerKilo == [unit |-> "KG", points |-> 2, min |-> Null, max |-> Null]
PerKiloBounded == [unit |-> "KG", points |-> 3, min |-> 1, max |-> 1]
OfRates == {PerItem, PerKilo}
OfTypes == {PerItem, PerKiloBounded}

\* The parts with several initial states rest in one of them.
PricingRests ==
    /\ rates = <<>> /\ wtype = [t \in Types |-> PerItem] /\ policy.kind = "legacy"
    /\ live = [money |-> FALSE, campaign |-> FALSE, mult |-> BPS]
PayoutRests ==
    /\ payoutAccount.status = "absent"
    /\ \A p \in LegacyPayouts : payout[p].status = "FAILED"
GatewayRests == viewer.role = "ADMIN" /\ viewer.org = "o1"

Init ==
    /\ part \in {"pickups", "partnerships", "trips", "pricing", "payouts", "gateway",
                "regions", "campaigns", "fleet"}
    /\ PickupInit /\ PartnershipInit /\ TripInit /\ PricingInit /\ PayoutInit /\ GatewayInit
    /\ RegionInit /\ CampaignInit /\ FleetInit
    /\ part # "pricing" => PricingRests
    /\ part # "payouts" => PayoutRests
    /\ part # "gateway" => GatewayRests

Next ==
    \/ part = "pickups" /\ PickupNext
       /\ UNCHANGED <<part, partnershipVars, tripVars, pricingVars, payoutVars, gatewayVars,
                      regionVars, campaignVars, fleetVars>>
    \/ part = "partnerships" /\ PartnershipNext
       /\ UNCHANGED <<part, pickupVars, tripVars, pricingVars, payoutVars, gatewayVars,
                      regionVars, campaignVars, fleetVars>>
    \/ part = "trips" /\ TripNext
       /\ UNCHANGED <<part, pickupVars, partnershipVars, pricingVars, payoutVars, gatewayVars,
                      regionVars, campaignVars, fleetVars>>
    \/ part = "pricing" /\ PricingNext
       /\ UNCHANGED <<part, pickupVars, partnershipVars, tripVars, payoutVars, gatewayVars,
                      regionVars, campaignVars, fleetVars>>
    \/ part = "payouts" /\ PayoutNext
       /\ UNCHANGED <<part, pickupVars, partnershipVars, tripVars, pricingVars, gatewayVars,
                      regionVars, campaignVars, fleetVars>>
    \/ part = "gateway" /\ GatewayNext
       /\ UNCHANGED <<part, pickupVars, partnershipVars, tripVars, pricingVars, payoutVars,
                      regionVars, campaignVars, fleetVars>>
    \/ part = "regions" /\ RegionNext
       /\ UNCHANGED <<part, pickupVars, partnershipVars, tripVars, pricingVars, payoutVars,
                      gatewayVars, campaignVars, fleetVars>>
    \/ part = "campaigns" /\ CampaignNext
       /\ UNCHANGED <<part, pickupVars, partnershipVars, tripVars, pricingVars, payoutVars,
                      gatewayVars, regionVars, fleetVars>>
    \/ part = "fleet" /\ FleetNext
       /\ UNCHANGED <<part, pickupVars, partnershipVars, tripVars, pricingVars, payoutVars,
                      gatewayVars, regionVars, campaignVars>>

\* Escalation passes, requests and pages are interchangeable, and so are two of
\* the waste types and regions: the parts name theirs with the same values.
Symmetry == Permutations(Runners) \cup Permutations(Types)

Spec == Init /\ [][Next]_opsVars

\* Who acts or reads for an organization has the standing for it: a collector
\* works only for one a superadmin approved the pair for, and an alert reaches
\* only those entitled to it (lib/partnership.ts, realtime/server.mjs).
StandingRespected == NeverActiveUnapproved /\ AlertsToTheEntitled

\* Where machines stand and what they take stays whole under edits that do not
\* see each other (api/regions, api/machines, api/waste-types).
SitesHold == RegionsHold /\ FleetHolds
=============================================================================
