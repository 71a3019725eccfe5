--------------------------- MODULE SessionPricing ---------------------------
(***************************************************************************)
(* What an item is worth: reward rates and their versions (lib/reward.ts,  *)
(* api/reward-rates), waste types and campaign configuration, the          *)
(* admission snapshot of a session (lib/session-policy.ts), the per-item   *)
(* caps the machine counts against the signed ceiling (rvm/lease.py), and  *)
(* the price at the acceptance point and at an approval.                   *)
(*                                                                         *)
(* One session on one machine, followed from before its admission.         *)
(* Operators change rates, types and the program at any time; an item the  *)
(* machine accepted reaches the server at any later time, in any order.    *)
(*                                                                         *)
(* Abstractions: rupiah are small numbers, multipliers are counted in      *)
(* 1/BPS and weights in 1/KILO kilograms with BPS = KILO = 2, so that      *)
(* rounding up, down and to the nearest all differ; the hash and signature *)
(* of the snapshot are taken as unforgeable; an item counts once; sensor   *)
(* anomalies, fraud and lateness are a free choice.                        *)
(***************************************************************************)
EXTENDS Integers, Sequences, SequencesExt, Functions

CONSTANTS Types,       \* waste types linked to the machine
          PricedItems, \* deposit items of the session
          RateShapes,  \* what an operator may enter for a rate: unit, points, window
          TypeShapes,  \* what a waste type may be configured to
          Mults,       \* campaign multipliers, in 1/BPS
          ItemWeights, \* measured weights, in 1/KILO kg
          MachineMax,  \* the machine's own max_item_weight_grams
          SessionCaps, \* configured session ceilings
          MaxEdits,    \* bound: configuration changes by operators
          MaxTime,     \* bound: instants
          Null

ASSUME PricingConstants ==
    /\ RateShapes \cup TypeShapes \subseteq
         [unit : {"ITEM", "KG"}, points : Nat, min : Nat \cup {Null}, max : Nat \cup {Null}]
    /\ Mults \subseteq Nat \ {0} /\ ItemWeights \subseteq Nat /\ MachineMax \in Nat
    /\ SessionCaps \subseteq Nat \ {0} /\ MaxEdits \in Nat /\ MaxTime \in Nat
    /\ IsFiniteSet(Types) /\ IsFiniteSet(PricedItems) /\ Null \notin Types /\ Null \notin Nat

VARIABLES
    rates,   \* RewardRate rows in order of creation
    wtype,   \* the live row of each waste type
    linked,  \* types active on the machine now
    live,    \* the program now: mode, multiplier, whether a machine campaign applies
    instant,   \* the instant
    edits,   \* configuration changes so far
    policy,  \* admission snapshot of the session; kind: unadmitted, legacy (none stored), snapshot
    consumed, \* rupiah the machine counted against the ceiling
    priced   \* each item: its progress, evidence and prices

pricingVars == <<rates, wtype, linked, live, instant, edits, policy, consumed, priced>>

BPS == 2
KILO == 2
Scopes == <<"campaign", "organization", "global">>
Or(a, b) == IF a = Null THEN b ELSE a                        \* a ?? b

-----------------------------------------------------------------------------
(* Rates.                                                                  *)

\* The half-open window [effectiveFrom, effectiveTo).
rateWindowContains(r, at) == r.from <= at /\ (r.to = Null \/ r.to > at)

ratePriority(r) == CHOOSE p \in DOMAIN Scopes : Scopes[p] = r.scope

\* selectRewardRate: campaign, then organization, then global scope, the newest
\* start within a scope; rows that tie are both possible answers.
selectRewardRate(t, at, requireActive) ==
    LET fits == {n \in DOMAIN rates : /\ rates[n].type = t
                                      /\ rateWindowContains(rates[n], at)
                                      /\ rates[n].scope = "campaign" => live.campaign
                                      /\ requireActive => rates[n].active}
        beats(m, n) == \/ ratePriority(rates[m]) < ratePriority(rates[n])
                       \/ ratePriority(rates[m]) = ratePriority(rates[n]) /\ rates[m].from > rates[n].from
    IN  IF fits = {} THEN {Null} ELSE {n \in fits : \A m \in fits : ~beats(m, n)}

resolveRewardRate(t) == selectRewardRate(t, instant, TRUE)
resolveRewardRateAt(t, at) == selectRewardRate(t, at, FALSE)

\* The rate's own fields over those of the waste type, which alone without one.
Terms(t, n) ==
    LET row == IF n = Null THEN wtype[t] ELSE rates[n]
    IN  [unit |-> row.unit, points |-> row.points, rate |-> n,
         min |-> Or(row.min, wtype[t].min), max |-> Or(row.max, wtype[t].max)]

-----------------------------------------------------------------------------
(* Amounts.                                                                *)

computeRewardAmount(points, mult) == (2 * points * mult + BPS) \div (2 * BPS)     \* Math.round
computeWeightBasedRewardAmount(points, weight, mult) == (points * weight * mult) \div (KILO * BPS)

Amount(terms, weight, mult) ==
    IF terms.unit = "KG" THEN computeWeightBasedRewardAmount(terms.points, weight, mult)
    ELSE computeRewardAmount(terms.points, mult)

validateWeight(weight, min, max) == (min # Null => weight >= min) /\ (max # Null => weight <= max)

\* policyItemCap: a KG type without a maximum weight has no cap here.
policyItemCap(terms, mult) ==
    IF terms.unit = "KG" /\ terms.max = Null THEN Null ELSE Amount(terms, terms.max, mult)

-----------------------------------------------------------------------------
(* Programs and material.                                                  *)

campaignSupportsMachine(p) == p.type = "MACHINE_DEPOSIT" \/ (p.type = "EVENT" /\ p.supportsMachine)

\* The organization's mode without a campaign, the campaign's if it runs at
\* machines, else no money.
machineRewardMode(p) ==
    IF p.type = "none" THEN p.organizationMoney ELSE campaignSupportsMachine(p) /\ p.campaignMoney

Programs ==
    {[money |-> machineRewardMode(p), campaign |-> campaignSupportsMachine(p),
      mult |-> IF campaignSupportsMachine(p) THEN p.mult ELSE BPS] :
        p \in [type : {"none", "MACHINE_DEPOSIT", "EVENT", "TRASH_BAG"}, supportsMachine : BOOLEAN,
               organizationMoney : BOOLEAN, campaignMoney : BOOLEAN, mult : Mults]}

Evidence == [policy : {"AI_REQUIRED", "BARCODE_WEIGHT", "WEIGHT_ONLY"}, taxonomy : BOOLEAN,
             label : {"none", "unsure", "other", "accepted"}, barcode : BOOLEAN, anomaly : BOOLEAN]

\* verifyMaterial: a reported label is never ignored where the type has a
\* taxonomy; the machine's own requirement applies as well.
verifyMaterial(e) ==
    /\ e.label # "none" /\ e.taxonomy => e.label = "accepted"
    /\ e.policy = "AI_REQUIRED" => e.label # "none" /\ e.taxonomy
    /\ e.policy = "BARCODE_WEIGHT" => e.barcode

Doubts == {e.anomaly \/ ~verifyMaterial(e) : e \in Evidence}

-----------------------------------------------------------------------------
(* Admission.                                                              *)

Price(terms, money) == IF money THEN terms ELSE [terms EXCEPT !.points = 0]

\* buildSessionPolicy over one resolution of every linked type.
buildSessionPolicy(choice, ceiling) ==
    [kind |-> "snapshot", money |-> live.money, mult |-> live.mult, ceiling |-> IF live.money THEN ceiling ELSE Null,
     types |-> [t \in linked |-> Price(Terms(t, choice[t]), live.money)]]

Resolutions == {c \in [linked -> DOMAIN rates \cup {Null}] : \A t \in linked : c[t] \in resolveRewardRate(t)}

Unpriced == [state |-> "none", selected |-> Null, type |-> Null, weight |-> 0, cap |-> Null, base |-> 0, paid |-> 0, at |-> 0, rate |-> Null]

Row(t, scope, shape, at) ==
    [unit |-> shape.unit, points |-> shape.points, min |-> shape.min, max |-> shape.max,
     type |-> t, scope |-> scope, from |-> at, to |-> Null, active |-> TRUE]

PricingInit ==
    /\ rates \in {<<>>} \cup {<<Row(t, "organization", shape, 0)>> : t \in Types, shape \in RateShapes}
    /\ wtype \in [Types -> TypeShapes]
    /\ linked = Types
    /\ live \in Programs
    /\ instant = 0
    /\ edits = 0
    /\ policy \in [kind : {"unadmitted", "legacy"}]
    /\ consumed = 0
    /\ priced = [i \in PricedItems |-> Unpriced]

\* decideStart: the snapshot is fixed under the admission locks.
admit(ceiling) ==
    /\ policy.kind = "unadmitted"
    /\ \E choice \in Resolutions : policy' = buildSessionPolicy(choice, ceiling)
    /\ UNCHANGED <<rates, wtype, linked, live, instant, edits, consumed, priced>>

\* ensureSessionPolicy: the first v2 poll of a session admitted before snapshots.
ensureSessionPolicy(ceiling) ==
    /\ policy.kind = "legacy"
    /\ \E choice \in Resolutions : policy' = buildSessionPolicy(choice, ceiling)
    /\ UNCHANGED <<rates, wtype, linked, live, instant, edits, consumed, priced>>

Snapshot == policy.kind = "snapshot"

-----------------------------------------------------------------------------
(* The machine.                                                            *)

CeilDiv(a, b) == (a + b - 1) \div b

\* item_caps: a KG type without a cap is bounded by the machine's own maximum
\* weight, rounded up.
item_caps(t) ==
    LET terms == policy.types[t] IN
    Or(policyItemCap(terms, policy.mult), CeilDiv(MachineMax * terms.points * policy.mult, KILO * BPS))

\* Mutant: an item without a selected type is counted at the cheapest price.
CheapestCap(t) ==
    IF t \in DOMAIN policy.types THEN item_caps(t)
    ELSE IF policy.types = <<>> THEN 0
    ELSE Min({item_caps(u) : u \in DOMAIN policy.types})

\* item_cap: the selected type's, else the dearest type's, else (no types at
\* all) more than the ceiling.
item_cap(t) ==
    IF t \in DOMAIN policy.types THEN item_caps(t)
    ELSE IF policy.types = <<>> THEN (IF policy.ceiling = Null THEN 0 ELSE policy.ceiling + 1)
    ELSE Max({item_caps(u) : u \in DOMAIN policy.types})

item_block_reason(t) == policy.ceiling # Null /\ consumed + item_cap(t) > policy.ceiling

\* A worker with a v2 lease: the acceptance event and the counted cap are one
\* SQLite transaction; a heavier item is rejected before the acceptance beam.
machineAccepts(i, t, weight) ==
    /\ Snapshot
    /\ priced[i].state = "none"
    /\ weight <= MachineMax
    /\ ~item_block_reason(t)
    /\ consumed' = consumed + item_cap(t)
    /\ priced' = [priced EXCEPT ![i] = [@ EXCEPT !.state = "sent", !.selected = t, !.type = t, !.weight = weight, !.cap = item_cap(t)]]
    /\ UNCHANGED <<rates, wtype, linked, live, instant, edits, policy>>

\* A v1 worker, whose lease carries no bound.
machineAcceptsV1(i, t, weight) ==
    /\ policy.kind = "legacy"
    /\ priced[i].state = "none"
    /\ weight <= MachineMax
    /\ priced' = [priced EXCEPT ![i] = [@ EXCEPT !.state = "sent", !.selected = t, !.type = t, !.weight = weight]]
    /\ UNCHANGED <<rates, wtype, linked, live, instant, edits, policy, consumed>>

-----------------------------------------------------------------------------
(* The acceptance point and the review.                                    *)

\* decideReward
decideReward(money, base, weightValid, doubt) ==
    [status |-> IF ~weightValid THEN "REJECTED" ELSE IF doubt THEN "REVIEW" ELSE "ACCEPTED",
     amount |-> IF ~money \/ ~weightValid THEN 0 ELSE IF doubt THEN base \div 2 ELSE base]

\* The snapshot's entry, or for a session without one the rate of now.
PriceList(t) ==
    IF Snapshot THEN {[terms |-> policy.types[t], money |-> policy.money, mult |-> policy.mult]}
    ELSE {[terms |-> Terms(t, n), money |-> live.money, mult |-> live.mult] : n \in resolveRewardRate(t)}

\* A type outside the snapshot, or none at all, has no price here.
Priceable(t) == t # Null /\ (Snapshot => t \in DOMAIN policy.types)

\* A null bound of the price list falls back on the waste type as it is now.
WeightFits(x, terms) == validateWeight(x.weight, Or(terms.min, wtype[x.type].min), Or(terms.max, wtype[x.type].max))

AtAcceptance(x, list, doubt) ==
    LET base == IF list.money THEN Amount(list.terms, x.weight, list.mult) ELSE 0
        d == decideReward(list.money, base, WeightFits(x, list.terms), doubt)
    IN  [x EXCEPT !.state = d.status, !.base = base, !.paid = d.amount, !.at = instant, !.rate = list.terms.rate]

handleAcceptance(i, doubt) ==
    /\ priced[i].state = "sent"
    /\ IF Priceable(priced[i].type)
       THEN \E list \in PriceList(priced[i].type) :
                priced' = [priced EXCEPT ![i] = AtAcceptance(@, list, doubt)]
       ELSE priced' = [priced EXCEPT ![i] = [@ EXCEPT !.state = "REVIEW", !.at = instant]]
    /\ UNCHANGED <<rates, wtype, linked, live, instant, edits, policy, consumed>>

\* acceptanceRate: the recorded rate while its window holds the acceptance.
acceptanceRate(x, t) ==
    IF t = x.type /\ x.rate = Null THEN {Null}
    ELSE IF t = x.type /\ rateWindowContains(rates[x.rate], x.at) THEN {x.rate}
    ELSE resolveRewardRateAt(t, x.at)

ReviewList(x, t) ==
    IF Snapshot THEN PriceList(t)
    ELSE {[terms |-> Terms(t, n), money |-> live.money, mult |-> live.mult] : n \in acceptanceRate(x, t)}

\* approvalTarget: the reviewer settles doubts and may assign another type of
\* the price list; the weight is checked again against that type.
approve(i, t) ==
    LET x == [priced[i] EXCEPT !.type = t] IN
    /\ priced[i].state = "REVIEW"
    /\ Priceable(t)
    /\ \E list \in ReviewList(priced[i], t) :
          /\ WeightFits(x, list.terms)
          /\ priced' = [priced EXCEPT ![i] = [x EXCEPT !.state = "APPROVED",
                           !.paid = IF list.money THEN Amount(list.terms, x.weight, list.mult) ELSE 0]]
    /\ UNCHANGED <<rates, wtype, linked, live, instant, edits, policy, consumed>>

-----------------------------------------------------------------------------
(* Operators.                                                              *)

Edit == edits < MaxEdits /\ edits' = edits + 1

\* POST: expire the active rows of the scope and type, then create the new
\* version.  A row another request creates at the same instant is not seen.
createRate(t, scope, shape, unseen) ==
    LET expires(n) == /\ rates[n].type = t /\ rates[n].scope = scope /\ rates[n].active
                      /\ ~(unseen /\ rates[n].from = instant)
    IN
    /\ Edit
    /\ rates' = Append([n \in DOMAIN rates |->
                          IF expires(n) THEN [rates[n] EXCEPT !.active = FALSE, !.to = instant] ELSE rates[n]],
                        Row(t, scope, shape, instant))
    /\ UNCHANGED <<wtype, linked, live, instant, policy, consumed, priced>>

\* PATCH: switching a rate off ends its window now, switching it on reopens it.
toggleRate(n, active) ==
    /\ Edit
    /\ rates[n].active # active
    /\ rates' = [rates EXCEPT ![n].active = active, ![n].to = IF active THEN Null ELSE instant]
    /\ UNCHANGED <<wtype, linked, live, instant, policy, consumed, priced>>

updateWasteType(t, shape) ==
    /\ Edit
    /\ wtype[t] # shape
    /\ wtype' = [wtype EXCEPT ![t] = shape]
    /\ UNCHANGED <<rates, linked, live, instant, policy, consumed, priced>>

\* The machine's list of types is edited.
linkTypes(S) ==
    /\ Edit
    /\ linked # S
    /\ linked' = S
    /\ UNCHANGED <<rates, wtype, live, instant, policy, consumed, priced>>

changeProgram(next) ==
    /\ Edit
    /\ live # next
    /\ live' = next
    /\ UNCHANGED <<rates, wtype, linked, instant, policy, consumed, priced>>

tickPricing ==
    /\ instant < MaxTime
    /\ instant' = instant + 1
    /\ UNCHANGED <<rates, wtype, linked, live, edits, policy, consumed, priced>>

PricingNext ==
    \/ \E c \in SessionCaps \cup {Null} : admit(c) \/ ensureSessionPolicy(c)
    \/ \E i \in PricedItems :
          \/ \E t \in Types \cup {Null}, w \in ItemWeights : machineAccepts(i, t, w) \/ machineAcceptsV1(i, t, w)
          \/ \E doubt \in Doubts : handleAcceptance(i, doubt)
          \/ \E t \in Types : approve(i, t)
    \/ \E t \in Types, n \in DOMAIN Scopes, shape \in RateShapes, unseen \in BOOLEAN :
          createRate(t, Scopes[n], shape, unseen)
    \/ \E n \in DOMAIN rates, a \in BOOLEAN : toggleRate(n, a)
    \/ \E t \in Types, shape \in TypeShapes : updateWasteType(t, shape)
    \/ \E S \in SUBSET Types : linkTypes(S)
    \/ \E next \in Programs : changeProgram(next)
    \/ tickPricing

PricingSpec == PricingInit /\ [][PricingNext]_pricingVars

-----------------------------------------------------------------------------
(* Properties.                                                             *)

\* What an item counted by the machine draws: the price committed at its
\* acceptance, or that of its approval unless the reviewer overruled the type
\* the user had selected.
Drawn(i) ==
    LET x == priced[i] IN
    IF x.cap = Null \/ x.state \in {"none", "sent", "REJECTED"} THEN 0
    ELSE IF x.state = "APPROVED" /\ x.selected \in {Null, x.type} THEN x.paid
    ELSE x.base

\* Whatever rates, types, multipliers or modes change meanwhile, what the server
\* commits at acceptance and pays at approval for the items a machine accepted
\* under its signed lease never exceeds what the machine counted, nor the
\* ceiling reserved at admission.
PaidWithinCeiling ==
    Snapshot =>
        /\ SumFunction([i \in PricedItems |-> Drawn(i)]) <= consumed
        /\ policy.ceiling # Null => consumed <= policy.ceiling

=============================================================================
