SPECIFICATION Spec
CONSTANTS
    c1 = c1  o1 = o1  o2 = o2  u1 = u1  s1 = s1  t1 = t1  t2 = t2  i1 = i1  i2 = i2
    Orgs = {o1, o2}
    Campaigns = {c1}
    Sessions = {s1}
    Trips = {t1}
    Items = {i1}
    Users = {u1}
    Refs = {r1, r2}
    Payouts = {p1}
    OrgOf <- TwoOrgs
    CampaignOf <- TripCampaign
    UserOf <- OneUser
    SessionOf <- OneSession
    Budget <- SmallBudget
    Enforced = TRUE
    Ceilings = {1}
    Prices = {1}
    ItemCap = 1
    Grosses = {2}
    CashAmounts <- TopupAndReversal
    MaxRows = 2
    MaxMult = 2
    MaxFunding = 9
    NoCampaign = NoCampaign
    NoOrg = NoOrg
CHECK_DEADLOCK FALSE
INVARIANTS
    CapacityRespected
    TripRewardCovered
