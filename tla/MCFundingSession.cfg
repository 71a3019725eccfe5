SPECIFICATION Spec
CONSTANTS
    c1 = c1  o1 = o1  o2 = o2  u1 = u1  s1 = s1  t1 = t1  t2 = t2  i1 = i1  i2 = i2
    Orgs = {o1}
    Campaigns = {c1}
    Sessions = {s1}
    Trips = {}
    Items = {i1, i2}
    Users = {u1}
    Refs = {}
    Payouts = {p1, p2}
    OrgOf <- OneOrg
    CampaignOf <- OneCampaign
    UserOf <- OneUser
    SessionOf <- OneSession
    Budget <- SmallBudget
    Enforced = FALSE
    Ceilings = {0, 1, 3}
    Prices = {0, 1, 2}
    ItemCap = 2
    Grosses = {1, 2}
    CashAmounts <- TopupAndReversal
    MaxRows = 1
    MaxMult = 1
    MaxFunding = 4
    NoCampaign = NoCampaign
    NoOrg = NoOrg
CHECK_DEADLOCK FALSE
INVARIANTS
    HeldConserved
    WatermarkedResidueFreed

    
