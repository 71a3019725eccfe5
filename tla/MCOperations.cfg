SPECIFICATION Spec
CONSTANTS
    Admins = {a1}
    Superadmins = {s1}
    Collectors = {c1}
    Runners = {r1, r2}
    MaxPickups = 2
    MaxVersion = 5
    MaxChecks = 1
    NoOne = NoOne
    PartnerRequests = {p1, p2}
    Bags = {b1, b2}
    Conditions = {"GOOD", "POOR", "NOT_RETURNED"}
    MaxReopens = 1
    Types = {A, B}
    PricedItems = {i1}
    RateShapes <- OfRates
    TypeShapes <- OfTypes
    Mults = {3}
    ItemWeights = {1, 3}
    MachineMax = 3
    SessionCaps = {3}
    MaxEdits = 1
    MaxTime = 1
    Null = Null
    PayoutRequests = {y1, y2}
    LegacyPayouts = {y1}
    MaxNames = 1
    Sockets = {k1}
    Orgs = {"o1", "o2"}
    RevalidateTicks = 2
    SessionEnds = 3
    MaxClock = 3
    MaxAccountChanges = 1
    Regions = {A, B, C}
    Sites = {k1}
    Curators = {r1, r2}
    NoRegion = Null
    CampaignIds = {c1}
    CampaignSessions = {i1}
    CampaignTrips = {t1}
    CampaignRates = {y1}
    Managers = {r1, r2}
    NoCampaign = Null
    CampaignKinds = {"TRASH_BAG", "EVENT"}
    Enforcing = TRUE
    MaxUpdates = 3
    WasteTypes = {A, B}
    FleetMachines = {k1}
    FleetDesks = {r1, r2}
    NoRow = Null
SYMMETRY Symmetry
CHECK_DEADLOCK FALSE
INVARIANTS
    
    TripSettledOnce
    PaidWithinCeiling
    SitesHold
    CampaignsHold
PROPERTIES
    PickupDecidedOnce
    DestinationStands
