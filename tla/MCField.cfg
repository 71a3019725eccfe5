SPECIFICATION Spec
CONSTANTS
    RvmSessions = {s1}
    Signals = {"item", "accept", "panel", "full"}
    Types = {1, 2}
    CeilingRupiah = 1
    MaxItems = 2
    MaxSticks = 2
    MaxCuts = 1
    Handlers = {h1, h2}
    MaxCommands = 1
    MaxStops = 1
    Assets = {m1, m2, m3}
    MaxCached = 2
    MaxPowerCuts = 1
    Captures = {c1, c2}
    Flushers = {f1, f2}
    MaxLocal = 1
    MaxReboots = 1
    Requests = {q1}
    Instances = {i1, i2}
    SKEW = 2
    MARGIN = 2
    MaxStall = 1
    LIMIT = 1
    WINDOW = 2
    MaxTicks = 6
    MaxOutages = 1
CHECK_DEADLOCK FALSE
INVARIANTS
    OnlySafeMotion
    
    RunOnce
    
    GateHolds
PROPERTIES
    
    CommandsSettle
