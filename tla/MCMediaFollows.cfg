SPECIFICATION MediaFairSpec
CONSTANTS
    Assets = {m1, m2}
    MaxCached = 2
    MaxPowerCuts = 0
CHECK_DEADLOCK FALSE
PROPERTY PlaylistFollows
