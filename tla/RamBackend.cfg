\* Three keys, values of sizes 1 and 2 in a tier of 3: a set may fit, evict
\* one or two entries, evict the entry it replaces, or empty the tier.
SPECIFICATION Spec
CONSTANTS
    a = a
    b = b
    c = c
    small = small
    big = big
    Key = {a, b, c}
    Val = {small, big}
    Size <- TwoSizes
    MaxSize = 3
    TTL = {0}
    DefaultTTL = 1
    NoTTL = NoTTL
    NoEntry = NoEntry
    Steps = {1, 2}
    MaxIdle = 2
SYMMETRY KeySymmetry
INVARIANTS
    TypeOK
    SizeNeverOverstated
    OverCapacityOnlyAlone
PROPERTIES
    MiscountIsOfOverwrites
    LossIsHanded
    EvictsLeastRecentlyUsed
    SlidingWindow
