\* One task, cancelled calls, restarts, and an entry that starts in cold.
SPECIFICATION HSpec
CONSTANTS
    v = v
    w = w
    Task = {t1}
    Key = {a, b}
    Val = {v, w}
    Size <- TwoSizes
    MaxSize = 2
    TTL = {0, 1}
    DefaultTTL = 1
    NoTTL = NoTTL
    NoEntry = NoEntry
    NoVal = NoVal
    NoKey = NoKey
    DryMiss = NoVal
    ColdMiss = NoVal
    Store = "null"
    NoRow = NoRow
    NoTier = NoTier
    ColdInit <- OneInCold
    Rules <- NoRules
    Unnamed = Unnamed
    Requests <- PlainOrForever
    Patterns = {{a, b}}
    FlushTiers = {"hot", "cold", "dry", "all"}
    Steps = {2}
    MaxHits = 1
SYMMETRY KeySymmetry
INVARIANTS
    NothingComesBack
PROPERTIES
    NoSilentLoss
