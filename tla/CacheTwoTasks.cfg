\* Two tasks on a fair event loop, and a hot tier of one entry: evictions and
\* promotions overlap.
SPECIFICATION FairSpec
CONSTANTS
    v = v
    w = w
    None = None
    thumb = thumb
    page = page
    Task = {t1, t2}
    Key = {a, b}
    Val = {v, w}
    Size <- UnitSizes
    MaxSize = 1
    TTL = {1}
    DefaultTTL = 1
    NoTTL = NoTTL
    NoEntry = NoEntry
    NoVal = NoVal
    NoKey = NoKey
    DryMiss = NoVal
    ColdMiss = NoVal
    Store = "null"
    NoRow = NoRow
    NoTier = NoTier
    ColdInit <- NothingInCold
    Rules <- NoRules
    Unnamed = Unnamed
    Requests <- PlainRequests
    Patterns = {{a, b}}
    FlushTiers = {"all"}
    Steps = {2}
    MaxHits = 1
PROPERTIES
    NoSilentLoss
    CallsReturn
    EvictedReachesDry
