\* One task, sqlite tracking, a dry tier that answers None for a miss, two
\* keys, and a value that fills the tier.
SPECIFICATION UndisturbedSpec
CONSTANTS
    v = v
    w = w
    None = None
    thumb = thumb
    page = page
    Task = {t1}
    Key = {a, b}
    Val = {v, w, None}
    Size <- WithNone
    MaxSize = 2
    TTL = {0, 1}
    DefaultTTL = 1
    NoTTL = NoTTL
    NoEntry = NoEntry
    NoVal = NoVal
    NoKey = NoKey
    DryMiss = None
    ColdMiss = NoVal
    Store = "sqlite"
    NoRow = NoRow
    NoTier = NoTier
    ColdInit <- NothingInCold
    Rules <- ThreeRules
    Unnamed = Unnamed
    Requests <- AllRequests
    Patterns = {{a, b}}
    FlushTiers = {"all"}
    Steps = {2}
    MaxHits = 1
INVARIANTS
    TypeOK
    TrackingIsAccurate
PROPERTIES
    IsAMap
    GetAnswersCurrent
    HitHistorySurvivesTierChange
    LifetimeByPriority
