\* Two tasks and a hot tier of one entry: evictions and promotions overlap.
SPECIFICATION UndisturbedSpec
CONSTANTS
    v = v
    w = w
    None = None
    thumb = thumb
    page = page
    Task = {t1, t2}
    Key = {a, b}
    Val = {v, w}
    Size <- UnitSizes
    MaxSize = 1
    TTL = {0, 1}
    DefaultTTL = 1
    NoTTL = NoTTL
    NoEntry = NoEntry
    NoVal = NoVal
    NoKey = NoKey
    DryMiss = NoVal
    ColdMiss = NoVal
    Store = "null"
    NoRow = NoRow
    NoTier = NoTier
    ColdInit <- NothingInCold
    Rules <- NoRules
    Unnamed = Unnamed
    Requests <- PlainOrForever
    Patterns = {{a, b}}
    FlushTiers = {"all"}
    Steps = {2}
    MaxHits = 1
PROPERTIES
    PromotionKeepsNewerValue
