\* One task, and a memcached cold tier, which answers None for what it lacks.
SPECIFICATION UndisturbedSpec
CONSTANTS
    v = v
    w = w
    None = None
    thumb = thumb
    page = page
    Task = {t1}
    Key = {a, b}
    Val = {v, w, None}
    Size <- WithNone
    MaxSize = 2
    TTL = {0, 1}
    DefaultTTL = 1
    NoTTL = NoTTL
    NoEntry = NoEntry
    NoVal = NoVal
    NoKey = NoKey
    DryMiss = NoVal
    ColdMiss = None
    Store = "null"
    NoRow = NoRow
    NoTier = NoTier
    ColdInit <- NothingInCold
    Rules <- NoRules
    Unnamed = Unnamed
    Requests <- PlainOrForever
    Patterns = {{a, b}}
    FlushTiers = {"all"}
    Steps = {2}
    MaxHits = 1
PROPERTIES
    GetAnswersCurrent
