\* One task and two keys, and a crash between any two file operations.
SPECIFICATION Spec
CONSTANTS
    v = v
    w = w
    Task = {t1}
    Key = {a, b}
    Val = {v, w}
    Size <- TwoSizes
    MaxSize = 2
    TTL = {0, 1}
    NoVal = NoVal
    NoKey = NoKey
    NoFile = NoFile
    Blank = Blank
    Torn = Torn
    MaxTime = 2
    MayCrash = TRUE
SYMMETRY Symmetry
INVARIANTS
    TypeOK
    FilesAreTheMap
    CapacityKept
PROPERTIES
    EvictsOldest
    Advances
